-------------------------- MODULE AttachmentsProofs --------------------------
(***************************************************************************)
(* What a message carries is complete and an upload called ready has its   *)
(* bytes, for any number of uploads, requests, runs and messages.          *)
(*                                                                         *)
(* The argument: a row becomes ready once, by a request that has written   *)
(* the blob, and everything that takes a row or a blob away asks for a row *)
(* that is not ready.  Between a blob and its row nothing is locked, so    *)
(* the blob's part holds for a key whose requests and clean-ups came one   *)
(* after another: then the request that completes the upload is the only   *)
(* one at work on it.                                                      *)
(***************************************************************************)
EXTENDS Attachments, TLAPS

\* Somebody is at work on a key: a request that carries a file, or clean-up.
Working(p, k) == put[p] # None /\ put[p].key = k
Swept(k) == sweep # None /\ \E d \in sweep.left : d.key = k

IsReady(k) == row[k] # None /\ row[k].status = "ready"

\* Requests and clean-ups of a key, one after another.
InTurn(k) ==
  /\ \A p, q \in Puts : Working(p, k) /\ Working(q, k) => p = q
  /\ \A p \in Puts : Working(p, k) => ~Swept(k)
  /\ \A p \in Puts : Working(p, k) /\ put[p].at = "written" => blob[k] = put[p].file
  /\ IsReady(k) =>
       /\ \A p \in Puts : ~Working(p, k)
       /\ ~Swept(k)
       /\ blob[k] = row[k].sum

\* A run that was granted something was granted it for its trigger.
GrantInv ==
  \A r \in Runs, k \in Keys : <<r, k>> \in grant =>
    run[r] # None /\ <<run[r].trigger, k>> \in link

AttachmentsInv ==
  /\ TypeOK /\ LinksStand /\ GrantInv
  /\ \A k \in Keys \ raced : InTurn(k)

-----------------------------------------------------------------------------
(* Types, one part at a time.                                              *)

UploadType ==
  /\ row \in [Keys -> Row \cup {None}] /\ rows \in [Keys -> 0 .. MaxRows]
  /\ blob \in [Keys -> Contents \cup {None}]
WorkType ==
  /\ put \in [Puts -> Put \cup {None}]
  /\ sweep \in [left : SUBSET Doomed, now : Doomed \cup {None}] \cup {None}
  /\ raced \subseteq Keys
RoomType ==
  /\ link \subseteq Messages \X Keys /\ grant \subseteq Runs \X Keys
  /\ message \in [Messages -> MessageRow \cup {None}]
  /\ run \in [Runs -> RunRow \cup {None}]
  /\ member \subseteq Agents /\ archived \in BOOLEAN
ComposerType ==
  item \in [Items -> Item \cup {None}] /\ troubles \in 0 .. MaxTroubles

LEMMA TypeParts ==
  TypeOK <=> UploadType /\ WorkType /\ RoomType /\ ComposerType
BY DEF TypeOK, UploadType, WorkType, RoomType, ComposerType

LEMMA TroubleType ==
  ASSUME TypeOK, Trouble PROVE troubles' \in 0 .. MaxTroubles
BY AttachmentsAssumption DEF AttachmentsAssumption, TypeOK, Trouble

\* What is written into a row leaves it a row, and not None.
LEMMA RowWritten ==
  ASSUME NEW old \in Row
  PROVE  /\ \A f \in Contents : [old EXCEPT !.status = "ready", !.sum = f] \in Row
         /\ [old EXCEPT !.status = "failed", !.expired = FALSE] \in Row
         /\ \A e \in BOOLEAN : [old EXCEPT !.expired = e] \in Row
         /\ old # None
BY NoneAssumption DEF Row, NoneAssumption

LEMMA CreatePendingType ==
  ASSUME TypeOK, NEW k \in Keys, CreatePending(k)
  PROVE  /\ row' \in [Keys -> Row \cup {None}] /\ rows' \in [Keys -> 0 .. MaxRows]
         /\ \A l \in Keys : row[l] # None => row'[l] = row[l]
         /\ \A l \in Keys : IsReady(l)' => IsReady(l) /\ row'[l] = row[l]
<1> DEFINE new == [number |-> rows[k] + 1, status |-> "pending", sum |-> None,
                   expired |-> FALSE]
<1>1. row \in [Keys -> Row \cup {None}] /\ rows \in [Keys -> 0 .. MaxRows]
      /\ MaxRows \in Nat
  BY AttachmentsAssumption DEF AttachmentsAssumption, TypeOK
<1>2. CASE row[k] # None
  BY <1>1, <1>2 DEF CreatePending, IsReady
<1>3. CASE row[k] = None
  <2>1. new \in Row
    BY <1>1 DEF Row
  <2>2. rows' = [rows EXCEPT ![k] = @ + 1] /\ row' = [row EXCEPT ![k] = new]
        /\ rows[k] < MaxRows
    BY <1>3 DEF CreatePending
  <2>3. row' \in [Keys -> Row \cup {None}] /\ rows' \in [Keys -> 0 .. MaxRows]
    BY <1>1, <2>1, <2>2
  <2>4. \A l \in Keys : l # k => row'[l] = row[l]
    BY <1>1, <2>2
  <2>5. row'[k].status # "ready"
    BY <1>1, <2>2
  <2> QED BY <1>3, <2>3, <2>4, <2>5 DEF IsReady
<1> QED BY <1>2, <1>3

LEMMA StartPutType ==
  ASSUME TypeOK, NEW p \in Puts, NEW k \in Keys, NEW f \in Contents,
         StartPut(p, k, f)
  PROVE  UploadType' /\ WorkType' /\ RoomType' /\ troubles' = troubles
<1>1. row[k] \in Row
  BY DEF TypeOK, StartPut, Accepts
<1>2. [at |-> "writing", key |-> k, number |-> row[k].number, file |-> f] \in Put
  BY <1>1 DEF Row, Put
<1>3. WorkType'
  BY <1>2 DEF TypeOK, StartPut, WorkType
<1> QED BY <1>3 DEF TypeOK, StartPut, UploadType, RoomType, roomVars

LEMMA AdvanceType ==
  ASSUME TypeOK, NEW p \in Puts, put[p] # None,
         NEW place \in {"writing", "written", "failing", "deleted"},
         Advance(p, place)
  PROVE  put' \in [Puts -> Put \cup {None}]
<1>1. put[p] \in Put
  BY DEF TypeOK
<1>2. [put[p] EXCEPT !.at = place] \in Put
  BY <1>1 DEF Put
<1> QED BY <1>2 DEF TypeOK, Advance

LEMMA AnswerType ==
  ASSUME TypeOK, NEW k \in Keys, NEW state \in {"ready", "failed"}, Answer(k, state)
  PROVE  item' \in [Items -> Item \cup {None}]
<1>1. ASSUME NEW i \in Items, item[i] # None PROVE [item[i] EXCEPT !.state = state] \in Item
  BY <1>1 DEF TypeOK, Item
<1> QED BY <1>1 DEF TypeOK, Answer

LEMMA PostType ==
  ASSUME TypeOK, NEW m \in Messages, NEW who \in Agents \cup {Person},
         NEW ks \in SUBSET Keys, Post(m, who, ks)
  PROVE  link' \subseteq Messages \X Keys /\ message' \in [Messages -> MessageRow \cup {None}]
<1>1. [sender |-> who, stands |-> TRUE] \in MessageRow
  BY DEF MessageRow
<1>2. message' \in [Messages -> MessageRow \cup {None}]
  BY <1>1 DEF TypeOK, Post
<1>3. {m} \X ks \subseteq Messages \X Keys
  OBVIOUS
<1> QED BY <1>2, <1>3 DEF TypeOK, Post

-----------------------------------------------------------------------------
(* Every action keeps the types.                                           *)

LEMMA PutStepType ==
  ASSUME TypeOK, NEW p \in Puts, PutStep(p) PROVE TypeOK'
<1>1. ASSUME NEW k \in Keys, NEW f \in Contents, PutOutput(p, k, f) PROVE TypeOK'
  <2>1. UploadType' /\ WorkType' /\ RoomType' /\ troubles' = troubles
    BY <1>1, StartPutType DEF PutOutput
  <2>2. ComposerType'
    BY <1>1, <2>1 DEF TypeOK, PutOutput, ComposerType
  <2> QED BY <2>1, <2>2, TypeParts DEF TypeOK, UploadType, WorkType, RoomType, ComposerType
<1>2. CASE Write(p)
  <2>1. put[p] \in Put /\ put[p] # None
    BY <1>2 DEF TypeOK, Write
  <2>2. blob' \in [Keys -> Contents \cup {None}]
    BY <1>2, <2>1 DEF TypeOK, Write, Put
  <2>3. put' \in [Puts -> Put \cup {None}]
    BY <1>2, <2>1, AdvanceType DEF Write
  <2> QED BY <1>2, <2>2, <2>3 DEF TypeOK, Write, roomVars
<1>3. CASE MarkReady(p)
  <2> DEFINE k == put[p].key
  <2>1. put[p] \in Put /\ put[p] # None /\ k \in Keys /\ put[p].file \in Contents
    BY <1>3 DEF TypeOK, MarkReady, Put
  <2>2. UNCHANGED <<rows, blob, link, grant, message, run, member, archived,
                    sweep, raced, troubles>>
    BY <1>3 DEF MarkReady, roomVars
  <2>3. CASE Completes(p) /\ put' = [put EXCEPT ![p] = None] /\ Answer(k, "ready")
             /\ row' = [row EXCEPT ![k].status = "ready", ![k].sum = put[p].file]
    <3>1. row[k] \in Row
      BY <2>1, <2>3 DEF TypeOK, Completes
    <3>2. [row[k] EXCEPT !.status = "ready", !.sum = put[p].file] \in Row
      BY <2>1, <3>1, RowWritten
    <3>3. row' \in [Keys -> Row \cup {None}]
      BY <2>1, <2>3, <3>2 DEF TypeOK
    <3>4. item' \in [Items -> Item \cup {None}]
      BY <2>1, <2>3, AnswerType
    <3> QED BY <2>2, <2>3, <3>3, <3>4 DEF TypeOK
  <2>4. CASE Advance(p, "failing") /\ UNCHANGED <<row, item>>
    <3>1. put' \in [Puts -> Put \cup {None}]
      BY <2>1, <2>4, AdvanceType
    <3> QED BY <2>2, <2>4, <3>1 DEF TypeOK
  <2> QED BY <1>3, <2>3, <2>4 DEF MarkReady
<1>4. CASE DeleteBlob(p)
  <2>1. put' \in [Puts -> Put \cup {None}]
    BY <1>4, AdvanceType DEF DeleteBlob
  <2>2. blob' \in [Keys -> Contents \cup {None}]
    BY <1>4 DEF TypeOK, DeleteBlob
  <2> QED BY <1>4, <2>1, <2>2 DEF TypeOK, DeleteBlob, roomVars
<1>5. CASE MarkFailed(p)
  <2> DEFINE k == put[p].key
  <2>1. k \in Keys
    BY <1>5 DEF TypeOK, MarkFailed, Put
  <2>2. row[k] # None => [row[k] EXCEPT !.status = "failed", !.expired = FALSE] \in Row
    BY <2>1, RowWritten DEF TypeOK
  <2>3. row' \in [Keys -> Row \cup {None}]
    BY <1>5, <2>1, <2>2 DEF TypeOK, MarkFailed
  <2>4. item' \in [Items -> Item \cup {None}]
    BY <1>5, <2>1, AnswerType DEF MarkFailed
  <2> QED BY <1>5, <2>3, <2>4 DEF TypeOK, MarkFailed, roomVars
<1> QED BY <1>1, <1>2, <1>3, <1>4, <1>5 DEF PutStep

LEMMA ComposerStepType ==
  ASSUME TypeOK, NEW i \in Items, ComposerStep(i) PROVE TypeOK'
<1>1. ASSUME NEW k \in Keys, NEW f \in Contents, Attempt(i, k, f) PROVE TypeOK'
  <2>1. row' \in [Keys -> Row \cup {None}] /\ rows' \in [Keys -> 0 .. MaxRows]
    BY <1>1, CreatePendingType DEF Attempt
  <2>2. [state |-> "uploading", key |-> k, file |-> f] \in Item
    BY DEF Item
  <2>3. item' \in [Items -> Item \cup {None}]
    BY <1>1, <2>2 DEF TypeOK, Attempt
  <2> QED BY <1>1, <2>1, <2>3 DEF TypeOK, Attempt, roomVars
<1>2. ASSUME NEW k \in Keys, NEW f \in Contents, SelectFile(i, k, f) PROVE TypeOK'
  BY <1>1, <1>2 DEF SelectFile
<1>3. ASSUME NEW k \in Keys, Retry(i, k) PROVE TypeOK'
  <2>1. item[i].file \in Contents
    BY <1>3 DEF TypeOK, Retry, Item
  <2> QED BY <1>1, <1>3, <2>1 DEF Retry
<1>4. ASSUME NEW p \in Puts, SendFile(i, p) PROVE TypeOK'
  <2>1. item[i] \in Item
    BY <1>4 DEF TypeOK, SendFile
  <2>2. item[i].key \in Keys /\ item[i].file \in Contents
        /\ [item[i] EXCEPT !.state = "sent"] \in Item
    BY <2>1 DEF Item
  <2>3. UploadType' /\ WorkType' /\ RoomType' /\ troubles' = troubles
    BY <1>4, <2>2, StartPutType DEF SendFile
  <2>4. ComposerType'
    BY <1>4, <2>2, <2>3 DEF TypeOK, SendFile, ComposerType
  <2> QED BY <2>3, <2>4 DEF TypeOK, UploadType, WorkType, RoomType, ComposerType
<1>5. CASE GiveUp(i)
  <2>1. [item[i] EXCEPT !.state = "failed"] \in Item
    BY <1>5 DEF TypeOK, GiveUp, Item
  <2>2. item' \in [Items -> Item \cup {None}] /\ troubles' \in 0 .. MaxTroubles
    BY <1>5, <2>1, TroubleType DEF TypeOK, GiveUp
  <2> QED BY <1>5, <2>2 DEF TypeOK, GiveUp, roomVars
<1>6. CASE Remove(i)
  BY <1>6 DEF TypeOK, Remove, roomVars
<1> QED BY <1>2, <1>3, <1>4, <1>5, <1>6 DEF ComposerStep

LEMMA SendMessageRows ==
  ASSUME TypeOK, NEW m \in Messages, SendMessage(m)
  PROVE  /\ ReadyKeys \subseteq Keys
         /\ \A k \in ReadyKeys : row[k] \in Row
         /\ \A k \in Keys : row'[k] = IF k \in ReadyKeys
              THEN [row[k] EXCEPT !.expired = FALSE] ELSE row[k]
         /\ row' \in [Keys -> Row \cup {None}]
<1>1. ReadyKeys \subseteq Keys
  BY DEF ReadyKeys, TypeOK, Item
<1>2. \A k \in ReadyKeys : row[k] \in Row
  BY <1>1 DEF SendMessage, Linkable, TypeOK
<1>3. \A k \in ReadyKeys : [row[k] EXCEPT !.expired = FALSE] \in Row
  BY <1>2 DEF Row
<1> QED BY <1>1, <1>2, <1>3 DEF SendMessage, TypeOK

LEMMA RoomStepType ==
  ASSUME TypeOK, RoomStep PROVE TypeOK'
<1>1. ASSUME NEW m \in Messages, SendMessage(m) PROVE TypeOK'
  <2>1. ReadyKeys \subseteq Keys /\ row' \in [Keys -> Row \cup {None}]
    BY <1>1, SendMessageRows
  <2>2. link' \subseteq Messages \X Keys /\ message' \in [Messages -> MessageRow \cup {None}]
    BY <1>1, <2>1, PostType DEF SendMessage
  <2>3. item' \in [Items -> Item \cup {None}]
    BY <1>1 DEF TypeOK, SendMessage
  <2> QED BY <1>1, <2>1, <2>2, <2>3 DEF TypeOK, SendMessage
<1>2. ASSUME NEW m \in Messages, Retract(m) PROVE TypeOK'
  <2>1. [message[m] EXCEPT !.stands = FALSE] \in MessageRow
    BY <1>2 DEF TypeOK, Retract, MessageRow
  <2>2. message' \in [Messages -> MessageRow \cup {None}]
    BY <1>2, <2>1 DEF TypeOK, Retract
  <2> QED BY <1>2, <2>2 DEF TypeOK, Retract
<1>3. ASSUME NEW r \in Runs, NEW m \in Messages, NEW ks \in SUBSET Keys, EndRun(r, m, ks)
      PROVE  TypeOK'
  <2>1. AgentOf[r] \in Agents
    BY DEF Agents
  <2>2. link' \subseteq Messages \X Keys /\ message' \in [Messages -> MessageRow \cup {None}]
    BY <1>3, <2>1, PostType DEF EndRun
  <2>3. [run[r] EXCEPT !.status = "ended"] \in RunRow
    BY <1>3 DEF TypeOK, EndRun, RunRow
  <2>4. run' \in [Runs -> RunRow \cup {None}]
    BY <1>3, <2>3 DEF TypeOK, EndRun
  <2> QED BY <1>3, <2>2, <2>4 DEF TypeOK, EndRun
<1>4. ASSUME NEW r \in Runs, NEW m \in Messages, StartRun(r, m) PROVE TypeOK'
  <2>1. [status |-> "queued", trigger |-> m] \in RunRow
    BY DEF RunRow, Active
  <2>2. run' \in [Runs -> RunRow \cup {None}]
    BY <1>4, <2>1 DEF TypeOK, StartRun
  <2> QED BY <1>4, <2>2 DEF TypeOK, StartRun
<1>5. ASSUME NEW r \in Runs, Execute(r) PROVE TypeOK'
  <2>1. \A s \in {"running", "ended"} : [run[r] EXCEPT !.status = s] \in RunRow
    BY <1>5 DEF TypeOK, Execute, RunRow, Active
  <2>2. run' \in [Runs -> RunRow \cup {None}]
    BY <1>5, <2>1 DEF TypeOK, Execute
  <2>3. {r} \X Carries(run[r].trigger) \subseteq Runs \X Keys
    BY DEF Carries
  <2>4. grant' \subseteq Runs \X Keys
    BY <1>5, <2>3 DEF TypeOK, Execute
  <2> QED BY <1>5, <2>2, <2>4 DEF TypeOK, Execute
<1>6. ASSUME NEW a \in Agents, Leave(a) PROVE TypeOK'
  BY <1>6, TroubleType DEF TypeOK, Leave
<1>7. CASE Archive
  BY <1>7, TroubleType DEF TypeOK, Archive
<1> QED BY <1>1, <1>2, <1>3, <1>4, <1>5, <1>6, <1>7 DEF RoomStep

LEMMA SweepStepType ==
  ASSUME TypeOK, SweepStep PROVE TypeOK'
<1>1. ASSUME NEW k \in Keys, Expire(k) PROVE TypeOK'
  <2>1. [row[k] EXCEPT !.expired = TRUE] \in Row
    BY <1>1 DEF TypeOK, Expire, Row
  <2>2. row' \in [Keys -> Row \cup {None}]
    BY <1>1, <2>1 DEF TypeOK, Expire
  <2> QED BY <1>1, <2>2, TroubleType DEF TypeOK, Expire, roomVars
<1>2. CASE ListExpired
  <2>1. \A l \in Keys : Sweepable(l) => [key |-> l, number |-> row[l].number] \in Doomed
    BY DEF TypeOK, Sweepable, Row, Doomed
  <2>2. sweep'.left \subseteq Doomed /\ sweep' \in [left : SUBSET Doomed, now : Doomed \cup {None}]
    BY <1>2, <2>1 DEF ListExpired
  <2>3. raced' \subseteq Keys
    BY <1>2 DEF TypeOK, ListExpired
  <2> QED BY <1>2, <2>2, <2>3, TroubleType DEF TypeOK, ListExpired, roomVars
<1>3. CASE SweepRow
  <2>1. sweep \in [left : SUBSET Doomed, now : Doomed \cup {None}]
    BY <1>3 DEF TypeOK, SweepRow
  <2>2. sweep' \in [left : SUBSET Doomed, now : Doomed \cup {None}] \cup {None}
    BY <1>3, <2>1 DEF SweepRow
  <2>3. row' \in [Keys -> Row \cup {None}]
    BY <1>3 DEF TypeOK, SweepRow
  <2> QED BY <1>3, <2>2, <2>3 DEF TypeOK, SweepRow, roomVars
<1>4. ASSUME NEW d, SweepBlob(d) PROVE TypeOK'
  <2>1. sweep \in [left : SUBSET Doomed, now : Doomed \cup {None}] /\ d \in Doomed
    BY <1>4 DEF TypeOK, SweepBlob
  <2>2. sweep' \in [left : SUBSET Doomed, now : Doomed \cup {None}]
    BY <1>4, <2>1 DEF SweepBlob
  <2>3. blob' \in [Keys -> Contents \cup {None}]
    BY <1>4 DEF TypeOK, SweepBlob
  <2> QED BY <1>4, <2>2, <2>3 DEF TypeOK, SweepBlob, roomVars
<1> QED BY <1>1, <1>2, <1>3, <1>4 DEF SweepStep

LEMMA TypeInductive ==
  ASSUME TypeOK, [Next]_vars PROVE TypeOK'
<1>1. ASSUME NEW k \in Keys, BeginOutput(k) PROVE TypeOK'
  <2>1. row' \in [Keys -> Row \cup {None}] /\ rows' \in [Keys -> 0 .. MaxRows]
    BY <1>1, CreatePendingType DEF BeginOutput
  <2> QED BY <1>1, <2>1 DEF TypeOK, BeginOutput, roomVars
<1>2. CASE Crash
  <2>1. \A r \in Runs : run[r] # None => [run[r] EXCEPT !.status = "queued"] \in RunRow
    BY DEF TypeOK, RunRow, Active
  <2>2. run' \in [Runs -> RunRow \cup {None}]
    BY <1>2, <2>1 DEF TypeOK, Crash
  <2>3. put' \in [Puts -> Put \cup {None}]
    BY <1>2 DEF Crash
  <2> QED BY <1>2, <2>2, <2>3, TroubleType DEF TypeOK, Crash
<1>3. CASE UNCHANGED vars
  BY <1>3 DEF TypeOK, vars
<1> QED BY <1>1, <1>2, <1>3, PutStepType, ComposerStepType, RoomStepType,
           SweepStepType DEF Next

-----------------------------------------------------------------------------
(* Ready rows and the messages that carry them.                            *)

RowKept(k) == IsReady(k) => IsReady(k)' /\ row'[k].sum = row[k].sum

\* A row once ready stays so, with the checksum it has.
LEMMA ReadyStays ==
  ASSUME TypeOK, [Next]_vars, NEW k \in Keys PROVE RowKept(k)
<1> USE DEF RowKept, IsReady
<1>1. CASE row' = row
  BY <1>1
<1>2. ASSUME NEW l \in Keys, CreatePending(l) PROVE RowKept(k)
  BY <1>2, CreatePendingType
<1>3. ASSUME NEW p \in Puts, MarkReady(p) PROVE RowKept(k)
  <2>1. CASE row' = row
    BY <2>1
  <2>2. CASE Completes(p) /\ row' = [row EXCEPT ![put[p].key].status = "ready",
                                               ![put[p].key].sum = put[p].file]
    <3>1. put[p].key \in Keys /\ put[p].file \in Contents
      BY <1>3 DEF TypeOK, MarkReady, Put
    <3>2. CASE k = put[p].key
      <4>1. row[k] \in Row
        BY <2>2, <3>2 DEF TypeOK, Completes
      <4>2. row'[k] = [row[k] EXCEPT !.status = "ready", !.sum = put[p].file]
        BY <2>2, <3>1, <3>2 DEF TypeOK
      <4>3. row'[k] \in Row
        BY <3>1, <4>1, <4>2 DEF Row
      <4>4. row'[k] # None
        BY <4>3, NoneAssumption DEF NoneAssumption
      <4>5. row'[k].status = "ready" /\ row'[k].sum = put[p].file
        BY <4>1, <4>2 DEF Row
      <4> QED BY <2>2, <3>2, <4>4, <4>5 DEF Completes
    <3>3. CASE k # put[p].key
      BY <2>2, <3>3 DEF TypeOK
    <3> QED BY <3>2, <3>3
  <2> QED BY <1>3, <2>1, <2>2 DEF MarkReady
<1>4. ASSUME NEW p \in Puts, MarkFailed(p) PROVE RowKept(k)
  BY <1>4 DEF TypeOK, MarkFailed
<1>5. ASSUME NEW m \in Messages, SendMessage(m) PROVE RowKept(k)
  <2>1. row'[k] = IF k \in ReadyKeys THEN [row[k] EXCEPT !.expired = FALSE] ELSE row[k]
    BY <1>5, SendMessageRows
  <2>2. CASE k \in ReadyKeys
    <3>1. row[k] \in Row
      BY <1>5, <2>2, SendMessageRows
    <3>2. row'[k] \in Row
      BY <2>1, <2>2, <3>1 DEF Row
    <3>3. row'[k] # None
      BY <3>2, NoneAssumption DEF NoneAssumption
    <3>4. row'[k].status = row[k].status /\ row'[k].sum = row[k].sum
      BY <2>1, <2>2, <3>1 DEF Row
    <3> QED BY <3>3, <3>4
  <2> QED BY <2>1, <2>2
<1>6. ASSUME NEW l \in Keys, Expire(l) PROVE RowKept(k)
  BY <1>6 DEF TypeOK, Expire
<1>7. CASE SweepRow
  BY <1>7 DEF TypeOK, SweepRow, Sweepable
<1> HIDE DEF RowKept, IsReady
<1>8. ASSUME NEW p \in Puts, PutStep(p) PROVE RowKept(k)
  BY <1>1, <1>3, <1>4, <1>8 DEF PutStep, PutOutput, StartPut, Write, DeleteBlob
<1>9. ASSUME NEW i \in Items, ComposerStep(i) PROVE RowKept(k)
  BY <1>1, <1>2, <1>9 DEF ComposerStep, SelectFile, Retry, Attempt, SendFile,
     StartPut, GiveUp, Remove
<1>10. CASE RoomStep
  BY <1>1, <1>5, <1>10 DEF RoomStep, Retract, EndRun, StartRun, Execute, Leave, Archive
<1>11. CASE SweepStep
  BY <1>1, <1>6, <1>7, <1>11 DEF SweepStep, ListExpired, SweepBlob
<1> QED BY <1>1, <1>2, <1>8, <1>9, <1>10, <1>11 DEF Next, BeginOutput, Crash, vars

\* What a message carries once, it carries for good; two actions add to it.
LEMMA RoomUnchanged ==
  ASSUME [Next]_vars
  PROVE  \/ link' = link /\ message' = message
         \/ \E m \in Messages : SendMessage(m) \/ Retract(m)
         \/ \E r \in Runs, m \in Messages, ks \in SUBSET Keys : EndRun(r, m, ks)
<1>1. ASSUME NEW p \in Puts, PutStep(p) PROVE link' = link /\ message' = message
  BY <1>1 DEF PutStep, PutOutput, StartPut, Write, MarkReady, DeleteBlob, MarkFailed,
     roomVars
<1>2. ASSUME NEW i \in Items, ComposerStep(i) PROVE link' = link /\ message' = message
  BY <1>2 DEF ComposerStep, SelectFile, Retry, Attempt, SendFile, StartPut, GiveUp,
     Remove, roomVars
<1>3. ASSUME SweepStep PROVE link' = link /\ message' = message
  BY <1>3 DEF SweepStep, Expire, ListExpired, SweepBlob, SweepRow, roomVars
<1> QED BY <1>1, <1>2, <1>3 DEF Next, BeginOutput, RoomStep, StartRun, Execute, Leave,
           Archive, Crash, roomVars, vars

\* A message that carries what is ready, its sender's, and nobody else's yet.
LEMMA PostStands ==
  ASSUME TypeOK, LinksStand, [Next]_vars,
         NEW m \in Messages, NEW who \in Agents \cup {Person}, NEW ks \in SUBSET Keys,
         Post(m, who, ks), \A k \in ks : Linkable(k, who)
  PROVE  LinksStand'
<1>1. [sender |-> who, stands |-> TRUE] \in MessageRow
  BY DEF MessageRow
<1>2. message'[m] # None /\ message'[m].sender = who
  BY <1>1, NoneAssumption DEF NoneAssumption, TypeOK, Post
<1>3. \A n \in Messages : n # m => message'[n] = message[n]
  BY DEF TypeOK, Post
<1>4. \A n \in Messages, k \in Keys :
        <<n, k>> \in link' => <<n, k>> \in link \/ (n = m /\ k \in ks)
  BY DEF Post
<1>5. ASSUME NEW n \in Messages, NEW k \in Keys, <<n, k>> \in link'
      PROVE  /\ row'[k] # None /\ row'[k].status = "ready"
             /\ message'[n] # None /\ message'[n].sender = Owner(k)
             /\ \A o \in Messages : <<o, k>> \in link' => o = n
  <2>1. CASE <<n, k>> \in link
    <3>1. IsReady(k) /\ message[n] # None /\ message[n].sender = Owner(k)
      BY <2>1 DEF LinksStand, IsReady
    <3>2. k \notin ks
      BY <2>1 DEF Linkable, Linked
    <3>3. n # m
      BY <3>1 DEF Post
    <3>4. IsReady(k)'
      BY <3>1, ReadyStays DEF RowKept
    <3> QED BY <1>3, <1>4, <2>1, <3>1, <3>2, <3>3, <3>4 DEF LinksStand, IsReady
  <2>2. CASE n = m /\ k \in ks
    <3>1. IsReady(k) /\ Owner(k) = who /\ \A o \in Messages : <<o, k>> \notin link
      BY <2>2 DEF Linkable, Linked, IsReady
    <3>2. IsReady(k)'
      BY <3>1, ReadyStays DEF RowKept
    <3> QED BY <1>2, <1>4, <2>2, <3>1, <3>2 DEF IsReady
  <2> QED BY <1>4, <1>5, <2>1, <2>2
<1>6. \A k \in Keys : Owner(k)' = Owner(k)
  BY DEF Owner
<1> QED BY <1>5, <1>6 DEF LinksStand, Owner

LEMMA LinksInductive ==
  ASSUME TypeOK, LinksStand, [Next]_vars PROVE LinksStand'
<1>1. ASSUME link' = link,
             \A m \in Messages : message[m] # None =>
               message'[m] # None /\ message'[m].sender = message[m].sender
      PROVE  LinksStand'
  <2>1. \A m \in Messages, k \in Keys : <<m, k>> \in link => IsReady(k)'
    BY ReadyStays DEF LinksStand, IsReady, RowKept
  <2> QED BY <1>1, <2>1 DEF LinksStand, IsReady, Owner
<1>2. ASSUME NEW m \in Messages, SendMessage(m) PROVE LinksStand'
  <2>1. ReadyKeys \in SUBSET Keys
    BY <1>2, SendMessageRows
  <2> QED BY <1>2, <2>1, PostStands DEF SendMessage
<1>3. ASSUME NEW r \in Runs, NEW m \in Messages, NEW ks \in SUBSET Keys, EndRun(r, m, ks)
      PROVE  LinksStand'
  <2>1. AgentOf[r] \in Agents
    BY DEF Agents
  <2> QED BY <1>3, <2>1, PostStands DEF EndRun
<1>4. ASSUME NEW m \in Messages, Retract(m) PROVE LinksStand'
  <2>1. message[m] \in MessageRow /\ message' = [message EXCEPT ![m].stands = FALSE]
        /\ link' = link
    BY <1>4 DEF TypeOK, Retract
  <2>2. [message[m] EXCEPT !.stands = FALSE] \in MessageRow
        /\ [message[m] EXCEPT !.stands = FALSE].sender = message[m].sender
    BY <2>1 DEF MessageRow
  <2> QED BY <1>1, <2>1, <2>2, NoneAssumption DEF NoneAssumption, TypeOK
<1> QED BY <1>1, <1>2, <1>3, <1>4, RoomUnchanged

-----------------------------------------------------------------------------
(* Grants.                                                                 *)

LEMMA GrantInductive ==
  ASSUME TypeOK, GrantInv, [Next]_vars PROVE GrantInv'
<1>1. link \subseteq link'
  BY RoomUnchanged DEF SendMessage, EndRun, Retract, Post
<1>2. ASSUME grant' = grant,
             \A r \in Runs : run[r] # None => run'[r] # None /\ run'[r].trigger = run[r].trigger
      PROVE  GrantInv'
  BY <1>1, <1>2 DEF GrantInv
<1>3. ASSUME NEW r \in Runs, run[r] # None, NEW s \in {"queued", "running", "ended"}
      PROVE  /\ [run[r] EXCEPT !.status = s] # None
             /\ [run[r] EXCEPT !.status = s].trigger = run[r].trigger
  <2>1. run[r] \in RunRow /\ [run[r] EXCEPT !.status = s] \in RunRow
    BY <1>3 DEF TypeOK, RunRow, Active
  <2> QED BY <2>1, NoneAssumption DEF NoneAssumption, RunRow
<1>4. ASSUME NEW r \in Runs, NEW m \in Messages, NEW ks \in SUBSET Keys, EndRun(r, m, ks)
      PROVE  GrantInv'
  BY <1>2, <1>3, <1>4 DEF EndRun, TypeOK
<1>5. ASSUME NEW r \in Runs, NEW m \in Messages, StartRun(r, m) PROVE GrantInv'
  BY <1>2, <1>5 DEF StartRun, TypeOK
<1>6. ASSUME NEW r \in Runs, Execute(r) PROVE GrantInv'
  <2>1. \A q \in Runs : run[q] # None => run'[q] # None /\ run'[q].trigger = run[q].trigger
    BY <1>3, <1>6 DEF Execute, TypeOK
  <2>2. CASE grant' = grant
    BY <1>2, <2>1, <2>2
  <2>3. CASE grant' = grant \cup ({r} \X Carries(run[r].trigger))
    <3>1. \A k \in Carries(run[r].trigger) : <<run[r].trigger, k>> \in link
      BY DEF Carries
    <3>2. \A q \in Runs, k \in Keys : <<q, k>> \in grant' =>
            <<q, k>> \in grant \/ (q = r /\ k \in Carries(run[r].trigger))
      BY <2>3
    <3>3. run[r] # None
      BY <1>6 DEF Execute
    <3> QED BY <1>1, <2>1, <3>1, <3>2, <3>3 DEF GrantInv
  <2> QED BY <1>6, <2>2, <2>3 DEF Execute
<1>7. CASE Crash
  BY <1>2, <1>3, <1>7 DEF Crash, TypeOK
<1>8. CASE grant' = grant /\ run' = run
  BY <1>2, <1>8
<1>9. ASSUME NEW p \in Puts, PutStep(p) PROVE GrantInv'
  BY <1>8, <1>9 DEF PutStep, PutOutput, StartPut, Write, MarkReady, DeleteBlob,
     MarkFailed, roomVars
<1>10. ASSUME NEW i \in Items, ComposerStep(i) PROVE GrantInv'
  BY <1>8, <1>10 DEF ComposerStep, SelectFile, Retry, Attempt, SendFile, StartPut,
     GiveUp, Remove, roomVars
<1>11. CASE RoomStep
  BY <1>4, <1>5, <1>6, <1>8, <1>11 DEF RoomStep, SendMessage, Retract, Leave, Archive
<1>12. CASE SweepStep
  BY <1>8, <1>12 DEF SweepStep, Expire, ListExpired, SweepBlob, SweepRow, roomVars
<1> QED BY <1>7, <1>8, <1>9, <1>10, <1>11, <1>12 DEF Next, BeginOutput, roomVars, vars

-----------------------------------------------------------------------------
(* A key whose requests and clean-ups came one after another.              *)

\* A step by which nobody begins or ends work on a key, and no row becomes ready.
LEMMA TurnKept ==
  ASSUME NEW k \in Keys, InTurn(k), blob' = blob, put' = put, sweep' = sweep,
         IsReady(k)' => IsReady(k) /\ row'[k].sum = row[k].sum
  PROVE  InTurn(k)'
BY DEF InTurn, Working, Swept

LEMMA StartPutInTurn ==
  ASSUME TypeOK, NEW p \in Puts, NEW l \in Keys, NEW f \in Contents,
         StartPut(p, l, f), NEW k \in Keys \ raced', InTurn(k)
  PROVE  InTurn(k)'
<1>1. put' = [put EXCEPT ![p] =
        [at |-> "writing", key |-> l, number |-> row[l].number, file |-> f]]
      /\ put[p] = None /\ UNCHANGED <<row, blob, sweep>>
  BY DEF StartPut
<1>2. \A q \in Puts : q # p => put'[q] = put[q]
  BY <1>1 DEF TypeOK
<1>3. put'[p].key = l /\ put'[p].at = "writing"
  BY <1>1 DEF TypeOK
<1>4. CASE k # l
  BY <1>1, <1>2, <1>3, <1>4 DEF InTurn, Working, Swept, IsReady
<1>5. CASE k = l
  <2>1. ~(Busy(k) # {}) /\ ~(sweep # None /\ \E d \in sweep.left : d.key = k)
    BY <1>5 DEF StartPut
  <2>2. \A q \in Puts : ~Working(q, k)
    BY <2>1 DEF Busy, Working
  <2>3. ~Swept(k) /\ ~IsReady(k)
    BY <1>5, <2>1 DEF Swept, StartPut, Accepts, IsReady
  <2> QED BY <1>1, <1>2, <1>3, <1>5, <2>2, <2>3 DEF InTurn, Working, Swept, IsReady
<1> QED BY <1>4, <1>5

LEMMA PutStepInTurn ==
  ASSUME TypeOK, NEW p \in Puts, PutStep(p), NEW k \in Keys \ raced', InTurn(k)
  PROVE  InTurn(k)'
<1>1. ASSUME NEW l \in Keys, NEW f \in Contents, PutOutput(p, l, f) PROVE InTurn(k)'
  BY <1>1, StartPutInTurn DEF PutOutput
<1>2. ASSUME NEW place \in {"writing", "written", "failing", "deleted"}, put[p] # None,
             Advance(p, place)
      PROVE  /\ \A q \in Puts : Working(q, k)' => Working(q, k)
             /\ \A q \in Puts : q # p => put'[q] = put[q]
             /\ put'[p].at = place /\ put'[p].file = put[p].file
             /\ put'[p].key = put[p].key
  <2>1. put[p] \in Put /\ put' = [put EXCEPT ![p] = [put[p] EXCEPT !.at = place]]
    BY <1>2 DEF TypeOK, Advance
  <2>2. \A q \in Puts : q # p => put'[q] = put[q]
    BY <2>1 DEF TypeOK
  <2>3. put'[p] = [put[p] EXCEPT !.at = place]
    BY <2>1 DEF TypeOK
  <2>4. put'[p].at = place /\ put'[p].file = put[p].file /\ put'[p].key = put[p].key
    BY <2>1, <2>3 DEF Put
  <2> QED BY <1>2, <2>2, <2>4 DEF Working
<1>3. CASE Write(p)
  <2>1. put[p] # None /\ UNCHANGED <<row, sweep>>
    BY <1>3 DEF Write
  <2>2. CASE Advance(p, "failing") /\ UNCHANGED blob
    BY <1>2, <2>1, <2>2 DEF InTurn, Swept, IsReady, Working
  <2>3. CASE /\ blob' = [blob EXCEPT ![put[p].key] = put[p].file]
             /\ Advance(p, "written")
    <3>1. CASE put[p].key = k
      <4>1. Working(p, k) /\ blob'[k] = put[p].file
        BY <2>1, <2>3, <3>1 DEF Working, TypeOK
      <4>2. \A q \in Puts : Working(q, k)' => q = p
        BY <1>2, <2>1, <2>3, <4>1 DEF InTurn
      <4> QED BY <1>2, <2>1, <2>3, <4>1, <4>2 DEF InTurn, Swept, IsReady
    <3>2. CASE put[p].key # k
      <4>1. blob'[k] = blob[k]
        BY <2>3, <3>2 DEF TypeOK
      <4> QED BY <1>2, <2>1, <2>3, <3>2, <4>1 DEF InTurn, Swept, IsReady, Working
    <3> QED BY <3>1, <3>2
  <2> QED BY <1>3, <2>2, <2>3 DEF Write
<1>4. ASSUME put' = [put EXCEPT ![p] = None]
      PROVE  \A q \in Puts : Working(q, k)' => q # p /\ put'[q] = put[q] /\ Working(q, k)
  BY <1>4 DEF TypeOK, Working
<1>5. CASE MarkReady(p)
  <2>1. put[p] # None /\ put[p].at = "written" /\ UNCHANGED <<blob, sweep>>
        /\ put[p].key \in Keys
    BY <1>5 DEF MarkReady, TypeOK, Put
  <2>2. CASE Advance(p, "failing") /\ UNCHANGED row
    BY <1>2, <2>1, <2>2 DEF InTurn, Swept, IsReady, Working
  <2>3. CASE /\ Completes(p)
             /\ row' = [row EXCEPT ![put[p].key].status = "ready",
                                  ![put[p].key].sum = put[p].file]
             /\ put' = [put EXCEPT ![p] = None]
    <3>1. CASE put[p].key = k
      <4>1. Working(p, k) /\ blob[k] = put[p].file /\ ~Swept(k)
        BY <2>1, <3>1 DEF Working, InTurn
      <4>2. \A q \in Puts : ~Working(q, k)'
        BY <1>4, <2>3, <4>1 DEF InTurn
      <4>3. row'[k].sum = put[p].file
        <5>1. row[k] \in Row /\ row'[k] = [row[k] EXCEPT !.status = "ready", !.sum = put[p].file]
          BY <2>1, <2>3, <3>1 DEF TypeOK, Completes
        <5> QED BY <5>1 DEF Row
      <4> QED BY <2>1, <4>1, <4>2, <4>3 DEF InTurn, Swept
    <3>2. CASE put[p].key # k
      <4>1. row'[k] = row[k]
        BY <2>3, <3>2 DEF TypeOK
      <4> QED BY <1>4, <2>1, <2>3, <4>1 DEF InTurn, Swept, IsReady
    <3> QED BY <3>1, <3>2
  <2> QED BY <1>5, <2>2, <2>3 DEF MarkReady
<1>6. CASE DeleteBlob(p)
  <2>1. put[p] # None /\ UNCHANGED <<row, sweep>> /\ Advance(p, "deleted")
        /\ blob' = [blob EXCEPT ![put[p].key] = None]
    BY <1>6 DEF DeleteBlob
  <2>2. CASE put[p].key = k
    <3>1. Working(p, k)
      BY <2>1, <2>2 DEF Working
    <3>2. \A q \in Puts : Working(q, k)' => q = p
      BY <1>2, <2>1, <3>1 DEF InTurn
    <3> QED BY <1>2, <2>1, <3>1, <3>2 DEF InTurn, Swept, IsReady
  <2>3. CASE put[p].key # k
    <3>1. blob'[k] = blob[k]
      BY <2>1, <2>3 DEF TypeOK
    <3> QED BY <1>2, <2>1, <2>3, <3>1 DEF InTurn, Swept, IsReady, Working
  <2> QED BY <2>2, <2>3
<1>7. CASE MarkFailed(p)
  <2>1. UNCHANGED <<blob, sweep>> /\ put' = [put EXCEPT ![p] = None]
    BY <1>7 DEF MarkFailed
  <2>2. IsReady(k)' => IsReady(k) /\ row'[k] = row[k]
    <3>1. CASE row' = row
      BY <3>1 DEF IsReady
    <3>2. CASE row' = [row EXCEPT ![put[p].key].status = "failed", ![put[p].key].expired = FALSE]
               /\ row[put[p].key] # None
      <4>1. CASE put[p].key = k
        <5>1. row[k] \in Row
          BY <3>2, <4>1 DEF TypeOK
        <5>2. row'[k].status = "failed"
          BY <3>2, <4>1, <5>1 DEF TypeOK, Row
        <5> QED BY <5>2 DEF IsReady
      <4>2. CASE put[p].key # k
        <5>1. row'[k] = row[k]
          BY <3>2, <4>2 DEF TypeOK
        <5> QED BY <5>1 DEF IsReady
      <4> QED BY <4>1, <4>2
    <3> QED BY <1>7, <3>1, <3>2 DEF MarkFailed
  <2> QED BY <1>4, <2>1, <2>2 DEF InTurn, Swept, IsReady
<1> QED BY <1>1, <1>3, <1>5, <1>6, <1>7 DEF PutStep

LEMMA ComposerStepInTurn ==
  ASSUME TypeOK, NEW i \in Items, ComposerStep(i), NEW k \in Keys \ raced', InTurn(k)
  PROVE  InTurn(k)'
<1>1. ASSUME NEW l \in Keys, NEW f, Attempt(i, l, f) PROVE InTurn(k)'
  BY <1>1, TurnKept, CreatePendingType DEF Attempt
<1>2. ASSUME NEW p \in Puts, SendFile(i, p) PROVE InTurn(k)'
  <2>1. item[i].key \in Keys /\ item[i].file \in Contents
    BY <1>2 DEF TypeOK, SendFile, Item
  <2> QED BY <1>2, <2>1, StartPutInTurn DEF SendFile
<1>3. CASE GiveUp(i) \/ Remove(i)
  BY <1>3, TurnKept DEF GiveUp, Remove, IsReady
<1> QED BY <1>1, <1>2, <1>3 DEF ComposerStep, SelectFile, Retry

LEMMA RoomStepInTurn ==
  ASSUME TypeOK, RoomStep, NEW k \in Keys \ raced', InTurn(k) PROVE InTurn(k)'
<1>1. ASSUME NEW m \in Messages, SendMessage(m) PROVE InTurn(k)'
  <2>1. row'[k] = IF k \in ReadyKeys THEN [row[k] EXCEPT !.expired = FALSE] ELSE row[k]
    BY <1>1, SendMessageRows
  <2>2. IsReady(k)' => IsReady(k) /\ row'[k].sum = row[k].sum
    <3>1. CASE k \in ReadyKeys
      <4>1. row[k] \in Row
        BY <1>1, <3>1, SendMessageRows
      <4>2. row'[k].sum = row[k].sum /\ row'[k].status = row[k].status
        BY <2>1, <3>1, <4>1 DEF Row
      <4> QED BY <4>1, <4>2, NoneAssumption DEF NoneAssumption, IsReady
    <3>2. CASE k \notin ReadyKeys
      BY <2>1, <3>2 DEF IsReady
    <3> QED BY <3>1, <3>2
  <2> QED BY <1>1, <2>2, TurnKept DEF SendMessage
<1>2. CASE ~(\E m \in Messages : SendMessage(m))
  <2>1. UNCHANGED <<row, blob, put, sweep>>
    BY <1>2 DEF RoomStep, Retract, EndRun, StartRun, Execute, Leave, Archive
  <2> QED BY <2>1, TurnKept DEF IsReady
<1> QED BY <1>1, <1>2

LEMMA SweepStepInTurn ==
  ASSUME TypeOK, SweepStep, NEW k \in Keys \ raced', InTurn(k)
  PROVE  InTurn(k)'
<1>1. ASSUME NEW l \in Keys, Expire(l) PROVE InTurn(k)'
  <2>1. row[l] \in Row /\ row' = [row EXCEPT ![l] = [row[l] EXCEPT !.expired = TRUE]]
        /\ row[l].status # "ready"
    BY <1>1 DEF TypeOK, Expire
  <2>2. [row[l] EXCEPT !.expired = TRUE].status # "ready"
    BY <2>1 DEF Row
  <2>3. IsReady(k)' => IsReady(k) /\ row'[k] = row[k]
    BY <2>1, <2>2 DEF TypeOK, IsReady
  <2> QED BY <1>1, <2>3, TurnKept DEF Expire
<1>2. CASE ListExpired
  <2>1. sweep = None /\ UNCHANGED <<row, blob, put>>
        /\ sweep'.left = {[key |-> l, number |-> row[l].number] :
                            l \in {j \in Keys : Sweepable(j)}}
        /\ (Sweepable(k) => Busy(k) = {})
    BY <1>2 DEF ListExpired
  <2>2. Swept(k)' => Sweepable(k)
    BY <2>1 DEF Swept
  <2>3. Sweepable(k) => ~IsReady(k) /\ \A q \in Puts : ~Working(q, k)
    BY <2>1 DEF Sweepable, IsReady, Busy, Working
  <2> QED BY <2>1, <2>2, <2>3 DEF InTurn, IsReady, Working
<1>3. CASE SweepRow
  <2>1. sweep \in [left : SUBSET Doomed, now : Doomed \cup {None}] /\ sweep # None
        /\ sweep.now # None
    BY <1>3 DEF TypeOK, SweepRow
  <2>2. Swept(k)' => Swept(k)
    BY <1>3, <2>1 DEF Swept, SweepRow
  <2>3. IsReady(k)' => IsReady(k) /\ row'[k] = row[k]
    BY <1>3 DEF SweepRow, TypeOK, IsReady
  <2> QED BY <1>3, <2>2, <2>3 DEF InTurn, SweepRow, Working, IsReady
<1>4. ASSUME NEW d, SweepBlob(d) PROVE InTurn(k)'
  <2>1. sweep # None /\ d \in sweep.left /\ sweep'.left = sweep.left
        /\ UNCHANGED <<row, put>> /\ blob' = [blob EXCEPT ![d.key] = None]
    BY <1>4 DEF SweepBlob
  <2>2. Swept(k)' => Swept(k)
    BY <2>1 DEF Swept
  <2>3. CASE d.key = k
    <3>1. Swept(k)
      BY <2>1, <2>3 DEF Swept
    <3> QED BY <2>1, <2>2, <3>1 DEF InTurn, Working, IsReady
  <2>4. CASE d.key # k
    <3>1. blob'[k] = blob[k]
      BY <2>1, <2>4 DEF TypeOK
    <3> QED BY <2>1, <2>2, <3>1 DEF InTurn, Working, IsReady
  <2> QED BY <2>3, <2>4
<1> QED BY <1>1, <1>2, <1>3, <1>4 DEF SweepStep

LEMMA RacedStays == ASSUME [Next]_vars PROVE raced \subseteq raced'
<1>1. ASSUME NEW p \in Puts, PutStep(p) PROVE raced \subseteq raced'
  BY <1>1 DEF PutStep, PutOutput, StartPut, Write, MarkReady, DeleteBlob, MarkFailed
<1>2. ASSUME NEW i \in Items, ComposerStep(i) PROVE raced \subseteq raced'
  BY <1>2 DEF ComposerStep, SelectFile, Retry, Attempt, SendFile, StartPut, GiveUp, Remove
<1>3. CASE RoomStep
  BY <1>3 DEF RoomStep, SendMessage, Retract, EndRun, StartRun, Execute, Leave, Archive
<1>4. CASE SweepStep
  BY <1>4 DEF SweepStep, Expire, ListExpired, SweepBlob, SweepRow
<1> QED BY <1>1, <1>2, <1>3, <1>4 DEF Next, BeginOutput, Crash, vars

LEMMA TurnInductive ==
  ASSUME AttachmentsInv, [Next]_vars, NEW k \in Keys \ raced' PROVE InTurn(k)'
<1>1. TypeOK /\ InTurn(k)
  BY RacedStays DEF AttachmentsInv
<1>2. ASSUME NEW l \in Keys, BeginOutput(l) PROVE InTurn(k)'
  BY <1>1, <1>2, TurnKept, CreatePendingType DEF BeginOutput
<1>3. CASE Crash
  <2>1. (\A q \in Puts : put'[q] = None) /\ sweep' = None /\ UNCHANGED <<row, blob>>
    BY <1>3 DEF Crash
  <2> QED BY <1>1, <2>1 DEF InTurn, Working, Swept, IsReady
<1>4. CASE UNCHANGED vars
  BY <1>1, <1>4, TurnKept DEF vars, IsReady
<1> QED BY <1>1, <1>2, <1>3, <1>4, PutStepInTurn, ComposerStepInTurn, RoomStepInTurn,
           SweepStepInTurn DEF Next

LEMMA AttachmentsInitially == Init => AttachmentsInv
<1> SUFFICES ASSUME Init PROVE AttachmentsInv
  OBVIOUS
<1>1. TypeOK
  <2>1. 0 \in 0 .. MaxRows /\ 0 \in 0 .. MaxTroubles
    BY AttachmentsAssumption DEF AttachmentsAssumption
  <2>2. UploadType /\ ComposerType
    BY <2>1 DEF Init, UploadType, ComposerType
  <2>3. WorkType /\ RoomType
    BY DEF Init, WorkType, RoomType
  <2> QED BY <2>2, <2>3, TypeParts
<1>2. \A k \in Keys : row[k] = None
  BY DEF Init
<1>3. \A k \in Keys : InTurn(k)
  BY <1>2 DEF Init, InTurn, Working, IsReady
<1>4. LinksStand /\ GrantInv
  BY DEF Init, LinksStand, GrantInv
<1> QED BY <1>1, <1>3, <1>4 DEF AttachmentsInv

LEMMA AttachmentsInductive == AttachmentsInv /\ [Next]_vars => AttachmentsInv'
<1> SUFFICES ASSUME AttachmentsInv, [Next]_vars PROVE AttachmentsInv'
  OBVIOUS
<1>1. TypeOK /\ LinksStand /\ GrantInv
  BY DEF AttachmentsInv
<1>2. TypeOK' /\ LinksStand' /\ GrantInv'
  BY <1>1, TypeInductive, LinksInductive, GrantInductive
<1>3. \A k \in Keys \ raced' : InTurn(k)'
  BY TurnInductive
<1> QED BY <1>2, <1>3 DEF AttachmentsInv

LEMMA AttachmentsAlways == Spec => []AttachmentsInv
BY AttachmentsInitially, AttachmentsInductive, PTL DEF Spec

-----------------------------------------------------------------------------
(* Theorems.                                                               *)

\* Every variable keeps its type.
THEOREM AttachmentTypeCorrect == Spec => []TypeOK
<1>1. AttachmentsInv => TypeOK
  BY DEF AttachmentsInv
<1> QED BY <1>1, AttachmentsAlways, PTL

\* What a message carries is ready, its sender's, and no other message's
\* (linkReadyToMessage, linkProducedAttachments, deleteExpiredUnlinked).
THEOREM CarriedUploadsStand == Spec => []LinksStand
<1>1. AttachmentsInv => LinksStand
  BY DEF AttachmentsInv
<1> QED BY <1>1, AttachmentsAlways, PTL

\* An upload called ready has the bytes its checksum was taken of, unless two
\* requests or a clean-up were at work on it at a time (completeUpload).
THEOREM ReadyUploadsHaveBytes == Spec => []ReadyHasBlob
<1>1. AttachmentsInv => ReadyHasBlob
  BY DEF AttachmentsInv, InTurn, IsReady, ReadyHasBlob
<1> QED BY <1>1, AttachmentsAlways, PTL

\* An Agent reads what its run's trigger carries, while everybody in the room
\* may read it (createAccessGrant, getGrantedAttachmentByScope).
THEOREM AgentsReadWhatPeopleRead == Spec => []ReadersAgree
<1>1. AttachmentsInv => ReadersAgree
  BY DEF AttachmentsInv, GrantInv, ReadersAgree, AgentReads, PersonReads
<1> QED BY <1>1, AttachmentsAlways, PTL

\* What one step does to a file that is carried.
CarriedFileStands(m, k) ==
  /\ <<m, k>> \in link'
  /\ row'[k] # None /\ row'[k].sum = row[k].sum
  /\ k \notin raced' => blob'[k] = blob[k]

LEMMA CarriedFileStep ==
  ASSUME AttachmentsInv, [Next]_vars, NEW m \in Messages, NEW k \in Keys,
         <<m, k>> \in link
  PROVE  CarriedFileStands(m, k)
<1>1. TypeOK /\ IsReady(k)
  BY DEF AttachmentsInv, LinksStand, IsReady
<1>2. IsReady(k)' /\ row'[k].sum = row[k].sum
  BY <1>1, ReadyStays DEF RowKept
<1>3. <<m, k>> \in link'
  BY RoomUnchanged DEF SendMessage, Retract, EndRun, Post
<1>4. ASSUME k \notin raced' PROVE blob'[k] = blob[k]
  <2>1. k \notin raced /\ k \in Keys \ raced'
    BY <1>4, RacedStays
  <2>2. InTurn(k) /\ InTurn(k)'
    BY <2>1, TurnInductive DEF AttachmentsInv
  <2> QED BY <1>1, <1>2, <2>2 DEF InTurn
<1> QED BY <1>2, <1>3, <1>4 DEF CarriedFileStands, IsReady

\* A message goes on carrying the files it carries, and their bytes are never
\* replaced or deleted (completeUpload, deleteExpiredUnlinked).
THEOREM CarriedFilesAreKept == Spec => CarriedFilesStand
<1>1. AttachmentsInv /\ [Next]_vars =>
        [\A m \in Messages, k \in Keys : <<m, k>> \in link =>
           /\ <<m, k>> \in link'
           /\ row[k]' # None /\ row[k].sum' = row[k].sum
           /\ k \notin raced' => blob[k]' = blob[k]]_vars
  BY CarriedFileStep DEF CarriedFileStands
<1> QED BY <1>1, AttachmentsAlways, PTL DEF Spec, CarriedFilesStand
=============================================================================
