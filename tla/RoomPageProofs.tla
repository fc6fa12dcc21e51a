--------------------------- MODULE RoomPageProofs ---------------------------
(***************************************************************************)
(* Drafts, messages being sent and read cursors of one person, for any     *)
(* number of windows and rooms, and any bounds.                            *)
(*                                                                         *)
(* The argument: a text together with a room and a revision, wherever it   *)
(* is kept (the window's references, a save or a message on its way, an    *)
(* answer, a room being loaded), was the room's draft of that revision.    *)
(* Drafts are only added to, so this stays true however late it is used,   *)
(* and the server compares the revision before it replaces or clears.      *)
(***************************************************************************)
EXTENDS RoomPage, SequenceTheorems, TLAPS

\* The draft of a room under a revision it has had.
Known(r, n, t) == n \in 0 .. Number(r) /\ t = TextAt(r, n)

\* The references of a window that no answer of another room has touched.
ReferencesOf(w) == w \notin mixed => Known(room[w], revision[w], saved[w])

LoadsOf(w) ==
  \A l \in loads[w] : l.at = "read" => Known(l.room, l.revision, l.text)

SaveOf(w) ==
  save[w] # None =>
    /\ queue[w] # <<>>
    /\ save[w].at = "sent" /\ save[w].own =>
         Known(Head(queue[w]).room, save[w].expected, save[w].seen)
    /\ save[w].at = "stored" =>
         Known(Head(queue[w]).room, save[w].revision, Head(queue[w]).text)

SendOf(w) ==
  send[w] # None =>
    /\ send[w].at \in {"post", "stored"} /\ send[w].own =>
         Known(send[w].room, send[w].revision, send[w].text)
    /\ send[w].at = "cleared" =>
         Known(send[w].room, send[w].answer, send[w].draft)

\* The message a window sends is in the queue exactly once while it waits for
\* its draft, and not at all otherwise.
QueueOf(w) ==
  \A i \in 1 .. Len(queue[w]) : queue[w][i].for = "message" =>
    /\ send[w] # None /\ send[w].at = "save"
    /\ send[w].room = queue[w][i].room /\ send[w].text = queue[w][i].text
    /\ \A j \in 1 .. Len(queue[w]) : queue[w][j].for = "message" => j = i

WindowOf(w) ==
  ReferencesOf(w) /\ LoadsOf(w) /\ SaveOf(w) /\ SendOf(w) /\ QueueOf(w)

PageInv == TypeOK /\ \A w \in Windows : WindowOf(w)

-----------------------------------------------------------------------------
(* Types, one part at a time.                                              *)

ServerType ==
  /\ drafts \in [Rooms -> Seq(Text)]
  /\ messages \in [Rooms -> Nat] /\ cursor \in [Rooms -> Nat]
  /\ reads \subseteq Read
ReferenceType ==
  /\ room \in [Windows -> Rooms] /\ text \in [Windows -> Text]
  /\ revision \in [Windows -> Nat] /\ saved \in [Windows -> Text]
  /\ mixed \subseteq Windows /\ veiled \in [Windows -> BOOLEAN]
  /\ loads \in [Windows -> SUBSET Load]
QueueType ==
  /\ queue \in [Windows -> Seq(Entry)]
  /\ save \in [Windows -> Save \cup {None}]
  /\ send \in [Windows -> Send \cup {None}]
CountType == typed \in Nat /\ sends \in Nat /\ selects \in Nat

LEMMA TypeParts ==
  TypeOK <=> ServerType /\ ReferenceType /\ QueueType /\ CountType
BY DEF TypeOK, ServerType, ReferenceType, QueueType, CountType

\* A save that has not been refused.
SaveRow == [at : {"sent", "stored"}, expected : Nat, revision : Nat,
            seen : Text, own : BOOLEAN]

LEMMA SaveAt ==
  ASSUME TypeOK, NEW w \in Windows, save[w] # None, save[w].at # "refused"
  PROVE  save[w] \in SaveRow
<1>1. save[w] \in SaveRow \/ save[w] \in [at : {"refused"}]
  BY DEF TypeOK, Save, SaveRow
<1> QED BY <1>1

LEMMA SaveStored ==
  ASSUME NEW s \in SaveRow, NEW n \in Nat
  PROVE  /\ [s EXCEPT !.at = "stored", !.revision = n] \in SaveRow
         /\ [s EXCEPT !.at = "stored", !.revision = n].at = "stored"
         /\ [s EXCEPT !.at = "stored", !.revision = n].revision = n
BY DEF SaveRow

LEMMA HeadOfQueue ==
  ASSUME TypeOK, NEW w \in Windows, queue[w] # <<>>
  PROVE  /\ Head(queue[w]) \in Entry /\ Head(queue[w]) = queue[w][1]
         /\ Tail(queue[w]) \in Seq(Entry)
         /\ Len(Tail(queue[w])) = Len(queue[w]) - 1
         /\ Len(queue[w]) \in Nat \ {0}
         /\ \A i \in 1 .. Len(queue[w]) - 1 : Tail(queue[w])[i] = queue[w][i + 1]
<1>1. queue[w] \in Seq(Entry)
  BY DEF TypeOK
<1> QED BY <1>1

\* The latest revision of a room has a text.
LEMMA DraftIsText ==
  ASSUME TypeOK, NEW r \in Rooms
  PROVE  Draft(r) \in Text /\ Number(r) \in Nat /\ Draft(r) = TextAt(r, Number(r))
<1>1. drafts[r] \in Seq(Text)
  BY DEF TypeOK
<1>2. drafts[r] = <<>> <=> Len(drafts[r]) = 0
  BY <1>1
<1>3. Len(drafts[r]) \in Nat
  BY <1>1
<1>4. drafts[r] # <<>> => drafts[r][Len(drafts[r])] \in Text
  BY <1>1, <1>2
<1>5. "" \in Text
  BY DEF Text
<1> QED BY <1>2, <1>3, <1>4, <1>5 DEF Draft, Number, TextAt

\* A room's drafts are only added to.
LEMMA DraftsGrow ==
  ASSUME TypeOK, NEW r \in Rooms, NEW t \in Text,
         drafts' = [drafts EXCEPT ![r] = Append(@, t)]
  PROVE  /\ drafts' \in [Rooms -> Seq(Text)]
         /\ \A n : n = Number(r) + 1 => Known(r, n, t)'
         /\ \A q \in Rooms : \A n, u : Known(q, n, u) => Known(q, n, u)'
<1>1. drafts \in [Rooms -> Seq(Text)] /\ drafts[r] \in Seq(Text)
  BY DEF TypeOK
<1>2. /\ Append(drafts[r], t) \in Seq(Text)
      /\ Len(Append(drafts[r], t)) = Len(drafts[r]) + 1
      /\ Append(drafts[r], t)[Len(drafts[r]) + 1] = t
      /\ \A i \in 1 .. Len(drafts[r]) : Append(drafts[r], t)[i] = drafts[r][i]
      /\ Len(drafts[r]) \in Nat
  BY <1>1
<1>3. \A q \in Rooms : drafts'[q] = IF q = r THEN Append(drafts[r], t) ELSE drafts[q]
  BY <1>1
<1>4. \A q \in Rooms : Len(drafts[q]) \in Nat
  BY <1>1
<1>5. drafts' \in [Rooms -> Seq(Text)]
  BY <1>1, <1>2
<1>6. ASSUME NEW q \in Rooms, NEW n, NEW u, Known(q, n, u) PROVE Known(q, n, u)'
  <2>1. n \in 0 .. Len(drafts[q])
    BY <1>6 DEF Known, Number
  <2>2. n \in Nat /\ n <= Len(drafts[q]) /\ (n # 0 => n \in 1 .. Len(drafts[q]))
    BY <1>4, <2>1
  <2>3. CASE q = r
    <3>1. drafts'[q] = Append(drafts[r], t)
      BY <1>3, <2>3
    <3>2. n <= Len(drafts'[q]) /\ Len(drafts'[q]) \in Nat
      BY <1>2, <2>2, <2>3, <3>1
    <3>3. n # 0 => drafts'[q][n] = drafts[q][n]
      BY <1>2, <2>2, <2>3, <3>1
    <3>4. n \in 0 .. Len(drafts'[q])
      BY <2>2, <3>2
    <3>5. TextAt(q, n)' = TextAt(q, n)
      BY <3>3 DEF TextAt
    <3> QED BY <1>6, <3>4, <3>5 DEF Known, Number
  <2>4. CASE q # r
    <3>1. drafts'[q] = drafts[q]
      BY <1>3, <2>4
    <3> QED BY <1>6, <3>1 DEF Known, Number, TextAt
  <2> QED BY <2>3, <2>4
<1>7. ASSUME NEW n, n = Number(r) + 1 PROVE Known(r, n, t)'
  <2>1. drafts'[r] = Append(drafts[r], t) /\ n = Len(drafts[r]) + 1
    BY <1>3, <1>7 DEF Number
  <2>2. n \in 0 .. Len(drafts'[r]) /\ n # 0 /\ drafts'[r][n] = t
    BY <1>2, <2>1
  <2> QED BY <2>2 DEF Known, Number, TextAt
<1> QED BY <1>5, <1>6, <1>7

\* What a window knows of the drafts it goes on knowing.
LEMMA KnownStays ==
  ASSUME PageInv, Next, NEW q \in Rooms, NEW n, NEW u, Known(q, n, u)
  PROVE  Known(q, n, u)'
<1>1. TypeOK
  BY DEF PageInv
<1>2. CASE UNCHANGED drafts
  BY <1>2 DEF Known, Number, TextAt
<1>3. ASSUME NEW w \in Windows, StoreDraft(w), drafts' # drafts
      PROVE  Known(q, n, u)'
  <2>1. drafts' = [drafts EXCEPT ![Head(queue[w]).room] = Append(@, Head(queue[w]).text)]
    BY <1>3 DEF StoreDraft
  <2>2. save[w] # None
    BY <1>3 DEF StoreDraft
  <2>3. Head(queue[w]).room \in Rooms /\ Head(queue[w]).text \in Text
    BY <1>1, <2>2, HeadOfQueue DEF PageInv, WindowOf, SaveOf, Entry
  <2> QED BY <1>1, <2>1, <2>3, DraftsGrow
<1>4. ASSUME NEW w \in Windows, ClearDraft(w), drafts' # drafts
      PROVE  Known(q, n, u)'
  <2>1. drafts' = [drafts EXCEPT ![send[w].room] = Append(@, "")]
    BY <1>4 DEF ClearDraft
  <2>2. send[w] \in Send
    BY <1>1, <1>4 DEF ClearDraft, At, TypeOK
  <2>3. send[w].room \in Rooms /\ "" \in Text
    BY <2>2 DEF Send, Text
  <2> QED BY <1>1, <2>1, <2>3, DraftsGrow
<1>5. ASSUME NEW w \in Windows, Step(w), ~StoreDraft(w), ~ClearDraft(w)
      PROVE  UNCHANGED drafts
  BY <1>5 DEF Step, serverVars, Type, AutoSave, StartSave, LoseSave, SkipSave,
       FinishSave, RefuseSave, SendMessage, StoreMessage, FailSend, FinishSend,
       SelectRoom, ReadRoom, ShowRoom, FailLoad, ReportRead
<1>6. ASSUME NEW x \in reads, UpdateRead(x) PROVE UNCHANGED drafts
  BY <1>6 DEF UpdateRead
<1> QED BY <1>2, <1>3, <1>4, <1>5, <1>6 DEF Next

-----------------------------------------------------------------------------
(* A step of one window.                                                   *)

\* The other windows keep what they have.
LEMMA OthersStay ==
  ASSUME PageInv, NEW w \in Windows, Step(w), NEW v \in Windows, v # w
  PROVE  /\ UNCHANGED <<room[v], revision[v], saved[v], queue[v], save[v],
                        send[v], loads[v]>>
         /\ v \in mixed <=> v \in mixed'
<1>1. TypeOK
  BY DEF PageInv
<1>2. CASE \/ \E t \in Text : Type(w, t)
           \/ AutoSave(w) \/ StartSave(w) \/ StoreDraft(w) \/ LoseSave(w)
  BY <1>1, <1>2 DEF TypeOK, Type, AutoSave, StartSave, StoreDraft, LoseSave, Enqueue, draftVars
<1>3. CASE SkipSave(w) \/ FinishSave(w) \/ RefuseSave(w)
  BY <1>1, <1>3 DEF TypeOK, SkipSave, FinishSave, RefuseSave, Continue, Abandon, Settle, draftVars
<1>4. CASE SendMessage(w) \/ StoreMessage(w) \/ ClearDraft(w) \/ FailSend(w) \/ FinishSend(w)
  BY <1>1, <1>4 DEF TypeOK, SendMessage, Enqueue, StoreMessage, ClearDraft, FailSend,
       FinishSend, draftVars
<1>5. CASE \/ \E r \in Rooms : SelectRoom(w, r)
           \/ \E l \in loads[w] : ReadRoom(w, l) \/ ShowRoom(w, l) \/ FailLoad(w, l)
           \/ ReportRead(w)
  BY <1>1, <1>5 DEF TypeOK, SelectRoom, ReadRoom, ShowRoom, FailLoad, ReportRead, draftVars
<1> QED BY <1>2, <1>3, <1>4, <1>5 DEF Step

\* What an action leaves alone stays in order.
LEMMA ReferencesKept ==
  ASSUME PageInv, Next, NEW v \in Windows,
         UNCHANGED <<room[v], revision[v], saved[v]>>, v \notin mixed' => v \notin mixed
  PROVE  ReferencesOf(v)'
<1>1. ReferencesOf(v) /\ room[v] \in Rooms
  BY DEF PageInv, WindowOf, TypeOK
<1> DEFINE r == room[v]
           n == revision[v]
           t == saved[v]
<1>2. Known(r, n, t) => Known(r, n, t)'
  BY <1>1, KnownStays
<1> QED BY <1>1, <1>2 DEF ReferencesOf, Known, Number, TextAt

LEMMA LoadsKept ==
  ASSUME PageInv, Next, NEW v \in Windows, loads'[v] \subseteq loads[v]
  PROVE  LoadsOf(v)'
<1>1. ASSUME NEW l \in loads'[v], l.at = "read" PROVE Known(l.room, l.revision, l.text)'
  <2>1. l \in Load
    BY DEF PageInv, TypeOK
  <2>2. l.room \in Rooms
    BY <2>1 DEF Load
  <2>3. Known(l.room, l.revision, l.text)
    BY <1>1 DEF PageInv, WindowOf, LoadsOf
  <2> QED BY <2>2, <2>3, KnownStays
<1> QED BY <1>1 DEF LoadsOf

LEMMA SaveKept ==
  ASSUME PageInv, Next, NEW v \in Windows, save'[v] = save[v],
         queue[v] # <<>> => queue'[v] # <<>> /\ Head(queue'[v]) = Head(queue[v])
  PROVE  SaveOf(v)'
<1>1. CASE save[v] = None
  BY <1>1 DEF SaveOf
<1>2. CASE save[v] # None
  <2>1. SaveOf(v) /\ TypeOK
    BY DEF PageInv, WindowOf
  <2>2. queue[v] # <<>> /\ queue'[v] # <<>> /\ Head(queue'[v]) = Head(queue[v])
    BY <1>2, <2>1 DEF SaveOf
  <2>3. Head(queue[v]).room \in Rooms
    BY <2>1, <2>2, HeadOfQueue DEF Entry
  <2>4. PICK q, t, e, u, n :
          /\ q \in Rooms /\ q = Head(queue[v]).room /\ t = Head(queue[v]).text
          /\ e = save[v].expected /\ u = save[v].seen /\ n = save[v].revision
    BY <2>3
  <2>5. (Known(q, e, u) => Known(q, e, u)') /\ (Known(q, n, t) => Known(q, n, t)')
    BY <2>4, KnownStays
  <2> QED BY <1>2, <2>1, <2>2, <2>4, <2>5 DEF SaveOf
<1> QED BY <1>1, <1>2

LEMMA SendKept ==
  ASSUME PageInv, Next, NEW v \in Windows, send'[v] = send[v]
  PROVE  SendOf(v)'
<1>1. CASE send[v] = None
  BY <1>1 DEF SendOf
<1>2. CASE send[v] # None
  <2>1. SendOf(v) /\ send[v] \in Send
    BY <1>2 DEF PageInv, WindowOf, TypeOK
  <2> DEFINE q == send[v].room
             t == send[v].text
             n == send[v].revision
             a == send[v].answer
             d == send[v].draft
  <2>2. q \in Rooms
    BY <2>1 DEF Send
  <2>3. (Known(q, n, t) => Known(q, n, t)') /\ (Known(q, a, d) => Known(q, a, d)')
    BY <2>2, KnownStays
  <2> QED BY <1>2, <2>1, <2>3 DEF SendOf, Known, Number, TextAt
<1> QED BY <1>1, <1>2

LEMMA QueueKept ==
  ASSUME PageInv, NEW v \in Windows, queue'[v] = queue[v], send'[v] = send[v]
  PROVE  QueueOf(v)'
BY DEF PageInv, WindowOf, QueueOf

LEMMA OthersKeep ==
  ASSUME PageInv, NEW w \in Windows, Step(w), NEW v \in Windows, v # w
  PROVE  WindowOf(v)'
<1>1. Next
  BY DEF Next
<1>2. /\ UNCHANGED <<room[v], revision[v], saved[v], queue[v], save[v],
                     send[v], loads[v]>>
      /\ v \in mixed <=> v \in mixed'
  BY OthersStay
<1> QED BY <1>1, <1>2, ReferencesKept, LoadsKept, SaveKept, SendKept, QueueKept DEF WindowOf

-----------------------------------------------------------------------------
(* Saves.                                                                  *)

\* An entry joins the end of the queue.
LEMMA Queued ==
  ASSUME PageInv, NEW w \in Windows, NEW e \in Entry,
         queue' = [queue EXCEPT ![w] = Append(@, e)]
  PROVE  /\ queue' \in [Windows -> Seq(Entry)]
         /\ queue'[w] # <<>> /\ Len(queue'[w]) = Len(queue[w]) + 1
         /\ \A i \in 1 .. Len(queue[w]) : queue'[w][i] = queue[w][i]
         /\ queue'[w][Len(queue[w]) + 1] = e /\ Len(queue[w]) \in Nat
         /\ queue[w] # <<>> => Head(queue'[w]) = Head(queue[w])
<1>1. queue \in [Windows -> Seq(Entry)] /\ queue[w] \in Seq(Entry)
  BY DEF PageInv, TypeOK
<1>2. queue'[w] = Append(queue[w], e)
  BY <1>1
<1> QED BY <1>1, <1>2

LEMMA TypeKeeps ==
  ASSUME PageInv, NEW w \in Windows, NEW t \in Text, Type(w, t)
  PROVE  QueueType' /\ WindowOf(w)'
<1>1. Next
  BY DEF Next, Step
<1>2. UNCHANGED <<room, revision, saved, queue, save, send, loads, mixed>>
  BY DEF Type
<1>3. QueueType'
  BY <1>2 DEF PageInv, TypeOK, QueueType
<1> QED BY <1>1, <1>2, <1>3, ReferencesKept, LoadsKept, SaveKept, SendKept, QueueKept
       DEF WindowOf

LEMMA AutoSaveKeeps ==
  ASSUME PageInv, NEW w \in Windows, AutoSave(w)
  PROVE  QueueType' /\ WindowOf(w)'
<1>1. Next
  BY DEF Next, Step
<1>2. UNCHANGED <<room, revision, saved, save, send, loads, mixed>>
  BY DEF AutoSave, draftVars
<1> DEFINE e == [room |-> room[w], text |-> text[w], for |-> "draft"]
<1>3. e \in Entry
  BY DEF PageInv, TypeOK, Entry
<1>4. queue' = [queue EXCEPT ![w] = Append(@, e)]
  BY DEF AutoSave, Enqueue
<1>5. QueueOf(w)'
  <2>1. e.for # "message"
    OBVIOUS
  <2> HIDE DEF e
  <2>2. \A i \in 1 .. Len(queue'[w]) : queue'[w][i].for = "message" =>
          i \in 1 .. Len(queue[w]) /\ queue'[w][i] = queue[w][i]
    BY <1>3, <1>4, <2>1, Queued
  <2>3. QueueOf(w)
    BY DEF PageInv, WindowOf
  <2> QED BY <1>2, <2>2, <2>3 DEF QueueOf
<1>6. QueueType'
  <2> HIDE DEF e
  <2>1. queue' \in [Windows -> Seq(Entry)]
    BY <1>3, <1>4, Queued
  <2> QED BY <1>2, <2>1 DEF PageInv, TypeOK, QueueType
<1>7. SaveOf(w)'
  <2> HIDE DEF e
  <2> QED BY <1>1, <1>2, <1>3, <1>4, Queued, SaveKept
<1> QED BY <1>1, <1>2, <1>5, <1>6, <1>7, ReferencesKept, LoadsKept, SendKept DEF WindowOf

LEMMA StartSaveKeeps ==
  ASSUME PageInv, NEW w \in Windows, StartSave(w)
  PROVE  QueueType' /\ WindowOf(w)'
<1>1. Next
  BY DEF Next, Step
<1>2. UNCHANGED <<drafts, room, revision, saved, queue, send, loads, mixed>>
  BY DEF StartSave, draftVars, serverVars
<1>3. queue[w] # <<>> /\ room[w] = Head(queue[w]).room
  BY DEF StartSave, Turn, NothingToSave
<1> DEFINE s == [at |-> "sent", expected |-> revision[w], revision |-> 0,
                 seen |-> saved[w], own |-> w \notin mixed]
<1>4. s \in Save /\ save' = [save EXCEPT ![w] = s]
  BY DEF PageInv, TypeOK, Save, StartSave
<1>5. save'[w] = s
  BY <1>4 DEF PageInv, TypeOK
<1>6. SaveOf(w)'
  <2>1. s.own => Known(Head(queue[w]).room, s.expected, s.seen)
    BY <1>3 DEF PageInv, WindowOf, ReferencesOf
  <2>2. s.at = "sent"
    OBVIOUS
  <2>3. PICK c : c = s
    OBVIOUS
  <2> HIDE DEF s
  <2>4. PICK h : h = Head(queue[w])
    OBVIOUS
  <2>5. c.own => Known(h.room, c.expected, c.seen)
    BY <2>1, <2>3, <2>4
  <2>6. c.own => Known(h.room, c.expected, c.seen)'
    BY <1>2, <2>5 DEF Known, Number, TextAt
  <2> QED BY <1>2, <1>3, <1>5, <2>2, <2>3, <2>4, <2>6 DEF SaveOf
<1>7. QueueType'
  BY <1>2, <1>4 DEF PageInv, TypeOK, QueueType
<1> QED BY <1>1, <1>2, <1>6, <1>7, ReferencesKept, LoadsKept, SendKept, QueueKept DEF WindowOf

LEMMA StoreDraftKeeps ==
  ASSUME PageInv, NEW w \in Windows, StoreDraft(w)
  PROVE  QueueType' /\ WindowOf(w)'
<1>1. Next
  BY DEF Next, Step
<1>2. UNCHANGED <<room, revision, saved, queue, send, loads, mixed>>
  BY DEF StoreDraft, draftVars
<1>3. TypeOK /\ save[w] \in SaveRow /\ queue[w] # <<>>
  BY SaveAt DEF StoreDraft, PageInv, WindowOf, SaveOf
<1>4. PICK r \in Rooms, t \in Text, e \in Nat :
        r = Head(queue[w]).room /\ t = Head(queue[w]).text /\ e = save[w].expected
  BY <1>3, HeadOfQueue DEF Entry, SaveRow
<1>5. \/ \E n \in Nat :
            /\ save' = [save EXCEPT ![w].at = "stored", ![w].revision = n]
            /\ Known(r, n, t)'
      \/ save' = [save EXCEPT ![w] = [at |-> "refused"]]
  <2>1. CASE Number(r) = e + 1 /\ Draft(r) = t
    <3>1. PICK n \in Nat : n = e + 1
      OBVIOUS
    <3>2. save' = [save EXCEPT ![w].at = "stored", ![w].revision = n]
      BY <1>4, <2>1, <3>1 DEF StoreDraft
    <3>3. Known(r, n, t)
      BY <1>3, <2>1, <3>1, DraftIsText DEF Known
    <3> QED BY <1>1, <3>2, <3>3, KnownStays
  <2>2. CASE ~(Number(r) = e + 1 /\ Draft(r) = t) /\ Expected(r, e)
    <3>1. /\ drafts' = [drafts EXCEPT ![r] = Append(@, t)]
          /\ save' = [save EXCEPT ![w].at = "stored", ![w].revision = Number(r) + 1]
      BY <1>4, <2>2 DEF StoreDraft
    <3>2. PICK n : n = Number(r) + 1
      OBVIOUS
    <3>3. n \in Nat
      BY <1>3, <3>2, DraftIsText
    <3>4. Known(r, n, t)'
      BY <1>3, <3>1, <3>2, DraftsGrow
    <3> QED BY <3>1, <3>2, <3>3, <3>4
  <2>3. CASE ~(Number(r) = e + 1 /\ Draft(r) = t) /\ ~Expected(r, e)
    BY <1>4, <2>3 DEF StoreDraft
  <2> QED BY <2>1, <2>2, <2>3
<1>6. CASE save' = [save EXCEPT ![w] = [at |-> "refused"]]
  <2>1. save'[w] = [at |-> "refused"] /\ save'[w].at = "refused"
    BY <1>3, <1>6 DEF TypeOK
  <2>2. SaveOf(w)'
    BY <1>2, <1>3, <2>1 DEF SaveOf
  <2>3. [at |-> "refused"] \in Save
    BY DEF Save
  <2>4. QueueType'
    BY <1>2, <1>3, <1>6, <2>3 DEF TypeOK, QueueType
  <2> QED BY <1>1, <1>2, <2>2, <2>4, ReferencesKept, LoadsKept, SendKept, QueueKept DEF WindowOf
<1>7. ASSUME NEW n \in Nat, save' = [save EXCEPT ![w].at = "stored", ![w].revision = n],
             Known(r, n, t)'
      PROVE  QueueType' /\ WindowOf(w)'
  <2>1. PICK s \in SaveRow : s = [save[w] EXCEPT !.at = "stored", !.revision = n]
    BY <1>3, SaveStored
  <2>2. s.at = "stored" /\ s.revision = n
    BY <1>3, <2>1, SaveStored
  <2>3. save' = [save EXCEPT ![w] = s]
    BY <1>3, <1>7, <2>1 DEF TypeOK
  <2>4. save'[w] = s
    BY <1>3, <2>3 DEF TypeOK
  <2>5. s \in Save
    BY DEF Save, SaveRow
  <2>6. SaveOf(w)'
    BY <1>2, <1>3, <1>4, <1>7, <2>2, <2>4 DEF SaveOf
  <2>7. QueueType'
    BY <1>2, <1>3, <2>3, <2>5 DEF TypeOK, QueueType
  <2> QED BY <1>1, <1>2, <2>6, <2>7, ReferencesKept, LoadsKept, SendKept, QueueKept DEF WindowOf
<1> QED BY <1>5, <1>6, <1>7

LEMMA LoseSaveKeeps ==
  ASSUME PageInv, NEW w \in Windows, LoseSave(w)
  PROVE  QueueType' /\ WindowOf(w)'
<1>1. Next
  BY DEF Next, Step
<1>2. UNCHANGED <<room, revision, saved, queue, send, loads, mixed>>
  BY DEF LoseSave, draftVars
<1>3. TypeOK /\ queue[w] # <<>>
  BY DEF LoseSave, PageInv, WindowOf, SaveOf
<1>4. save' = [save EXCEPT ![w] = [at |-> "refused"]]
  BY DEF LoseSave
<1>5. save'[w] = [at |-> "refused"] /\ save'[w].at = "refused" /\ [at |-> "refused"] \in Save
  BY <1>3, <1>4 DEF TypeOK, Save
<1>6. SaveOf(w)'
  BY <1>2, <1>3, <1>5 DEF SaveOf
<1>7. QueueType'
  BY <1>2, <1>3, <1>4, <1>5 DEF TypeOK, QueueType
<1> QED BY <1>1, <1>2, <1>6, <1>7, ReferencesKept, LoadsKept, SendKept, QueueKept DEF WindowOf

\* When the first entry has settled, the message it was for goes on or is
\* given up, and nothing else waits for it.
LEMMA Settled ==
  ASSUME PageInv, Next, NEW w \in Windows, queue[w] # <<>>, Settle(w),
         NEW n \in Nat, NEW own \in BOOLEAN,
         Abandon(w) \/ Continue(w, n, own),
         NEW q, NEW t, q = Head(queue[w]).room, t = Head(queue[w]).text,
         own => Known(q, n, t)'
  PROVE  QueueType' /\ SaveOf(w)' /\ SendOf(w)' /\ QueueOf(w)'
<1>1. TypeOK /\ QueueOf(w) /\ SendOf(w)
  BY DEF PageInv, WindowOf
<1>2. /\ Head(queue[w]) = queue[w][1] /\ Head(queue[w]) \in Entry
      /\ Tail(queue[w]) \in Seq(Entry) /\ Len(queue[w]) \in Nat \ {0}
      /\ Len(Tail(queue[w])) = Len(queue[w]) - 1
      /\ \A i \in 1 .. Len(queue[w]) - 1 : Tail(queue[w])[i] = queue[w][i + 1]
  BY <1>1, HeadOfQueue
<1>3. /\ queue' = [queue EXCEPT ![w] = Tail(queue[w])] /\ queue'[w] = Tail(queue[w])
      /\ save' = [save EXCEPT ![w] = None] /\ save'[w] = None
  BY <1>1 DEF Settle, TypeOK
<1>4. SaveOf(w)'
  BY <1>3 DEF SaveOf
<1>5. /\ queue' \in [Windows -> Seq(Entry)] /\ save' \in [Windows -> Save \cup {None}]
  BY <1>1, <1>2, <1>3 DEF TypeOK
<1>6. \A i \in 1 .. Len(queue'[w]) :
        /\ i + 1 \in 1 .. Len(queue[w]) /\ i + 1 # 1
        /\ queue'[w][i] = queue[w][i + 1]
  <2> TAKE i \in 1 .. Len(queue'[w])
  <2>1. Len(queue'[w]) = Len(queue[w]) - 1
    BY <1>2, <1>3
  <2>2. i \in 1 .. Len(queue[w]) - 1
    BY <2>1
  <2>3. i + 1 \in 1 .. Len(queue[w]) /\ i + 1 # 1
    BY <1>2, <2>2
  <2> QED BY <1>2, <1>3, <2>2, <2>3
<1>7. CASE Head(queue[w]).for # "message"
  <2>1. send' = send
    BY <1>7 DEF Abandon, Continue
  <2>2. QueueOf(w)'
    <3> SUFFICES ASSUME NEW i \in 1 .. Len(queue'[w]), queue'[w][i].for = "message"
                 PROVE  /\ send'[w] # None /\ send'[w].at = "save"
                        /\ send'[w].room = queue'[w][i].room
                        /\ send'[w].text = queue'[w][i].text
                        /\ \A j \in 1 .. Len(queue'[w]) :
                             queue'[w][j].for = "message" => j = i
      BY DEF QueueOf
    <3>1. i + 1 \in 1 .. Len(queue[w]) /\ queue[w][i + 1].for = "message"
      BY <1>6
    <3>2. /\ send'[w] # None /\ send'[w].at = "save"
          /\ send'[w].room = queue'[w][i].room
          /\ send'[w].text = queue'[w][i].text
      BY <1>1, <1>6, <2>1, <3>1 DEF QueueOf
    <3>3. ASSUME NEW j \in 1 .. Len(queue'[w]), queue'[w][j].for = "message"
          PROVE  j = i
      <4>1. j + 1 \in 1 .. Len(queue[w]) /\ queue[w][j + 1].for = "message"
        BY <1>6, <3>3
      <4>2. j + 1 = i + 1
        BY <1>1, <3>1, <4>1 DEF QueueOf
      <4>3. i \in Int /\ j \in Int
        OBVIOUS
      <4> QED BY <4>2, <4>3
    <3> QED BY <3>2, <3>3
  <2> QED BY <1>1, <1>4, <1>5, <2>1, <2>2, SendKept DEF QueueType, TypeOK
<1>8. CASE Head(queue[w]).for = "message"
  <2>1. /\ 1 \in 1 .. Len(queue[w]) /\ queue[w][1].for = "message"
        /\ send[w] # None /\ send[w].at = "save"
        /\ send[w].room = q /\ send[w].text = t
        /\ \A j \in 1 .. Len(queue[w]) : queue[w][j].for = "message" => j = 1
    BY <1>1, <1>2, <1>8 DEF QueueOf
  <2>2. QueueOf(w)'
    BY <1>6, <2>1 DEF QueueOf
  <2>3. send[w] \in Send
    BY <1>1, <2>1 DEF TypeOK
  <2>4. CASE Abandon(w)
    <3>1. send' = [send EXCEPT ![w] = None]
      BY <1>8, <2>4 DEF Abandon
    <3>2. send' \in [Windows -> Send \cup {None}] /\ send'[w] = None
      BY <1>1, <3>1 DEF TypeOK
    <3> QED BY <1>4, <1>5, <2>2, <3>2 DEF SendOf, QueueType
  <2>5. CASE Continue(w, n, own)
    <3> DEFINE s == [send[w] EXCEPT !.at = "post", !.revision = n, !.own = own]
    <3>1. /\ s \in Send /\ s.at = "post" /\ s.revision = n /\ s.own = own
          /\ s.room = q /\ s.text = t
      BY <2>1, <2>3 DEF Send
    <3>2. send' = [send EXCEPT ![w].at = "post", ![w].revision = n, ![w].own = own]
      BY <1>8, <2>5 DEF Continue
    <3>3. send' = [send EXCEPT ![w] = s]
      BY <1>1, <3>2 DEF TypeOK
    <3> HIDE DEF s
    <3>4. send' \in [Windows -> Send \cup {None}] /\ send'[w] = s
      BY <1>1, <3>1, <3>3 DEF TypeOK
    <3>5. SendOf(w)'
      BY <3>1, <3>4 DEF SendOf
    <3> QED BY <1>4, <1>5, <2>2, <3>4, <3>5 DEF QueueType
  <2> QED BY <2>4, <2>5
<1> QED BY <1>7, <1>8

LEMMA SkipSaveKeeps ==
  ASSUME PageInv, NEW w \in Windows, SkipSave(w)
  PROVE  QueueType' /\ WindowOf(w)'
<1>1. Next
  BY DEF Next, Step
<1>2. UNCHANGED <<drafts, room, revision, saved, loads, mixed>>
  BY DEF SkipSave, serverVars, draftVars
<1>3. queue[w] # <<>> /\ revision[w] \in Nat /\ TypeOK
  BY DEF SkipSave, Turn, PageInv, TypeOK
<1>4. PICK q, t : q = Head(queue[w]).room /\ t = Head(queue[w]).text
  OBVIOUS
<1>5. PICK n \in Nat, own \in BOOLEAN :
        n = revision[w] /\ own = (room[w] = q /\ w \notin mixed)
  BY <1>3
<1>6. own => Known(q, n, t)
  BY <1>4, <1>5 DEF SkipSave, NothingToSave, PageInv, WindowOf, ReferencesOf
<1>7. own => Known(q, n, t)'
  BY <1>2, <1>6 DEF Known, Number, TextAt
<1>8. Continue(w, n, own) /\ Settle(w)
  BY <1>4, <1>5 DEF SkipSave
<1>9. QueueType' /\ SaveOf(w)' /\ SendOf(w)' /\ QueueOf(w)'
  BY <1>1, <1>3, <1>4, <1>7, <1>8, Settled
<1> QED BY <1>1, <1>2, <1>9, ReferencesKept, LoadsKept DEF WindowOf

LEMMA FinishSaveKeeps ==
  ASSUME PageInv, NEW w \in Windows, FinishSave(w)
  PROVE  QueueType' /\ WindowOf(w)' /\ ReferenceType'
<1>1. Next
  BY DEF Next, Step
<1>2. UNCHANGED <<drafts, room, loads, mixed, text, veiled>>
  BY DEF FinishSave, serverVars
<1>3. queue[w] # <<>> /\ save[w] \in SaveRow /\ TypeOK
  BY SaveAt DEF FinishSave, PageInv, WindowOf, SaveOf
<1>4. PICK q \in Rooms, t \in Text, n \in Nat :
        q = Head(queue[w]).room /\ t = Head(queue[w]).text /\ n = save[w].revision
  BY <1>3, HeadOfQueue DEF Entry, SaveRow
<1>5. Known(q, n, t)
  BY <1>4 DEF FinishSave, PageInv, WindowOf, SaveOf
<1>6. Known(q, n, t)'
  BY <1>2, <1>5 DEF Known, Number, TextAt
<1>7. Continue(w, n, TRUE) /\ Settle(w)
  BY <1>4 DEF FinishSave
<1>8. QueueType' /\ SaveOf(w)' /\ SendOf(w)' /\ QueueOf(w)'
  BY <1>1, <1>3, <1>4, <1>6, <1>7, Settled
<1>9. CASE Counts(w)
  <2>1. /\ revision' = [revision EXCEPT ![w] = n]
        /\ saved' = [saved EXCEPT ![w] = t] /\ room[w] = q
    BY <1>4, <1>9 DEF FinishSave, Counts
  <2>2. revision'[w] = n /\ saved'[w] = t /\ room'[w] = q
    BY <1>2, <1>3, <2>1 DEF TypeOK
  <2>3. ReferencesOf(w)'
    BY <1>6, <2>2 DEF ReferencesOf
  <2>4. ReferenceType'
    BY <1>2, <1>3, <1>4, <2>1 DEF ReferenceType, TypeOK
  <2> QED BY <1>1, <1>2, <1>8, <2>3, <2>4, LoadsKept DEF WindowOf
<1>10. CASE ~Counts(w)
  <2>1. UNCHANGED <<revision, saved>>
    BY <1>10 DEF FinishSave
  <2>2. ReferenceType'
    BY <1>2, <1>3, <2>1 DEF ReferenceType, TypeOK
  <2> QED BY <1>1, <1>2, <1>8, <2>1, <2>2, ReferencesKept, LoadsKept DEF WindowOf
<1> QED BY <1>9, <1>10

LEMMA RefuseSaveKeeps ==
  ASSUME PageInv, NEW w \in Windows, RefuseSave(w)
  PROVE  QueueType' /\ WindowOf(w)'
<1>1. Next
  BY DEF Next, Step
<1>2. UNCHANGED <<room, revision, saved, loads, mixed>>
  BY DEF RefuseSave, draftVars
<1>3. queue[w] # <<>> /\ Abandon(w) /\ Settle(w)
  BY DEF RefuseSave, PageInv, WindowOf, SaveOf
<1>4. PICK q, t : q = Head(queue[w]).room /\ t = Head(queue[w]).text
  OBVIOUS
<1>5. 0 \in Nat /\ FALSE \in BOOLEAN
  OBVIOUS
<1>6. QueueType' /\ SaveOf(w)' /\ SendOf(w)' /\ QueueOf(w)'
  BY <1>1, <1>3, <1>4, <1>5, Settled
<1> QED BY <1>1, <1>2, <1>6, ReferencesKept, LoadsKept DEF WindowOf

-----------------------------------------------------------------------------
(* Sending, and the answer to it.                                          *)

LEMMA SendMessageKeeps ==
  ASSUME PageInv, NEW w \in Windows, SendMessage(w)
  PROVE  QueueType' /\ WindowOf(w)'
<1>1. Next
  BY DEF Next, Step
<1>2. UNCHANGED <<room, revision, saved, save, loads, mixed>>
  BY DEF SendMessage, draftVars
<1>3. TypeOK /\ QueueOf(w) /\ send[w] = None /\ text[w] \in Texts
  BY DEF SendMessage, PageInv, WindowOf, TypeOK, Text
<1> DEFINE e == [room |-> room[w], text |-> text[w], for |-> "message"]
           m == [at |-> "save", room |-> room[w], text |-> text[w], revision |-> 0,
                 own |-> TRUE, draft |-> "", answer |-> 0]
<1>4. e \in Entry /\ m \in Send /\ m # None
  <2>1. room[w] \in Rooms /\ text[w] \in Text /\ "" \in Text
    BY <1>3 DEF TypeOK, Text
  <2>2. e \in Entry
    BY <2>1 DEF Entry
  <2>3. m \in Send
    BY <1>3, <2>1 DEF Send
  <2> QED BY <2>2, <2>3, NoneAssumption
<1>5. queue' = [queue EXCEPT ![w] = Append(@, e)] /\ send' = [send EXCEPT ![w] = m]
  BY DEF SendMessage, Enqueue
<1>6. m.at = "save" /\ m.room = e.room /\ m.text = e.text /\ e.for = "message"
  OBVIOUS
<1> HIDE DEF e, m
<1>7. send'[w] = m /\ send' \in [Windows -> Send \cup {None}]
  BY <1>3, <1>4, <1>5 DEF TypeOK
<1>8. /\ queue' \in [Windows -> Seq(Entry)]
      /\ queue'[w] # <<>> /\ Len(queue'[w]) = Len(queue[w]) + 1
      /\ \A i \in 1 .. Len(queue[w]) : queue'[w][i] = queue[w][i]
      /\ queue'[w][Len(queue[w]) + 1] = e /\ Len(queue[w]) \in Nat
      /\ queue[w] # <<>> => Head(queue'[w]) = Head(queue[w])
  BY <1>4, <1>5, Queued
<1>9. \A i \in 1 .. Len(queue'[w]) :
        queue'[w][i].for = "message" => i = Len(queue[w]) + 1
  <2> SUFFICES ASSUME NEW i \in 1 .. Len(queue'[w]), i # Len(queue[w]) + 1,
                      queue'[w][i].for = "message"
               PROVE  FALSE
    OBVIOUS
  <2>1. i \in 1 .. Len(queue[w])
    BY <1>8
  <2> QED BY <1>3, <1>8, <2>1 DEF QueueOf
<1>10. QueueOf(w)'
  BY <1>4, <1>6, <1>7, <1>8, <1>9 DEF QueueOf
<1>11. SendOf(w)'
  BY <1>6, <1>7 DEF SendOf
<1>12. SaveOf(w)'
  BY <1>1, <1>2, <1>8, SaveKept
<1>13. QueueType'
  BY <1>2, <1>3, <1>7, <1>8 DEF QueueType, TypeOK
<1> QED BY <1>1, <1>2, <1>10, <1>11, <1>12, <1>13, ReferencesKept, LoadsKept DEF WindowOf

\* A message that has left the queue changes without it.
LEMMA SendChanges ==
  ASSUME PageInv, Next, NEW w \in Windows, send[w].at # "save",
         UNCHANGED <<queue, save>>, NEW s \in Send \cup {None},
         send' = [send EXCEPT ![w] = s]
  PROVE  QueueType' /\ SaveOf(w)' /\ QueueOf(w)' /\ send'[w] = s
<1>1. TypeOK /\ QueueOf(w)
  BY DEF PageInv, WindowOf
<1>2. QueueOf(w)'
  BY <1>1 DEF QueueOf
<1>3. SaveOf(w)'
  BY SaveKept
<1> QED BY <1>1, <1>2, <1>3 DEF QueueType, TypeOK

LEMMA StoreMessageKeeps ==
  ASSUME PageInv, NEW w \in Windows, StoreMessage(w)
  PROVE  QueueType' /\ WindowOf(w)'
<1>1. Next
  BY DEF Next, Step
<1>2. UNCHANGED <<drafts, room, revision, saved, queue, save, loads, mixed>>
  BY DEF StoreMessage, draftVars
<1>3. TypeOK /\ SendOf(w) /\ send[w] # None /\ send[w].at = "post" /\ send[w] \in Send
  BY DEF StoreMessage, At, PageInv, WindowOf, TypeOK
<1>4. PICK s \in Send : s = [send[w] EXCEPT !.at = "stored"]
  BY <1>3 DEF Send
<1>5. /\ s.at = "stored" /\ s.own = send[w].own /\ s.room = send[w].room
      /\ s.revision = send[w].revision /\ s.text = send[w].text
  BY <1>3, <1>4 DEF Send
<1>6. send' = [send EXCEPT ![w] = s]
  BY <1>3, <1>4 DEF StoreMessage, TypeOK
<1>7. QueueType' /\ SaveOf(w)' /\ QueueOf(w)' /\ send'[w] = s
  BY <1>1, <1>2, <1>3, <1>6, SendChanges
<1>8. s.own => Known(s.room, s.revision, s.text)
  BY <1>3, <1>5 DEF SendOf
<1>9. s.own => Known(s.room, s.revision, s.text)'
  BY <1>2, <1>8 DEF Known, Number, TextAt
<1>10. SendOf(w)'
  BY <1>5, <1>7, <1>9 DEF SendOf
<1> QED BY <1>1, <1>2, <1>7, <1>10, ReferencesKept, LoadsKept DEF WindowOf

LEMMA ClearDraftKeeps ==
  ASSUME PageInv, NEW w \in Windows, ClearDraft(w)
  PROVE  QueueType' /\ WindowOf(w)'
<1>1. Next
  BY DEF Next, Step
<1>2. UNCHANGED <<room, revision, saved, queue, save, loads, mixed>>
  BY DEF ClearDraft, draftVars
<1>3. TypeOK /\ send[w] # None /\ send[w].at = "stored" /\ send[w] \in Send
  BY DEF ClearDraft, At, PageInv, TypeOK
<1>4. PICK r \in Rooms : r = send[w].room
  BY <1>3 DEF Send
<1>5. \E n \in Nat, t \in Text :
        /\ send' = [send EXCEPT ![w].at = "cleared", ![w].answer = n, ![w].draft = t]
        /\ Known(r, n, t)'
  <2>1. CASE MadeFrom(r, send[w].revision)
    <3>1. /\ drafts' = [drafts EXCEPT ![r] = Append(@, "")]
          /\ send' = [send EXCEPT ![w].at = "cleared", ![w].answer = Number(r) + 1,
                                  ![w].draft = ""]
      BY <1>4, <2>1 DEF ClearDraft
    <3>2. "" \in Text
      BY DEF Text
    <3>3. PICK n : n = Number(r) + 1
      OBVIOUS
    <3>4. n \in Nat
      BY <1>3, <3>3, DraftIsText
    <3>5. Known(r, n, "")'
      BY <1>3, <3>1, <3>2, <3>3, DraftsGrow
    <3> QED BY <3>1, <3>2, <3>3, <3>4, <3>5
  <2>2. CASE ~MadeFrom(r, send[w].revision)
    <3>1. PICK n, t : n = Number(r) /\ t = Draft(r)
      OBVIOUS
    <3>2. send' = [send EXCEPT ![w].at = "cleared", ![w].answer = n, ![w].draft = t]
      BY <1>4, <2>2, <3>1 DEF ClearDraft
    <3>3. n \in Nat /\ t \in Text /\ Known(r, n, t)
      BY <1>3, <3>1, DraftIsText DEF Known
    <3> QED BY <1>1, <3>2, <3>3, KnownStays
  <2> QED BY <2>1, <2>2
<1>6. PICK n \in Nat, t \in Text :
        /\ send' = [send EXCEPT ![w].at = "cleared", ![w].answer = n, ![w].draft = t]
        /\ Known(r, n, t)'
  BY <1>5
<1>7. PICK s \in Send : s = [send[w] EXCEPT !.at = "cleared", !.answer = n, !.draft = t]
  BY <1>3 DEF Send
<1>8. s.at = "cleared" /\ s.room = r /\ s.answer = n /\ s.draft = t
  BY <1>3, <1>4, <1>7 DEF Send
<1>9. send' = [send EXCEPT ![w] = s]
  BY <1>3, <1>6, <1>7 DEF TypeOK
<1>10. QueueType' /\ SaveOf(w)' /\ QueueOf(w)' /\ send'[w] = s
  BY <1>1, <1>2, <1>3, <1>9, SendChanges
<1>11. SendOf(w)'
  BY <1>6, <1>8, <1>10 DEF SendOf
<1> QED BY <1>1, <1>2, <1>10, <1>11, ReferencesKept, LoadsKept DEF WindowOf

LEMMA FailSendKeeps ==
  ASSUME PageInv, NEW w \in Windows, FailSend(w)
  PROVE  QueueType' /\ WindowOf(w)'
<1>1. Next
  BY DEF Next, Step
<1>2. UNCHANGED <<room, revision, saved, queue, save, loads, mixed>>
  BY DEF FailSend, draftVars
<1>3. QueueType' /\ SaveOf(w)' /\ QueueOf(w)' /\ send'[w] = None
  BY <1>1, <1>2, SendChanges DEF FailSend
<1>4. SendOf(w)'
  BY <1>3 DEF SendOf
<1> QED BY <1>1, <1>2, <1>3, <1>4, ReferencesKept, LoadsKept DEF WindowOf

LEMMA FinishSendKeeps ==
  ASSUME PageInv, NEW w \in Windows, FinishSend(w)
  PROVE  QueueType' /\ WindowOf(w)' /\ ReferenceType'
<1>1. Next
  BY DEF Next, Step
<1>2. UNCHANGED <<drafts, room, queue, save, loads, veiled>>
  BY DEF FinishSend, serverVars
<1>3. TypeOK /\ SendOf(w) /\ send[w] # None /\ send[w].at = "cleared" /\ send[w] \in Send
  BY DEF FinishSend, At, PageInv, WindowOf, TypeOK
<1>4. PICK r \in Rooms, n \in Nat, t \in Text :
        r = send[w].room /\ n = send[w].answer /\ t = send[w].draft
  BY <1>3 DEF Send
<1>5. Known(r, n, t)
  BY <1>3, <1>4 DEF SendOf
<1>6. Known(r, n, t)'
  BY <1>2, <1>5 DEF Known, Number, TextAt
<1>7. /\ revision' = [revision EXCEPT ![w] = n] /\ saved' = [saved EXCEPT ![w] = t]
      /\ text' = [text EXCEPT ![w] = ""]
      /\ send' = [send EXCEPT ![w] = None]
      /\ mixed' = IF room[w] # r THEN mixed \cup {w} ELSE mixed
  BY <1>4 DEF FinishSend
<1>8. QueueType' /\ SaveOf(w)' /\ QueueOf(w)' /\ send'[w] = None
  BY <1>1, <1>2, <1>3, <1>7, SendChanges
<1>9. SendOf(w)'
  BY <1>8 DEF SendOf
<1>10. revision'[w] = n /\ saved'[w] = t /\ room'[w] = room[w]
  BY <1>2, <1>3, <1>7 DEF TypeOK
<1>11. ReferencesOf(w)'
  BY <1>6, <1>7, <1>10 DEF ReferencesOf
<1>12. ReferenceType'
  BY <1>2, <1>3, <1>4, <1>7 DEF ReferenceType, TypeOK, Text
<1> QED BY <1>1, <1>2, <1>8, <1>9, <1>11, <1>12, LoadsKept DEF WindowOf

-----------------------------------------------------------------------------
(* Selecting a room, and reading it.                                       *)

LEMMA SelectRoomKeeps ==
  ASSUME PageInv, NEW w \in Windows, NEW r \in Rooms, SelectRoom(w, r)
  PROVE  QueueType' /\ WindowOf(w)' /\ ReferenceType'
<1>1. Next
  BY DEF Next, Step
<1>2. UNCHANGED <<drafts, room, text, revision, saved, queue, save, send, mixed>>
  BY DEF SelectRoom, draftVars, serverVars
<1>3. TypeOK /\ LoadsOf(w)
  BY DEF PageInv, WindowOf
<1> DEFINE l == [room |-> r, at |-> "sent"]
<1>4. l \in Load /\ l.at # "read"
  BY DEF Load
<1>5. /\ loads' = [loads EXCEPT ![w] = @ \cup {l}]
      /\ veiled' = [veiled EXCEPT ![w] = TRUE]
  BY DEF SelectRoom
<1> HIDE DEF l
<1>6. loads'[w] = loads[w] \cup {l} /\ loads' \in [Windows -> SUBSET Load]
  BY <1>3, <1>4, <1>5 DEF TypeOK
<1>7. LoadsOf(w)'
  BY <1>2, <1>3, <1>4, <1>6 DEF LoadsOf, Known, Number, TextAt
<1>8. QueueType' /\ ReferenceType'
  BY <1>2, <1>3, <1>5, <1>6 DEF QueueType, ReferenceType, TypeOK
<1> QED BY <1>1, <1>2, <1>7, <1>8, ReferencesKept, SaveKept, SendKept, QueueKept DEF WindowOf

LEMMA ReadRoomKeeps ==
  ASSUME PageInv, NEW w \in Windows, NEW l \in loads[w], ReadRoom(w, l)
  PROVE  QueueType' /\ WindowOf(w)' /\ ReferenceType'
<1>1. Next
  BY DEF Next, Step
<1>2. UNCHANGED <<drafts, room, text, revision, saved, queue, save, send, mixed, veiled>>
  BY DEF ReadRoom, draftVars, serverVars
<1>3. TypeOK /\ LoadsOf(w)
  BY DEF PageInv, WindowOf
<1>4. l \in Load
  BY <1>3 DEF TypeOK
<1>5. PICK r \in Rooms, n \in Nat, t \in Text : r = l.room /\ n = Number(r) /\ t = Draft(r)
  BY <1>3, <1>4, DraftIsText DEF Load
<1>6. Known(r, n, t)
  BY <1>3, <1>5, DraftIsText DEF Known
<1> DEFINE k == [room |-> r, at |-> "read", revision |-> n, text |-> t]
<1>7. k \in Load /\ k.room = r /\ k.revision = n /\ k.text = t
  BY DEF Load
<1>8. loads' = [loads EXCEPT ![w] = (@ \ {l}) \cup {k}]
  BY <1>5 DEF ReadRoom
<1> HIDE DEF k
<1>9. loads'[w] = (loads[w] \ {l}) \cup {k} /\ loads' \in [Windows -> SUBSET Load]
  BY <1>3, <1>7, <1>8 DEF TypeOK
<1>10. LoadsOf(w)'
  <2>1. \A x \in loads'[w] : x.at = "read" => Known(x.room, x.revision, x.text)
    BY <1>3, <1>6, <1>7, <1>9 DEF LoadsOf
  <2> QED BY <1>2, <2>1 DEF LoadsOf, Known, Number, TextAt
<1>11. QueueType' /\ ReferenceType'
  BY <1>2, <1>3, <1>9 DEF QueueType, ReferenceType, TypeOK
<1> QED BY <1>1, <1>2, <1>10, <1>11, ReferencesKept, SaveKept, SendKept, QueueKept DEF WindowOf

LEMMA ShowRoomKeeps ==
  ASSUME PageInv, NEW w \in Windows, NEW l \in loads[w], ShowRoom(w, l)
  PROVE  QueueType' /\ WindowOf(w)' /\ ReferenceType'
<1>1. Next
  BY DEF Next, Step
<1>2. UNCHANGED <<drafts, queue, save, send>>
  BY DEF ShowRoom, serverVars
<1>3. TypeOK /\ LoadsOf(w)
  BY DEF PageInv, WindowOf
<1>4. l \in [room : Rooms, at : {"read"}, revision : Nat, text : Text]
  <2>1. l \in Load /\ l.at = "read"
    BY <1>3 DEF ShowRoom, TypeOK
  <2> QED BY <2>1 DEF Load
<1>5. PICK r \in Rooms, n \in Nat, t \in Text : r = l.room /\ n = l.revision /\ t = l.text
  BY <1>4
<1>6. Known(r, n, t)
  BY <1>3, <1>5 DEF LoadsOf, ShowRoom
<1>7. Known(r, n, t)'
  BY <1>2, <1>6 DEF Known, Number, TextAt
<1>8. /\ room' = [room EXCEPT ![w] = r] /\ revision' = [revision EXCEPT ![w] = n]
      /\ saved' = [saved EXCEPT ![w] = t] /\ text' = [text EXCEPT ![w] = t]
      /\ loads' = [loads EXCEPT ![w] = @ \ {l}]
      /\ veiled' = [veiled EXCEPT ![w] = FALSE] /\ mixed' = mixed \ {w}
  BY <1>5 DEF ShowRoom
<1>9. room'[w] = r /\ revision'[w] = n /\ saved'[w] = t /\ loads'[w] \subseteq loads[w]
  BY <1>3, <1>8 DEF TypeOK
<1>10. ReferencesOf(w)'
  BY <1>7, <1>9 DEF ReferencesOf
<1>11. QueueType' /\ ReferenceType'
  BY <1>2, <1>3, <1>8 DEF QueueType, ReferenceType, TypeOK
<1> QED BY <1>1, <1>2, <1>9, <1>10, <1>11, LoadsKept, SaveKept, SendKept, QueueKept DEF WindowOf

LEMMA FailLoadKeeps ==
  ASSUME PageInv, NEW w \in Windows, NEW l \in loads[w], FailLoad(w, l)
  PROVE  QueueType' /\ WindowOf(w)' /\ ReferenceType'
<1>1. Next
  BY DEF Next, Step
<1>2. UNCHANGED <<room, text, revision, saved, queue, save, send, mixed>>
  BY DEF FailLoad, draftVars
<1>3. TypeOK
  BY DEF PageInv
<1>4. /\ loads' = [loads EXCEPT ![w] = @ \ {l}]
      /\ veiled' = [veiled EXCEPT ![w] = FALSE]
  BY DEF FailLoad
<1>5. loads'[w] \subseteq loads[w]
  BY <1>3, <1>4 DEF TypeOK
<1>6. QueueType' /\ ReferenceType'
  BY <1>2, <1>3, <1>4 DEF QueueType, ReferenceType, TypeOK
<1> QED BY <1>1, <1>2, <1>5, <1>6, ReferencesKept, LoadsKept, SaveKept, SendKept, QueueKept
       DEF WindowOf

LEMMA ReportReadKeeps ==
  ASSUME PageInv, NEW w \in Windows, ReportRead(w)
  PROVE  QueueType' /\ WindowOf(w)' /\ ReferenceType'
<1>1. Next
  BY DEF Next, Step
<1>2. UNCHANGED <<room, text, revision, saved, queue, save, send, mixed, loads, veiled>>
  BY DEF ReportRead, draftVars
<1>3. QueueType' /\ ReferenceType'
  BY <1>2 DEF QueueType, ReferenceType, TypeOK, PageInv
<1> QED BY <1>1, <1>2, <1>3, ReferencesKept, LoadsKept, SaveKept, SendKept, QueueKept
       DEF WindowOf

-----------------------------------------------------------------------------
(* Every step.                                                             *)

LEMMA ServerTypeKept ==
  ASSUME PageInv, Next PROVE ServerType' /\ CountType'
<1>1. TypeOK
  BY DEF PageInv
<1>2. drafts' \in [Rooms -> Seq(Text)]
  <2>1. ASSUME NEW w \in Windows, StoreDraft(w), drafts' # drafts
        PROVE  drafts' \in [Rooms -> Seq(Text)]
    <3>1. drafts' = [drafts EXCEPT ![Head(queue[w]).room] = Append(@, Head(queue[w]).text)]
      BY <2>1 DEF StoreDraft
    <3>2. save[w] # None
      BY <2>1 DEF StoreDraft
    <3>3. Head(queue[w]).room \in Rooms /\ Head(queue[w]).text \in Text
      BY <1>1, <3>2, HeadOfQueue DEF PageInv, WindowOf, SaveOf, Entry
    <3> QED BY <1>1, <3>1, <3>3, DraftsGrow
  <2>2. ASSUME NEW w \in Windows, ClearDraft(w), drafts' # drafts
        PROVE  drafts' \in [Rooms -> Seq(Text)]
    <3>1. drafts' = [drafts EXCEPT ![send[w].room] = Append(@, "")]
      BY <2>2 DEF ClearDraft
    <3>2. send[w] \in Send
      BY <1>1, <2>2 DEF ClearDraft, At, TypeOK
    <3>3. send[w].room \in Rooms /\ "" \in Text
      BY <3>2 DEF Send, Text
    <3> QED BY <1>1, <3>1, <3>3, DraftsGrow
  <2>3. ASSUME NEW w \in Windows, Step(w), ~StoreDraft(w), ~ClearDraft(w)
        PROVE  UNCHANGED drafts
    BY <2>3 DEF Step, serverVars, Type, AutoSave, StartSave, LoseSave, SkipSave,
         FinishSave, RefuseSave, SendMessage, StoreMessage, FailSend, FinishSend,
         SelectRoom, ReadRoom, ShowRoom, FailLoad, ReportRead
  <2>4. ASSUME NEW x \in reads, UpdateRead(x) PROVE UNCHANGED drafts
    BY <2>4 DEF UpdateRead
  <2> QED BY <1>1, <2>1, <2>2, <2>3, <2>4 DEF Next, TypeOK
<1>3. messages' \in [Rooms -> Nat]
  <2>1. ASSUME NEW w \in Windows, StoreMessage(w) PROVE messages' \in [Rooms -> Nat]
    <3>1. send[w].room \in Rooms
      BY <1>1, <2>1 DEF StoreMessage, At, TypeOK, Send
    <3> QED BY <1>1, <2>1, <3>1 DEF StoreMessage, TypeOK
  <2>2. ASSUME NEW w \in Windows, Step(w), ~StoreMessage(w) PROVE UNCHANGED messages
    BY <2>2 DEF Step, serverVars, Type, AutoSave, StartSave, LoseSave, SkipSave,
         FinishSave, RefuseSave, SendMessage, StoreDraft, ClearDraft, FailSend, FinishSend,
         SelectRoom, ReadRoom, ShowRoom, FailLoad, ReportRead
  <2> QED BY <1>1, <2>1, <2>2 DEF Next, UpdateRead, TypeOK
<1>4. cursor' \in [Rooms -> Nat] /\ reads' \subseteq Read
  <2>1. ASSUME NEW w \in Windows, ReportRead(w) PROVE reads' \subseteq Read
    <3>1. [room |-> room[w], position |-> messages[room[w]]] \in Read
      BY <1>1 DEF TypeOK, Read
    <3> QED BY <1>1, <2>1, <3>1 DEF ReportRead, TypeOK
  <2>2. ASSUME NEW w \in Windows, Step(w) PROVE UNCHANGED cursor
    BY <2>2 DEF Step, serverVars, Type, AutoSave, StartSave, LoseSave, SkipSave,
         FinishSave, RefuseSave, SendMessage, StoreDraft, StoreMessage, ClearDraft,
         FailSend, FinishSend, SelectRoom, ReadRoom, ShowRoom, FailLoad, ReportRead
  <2>3. ASSUME NEW w \in Windows, Step(w), ~ReportRead(w) PROVE UNCHANGED reads
    BY <2>3 DEF Step, Type, AutoSave, StartSave, LoseSave, SkipSave,
         FinishSave, RefuseSave, SendMessage, StoreDraft, StoreMessage, ClearDraft,
         FailSend, FinishSend, SelectRoom, ReadRoom, ShowRoom, FailLoad
  <2>4. ASSUME NEW x \in reads, UpdateRead(x)
        PROVE  cursor' \in [Rooms -> Nat] /\ reads' \subseteq Read
    <3>1. x.room \in Rooms /\ x.position \in Nat
      BY <1>1 DEF TypeOK, Read
    <3> QED BY <1>1, <2>4, <3>1 DEF UpdateRead, TypeOK
  <2> QED BY <1>1, <2>1, <2>2, <2>3, <2>4 DEF Next, TypeOK
<1>5. CountType'
  <2>1. ASSUME NEW w \in Windows, Step(w)
        PROVE  /\ typed' \in {typed, typed + 1} /\ sends' \in {sends, sends + 1}
               /\ selects' \in {selects, selects + 1}
    BY <2>1 DEF Step, Type, AutoSave, StartSave, LoseSave, SkipSave,
         FinishSave, RefuseSave, SendMessage, StoreDraft, StoreMessage, ClearDraft,
         FailSend, FinishSend, SelectRoom, ReadRoom, ShowRoom, FailLoad, ReportRead
  <2>2. typed \in Nat /\ sends \in Nat /\ selects \in Nat
    BY <1>1 DEF TypeOK
  <2> QED BY <2>1, <2>2 DEF Next, UpdateRead, CountType
<1> QED BY <1>2, <1>3, <1>4, <1>5 DEF ServerType

LEMMA StepKeeps ==
  ASSUME PageInv, NEW w \in Windows, Step(w)
  PROVE  QueueType' /\ WindowOf(w)' /\ ReferenceType'
<1>1. ReferenceType
  BY TypeParts DEF PageInv
<1>2. ASSUME NEW t \in Text, Type(w, t) PROVE QueueType' /\ WindowOf(w)' /\ ReferenceType'
  <2>1. ReferenceType'
    BY <1>1, <1>2 DEF ReferenceType, Type
  <2> QED BY <1>2, <2>1, TypeKeeps
<1>3. CASE \/ AutoSave(w) \/ StartSave(w) \/ StoreDraft(w) \/ LoseSave(w)
           \/ SkipSave(w) \/ RefuseSave(w)
           \/ SendMessage(w) \/ StoreMessage(w) \/ ClearDraft(w) \/ FailSend(w)
  <2>1. UNCHANGED <<draftVars, loads, veiled, mixed>>
    BY <1>3 DEF AutoSave, StartSave, StoreDraft, LoseSave, SkipSave, RefuseSave,
         SendMessage, StoreMessage, ClearDraft, FailSend
  <2>2. ReferenceType'
    BY <1>1, <2>1 DEF ReferenceType, draftVars
  <2>3. QueueType' /\ WindowOf(w)'
    BY <1>3, AutoSaveKeeps, StartSaveKeeps, StoreDraftKeeps, LoseSaveKeeps, SkipSaveKeeps,
       RefuseSaveKeeps, SendMessageKeeps, StoreMessageKeeps, ClearDraftKeeps, FailSendKeeps
  <2> QED BY <2>2, <2>3
<1>4. CASE FinishSave(w) \/ FinishSend(w) \/ ReportRead(w)
  BY <1>4, FinishSaveKeeps, FinishSendKeeps, ReportReadKeeps
<1>5. ASSUME NEW r \in Rooms, SelectRoom(w, r)
      PROVE  QueueType' /\ WindowOf(w)' /\ ReferenceType'
  BY <1>5, SelectRoomKeeps
<1>6. ASSUME NEW l \in loads[w], ReadRoom(w, l) \/ ShowRoom(w, l) \/ FailLoad(w, l)
      PROVE  QueueType' /\ WindowOf(w)' /\ ReferenceType'
  BY <1>6, ReadRoomKeeps, ShowRoomKeeps, FailLoadKeeps
<1> QED BY <1>2, <1>3, <1>4, <1>5, <1>6 DEF Step

LEMMA PageInductive == PageInv /\ [Next]_vars => PageInv'
<1> SUFFICES ASSUME PageInv, [Next]_vars PROVE PageInv'
  OBVIOUS
<1>1. ASSUME NEW w \in Windows, Step(w) PROVE PageInv'
  <2>1. Next
    BY <1>1 DEF Next
  <2>2. TypeOK'
    <3>1. TypeOK' <=> ServerType' /\ ReferenceType' /\ QueueType' /\ CountType'
      BY DEF TypeOK, ServerType, ReferenceType, QueueType, CountType
    <3> QED BY <1>1, <2>1, <3>1, StepKeeps, ServerTypeKept
  <2>3. ASSUME NEW v \in Windows PROVE WindowOf(v)'
    BY <1>1, StepKeeps, OthersKeep
  <2> QED BY <2>2, <2>3 DEF PageInv
<1>2. ASSUME NEW x \in reads, UpdateRead(x) PROVE PageInv'
  <2>1. Next
    BY <1>2 DEF Next
  <2>2. UNCHANGED <<room, text, revision, saved, queue, save, send, mixed, loads, veiled>>
    BY <1>2 DEF UpdateRead, draftVars
  <2>3. QueueType' /\ ReferenceType'
    BY <2>2 DEF QueueType, ReferenceType, TypeOK, PageInv
  <2>4. TypeOK'
    <3>1. TypeOK' <=> ServerType' /\ ReferenceType' /\ QueueType' /\ CountType'
      BY DEF TypeOK, ServerType, ReferenceType, QueueType, CountType
    <3> QED BY <2>1, <2>3, <3>1, ServerTypeKept
  <2>5. ASSUME NEW v \in Windows PROVE WindowOf(v)'
    BY <2>1, <2>2, ReferencesKept, LoadsKept, SaveKept, SendKept, QueueKept DEF WindowOf
  <2> QED BY <2>4, <2>5 DEF PageInv
<1>3. CASE UNCHANGED vars
  <2>1. TypeOK'
    BY <1>3 DEF vars, serverVars, draftVars, PageInv, TypeOK
  <2>2. ASSUME NEW w \in Windows PROVE WindowOf(w)'
    <3>1. WindowOf(w)
      BY DEF PageInv
    <3>2. UNCHANGED <<drafts, room, revision, saved, queue, save, send, loads, mixed>>
      BY <1>3 DEF vars, serverVars, draftVars
    <3>3. ReferencesOf(w)' /\ LoadsOf(w)'
      BY <3>1, <3>2 DEF WindowOf, ReferencesOf, LoadsOf, Known, Number, TextAt
    <3>4. SaveOf(w)'
      BY <3>1, <3>2 DEF WindowOf, SaveOf, Known, Number, TextAt
    <3>5. SendOf(w)' /\ QueueOf(w)'
      BY <3>1, <3>2 DEF WindowOf, SendOf, QueueOf, Known, Number, TextAt
    <3> QED BY <3>3, <3>4, <3>5 DEF WindowOf
  <2> QED BY <2>1, <2>2 DEF PageInv
<1> QED BY <1>1, <1>2, <1>3 DEF Next

LEMMA PageInitially == Init => PageInv
<1> SUFFICES ASSUME Init PROVE PageInv
  OBVIOUS
<1>1. <<>> \in Seq(Text) /\ <<>> \in Seq(Entry) /\ "" \in Text
  BY DEF Text
<1>2. TypeOK
  BY <1>1 DEF Init, TypeOK
<1>3. ASSUME NEW w \in Windows PROVE WindowOf(w)
  <2>1. /\ revision[w] = 0 /\ saved[w] = "" /\ queue[w] = <<>> /\ save[w] = None
        /\ send[w] = None /\ loads[w] = {} /\ room[w] \in Rooms
    BY DEF Init
  <2>2. Len(drafts[room[w]]) = 0
    BY <2>1 DEF Init
  <2>3. ReferencesOf(w)
    <3>1. 0 \in 0 .. Len(drafts[room[w]])
      BY <2>2
    <3> QED BY <2>1, <3>1 DEF ReferencesOf, Known, Number, TextAt
  <2>4. QueueOf(w)
    <3>1. Len(queue[w]) = 0
      BY <2>1
    <3> QED BY <3>1 DEF QueueOf
  <2> QED BY <2>1, <2>3, <2>4 DEF WindowOf, LoadsOf, SaveOf, SendOf
<1> QED BY <1>2, <1>3 DEF PageInv

LEMMA PageAlways == Spec => []PageInv
BY PageInitially, PageInductive, PTL DEF Spec

-----------------------------------------------------------------------------
(* Theorems.                                                               *)

\* Every variable keeps its type.
THEOREM PageTypeCorrect == Spec => []TypeOK
<1>1. PageInv => TypeOK
  BY DEF PageInv
<1> QED BY <1>1, PageAlways, PTL

\* What a window takes for the stored draft is what the server had under the
\* window's revision (collaboration-room.tsx, the draft references).
THEOREM WindowsKnowTheirDraft == Spec => []ReferencesMatch
<1>1. PageInv => ReferencesMatch
  BY DEF PageInv, WindowOf, ReferencesOf, Known, ReferencesMatch
<1> QED BY <1>1, PageAlways, PTL

\* A save replaces only the draft its window had seen (saveDraft).
THEOREM SavesSpareUnseenDrafts == Spec => UnseenDraftKept
<1>1. ASSUME PageInv, [Next]_vars, NEW w \in Windows,
             save[w] # None, save[w].at = "sent", save[w].own,
             drafts' # drafts, save[w]' # save[w]
      PROVE  Draft(Head(queue[w]).room) = save[w].seen
  <2>1. StoreDraft(w)
    <3>1. ASSUME NEW v \in Windows, Step(v), v # w PROVE save[w]' = save[w]
      BY <1>1, <3>1, OthersStay
    <3>2. ASSUME Step(w), ~StoreDraft(w) PROVE drafts' = drafts \/ save[w]' = save[w]
      BY <3>2 DEF Step, serverVars, Type, AutoSave, StartSave, LoseSave, SkipSave,
           FinishSave, RefuseSave, SendMessage, StoreMessage, ClearDraft, FailSend,
           FinishSend, SelectRoom, ReadRoom, ShowRoom, FailLoad, ReportRead
    <3>3. ASSUME NEW x \in reads, UpdateRead(x) PROVE drafts' = drafts
      BY <3>3 DEF UpdateRead
    <3> QED BY <1>1, <3>1, <3>2, <3>3 DEF Next, vars
  <2>2. TypeOK /\ queue[w] # <<>>
    BY <1>1 DEF PageInv, WindowOf, SaveOf
  <2>3. PICK r \in Rooms : r = Head(queue[w]).room
    BY <2>2, HeadOfQueue DEF Entry
  <2>4. Expected(r, save[w].expected)
    BY <1>1, <2>1, <2>3 DEF StoreDraft
  <2>5. Known(r, save[w].expected, save[w].seen)
    BY <1>1, <2>3 DEF PageInv, WindowOf, SaveOf
  <2>6. Draft(r) = TextAt(r, Number(r))
    BY <2>2, DraftIsText
  <2> QED BY <2>3, <2>4, <2>5, <2>6 DEF Expected, Known
<1>2. PageInv /\ [Next]_vars =>
        [\A w \in Windows :
           /\ save[w] # None /\ save[w].at = "sent" /\ save[w].own
           /\ drafts' # drafts /\ save[w]' # save[w]
           => Draft(Head(queue[w]).room) = save[w].seen]_vars
  BY <1>1
<1> QED BY <1>2, PageAlways, PTL DEF Spec, UnseenDraftKept

\* The server clears the very text a message was made from (clearDraftAfterSend).
THEOREM ClearsOnlySentDrafts == Spec => OnlySentDraftsAreCleared
<1>1. ASSUME PageInv, [Next]_vars, NEW w \in Windows,
             At(w, "stored"), send[w].own, send[w]' # send[w], drafts' # drafts
      PROVE  Draft(send[w].room) = send[w].text
  <2>1. ClearDraft(w)
    <3>1. ASSUME NEW v \in Windows, Step(v), v # w PROVE send[w]' = send[w]
      BY <1>1, <3>1, OthersStay
    <3>2. ASSUME Step(w), ~ClearDraft(w) PROVE drafts' = drafts \/ send[w]' = send[w]
      BY <3>2 DEF Step, serverVars, Type, AutoSave, StartSave, LoseSave, SkipSave,
           FinishSave, RefuseSave, SendMessage, StoreMessage, StoreDraft, FailSend,
           FinishSend, SelectRoom, ReadRoom, ShowRoom, FailLoad, ReportRead
    <3>3. ASSUME NEW x \in reads, UpdateRead(x) PROVE drafts' = drafts
      BY <3>3 DEF UpdateRead
    <3> QED BY <1>1, <3>1, <3>2, <3>3 DEF Next, vars
  <2>2. TypeOK /\ send[w] \in Send /\ send[w] # None /\ send[w].at = "stored"
    BY <1>1 DEF PageInv, TypeOK, At
  <2>3. PICK r \in Rooms : r = send[w].room
    BY <2>2 DEF Send
  <2>4. MadeFrom(r, send[w].revision)
    BY <1>1, <2>1, <2>3 DEF ClearDraft
  <2>5. Known(r, send[w].revision, send[w].text)
    BY <1>1, <2>2, <2>3 DEF PageInv, WindowOf, SendOf
  <2>6. Draft(r) = TextAt(r, Number(r))
    BY <2>2, DraftIsText
  <2> QED BY <2>3, <2>4, <2>5, <2>6 DEF MadeFrom, Known
<1>2. PageInv /\ [Next]_vars =>
        [\A w \in Windows :
           At(w, "stored") /\ send[w].own /\ send[w]' # send[w] /\ drafts' # drafts
             => Draft(send[w].room) = send[w].text]_vars
  BY <1>1
<1> QED BY <1>2, PageAlways, PTL DEF Spec, OnlySentDraftsAreCleared

\* The read cursor never moves back (updateRead).
THEOREM CursorsAdvance == Spec => CursorAdvances
<1>1. ASSUME PageInv, [Next]_vars, NEW r \in Rooms PROVE cursor[r]' >= cursor[r]
  <2>1. TypeOK /\ cursor[r] \in Nat
    BY <1>1 DEF PageInv, TypeOK
  <2>2. ASSUME NEW x \in reads, UpdateRead(x) PROVE cursor[r]' >= cursor[r]
    <3>1. x.room \in Rooms /\ x.position \in Nat
      BY <2>1 DEF TypeOK, Read
    <3> QED BY <2>1, <2>2, <3>1 DEF UpdateRead, Advances, TypeOK
  <2>3. ASSUME NEW w \in Windows, Step(w) PROVE cursor' = cursor
    BY <2>3 DEF Step, serverVars, Type, AutoSave, StartSave, LoseSave, SkipSave,
         FinishSave, RefuseSave, SendMessage, StoreDraft, StoreMessage, ClearDraft,
         FailSend, FinishSend, SelectRoom, ReadRoom, ShowRoom, FailLoad, ReportRead
  <2> QED BY <1>1, <2>1, <2>2, <2>3 DEF Next, vars
<1>2. PageInv /\ [Next]_vars => [\A r \in Rooms : cursor[r]' >= cursor[r]]_vars
  BY <1>1
<1> QED BY <1>2, PageAlways, PTL DEF Spec, CursorAdvances
=============================================================================
