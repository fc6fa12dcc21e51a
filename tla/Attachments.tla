---------------------------- MODULE Attachments -----------------------------
(***************************************************************************)
(* Attachments: a row in the database and a blob on disk for each upload,  *)
(* written one after the other; the composer that uploads a person's       *)
(* files, the Agents that upload what a run produces, the messages that    *)
(* carry both, the grants under which the Agent of a run reads them, and   *)
(* the clean-up of uploads that were never finished.                       *)
(*                                                                         *)
(* A key stands for an idempotency key and so for one object key of the    *)
(* blob store; the rows a key gets one after the other (clean-up may       *)
(* delete one) are told apart by a number.  The server may stop anywhere.  *)
(***************************************************************************)
EXTENDS Integers, FiniteSets

CONSTANTS
  Person,        \* the one person who uses the composer
  Runs,
  AgentOf,       \* target_agent_principal_id of each run
  Items,         \* entries of the composer's queue
  Keys,
  Source,        \* who begins the uploads of a key: the person or a run
  Files,         \* contents the server accepts
  Refused,       \* contents whose media type is blocked or mismatched
  TooBig,        \* contents beyond maxFileBytes
  Puts,          \* requests that carry a file
  Messages,
  MaxRows,       \* bound: rows of a key
  MaxTroubles,   \* bound: stops of the server, broken connections, expiries,
                 \* clean-ups, departures and archivings, together
  None

Contents == Files \cup Refused \cup TooBig
Agents == {AgentOf[r] : r \in Runs}

ASSUME AttachmentsAssumption ==
  /\ Source \in [Keys -> Runs \cup {Person}] /\ Person \notin Runs
  /\ Files \cap Refused = {} /\ Contents \cap TooBig = TooBig
  /\ None \notin Contents \cup Messages \cup Keys
  /\ MaxRows \in Nat /\ MaxTroubles \in Nat

VARIABLES
  row,           \* attachments
  rows,          \* how many rows a key has had
  blob,          \* the file under each object key
  link,          \* message_attachments
  grant,         \* attachment_access_grants, by run and key
  message,       \* room_messages: who sent it and whether it stands
  run,           \* room_runs: status and trigger
  member,        \* Agents that are active members of the room
  archived,      \* the room's status
  put,           \* completeUpload, under way
  sweep,         \* cleanupExpired, under way
  item,          \* the composer's queue
  raced,         \* keys with two requests at work at a time
  troubles

roomVars == <<message, run, member, archived>>
vars == <<row, rows, blob, link, grant, message, run, member, archived, put,
          sweep, item, raced, troubles>>

-----------------------------------------------------------------------------

Row == [number : Nat, status : {"pending", "ready", "failed"},
        sum : Contents \cup {None}, expired : BOOLEAN]
Put == [at : {"writing", "written", "failing", "deleted"}, key : Keys,
        number : Nat, file : Contents]
Item == [state : {"uploading", "sent", "ready", "failed"}, key : Keys,
         file : Contents]
Doomed == [key : Keys, number : Nat]
Active == {"queued", "running"}
MessageRow == [sender : Agents \cup {Person}, stands : BOOLEAN]
RunRow == [status : Active \cup {"ended"}, trigger : Messages]

ASSUME NoneAssumption == None \notin Row \cup MessageRow \cup RunRow

Owner(k) == IF Source[k] = Person THEN Person ELSE AgentOf[Source[k]]
Linked(k) == \E m \in Messages : <<m, k>> \in link
Carries(m) == {k \in Keys : <<m, k>> \in link}
IsActive(r) == run[r] # None /\ run[r].status \in Active
Busy(k) == {p \in Puts : put[p] # None /\ put[p].key = k}

Trouble == troubles < MaxTroubles /\ troubles' = troubles + 1

Init ==
  /\ row = [k \in Keys |-> None]
  /\ rows = [k \in Keys |-> 0]
  /\ blob = [k \in Keys |-> None]
  /\ link = {} /\ grant = {}
  /\ message = [m \in Messages |-> None]
  /\ run = [r \in Runs |-> None]
  /\ member = Agents /\ archived = FALSE
  /\ put = [p \in Puts |-> None]
  /\ sweep = None
  /\ item = [i \in Items |-> None]
  /\ raced = {} /\ troubles = 0

-----------------------------------------------------------------------------
(* Beginning an upload.                                                    *)

\* createPending: the row of the key, or a new one.
CreatePending(k) ==
  IF row[k] # None
    THEN UNCHANGED <<row, rows>>
    ELSE /\ rows[k] < MaxRows
         /\ rows' = [rows EXCEPT ![k] = @ + 1]
         /\ row' = [row EXCEPT ![k] =
              [number |-> rows[k] + 1, status |-> "pending", sum |-> None,
               expired |-> FALSE]]

\* getAgentOutputScope.
MayProduce(r) ==
  IsActive(r) /\ ~archived /\ AgentOf[r] \in member

BeginOutput(k) ==
  /\ Source[k] \in Runs /\ MayProduce(Source[k])
  /\ CreatePending(k)
  /\ UNCHANGED <<blob, link, grant, roomVars, put, sweep, item, raced,
                 troubles>>

-----------------------------------------------------------------------------
(* completeUpload.                                                         *)

\* Mutant: an upload is taken whatever the status of its row.
AcceptsAny(k) == row[k] # None

Accepts(k) == row[k] # None /\ row[k].status = "pending"

StartPut(p, k, f) ==
  /\ put[p] = None /\ Accepts(k)
  /\ put' = [put EXCEPT ![p] =
       [at |-> "writing", key |-> k, number |-> row[k].number, file |-> f]]
  /\ raced' = IF Busy(k) # {} \/ (sweep # None /\ \E d \in sweep.left : d.key = k)
                THEN raced \cup {k} ELSE raced
  /\ UNCHANGED <<row, rows, blob, link, grant, roomVars, sweep, troubles>>

\* A producing Agent sends the file, and may send it again.
PutOutput(p, k, f) ==
  /\ Source[k] \in Runs
  /\ StartPut(p, k, f)
  /\ UNCHANGED item

Advance(p, place) == put' = [put EXCEPT ![p].at = place]

\* LocalBlobStore.write: a temporary file, linked to its place when it is whole.
Write(p) ==
  /\ put[p] # None /\ put[p].at = "writing"
  /\ LET k == put[p].key
     IN \/ /\ put[p].file \notin TooBig /\ blob[k] = None
           /\ blob' = [blob EXCEPT ![k] = put[p].file]
           /\ Advance(p, "written")
        \/ \* too big, already there, or the connection breaks
           /\ Advance(p, "failing")
           /\ UNCHANGED blob
  /\ UNCHANGED <<row, rows, link, grant, roomVars, sweep, item, raced,
                 troubles>>

\* The composer hears of a ready upload, unless it has given it up.
Answer(k, state) ==
  item' = [i \in Items |->
             IF item[i] # None /\ item[i].state = "sent" /\ item[i].key = k
               THEN [item[i] EXCEPT !.state = state] ELSE item[i]]

\* What markReady asks of its locked row, after the media type was accepted.
Completes(p) ==
  LET k == put[p].key
  IN /\ put[p].file \in Files
     /\ row[k] # None /\ row[k].number = put[p].number
     /\ row[k].status = "pending" \/ row[k].sum = put[p].file

MarkReady(p) ==
  /\ put[p] # None /\ put[p].at = "written"
  /\ LET k == put[p].key
     IN \/ /\ Completes(p)
           /\ row' = [row EXCEPT ![k].status = "ready", ![k].sum = put[p].file]
           /\ put' = [put EXCEPT ![p] = None]
           /\ Answer(k, "ready")
        \/ /\ ~Completes(p)
           /\ Advance(p, "failing")
           /\ UNCHANGED <<row, item>>
  /\ UNCHANGED <<rows, blob, link, grant, roomVars, sweep, raced, troubles>>

\* The catch block: the blob goes, whoever wrote it, and then the row fails.
DeleteBlob(p) ==
  /\ put[p] # None /\ put[p].at = "failing"
  /\ blob' = [blob EXCEPT ![put[p].key] = None]
  /\ Advance(p, "deleted")
  /\ UNCHANGED <<row, rows, link, grant, roomVars, sweep, item, raced,
                 troubles>>

MarkFailed(p) ==
  /\ put[p] # None /\ put[p].at = "deleted"
  /\ LET k == put[p].key
     IN /\ row' = IF /\ row[k] # None /\ row[k].number = put[p].number
                     /\ row[k].status = "pending"
                    THEN [row EXCEPT ![k].status = "failed",
                                     ![k].expired = FALSE]
                    ELSE row
        /\ Answer(k, "failed")
  /\ put' = [put EXCEPT ![p] = None]
  /\ UNCHANGED <<rows, blob, link, grant, roomVars, sweep, raced, troubles>>

-----------------------------------------------------------------------------
(* The composer.  Every attempt begins under a key of its own.             *)

Attempt(i, k, f) ==
  /\ Source[k] = Person /\ rows[k] = 0
  /\ CreatePending(k)
  /\ item' = [item EXCEPT ![i] = [state |-> "uploading", key |-> k, file |-> f]]
  /\ UNCHANGED <<blob, link, grant, roomVars, put, sweep, raced, troubles>>

SelectFile(i, k, f) == item[i] = None /\ Attempt(i, k, f)
Retry(i, k) ==
  item[i] # None /\ item[i].state = "failed" /\ Attempt(i, k, item[i].file)

SendFile(i, p) ==
  /\ item[i] # None /\ item[i].state = "uploading"
  /\ StartPut(p, item[i].key, item[i].file)
  /\ item' = [item EXCEPT ![i].state = "sent"]

\* The connection breaks: the server goes on with what it has.
GiveUp(i) ==
  /\ Trouble
  /\ item[i] # None /\ item[i].state \in {"uploading", "sent"}
  /\ item' = [item EXCEPT ![i].state = "failed"]
  /\ UNCHANGED <<row, rows, blob, link, grant, roomVars, put, sweep, raced>>

Remove(i) ==
  /\ item[i] # None /\ item[i].state \in {"ready", "failed"}
  /\ item' = [item EXCEPT ![i] = None]
  /\ UNCHANGED <<row, rows, blob, link, grant, roomVars, put, sweep,
                 raced, troubles>>

-----------------------------------------------------------------------------
(* Messages and what they carry.                                           *)

\* Mutant: a row is linked before its upload is complete.
LinkableSoon(k, who) == row[k] # None /\ Owner(k) = who /\ ~Linked(k)

Linkable(k, who) ==
  row[k] # None /\ Owner(k) = who /\ row[k].status = "ready" /\ ~Linked(k)

ReadyKeys == {item[i].key : i \in {j \in Items :
                item[j] # None /\ item[j].state = "ready"}}

Post(m, who, ks) ==
  /\ message[m] = None
  /\ message' = [message EXCEPT ![m] = [sender |-> who, stands |-> TRUE]]
  /\ link' = link \cup ({m} \X ks)

\* createMessage with attachments, in one transaction; the answer, which may
\* be lost, clears the composer.
SendMessage(m) ==
  /\ ~archived /\ ReadyKeys # {}
  /\ \A i \in Items : item[i] # None => item[i].state \in {"ready", "failed"}
  /\ \A k \in ReadyKeys : Linkable(k, Person)
  /\ Post(m, Person, ReadyKeys)
  /\ row' = [k \in Keys |-> IF k \in ReadyKeys
                              THEN [row[k] EXCEPT !.expired = FALSE] ELSE row[k]]
  /\ \/ item' = [i \in Items |-> None]
     \/ UNCHANGED item
  /\ UNCHANGED <<rows, blob, grant, run, member, archived, put, sweep,
                 raced, troubles>>

\* The terminal message of a run, with what the Agent says it has produced.
EndRun(r, m, ks) ==
  /\ run[r] # None /\ run[r].status = "running"
  /\ \A k \in ks : Source[k] = r /\ Linkable(k, AgentOf[r])
  /\ run' = [run EXCEPT ![r].status = "ended"]
  /\ Post(m, AgentOf[r], ks)
  /\ UNCHANGED <<row, rows, blob, grant, member, archived, put, sweep, item,
                 raced, troubles>>

\* retractMessage. Its check that no run answers the message is read beside the
\* creation of a run, which may commit later: here a run never keeps it.
Retract(m) ==
  /\ message[m] # None /\ message[m].sender = Person /\ message[m].stands
  /\ ~archived
  /\ message' = [message EXCEPT ![m].stands = FALSE]
  /\ UNCHANGED <<row, rows, blob, link, grant, run, member, archived, put,
                 sweep, item, raced, troubles>>

-----------------------------------------------------------------------------
(* Runs and their grants.                                                  *)

StartRun(r, m) ==
  /\ run[r] = None /\ AgentOf[r] \in member /\ ~archived
  /\ message[m] # None /\ message[m].stands
  /\ run' = [run EXCEPT ![r] = [status |-> "queued", trigger |-> m]]
  /\ UNCHANGED <<row, rows, blob, link, grant, message, member, archived, put,
                 sweep, item, raced, troubles>>

\* createAccessGrant: the attachment belongs to the message of the run.
Eligible(r, k) ==
  /\ <<run[r].trigger, k>> \in link /\ message[run[r].trigger].stands
  /\ AgentOf[r] \in member /\ ~archived

\* The coordinator grants what the trigger carries before the adapter runs; a
\* refusal ends the run.
Execute(r) ==
  /\ run[r] # None /\ run[r].status = "queued"
  /\ \/ /\ \A k \in Carries(run[r].trigger) : Eligible(r, k)
        /\ grant' = grant \cup ({r} \X Carries(run[r].trigger))
        /\ run' = [run EXCEPT ![r].status = "running"]
     \/ /\ \E k \in Carries(run[r].trigger) : ~Eligible(r, k)
        /\ run' = [run EXCEPT ![r].status = "ended"]
        /\ UNCHANGED grant
  /\ UNCHANGED <<row, rows, blob, link, message, member, archived, put, sweep,
                 item, raced, troubles>>

\* removeMember and setStatus. Each looks for active runs (of that Agent, of the
\* room), but a run created meanwhile is not seen: here no run keeps them either.
Leave(a) ==
  /\ Trouble
  /\ a \in member /\ member' = member \ {a}
  /\ UNCHANGED <<row, rows, blob, link, grant, message, run, archived, put,
                 sweep, item, raced>>

Archive ==
  /\ Trouble
  /\ ~archived /\ archived' = TRUE
  /\ UNCHANGED <<row, rows, blob, link, grant, message, run, member, put,
                 sweep, item, raced>>

\* getForRoomMember and getGrantedAttachmentByScope: what may be opened.
Shows(k) == \E m \in Messages : <<m, k>> \in link /\ message[m].stands
PersonReads(k) == Shows(k) /\ row[k].status = "ready"

\* Mutant: a grant outlives the message.
AgentReadsOn(r, k) == <<r, k>> \in grant /\ AgentOf[r] \in member

AgentReads(r, k) ==
  /\ <<r, k>> \in grant /\ AgentOf[r] \in member
  /\ Shows(k) /\ row[k].status = "ready"

-----------------------------------------------------------------------------
(* Expiry, clean-up and stops of the server.                               *)

Expire(k) ==
  /\ Trouble
  /\ row[k] # None /\ row[k].status # "ready" /\ ~row[k].expired
  /\ row' = [row EXCEPT ![k].expired = TRUE]
  /\ UNCHANGED <<rows, blob, link, grant, roomVars, put, sweep, item,
                 raced>>

Sweepable(k) ==
  row[k] # None /\ row[k].status # "ready" /\ row[k].expired /\ ~Linked(k)

ListExpired ==
  /\ sweep = None /\ \E k \in Keys : Sweepable(k)
  /\ Trouble
  /\ sweep' = [left |-> {[key |-> k, number |-> row[k].number] :
                           k \in {l \in Keys : Sweepable(l)}},
               now |-> None]
  /\ raced' = raced \cup {k \in Keys : Sweepable(k) /\ Busy(k) # {}}
  /\ UNCHANGED <<row, rows, blob, link, grant, roomVars, put, item>>

SweepBlob(d) ==
  /\ sweep # None /\ sweep.now = None /\ d \in sweep.left
  /\ blob' = [blob EXCEPT ![d.key] = None]
  /\ sweep' = [left |-> sweep.left, now |-> d]
  /\ UNCHANGED <<row, rows, link, grant, roomVars, put, item, raced, troubles>>

\* deleteExpiredUnlinked asks again.
SweepRow ==
  /\ sweep # None /\ sweep.now # None
  /\ LET d == sweep.now
     IN /\ row' = IF /\ row[d.key] # None /\ row[d.key].number = d.number
                     /\ Sweepable(d.key)
                    THEN [row EXCEPT ![d.key] = None] ELSE row
        /\ sweep' = IF sweep.left = {d} THEN None
                    ELSE [left |-> sweep.left \ {d}, now |-> None]
  /\ UNCHANGED <<rows, blob, link, grant, roomVars, put, item, raced,
                 troubles>>

\* A restart queues a run that was running again.
Crash ==
  /\ Trouble
  /\ put' = [p \in Puts |-> None] /\ sweep' = None
  /\ run' = [r \in Runs |-> IF run[r] = None \/ run[r].status # "running"
                              THEN run[r]
                              ELSE [run[r] EXCEPT !.status = "queued"]]
  /\ UNCHANGED <<row, rows, blob, link, grant, message, member, archived, item,
                 raced>>

-----------------------------------------------------------------------------

PutStep(p) ==
  \/ \E k \in Keys, f \in Contents : PutOutput(p, k, f)
  \/ Write(p) \/ MarkReady(p) \/ DeleteBlob(p) \/ MarkFailed(p)

ComposerStep(i) ==
  \/ \E k \in Keys, f \in Contents : SelectFile(i, k, f)
  \/ \E k \in Keys : Retry(i, k)
  \/ \E p \in Puts : SendFile(i, p)
  \/ GiveUp(i) \/ Remove(i)

RoomStep ==
  \/ \E m \in Messages : SendMessage(m) \/ Retract(m)
  \/ \E r \in Runs, m \in Messages, ks \in SUBSET Keys : EndRun(r, m, ks)
  \/ \E r \in Runs, m \in Messages : StartRun(r, m)
  \/ \E r \in Runs : Execute(r)
  \/ \E a \in Agents : Leave(a)
  \/ Archive

SweepStep ==
  \/ \E k \in Keys : Expire(k)
  \/ ListExpired \/ SweepRow
  \/ \E k \in Keys, n \in 1 .. MaxRows : SweepBlob([key |-> k, number |-> n])

Next ==
  \/ \E k \in Keys : BeginOutput(k)
  \/ \E p \in Puts : PutStep(p)
  \/ \E i \in Items : ComposerStep(i)
  \/ RoomStep \/ SweepStep \/ Crash

Spec == Init /\ [][Next]_vars

-----------------------------------------------------------------------------
(* Properties.                                                             *)

\* Every variable has its type.
TypeOK ==
  /\ row \in [Keys -> Row \cup {None}]
  /\ rows \in [Keys -> 0 .. MaxRows]
  /\ blob \in [Keys -> Contents \cup {None}]
  /\ link \subseteq Messages \X Keys
  /\ grant \subseteq Runs \X Keys
  /\ message \in [Messages -> MessageRow \cup {None}]
  /\ run \in [Runs -> RunRow \cup {None}]
  /\ member \subseteq Agents /\ archived \in BOOLEAN
  /\ put \in [Puts -> Put \cup {None}]
  /\ sweep \in [left : SUBSET Doomed, now : Doomed \cup {None}] \cup {None}
  /\ item \in [Items -> Item \cup {None}]
  /\ raced \subseteq Keys
  /\ troubles \in 0 .. MaxTroubles

\* What a message carries is complete, its sender's own, carried by no other
\* message, and out of the clean-up's reach, however long its upload had waited.
LinksStand ==
  \A m \in Messages, k \in Keys : <<m, k>> \in link =>
    /\ row[k] # None /\ row[k].status = "ready"
    /\ message[m] # None /\ message[m].sender = Owner(k)
    /\ \A n \in Messages : <<n, k>> \in link => n = m

\* A ready attachment has its bytes on disk, and they are those its checksum
\* was taken of: no stop of the server, failed attempt or clean-up takes them
\* away, as long as the attachment's requests came one after another.
ReadyHasBlob ==
  \A k \in Keys \ raced :
    row[k] # None /\ row[k].status = "ready" => blob[k] = row[k].sum

\* The words of attachment storage: a failure never passes for a success.
ReadyIsSuccess ==
  \A k \in Keys :
    row[k] # None /\ row[k].status = "ready" => blob[k] = row[k].sum

\* A message carries what it carried, with the bytes it had: neither a repeated
\* upload nor a failing one nor the clean-up, begun before the message was sent,
\* replaces or deletes a file that is carried.
CarriedFilesStand ==
  [][\A m \in Messages, k \in Keys : <<m, k>> \in link =>
       /\ <<m, k>> \in link'
       /\ row[k]' # None /\ row[k].sum' = row[k].sum
       /\ k \notin raced' => blob[k]' = blob[k]]_vars

\* An Agent reads what the message that started its run carries, and never
\* what a retraction has taken from everyone else.
ReadersAgree ==
  \A r \in Runs, k \in Keys : AgentReads(r, k) =>
    run[r] # None /\ <<run[r].trigger, k>> \in link /\ PersonReads(k)
=============================================================================
