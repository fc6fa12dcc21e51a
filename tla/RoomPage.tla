------------------------------ MODULE RoomPage ------------------------------
(***************************************************************************)
(* The windows one person has open, and what the server keeps of that      *)
(* person in each room: a draft with revisions and a read cursor.  A       *)
(* window saves its draft a while after the last keystroke, one save after *)
(* another; sending a message first saves the draft, then posts the        *)
(* message, and the server clears the draft it was made from.  Requests    *)
(* and answers may be lost, windows switch rooms while others are under    *)
(* way, and rooms share the window's draft references.                     *)
(***************************************************************************)
EXTENDS Integers, Sequences, FiniteSets

CONSTANTS
  Rooms, Windows, Texts,
  MaxRevision,   \* bound: draft revisions of a room
  MaxTyped,      \* bound: changes of the text in all windows
  MaxSends,      \* bound: messages sent
  MaxSelects,    \* bound: selections of a room
  MaxQueue,      \* bound: saves that wait in a window
  None           \* no request

ASSUME RoomPageAssumption ==
  /\ MaxRevision \in Nat /\ MaxTyped \in Nat /\ MaxSends \in Nat
  /\ MaxSelects \in Nat /\ MaxQueue \in Nat
  /\ "" \notin Texts

VARIABLES
  drafts,        \* the texts each room's draft has had; its revision is their number
  messages,      \* number of messages of each room
  cursor,        \* last_read_message_id, as a position in the room
  room,          \* draftRoomIdRef: the room a window shows
  text,          \* the text in the window
  revision,      \* draftRevisionRef
  saved,         \* persistedDraftRef
  queue,         \* draftSaveQueueRef: saves not yet settled, oldest first
  save,          \* the request of the oldest one
  send,          \* the message being sent
  loads,         \* rooms being loaded after a selection
  veiled,        \* roomTransitioning: the composer is not shown
  reads,         \* read positions on their way to the server
  mixed,         \* windows whose references may be of another room
  typed, sends, selects

serverVars == <<drafts, messages, cursor>>
draftVars == <<room, text, revision, saved>>
vars == <<drafts, messages, cursor, room, text, revision, saved, queue, save,
          send, loads, veiled, reads, mixed, typed, sends, selects>>

-----------------------------------------------------------------------------

Text == Texts \cup {""}
Number(r) == Len(drafts[r])
Draft(r) == IF drafts[r] = <<>> THEN "" ELSE drafts[r][Number(r)]

Entry == [room : Rooms, text : Text, for : {"draft", "message"}]
Save == [at : {"sent", "stored"}, expected : Nat, revision : Nat,
         seen : Text, own : BOOLEAN]
          \cup [at : {"refused"}]
Send == [at : {"save", "post", "stored", "cleared"}, room : Rooms,
         text : Texts, revision : Nat, own : BOOLEAN, draft : Text,
         answer : Nat]

ASSUME NoneAssumption == None \notin Send

Load == [room : Rooms, at : {"sent"}]
          \cup [room : Rooms, at : {"read"}, revision : Nat, text : Text]
Read == [room : Rooms, position : Nat]

Init ==
  /\ drafts = [r \in Rooms |-> <<>>]
  /\ messages = [r \in Rooms |-> 0]
  /\ cursor = [r \in Rooms |-> 0]
  /\ room \in [Windows -> Rooms]
  /\ text = [w \in Windows |-> ""]
  /\ revision = [w \in Windows |-> 0]
  /\ saved = [w \in Windows |-> ""]
  /\ queue = [w \in Windows |-> <<>>]
  /\ save = [w \in Windows |-> None]
  /\ send = [w \in Windows |-> None]
  /\ loads = [w \in Windows |-> {}]
  /\ veiled = [w \in Windows |-> FALSE]
  /\ reads = {} /\ mixed = {}
  /\ typed = 0 /\ sends = 0 /\ selects = 0

-----------------------------------------------------------------------------
(* Drafts.                                                                 *)

Type(w, t) ==
  /\ ~veiled[w] /\ t # text[w] /\ typed < MaxTyped
  /\ text' = [text EXCEPT ![w] = t]
  /\ typed' = typed + 1
  /\ UNCHANGED <<serverVars, room, revision, saved, queue, save, send, loads,
                 veiled, reads, mixed, sends, selects>>

Enqueue(w, r, t, for) ==
  queue' = [queue EXCEPT ![w] = Append(@, [room |-> r, text |-> t, for |-> for])]

\* The timer, which a message being sent keeps from starting.
AutoSave(w) ==
  /\ text[w] # saved[w] /\ send[w] = None /\ Len(queue[w]) < MaxQueue
  /\ \A i \in DOMAIN queue[w] : queue[w][i].text # text[w]
  /\ Enqueue(w, room[w], text[w], "draft")
  /\ UNCHANGED <<serverVars, draftVars, save, send, loads, veiled, reads,
                 mixed, typed, sends, selects>>

Turn(w) == queue[w] # <<>> /\ save[w] = None

NothingToSave(w) ==
  room[w] # Head(queue[w]).room \/ saved[w] = Head(queue[w]).text

\* seen and own are for the properties: what the window took for the stored
\* draft, and whether its references were those of the room.
StartSave(w) ==
  /\ Turn(w) /\ ~NothingToSave(w)
  /\ save' = [save EXCEPT ![w] =
       [at |-> "sent", expected |-> revision[w], revision |-> 0,
        seen |-> saved[w], own |-> w \notin mixed]]
  /\ UNCHANGED <<serverVars, draftVars, queue, send, loads, veiled, reads,
                 mixed, typed, sends, selects>>

\* Mutant: saveDraft without its test of the expected revision.
AlwaysExpected(r, n) == TRUE

Expected(r, n) == Number(r) = n

\* saveDraft at the server: the same save again, a new revision, or a refusal.
StoreDraft(w) ==
  /\ save[w] # None /\ save[w].at = "sent"
  /\ LET r == Head(queue[w]).room
         t == Head(queue[w]).text
         n == save[w].expected
     IN \/ /\ Number(r) = n + 1 /\ Draft(r) = t
           /\ save' = [save EXCEPT ![w].at = "stored", ![w].revision = n + 1]
           /\ UNCHANGED drafts
        \/ /\ ~(Number(r) = n + 1 /\ Draft(r) = t)
           /\ Expected(r, n) /\ Number(r) < MaxRevision
           /\ drafts' = [drafts EXCEPT ![r] = Append(@, t)]
           /\ save' = [save EXCEPT ![w].at = "stored",
                                   ![w].revision = Number(r) + 1]
        \/ /\ ~(Number(r) = n + 1 /\ Draft(r) = t)
           /\ ~Expected(r, n)
           /\ save' = [save EXCEPT ![w] = [at |-> "refused"]]
           /\ UNCHANGED drafts
  /\ UNCHANGED <<messages, cursor, draftVars, queue, send, loads, veiled,
                 reads, mixed, typed, sends, selects>>

\* The request or its answer is lost.
LoseSave(w) ==
  /\ save[w] # None /\ save[w].at # "refused"
  /\ save' = [save EXCEPT ![w] = [at |-> "refused"]]
  /\ UNCHANGED <<serverVars, draftVars, queue, send, loads, veiled, reads,
                 mixed, typed, sends, selects>>

\* What sendMessage does when its save has settled; own: the revision is that
\* of the room the message is for.
Continue(w, n, own) ==
  send' = IF Head(queue[w]).for = "message"
            THEN [send EXCEPT ![w].at = "post", ![w].revision = n,
                              ![w].own = own]
            ELSE send
Abandon(w) ==
  send' = IF Head(queue[w]).for = "message"
            THEN [send EXCEPT ![w] = None] ELSE send
Settle(w) ==
  /\ queue' = [queue EXCEPT ![w] = Tail(@)]
  /\ save' = [save EXCEPT ![w] = None]

SkipSave(w) ==
  /\ Turn(w) /\ NothingToSave(w)
  /\ Continue(w, revision[w], room[w] = Head(queue[w]).room /\ w \notin mixed)
  /\ Settle(w)
  /\ UNCHANGED <<serverVars, draftVars, loads, veiled, reads, mixed, typed,
                 sends, selects>>

\* Mutant: the answer counts for whatever room is shown.
CountsAlways(w) == TRUE

\* The answer counts for the references only while its room is shown.
Counts(w) == room[w] = Head(queue[w]).room

FinishSave(w) ==
  /\ save[w] # None /\ save[w].at = "stored"
  /\ Continue(w, save[w].revision, TRUE)
  /\ Settle(w)
  /\ IF Counts(w)
       THEN /\ revision' = [revision EXCEPT ![w] = save[w].revision]
            /\ saved' = [saved EXCEPT ![w] = Head(queue[w]).text]
       ELSE UNCHANGED <<revision, saved>>
  /\ UNCHANGED <<serverVars, room, text, loads, veiled, reads, mixed, typed,
                 sends, selects>>

RefuseSave(w) ==
  /\ save[w] # None /\ save[w].at = "refused"
  /\ Abandon(w)
  /\ Settle(w)
  /\ UNCHANGED <<serverVars, draftVars, loads, veiled, reads, mixed, typed,
                 sends, selects>>

-----------------------------------------------------------------------------
(* Sending a message.                                                      *)

SendMessage(w) ==
  /\ ~veiled[w] /\ text[w] # "" /\ send[w] = None
  /\ sends < MaxSends /\ sends' = sends + 1
  /\ send' = [send EXCEPT ![w] =
       [at |-> "save", room |-> room[w], text |-> text[w], revision |-> 0,
        own |-> TRUE, draft |-> "", answer |-> 0]]
  /\ Enqueue(w, room[w], text[w], "message")
  /\ UNCHANGED <<serverVars, draftVars, save, loads, veiled, reads, mixed,
                 typed, selects>>

At(w, place) == send[w] # None /\ send[w].at = place

\* createMessage at the server.
StoreMessage(w) ==
  /\ At(w, "post")
  /\ messages' = [messages EXCEPT ![send[w].room] = @ + 1]
  /\ send' = [send EXCEPT ![w].at = "stored"]
  /\ UNCHANGED <<drafts, cursor, draftVars, queue, save, loads, veiled, reads,
                 mixed, typed, sends, selects>>

\* Mutant: the draft is cleared whatever its revision.
AnyDraft(r, n) == Draft(r) # ""

MadeFrom(r, n) == Number(r) = n /\ Draft(r) # ""

\* clearDraftAfterSend at the server, a transaction of its own.
ClearDraft(w) ==
  /\ At(w, "stored")
  /\ LET r == send[w].room
         clear == MadeFrom(r, send[w].revision)
     IN /\ clear => Number(r) < MaxRevision
        /\ drafts' = IF clear THEN [drafts EXCEPT ![r] = Append(@, "")]
                     ELSE drafts
        /\ send' = [send EXCEPT ![w].at = "cleared",
                      ![w].answer = IF clear THEN Number(r) + 1 ELSE Number(r),
                      ![w].draft = IF clear THEN "" ELSE Draft(r)]
  /\ UNCHANGED <<messages, cursor, draftVars, queue, save, loads, veiled,
                 reads, mixed, typed, sends, selects>>

\* The request fails, or its answer is lost: the text stays in the window.
FailSend(w) ==
  /\ send[w] # None /\ send[w].at # "save"
  /\ send' = [send EXCEPT ![w] = None]
  /\ UNCHANGED <<serverVars, draftVars, queue, save, loads, veiled, reads,
                 mixed, typed, sends, selects>>

\* The answer, whichever room the window shows by now.
FinishSend(w) ==
  /\ At(w, "cleared")
  /\ revision' = [revision EXCEPT ![w] = send[w].answer]
  /\ saved' = [saved EXCEPT ![w] = send[w].draft]
  /\ text' = [text EXCEPT ![w] = ""]
  /\ send' = [send EXCEPT ![w] = None]
  /\ mixed' = IF room[w] # send[w].room THEN mixed \cup {w} ELSE mixed
  /\ UNCHANGED <<serverVars, room, queue, save, loads, veiled, reads, typed,
                 sends, selects>>

-----------------------------------------------------------------------------
(* Selecting a room.                                                       *)

SelectRoom(w, r) ==
  /\ r # room[w] /\ selects < MaxSelects
  /\ selects' = selects + 1
  /\ loads' = [loads EXCEPT ![w] = @ \cup {[room |-> r, at |-> "sent"]}]
  /\ veiled' = [veiled EXCEPT ![w] = TRUE]
  /\ UNCHANGED <<serverVars, draftVars, queue, save, send, reads, mixed,
                 typed, sends>>

ReadRoom(w, l) ==
  /\ l.at = "sent"
  /\ loads' = [loads EXCEPT ![w] = (@ \ {l}) \cup
       {[room |-> l.room, at |-> "read", revision |-> Number(l.room),
         text |-> Draft(l.room)]}]
  /\ UNCHANGED <<serverVars, draftVars, queue, save, send, veiled, reads,
                 mixed, typed, sends, selects>>

ShowRoom(w, l) ==
  /\ l.at = "read"
  /\ room' = [room EXCEPT ![w] = l.room]
  /\ revision' = [revision EXCEPT ![w] = l.revision]
  /\ saved' = [saved EXCEPT ![w] = l.text]
  /\ text' = [text EXCEPT ![w] = l.text]
  /\ loads' = [loads EXCEPT ![w] = @ \ {l}]
  /\ veiled' = [veiled EXCEPT ![w] = FALSE]
  /\ mixed' = mixed \ {w}
  /\ UNCHANGED <<serverVars, queue, save, send, reads, typed, sends, selects>>

FailLoad(w, l) ==
  /\ loads' = [loads EXCEPT ![w] = @ \ {l}]
  /\ veiled' = [veiled EXCEPT ![w] = FALSE]
  /\ UNCHANGED <<serverVars, draftVars, queue, save, send, reads, mixed,
                 typed, sends, selects>>

-----------------------------------------------------------------------------
(* The read cursor.                                                        *)

ReportRead(w) ==
  /\ messages[room[w]] > cursor[room[w]]
  /\ reads' = reads \cup {[room |-> room[w], position |-> messages[room[w]]]}
  /\ reads' # reads
  /\ UNCHANGED <<serverVars, draftVars, queue, save, send, loads, veiled,
                 mixed, typed, sends, selects>>

\* Mutant: the cursor follows the last report to arrive.
AnyPosition(q) == TRUE

Advances(q) == q.position >= cursor[q.room]

UpdateRead(q) ==
  /\ cursor' = [cursor EXCEPT ![q.room] = IF Advances(q) THEN q.position ELSE @]
  /\ reads' = reads \ {q}
  /\ UNCHANGED <<drafts, messages, draftVars, queue, save, send, loads, veiled,
                 mixed, typed, sends, selects>>

-----------------------------------------------------------------------------

Step(w) ==
  \/ \E t \in Text : Type(w, t)
  \/ AutoSave(w) \/ StartSave(w) \/ StoreDraft(w) \/ LoseSave(w)
  \/ SkipSave(w) \/ FinishSave(w) \/ RefuseSave(w)
  \/ SendMessage(w) \/ StoreMessage(w) \/ ClearDraft(w) \/ FailSend(w)
  \/ FinishSend(w)
  \/ \E r \in Rooms : SelectRoom(w, r)
  \/ \E l \in loads[w] : ReadRoom(w, l) \/ ShowRoom(w, l) \/ FailLoad(w, l)
  \/ ReportRead(w)

Next == (\E w \in Windows : Step(w)) \/ (\E q \in reads : UpdateRead(q))

Spec == Init /\ [][Next]_vars

-----------------------------------------------------------------------------
(* Properties.                                                             *)

\* Every variable has its type.
TypeOK ==
  /\ drafts \in [Rooms -> Seq(Text)]
  /\ messages \in [Rooms -> Nat] /\ cursor \in [Rooms -> Nat]
  /\ room \in [Windows -> Rooms] /\ text \in [Windows -> Text]
  /\ revision \in [Windows -> Nat] /\ saved \in [Windows -> Text]
  /\ queue \in [Windows -> Seq(Entry)]
  /\ save \in [Windows -> Save \cup {None}]
  /\ send \in [Windows -> Send \cup {None}]
  /\ loads \in [Windows -> SUBSET Load] /\ veiled \in [Windows -> BOOLEAN]
  /\ reads \subseteq Read /\ mixed \subseteq Windows
  /\ typed \in Nat /\ sends \in Nat /\ selects \in Nat

TextAt(r, n) == IF n = 0 THEN "" ELSE drafts[r][n]

\* What a window takes for the stored draft is what the server had under the
\* window's revision, so that a save replaces no draft its window has not seen.
\* The exception is a window in which a message was sent from one room and
\* another room shown before the answer.
ReferencesMatch ==
  \A w \in Windows \ mixed :
    /\ revision[w] \in 0 .. Number(room[w])
    /\ saved[w] = TextAt(room[w], revision[w])

\* A save replaces the draft its window had seen when it sent the save, never
\* one that another window has saved in the meantime, however late it arrives.
UnseenDraftKept ==
  [][\A w \in Windows :
       /\ save[w] # None /\ save[w].at = "sent" /\ save[w].own
       /\ drafts' # drafts /\ save[w]' # save[w]
       => Draft(Head(queue[w]).room) = save[w].seen]_vars

\* The server clears the very text a message was made from, and no other: not
\* what another window has saved since, nor what is saved while the message is
\* on its way.  The exception is a message whose window showed another room
\* before its draft was saved: it names a revision of that other room.
OnlySentDraftsAreCleared ==
  [][\A w \in Windows :
       At(w, "stored") /\ send[w].own /\ send[w]' # send[w] /\ drafts' # drafts
         => Draft(send[w].room) = send[w].text]_vars

\* The position up to which a person has read never moves back, in whatever
\* order the reports of several windows arrive.
CursorAdvances == [][\A r \in Rooms : cursor[r]' >= cursor[r]]_vars

\* What a person has typed after pressing send is still in the window when the
\* message has been sent.
NewerTextKept ==
  [][\A w \in Windows :
       At(w, "cleared") /\ send[w]' = None /\ text[w]' # text[w]
         => text[w] = send[w].text]_vars
=============================================================================
