--------------------------- MODULE RunStreamProofs ----------------------------
(***************************************************************************)
(* Proofs of the safety properties of RunStream, for any number of         *)
(* snapshots, events, breaks, refusals and visits to another room.         *)
(***************************************************************************)
EXTENDS RunStream, SequenceTheorems, TLAPS

USE DEF Terminal, Status, Progress

-----------------------------------------------------------------------------
(* Sequences(from, to) is the interval after one number up to another.     *)

\* The numbers from a to b and those from b to c are the numbers from a to c.
LEMMA SequencesJoin ==
  ASSUME NEW a \in Nat, NEW b \in Nat, NEW c \in Nat, a <= b, b <= c
  PROVE  Sequences(a, b) \o Sequences(b, c) = Sequences(a, c)
<1> DEFINE l == Sequences(a, b)
           r == Sequences(b, c)
<1>1. l \in Seq(Nat) /\ Len(l) = b - a /\ r \in Seq(Nat) /\ Len(r) = c - b
  BY DEF Sequences
<1>2. l \o r \in Seq(Nat) /\ Len(l \o r) = c - a
  BY <1>1
<1>3. \A i \in 1 .. (c - a) : (l \o r)[i] = a + i
  <2> TAKE i \in 1 .. (c - a)
  <2>1. (l \o r)[i] = IF i <= b - a THEN l[i] ELSE r[i - (b - a)]
    BY <1>1
  <2>2. i <= b - a => l[i] = a + i
    BY DEF Sequences
  <2>3. i > b - a => r[i - (b - a)] = a + i
    BY DEF Sequences
  <2> QED BY <2>1, <2>2, <2>3
<1>4. /\ Sequences(a, c) \in Seq(Nat) /\ Len(Sequences(a, c)) = c - a
      /\ \A i \in 1 .. (c - a) : Sequences(a, c)[i] = a + i
  BY DEF Sequences
<1>5. \A i \in 1 .. Len(l \o r) : (l \o r)[i] = Sequences(a, c)[i]
  BY <1>2, <1>3, <1>4
<1> HIDE DEF l, r
<1>6. l \o r = Sequences(a, c)
  BY <1>2, <1>4, <1>5, SeqEqual
<1> QED BY <1>6 DEF l, r

\* An interval that is not empty starts with the next number, and what follows
\* it is an interval.
LEMMA SequencesHead ==
  ASSUME NEW a \in Nat, NEW b \in Nat, a <= b, Sequences(a, b) # <<>>
  PROVE  /\ a < b /\ Head(Sequences(a, b)) = a + 1
         /\ Tail(Sequences(a, b)) = Sequences(a + 1, b)
<1> DEFINE s == Sequences(a, b)
<1>1. s \in Seq(Nat) /\ Len(s) = b - a /\ \A i \in 1 .. (b - a) : s[i] = a + i
  BY DEF Sequences
<1>2. a < b
  BY <1>1
<1>3. Head(s) = a + 1
  BY <1>1, <1>2
<1>4. Tail(s) \in Seq(Nat) /\ Len(Tail(s)) = b - (a + 1)
  BY <1>1, <1>2
<1>5. \A i \in 1 .. (b - (a + 1)) : Tail(s)[i] = (a + 1) + i
  BY <1>1, <1>2
<1>6. /\ Sequences(a + 1, b) \in Seq(Nat) /\ Len(Sequences(a + 1, b)) = b - (a + 1)
      /\ \A i \in 1 .. (b - (a + 1)) : Sequences(a + 1, b)[i] = (a + 1) + i
  BY <1>2 DEF Sequences
<1>7. \A i \in 1 .. Len(Tail(s)) : Tail(s)[i] = Sequences(a + 1, b)[i]
  BY <1>4, <1>5, <1>6
<1>8. Tail(s) = Sequences(a + 1, b)
  BY <1>4, <1>6, <1>7, SeqEqual
<1> QED BY <1>2, <1>3, <1>8

\* The next number continues the interval from the beginning.
LEMMA SequencesAppend ==
  ASSUME NEW n \in Nat
  PROVE  Append(Sequences(0, n), n + 1) = Sequences(0, n + 1)
<1> DEFINE s == Sequences(0, n)
<1>1. s \in Seq(Nat) /\ Len(s) = n /\ \A i \in 1 .. n : s[i] = i
  BY DEF Sequences
<1>2. /\ Append(s, n + 1) \in Seq(Nat) /\ Len(Append(s, n + 1)) = n + 1
      /\ \A i \in 1 .. (n + 1) : Append(s, n + 1)[i] = i
  BY <1>1
<1>3. Append(s, n + 1) = [i \in 1 .. (n + 1) |-> Append(s, n + 1)[i]]
  BY <1>2
<1> QED BY <1>2, <1>3 DEF Sequences

\* From a number to itself there is nothing.
LEMMA SequencesEmpty ==
  ASSUME NEW n \in Nat
  PROVE  Sequences(n, n) = <<>>
BY DEF Sequences

-----------------------------------------------------------------------------
(* The inductive invariant.                                                *)

StreamTypes ==
  /\ log \in Seq(Progress \cup Terminal) /\ status \in Status
  /\ cursor \in 0 .. Len(log) /\ lastEventId \in 0 .. Len(log)
  /\ source \in {"connecting", "open", "closed"}

\* A terminal event is stored in the commit that ends the run.
LogInv == \A i \in 1 .. Len(log) : log[i] \in Terminal => status \in Terminal

\* What is on the wire leads from the last event received to the cursor.
WireInv == source = "open" => lastEventId <= cursor

FinalInv == response = "final" => status \in Terminal

StreamInv ==
  /\ StreamTypes /\ LogInv /\ WireInv /\ FinalInv
  /\ EventsInOrder /\ EndsAfterTerminal

LEMMA StreamInit == Init => StreamInv
BY SequencesEmpty
   DEF Init, StreamInv, StreamTypes, LogInv, WireInv, FinalInv, EventsInOrder,
       EndsAfterTerminal

\* Storing an event: nothing of an ended run changes, and nothing but the log
\* and the status.
LEMMA StoreEventStep == StreamInv /\ StoreEvent => StreamInv'
<1> SUFFICES ASSUME StreamInv, StoreEvent PROVE StreamInv'
  OBVIOUS
<1>1. /\ UNCHANGED <<response, cursor, wire, source, lastEventId, received>>
      /\ status = "running"
  BY DEF StoreEvent, serverVars, sourceVars
<1>2. PICK type \in Progress \cup Terminal :
        /\ log' = Append(log, type)
        /\ status' = IF type \in Terminal THEN type ELSE status
  BY DEF StoreEvent
<1>3. log \in Seq(Progress \cup Terminal) /\ status' \in Status
  BY <1>1, <1>2 DEF StreamInv, StreamTypes
<1>4. /\ log' \in Seq(Progress \cup Terminal) /\ Len(log') = Len(log) + 1
      /\ \A i \in 1 .. Len(log) : log'[i] = log[i]
      /\ log'[Len(log) + 1] = type
  BY <1>2, <1>3
<1>5. StreamTypes'
  BY <1>1, <1>3, <1>4 DEF StreamInv, StreamTypes
<1>6. LogInv'
  BY <1>1, <1>2, <1>3, <1>4 DEF StreamInv, LogInv
<1> QED BY <1>1, <1>5, <1>6
        DEF StreamInv, WireInv, FinalInv, EventsInOrder, EndsAfterTerminal

\* Sending what is new extends the wire up to the end of the log.
LEMMA SendNewStep ==
  ASSUME NEW next, StreamInv, SendNew(next),
         next \in {"get", "ended"}, next = "ended" => status \in Terminal
  PROVE  StreamInv'
<1>1. /\ UNCHANGED <<log, status, source, lastEventId, received>>
      /\ cursor' = Len(log) /\ response' = next
      /\ wire' = wire \o Sequences(cursor, Len(log))
  BY DEF SendNew, runVars, sourceVars
<1>2. /\ Len(log) \in Nat /\ cursor \in Nat /\ cursor <= Len(log)
      /\ lastEventId \in Nat /\ lastEventId <= Len(log)
  BY DEF StreamInv, StreamTypes
<1>3. source = "open" => wire' = Sequences(lastEventId, Len(log))
  BY <1>1, <1>2, SequencesJoin DEF StreamInv, WireInv, EventsInOrder
<1>4. StreamTypes' /\ LogInv'
  BY <1>1, <1>2 DEF StreamInv, StreamTypes, LogInv
<1>5. WireInv' /\ FinalInv' /\ EndsAfterTerminal'
  BY <1>1, <1>2 DEF WireInv, FinalInv, EndsAfterTerminal
<1>6. EventsInOrder'
  BY <1>1, <1>3 DEF StreamInv, EventsInOrder
<1> QED BY <1>4, <1>5, <1>6 DEF StreamInv

\* The server's loop ends only over a log it has sent to its end.
LEMMA RespondStep == StreamInv /\ Respond => StreamInv'
<1> SUFFICES ASSUME StreamInv, Respond PROVE StreamInv'
  OBVIOUS
<1>1. CASE ListEvents
  <2> DEFINE found == \E i \in (cursor + 1) .. Len(log) : log[i] \in Terminal
  <2>1. found => status \in Terminal
    BY DEF StreamInv, StreamTypes, LogInv
  <2>2. CASE found
    BY <1>1, <2>1, <2>2, SendNewStep DEF ListEvents
  <2>3. CASE ~found
    BY <1>1, <2>3, SendNewStep DEF ListEvents
  <2> QED BY <2>2, <2>3
<1>2. CASE ListFinalEvents
  BY <1>2, SendNewStep DEF ListFinalEvents, StreamInv, FinalInv
<1>3. CASE GetRun \/ Pause
  BY <1>3 DEF GetRun, Pause, StreamInv, StreamTypes, LogInv, WireInv, FinalInv,
       EventsInOrder, EndsAfterTerminal, runVars, sourceVars
<1> QED BY <1>1, <1>2, <1>3 DEF Respond

\* A new response starts after the last event received.
LEMMA OpenStep == StreamInv /\ Open => StreamInv'
<1> SUFFICES ASSUME StreamInv, Open PROVE StreamInv'
  OBVIOUS
<1>1. /\ UNCHANGED <<log, status, lastEventId, received>>
      /\ source' = "open" /\ response' = "list" /\ wire' = <<>>
      /\ cursor' = lastEventId
  BY DEF Open, OpenAfter, runVars
<1>2. lastEventId \in Nat /\ lastEventId <= lastEventId
  BY DEF StreamInv, StreamTypes
<1>3. wire' = Sequences(lastEventId', cursor')
  BY <1>1, <1>2, SequencesEmpty
<1> QED BY <1>1, <1>2, <1>3
        DEF StreamInv, StreamTypes, LogInv, WireInv, FinalInv, EventsInOrder,
            EndsAfterTerminal

\* The page receives the next event of the log.
LEMMA ReceiveStep == StreamInv /\ Receive => StreamInv'
<1> SUFFICES ASSUME StreamInv, Receive PROVE StreamInv'
  OBVIOUS
<1> DEFINE next == lastEventId + 1
<1>1. /\ UNCHANGED <<log, status, cursor>>
      /\ source = "open" /\ wire # <<>>
      /\ received' = Append(received, Head(wire)) /\ lastEventId' = Head(wire)
  BY DEF Receive, ReceiveProgress, ReceiveTerminal, runVars
<1>2. \/ UNCHANGED <<source, response>> /\ wire' = Tail(wire)
      \/ source' = "closed" /\ response' = "none" /\ wire' = <<>>
  BY DEF Receive, ReceiveProgress, ReceiveTerminal, Unsubscribe
<1>3. /\ lastEventId \in Nat /\ cursor \in Nat /\ lastEventId <= cursor
      /\ wire = Sequences(lastEventId, cursor) /\ cursor <= Len(log)
      /\ Len(log) \in Nat
  BY <1>1 DEF StreamInv, StreamTypes, WireInv, EventsInOrder
<1>4. /\ lastEventId < cursor /\ lastEventId' = next
      /\ Tail(wire) = Sequences(next, cursor)
  BY <1>1, <1>3, SequencesHead
<1>5. received' = Sequences(0, next)
  BY <1>1, <1>3, <1>4, SequencesAppend DEF StreamInv, EventsInOrder
<1>6. StreamTypes' /\ LogInv' /\ WireInv'
  BY <1>1, <1>2, <1>3, <1>4 DEF StreamInv, StreamTypes, LogInv, WireInv
<1>7. FinalInv' /\ EndsAfterTerminal'
  BY <1>1, <1>2 DEF StreamInv, FinalInv, EndsAfterTerminal
<1>8. EventsInOrder'
  BY <1>1, <1>2, <1>4, <1>5 DEF EventsInOrder
<1> QED BY <1>6, <1>7, <1>8 DEF StreamInv

\* Breaks, refusals, snapshots and visits to another room; a new subscription has
\* received nothing.
LEMMA OtherStep ==
  ASSUME StreamInv,
         \/ Reject \/ Break \/ RefreshForOther \/ Switch
         \/ \E f \in Refreshes :
              ShowSnapshot(f) \/ RefreshFails(f) \/ \E p \in Parts : ReadPart(f, p)
  PROVE  StreamInv'
<1>1. CASE Reject \/ Break
  BY <1>1 DEF Reject, Break, StreamInv, StreamTypes, LogInv, WireInv, FinalInv,
       EventsInOrder, EndsAfterTerminal, runVars, serverVars, pageVars
<1>2. CASE RefreshForOther \/ \E f \in Refreshes :
             RefreshFails(f) \/ \E p \in Parts : ReadPart(f, p)
  BY <1>2 DEF RefreshForOther, RefreshFails, ReadPart, StreamInv, StreamTypes,
       LogInv, WireInv, FinalInv, EventsInOrder, EndsAfterTerminal, runVars,
       serverVars, sourceVars
<1>3. CASE \E f \in Refreshes : ShowSnapshot(f)
  <2>1. UNCHANGED <<log, status, response, cursor, wire>>
    BY <1>3 DEF ShowSnapshot, runVars, serverVars
  <2>2. \/ UNCHANGED <<source, lastEventId, received>>
        \/ source' = "connecting" /\ lastEventId' = 0 /\ received' = <<>>
    BY <1>3 DEF ShowSnapshot, sourceVars
  <2>3. <<>> = Sequences(0, 0)
    BY SequencesEmpty
  <2> QED BY <2>1, <2>2, <2>3 DEF StreamInv, StreamTypes, LogInv, WireInv,
            FinalInv, EventsInOrder, EndsAfterTerminal
<1>4. CASE SelectOther \/ SelectHere
  BY <1>4 DEF SelectOther, SelectHere, Unsubscribe, StreamInv, StreamTypes, LogInv,
       WireInv, FinalInv, EventsInOrder, EndsAfterTerminal, runVars
<1>5. CASE ShowOther \/ LeavingFails
  BY <1>5 DEF ShowOther, LeavingFails, StreamInv, StreamTypes, LogInv, WireInv,
       FinalInv, EventsInOrder, EndsAfterTerminal, runVars, serverVars, sourceVars
<1> QED BY <1>1, <1>2, <1>3, <1>4, <1>5 DEF Switch

-----------------------------------------------------------------------------
(* Theorems.                                                               *)

LEMMA StreamStep == StreamInv /\ [Next]_vars => StreamInv'
<1> SUFFICES ASSUME StreamInv, [Next]_vars PROVE StreamInv'
  OBVIOUS
<1>1. CASE UNCHANGED vars
  BY <1>1 DEF vars, runVars, serverVars, sourceVars, StreamInv, StreamTypes,
       LogInv, WireInv, FinalInv, EventsInOrder, EndsAfterTerminal
<1>2. CASE Next
  BY <1>2, StoreEventStep, RespondStep, OpenStep, ReceiveStep, OtherStep DEF Next
<1> QED BY <1>1, <1>2

LEMMA StreamInvariance == Spec => []StreamInv
BY StreamInit, StreamStep, PTL DEF Spec

\* Over any number of broken connections, a subscription's handler is called
\* with the log's events in order, each once (Last-Event-ID).
THEOREM EventsAreInOrder == Spec => []EventsInOrder
<1>1. StreamInv => EventsInOrder
  BY DEF StreamInv
<1> QED BY <1>1, StreamInvariance, PTL

\* A response ends only when the terminal event has been sent, whatever is
\* committed between the server's two looks at the database.
THEOREM ResponsesEndAfterTerminal == Spec => []EndsAfterTerminal
<1>1. StreamInv => EndsAfterTerminal
  BY DEF StreamInv
<1> QED BY <1>1, StreamInvariance, PTL

-----------------------------------------------------------------------------
(* The types of the remaining variables.                                   *)

\* There is a response, and something on the wire, for an open source only; a
\* page without a subscription has none.
RestTypes ==
  /\ response \in {"none", "list", "get", "final", "pause", "ended"}
  /\ subscribed \in BOOLEAN
  /\ source # "open" => wire = <<>> /\ response = "none"
  /\ ~subscribed => source = "closed"
  /\ view \in [Parts -> Status]
  /\ refresh \in [Refreshes -> [Parts -> Status \cup {"unread", "none"}]]
  /\ here \in BOOLEAN /\ leaving \in BOOLEAN /\ loading \subseteq Refreshes
  /\ breaks \in Nat /\ rejects \in Nat /\ others \in Nat /\ leaves \in Nat

\* A snapshot that has been read completely shows statuses.
LEMMA CompleteTypes ==
  ASSUME NEW f \in Refreshes, RestTypes, Complete(f)
  PROVE  refresh[f] \in [Parts -> Status]
<1>1. refresh[f] \in [Parts -> Status \cup {"unread", "none"}]
  BY DEF RestTypes
<1>2. \A p \in Parts : refresh[f][p] \in Status
  BY DEF Complete
<1> QED BY <1>1, <1>2

LEMMA RestInit == Init => RestTypes
<1> SUFFICES ASSUME Init PROVE RestTypes
  OBVIOUS
<1>1. NoRefresh \in [Parts -> Status \cup {"unread", "none"}]
  BY DEF NoRefresh
<1> QED BY <1>1 DEF Init, RestTypes

\* The run and the server's answer to the source.
LEMMA ServerTypes ==
  ASSUME StreamTypes, RestTypes, StoreEvent \/ Respond \/ Open \/ Reject \/ Break
  PROVE  RestTypes'
<1>1. CASE StoreEvent
  BY <1>1 DEF StoreEvent, RestTypes, serverVars, sourceVars, pageVars, roomVars,
       boundVars
<1>2. CASE Respond
  <2>1. UNCHANGED <<subscribed, source, view, refresh, roomVars, boundVars>>
    BY <1>2 DEF Respond, ListEvents, GetRun, ListFinalEvents, Pause, SendNew,
         sourceVars, pageVars
  <2>2. response' \in {"get", "ended", "final", "pause", "list"}
    BY <1>2 DEF Respond, ListEvents, GetRun, ListFinalEvents, Pause, SendNew
  <2>3. source = "open"
    BY <1>2 DEF Respond, ListEvents, GetRun, ListFinalEvents, Pause, RestTypes
  <2> QED BY <2>1, <2>2, <2>3 DEF RestTypes, roomVars, boundVars
<1>3. CASE Open
  BY <1>3 DEF Open, OpenAfter, RestTypes, pageVars, roomVars, boundVars
<1>4. CASE Reject \/ Break
  BY <1>4 DEF Reject, Break, RestTypes, StreamTypes, serverVars, pageVars, roomVars
<1> QED BY <1>1, <1>2, <1>3, <1>4

\* Asking for a snapshot keeps the types of those under way.
LEMMA AskTypes ==
  ASSUME RestTypes, \/ UNCHANGED refresh
                    \/ \E f \in Refreshes : Ask(f)
  PROVE  refresh' \in [Refreshes -> [Parts -> Status \cup {"unread", "none"}]]
<1>1. Unread \in [Parts -> Status \cup {"unread", "none"}]
  BY DEF Unread
<1> QED BY <1>1 DEF RestTypes, Ask

\* A status that arrives is shown by the run's row.
LEMMA ShowStatusTypes ==
  ASSUME NEW value \in Status, RestTypes, ShowStatus(value)
  PROVE  view' \in [Parts -> Status]
BY DEF ShowStatus, RestTypes

\* What the page receives.
LEMMA ReceiveTypes ==
  ASSUME StreamInv, RestTypes, Receive
  PROVE  RestTypes'
<1>1. CASE ReceiveProgress
  <2>1. view' \in [Parts -> Status]
    BY <1>1, ShowStatusTypes DEF ReceiveProgress, RestTypes
  <2> QED BY <1>1, <2>1 DEF ReceiveProgress, RestTypes, roomVars, boundVars
<1>2. CASE ReceiveTerminal
  <2>1. view' \in [Parts -> Status]
    BY <1>2, ShowStatusTypes DEF ReceiveTerminal
  <2>2. refresh' \in [Refreshes -> [Parts -> Status \cup {"unread", "none"}]]
    BY <1>2, AskTypes DEF ReceiveTerminal
  <2> QED BY <1>2, <2>1, <2>2
          DEF ReceiveTerminal, Unsubscribe, RestTypes, roomVars, boundVars
<1> QED BY <1>1, <1>2 DEF Receive

\* Snapshots.
LEMMA PageTypes ==
  ASSUME StreamTypes, RestTypes,
         \/ RefreshForOther
         \/ \E f \in Refreshes :
              ShowSnapshot(f) \/ RefreshFails(f) \/ \E p \in Parts : ReadPart(f, p)
  PROVE  RestTypes'
<1> DEFINE Reads == [Parts -> Status \cup {"unread", "none"}]
<1>1. NoRefresh \in Reads
  BY DEF NoRefresh
<1>2. \A f \in Refreshes, r \in Reads : [refresh EXCEPT ![f] = r] \in [Refreshes -> Reads]
  BY DEF RestTypes
<1>3. CASE RefreshForOther
  <2>1. refresh' \in [Refreshes -> Reads]
    BY <1>3, AskTypes DEF RefreshForOther
  <2> QED BY <1>3, <2>1 DEF RefreshForOther, RestTypes, serverVars, sourceVars, roomVars
<1>4. ASSUME NEW f \in Refreshes, ShowSnapshot(f) PROVE RestTypes'
  <2>1. view' \in [Parts -> Status]
    BY <1>4, CompleteTypes DEF ShowSnapshot, Show, RestTypes
  <2>2. refresh' \in [Refreshes -> Reads]
    BY <1>1, <1>2, <1>4 DEF ShowSnapshot, Show
  <2>3. \/ UNCHANGED <<subscribed, source>>
        \/ ~subscribed /\ subscribed' = TRUE /\ source' = "connecting"
    BY <1>4 DEF ShowSnapshot, sourceVars
  <2>4. UNCHANGED <<response, wire, leaving, breaks, rejects, others, leaves>>
    BY <1>4 DEF ShowSnapshot, Show, serverVars, boundVars
  <2>5. here' \in BOOLEAN /\ loading' \subseteq Refreshes
    BY <1>4 DEF ShowSnapshot, Show, RestTypes
  <2> QED BY <2>1, <2>2, <2>3, <2>4, <2>5 DEF RestTypes
<1>5. ASSUME NEW f \in Refreshes, RefreshFails(f) PROVE RestTypes'
  <2>1. refresh' \in [Refreshes -> Reads]
    BY <1>1, <1>2, <1>5 DEF RefreshFails
  <2> QED BY <1>5, <2>1 DEF RefreshFails, RestTypes, serverVars, sourceVars
<1>6. ASSUME NEW f \in Refreshes, NEW p \in Parts, ReadPart(f, p) PROVE RestTypes'
  <2>1. refresh[f] \in Reads /\ status \in Status
    BY DEF RestTypes, StreamTypes
  <2>2. [refresh[f] EXCEPT ![p] = status] \in Reads
    BY <2>1
  <2>3. refresh' = [refresh EXCEPT ![f] = [refresh[f] EXCEPT ![p] = status]]
    BY <1>6 DEF ReadPart
  <2>4. refresh' \in [Refreshes -> Reads]
    BY <1>2, <2>2, <2>3
  <2> QED BY <1>6, <2>4
          DEF ReadPart, RestTypes, serverVars, sourceVars, roomVars, boundVars
<1> QED BY <1>3, <1>4, <1>5, <1>6

\* Going to another room and back.
LEMMA SwitchTypes ==
  ASSUME RestTypes, Switch
  PROVE  RestTypes'
<1>1. CASE SelectOther
  <2>1. /\ UNCHANGED <<view, refresh, here, loading, breaks, rejects, others>>
        /\ leaving' = TRUE /\ leaves' = leaves + 1
        /\ subscribed' = FALSE /\ source' = "closed" /\ response' = "none" /\ wire' = <<>>
    BY <1>1 DEF SelectOther, Unsubscribe
  <2>2. leaves' \in Nat
    BY <2>1 DEF RestTypes
  <2>3. leaving' \in BOOLEAN /\ subscribed' \in BOOLEAN
    BY <2>1
  <2> QED BY <2>1, <2>2, <2>3 DEF RestTypes
<1>2. CASE ShowOther \/ LeavingFails
  <2>1. /\ UNCHANGED <<response, wire, subscribed, source, view, refresh, loading,
                       breaks, others, leaves>>
        /\ leaving' = FALSE /\ here' \in {here, FALSE} /\ rejects' \in {rejects, rejects + 1}
    BY <1>2 DEF ShowOther, LeavingFails, serverVars, sourceVars, boundVars
  <2>2. rejects' \in Nat
    BY <2>1 DEF RestTypes
  <2>3. leaving' \in BOOLEAN /\ here' \in BOOLEAN
    BY <2>1 DEF RestTypes
  <2> QED BY <2>1, <2>2, <2>3 DEF RestTypes
<1>3. CASE SelectHere
  <2>1. refresh' \in [Refreshes -> [Parts -> Status \cup {"unread", "none"}]]
    BY <1>3, AskTypes DEF SelectHere
  <2>2. loading' \subseteq Refreshes
    BY <1>3 DEF SelectHere, RestTypes
  <2> QED BY <1>3, <2>1, <2>2 DEF SelectHere, Unsubscribe, RestTypes, boundVars
<1> QED BY <1>1, <1>2, <1>3 DEF Switch

LEMMA RestStep == StreamInv /\ RestTypes /\ [Next]_vars => RestTypes'
<1> SUFFICES ASSUME StreamInv, RestTypes, [Next]_vars PROVE RestTypes'
  OBVIOUS
<1>1. StreamTypes
  BY DEF StreamInv
<1>2. CASE UNCHANGED vars
  BY <1>2 DEF vars, serverVars, sourceVars, pageVars, roomVars, boundVars, RestTypes
<1>3. CASE Next
  BY <1>1, <1>3, ServerTypes, ReceiveTypes, PageTypes, SwitchTypes DEF Next
<1> QED BY <1>2, <1>3

\* What is received and what is on the wire are numbers of the log's events.
LEMMA SequencesTypes ==
  ASSUME NEW a \in Nat, NEW b \in Nat, NEW n \in Nat, b <= n
  PROVE  Sequences(a, b) \in Seq(1 .. n)
BY DEF Sequences

LEMMA StreamTypesSuffice == StreamInv /\ RestTypes => TypeOK
<1> SUFFICES ASSUME StreamInv, RestTypes PROVE TypeOK
  OBVIOUS
<1>1. /\ log \in Seq(Progress \cup Terminal) /\ Len(log) \in Nat
      /\ cursor \in Nat /\ cursor <= Len(log)
      /\ lastEventId \in Nat /\ lastEventId <= Len(log)
  BY DEF StreamInv, StreamTypes
<1>2. received \in Seq(1 .. Len(log))
  BY <1>1, SequencesTypes DEF StreamInv, EventsInOrder
<1>3. wire \in Seq(1 .. Len(log))
  <2>1. CASE source = "open"
    BY <1>1, <2>1, SequencesTypes DEF StreamInv, EventsInOrder
  <2>2. CASE source # "open"
    BY <2>2 DEF RestTypes
  <2> QED BY <2>1, <2>2
<1> QED BY <1>1, <1>2, <1>3 DEF StreamInv, StreamTypes, RestTypes, TypeOK

LEMMA StreamAlways == Spec => [](StreamInv /\ RestTypes)
<1>1. Init => StreamInv /\ RestTypes
  BY StreamInit, RestInit
<1>2. StreamInv /\ RestTypes /\ [Next]_vars => (StreamInv /\ RestTypes)'
  BY StreamStep, RestStep
<1> QED BY <1>1, <1>2, PTL DEF Spec

\* Every variable of the stream, the source and the page has its type.
THEOREM StreamTypeCorrect == Spec => []TypeOK
BY StreamAlways, StreamTypesSuffice, PTL

-----------------------------------------------------------------------------
(* The stream implements the feed.                                         *)

\* An open source is a subscription's.
FollowInv == source = "open" => subscribed = TRUE

Told == [i \in DOMAIN received |-> log[received[i]]]

\* What was told is the beginning of the log.
LEMMA ToldIsPrefix ==
  ASSUME StreamInv
  PROVE  /\ Len(log) \in Nat /\ lastEventId \in Nat /\ lastEventId <= Len(log)
         /\ Told = [i \in 1 .. lastEventId |-> log[i]]
<1>1. /\ log \in Seq(Progress \cup Terminal) /\ Len(log) \in Nat
      /\ lastEventId \in Nat /\ lastEventId <= Len(log)
  BY DEF StreamInv, StreamTypes
<1>2. received = [i \in 1 .. lastEventId |-> i]
  BY <1>1 DEF StreamInv, EventsInOrder, Sequences
<1> QED BY <1>1, <1>2 DEF Told

\* A run with a terminal event has ended, so the log of a running one goes on.
LEMMA OverIsTerminal ==
  ASSUME StreamInv, Feed!Over
  PROVE  status \in Terminal
<1>1. log \in Seq(Progress \cup Terminal) /\ log # <<>> /\ log[Len(log)] \in Terminal
  BY DEF StreamInv, StreamTypes, Feed!Over
<1>2. Len(log) \in 1 .. Len(log)
  BY <1>1
<1> QED BY <1>1, <1>2 DEF StreamInv, LogInv

LEMMA FollowInit == Init => Feed!FeedInit
BY DEF Init, Feed!FeedInit

LEMMA FollowsFromTypes == RestTypes => FollowInv
BY DEF RestTypes, FollowInv

\* The run goes on while it has no terminal event.
LEMMA StoreOnFeed ==
  ASSUME StreamInv, StoreEvent
  PROVE  Feed!FeedNext
<1>1. /\ UNCHANGED <<subscribed, lastEventId, received>> /\ status = "running"
  BY DEF StoreEvent, sourceVars
<1>2. PICK type \in Progress \cup Terminal : log' = Append(log, type)
  BY DEF StoreEvent
<1>3. log \in Seq(Progress \cup Terminal)
  BY DEF StreamInv, StreamTypes
<1>4. /\ Len(log') = Len(log) + 1
      /\ \A i \in 1 .. Len(log) : log'[i] = log[i]
  BY <1>2, <1>3
<1>5. ~Feed!Over
  BY <1>1, OverIsTerminal
<1>6. Told' = Told
  <2>1. DOMAIN received = 1 .. lastEventId /\ \A i \in 1 .. lastEventId : received[i] = i
    BY DEF StreamInv, StreamTypes, EventsInOrder, Sequences
  <2>2. \A i \in DOMAIN received : log'[received[i]] = log[received[i]]
    BY <1>4, <2>1 DEF StreamInv, StreamTypes
  <2> QED BY <1>1, <2>2 DEF Told
<1>7. Feed!Happen(type)
  BY <1>1, <1>2, <1>5, <1>6 DEF Feed!Happen, Told
<1> QED BY <1>7 DEF Feed!FeedNext

\* The page is told of the next event, and stays unless it ends the run.
LEMMA ReceiveOnFeed ==
  ASSUME StreamInv, FollowInv, Receive
  PROVE  Feed!FeedNext
<1> DEFINE next == lastEventId + 1
<1>1. /\ UNCHANGED <<log, cursor>>
      /\ source = "open" /\ wire # <<>>
      /\ received' = Append(received, Head(wire)) /\ lastEventId' = Head(wire)
  BY DEF Receive, ReceiveProgress, ReceiveTerminal, runVars
<1>2. /\ lastEventId \in Nat /\ cursor \in Nat /\ lastEventId <= cursor
      /\ wire = Sequences(lastEventId, cursor) /\ cursor <= Len(log)
      /\ Len(log) \in Nat /\ log \in Seq(Progress \cup Terminal)
  BY <1>1 DEF StreamInv, StreamTypes, WireInv, EventsInOrder
<1>3. lastEventId < cursor /\ lastEventId' = next /\ Head(wire) = next
  BY <1>1, <1>2, SequencesHead
<1>4. subscribed = TRUE /\ subscribed' = (log[next] \notin Terminal)
  <2>1. subscribed = TRUE
    BY <1>1 DEF FollowInv
  <2>2. CASE ReceiveProgress
    BY <1>3, <2>1, <2>2 DEF ReceiveProgress
  <2>3. CASE ReceiveTerminal
    BY <1>3, <2>1, <2>3 DEF ReceiveTerminal, Unsubscribe
  <2> QED BY <2>1, <2>2, <2>3 DEF Receive
<1>5. Told = [i \in 1 .. lastEventId |-> log[i]]
  BY ToldIsPrefix
<1>6. Told' = [i \in 1 .. next |-> log[i]]
  <2>1. StreamInv'
    BY ReceiveStep
  <2>2. received' = [i \in 1 .. next |-> i]
    BY <1>2, <1>3, <2>1 DEF StreamInv, EventsInOrder, Sequences
  <2> QED BY <1>1, <2>2 DEF Told
<1>7. Told \in Seq(Progress \cup Terminal) /\ Len(Told) = lastEventId
  BY <1>2, <1>3, <1>5
<1>8. Told' = Append(Told, log[Len(Told) + 1])
  <2>1. Append(Told, log[next]) = [i \in 1 .. next |-> log[i]]
    BY <1>2, <1>3, <1>5, <1>7
  <2> QED BY <1>6, <1>7, <2>1
<1>9. Feed!TellNext
  BY <1>1, <1>2, <1>3, <1>4, <1>7, <1>8 DEF Feed!TellNext, Told
<1> QED BY <1>9 DEF Feed!FeedNext

\* A snapshot gives a new subscription, told of nothing, to a page without one.
LEMMA ShowOnFeed ==
  ASSUME NEW f \in Refreshes, ShowSnapshot(f)
  PROVE  [Feed!FeedNext]_(Feed!feedVars)
<1>1. UNCHANGED log
  BY DEF ShowSnapshot, runVars
<1>2. CASE UNCHANGED sourceVars
  BY <1>1, <1>2 DEF sourceVars, Feed!feedVars
<1>3. CASE ~subscribed /\ subscribed' = TRUE /\ received' = <<>>
  <2>1. [i \in DOMAIN received' |-> log'[received'[i]]] = <<>>
    BY <1>3
  <2>2. Feed!StartAgain
    BY <1>1, <1>3, <2>1 DEF Feed!StartAgain
  <2> QED BY <2>2 DEF Feed!FeedNext
<1> QED BY <1>2, <1>3 DEF ShowSnapshot

\* Selecting a room ends a subscription that there may be.
LEMMA SelectOnFeed ==
  ASSUME RestTypes, SelectOther \/ SelectHere
  PROVE  [Feed!FeedNext]_(Feed!feedVars)
<1>1. UNCHANGED <<log, received>> /\ subscribed' = FALSE
  BY DEF SelectOther, SelectHere, Unsubscribe, runVars
<1>2. CASE subscribed
  BY <1>1, <1>2 DEF Feed!GoAway, Feed!FeedNext
<1>3. CASE ~subscribed
  <2>1. UNCHANGED subscribed
    BY <1>1, <1>3 DEF RestTypes
  <2> QED BY <1>1, <2>1 DEF Feed!feedVars
<1> QED BY <1>2, <1>3

\* No other step is seen.
LEMMA QuietOnFeed ==
  ASSUME \/ UNCHANGED vars
         \/ Respond \/ Open \/ Reject \/ Break \/ RefreshForOther
         \/ ShowOther \/ LeavingFails
         \/ \E f \in Refreshes : RefreshFails(f) \/ \E p \in Parts : ReadPart(f, p)
  PROVE  UNCHANGED Feed!feedVars
<1>1. UNCHANGED <<log, subscribed, received>>
  BY DEF vars, runVars, sourceVars, Respond, ListEvents, GetRun, ListFinalEvents,
     Pause, SendNew, Open, OpenAfter, Reject, Break, RefreshForOther,
     RefreshFails, ReadPart, ShowOther, LeavingFails
<1> QED BY <1>1 DEF Feed!feedVars

LEMMA FeedStep ==
  StreamInv /\ RestTypes /\ [Next]_vars => [Feed!FeedNext]_(Feed!feedVars)
<1> SUFFICES ASSUME StreamInv, RestTypes, [Next]_vars
             PROVE  [Feed!FeedNext]_(Feed!feedVars)
  OBVIOUS
<1>1. CASE StoreEvent
  BY <1>1, StoreOnFeed
<1>2. CASE Receive
  BY <1>2, FollowsFromTypes, ReceiveOnFeed
<1>3. ASSUME NEW f \in Refreshes, ShowSnapshot(f)
      PROVE  [Feed!FeedNext]_(Feed!feedVars)
  BY <1>3, ShowOnFeed
<1>4. CASE SelectOther \/ SelectHere
  BY <1>4, SelectOnFeed
<1>5. CASE \/ UNCHANGED vars
           \/ Respond \/ Open \/ Reject \/ Break \/ RefreshForOther
           \/ ShowOther \/ LeavingFails
           \/ \E f \in Refreshes : RefreshFails(f) \/ \E p \in Parts : ReadPart(f, p)
  BY <1>5, QuietOnFeed
<1> QED BY <1>1, <1>2, <1>3, <1>4, <1>5 DEF Next, Switch

\* Over broken connections, refused requests, visits to another room and snapshots
\* in any order, the page's handler is told the run as it happened, and from the
\* beginning again only if it was told of the end or the page went away itself.
THEOREM FeedImplemented == Spec => ImplementsFeed
<1>1. Init => Feed!FeedInit
  BY FollowInit
<1>2. StreamInv /\ RestTypes /\ [Next]_vars => [Feed!FeedNext]_(Feed!feedVars)
  BY FeedStep
<1> QED BY <1>1, <1>2, StreamAlways, PTL DEF Spec, ImplementsFeed, Feed!FeedSpec
=============================================================================
