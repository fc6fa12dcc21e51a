----------------------------- MODULE RunStream -----------------------------
(***************************************************************************)
(* How a browser follows one delegated run of the room it shows: the       *)
(* snapshot of the room, read by several queries at once, and the event    *)
(* stream, which the server answers by polling the log and the browser's   *)
(* EventSource reconnects after the last event it saw.  The run finishes   *)
(* in one commit; snapshots and events may arrive in any order, and the    *)
(* page may go to another room, which ends its subscriptions, and return.  *)
(***************************************************************************)
EXTENDS Integers, Sequences, FiniteSets

CONSTANTS
  Refreshes,     \* room snapshots that can be under way at the same time
  Parts,         \* what a snapshot's queries read of the run: its row, its
                 \* answer, its delegation
  MaxEvents,     \* bound: events before the terminal one
  MaxBreaks,     \* bound: connections that break
  MaxRejects,    \* bound: requests the server answers with an error
  MaxRefreshes,  \* bound: refreshes the page makes for other reasons
  MaxLeaves      \* bound: times the page sets out for another room

ASSUME StreamAssumption ==
  /\ {"runs"} \subseteq Parts /\ Parts \subseteq {"runs", "messages", "delegations"}
  /\ MaxEvents \in Nat /\ MaxBreaks \in Nat
  /\ MaxRejects \in Nat /\ MaxRefreshes \in Nat /\ MaxLeaves \in Nat

VARIABLES
  log, status,   \* the run's events and status in the database
  response,      \* where the server's answer to the EventSource stands
  cursor,        \* ... and the last sequence number it has sent
  wire,          \* events on their way to the browser
  subscribed,    \* the page holds a subscription for the run
  source,        \* state of its EventSource
  lastEventId,   \* ... and the last id it has received
  received,      \* the events the subscription's handler was called with
  view,          \* what the page shows of the run, its message and delegation
  refresh,       \* the snapshots under way: what each query has read
  here,          \* the page shows the run's room
  leaving,       \* ... and has asked for another room's snapshot
  loading,       \* the snapshots that were asked for to return to the room
  breaks, rejects, others, leaves

runVars    == <<log, status>>
serverVars == <<response, cursor, wire>>
sourceVars == <<subscribed, source, lastEventId, received>>
roomVars   == <<here, leaving, loading>>
pageVars   == <<view, refresh, roomVars>>
boundVars  == <<breaks, rejects, others, leaves>>
vars == <<runVars, serverVars, sourceVars, pageVars, boundVars>>

Terminal == {"completed", "failed", "stopped"}
Status   == Terminal \cup {"running"}
Progress == {"status", "text_delta"}

\* A part of a snapshot is as of the run's status when its query ran.
Unread == [p \in Parts |-> "unread"]
NoRefresh == [p \in Parts |-> "none"]
Complete(f) == \A p \in Parts : refresh[f][p] \in Status
Free == {f \in Refreshes : refresh[f] = NoRefresh}

Init ==
  /\ log = <<>> /\ status = "running"
  /\ response = "none" /\ cursor = 0 /\ wire = <<>>
  /\ subscribed = TRUE /\ source = "connecting"
  /\ lastEventId = 0 /\ received = <<>>
  /\ view = [p \in Parts |-> "running"]
  /\ refresh = [f \in Refreshes |-> NoRefresh]
  /\ here = TRUE /\ leaving = FALSE /\ loading = {}
  /\ breaks = 0 /\ rejects = 0 /\ others = 0 /\ leaves = 0

-----------------------------------------------------------------------------
(* The run, as the store commits it.                                       *)

StoreEvent ==
  /\ status = "running"
  /\ \/ /\ Len(log) < MaxEvents
        /\ \E type \in Progress : log' = Append(log, type)
        /\ UNCHANGED status
     \/ \E type \in Terminal : log' = Append(log, type) /\ status' = type
  /\ UNCHANGED <<serverVars, sourceVars, pageVars, boundVars>>

-----------------------------------------------------------------------------
(* The server's answer to the EventSource.                                 *)

\* Mutant: the event at the cursor is sent again.
SequencesFrom(from, to) == [i \in 1 .. (to - from + 1) |-> from + i - 1]

\* The sequence numbers after one, up to another.
Sequences(from, to) == [i \in 1 .. (to - from) |-> from + i]

\* Sends what the log has after the cursor.
SendNew(next) ==
  /\ wire' = wire \o Sequences(cursor, Len(log))
  /\ cursor' = Len(log)
  /\ response' = next
  /\ UNCHANGED <<runVars, sourceVars, pageVars, boundVars>>

ListEvents ==
  /\ response = "list"
  /\ SendNew(IF \E i \in (cursor + 1) .. Len(log) : log[i] \in Terminal
             THEN "ended" ELSE "get")

\* Mutant: the response is closed as soon as the run is seen to be terminal.
CloseOnStatus ==
  /\ response = "get"
  /\ response' = IF status \in Terminal THEN "ended" ELSE "pause"
  /\ UNCHANGED <<runVars, cursor, wire, sourceVars, pageVars, boundVars>>

\* A run that finished after the events were listed has more of them.
GetRun ==
  /\ response = "get"
  /\ response' = IF status \in Terminal THEN "final" ELSE "pause"
  /\ UNCHANGED <<runVars, cursor, wire, sourceVars, pageVars, boundVars>>

ListFinalEvents == response = "final" /\ SendNew("ended")

Pause ==
  /\ response = "pause" /\ response' = "list"
  /\ UNCHANGED <<runVars, cursor, wire, sourceVars, pageVars, boundVars>>

-----------------------------------------------------------------------------
(* The browser's EventSource.                                              *)

OpenAfter(sequence) ==
  /\ source = "connecting"
  /\ source' = "open"
  /\ response' = "list" /\ cursor' = sequence /\ wire' = <<>>
  /\ UNCHANGED <<runVars, subscribed, lastEventId, received, pageVars, boundVars>>

\* Mutant: the Last-Event-ID header is not looked at.
OpenFromStart == OpenAfter(0)

Open == OpenAfter(lastEventId)

\* A request that is refused closes an EventSource for good; the page keeps the
\* subscription.
Reject ==
  /\ source = "connecting" /\ rejects < MaxRejects
  /\ rejects' = rejects + 1
  /\ source' = "closed"
  /\ UNCHANGED <<runVars, serverVars, subscribed, lastEventId, received, pageVars,
                 breaks, others, leaves>>

\* The connection breaks, or a query of the server rejects: what was on the way
\* is lost and the source reconnects.
Break ==
  /\ source = "open" /\ breaks < MaxBreaks
  /\ breaks' = breaks + 1
  /\ source' = "connecting"
  /\ response' = "none" /\ wire' = <<>>
  /\ UNCHANGED <<runVars, cursor, subscribed, lastEventId, received, pageVars,
                 rejects, others, leaves>>

-----------------------------------------------------------------------------
(* The page.                                                               *)

\* An event's status is applied to the run in the room shown, if it is there.
ShowStatus(value) ==
  view' = IF here THEN [view EXCEPT !["runs"] = value] ELSE view

\* applyRunEvent on an event before the terminal one.
ReceiveProgress ==
  /\ source = "open" /\ wire # <<>> /\ log[Head(wire)] \in Progress
  /\ received' = Append(received, Head(wire))
  /\ lastEventId' = Head(wire)
  /\ wire' = Tail(wire)
  /\ IF log[Head(wire)] = "status" THEN ShowStatus("running") ELSE UNCHANGED view
  /\ UNCHANGED <<runVars, response, cursor, subscribed, source, refresh, roomVars,
                 boundVars>>

\* Closing the EventSource; what is on its way is not received.
Unsubscribe ==
  /\ subscribed' = FALSE /\ source' = "closed"
  /\ response' = "none" /\ wire' = <<>>

\* A snapshot of the room is asked for.
Ask(f) == f \in Free /\ refresh' = [refresh EXCEPT ![f] = Unread]

\* applyRunEvent on the terminal event: the page unsubscribes and reads the room
\* again.
ReceiveTerminal ==
  /\ source = "open" /\ wire # <<>> /\ log[Head(wire)] \in Terminal
  /\ received' = Append(received, Head(wire))
  /\ lastEventId' = Head(wire)
  /\ ShowStatus(log[Head(wire)])
  /\ Unsubscribe
  /\ \E f \in Refreshes : Ask(f)
  /\ UNCHANGED <<runVars, cursor, roomVars, boundVars>>

\* A refresh for another run's end.
RefreshForOther ==
  /\ others < MaxRefreshes
  /\ others' = others + 1
  /\ \E f \in Refreshes : Ask(f)
  /\ UNCHANGED <<runVars, serverVars, sourceVars, view, roomVars, breaks, rejects,
                 leaves>>

\* One of getSnapshot's queries, which run on connections of their own.
ReadPart(f, p) ==
  /\ refresh[f][p] = "unread"
  /\ refresh' = [refresh EXCEPT ![f][p] = status]
  /\ UNCHANGED <<runVars, serverVars, sourceVars, view, roomVars, boundVars>>

\* A response arrives, in whatever order: one that was asked for to return shows
\* the room, a refresh is dropped if another room is shown meanwhile.
Show(f) ==
  /\ Complete(f)
  /\ here' = (here \/ f \in loading)
  /\ view' = IF here' THEN refresh[f] ELSE view
  /\ refresh' = [refresh EXCEPT ![f] = NoRefresh]
  /\ loading' = loading \ {f}
  /\ UNCHANGED leaving

\* Mutant: the page does not look for active runs in a later snapshot.
ShowOnly(f) ==
  /\ Show(f)
  /\ UNCHANGED <<runVars, serverVars, sourceVars, boundVars>>

\* A run that is shown active and has no subscription gets a new one, which
\* starts from the first event.
ShowSnapshot(f) ==
  /\ Show(f)
  /\ IF here' /\ view'["runs"] = "running" /\ ~subscribed
     THEN /\ subscribed' = TRUE /\ source' = "connecting"
          /\ lastEventId' = 0 /\ received' = <<>>
     ELSE UNCHANGED sourceVars
  /\ UNCHANGED <<runVars, serverVars, boundVars>>

\* A refresh that fails leaves the page as it is, and so does the return.
RefreshFails(f) ==
  /\ refresh[f] # NoRefresh /\ rejects < MaxRejects
  /\ rejects' = rejects + 1
  /\ refresh' = [refresh EXCEPT ![f] = NoRefresh]
  /\ loading' = loading \ {f}
  /\ UNCHANGED <<runVars, serverVars, sourceVars, view, here, leaving, breaks,
                 others, leaves>>

-----------------------------------------------------------------------------
(* Going to the other room and back.                                       *)

\* The subscriptions end at once; the room stays until the other one is there,
\* and a snapshot of it that arrives first subscribes again.
SelectOther ==
  /\ here /\ ~leaving /\ leaves < MaxLeaves
  /\ leaves' = leaves + 1
  /\ leaving' = TRUE
  /\ Unsubscribe
  /\ UNCHANGED <<runVars, cursor, lastEventId, received, view, refresh, here,
                 loading, breaks, rejects, others>>

ShowOther ==
  /\ leaving /\ leaving' = FALSE
  /\ here' = FALSE
  /\ UNCHANGED <<runVars, serverVars, sourceVars, view, refresh, loading, boundVars>>

\* The other room could not be read: the page keeps this one as it was left.
LeavingFails ==
  /\ leaving /\ leaving' = FALSE
  /\ rejects < MaxRejects /\ rejects' = rejects + 1
  /\ UNCHANGED <<runVars, serverVars, sourceVars, view, refresh, here, loading,
                 breaks, others, leaves>>

SelectHere ==
  /\ ~here
  /\ Unsubscribe
  /\ \E f \in Refreshes : Ask(f) /\ loading' = loading \cup {f}
  /\ UNCHANGED <<runVars, cursor, lastEventId, received, view, here, leaving,
                 boundVars>>

Respond == ListEvents \/ GetRun \/ ListFinalEvents \/ Pause
Receive == ReceiveProgress \/ ReceiveTerminal
Switch  == SelectOther \/ ShowOther \/ LeavingFails \/ SelectHere

Next ==
  \/ StoreEvent
  \/ Respond \/ Open \/ Reject \/ Break \/ Receive \/ RefreshForOther
  \/ Switch
  \/ \E f \in Refreshes :
       ShowSnapshot(f) \/ RefreshFails(f) \/ \E p \in Parts : ReadPart(f, p)

Spec == Init /\ [][Next]_vars

\* The server's loop goes on, the EventSource reconnects, what is on the wire
\* arrives unless the connection breaks, and queries and responses end.  Nobody
\* has to leave or to return.
FairSpec ==
  /\ Spec
  /\ WF_vars(Respond) /\ WF_vars(Open) /\ WF_vars(Receive)
  /\ WF_vars(ShowOther)
  /\ \A f \in Refreshes :
       WF_vars(ShowSnapshot(f)) /\ \A p \in Parts : WF_vars(ReadPart(f, p))

-----------------------------------------------------------------------------
(* Properties.                                                             *)

\* Every variable has its type.
TypeOK ==
  /\ log \in Seq(Progress \cup Terminal) /\ status \in Status
  /\ response \in {"none", "list", "get", "final", "pause", "ended"}
  /\ cursor \in 0 .. Len(log)
  /\ wire \in Seq(1 .. Len(log))
  /\ subscribed \in BOOLEAN /\ source \in {"connecting", "open", "closed"}
  /\ lastEventId \in 0 .. Len(log)
  /\ received \in Seq(1 .. Len(log))
  /\ view \in [Parts -> Status]
  /\ refresh \in [Refreshes -> [Parts -> Status \cup {"unread", "none"}]]
  /\ here \in BOOLEAN /\ leaving \in BOOLEAN /\ loading \subseteq Refreshes
  /\ breaks \in Nat /\ rejects \in Nat /\ others \in Nat /\ leaves \in Nat

\* However often the connection breaks, a subscription's handler is called with
\* the log's events in order, each once: the ones on the wire follow the ones
\* received, up to the server's cursor (Last-Event-ID).
EventsInOrder ==
  /\ received = Sequences(0, lastEventId)
  /\ source = "open" => wire = Sequences(lastEventId, cursor)

\* The server does not end a response before it has sent the terminal event
\* ("drains a newly committed terminal event before closing a terminal run").
EndsAfterTerminal ==
  response = "ended" => cursor = Len(log) /\ status \in Terminal

\* While no request is refused a page that shows the room ends up showing that
\* the run is over, also when it was away at the end, and when an older snapshot
\* arrives after the event that said so.  On the way to another room it shows
\* nothing.
EndIsShown ==
  \A t \in Terminal :
    status = t ~> [](here /\ ~leaving => view["runs"] = t \/ rejects > 0)

\* For the page's handler the stream is a feed of the run: neither the server's
\* two looks at the database nor a reconnection is seen, and the page is told the
\* run from the start again only after it has been told of the end or has gone
\* to another room itself.
Feed == INSTANCE RunFeed WITH
  Events <- Progress \cup Terminal, Final <- Terminal,
  happened <- log,
  told <- [i \in DOMAIN received |-> log[received[i]]],
  attending <- subscribed

ImplementsFeed == Feed!FeedSpec

\* "A snapshot never shows a completed run with a running delegation."
SnapshotNotTorn ==
  "delegations" \in Parts =>
  \A f \in Refreshes :
    Complete(f) /\ refresh[f]["runs"] \in Terminal =>
      refresh[f]["delegations"] \in Terminal
=============================================================================
