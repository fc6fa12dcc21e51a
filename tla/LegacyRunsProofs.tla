--------------------------- MODULE LegacyRunsProofs ---------------------------
(***************************************************************************)
(* The single-conversation runs for any number of runs, keys, events and   *)
(* faults: an active run is left without an execution only when a call     *)
(* that nothing catches throws or its text is too long, and a run's row,   *)
(* events and message agree.                                               *)
(*                                                                         *)
(* The argument: an execution leaves #active once its run has ended, or    *)
(* once its catch block has failed to end it; a stop of the process clears *)
(* the executions together with booted; and an event is stored only while  *)
(* its run has not ended.                                                  *)
(***************************************************************************)
EXTENDS LegacyRuns, FiniteSetTheorems, TLAPS

\* Rows come in order, and a process that is not up has no work.
RowsInv ==
    /\ \A t \in Turns : created < t => turn[t].status = "absent"
    /\ ~booted => /\ worker = IdleWork /\ submitting = NoSubmission
                  /\ \A t \in Turns : retryingBy[t] = NoSubmission

\* What an execution knows at its place.
WorkInv ==
    \A t \in Turns :
        /\ worker[t] # "idle" => ~(created < t)
        /\ worker[t] = "claim" => turn[t].status = "queued"
        /\ worker[t] = "store" => coming[t] \in EventType \cup {"refused"}

\* TurnTellsOneStory without the count, which follows.
StoryOf(t) ==
    /\ turn[t].status \in Final =>
          /\ EndsOf(t) = {Len(events[t])}
          /\ LET last == events[t][Len(events[t])] IN
               /\ StatusAfter(last) = turn[t].status
               /\ reply[t] = IF last = "completed" \/ (last # "blank" /\ HasText(t))
                               THEN turn[t].status ELSE "none"
    /\ ~(turn[t].status \in Final) => EndsOf(t) = {} /\ reply[t] = "none"
StoryInv == \A t \in Turns : StoryOf(t)

LegacyInv ==
    LegacyTypeOK /\ RowsInv /\ WorkInv /\ StoryInv /\ ActiveTurnsHaveWorker

-----------------------------------------------------------------------------
\* A row, its events and its message stay together.
LEMMA StoryStays ==
    ASSUME NEW t \in Turns, StoryOf(t), turn'[t] = turn[t], events'[t] = events[t],
           reply'[t] = reply[t]
    PROVE  StoryOf(t)'
BY DEF StoryOf, EndsOf, HasText, HasEventOf

\* A row that has not ended changes among the states that have not.
LEMMA StoryOfRow ==
    ASSUME NEW t \in Turns, StoryOf(t), turn[t].status \notin Final,
           turn'[t].status \notin Final, events'[t] = events[t], reply'[t] = reply[t]
    PROVE  StoryOf(t)'
BY DEF StoryOf, EndsOf, HasText, HasEventOf

\* appendEvent: what one stored event does to a run that has not ended.
LEMMA StoreEventTells ==
    ASSUME LegacyInv, NEW t \in Turns, NEW type \in EventType, Unfinished(t),
           StoreEvent(t, type)
    PROVE  /\ turn' \in [Turns -> TurnRow] /\ events' \in [Turns -> Seq(EventType)]
           /\ reply' \in [Turns -> Final \cup {"none"}] /\ created' = created
           /\ StoryInv'
           /\ \A u \in Turns : u # t => turn'[u] = turn[u]
           /\ \A u \in Turns : HasEventOf(u, {"excess"}) => HasEventOf(u, {"excess"})'
           /\ type \in Ending => turn'[t].status \in Final
           /\ type \notin Ending => turn' = turn
<1>0. /\ turn \in [Turns -> TurnRow] /\ events \in [Turns -> Seq(EventType)]
      /\ reply \in [Turns -> Final \cup {"none"}] /\ StoryInv
  BY DEF LegacyInv, LegacyTypeOK
<1>a. type \in Ending => StatusAfter(type) \in Final
  BY DEF Ending, StatusAfter, Final
<1>1. /\ events' = [events EXCEPT ![t] = Append(@, type)] /\ created' = created
      /\ type \in Ending => /\ turn' = [turn EXCEPT ![t].status = StatusAfter(type)]
                            /\ reply' = [reply EXCEPT ![t] =
                                 IF LeavesReply(t, type) THEN StatusAfter(type) ELSE "none"]
      /\ type \notin Ending => turn' = turn /\ reply' = reply
  BY DEF StoreEvent
<1>2. PICK old \in Seq(EventType) : old = events[t]
  BY <1>0
<1>3. /\ Append(old, type) \in Seq(EventType) /\ Len(Append(old, type)) = Len(old) + 1
      /\ Append(old, type)[Len(old) + 1] = type /\ Len(old) \in Nat
      /\ \A i \in 1 .. Len(old) : Append(old, type)[i] = old[i]
  BY <1>2
<1>4. PICK new \in Seq(EventType) : new = Append(old, type)
  BY <1>3
<1>5. events'[t] = new /\ Len(new) = Len(old) + 1 /\ new[Len(old) + 1] = type
      /\ \A i \in 1 .. Len(old) : new[i] = old[i]
  BY <1>0, <1>1, <1>2, <1>3, <1>4
<1>6. events' \in [Turns -> Seq(EventType)]
  BY <1>0, <1>1, <1>2, <1>3
<1>7. turn' \in [Turns -> TurnRow] /\ reply' \in [Turns -> Final \cup {"none"}]
  <2>1. CASE type \in Ending
    <3>1. turn' = [turn EXCEPT ![t] = [turn[t] EXCEPT !.status = StatusAfter(type)]]
      BY <1>0, <1>1, <2>1
    <3>2. [turn[t] EXCEPT !.status = StatusAfter(type)] \in TurnRow
      BY <1>0, <1>a, <2>1 DEF TurnRow
    <3>3. turn' \in [Turns -> TurnRow]
      BY <1>0, <3>1, <3>2
    <3>4. reply' \in [Turns -> Final \cup {"none"}]
      BY <1>0, <1>1, <1>a, <2>1
    <3> QED BY <3>3, <3>4
  <2>2. CASE type \notin Ending
    BY <1>0, <1>1, <2>2
  <2> QED BY <2>1, <2>2
<1>8. \A u \in Turns : u # t => turn'[u] = turn[u] /\ events'[u] = events[u] /\ reply'[u] = reply[u]
  BY <1>0, <1>1
<1>9. turn[t].status \notin Final
  BY DEF Unfinished, Final
<1>10. (\A i \in 1 .. Len(old) : old[i] \notin Ending) /\ reply[t] = "none"
  BY <1>0, <1>2, <1>9 DEF StoryInv, StoryOf, EndsOf
<1>11. StoryOf(t)'
  <2>1. CASE type \in Ending
    <3>1. turn'[t].status = StatusAfter(type)
      BY <1>0, <1>1, <2>1 DEF TurnRow
    <3>2. reply'[t] = IF LeavesReply(t, type) THEN StatusAfter(type) ELSE "none"
      BY <1>0, <1>1, <2>1
    <3>3. HasText(t)' <=> HasText(t)
      <4>1. type \notin {"text_delta", "excess"}
        BY <2>1 DEF Ending, Final
      <4>2. HasText(t) <=> \E i \in 1 .. Len(old) : old[i] \in {"text_delta", "excess"}
        BY <1>2 DEF HasText, HasEventOf
      <4>3. HasText(t)' <=> \E i \in 1 .. Len(new) : new[i] \in {"text_delta", "excess"}
        BY <1>5 DEF HasText, HasEventOf
      <4> QED BY <1>3, <1>5, <4>1, <4>2, <4>3
    <3>4. EndsOf(t)' = {Len(new)}
      <4>1. EndsOf(t)' = {i \in 1 .. Len(new) : new[i] \in Ending}
        BY <1>5 DEF EndsOf
      <4>2. \A i \in 1 .. Len(new) : new[i] \in Ending <=> i = Len(new)
        BY <1>3, <1>5, <1>10, <2>1
      <4>3. Len(new) \in 1 .. Len(new)
        BY <1>3, <1>5
      <4> QED BY <4>1, <4>2, <4>3
    <3>5. events'[t] = new /\ new[Len(new)] = type
      BY <1>5
    <3>6. LeavesReply(t, type) <=> (type = "completed" \/ (type # "blank" /\ HasText(t)))
      BY <2>1 DEF LeavesReply, Ending, Final
    <3>7. turn'[t].status \in Final
      BY <1>a, <2>1, <3>1
    <3>8. events'[t][Len(events'[t])] = type
      BY <3>5
    <3> QED BY <3>1, <3>2, <3>3, <3>4, <3>5, <3>6, <3>7, <3>8 DEF StoryOf
  <2>2. CASE type \notin Ending
    <3>1. turn'[t].status \notin Final /\ reply'[t] = "none"
      BY <1>1, <1>9, <1>10, <2>2
    <3>2. EndsOf(t)' = {}
      <4>1. EndsOf(t)' = {i \in 1 .. Len(new) : new[i] \in Ending}
        BY <1>5 DEF EndsOf
      <4>2. \A i \in 1 .. Len(new) : new[i] \notin Ending
        BY <1>3, <1>5, <1>10, <2>2
      <4> QED BY <4>1, <4>2
    <3> QED BY <3>1, <3>2 DEF StoryOf
  <2> QED BY <2>1, <2>2
<1>12. ASSUME NEW u \in Turns PROVE StoryOf(u)'
  <2>1. CASE u # t
    BY <1>0, <1>8, <2>1, StoryStays DEF StoryInv
  <2>2. CASE u = t
    BY <1>11, <2>2
  <2> QED BY <2>1, <2>2
<1>13. type \in Ending => turn'[t].status \in Final
  BY <1>0, <1>1, <1>a DEF TurnRow
<1>14. ASSUME NEW u \in Turns, HasEventOf(u, {"excess"}) PROVE HasEventOf(u, {"excess"})'
  <2>1. CASE u # t
    BY <1>8, <1>14, <2>1 DEF HasEventOf
  <2>2. CASE u = t
    <3>1. PICK i \in 1 .. Len(old) : old[i] \in {"excess"}
      BY <1>2, <1>14, <2>2 DEF HasEventOf
    <3>2. i \in 1 .. Len(new) /\ new[i] \in {"excess"}
      BY <1>3, <1>5, <3>1
    <3> QED BY <1>5, <2>2, <3>2 DEF HasEventOf
  <2> QED BY <2>1, <2>2
<1> QED BY <1>1, <1>6, <1>7, <1>8, <1>12, <1>13, <1>14 DEF StoryInv

-----------------------------------------------------------------------------
\* A step that stores nothing and leaves the executions alone.
LEMMA AskKeeps ==
    ASSUME LegacyInv, UNCHANGED turnVars, UNCHANGED <<worker, coming, booted, deserted, faults>>,
           fired' \subseteq Turns, cancelAsked' \subseteq Turns, booted,
           submitting' \in SubmitKeys \cup {NoSubmission},
           retryingBy' \in [Turns -> AgainKeys \cup {NoSubmission}]
    PROVE  LegacyInv'
<1>1. turn' = turn /\ created' = created /\ events' = events /\ reply' = reply
  BY DEF turnVars
<1>2. LegacyTypeOK'
  BY <1>1 DEF LegacyInv, LegacyTypeOK
<1>3. RowsInv' /\ WorkInv' /\ ActiveTurnsHaveWorker'
  BY <1>1 DEF LegacyInv, RowsInv, WorkInv, ActiveTurnsHaveWorker, HasEventOf
<1>4. StoryInv'
  BY <1>1, StoryStays DEF LegacyInv, StoryInv
<1> QED BY <1>2, <1>3, <1>4 DEF LegacyInv

\* A new run is committed and its execution started, or deserted.
LEMMA EnqueueKeeps ==
    ASSUME LegacyInv, NEW t \in Turns, t = Following, NEW row \in TurnRow,
           row.status = "queued", Enqueue(t, row), booted,
           submitting' \in SubmitKeys \cup {NoSubmission},
           retryingBy' \in [Turns -> AgainKeys \cup {NoSubmission}],
           UNCHANGED <<cancelAsked, booted>>
    PROVE  LegacyInv'
<1>0. /\ turn \in [Turns -> TurnRow] /\ created \in 0 .. MaxTurns /\ MaxTurns \in Nat
      /\ worker \in [Turns -> {"idle", "claim", "stream", "store", "catch"}]
      /\ RowsInv /\ WorkInv /\ StoryInv /\ ActiveTurnsHaveWorker
      /\ deserted \subseteq Turns /\ faults \in Nat
  BY LegacyAssumption DEF LegacyInv, LegacyTypeOK, LegacyAssumption
<1>1. /\ turn' = [turn EXCEPT ![t] = row] /\ created' = t
      /\ \/ /\ worker' = [worker EXCEPT ![t] = "claim"]
            /\ deserted' = deserted /\ faults' = faults
         \/ worker' = worker /\ deserted' = deserted \cup {t} /\ faults' = faults + 1
      /\ events' = events /\ reply' = reply /\ fired' = fired /\ coming' = coming
  BY DEF Enqueue
<1>2. t \in 1 .. MaxTurns /\ created < t
  BY <1>0 DEF Following, Turns
<1>3. LegacyTypeOK'
  <2>1. turn' \in [Turns -> TurnRow] /\ created' \in 0 .. MaxTurns
    BY <1>0, <1>1, <1>2
  <2>2. /\ worker' \in [Turns -> {"idle", "claim", "stream", "store", "catch"}]
        /\ deserted' \subseteq Turns /\ faults' \in Nat
    BY <1>0, <1>1
  <2> QED BY <1>1, <2>1, <2>2 DEF LegacyInv, LegacyTypeOK
<1>4. RowsInv'
  <2> SUFFICES ASSUME NEW u \in Turns, t < u PROVE turn'[u].status = "absent"
    BY <1>1 DEF RowsInv
  <2>1. created < u /\ u # t
    BY <1>0, <1>2 DEF Turns
  <2> QED BY <1>0, <1>1, <2>1 DEF RowsInv
<1>5. WorkInv' /\ ActiveTurnsHaveWorker'
  <2>1. \A u \in Turns : ~(created < u) => ~(t < u)
    BY <1>0, <1>2 DEF Turns
  <2>2. worker[t] = "idle"
    BY <1>0, <1>2 DEF WorkInv
  <2> QED BY <1>0, <1>1, <1>2, <2>1, <2>2 DEF WorkInv, ActiveTurnsHaveWorker, Turns, HasEventOf
<1>6. turn[t].status = "absent"
  BY <1>0, <1>2 DEF RowsInv
<1>7. ASSUME NEW u \in Turns PROVE StoryOf(u)'
  <2>1. CASE u = t
    <3>1. turn[t].status \notin Final /\ turn'[t].status \notin Final
      BY <1>0, <1>1, <1>6 DEF Final
    <3> QED BY <1>0, <1>1, <2>1, <3>1, StoryOfRow DEF StoryInv
  <2>2. CASE u # t
    BY <1>0, <1>1, <2>2, StoryStays DEF StoryInv
  <2> QED BY <2>1, <2>2
<1> QED BY <1>3, <1>4, <1>5, <1>7 DEF LegacyInv, StoryInv

\* An execution goes on, with no row changed.
LEMMA WorkerKeeps ==
    ASSUME LegacyInv, NEW t \in Turns, worker[t] # "idle", UNCHANGED turnVars,
           NEW pc \in {"stream", "store", "catch"}, WorkerTo(t, pc),
           fired' \subseteq Turns, NEW next \in EventType \cup {"refused", "none"},
           coming' = [coming EXCEPT ![t] = next],
           pc = "store" => next \in EventType \cup {"refused"},
           UNCHANGED askVars, booted' = booted, deserted' = deserted, faults' \in Nat
    PROVE  LegacyInv'
<1>0. /\ worker \in [Turns -> {"idle", "claim", "stream", "store", "catch"}]
      /\ coming \in [Turns -> EventType \cup {"refused", "none"}]
      /\ RowsInv /\ WorkInv /\ StoryInv /\ ActiveTurnsHaveWorker
  BY DEF LegacyInv, LegacyTypeOK
<1>1. /\ turn' = turn /\ created' = created /\ events' = events /\ reply' = reply
      /\ submitting' = submitting /\ retryingBy' = retryingBy /\ cancelAsked' = cancelAsked
      /\ worker' = [worker EXCEPT ![t] = pc]
  BY DEF turnVars, askVars, WorkerTo
<1>2. booted
  BY <1>0 DEF RowsInv, IdleWork
<1>3. LegacyTypeOK'
  BY <1>0, <1>1 DEF LegacyInv, LegacyTypeOK
<1>4. RowsInv' /\ WorkInv' /\ ActiveTurnsHaveWorker'
  BY <1>0, <1>1, <1>2 DEF RowsInv, WorkInv, ActiveTurnsHaveWorker, HasEventOf
<1>5. StoryInv'
  BY <1>0, <1>1, StoryStays DEF StoryInv
<1> QED BY <1>3, <1>4, <1>5 DEF LegacyInv

\* An execution leaves: its run has ended, or ends now, or its catch block has
\* failed to end it.
LEMMA LeavingKeeps ==
    ASSUME LegacyInv, NEW t \in Turns, worker[t] # "idle", Leaves(t),
           UNCHANGED askVars, booted' = booted, deserted \subseteq deserted',
           deserted' \subseteq Turns, faults' \in Nat,
           turn' \in [Turns -> TurnRow], events' \in [Turns -> Seq(EventType)],
           reply' \in [Turns -> Final \cup {"none"}], created' = created, StoryInv',
           \A u \in Turns : u # t => turn'[u] = turn[u],
           \A u \in Turns : HasEventOf(u, {"excess"}) => HasEventOf(u, {"excess"})',
           turn'[t].status \in {"queued", "running"} =>
               t \in deserted' \/ HasEventOf(t, {"excess"})'
    PROVE  LegacyInv'
<1>0. /\ worker \in [Turns -> {"idle", "claim", "stream", "store", "catch"}]
      /\ coming \in [Turns -> EventType \cup {"refused", "none"}] /\ fired \subseteq Turns
      /\ created \in 0 .. MaxTurns
      /\ RowsInv /\ WorkInv /\ StoryInv /\ ActiveTurnsHaveWorker /\ turn \in [Turns -> TurnRow]
  BY DEF LegacyInv, LegacyTypeOK
<1>1. /\ worker' = [worker EXCEPT ![t] = "idle"] /\ fired' = fired \ {t}
      /\ coming' = [coming EXCEPT ![t] = "none"]
      /\ submitting' = submitting /\ retryingBy' = retryingBy /\ cancelAsked' = cancelAsked
  BY DEF Leaves, WorkerTo, askVars
<1>2. booted
  BY <1>0 DEF RowsInv, IdleWork
<1>3. LegacyTypeOK'
  BY <1>0, <1>1 DEF LegacyInv, LegacyTypeOK
<1>4. RowsInv'
  BY <1>0, <1>1, <1>2 DEF RowsInv, WorkInv
<1>5. WorkInv'
  BY <1>0, <1>1 DEF WorkInv
<1>6. ActiveTurnsHaveWorker'
  <2> SUFFICES ASSUME NEW u \in Turns, turn'[u].status \in {"queued", "running"}
               PROVE  worker'[u] # "idle" \/ u \in deserted' \/ HasEventOf(u, {"excess"})'
    BY DEF ActiveTurnsHaveWorker
  <2>1. CASE u = t
    BY <2>1
  <2>2. CASE u # t
    <3>1. worker[u] # "idle" \/ u \in deserted \/ HasEventOf(u, {"excess"})
      BY <1>0, <1>2, <2>2 DEF ActiveTurnsHaveWorker
    <3>2. worker'[u] = worker[u]
      BY <1>0, <1>1, <2>2
    <3> QED BY <3>1, <3>2
  <2> QED BY <2>1, <2>2
<1> QED BY <1>3, <1>4, <1>5, <1>6 DEF LegacyInv

-----------------------------------------------------------------------------
(* The steps.                                                              *)

LEMMA AskStepKeeps ==
    ASSUME LegacyInv, NEW t \in Turns,
           \/ \E k \in SubmitKeys : CheckSubmission(k)
           \/ \E key \in AgainKeys : CheckRetryOf(t, key)
           \/ AskCancel(t) \/ FireAbort(t)
    PROVE  LegacyInv'
<1>0. /\ submitting \in SubmitKeys \cup {NoSubmission} /\ fired \subseteq Turns
      /\ retryingBy \in [Turns -> AgainKeys \cup {NoSubmission}] /\ cancelAsked \subseteq Turns
  BY DEF LegacyInv, LegacyTypeOK
<1>1. CASE \E k \in SubmitKeys : CheckSubmission(k)
  BY <1>0, <1>1, AskKeeps DEF CheckSubmission, workVars
<1>2. CASE \E key \in AgainKeys : CheckRetryOf(t, key)
  BY <1>0, <1>2, AskKeeps DEF CheckRetryOf, workVars
<1>3. CASE AskCancel(t)
  BY <1>0, <1>3, AskKeeps DEF AskCancel, workVars
<1>4. CASE FireAbort(t)
  <2>1. CASE booted
    BY <1>0, <1>4, <2>1, AskKeeps DEF FireAbort
  <2>2. CASE ~booted
    <3>1. worker[t] = "idle"
      BY <2>2 DEF LegacyInv, RowsInv, IdleWork
    <3>2. /\ turn' = turn /\ created' = created /\ events' = events /\ reply' = reply
          /\ worker' = worker /\ coming' = coming /\ fired' = fired /\ booted' = booted
          /\ submitting' = submitting /\ retryingBy' = retryingBy /\ faults' = faults
          /\ cancelAsked' \subseteq Turns /\ deserted' = deserted
      BY <1>0, <1>4, <3>1 DEF FireAbort, turnVars
    <3>3. StoryInv'
      BY <3>2, StoryStays DEF LegacyInv, StoryInv
    <3> QED BY <3>2, <3>3
            DEF LegacyInv, LegacyTypeOK, RowsInv, WorkInv, ActiveTurnsHaveWorker, HasEventOf
  <2> QED BY <2>1, <2>2
<1> QED BY <1>1, <1>2, <1>3, <1>4

LEMMA CommitKeeps ==
    ASSUME LegacyInv, NEW t \in Turns, NEW u \in Turns,
           CommitSubmission(u) \/ CommitRetryOf(t, u)
    PROVE  LegacyInv'
<1>0. /\ submitting \in SubmitKeys \cup {NoSubmission} /\ turn \in [Turns -> TurnRow]
      /\ retryingBy \in [Turns -> AgainKeys \cup {NoSubmission}] /\ RowsInv
  BY DEF LegacyInv, LegacyTypeOK
<1>1. CASE CommitSubmission(u)
  <2> DEFINE row == [status |-> "queued", message |-> submitting,
                     source |-> NoTurn, again |-> NoSubmission]
  <2>1. row \in TurnRow /\ row.status = "queued"
    BY <1>0 DEF TurnRow
  <2>2. booted
    BY <1>0, <1>1 DEF CommitSubmission, RowsInv
  <2> QED BY <1>0, <1>1, <2>1, <2>2, EnqueueKeeps DEF CommitSubmission
<1>2. CASE CommitRetryOf(t, u)
  <2> DEFINE row == [status |-> "queued", message |-> turn[t].message,
                     source |-> t, again |-> retryingBy[t]]
  <2>1. row \in TurnRow /\ row.status = "queued"
    BY <1>0 DEF TurnRow
  <2>2. booted
    BY <1>0, <1>2 DEF CommitRetryOf, RowsInv
  <2>3. retryingBy' \in [Turns -> AgainKeys \cup {NoSubmission}]
    BY <1>0, <1>2 DEF CommitRetryOf
  <2> QED BY <1>0, <1>2, <2>1, <2>2, <2>3, EnqueueKeeps DEF CommitRetryOf
<1> QED BY <1>1, <1>2

LEMMA ClaimTurnKeeps ==
    ASSUME LegacyInv, NEW t \in Turns, ClaimTurn(t) \/ ClaimThrows(t)
    PROVE  LegacyInv'
<1>0. /\ turn \in [Turns -> TurnRow] /\ worker \in [Turns -> {"idle", "claim", "stream", "store", "catch"}]
      /\ RowsInv /\ WorkInv /\ StoryInv /\ ActiveTurnsHaveWorker /\ worker[t] = "claim"
      /\ turn[t].status = "queued"
  BY DEF LegacyInv, LegacyTypeOK, ClaimTurn, ClaimThrows, WorkerAt, WorkInv
<1>1. PICK pc \in {"stream", "catch"} : worker' = [worker EXCEPT ![t] = pc]
  BY <1>0 DEF ClaimTurn, ClaimThrows, WorkerTo
<1>2. /\ turn' = turn \/ turn' = [turn EXCEPT ![t].status = "running"]
      /\ fired' = fired /\ coming' = coming /\ created' = created /\ events' = events
      /\ reply' = reply /\ submitting' = submitting /\ retryingBy' = retryingBy
      /\ cancelAsked' = cancelAsked /\ booted' = booted /\ deserted' = deserted
      /\ faults' \in Nat
  BY <1>0 DEF ClaimTurn, ClaimThrows, WorkFrame, askVars, LegacyInv, LegacyTypeOK
<1>3. turn' \in [Turns -> TurnRow] /\ turn'[t].status \in {"queued", "running"}
      /\ \A u \in Turns : u # t => turn'[u] = turn[u]
  BY <1>0, <1>2 DEF TurnRow
<1>4. LegacyTypeOK'
  BY <1>0, <1>1, <1>2, <1>3 DEF LegacyInv, LegacyTypeOK
<1>5. booted
  BY <1>0 DEF RowsInv, IdleWork
<1>6. RowsInv'
  BY <1>0, <1>2, <1>3, <1>5 DEF RowsInv, WorkInv
<1>7. WorkInv'
  BY <1>0, <1>1, <1>2, <1>3 DEF WorkInv
<1>8. ActiveTurnsHaveWorker'
  BY <1>0, <1>1, <1>2, <1>3 DEF ActiveTurnsHaveWorker, HasEventOf
<1>9. ASSUME NEW u \in Turns PROVE StoryOf(u)'
  <2>1. CASE u = t
    <3>1. turn[t].status \notin Final /\ turn'[t].status \notin Final
      BY <1>0, <1>3 DEF Final
    <3> QED BY <1>0, <1>2, <2>1, <3>1, StoryOfRow DEF StoryInv
  <2>2. CASE u # t
    BY <1>0, <1>2, <1>3, <2>2, StoryStays DEF StoryInv
  <2> QED BY <2>1, <2>2
<1> QED BY <1>4, <1>6, <1>7, <1>8, <1>9 DEF LegacyInv, StoryInv

LEMMA StreamStepKeeps ==
    ASSUME LegacyInv, NEW t \in Turns,
           \/ \E type \in EventType \cup {"refused"} : YieldEvent(t, type)
           \/ StreamRunsOut(t) \/ StreamFails(t)
    PROVE  LegacyInv'
<1>0. /\ worker[t] = "stream" /\ coming \in [Turns -> EventType \cup {"refused", "none"}]
      /\ fired \subseteq Turns /\ faults \in Nat
  BY DEF LegacyInv, LegacyTypeOK, YieldEvent, StreamRunsOut, StreamFails, WorkerAt
<1>1. CASE \E type \in EventType \cup {"refused"} : YieldEvent(t, type)
  <2>1. PICK type \in EventType \cup {"refused"} : YieldEvent(t, type)
    BY <1>1
  <2>2. PICK next \in EventType \cup {"refused"} : coming' = [coming EXCEPT ![t] = next]
    <3>1. "stopped" \in EventType
      BY DEF EventType, Ending, Final
    <3> QED BY <2>1, <3>1 DEF YieldEvent
  <2> QED BY <1>0, <2>1, <2>2, WorkerKeeps DEF YieldEvent, WorkFrame
<1>2. CASE StreamRunsOut(t)
  <2>1. PICK next \in EventType : coming' = [coming EXCEPT ![t] = next]
    BY <1>2 DEF StreamRunsOut, Interrupted, EventType, Ending, Final
  <2> QED BY <1>0, <1>2, <2>1, WorkerKeeps DEF StreamRunsOut, WorkFrame
<1>3. CASE StreamFails(t)
  <2>1. coming' = [coming EXCEPT ![t] = coming[t]] /\ coming[t] \in EventType \cup {"refused", "none"}
    BY <1>0, <1>3 DEF StreamFails
  <2> QED BY <1>0, <1>3, <2>1, WorkerKeeps DEF StreamFails, WorkFrame
<1> QED BY <1>1, <1>2, <1>3

LEMMA StoreComingKeeps ==
    ASSUME LegacyInv, NEW t \in Turns, StoreComing(t)
    PROVE  LegacyInv'
<1>0. /\ worker[t] = "store" /\ coming[t] \in EventType \cup {"refused"}
      /\ fired \subseteq Turns /\ faults \in Nat /\ deserted \subseteq Turns
      /\ coming \in [Turns -> EventType \cup {"refused", "none"}] /\ WorkFrame
  BY DEF LegacyInv, LegacyTypeOK, WorkInv, StoreComing, WorkerAt
<1>1. CASE Unfinished(t) /\ Storable(t, coming[t]) /\ coming[t] \in Ending
  <2>1. StoreEvent(t, coming[t]) /\ Leaves(t) /\ coming[t] \in EventType
    BY <1>1 DEF StoreComing, EventType
  <2>2. /\ turn' \in [Turns -> TurnRow] /\ events' \in [Turns -> Seq(EventType)]
        /\ reply' \in [Turns -> Final \cup {"none"}] /\ created' = created /\ StoryInv'
        /\ \A u \in Turns : u # t => turn'[u] = turn[u]
        /\ \A u \in Turns : HasEventOf(u, {"excess"}) => HasEventOf(u, {"excess"})'
        /\ turn'[t].status \in Final
    BY <1>1, <2>1, StoreEventTells
  <2>3. turn'[t].status \notin {"queued", "running"}
    BY <2>2 DEF Final
  <2> QED BY <1>0, <2>1, <2>2, <2>3, LeavingKeeps DEF WorkFrame
<1>2. CASE Unfinished(t) /\ Storable(t, coming[t]) /\ coming[t] \notin Ending
  <2>1. StoreEvent(t, coming[t]) /\ WorkerTo(t, "stream") /\ fired' = fired
        /\ coming' = [coming EXCEPT ![t] = "none"] /\ coming[t] \in EventType
    BY <1>0, <1>2 DEF StoreComing, Storable
  <2>2. /\ turn' = turn /\ events' \in [Turns -> Seq(EventType)]
        /\ reply' \in [Turns -> Final \cup {"none"}] /\ created' = created /\ StoryInv'
        /\ \A u \in Turns : HasEventOf(u, {"excess"}) => HasEventOf(u, {"excess"})'
    BY <1>2, <2>1, StoreEventTells
  <2>3. /\ worker' = [worker EXCEPT ![t] = "stream"] /\ submitting' = submitting
        /\ retryingBy' = retryingBy /\ cancelAsked' = cancelAsked /\ booted' = booted
        /\ faults' = faults /\ deserted' = deserted
    BY <1>0, <2>1 DEF WorkerTo, WorkFrame, askVars
  <2>4. /\ worker \in [Turns -> {"idle", "claim", "stream", "store", "catch"}]
        /\ RowsInv /\ WorkInv /\ ActiveTurnsHaveWorker
    BY DEF LegacyInv, LegacyTypeOK
  <2>5. LegacyTypeOK'
    BY <1>0, <2>1, <2>2, <2>3, <2>4 DEF LegacyInv, LegacyTypeOK
  <2>6. booted
    BY <1>0, <2>4 DEF RowsInv, IdleWork
  <2>7. RowsInv' /\ WorkInv' /\ ActiveTurnsHaveWorker'
    BY <1>0, <2>1, <2>2, <2>3, <2>4, <2>6 DEF RowsInv, WorkInv, ActiveTurnsHaveWorker
  <2> QED BY <2>2, <2>5, <2>7 DEF LegacyInv
<1>3. CASE ~(Unfinished(t) /\ Storable(t, coming[t]))
  <2>1. coming' = [coming EXCEPT ![t] = coming[t]] /\ WorkerTo(t, "catch") /\ UNCHANGED turnVars
        /\ fired' = fired
    BY <1>0, <1>3 DEF StoreComing
  <2> QED BY <1>0, <2>1, WorkerKeeps DEF WorkFrame
<1> QED BY <1>1, <1>2, <1>3

LEMMA StoreThrowsKeeps ==
    ASSUME LegacyInv, NEW t \in Turns, StoreThrows(t)
    PROVE  LegacyInv'
<1>0. /\ worker[t] = "store" /\ coming[t] \in EventType \cup {"refused"} /\ fired \subseteq Turns
      /\ faults' \in Nat /\ fired' = fired /\ booted' = booted /\ UNCHANGED askVars
      /\ deserted' = deserted
      /\ WorkerTo(t, "catch") /\ coming' = [coming EXCEPT ![t] = "none"]
  BY DEF LegacyInv, LegacyTypeOK, WorkInv, StoreThrows, WorkerAt
<1>1. CASE UNCHANGED turnVars
  BY <1>0, <1>1, WorkerKeeps
<1>2. CASE Unfinished(t) /\ Storable(t, coming[t]) /\ StoreEvent(t, coming[t])
  <2>0. coming[t] \in EventType
    BY <1>0, <1>2 DEF Storable
  <2>1. /\ turn' \in [Turns -> TurnRow] /\ events' \in [Turns -> Seq(EventType)]
        /\ reply' \in [Turns -> Final \cup {"none"}] /\ created' = created /\ StoryInv'
        /\ \A u \in Turns : u # t => turn'[u] = turn[u]
        /\ \A u \in Turns : HasEventOf(u, {"excess"}) => HasEventOf(u, {"excess"})'
    BY <1>2, <2>0, StoreEventTells
  <2>2. /\ worker \in [Turns -> {"idle", "claim", "stream", "store", "catch"}]
        /\ coming \in [Turns -> EventType \cup {"refused", "none"}]
        /\ RowsInv /\ WorkInv /\ ActiveTurnsHaveWorker
    BY DEF LegacyInv, LegacyTypeOK
  <2>3. /\ worker' = [worker EXCEPT ![t] = "catch"] /\ submitting' = submitting
        /\ retryingBy' = retryingBy /\ cancelAsked' = cancelAsked
    BY <1>0 DEF WorkerTo, askVars
  <2>4. booted
    BY <1>0, <2>2 DEF RowsInv, IdleWork
  <2>5. LegacyTypeOK'
    BY <1>0, <2>1, <2>2, <2>3 DEF LegacyInv, LegacyTypeOK
  <2>6. RowsInv'
    BY <1>0, <2>1, <2>2, <2>3, <2>4 DEF RowsInv, WorkInv
  <2>7. WorkInv' /\ ActiveTurnsHaveWorker'
    BY <1>0, <2>1, <2>2, <2>3 DEF WorkInv, ActiveTurnsHaveWorker
  <2> QED BY <2>1, <2>5, <2>6, <2>7 DEF LegacyInv
<1> QED BY <1>1, <1>2 DEF StoreThrows

\* The catch block stores the interruption, finds the run ended, is refused, or
\* throws.
LEMMA CatchKeeps ==
    ASSUME LegacyInv, NEW t \in Turns, InterruptTurn(t) \/ CatchThrows(t)
    PROVE  LegacyInv'
<1>0. /\ worker[t] = "catch" /\ Leaves(t) /\ turn \in [Turns -> TurnRow]
      /\ events \in [Turns -> Seq(EventType)] /\ reply \in [Turns -> Final \cup {"none"}]
      /\ StoryInv /\ UNCHANGED askVars /\ booted' = booted /\ faults' \in Nat
      /\ deserted \subseteq deserted' /\ deserted' \subseteq Turns
  BY DEF LegacyInv, LegacyTypeOK, InterruptTurn, CatchThrows, WorkerAt, WorkFrame
<1>1. CASE Unfinished(t) /\ StoreEvent(t, Interrupted(t))
  <2>1. PICK type \in EventType : type = Interrupted(t) /\ type \in Ending
    BY DEF Interrupted, EventType, Ending, Final
  <2>2. /\ turn' \in [Turns -> TurnRow] /\ events' \in [Turns -> Seq(EventType)]
        /\ reply' \in [Turns -> Final \cup {"none"}] /\ created' = created /\ StoryInv'
        /\ \A u \in Turns : u # t => turn'[u] = turn[u]
        /\ \A u \in Turns : HasEventOf(u, {"excess"}) => HasEventOf(u, {"excess"})'
        /\ turn'[t].status \in Final
    BY <1>1, <2>1, StoreEventTells
  <2>3. turn'[t].status \notin {"queued", "running"}
    BY <2>2 DEF Final
  <2> QED BY <1>0, <2>2, <2>3, LeavingKeeps
<1>2. CASE UNCHANGED turnVars
  <2>1. /\ turn' = turn /\ created' = created /\ events' = events /\ reply' = reply
    BY <1>2 DEF turnVars
  <2>2. StoryInv'
    BY <1>0, <2>1, StoryStays DEF StoryInv
  <2>3. turn[t].status \in {"queued", "running"} => t \in deserted' \/ HasEventOf(t, {"excess"})
    <3> SUFFICES ASSUME Unfinished(t), t \notin deserted' PROVE HasEventOf(t, {"excess"})
      BY DEF Unfinished
    <3>1. InterruptTurn(t)
      BY DEF CatchThrows
    <3>2. CASE Storable(t, Interrupted(t))
      <4>1. events' = [events EXCEPT ![t] = Append(@, Interrupted(t))]
        BY <3>1, <3>2 DEF InterruptTurn, StoreEvent
      <4>2. PICK old \in Seq(EventType) : old = events[t]
        BY <1>0
      <4>3. Append(old, Interrupted(t)) = old
        BY <1>0, <2>1, <4>1, <4>2
      <4>4. Interrupted(t) \in EventType
        BY DEF Interrupted, EventType, Ending, Final
      <4>5. Len(Append(old, Interrupted(t))) = Len(old) + 1 /\ Len(old) \in Nat
        BY <4>2, <4>4
      <4> QED BY <4>3, <4>5
    <3>3. CASE ~Storable(t, Interrupted(t))
      BY <3>3 DEF Storable, Interrupted
    <3> QED BY <3>2, <3>3
  <2>4. \A u \in Turns : HasEventOf(u, {"excess"})' <=> HasEventOf(u, {"excess"})
    BY <2>1 DEF HasEventOf
  <2> QED BY <1>0, <2>1, <2>2, <2>3, <2>4, LeavingKeeps DEF LegacyInv, LegacyTypeOK
<1> QED BY <1>1, <1>2 DEF InterruptTurn, CatchThrows

\* The process stops: its work is gone, and requests wait for the repair.
LEMMA ProcessStopsKeeps ==
    ASSUME LegacyInv, ProcessStops
    PROVE  LegacyInv'
<1>1. /\ turn' = turn /\ created' = created /\ events' = events /\ reply' = reply
      /\ booted' = FALSE /\ worker' = IdleWork /\ fired' = {} /\ coming' = [t \in Turns |-> "none"]
      /\ submitting' = NoSubmission /\ retryingBy' = [t \in Turns |-> NoSubmission]
      /\ cancelAsked' = {} /\ deserted' = {} /\ faults' = faults + 1
  BY DEF ProcessStops, turnVars
<1>2. LegacyTypeOK'
  <2>1. booted' \in BOOLEAN
    BY <1>1
  <2>2. /\ worker' \in [Turns -> {"idle", "claim", "stream", "store", "catch"}]
        /\ fired' \subseteq Turns /\ coming' \in [Turns -> EventType \cup {"refused", "none"}]
        /\ submitting' \in SubmitKeys \cup {NoSubmission}
        /\ retryingBy' \in [Turns -> AgainKeys \cup {NoSubmission}] /\ cancelAsked' \subseteq Turns
        /\ deserted' \subseteq Turns
    BY <1>1 DEF IdleWork
  <2>3. faults' \in Nat
    BY <1>1 DEF LegacyInv, LegacyTypeOK
  <2> QED BY <1>1, <2>1, <2>2, <2>3 DEF LegacyInv, LegacyTypeOK
<1>3. RowsInv' /\ WorkInv' /\ ActiveTurnsHaveWorker'
  BY <1>1 DEF LegacyInv, RowsInv, WorkInv, ActiveTurnsHaveWorker, IdleWork
<1>4. StoryInv'
  BY <1>1, StoryStays DEF LegacyInv, StoryInv
<1> QED BY <1>2, <1>3, <1>4 DEF LegacyInv

\* failInterruptedRuns leaves no run active before requests are taken.
LEMMA BootKeeps ==
    ASSUME LegacyInv, Booted \/ \E t \in Turns : FailLeftActive(t)
    PROVE  LegacyInv'
<1>0. RowsInv /\ WorkInv /\ StoryInv /\ created \in 0 .. MaxTurns /\ turn \in [Turns -> TurnRow]
  BY DEF LegacyInv, LegacyTypeOK
<1>1. CASE Booted
  <2>1. /\ turn' = turn /\ created' = created /\ events' = events /\ reply' = reply
        /\ worker' = worker /\ fired' = fired /\ coming' = coming /\ submitting' = submitting
        /\ retryingBy' = retryingBy /\ cancelAsked' = cancelAsked /\ booted' = TRUE
        /\ faults' = faults /\ deserted' = deserted /\ LeftActive = {}
    BY <1>1 DEF Booted, turnVars, workVars, askVars
  <2>2. LegacyTypeOK' /\ RowsInv' /\ WorkInv'
    BY <2>1 DEF LegacyInv, LegacyTypeOK, RowsInv, WorkInv
  <2>3. ActiveTurnsHaveWorker'
    BY <2>1 DEF ActiveTurnsHaveWorker, LeftActive
  <2>4. StoryInv'
    BY <1>0, <2>1, StoryStays DEF StoryInv
  <2> QED BY <2>2, <2>3, <2>4 DEF LegacyInv
<1>2. ASSUME NEW t \in Turns, FailLeftActive(t) PROVE LegacyInv'
  <2>1. /\ worker' = worker /\ fired' = fired /\ coming' = coming /\ submitting' = submitting
        /\ retryingBy' = retryingBy /\ cancelAsked' = cancelAsked /\ booted' = booted
        /\ faults' = faults /\ deserted' = deserted /\ ~booted /\ turn[t].status \in {"queued", "running"}
        /\ StoreEvent(t, "failed")
    BY <1>2 DEF FailLeftActive, workVars, askVars, LeftActive
  <2>2. "failed" \in EventType
    BY DEF EventType, Ending, Final
  <2>3. /\ turn' \in [Turns -> TurnRow] /\ events' \in [Turns -> Seq(EventType)]
        /\ reply' \in [Turns -> Final \cup {"none"}] /\ created' = created /\ StoryInv'
        /\ \A u \in Turns : u # t => turn'[u] = turn[u]
    BY <2>1, <2>2, StoreEventTells DEF Unfinished
  <2>4. LegacyTypeOK'
    BY <2>1, <2>3 DEF LegacyInv, LegacyTypeOK
  <2>5. RowsInv' /\ WorkInv' /\ ActiveTurnsHaveWorker'
    BY <1>0, <2>1, <2>3 DEF RowsInv, WorkInv, ActiveTurnsHaveWorker, IdleWork
  <2> QED BY <2>3, <2>4, <2>5 DEF LegacyInv
<1> QED BY <1>1, <1>2

-----------------------------------------------------------------------------
LEMMA LegacyInitially == LegacyInit => LegacyInv
<1> SUFFICES ASSUME LegacyInit PROVE LegacyInv
  OBVIOUS
<1>1. NoRow \in TurnRow /\ NoRow.status = "absent"
  BY DEF NoRow, TurnRow
<1>2. LegacyTypeOK
  <2>1. booted \in BOOLEAN
    BY DEF LegacyInit
  <2>2. /\ turn \in [Turns -> TurnRow] /\ created \in 0 .. MaxTurns /\ faults \in Nat
        /\ events \in [Turns -> Seq(EventType)] /\ reply \in [Turns -> Final \cup {"none"}]
    BY <1>1, LegacyAssumption DEF LegacyInit, LegacyAssumption
  <2>3. /\ worker \in [Turns -> {"idle", "claim", "stream", "store", "catch"}]
        /\ fired \subseteq Turns /\ coming \in [Turns -> EventType \cup {"refused", "none"}]
        /\ submitting \in SubmitKeys \cup {NoSubmission}
        /\ retryingBy \in [Turns -> AgainKeys \cup {NoSubmission}] /\ cancelAsked \subseteq Turns
        /\ deserted \subseteq Turns
    BY DEF LegacyInit, IdleWork
  <2> QED BY <2>1, <2>2, <2>3 DEF LegacyTypeOK
<1>3. RowsInv /\ WorkInv /\ ActiveTurnsHaveWorker
  BY <1>1 DEF LegacyInit, RowsInv, WorkInv, ActiveTurnsHaveWorker, IdleWork
<1>4. ASSUME NEW t \in Turns PROVE StoryOf(t)
  <2>1. turn[t].status \notin Final /\ reply[t] = "none" /\ events[t] = <<>>
    BY <1>1 DEF LegacyInit, Final
  <2>2. EndsOf(t) = {}
    BY <2>1 DEF EndsOf
  <2> QED BY <2>1, <2>2 DEF StoryOf
<1> QED BY <1>2, <1>3, <1>4 DEF LegacyInv, StoryInv

LEMMA LegacyInductive == LegacyInv /\ [LegacyNext]_legacyVars => LegacyInv'
<1> SUFFICES ASSUME LegacyInv, [LegacyNext]_legacyVars PROVE LegacyInv'
  OBVIOUS
<1>1. ASSUME NEW t \in Turns,
             \/ \E key \in AgainKeys : CheckRetryOf(t, key)
             \/ AskCancel(t) \/ FireAbort(t)
      PROVE  LegacyInv'
  BY <1>1, AskStepKeeps
<1>2. CASE \E k \in SubmitKeys : CheckSubmission(k)
  BY <1>2, AskKeeps DEF CheckSubmission, workVars, LegacyInv, LegacyTypeOK
<1>3. ASSUME NEW t \in Turns, CommitSubmission(t) \/ \E u \in Turns : CommitRetryOf(t, u)
      PROVE  LegacyInv'
  BY <1>3, CommitKeeps
<1>4. ASSUME NEW t \in Turns,
             \/ ClaimTurn(t) \/ ClaimThrows(t) \/ StreamRunsOut(t) \/ StreamFails(t)
             \/ StoreComing(t) \/ StoreThrows(t) \/ InterruptTurn(t) \/ CatchThrows(t)
             \/ \E type \in EventType \cup {"refused"} : YieldEvent(t, type)
      PROVE  LegacyInv'
  BY <1>4, ClaimTurnKeeps, StreamStepKeeps, StoreComingKeeps, StoreThrowsKeeps, CatchKeeps
<1>5. CASE ProcessStops
  BY <1>5, ProcessStopsKeeps
<1>6. CASE Booted \/ \E t \in Turns : FailLeftActive(t)
  BY <1>6, BootKeeps
<1>7. CASE UNCHANGED legacyVars
  <2>1. /\ turn' = turn /\ created' = created /\ events' = events /\ reply' = reply
        /\ worker' = worker /\ fired' = fired /\ coming' = coming /\ submitting' = submitting
        /\ retryingBy' = retryingBy /\ cancelAsked' = cancelAsked /\ booted' = booted
        /\ faults' = faults /\ deserted' = deserted
    BY <1>7 DEF legacyVars, turnVars, workVars, askVars
  <2>2. StoryInv'
    BY <2>1, StoryStays DEF LegacyInv, StoryInv
  <2> QED BY <2>1, <2>2
          DEF LegacyInv, LegacyTypeOK, RowsInv, WorkInv, ActiveTurnsHaveWorker, HasEventOf
<1> QED BY <1>1, <1>2, <1>3, <1>4, <1>5, <1>6, <1>7 DEF LegacyNext

\* The invariant holds of every behaviour of the specification.
LEMMA LegacyAlways == LegacySpec => []LegacyInv
BY LegacyInitially, LegacyInductive, PTL DEF LegacySpec

\* The rows, events and executions of run-repository.ts and run-coordinator.ts
\* keep their types.
THEOREM LegacyTypeCorrect == LegacySpec => []LegacyTypeOK
<1>1. LegacyInv => LegacyTypeOK
  BY DEF LegacyInv
<1> QED BY <1>1, LegacyAlways, PTL

\* While the server takes requests, an active run has its execution, unless the
\* commit that made it or its catch block threw in this process, or its text is
\* too long for a message: for any number of runs, crashes and failed calls
\* (start, failInterruptedRuns, #execute's catch).
THEOREM ActiveTurnsAreWorkedOn == LegacySpec => []ActiveTurnsHaveWorker
<1>1. LegacyInv => ActiveTurnsHaveWorker
  BY DEF LegacyInv
<1> QED BY <1>1, LegacyAlways, PTL

\* A run's row, events and message agree, although a call may throw after its
\* commit, and a completed run without text leaves no message (appendEvent,
\* createTerminalMessage).
THEOREM StoriesAgree == LegacySpec => []TurnTellsOneStory
<1>1. LegacyInv => TurnTellsOneStory
  <2> SUFFICES ASSUME LegacyInv, NEW t \in Turns PROVE StoryOf(t) /\ Cardinality(EndsOf(t)) <= 1
    BY DEF TurnTellsOneStory, StoryOf
  <2>1. StoryOf(t)
    BY DEF LegacyInv, StoryInv
  <2>2. EndsOf(t) = {} \/ EndsOf(t) = {Len(events[t])}
    BY <2>1 DEF StoryOf
  <2>3. Cardinality({}) = 0 /\ Cardinality({Len(events[t])}) = 1
    BY FS_EmptySet, FS_Singleton
  <2> QED BY <2>1, <2>2, <2>3
<1> QED BY <1>1, LegacyAlways, PTL

-----------------------------------------------------------------------------
(* The board.                                                              *)

\* What shows of a run.
Shown(t) == IF turn[t].status \in {"queued", "running"} THEN "active"
            ELSE IF turn[t].status = "absent" THEN "none" ELSE turn[t].status

\* The board's steps, in terms of what shows.
LEMMA BoardOfTurns ==
    /\ LegacyBoard!Outcome = Final
    /\ \A S : LegacyBoard!Create(S) <=>
         /\ \A t \in S : [u \in Turns |-> Shown(u)][t] = "none"
         /\ [t \in Turns |-> Shown(t)'] =
              [t \in Turns |-> IF t \in S THEN "active" ELSE [u \in Turns |-> Shown(u)][t]]
         /\ reply' = reply
    /\ \A t, o : LegacyBoard!FinishAs(t, o) <=>
         /\ [u \in Turns |-> Shown(u)][t] = "active"
         /\ [u \in Turns |-> Shown(u)'] = [[u \in Turns |-> Shown(u)] EXCEPT ![t] = o]
         /\ [u \in Turns |-> "none"] =
              [[u \in Turns |-> "none"] EXCEPT ![t] = IF @ = "active" THEN o ELSE @]
         /\ \E a \in {"none", o} : reply' = [reply EXCEPT ![t] = a]
    /\ (\A t \in Turns : Shown(t)' = Shown(t)) /\ reply' = reply =>
         UNCHANGED LegacyBoard!boardVars
BY DEF LegacyBoard!Outcome, Final, LegacyBoard!Create, LegacyBoard!FinishAs,
       LegacyBoard!boardVars, Shown

\* A stored event shows only if it ends the run.
LEMMA StoreEventShows ==
    ASSUME LegacyInv, NEW t \in Turns, NEW type \in EventType, Unfinished(t),
           StoreEvent(t, type)
    PROVE  [LegacyBoard!BoardNext]_(LegacyBoard!boardVars)
<1>0. turn \in [Turns -> TurnRow] /\ reply \in [Turns -> Final \cup {"none"}]
  BY DEF LegacyInv, LegacyTypeOK
<1>1. CASE type \in Ending
  <2>0. PICK o \in Final : o = StatusAfter(type)
    BY <1>1 DEF Ending, StatusAfter, Final
  <2>1. turn' = [turn EXCEPT ![t].status = o]
        /\ \E a \in {"none", o} : reply' = [reply EXCEPT ![t] = a]
    BY <1>1, <2>0 DEF StoreEvent
  <2>2. /\ turn'[t].status = o
        /\ \A u \in Turns : u # t => turn'[u] = turn[u]
    BY <1>0, <2>1 DEF TurnRow
  <2>3. Shown(t) = "active" /\ Shown(t)' = o /\ \A u \in Turns : u # t => Shown(u)' = Shown(u)
    BY <2>0, <2>2 DEF Shown, Unfinished, Final
  <2>4. LegacyBoard!FinishAs(t, o)
    <3>1. [u \in Turns |-> Shown(u)][t] = "active"
      BY <2>3
    <3>2. [u \in Turns |-> Shown(u)'] = [[u \in Turns |-> Shown(u)] EXCEPT ![t] = o]
      BY <2>3
    <3>3. [u \in Turns |-> "none"] =
            [[u \in Turns |-> "none"] EXCEPT ![t] = IF @ = "active" THEN o ELSE @]
      OBVIOUS
    <3> QED BY <2>1, <3>1, <3>2, <3>3, BoardOfTurns
  <2> QED BY <2>0, <2>4, BoardOfTurns DEF LegacyBoard!BoardNext
<1>2. CASE type \notin Ending
  <2>1. turn' = turn /\ reply' = reply
    BY <1>2 DEF StoreEvent
  <2> QED BY <2>1, BoardOfTurns DEF Shown
<1> QED BY <1>1, <1>2

\* A new run has no row before.
LEMMA EnqueueShows ==
    ASSUME LegacyInv, NEW t \in Turns, t = Following, NEW row, row.status = "queued",
           Enqueue(t, row)
    PROVE  LegacyBoard!BoardNext
<1>0. turn \in [Turns -> TurnRow] /\ created \in 0 .. MaxTurns /\ RowsInv /\ MaxTurns \in Nat
  BY LegacyAssumption DEF LegacyInv, LegacyTypeOK, LegacyAssumption
<1>1. turn' = [turn EXCEPT ![t] = row] /\ reply' = reply
  BY DEF Enqueue
<1>2. turn[t].status = "absent"
  BY <1>0 DEF RowsInv, Following, Turns
<1>3. Shown(t) = "none" /\ Shown(t)' = "active" /\ \A u \in Turns : u # t => Shown(u)' = Shown(u)
  BY <1>0, <1>1, <1>2 DEF Shown
<1>4. LegacyBoard!Create({t})
  BY <1>1, <1>3, BoardOfTurns
<1> QED BY <1>4 DEF LegacyBoard!BoardNext

LEMMA LegacyBoardStep ==
    ASSUME LegacyInv, [LegacyNext]_legacyVars
    PROVE  [LegacyBoard!BoardNext]_(LegacyBoard!boardVars)
<1>0. turn \in [Turns -> TurnRow] /\ WorkInv
  BY DEF LegacyInv, LegacyTypeOK
<1>1. ASSUME UNCHANGED <<turn, reply>>
      PROVE  [LegacyBoard!BoardNext]_(LegacyBoard!boardVars)
  BY <1>1, BoardOfTurns DEF Shown
<1>2. CASE \/ \E k \in SubmitKeys : CheckSubmission(k)
           \/ \E t \in Turns :
                \/ StreamRunsOut(t) \/ StreamFails(t) \/ AskCancel(t) \/ FireAbort(t)
                \/ \E key \in AgainKeys : CheckRetryOf(t, key)
                \/ \E type \in EventType \cup {"refused"} : YieldEvent(t, type)
           \/ ProcessStops \/ Booted \/ UNCHANGED legacyVars
  BY <1>1, <1>2
     DEF CheckSubmission, StreamRunsOut, StreamFails, AskCancel, FireAbort, CheckRetryOf,
         YieldEvent, ProcessStops, Booted, legacyVars, turnVars
<1>3. ASSUME NEW t \in Turns, CommitSubmission(t) PROVE LegacyBoard!BoardNext
  <2> DEFINE row == [status |-> "queued", message |-> submitting,
                     source |-> NoTurn, again |-> NoSubmission]
  <2>1. row.status = "queued" /\ Enqueue(t, row) /\ t = Following
    BY <1>3 DEF CommitSubmission
  <2> HIDE DEF row
  <2> QED BY <2>1, EnqueueShows
<1>4. ASSUME NEW t \in Turns, NEW u \in Turns, CommitRetryOf(t, u)
      PROVE  LegacyBoard!BoardNext
  <2> DEFINE row == [status |-> "queued", message |-> turn[t].message,
                     source |-> t, again |-> retryingBy[t]]
  <2>1. row.status = "queued" /\ Enqueue(u, row) /\ u = Following
    BY <1>4 DEF CommitRetryOf
  <2> HIDE DEF row
  <2> QED BY <2>1, EnqueueShows
<1>5. ASSUME NEW t \in Turns, ClaimTurn(t) \/ ClaimThrows(t) PROVE UNCHANGED LegacyBoard!boardVars
  <2>1. \/ turn' = turn
        \/ turn[t].status = "queued" /\ turn' = [turn EXCEPT ![t].status = "running"]
    BY <1>5 DEF ClaimTurn, ClaimThrows
  <2>2. \A u \in Turns : Shown(u)' = Shown(u)
    BY <1>0, <2>1 DEF Shown, TurnRow
  <2> QED BY <1>5, <2>2, BoardOfTurns DEF ClaimTurn, ClaimThrows
<1>6. ASSUME NEW t \in Turns, StoreComing(t) \/ StoreThrows(t)
      PROVE  [LegacyBoard!BoardNext]_(LegacyBoard!boardVars)
  <2>1. coming[t] \in EventType \cup {"refused"}
    BY <1>0, <1>6 DEF WorkInv, StoreComing, StoreThrows, WorkerAt
  <2>2. \/ UNCHANGED turnVars
        \/ Unfinished(t) /\ coming[t] \in EventType /\ StoreEvent(t, coming[t])
    BY <1>6, <2>1 DEF StoreComing, StoreThrows, Storable
  <2> QED BY <1>1, <2>2, StoreEventShows DEF turnVars
<1>7. ASSUME NEW t \in Turns, InterruptTurn(t) \/ CatchThrows(t) \/ FailLeftActive(t)
      PROVE  [LegacyBoard!BoardNext]_(LegacyBoard!boardVars)
  <2>1. PICK type \in EventType :
          UNCHANGED turnVars \/ (Unfinished(t) /\ StoreEvent(t, type))
    <3>1. "failed" \in EventType /\ "stopped" \in EventType
      BY DEF EventType, Ending, Final
    <3> QED BY <1>7, <3>1
            DEF InterruptTurn, CatchThrows, FailLeftActive, Interrupted, LeftActive, Unfinished
  <2> QED BY <1>1, <2>1, StoreEventShows DEF turnVars
<1> QED BY <1>2, <1>3, <1>4, <1>5, <1>6, <1>7 DEF LegacyNext

\* The single-conversation runs implement the board as the rooms' runs do: what
\* shows of a run changes once from active to its outcome, together with its
\* message, whatever throws, is cancelled or is repaired at boot (appendEvent,
\* createSubmission, createRetry, failInterruptedRuns).
THEOREM LegacyBoardImplemented == LegacySpec => LegacyImplementsBoard
<1>1. LegacyInit => LegacyBoard!BoardInit
  BY DEF LegacyInit, LegacyBoard!BoardInit, NoRow
<1>2. LegacyInv /\ [LegacyNext]_legacyVars =>
        [LegacyBoard!BoardNext]_(LegacyBoard!boardVars)
  BY LegacyBoardStep
<1> QED BY <1>1, <1>2, LegacyAlways, PTL
        DEF LegacySpec, LegacyImplementsBoard, LegacyBoard!BoardSpec
=============================================================================
