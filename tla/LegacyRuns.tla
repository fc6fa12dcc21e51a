------------------------------ MODULE LegacyRuns ------------------------------
(***************************************************************************)
(* The single-conversation runs the rooms have grown out of, which the     *)
(* server still offers: submitting a message and retrying a run            *)
(* (conversation-service.ts, conversation-repository.ts), executing it     *)
(* (run-coordinator.ts), cancelling it, and the store of runs and events   *)
(* (run-repository.ts), for one owner's current conversation.              *)
(*                                                                         *)
(* A turn stands for a run with its row, events and the answer it leaves   *)
(* in the conversation; turns are numbered in the order of created_at.     *)
(* Texts are left out but for what the tables make of them.  An event is a *)
(* text_delta whose text is not blank, an excess (the text_delta that takes *)
(* the run's text past the 32000 characters a message may hold), a blank   *)
(* (a completed event without text), or a terminal event named by its type; *)
(* refused is a completed event whose own text is too long.                *)
(***************************************************************************)
EXTENDS Integers, Sequences, FiniteSets

CONSTANTS
    MaxTurns,       \* bound: runs created
    SubmitKeys,     \* idempotency keys of submitted messages
    AgainKeys,      \* idempotency keys of retries
    MaxDeltas,      \* bound: text_delta events of a run
    MaxFaults,      \* bound: stops of the process, and calls that throw
    NoSubmission

ASSUME LegacyAssumption == MaxTurns \in Nat

Turns == 1 .. MaxTurns
NoTurn == 0

VARIABLES
    turn,         \* rows of runs, with the key of the message they answer
    created,      \* number of runs
    events,       \* run_events, by type
    reply,        \* status of the run's agent message, or "none"
    booted,       \* reconcileInterruptedRuns has finished
    worker,       \* where the execution in #active stands, or "idle"
    fired,        \* its AbortController has fired
    coming,       \* the event about to be stored
    submitting,   \* the submission past its checks, or NoSubmission
    retryingBy,   \* per run: the retry of it past its checks, or NoSubmission
    cancelAsked,  \* cancel calls between their reading and the abort
    deserted,     \* history: runs this process gave up although a call that
                  \* was to start or to interrupt them had only thrown
    faults        \* counted for the bound

turnVars == <<turn, created, events, reply>>
workVars == <<worker, fired, coming>>
askVars == <<submitting, retryingBy, cancelAsked>>
legacyVars == <<turnVars, workVars, askVars, booted, deserted, faults>>

Final == {"completed", "stopped", "failed"}
Ending == Final \cup {"blank"}
EventType == Ending \cup {"text_delta", "excess"}
StatusAfter(type) == IF type = "blank" THEN "completed" ELSE type
NoRow == [status |-> "absent", message |-> NoSubmission, source |-> NoTurn, again |-> NoSubmission]
IdleWork == [t \in Turns |-> "idle"]

LegacyInit ==
    /\ turn = [t \in Turns |-> NoRow]
    /\ created = 0
    /\ events = [t \in Turns |-> <<>>]
    /\ reply = [t \in Turns |-> "none"]
    /\ booted = FALSE
    /\ worker = IdleWork
    /\ fired = {} /\ coming = [t \in Turns |-> "none"]
    /\ submitting = NoSubmission
    /\ retryingBy = [t \in Turns |-> NoSubmission]
    /\ cancelAsked = {} /\ deserted = {}
    /\ faults = 0

\* Mutant: any run there is.
Known(t) == turn[t].status # "absent"

\* The status check of appendEvent and of #execute's catch.
Unfinished(t) == turn[t].status \in {"queued", "running"}
Busy == \E t \in Turns : turn[t].status \in {"queued", "running"}
Following == created + 1

-----------------------------------------------------------------------------
(* Submitting and retrying                                                 *)

\* createSubmission under the conversation's advisory lock.  A key that has
\* made its message is answered with that message's first run.
Submitted(k) == \E t \in Turns : turn[t].message = k

\* A new message passes its checks: no run is active.
CheckSubmission(k) ==
    /\ booted /\ submitting = NoSubmission /\ ~Submitted(k) /\ ~Busy
    /\ submitting' = k
    /\ UNCHANGED <<turnVars, workVars, retryingBy, cancelAsked, booted, deserted, faults>>

\* The commit of a new run, and coordinator.start right after it; or a COMMIT
\* that takes effect and throws, so that nothing starts the run: the client's
\* repeat is a duplicate.
Enqueue(t, row) ==
    /\ turn' = [turn EXCEPT ![t] = row]
    /\ created' = t
    /\ \/ /\ worker' = [worker EXCEPT ![t] = "claim"]
          /\ UNCHANGED <<deserted, faults>>
       \/ /\ faults < MaxFaults /\ faults' = faults + 1
          /\ deserted' = deserted \cup {t}
          /\ UNCHANGED worker
    /\ UNCHANGED <<events, reply, fired, coming>>

CommitSubmission(t) ==
    /\ submitting # NoSubmission /\ t = Following
    /\ Enqueue(t, [status |-> "queued", message |-> submitting,
                   source |-> NoTurn, again |-> NoSubmission])
    /\ submitting' = NoSubmission
    /\ UNCHANGED <<retryingBy, cancelAsked, booted>>

\* createRetry under the run's advisory lock, which is not the submission's.
CheckRetryOf(t, key) ==
    /\ booted /\ retryingBy[t] = NoSubmission
    /\ ~\E u \in Turns : turn[u].source = t /\ turn[u].again = key
    /\ turn[t].status \in {"failed", "stopped"} /\ ~Busy
    /\ retryingBy' = [retryingBy EXCEPT ![t] = key]
    /\ UNCHANGED <<turnVars, workVars, submitting, cancelAsked, booted, deserted, faults>>

CommitRetryOf(t, u) ==
    /\ retryingBy[t] # NoSubmission /\ u = Following
    /\ Enqueue(u, [status |-> "queued", message |-> turn[t].message,
                   source |-> t, again |-> retryingBy[t]])
    /\ retryingBy' = [retryingBy EXCEPT ![t] = NoSubmission]
    /\ UNCHANGED <<submitting, cancelAsked, booted>>

-----------------------------------------------------------------------------
(* Executing                                                               *)

HasEventOf(t, types) == \E i \in 1 .. Len(events[t]) : events[t][i] \in types
HasText(t) == HasEventOf(t, {"text_delta", "excess"})

\* The CHECK on a message's length aborts the transaction: of a completed event
\* by its own text, of an interruption by all the text the run has stored.
Storable(t, type) ==
    /\ type # "refused"
    /\ type \in {"failed", "stopped"} => ~HasEventOf(t, {"excess"})

\* The text of the terminal message, if it is not blank.
LeavesReply(t, type) ==
    type = "completed" \/ (type \in {"failed", "stopped"} /\ HasText(t))

\* appendEvent's transaction: a terminal event ends the run, and leaves a
\* message in the conversation if there is any text.
StoreEvent(t, type) ==
    /\ events' = [events EXCEPT ![t] = Append(@, type)]
    /\ IF type \in Ending
         THEN /\ turn' = [turn EXCEPT ![t].status = StatusAfter(type)]
              /\ reply' = [reply EXCEPT ![t] =
                   IF LeavesReply(t, type) THEN StatusAfter(type) ELSE "none"]
         ELSE UNCHANGED <<turn, reply>>
    /\ UNCHANGED created

WorkerAt(t, pc) == worker[t] = pc
WorkerTo(t, pc) == worker' = [worker EXCEPT ![t] = pc]

\* The finally block: the execution and its controller leave #active.
Leaves(t) ==
    /\ WorkerTo(t, "idle")
    /\ fired' = fired \ {t}
    /\ coming' = [coming EXCEPT ![t] = "none"]
WorkFrame == UNCHANGED <<askVars, booted, deserted, faults>>

ClaimTurn(t) ==
    /\ WorkerAt(t, "claim")
    /\ IF turn[t].status = "queued"
         THEN /\ turn' = [turn EXCEPT ![t].status = "running"]
              /\ WorkerTo(t, "stream") /\ UNCHANGED <<fired, coming>>
         ELSE Leaves(t) /\ UNCHANGED turn
    /\ UNCHANGED <<created, events, reply>> /\ WorkFrame

\* The claim throws, before its update took effect or after it.
ClaimThrows(t) ==
    /\ WorkerAt(t, "claim") /\ faults < MaxFaults
    /\ faults' = faults + 1
    /\ turn' = turn \/ (/\ turn[t].status = "queued"
                       /\ turn' = [turn EXCEPT ![t].status = "running"])
    /\ WorkerTo(t, "catch")
    /\ UNCHANGED <<created, events, reply, fired, coming, askVars, booted, deserted>>

\* The adapter yields an event; a completion after an abort is a stop.
YieldEvent(t, type) ==
    /\ WorkerAt(t, "stream")
    /\ type \in {"text_delta", "excess"} => Len(events[t]) < MaxDeltas
    /\ coming' = [coming EXCEPT ![t] =
                    IF type \in {"completed", "blank", "refused"} /\ t \in fired
                      THEN "stopped" ELSE type]
    /\ WorkerTo(t, "store")
    /\ UNCHANGED <<turnVars, fired>> /\ WorkFrame

Interrupted(t) == IF t \in fired THEN "stopped" ELSE "failed"

\* The stream ends without a terminal event.
StreamRunsOut(t) ==
    /\ WorkerAt(t, "stream")
    /\ coming' = [coming EXCEPT ![t] = Interrupted(t)]
    /\ WorkerTo(t, "store")
    /\ UNCHANGED <<turnVars, fired>> /\ WorkFrame

\* The adapter throws, or yields what the contract or the sequence refuses.
StreamFails(t) ==
    /\ WorkerAt(t, "stream")
    /\ WorkerTo(t, "catch")
    /\ UNCHANGED <<turnVars, fired, coming>> /\ WorkFrame

StoreComing(t) ==
    /\ WorkerAt(t, "store")
    /\ IF Unfinished(t) /\ Storable(t, coming[t])
         THEN /\ StoreEvent(t, coming[t])
              /\ IF coming[t] \in Ending
                   THEN Leaves(t)
                   ELSE /\ WorkerTo(t, "stream")
                        /\ coming' = [coming EXCEPT ![t] = "none"] /\ UNCHANGED fired
         ELSE WorkerTo(t, "catch") /\ UNCHANGED <<turnVars, fired, coming>>
    /\ WorkFrame

\* The database call throws, before its commit took effect or after it.
StoreThrows(t) ==
    /\ WorkerAt(t, "store") /\ faults < MaxFaults
    /\ faults' = faults + 1
    /\ IF Unfinished(t) /\ Storable(t, coming[t])
         THEN StoreEvent(t, coming[t]) \/ UNCHANGED turnVars
         ELSE UNCHANGED turnVars
    /\ WorkerTo(t, "catch")
    /\ coming' = [coming EXCEPT ![t] = "none"]
    /\ UNCHANGED <<fired, askVars, booted, deserted>>

\* #execute's catch: only a run that is still active is interrupted.  When the
\* text it has stored is too long for a message the event is refused, and the
\* execution rejects with the run still active.
InterruptTurn(t) ==
    /\ WorkerAt(t, "catch")
    /\ IF Unfinished(t) /\ Storable(t, Interrupted(t))
         THEN StoreEvent(t, Interrupted(t)) ELSE UNCHANGED turnVars
    /\ Leaves(t) /\ WorkFrame

\* A call of the catch block throws: get, listEvents, or appendEvent before its
\* commit took effect or after it.  Nothing catches that.
CatchThrows(t) ==
    /\ WorkerAt(t, "catch") /\ faults < MaxFaults
    /\ faults' = faults + 1
    /\ \/ UNCHANGED turnVars
       \/ /\ Unfinished(t) /\ Storable(t, Interrupted(t))
          /\ StoreEvent(t, Interrupted(t))
    /\ deserted' = deserted \cup {t}
    /\ Leaves(t) /\ UNCHANGED <<askVars, booted>>

\* cancel: the execution is looked up and the run read; the abort follows the
\* registry's cancel, whatever has happened to the run meanwhile.
AskCancel(t) ==
    /\ booted /\ worker[t] # "idle" /\ t \notin cancelAsked
    /\ cancelAsked' = cancelAsked \cup {t}
    /\ UNCHANGED <<turnVars, workVars, submitting, retryingBy, booted, deserted, faults>>

FireAbort(t) ==
    /\ t \in cancelAsked
    /\ cancelAsked' = cancelAsked \ {t}
    /\ fired' = IF worker[t] # "idle" THEN fired \cup {t} ELSE fired
    /\ UNCHANGED <<turnVars, worker, coming, submitting, retryingBy, booted, deserted,
                   faults>>

-----------------------------------------------------------------------------
(* The process                                                             *)

\* Transactions under way are rolled back.  Nothing waits for the executions.
ProcessStops ==
    /\ faults < MaxFaults
    /\ faults' = faults + 1
    /\ booted' = FALSE
    /\ worker' = IdleWork
    /\ fired' = {} /\ coming' = [t \in Turns |-> "none"]
    /\ submitting' = NoSubmission
    /\ retryingBy' = [t \in Turns |-> NoSubmission]
    /\ cancelAsked' = {} /\ deserted' = {}
    /\ UNCHANGED turnVars

\* Mutant: only runs that had begun.
LeftRunning == {t \in Turns : turn[t].status = "running"}
LeftActive == {t \in Turns : turn[t].status \in {"queued", "running"}}

\* failInterruptedRuns, one transaction for each run, the oldest first, before
\* any request.  It throws at a run whose text is too long for a message, and
\* the server does not come up.
FailLeftActive(t) ==
    /\ ~booted /\ t \in LeftActive /\ \A u \in LeftActive : t <= u
    /\ Storable(t, "failed") /\ StoreEvent(t, "failed")
    /\ UNCHANGED <<workVars, askVars, booted, deserted, faults>>

Booted ==
    /\ ~booted /\ LeftActive = {}
    /\ booted' = TRUE
    /\ UNCHANGED <<turnVars, workVars, askVars, deserted, faults>>

LegacyNext ==
    \/ \E k \in SubmitKeys : CheckSubmission(k)
    \/ \E t \in Turns :
          \/ CommitSubmission(t) \/ ClaimTurn(t) \/ ClaimThrows(t)
          \/ StreamRunsOut(t) \/ StreamFails(t) \/ StoreComing(t) \/ StoreThrows(t)
          \/ InterruptTurn(t) \/ CatchThrows(t) \/ AskCancel(t) \/ FireAbort(t)
          \/ FailLeftActive(t)
          \/ \E key \in AgainKeys : CheckRetryOf(t, key)
          \/ \E u \in Turns : CommitRetryOf(t, u)
          \/ \E type \in EventType \cup {"refused"} : YieldEvent(t, type)
    \/ ProcessStops \/ Booted

LegacySpec == LegacyInit /\ [][LegacyNext]_legacyVars

-----------------------------------------------------------------------------
TurnRow ==
    [status : Final \cup {"absent", "queued", "running"},
     message : SubmitKeys \cup {NoSubmission}, source : Turns \cup {NoTurn},
     again : AgainKeys \cup {NoSubmission}]

\* Every variable keeps its type.
LegacyTypeOK ==
    /\ turn \in [Turns -> TurnRow] /\ created \in 0 .. MaxTurns
    /\ events \in [Turns -> Seq(EventType)]
    /\ reply \in [Turns -> Final \cup {"none"}]
    /\ booted \in BOOLEAN
    /\ worker \in [Turns -> {"idle", "claim", "stream", "store", "catch"}]
    /\ fired \subseteq Turns /\ coming \in [Turns -> EventType \cup {"refused", "none"}]
    /\ submitting \in SubmitKeys \cup {NoSubmission}
    /\ retryingBy \in [Turns -> AgainKeys \cup {NoSubmission}]
    /\ cancelAsked \subseteq Turns /\ deserted \subseteq Turns
    /\ faults \in Nat

\* While the server takes requests, a run that is queued or running is being
\* executed by it, over crashes, cancellations, failed calls inside try and the
\* repair at boot, with three exceptions that keep the conversation busy: the
\* commit that made the run threw in this process, a call of its catch block
\* did, or it has stored more text than a message may hold (start,
\* failInterruptedRuns, #execute's catch).
ActiveTurnsHaveWorker ==
    booted => \A t \in Turns :
        turn[t].status \in {"queued", "running"} =>
            worker[t] # "idle" \/ t \in deserted \/ HasEventOf(t, {"excess"})

EndsOf(t) == {i \in 1 .. Len(events[t]) : events[t][i] \in Ending}

\* A run's status, its events and its message tell one story: it has ended
\* exactly if its last event, and no earlier one, is terminal, and then the
\* conversation holds a message of that status if there was any text to
\* publish (the answer's own when it completed, what was streamed when it did
\* not), although a call may throw after its commit took effect and another
\* event then be stored in the catch block (appendEvent).
TurnTellsOneStory ==
    \A t \in Turns :
        /\ Cardinality(EndsOf(t)) <= 1
        /\ turn[t].status \in Final =>
              /\ EndsOf(t) = {Len(events[t])}
              /\ LET last == events[t][Len(events[t])] IN
                   /\ StatusAfter(last) = turn[t].status
                   /\ reply[t] = IF last = "completed" \/ (last # "blank" /\ HasText(t))
                                   THEN turn[t].status ELSE "none"
        /\ ~(turn[t].status \in Final) => EndsOf(t) = {} /\ reply[t] = "none"

-----------------------------------------------------------------------------
(* The single-conversation runs are runs of the board, without delegations. *)

LegacyBoard == INSTANCE RunBoard WITH
    Runs <- Turns,
    work <- [t \in Turns |-> IF turn[t].status \in {"queued", "running"} THEN "active"
                             ELSE IF turn[t].status = "absent" THEN "none"
                             ELSE turn[t].status],
    delegated <- [t \in Turns |-> "none"],
    answer <- reply

\* A run is created, finishes once, and its message appears in the step it
\* finishes: neither a call that throws after its commit, nor a late
\* cancellation, nor the repair at boot shows anything else.
LegacyImplementsBoard == LegacyBoard!BoardSpec

-----------------------------------------------------------------------------
\* What the documents say: a conversation has one active run at most.
OneActiveTurn ==
    Cardinality({t \in Turns : turn[t].status \in {"queued", "running"}}) <= 1
=============================================================================
