------------------------- MODULE CollaborationRuns -------------------------
(***************************************************************************)
(* The collaboration run coordinator over the run store: one execution per *)
(* started run, each await a step of its own; the requests that act on     *)
(* runs (submit, intervene and stop, retry, retract, membership); and the  *)
(* process that may stop, crash and reconcile its runs when it boots.      *)
(***************************************************************************)
EXTENDS RunStore

CONSTANTS
  MaxProgress,   \* non-terminal events stored per run
  MaxRestarts,   \* crashes and shutdowns
  MaxFaults,     \* database calls of an execution that reject
  Addressed,     \* Agents that messages are routed to
  Movable,       \* Agents whose membership the room owner changes
  Retractable,   \* messages whose sender retracts them
  NoEvent

ASSUME BoundAssumption ==
  /\ MaxProgress \in Nat /\ MaxRestarts \in Nat /\ MaxFaults \in Nat
  /\ Movable \subseteq Agents /\ Retractable \subseteq Messages
  /\ NoEvent \notin Event

VARIABLES
  phase,         \* "boot", "up" or "stopping": the server process
  pc,            \* where each execution stands; "idle": not in #active
  aborted,       \* the execution's AbortController has fired
  persisted,     \* the execution's persistedSequence
  pending,       \* the event the execution is about to store or act on
  submit,        \* where submitMessage stands for each message
  targets,       \* the Agents the router chose for the message
  retracting,    \* retractions past their check, not yet committed
  removing,      \* the Agent a removal that has checked its runs is about
  cancelling,    \* where interveneAndStop stands for each run
  intervened,    \* runs an intervention message was stored for
  retrying,      \* key of the createRetry that holds the run's row lock
  restarts, faults

requestVars == <<submit, targets, retracting, removing, cancelling, retrying>>
execVars    == <<pc, aborted, persisted, pending>>
memoryVars  == <<execVars, requestVars>>
countVars   == <<restarts, faults>>
vars == <<storeVars, phase, memoryVars, intervened, countVars>>

Up == phase # "boot"

-----------------------------------------------------------------------------

\* start: a run already in #active is left alone.
Start(S) ==
  /\ pc' = [r \in Runs |-> IF r \in S /\ pc[r] = "idle" THEN "claim" ELSE pc[r]]
  /\ UNCHANGED <<aborted, persisted, pending>>

\* The process starts the runs a commit returned.  When it does not hear of a
\* commit that took effect, the runs are there and nobody starts them.
StartCommitted(S) ==
  \/ Start(S) /\ UNCHANGED faults
  \/ faults < MaxFaults /\ faults' = faults + 1 /\ UNCHANGED execVars

Goto(r, next) == pc' = [pc EXCEPT ![r] = next]

\* The execution's finally block drops it, with its controller, from #active.
Finish(r) ==
  /\ Goto(r, "idle")
  /\ aborted' = [aborted EXCEPT ![r] = FALSE]
  /\ persisted' = [persisted EXCEPT ![r] = 0]
  /\ pending' = [pending EXCEPT ![r] = NoEvent]

Interruption(r) == IF aborted[r] THEN Stopped ELSE Failed

Init ==
  /\ StoreInit
  /\ phase = "boot"
  /\ pc = [r \in Runs |-> "idle"]
  /\ aborted = [r \in Runs |-> FALSE]
  /\ persisted = [r \in Runs |-> 0]
  /\ pending = [r \in Runs |-> NoEvent]
  /\ submit = [m \in Messages |-> "idle"]
  /\ targets = [m \in Messages |-> {}]
  /\ retracting = {} /\ removing = {}
  /\ cancelling = [r \in Runs |-> "idle"]
  /\ intervened = {}
  /\ retrying = [r \in Runs |-> NoKey]
  /\ restarts = 0 /\ faults = 0

-----------------------------------------------------------------------------
(* One execution: #execute, await by await.                                *)

ExecFrame == UNCHANGED <<phase, requestVars, intervened, countVars>>

Claim(r) ==
  /\ pc[r] = "claim"
  /\ IF status[r] = "queued"
     THEN /\ status' = [status EXCEPT ![r] = "running"]
          /\ Goto(r, "context")
          /\ UNCHANGED <<aborted, persisted, pending>>
     ELSE Finish(r) /\ UNCHANGED status
  /\ UNCHANGED <<member, posted, retracted, row, log, output, delegation,
                 artifacts>>
  /\ ExecFrame

\* getExecutionContext finds no row once the trigger message is retracted.
LoadContext(r) ==
  /\ pc[r] = "context"
  /\ Goto(r, IF row[r].trigger \in retracted THEN "catch" ELSE "events")
  /\ UNCHANGED <<storeVars, aborted, persisted, pending>> /\ ExecFrame

\* Mutant: persistedSequence is not read back, so it stays at its initial 0.
ListNoEvents(r) ==
  /\ pc[r] = "events"
  /\ Goto(r, "adapter")
  /\ UNCHANGED <<storeVars, aborted, persisted, pending>> /\ ExecFrame

\* listEvents: a requeued run continues after what it had already stored.  An
\* Agent that cannot read the trigger's attachments fails before it runs.
ListEvents(r) ==
  /\ pc[r] = "events"
  /\ persisted' = [persisted EXCEPT ![r] = Len(log[r])]
  /\ IF row[r].trigger \in WithFiles /\ row[r].agent \notin Readers
     THEN Goto(r, "append") /\ pending' = [pending EXCEPT ![r] = Failed]
     ELSE Goto(r, "adapter") /\ UNCHANGED pending
  /\ UNCHANGED <<storeVars, aborted>> /\ ExecFrame

Supported(r, e) ==
  /\ e.type = "delegation" => row[r].agent \in Delegators
  /\ e.type = "artifact" => row[r].agent \in Producers

\* Bound: the supply of run identifiers covers every delegation under way.
Delegating == {q \in Runs : pending[q] # NoEvent /\ pending[q].type = "delegation"
                             /\ pc[q] \in {"append", "delegate"}}
WithinBounds(r, e) ==
  /\ e.type \notin Terminal => Len(log[r]) < MaxProgress
  /\ e.type = "delegation" =>
       \/ Derived("delegation", r, e.key) # {}
       \/ Cardinality(Delegating) < Cardinality(Absent)

\* Mutant: a completion is stored as it came, aborted or not.
YieldUnchecked(r) ==
  /\ pc[r] = "adapter"
  /\ \E e \in Event :
       /\ WithinBounds(r, e) /\ Supported(r, e)
       /\ Goto(r, "append") /\ pending' = [pending EXCEPT ![r] = e]
  /\ UNCHANGED <<storeVars, aborted, persisted>> /\ ExecFrame

\* The adapter yields an event.  A completion that arrives after an abort is
\* stored as stopped; an event outside the capabilities throws.
Yield(r) ==
  /\ pc[r] = "adapter"
  /\ \E e \in Event :
       /\ WithinBounds(r, e)
       /\ IF Supported(r, e)
          THEN /\ Goto(r, "append")
               /\ pending' = [pending EXCEPT ![r] =
                    IF aborted[r] /\ e.type = "completed" THEN Stopped ELSE e]
          ELSE Goto(r, "catch") /\ UNCHANGED pending
  /\ UNCHANGED <<storeVars, aborted, persisted>> /\ ExecFrame

\* Mutant: the end of the stream is taken for the end of the run.
StreamJustEnds(r) ==
  /\ pc[r] = "adapter"
  /\ Finish(r)
  /\ UNCHANGED storeVars /\ ExecFrame

\* The adapter's stream ends without a terminal event.
StreamEnds(r) ==
  /\ pc[r] = "adapter"
  /\ Goto(r, "append")
  /\ pending' = [pending EXCEPT ![r] = Interruption(r)]
  /\ UNCHANGED <<storeVars, aborted, persisted>> /\ ExecFrame

\* The adapter throws, or breaks the event contract.
StreamThrows(r) ==
  /\ pc[r] = "adapter"
  /\ Goto(r, "catch")
  /\ UNCHANGED <<storeVars, aborted, persisted, pending>> /\ ExecFrame

AfterAppend(e) ==
  CASE e.type = "delegation" -> "delegate"
    [] e.type = "artifact"   -> "artifact"
    [] e.type \in Terminal   -> "settle"
    [] OTHER                 -> "adapter"

Store(r) ==
  /\ pc[r] = "append"
  /\ LET e == pending[r] IN
     IF Appendable(r, persisted[r] + 1) /\ Storable(r, e)
     THEN /\ AppendEvent(r, e)
          /\ persisted' = [persisted EXCEPT ![r] = @ + 1]
          /\ Goto(r, AfterAppend(e))
          /\ pending' = IF AfterAppend(e) \in {"delegate", "artifact"}
                        THEN pending ELSE [pending EXCEPT ![r] = NoEvent]
     ELSE /\ Goto(r, "catch")
          /\ pending' = [pending EXCEPT ![r] = NoEvent]
          /\ UNCHANGED <<storeVars, persisted>>
  /\ UNCHANGED aborted /\ ExecFrame

\* createDelegatedRun commits the queued child, or finds the earlier one.
CreateDelegatedRun(r) ==
  /\ pc[r] = "delegate"
  /\ LET e == pending[r] IN
     IF Derived("delegation", r, e.key) # {}
     THEN Goto(r, "repeat") /\ UNCHANGED <<row, status>>
     ELSE /\ \E c \in Absent : InsertDerived(c, "delegation", r, e.delegate, e.key)
          /\ Goto(r, "record")
  /\ UNCHANGED <<member, posted, retracted, log, output, delegation, artifacts,
                 aborted, persisted, pending>>
  /\ ExecFrame

\* delegations.create wants both Agents, two different ones, in the room.
BothMembers(r, c) ==
  /\ row[r].agent # row[c].agent
  /\ {row[r].agent, row[c].agent} \subseteq member

\* A delegation stored for the child starts it.  When it is refused the
\* execution goes on at refused, and nobody runs the queued child.
RecordOrElse(r, refused) ==
  /\ pc[r] = "record"
  /\ \E c \in Derived("delegation", r, pending[r].key) :
       IF BothMembers(r, c)
       THEN /\ delegation' = [delegation EXCEPT ![c] = "running"]
            /\ pc' = [pc EXCEPT ![r] = "adapter",
                                ![c] = IF @ = "idle" THEN "claim" ELSE @]
       ELSE Goto(r, refused) /\ UNCHANGED delegation
  /\ pending' = [pending EXCEPT ![r] = NoEvent]
  /\ UNCHANGED <<member, posted, retracted, row, status, log, output, artifacts,
                 aborted, persisted>>
  /\ ExecFrame

\* Mutant: a refused delegation does not stop the parent.
RecordOrIgnore(r) == RecordOrElse(r, "adapter")

RecordDelegation(r) == RecordOrElse(r, "catch")

\* Mutant: the insert overwrites the delegation it conflicts with.
RepeatOverwrites(r) ==
  /\ pc[r] = "repeat"
  /\ Goto(r, "adapter")
  /\ \E c \in Derived("delegation", r, pending[r].key) :
       delegation' = [delegation EXCEPT ![c] = "running"]
  /\ pending' = [pending EXCEPT ![r] = NoEvent]
  /\ UNCHANGED <<member, posted, retracted, row, status, log, output, artifacts,
                 aborted, persisted>>
  /\ ExecFrame

\* The same key again: the delegation is there, or it is created now; the
\* child is not started a second time.
RepeatDelegation(r) ==
  /\ pc[r] = "repeat"
  /\ \E c \in Derived("delegation", r, pending[r].key) :
       CASE delegation[c] # "none" ->
              Goto(r, "adapter") /\ UNCHANGED delegation
         [] delegation[c] = "none" /\ row[c].agent = pending[r].delegate
              /\ BothMembers(r, c) ->
              /\ Goto(r, "adapter")
              /\ delegation' = [delegation EXCEPT ![c] = "running"]
         [] OTHER -> Goto(r, "catch") /\ UNCHANGED delegation
  /\ pending' = [pending EXCEPT ![r] = NoEvent]
  /\ UNCHANGED <<member, posted, retracted, row, status, log, output, artifacts,
                 aborted, persisted>>
  /\ ExecFrame

CreateArtifact(r) ==
  /\ pc[r] = "artifact"
  /\ IF pending[r].key \in artifacts[r] \/ row[r].agent \in member
     THEN /\ artifacts' = [artifacts EXCEPT ![r] = @ \cup {pending[r].key}]
          /\ Goto(r, "adapter")
     ELSE Goto(r, "catch") /\ UNCHANGED artifacts
  /\ pending' = [pending EXCEPT ![r] = NoEvent]
  /\ UNCHANGED <<member, posted, retracted, row, status, log, output, delegation,
                 aborted, persisted>>
  /\ ExecFrame

Settle(r) ==
  /\ pc[r] = "settle"
  /\ SettleByChildRun(r)
  /\ Finish(r) /\ ExecFrame

\* The catch block: a run still active gets the interruption event.
Catch(r) ==
  /\ pc[r] = "catch"
  /\ IF status[r] \in Active
     THEN /\ Goto(r, "interrupt")
          /\ persisted' = [persisted EXCEPT ![r] = Len(log[r])]
          /\ pending' = [pending EXCEPT ![r] = Interruption(r)]
          /\ UNCHANGED aborted
     ELSE Finish(r)
  /\ UNCHANGED storeVars /\ ExecFrame

\* When the run's text is too long the event is refused, and the execution
\* rejects with the run still active.
Interrupt(r) ==
  /\ pc[r] = "interrupt"
  /\ IF Appendable(r, persisted[r] + 1) /\ Storable(r, pending[r])
     THEN /\ AppendEvent(r, pending[r])
          /\ Goto(r, "settle")
          /\ pending' = [pending EXCEPT ![r] = NoEvent]
          /\ UNCHANGED <<aborted, persisted>>
     ELSE Finish(r) /\ UNCHANGED storeVars
  /\ ExecFrame

\* The delegation is stored and its answer lost: the child is not started.
RecordUnheard(r) ==
  /\ pc[r] = "record"
  /\ \E c \in Derived("delegation", r, pending[r].key) :
       /\ BothMembers(r, c)
       /\ delegation' = [delegation EXCEPT ![c] = "running"]
  /\ UNCHANGED <<member, posted, retracted, row, status, log, output, artifacts>>

\* A database call of the execution rejects: inside try it is caught, inside
\* the catch block it ends the execution.  A commit that takes effect and then
\* rejects is the step that stores it and a fault, or a throw, after it; only a
\* delegation's does more when it succeeds.
Fault(r) ==
  /\ faults < MaxFaults
  /\ pc[r] \notin {"idle", "adapter"}
  /\ faults' = faults + 1
  /\ IF pc[r] \in {"catch", "interrupt"}
     THEN Finish(r)
     ELSE /\ Goto(r, "catch")
          /\ pending' = [pending EXCEPT ![r] = NoEvent]
          /\ UNCHANGED <<aborted, persisted>>
  /\ UNCHANGED storeVars \/ RecordUnheard(r)
  /\ UNCHANGED <<phase, requestVars, intervened, restarts>>

Execute(r) ==
  \/ Claim(r) \/ LoadContext(r) \/ ListEvents(r)
  \/ Yield(r) \/ StreamEnds(r) \/ StreamThrows(r)
  \/ Store(r) \/ CreateDelegatedRun(r) \/ RecordDelegation(r)
  \/ RepeatDelegation(r) \/ CreateArtifact(r)
  \/ Settle(r) \/ Catch(r) \/ Interrupt(r)

-----------------------------------------------------------------------------
(* Requests.  A request runs while the process is up; its awaits interleave *)
(* with every execution and with every other request.                      *)

\* submitMessage: createMessage commits the message.
Submit(m) ==
  /\ Up /\ m \notin posted
  /\ posted' = posted \cup {m}
  /\ submit' = [submit EXCEPT ![m] = "route"]
  /\ UNCHANGED <<member, retracted, row, status, log, output, delegation,
                 artifacts, phase, removing, execVars, targets, retracting, cancelling,
                 intervened, retrying, countVars>>

\* The router chooses among the current members, and createForMessage's
\* transaction reads that the message is not retracted.
Route(m) ==
  /\ submit[m] = "route"
  /\ \/ /\ m \notin retracted
        /\ \E A \in SUBSET (member \cap Addressed) : targets' = [targets EXCEPT ![m] = A]
        /\ submit' = [submit EXCEPT ![m] = "insert"]
     \/ /\ submit' = [submit EXCEPT ![m] = "idle"]   \* the router throws, or
        /\ UNCHANGED targets                         \* the message is gone
  /\ UNCHANGED <<storeVars, phase, removing, execVars, retracting, cancelling, intervened,
                 retrying, countVars>>

\* ... then inserts one queued run per target, commits, and starts them.
CreateForMessage(m) ==
  /\ submit[m] = "insert"
  /\ \E new \in [targets[m] -> Absent] :
       /\ \A a, b \in targets[m] : new[a] = new[b] => a = b
       /\ LET made == {new[a] : a \in targets[m]} IN
          /\ status' = [r \in Runs |-> IF r \in made THEN "queued" ELSE status[r]]
          /\ row' = [r \in Runs |->
               IF r \in made
               THEN [agent |-> CHOOSE a \in targets[m] : new[a] = r, trigger |-> m,
                     kind |-> "message", source |-> NoRun, key |-> NoKey]
               ELSE row[r]]
          /\ StartCommitted(made)
  /\ submit' = [submit EXCEPT ![m] = "idle"]
  /\ targets' = [targets EXCEPT ![m] = {}]
  /\ UNCHANGED <<member, posted, retracted, log, output, delegation, artifacts,
                 phase, removing, retracting, cancelling, intervened, retrying,
                 restarts>>

\* retractMessage: one statement reads has_active_run and then waits for the
\* row lock, which an insert of a run for the same message may be holding ...
CheckRetract(m) ==
  /\ Up /\ m \in (Retractable \cap posted) \ (retracted \cup retracting)
  /\ ~HasActiveWork(m)
  /\ retracting' = retracting \cup {m}
  /\ UNCHANGED <<storeVars, phase, removing, execVars, submit, targets, cancelling,
                 intervened, retrying, countVars>>

\* ... and the transaction commits on what it read.
Retract(m) ==
  /\ m \in retracting
  /\ retracted' = retracted \cup {m}
  /\ retracting' = retracting \ {m}
  /\ UNCHANGED <<member, posted, row, status, log, output, delegation, artifacts,
                 phase, removing, execVars, submit, targets, cancelling, intervened,
                 retrying, countVars>>

\* interveneAndStop reads the run; an Agent without cancellation and a
\* terminal run are refused.
ReadForCancel(r) ==
  /\ Up /\ cancelling[r] = "idle"
  /\ status[r] \in Active /\ row[r].agent \in Cancellable
  /\ cancelling' = [cancelling EXCEPT ![r] = "abort"]
  /\ UNCHANGED <<storeVars, phase, removing, execVars, submit, targets, retracting,
                 intervened, retrying, countVars>>

\* With the answer in hand, cancel aborts the execution this process has, or
\* throws because it has none.
Abort(r) ==
  /\ cancelling[r] = "abort"
  /\ IF pc[r] # "idle"
     THEN /\ aborted' = [aborted EXCEPT ![r] = TRUE]
          /\ cancelling' = [cancelling EXCEPT ![r] = "intervene"]
     ELSE /\ cancelling' = [cancelling EXCEPT ![r] = "idle"]
          /\ UNCHANGED aborted
  /\ UNCHANGED <<storeVars, phase, removing, pc, persisted, pending, submit, targets,
                 retracting, intervened, retrying, countVars>>

\* createMessage stores the intervention, which mentions the run's Agent.
Intervene(r) ==
  /\ cancelling[r] = "intervene"
  /\ cancelling' = [cancelling EXCEPT ![r] = "idle"]
  /\ intervened' = IF row[r].agent \in member
                   THEN intervened \cup {r} ELSE intervened
  /\ UNCHANGED <<storeVars, phase, removing, execVars, submit, targets, retracting,
                 retrying, countVars>>

\* createRetry locks the source row and makes its checks ...
LockForRetry(r, k) ==
  /\ Up /\ retrying[r] = NoKey
  /\ Derived("retry", r, k) = {}
  /\ status[r] \in {"failed", "stopped"}
  /\ row[r].trigger \notin retracted
  /\ retrying' = [retrying EXCEPT ![r] = k]
  /\ UNCHANGED <<storeVars, phase, removing, execVars, submit, targets, retracting,
                 cancelling, intervened, countVars>>

\* Mutant: the look for an active run of the Agent is left out.
CheckRetryKeyOnly(r, k) == LockForRetry(r, k)

CheckRetry(r, k) == LockForRetry(r, k) /\ ~HasActiveRun(row[r].agent)

\* ... then inserts the new run, commits, and the service starts it.
CreateRetry(r) ==
  /\ retrying[r] # NoKey
  /\ \E c \in Absent :
       /\ InsertDerived(c, "retry", r, row[r].agent, retrying[r])
       /\ StartCommitted({c})
  /\ retrying' = [retrying EXCEPT ![r] = NoKey]
  /\ UNCHANGED <<member, posted, retracted, log, output, delegation, artifacts,
                 phase, removing, submit, targets, retracting, cancelling, intervened,
                 restarts>>

\* removeMember: the transaction sees no active run of the Agent ...
CheckRemove(a) ==
  /\ Up /\ removing = {}
  /\ a \in member /\ ~HasActiveRun(a)
  /\ removing' = {a}
  /\ UNCHANGED <<storeVars, phase, execVars, submit, targets, retracting, cancelling,
                 retrying, intervened, countVars>>

\* ... and commits the removal.
RemoveMember(a) ==
  /\ a \in removing
  /\ removing' = {}
  /\ member' = member \ {a}
  /\ UNCHANGED <<posted, retracted, row, status, log, output, delegation,
                 artifacts, phase, execVars, submit, targets, retracting, cancelling,
                 retrying, intervened, countVars>>

\* addMemberByOwner waits for a removal in the same room.
AddMember(a) ==
  /\ Up /\ removing = {}
  /\ a \in Agents \ member
  /\ member' = member \cup {a}
  /\ UNCHANGED <<posted, retracted, row, status, log, output, delegation,
                 artifacts, phase, memoryVars, intervened, countVars>>

-----------------------------------------------------------------------------
(* The process.                                                            *)

LoseMemory ==
  /\ pc' = [r \in Runs |-> "idle"]
  /\ aborted' = [r \in Runs |-> FALSE]
  /\ persisted' = [r \in Runs |-> 0]
  /\ pending' = [r \in Runs |-> NoEvent]
  /\ submit' = [m \in Messages |-> "idle"]
  /\ targets' = [m \in Messages |-> {}]
  /\ retracting' = {} /\ removing' = {}
  /\ cancelling' = [r \in Runs |-> "idle"]
  /\ retrying' = [r \in Runs |-> NoKey]

\* The process dies: memory and uncommitted transactions are gone.
Crash ==
  /\ restarts < MaxRestarts
  /\ restarts' = restarts + 1
  /\ phase' = "boot"
  /\ LoseMemory
  /\ UNCHANGED <<storeVars, intervened, faults>>

\* shutdown aborts the executions of the moment and waits for them alone.
Shutdown ==
  /\ phase = "up" /\ restarts < MaxRestarts
  /\ restarts' = restarts + 1
  /\ phase' = "stopping"
  /\ aborted' = [r \in Runs |-> pc[r] # "idle"]
  /\ UNCHANGED <<storeVars, pc, persisted, pending, requestVars, intervened, faults>>

Exit ==
  /\ phase = "stopping" /\ \A r \in Runs : ~aborted[r]
  /\ phase' = "boot"
  /\ LoseMemory
  /\ UNCHANGED <<storeVars, intervened, countVars>>

\* Mutant: the run is not asked whether it is still active.
FailAnyRun(r) ==
  /\ phase = "boot" /\ Exists(r) /\ row[r].agent \notin Gateway
  /\ AppendEvent(r, Failed)
  /\ UNCHANGED <<phase, memoryVars, intervened, countVars>>

\* failInterruptedRuns: one transaction for each interrupted run that is not
\* the gateway's.  It throws at a run whose text is too long, and the server
\* does not come up.
FailInterrupted(r) ==
  /\ phase = "boot"
  /\ status[r] \in Active /\ row[r].agent \notin Gateway
  /\ Storable(r, Failed)
  /\ AppendEvent(r, Failed)
  /\ UNCHANGED <<phase, memoryVars, intervened, countVars>>

\* requeueInterruptedRuns returns runs to the queue once the others have been
\* failed, and the runtime starts them.
RequeueAndStart(interrupted, started) ==
  /\ phase = "boot"
  /\ \A r \in Runs : status[r] \in Active => row[r].agent \in Gateway
  /\ status' = [r \in Runs |-> IF r \in interrupted THEN "queued" ELSE status[r]]
  /\ Start(started)
  /\ phase' = "up"
  /\ UNCHANGED <<member, posted, retracted, row, log, output, delegation,
                 artifacts, requestVars, intervened, countVars>>

ActiveRuns == {r \in Runs : status[r] \in Active}

\* Mutants: the gateway's finished runs are requeued too; the requeued runs are
\* not started.
RequeueFinished ==
  LET all == {r \in Runs : Exists(r) /\ row[r].agent \in Gateway}
  IN RequeueAndStart(all, all)
RequeueOnly == RequeueAndStart(ActiveRuns, {})

Requeue == RequeueAndStart(ActiveRuns, ActiveRuns)

Boot == Requeue \/ \E r \in Runs : FailInterrupted(r)

Next ==
  \/ \E r \in Runs : Execute(r) \/ Fault(r)
  \/ \E m \in Messages :
       Submit(m) \/ Route(m) \/ CreateForMessage(m) \/ CheckRetract(m) \/ Retract(m)
  \/ \E r \in Runs : ReadForCancel(r) \/ Abort(r) \/ Intervene(r)
  \/ \E r \in Runs : CreateRetry(r) \/ \E k \in RetryKeys : CheckRetry(r, k)
  \/ \E a \in Movable : CheckRemove(a) \/ RemoveMember(a) \/ AddMember(a)
  \/ Crash \/ Shutdown \/ Exit \/ Boot

Spec == Init /\ [][Next]_vars

\* Every await of an execution returns, every adapter goes on to its next
\* event (each has a deadline), and the process boots.
Fairness ==
  /\ \A r \in Runs : WF_vars(Execute(r))
  /\ WF_vars(Boot)
  /\ WF_vars(Exit)

FairSpec == Spec /\ Fairness

-----------------------------------------------------------------------------
(* Properties.                                                             *)

Places == {"idle", "claim", "context", "events", "adapter", "append", "delegate",
           "record", "repeat", "artifact", "settle", "catch", "interrupt"}

MemoryTypeOK ==
  /\ phase \in {"boot", "up", "stopping"}
  /\ pc \in [Runs -> Places]
  /\ aborted \in [Runs -> BOOLEAN]
  /\ persisted \in [Runs -> Nat]
  /\ pending \in [Runs -> Event \cup {NoEvent}]
  /\ submit \in [Messages -> {"idle", "route", "insert"}]
  /\ targets \in [Messages -> SUBSET Agents]
  /\ retracting \subseteq Messages /\ removing \subseteq Agents
  /\ cancelling \in [Runs -> {"idle", "abort", "intervene"}]
  /\ intervened \subseteq Runs
  /\ retrying \in [Runs -> RetryKeys \cup {NoKey}]
  /\ restarts \in Nat /\ faults \in Nat

\* Every variable has its type, and every stored run has its row.
TypeOK == StoreTypeOK /\ MemoryTypeOK

\* A run is terminal exactly when its log ends in a terminal event, of the
\* type the status says; no log goes on after one, whatever interruptions,
\* requeues and late events the run has been through (appendEvent,
\* failInterruptedRuns, requeueInterruptedRuns).
LogMatchesStatus ==
  \A r \in Runs :
    /\ status[r] \in Terminal =>
         log[r] # <<>> /\ log[r][Len(log[r])].type = status[r]
    /\ \A i \in 1 .. Len(log[r]) :
         log[r][i].type \in Terminal => i = Len(log[r]) /\ status[r] = log[r][i].type

\* A delegation is settled exactly when its child run is, with the same
\* outcome, at every commit: no single look at the tables finds a finished
\* child under a running delegation.
DelegationFollowsChild ==
  \A r \in Runs :
    delegation[r] # "none" =>
      /\ row[r].kind = "delegation"
      /\ status[r] \in Terminal \/ delegation[r] \in Terminal
           => delegation[r] = status[r]

\* The sequence an execution counts in memory is the one the log has: also
\* after a restart in the middle of a run, and with every other writer of the
\* log around (listEvents, persistedSequence).
SequenceInStep ==
  \A r \in Runs :
    /\ pc[r] \in {"adapter", "append", "delegate", "record", "repeat", "artifact",
                  "interrupt"} => persisted[r] = Len(log[r])
    /\ pc[r] \in {"adapter", "append"} => status[r] = "running"

\* A delegation or an artifact always has the event that asked for it in the
\* log of the run that asked; and a run that completed has the effects of all
\* the events it logged (the create that fails makes the run fail).
EffectsMatchLog ==
  \A r \in Runs :
    /\ \A k \in artifacts[r] :
         \E i \in 1 .. Len(log[r]) : log[r][i].type = "artifact" /\ log[r][i].key = k
    /\ Exists(r) /\ row[r].kind = "delegation" =>
         HasEvent(row[r].source, "delegation")
    /\ status[r] = "completed" =>
         \A i \in 1 .. Len(log[r]) :
           /\ log[r][i].type = "artifact" => log[r][i].key \in artifacts[r]
           /\ log[r][i].type = "delegation" =>
                \E c \in Derived("delegation", r, log[r][i].key) :
                  delegation[c] # "none"

\* However many clients retry one run at the same time, and whatever their
\* keys, at most one of the retries is active (createRetry's row lock).
OneActiveRetry ==
  \A a, b \in Runs :
    /\ status[a] \in Active /\ row[a].kind = "retry"
    /\ status[b] \in Active /\ row[b].kind = "retry"
    /\ row[a].source = row[b].source
    => a = b

\* While no database call rejects, a run that is active in the database and
\* not in the process is one that streamed too long a text, or a child whose
\* delegation was never stored: then the parent has ended without completing,
\* is about to, or cannot for its own text.
OnlyUnrecordedChildrenAreStranded ==
  \A r \in Runs :
    Up /\ status[r] \in Active /\ pc[r] = "idle" /\ faults = 0 /\ ~Overlong(r) =>
      /\ row[r].kind = "delegation" /\ delegation[r] = "none"
      /\ \/ pc[row[r].source] \in {"record", "catch", "interrupt"}
         \/ status[row[r].source] \in {"failed", "stopped"}
         \/ Overlong(row[r].source)

FinishedStay ==
  \A r \in Runs : status[r] \in Terminal =>
    /\ status'[r] = status[r] /\ log'[r] = log[r]
    /\ output'[r] = output[r] /\ delegation'[r] = delegation[r]

\* What a finished run has published stays: status, log, terminal message and
\* the delegation it settled never change again, across restarts too.
FinishedRunsStay == [][FinishedStay]_vars

\* A run that streams more than a message holds has its interruption refused,
\* by the execution, which then ends, and by the boot, which ends the server; a
\* call of the catch block that rejects ends the execution as well.
HeldUp(r) ==
  \/ status[r] \in Active /\ pc[r] = "idle" /\ (Overlong(r) \/ faults > 0)
  \/ phase = "boot" /\ \E q \in Runs :
       status[q] \in Active /\ row[q].agent \notin Gateway /\ Overlong(q)

\* Once a cancel has aborted an execution whose adapter has not yet yielded its
\* answer, the run ends failed or stopped, not completed, unless it is held up.
AbortedRunsStop ==
  \A r \in Runs :
    (aborted[r] /\ pc[r] \in {"claim", "context", "events", "adapter"}
      /\ row[r].agent \in Cancellable)
    ~> status[r] \in {"failed", "stopped"} \/ HeldUp(r)

\* A run that has started comes to an end, with a bounded number of restarts
\* in between and whatever its adapter does short of never answering, unless
\* it is held up by a text too long for a message or by a rejected call.
StartedRunsFinish ==
  \A r \in Runs :
    (status[r] \in Active /\ pc[r] # "idle") ~> status[r] \in Terminal \/ HeldUp(r)

\* "Terminal runs refuse a late cancellation": the step by which a cancel
\* takes effect never finds the run terminal.
LateCancelRejected ==
  [][\A r \in Runs :
       cancelling[r] = "abort" /\ cancelling'[r] = "intervene"
         => status[r] \notin Terminal]_vars

\* "A message in execution refuses changes": a retraction never commits while
\* a run the message triggered is active.
ExecutingMessageKept ==
  [][\A m \in Messages :
       m \in retracted' \ retracted => ~HasActiveWork(m)]_vars

\* "An AI with a queued, running or waiting run cannot be removed": a removal
\* never commits while the Agent has an active run in the room.
BusyAgentStays ==
  [][\A a \in member \ member' : ~HasActiveRun(a)]_vars

-----------------------------------------------------------------------------
(* The coordinator and the store implement the board.                      *)

Board == INSTANCE RunBoard WITH
  work <- [r \in Runs |-> IF status[r] \in Active THEN "active"
                          ELSE IF Exists(r) THEN status[r] ELSE "none"],
  delegated <- [r \in Runs |-> IF delegation[r] = "running" THEN "active"
                               ELSE delegation[r]],
  answer <- output

\* Every commit of the system is one of the board's steps or does not show:
\* finishing, answering and settling the delegation are one step, and neither
\* a crash, nor a requeue, nor a redundant settle is visible.
ImplementsBoard == Board!BoardSpec
=============================================================================
