------------------------------ MODULE RunStore ------------------------------
(***************************************************************************)
(* The PostgreSQL rows the collaboration runs of one room live in: room    *)
(* members and messages, room_runs with their event logs, the terminal     *)
(* messages runs leave, delegations and artifacts.  An operator here is    *)
(* the effect of one committed transaction of a repository, or a test that *)
(* such a transaction makes; the modules that extend this one decide when  *)
(* each of them happens.                                                   *)
(***************************************************************************)
EXTENDS Integers, Sequences, FiniteSets

CONSTANTS
  Runs,          \* identifiers of room_runs rows (a finite supply)
  Messages,      \* trigger messages that people may post
  WithFiles,     \* the trigger messages that carry attachments
  Agents,        \* Agent principals of the workspace
  Gateway,       \* Agents bound to the agent-gateway adapter
  Delegators,    \* Agents whose adapter declares the delegation capability
  Producers,     \* ... the artifacts capability
  Cancellable,   \* ... the cancellation capability
  Readers,       \* ... the attachments capability
  Keys,          \* idempotency keys an adapter puts on delegations, artifacts
  RetryKeys,     \* idempotency keys a client puts on a retry
  NoRun, NoKey, NoRow

ASSUME CapabilityAssumption ==
  /\ Gateway \subseteq Agents
  /\ Delegators \subseteq Agents /\ Producers \subseteq Agents
  /\ Cancellable \subseteq Agents /\ Readers \subseteq Agents
  /\ Gateway \cap (Delegators \cup Producers \cup Cancellable) = {}
  /\ WithFiles \subseteq Messages

ASSUME NullAssumption ==
  /\ NoRun \notin Runs
  /\ NoKey \notin Keys \cup RetryKeys

VARIABLES
  member,        \* Agents that are active members of the room
  posted,        \* messages that have been committed
  retracted,     \* messages whose retracted_at is set
  row,           \* the immutable columns of each run
  status,        \* room_runs.status ("absent": no such row)
  log,           \* room_run_events of each run, in sequence order
  output,        \* status of the run's output message ("none": no message)
  delegation,    \* status of the delegation whose child the run is
  artifacts      \* keys of the artifacts each run has produced

storeVars == <<member, posted, retracted, row, status, log, output,
               delegation, artifacts>>

-----------------------------------------------------------------------------

Terminal == {"completed", "failed", "stopped"}
Active   == {"queued", "running"}

\* Deltas are told apart by what they make of the streamed text: a message, or
\* more ("excess") than a message may hold; a blank one is as good as a status.
\* A completed event carries blank text, an answer, or something its message
\* refuses: too long a text, or attachments that do not belong to the run.
Progress   == [type : {"status", "text_delta", "excess"}]
Delegation == [type : {"delegation"}, delegate : Agents, key : Keys]
Artifact   == [type : {"artifact"}, key : Keys]
Completed  == [type : {"completed"}, answer : {"blank", "text", "refused"}]
Failed     == [type |-> "failed"]
Stopped    == [type |-> "stopped"]
Event      == Progress \cup Delegation \cup Artifact \cup Completed
                \cup {Failed, Stopped}

Row == [agent : Agents, trigger : Messages,
        kind : {"message", "delegation", "retry"},
        source : Runs \cup {NoRun}, key : Keys \cup RetryKeys \cup {NoKey}]

Exists(r) == status[r] # "absent"
Absent    == {r \in Runs : ~Exists(r)}

\* The run that createDelegatedRun or createRetry already made for this key.
IsDerived(c, kind, r, k) ==
  Exists(c) /\ row[c].kind = kind /\ row[c].source = r /\ row[c].key = k
Derived(kind, r, k) == {c \in Runs : IsDerived(c, kind, r, k)}

HasActiveRun(a)  == \E r \in Runs : status[r] \in Active /\ row[r].agent = a
HasActiveWork(m) == \E r \in Runs : status[r] \in Active /\ row[r].trigger = m

HasEvent(r, type) == \E i \in 1 .. Len(log[r]) : log[r][i].type = type

\* What the run has streamed is too long for a message.
Overlong(r) == HasEvent(r, "excess")

-----------------------------------------------------------------------------

StoreInit ==
  /\ member = Agents
  /\ posted = {} /\ retracted = {}
  /\ row = [r \in Runs |-> NoRow]
  /\ status = [r \in Runs |-> "absent"]
  /\ log = [r \in Runs |-> <<>>]
  /\ output = [r \in Runs |-> "none"]
  /\ delegation = [r \in Runs |-> "none"]
  /\ artifacts = [r \in Runs |-> {}]

StoreTypeOK ==
  /\ member \subseteq Agents
  /\ posted \subseteq Messages /\ retracted \subseteq Messages
  /\ row \in [Runs -> Row \cup {NoRow}]
  /\ status \in [Runs -> Active \cup Terminal \cup {"absent"}]
  /\ \A r \in Runs : Exists(r) => row[r] \in Row
  /\ log \in [Runs -> Seq(Event)]
  /\ output \in [Runs -> Terminal \cup {"none"}]
  /\ delegation \in [Runs -> Terminal \cup {"running", "none"}]
  /\ artifacts \in [Runs -> SUBSET Keys]

\* createDelegatedRun and createRetry insert one queued row that inherits the
\* room and the trigger message of the run it comes from.
InsertDerived(c, kind, r, a, k) ==
  /\ status' = [status EXCEPT ![c] = "queued"]
  /\ row' = [row EXCEPT ![c] = [agent |-> a, trigger |-> row[r].trigger,
                                kind |-> kind, source |-> r, key |-> k]]

\* appendEvent takes the event only on a live run and only at the sequence
\* number that follows the last stored one.
Appendable(r, sequence) ==
  status[r] \in Active /\ sequence = Len(log[r]) + 1

\* The terminal message: always when a completed event has an answer, and the
\* text streamed so far when the run fails or is stopped.
LeavesMessage(r, e) ==
  IF e.type = "completed" THEN e.answer # "blank" ELSE HasEvent(r, "text_delta")

\* The CHECK on a message's length, and the linking of attachments that are not
\* the run's own, abort the transaction.
Storable(r, e) ==
  /\ e.type = "completed" => e.answer # "refused"
  /\ e.type \in {"failed", "stopped"} => ~Overlong(r)

\* Mutants: the delegation is left to a later transaction; the status column
\* follows events of every type.
AppendEventAlone(r, e) ==
  /\ log' = [log EXCEPT ![r] = Append(@, e)]
  /\ IF e.type \in Terminal
     THEN /\ status' = [status EXCEPT ![r] = e.type]
          /\ output' = IF LeavesMessage(r, e)
                       THEN [output EXCEPT ![r] = e.type] ELSE output
     ELSE UNCHANGED <<status, output>>
  /\ UNCHANGED <<member, posted, retracted, row, delegation, artifacts>>

AppendEventAnyStatus(r, e) ==
  /\ log' = [log EXCEPT ![r] = Append(@, e)]
  /\ status' = [status EXCEPT ![r] = e.type]
  /\ UNCHANGED <<member, posted, retracted, row, output, delegation, artifacts>>

AppendEvent(r, e) ==
  /\ log' = [log EXCEPT ![r] = Append(@, e)]
  /\ IF e.type \in Terminal
     THEN /\ status' = [status EXCEPT ![r] = e.type]
          /\ output' = IF LeavesMessage(r, e)
                       THEN [output EXCEPT ![r] = e.type] ELSE output
          /\ delegation' = [delegation EXCEPT ![r] =
                              IF @ = "running" THEN e.type ELSE @]
     ELSE UNCHANGED <<status, output, delegation>>
  /\ UNCHANGED <<member, posted, retracted, row, artifacts>>

\* settleByChildRun, with the status the run was read with.
SettleByChildRun(r) ==
  /\ delegation' = [delegation EXCEPT ![r] =
                      IF @ = "running" /\ status[r] \in Terminal
                      THEN status[r] ELSE @]
  /\ UNCHANGED <<member, posted, retracted, row, status, log, output, artifacts>>
=============================================================================
