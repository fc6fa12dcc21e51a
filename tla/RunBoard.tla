------------------------------ MODULE RunBoard ------------------------------
(***************************************************************************)
(* What the members of a room are promised about its runs, and all that    *)
(* one look at the tables may show of them: a run is created, is worked    *)
(* on, and finishes once; its terminal message and the delegation it was   *)
(* created for change in the very step it finishes.  Queues, claims,       *)
(* events, restarts and requeues do not show.                              *)
(***************************************************************************)
CONSTANT Runs

VARIABLES
  work,        \* "none", "active", or the run's outcome
  delegated,   \* the same of the delegation the run was created for
  answer       \* "none", or the status of the run's terminal message

boardVars == <<work, delegated, answer>>

Outcome == {"completed", "failed", "stopped"}

BoardInit ==
  /\ work = [r \in Runs |-> "none"]
  /\ delegated = [r \in Runs |-> "none"]
  /\ answer = [r \in Runs |-> "none"]

\* A submission, a delegation or a retry puts runs on the board.
Create(S) ==
  /\ \A r \in S : work[r] = "none"
  /\ work' = [r \in Runs |-> IF r \in S THEN "active" ELSE work[r]]
  /\ UNCHANGED <<delegated, answer>>

\* The delegation a waiting run was created for is recorded.
Delegate(r) ==
  /\ work[r] = "active" /\ delegated[r] = "none"
  /\ delegated' = [delegated EXCEPT ![r] = "active"]
  /\ UNCHANGED <<work, answer>>

FinishAs(r, o) ==
  /\ work[r] = "active"
  /\ work' = [work EXCEPT ![r] = o]
  /\ delegated' = [delegated EXCEPT ![r] = IF @ = "active" THEN o ELSE @]
  /\ \E a \in {"none", o} : answer' = [answer EXCEPT ![r] = a]

BoardNext ==
  \/ \E S \in SUBSET Runs : Create(S)
  \/ \E r \in Runs : Delegate(r) \/ \E o \in Outcome : FinishAs(r, o)

BoardSpec == BoardInit /\ [][BoardNext]_boardVars
=============================================================================
