------------------------------ MODULE JobBoard ------------------------------
(***************************************************************************)
(* What the Agent Gateway promises about the jobs it hands out: a job is   *)
(* answered once, whoever is told that an answer is stored is told of that *)
(* answer, and the run waiting for it ends with that answer, or without    *)
(* one: for want of an answer only after a look that found none, which may *)
(* be out of date by then.  Leases, clocks, bridges and their repeats,     *)
(* credentials, locks and restarts do not show.                            *)
(***************************************************************************)
CONSTANTS
  Jobs,
  Kind,         \* answer -> the status a run ends in with it
  Unanswered

VARIABLES
  stored,       \* the answer stored for a job, or Unanswered
  promised,     \* the answers somebody was told are stored
  outcome       \* "open" or "doubtful", or how the run that waits for the
                \* job ended

jobBoardVars == <<stored, promised, outcome>>

JobBoardInit ==
  /\ stored = [j \in Jobs |-> Unanswered]
  /\ promised = {}
  /\ outcome = [j \in Jobs |-> "open"]

Accept(j, a) ==
  /\ stored[j] = Unanswered
  /\ stored' = [stored EXCEPT ![j] = a]
  /\ promised' = promised \cup {[job |-> j, answer |-> a]}
  /\ UNCHANGED outcome

Turn(j, from, to) ==
  /\ outcome[j] = from
  /\ outcome' = [outcome EXCEPT ![j] = to]
  /\ UNCHANGED <<stored, promised>>

\* The run looks for an answer and finds none, and then gives up, or goes on
\* waiting: when the server restarts, several do at once.
Doubt(j) == stored[j] = Unanswered /\ Turn(j, "open", "doubtful")
TimeOut(j) == Turn(j, "doubtful", "timeout")
WaitOn(S) ==
  /\ outcome' = [j \in Jobs |-> IF j \in S /\ outcome[j] = "doubtful" THEN "open"
                                ELSE outcome[j]]
  /\ UNCHANGED <<stored, promised>>

\* The run ends with the answer; or because the server stops, fails, or hands
\* out no work for the Agent any more.
Conclude(j) == stored[j] # Unanswered /\ Turn(j, "open", Kind[stored[j]])
Withdraw(j) == Turn(j, "open", "over")

JobBoardNext ==
  \/ \E j \in Jobs :
       \/ \E a \in DOMAIN Kind : Accept(j, a)
       \/ Doubt(j) \/ TimeOut(j) \/ Conclude(j) \/ Withdraw(j)
  \/ \E S \in SUBSET Jobs : WaitOn(S)

JobBoardSpec == JobBoardInit /\ [][JobBoardNext]_jobBoardVars
=============================================================================
