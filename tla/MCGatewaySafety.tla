-------------------------- MODULE MCGatewaySafety --------------------------
(***************************************************************************)
(* The safety run of AgentGateway.  Each behaviour is bounded in one of    *)
(* two ways, chosen at its start, as all the interleavings of both are too *)
(* many: one job with all that may happen to it, or two jobs of one Agent  *)
(* and the claims for them.                                                *)
(***************************************************************************)
EXTENDS MCAgentGateway

CONSTANT secondJob

VARIABLE scene

SafetyInit == Init /\ scene \in {"one job", "two jobs"}

OneJob ==
  /\ scene = "one job"
  /\ Next /\ adapter'[secondJob] = "idle"
  /\ UNCHANGED scene

\* Access and the server are stable, requests judge by a fresh clock, and the
\* adapters go no further than their queue.
TwoJobs ==
  /\ scene = "two jobs"
  /\ Next
  /\ age' = [w \in Workers |-> 0]
  /\ adapter' \in [Runs -> {"idle", "enqueue", "poll"}]
  /\ UNCHANGED <<scene, credential, binding, token, processVars>>

SafetySpec == SafetyInit /\ [][OneJob \/ TwoJobs]_<<vars, scene>>
=============================================================================
