-------------------------- MODULE MCAgentGateway --------------------------
(***************************************************************************)
(* Small instances of AgentGateway: two jobs and up to two workers, all of *)
(* one Agent.                                                              *)
(***************************************************************************)
EXTENDS AgentGateway, TLC

CONSTANT theAgent

TheTarget == [r \in Runs |-> theAgent]
TheOwner  == [w \in Workers |-> theAgent]

\* Workers are not interchangeable when only some present runtime tokens.
LeaseSymmetry == Permutations(LeaseIds)
=============================================================================
