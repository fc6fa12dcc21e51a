------------------------------ MODULE MCServices ------------------------------
(***************************************************************************)
(* Small instances of the parts of the server that share no state with the *)
(* rest: signing in with a password or with an AI Card, the admission of   *)
(* Agents, and the single-conversation runs.  As no part reads what        *)
(* another writes, a behaviour of all of them is an interleaving of one of *)
(* each; each behaviour here moves one part, chosen at its start.          *)
(***************************************************************************)
EXTENDS PasswordLogin, FederatedSession, AgentAdmission, LegacyRuns, TLC

CONSTANTS u1, u2, v1, v2

VARIABLE part

ServicesInit ==
    /\ part \in {"login", "card", "admission", "legacy"}
    /\ LoginInit /\ CardInit /\ AdmissionInit /\ LegacyInit

LoginPart ==
    /\ part = "login" /\ LoginNext
    /\ UNCHANGED <<part, cardVars, admissionVars, legacyVars>>
CardPart ==
    /\ part = "card" /\ CardNext
    /\ UNCHANGED <<part, loginVars, admissionVars, legacyVars>>
AdmissionPart ==
    /\ part = "admission" /\ AdmissionNext
    /\ UNCHANGED <<part, loginVars, cardVars, legacyVars>>
LegacyPart ==
    /\ part = "legacy" /\ LegacyNext
    /\ UNCHANGED <<part, loginVars, cardVars, admissionVars>>

ServicesNext == LoginPart \/ CardPart \/ AdmissionPart \/ LegacyPart

ServicesSpec ==
    ServicesInit
    /\ [][ServicesNext]_<<part, loginVars, cardVars, admissionVars, legacyVars>>

ServicesSymmetry == Permutations({u1, u2}) \cup Permutations({v1, v2})
=============================================================================
