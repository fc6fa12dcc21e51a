--------------------------- MODULE MCAttachments ----------------------------
(***************************************************************************)
(* A person with one file at a time and an Agent whose run makes another.  *)
(***************************************************************************)
EXTENDS Attachments, TLC

CONSTANTS k1, k2, out, r1, planner

TheAgent == r1 :> planner
TheSource == k1 :> Person @@ k2 :> Person @@ out :> r1
AttachmentsSymmetry ==
  Permutations(Messages) \cup Permutations(Puts) \cup Permutations({k1, k2})
=============================================================================
