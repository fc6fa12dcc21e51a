---------------------------- MODULE MCRunStream ----------------------------
(***************************************************************************)
(* Small instances of RunStream: two snapshots under way at the same time. *)
(***************************************************************************)
EXTENDS RunStream, TLC

RefreshSymmetry == Permutations(Refreshes)
=============================================================================
