------------------------ MODULE MCCollaborationRuns ------------------------
(***************************************************************************)
(* Small instances of CollaborationRuns.  The run identifiers are          *)
(* interchangeable, so the safety runs identify states that differ by a    *)
(* permutation of them.                                                    *)
(***************************************************************************)
EXTENDS CollaborationRuns, TLC

RunSymmetry == Permutations(Runs)
=============================================================================
