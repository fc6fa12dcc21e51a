----------------------------- MODULE MCRoomPage -----------------------------
(***************************************************************************)
(* Two windows and two rooms.                                              *)
(***************************************************************************)
EXTENDS RoomPage, TLC

PageSymmetry == Permutations(Rooms) \cup Permutations(Windows)
=============================================================================
