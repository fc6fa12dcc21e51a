------------------------------ MODULE MCRooms -------------------------------
(***************************************************************************)
(* The rooms of a workspace with two Agents and one direct room.           *)
(***************************************************************************)
EXTENDS Rooms, TLC

CONSTANTS main, side, direct, su, ann, bo, planner, helper

TheHuman == direct :> su
TheAgent == direct :> planner
ThePolicy == planner :> "mention_only" @@ helper :> "always"
TheMentions == {{}, {planner}}
RoomsSymmetry == Permutations(Messages) \cup Permutations(Clients)
=============================================================================
