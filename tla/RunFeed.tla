------------------------------ MODULE RunFeed -------------------------------
(***************************************************************************)
(* What somebody who follows a run is promised: while they attend, to be   *)
(* told what happened, in the order it happened, each event once, up to    *)
(* the one that ends the run; and to be told from the beginning again only *)
(* if they went away or were told of the end.  Polls, connections, numbers *)
(* and snapshots do not show.                                              *)
(***************************************************************************)
EXTENDS Naturals, Sequences

CONSTANTS
  Events,       \* the types of a run's events
  Final         \* ... and of those that end it

VARIABLES
  happened,     \* the run's events
  told,         \* those that were told since the follower came
  attending     \* the follower is there

feedVars == <<happened, told, attending>>

Over == happened # <<>> /\ happened[Len(happened)] \in Final

FeedInit == happened = <<>> /\ told = <<>> /\ attending = TRUE

Happen(event) ==
  /\ ~Over
  /\ happened' = Append(happened, event)
  /\ UNCHANGED <<told, attending>>

\* There is nothing to stay for after the event that ends the run.
TellNext ==
  /\ attending
  /\ Len(told) < Len(happened)
  /\ told' = Append(told, happened[Len(told) + 1])
  /\ attending' = (happened[Len(told) + 1] \notin Final)
  /\ UNCHANGED happened

GoAway ==
  /\ attending /\ attending' = FALSE
  /\ UNCHANGED <<happened, told>>

StartAgain ==
  /\ ~attending /\ attending' = TRUE
  /\ told' = <<>>
  /\ UNCHANGED happened

FeedNext ==
  (\E event \in Events : Happen(event)) \/ TellNext \/ GoAway \/ StartAgain

FeedSpec == FeedInit /\ [][FeedNext]_feedVars
=============================================================================
