----------------------------- MODULE GuestList ------------------------------
(***************************************************************************)
(* What the owner of a workspace is promised about the Agents let in with  *)
(* invitations: an invitation admits one Agent, once; it gives that Agent  *)
(* its permissions in the step it admits it, and never again; and revoking *)
(* it takes the Agent's permissions away in one step.  AI Cards, keys,     *)
(* credential files, tickets and repeated or late claims do not show.      *)
(***************************************************************************)
CONSTANTS
    Offers,        \* invitations
    Guests,        \* Agents
    Nobody, Nothing

VARIABLES
    guest,         \* the Agent an invitation has admitted, or Nobody
    revoked,       \* revoked invitations
    allowed        \* the invitation whose permissions an Agent has, or Nothing

guestVars == <<guest, revoked, allowed>>

GuestInit ==
    /\ guest = [i \in Offers |-> Nobody]
    /\ revoked = {}
    /\ allowed = [s \in Guests |-> Nothing]

Admit(i, s) ==
    /\ guest[i] = Nobody /\ i \notin revoked
    /\ guest' = [guest EXCEPT ![i] = s]
    /\ allowed' = [allowed EXCEPT ![s] = i]
    /\ UNCHANGED revoked

\* The Agent has one set of permissions, whatever invitation they came from.
Revoke(i) ==
    /\ i \notin revoked
    /\ revoked' = revoked \cup {i}
    /\ allowed' = [s \in Guests |-> IF s = guest[i] THEN Nothing ELSE allowed[s]]
    /\ UNCHANGED guest

Dismiss(s) ==
    /\ allowed' = [allowed EXCEPT ![s] = Nothing]
    /\ UNCHANGED <<guest, revoked>>

GuestNext ==
    \/ \E i \in Offers : Revoke(i) \/ \E s \in Guests : Admit(i, s)
    \/ \E s \in Guests : Dismiss(s)

GuestSpec == GuestInit /\ [][GuestNext]_guestVars
=============================================================================
