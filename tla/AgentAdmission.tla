---------------------------- MODULE AgentAdmission ----------------------------
(***************************************************************************)
(* Letting an AI Card Agent into a workspace: the invitation an owner      *)
(* creates and revokes (agent-admission-service.ts), the claim that admits *)
(* an Agent (agent-admission-repository.ts), and the reference client that *)
(* walks through it with a credential file (agent-admission-reference.mts).*)
(*                                                                         *)
(* A client stands for one credential file.  An identity is named after    *)
(* the client that generated its key, unless it had its card before.  The  *)
(* AI Card service is external: an invitation of it is claimed once, and a *)
(* claim it has already accepted is answered again.  Room memberships,     *)
(* which a claim adds and a revocation leaves, presence, and tokens are    *)
(* left out.                                                               *)
(***************************************************************************)
EXTENDS Integers, FiniteSets

CONSTANTS
    Invitations,      \* invitations, each with its AI Card invitation
    Files,            \* credential files of the reference client
    Existing,         \* identities that had their card before
    NoInvitation, NoFileId

ASSUME AdmissionAssumption ==
    NoInvitation \notin Invitations /\ NoFileId \notin Files \cup Existing

VARIABLES
    invitation,   \* rows of agent_admission_invitations
    cardInvite,   \* AI Card: the state of its invitation
    cardClaim,    \* AI Card: the claim that drew the card, or NoClaim
    expired,      \* invitations past expires_at
    unavailable,  \* invitations one of whose rooms is archived
    enabledBy,    \* agent_bindings: per identity, the invitation whose
                  \* permissions are enabled, or NoInvitation
    revoking,     \* where revokeInvitation stands
    file,         \* the credential files
    doing,        \* where a client's process stands
    claims        \* claims of invitations on their way to the server

admissionVars == <<invitation, cardInvite, cardClaim, expired, unavailable,
                   enabledBy, revoking, file, doing, claims>>

Identities == Files \cup Existing
ClaimId == Files \X {1, 2}
NoClaim == <<NoFileId, 0>>
NoFile == [state |-> "none", invite |-> NoInvitation, claim |-> 0,
           identity |-> NoFileId, declined |-> TRUE]
Unknown == [state |-> "none", claim |-> NoClaim, subject |-> NoFileId]

AdmissionInit ==
    /\ invitation = [i \in Invitations |-> Unknown]
    /\ cardInvite = [i \in Invitations |-> "none"]
    /\ cardClaim = [i \in Invitations |-> NoClaim]
    /\ expired = {} /\ unavailable = {}
    /\ enabledBy = [s \in Identities |-> NoInvitation]
    /\ revoking = [i \in Invitations |-> "idle"]
    /\ file = [c \in Files |-> NoFile]
    /\ doing = [c \in Files |-> "off"]
    /\ claims = {}

clientVars == <<cardClaim, file, doing, claims>>
serverVars == <<invitation, expired, unavailable, enabledBy, revoking>>

-----------------------------------------------------------------------------
(* The owner                                                               *)

\* createInvitation: the AI Card service makes its invitation first.
MakeCardInvitation(i) ==
    /\ invitation[i].state = "none"
    /\ cardInvite' = [cardInvite EXCEPT ![i] = "open"]
    /\ invitation' = [invitation EXCEPT ![i].state = "inserting"]
    /\ UNCHANGED <<expired, unavailable, enabledBy, revoking, clientVars>>

\* The repository's createInvitation: every room active and owned.
InsertInvitation(i) ==
    /\ invitation[i].state = "inserting" /\ i \notin unavailable
    /\ invitation' = [invitation EXCEPT ![i].state = "pending"]
    /\ UNCHANGED <<cardInvite, expired, unavailable, enabledBy, revoking, clientVars>>

\* It throws: the AI Card invitation is revoked, if that call succeeds and the
\* process lives.
AbandonInvitation(i) ==
    /\ invitation[i].state = "inserting"
    /\ invitation' = [invitation EXCEPT ![i].state = "abandoned"]
    /\ \E after \in {"open", "revoked"} :
          cardInvite' = [cardInvite EXCEPT ![i] = after]
    /\ UNCHANGED <<expired, unavailable, enabledBy, revoking, clientVars>>

\* prepareRevocation.  Only a pending invitation is revoked at the AI Card
\* service as well.
PrepareRevocation(i) ==
    /\ revoking[i] = "idle"
    /\ invitation[i].state \in {"pending", "admitted"}
    /\ revoking' = [revoking EXCEPT ![i] =
                      IF invitation[i].state = "pending" THEN "card" ELSE "final"]
    /\ UNCHANGED <<invitation, cardInvite, expired, unavailable, enabledBy, clientVars>>

RevokeCardInvitation(i) ==
    /\ revoking[i] = "card"
    /\ cardInvite' = [cardInvite EXCEPT ![i] = IF @ = "open" THEN "revoked" ELSE @]
    /\ revoking' = [revoking EXCEPT ![i] = "unused"]
    /\ UNCHANGED <<invitation, expired, unavailable, enabledBy, clientVars>>

\* A call of revokeInvitation throws, or its process is gone.
RevocationFails(i) ==
    /\ revoking[i] # "idle"
    /\ revoking' = [revoking EXCEPT ![i] = "idle"]
    /\ UNCHANGED <<invitation, cardInvite, expired, unavailable, enabledBy, clientVars>>

Disabled(s) == [enabledBy EXCEPT ![s] = NoInvitation]
RevokedRow(i) == [invitation EXCEPT ![i].state = "revoked"]

\* Mutant: the status prepareRevocation read decides.
FinalizeAsPrepared(i) ==
    /\ revoking[i] \in {"unused", "final"}
    /\ invitation[i].state \in {"pending", "admitted"}
    /\ enabledBy' = IF revoking[i] = "final"
                      THEN Disabled(invitation[i].subject) ELSE enabledBy
    /\ invitation' = RevokedRow(i)
    /\ revoking' = [revoking EXCEPT ![i] = "idle"]
    /\ UNCHANGED <<cardInvite, expired, unavailable, clientVars>>

\* finalizeRevocation reads the row again, locked: a claim may have come
\* between.  The binding is the Agent's only one, whatever enabled it.
FinalizeRevocation(i) ==
    /\ revoking[i] \in {"unused", "final"}
    /\ invitation[i].state \in {"pending", "admitted"}
    /\ enabledBy' = IF invitation[i].state = "admitted"
                      THEN Disabled(invitation[i].subject) ELSE enabledBy
    /\ invitation' = RevokedRow(i)
    /\ revoking' = [revoking EXCEPT ![i] = "idle"]
    /\ UNCHANGED <<cardInvite, expired, unavailable, clientVars>>

\* revokeAICardAgent: the owner closes the Agent itself.
RevokeAICardAgent(s) ==
    /\ \E i \in Invitations : invitation[i].subject = s
    /\ enabledBy' = Disabled(s)
    /\ UNCHANGED <<invitation, cardInvite, expired, unavailable, revoking, clientVars>>

Expire(i) ==
    /\ invitation[i].state = "pending" /\ i \notin expired
    /\ expired' = expired \cup {i}
    /\ UNCHANGED <<invitation, cardInvite, unavailable, enabledBy, revoking, clientVars>>

\* setStatus archives a room of the invitation, or brings it back.
ArchiveOrRestoreRoom(i) ==
    /\ unavailable' = IF i \in unavailable THEN unavailable \ {i}
                                           ELSE unavailable \cup {i}
    /\ UNCHANGED <<invitation, cardInvite, expired, enabledBy, revoking, clientVars>>

-----------------------------------------------------------------------------
(* The claim                                                               *)

\* Mutant: the ticket alone is compared.
SameTicket(m) == TRUE

\* An admitted invitation answers the claim that admitted it, and no other.
SameClaim(m) ==
    /\ invitation[m.invite].claim = m.claim
    /\ invitation[m.invite].subject = m.subject

Admits(m) ==
    /\ invitation[m.invite].state = "pending"
    /\ m.invite \notin expired
    /\ m.invite \notin unavailable

\* A repeat, whose answer the client compares with its own identity.
Repeats(m) ==
    /\ invitation[m.invite].state = "admitted" /\ SameClaim(m)
    /\ invitation[m.invite].subject = file[m.claim[1]].identity

\* The row and the binding after a claim; the binding takes this invitation's
\* permissions.
Admitted(m) == [invitation EXCEPT ![m.invite] =
    [state |-> "admitted", claim |-> m.claim, subject |-> m.subject]]
Bound(m) == [enabledBy EXCEPT ![m.subject] = m.invite]

\* claim's transaction, and its answer, which reaches the client only while
\* that waits for it.
Claim(m) ==
    LET c == m.claim[1] IN
    /\ m \in claims
    /\ claims' = claims \ {m}
    /\ IF Admits(m)
         THEN invitation' = Admitted(m) /\ enabledBy' = Bound(m)
         ELSE UNCHANGED <<invitation, enabledBy>>
    /\ IF doing[c] = "joining" /\ (Admits(m) \/ Repeats(m))
         THEN file' = [file EXCEPT ![c].state = "admitted"]
         ELSE UNCHANGED file
    /\ doing' = [doing EXCEPT ![c] = IF @ = "joining" THEN "off" ELSE @]
    /\ UNCHANGED <<cardInvite, cardClaim, expired, unavailable, revoking>>

-----------------------------------------------------------------------------
(* The client                                                              *)

\* runAgentAdmissionReference's next step for a credential.
NextStep(f) ==
    IF ~f.declined THEN "decline"
    ELSE IF f.state = "identity_pending" THEN "identity" ELSE "join"

Advance(c, f) ==
    /\ file' = [file EXCEPT ![c] = f]
    /\ doing' = [doing EXCEPT ![c] = NextStep(f)]

\* createCredential: a new key, and the claim's identifiers written ("wx")
\* before any request is made.  Anyone with the instructions may do so.
CreateCredential(c, i) ==
    /\ file[c] = NoFile /\ invitation[i].state \notin {"none", "inserting", "abandoned"}
    /\ Advance(c, [state |-> "identity_pending", invite |-> i, claim |-> 1,
                   identity |-> c, declined |-> TRUE])
    /\ UNCHANGED <<serverVars, cardInvite, cardClaim, claims>>

\* Identities with a card, each in a credential file.
Cards == Existing \cup
    {file[d].identity : d \in {d \in Files :
        file[d].state \in {"identity_claimed", "admitted"}}}

\* reuseCredential: an Agent that has an identity keeps it, and declines the
\* AI Card invitation that came with this one.
ReuseCredential(c, i, s) ==
    /\ file[c] = NoFile /\ invitation[i].state \notin {"none", "inserting", "abandoned"}
    /\ Advance(c, [state |-> "identity_claimed", invite |-> i, claim |-> 1,
                   identity |-> s, declined |-> FALSE])
    /\ UNCHANGED <<serverVars, cardInvite, cardClaim, claims>>

\* Mutant: identifiers are made when the program starts.
LoadedWithNewClaim(c) == [file[c] EXCEPT !.claim = 3 - @]

\* loadCredential: what the file says.
Loaded(c) == file[c]

\* The program is run again on the file it left.
Rerun(c) ==
    /\ doing[c] = "off" /\ file[c] # NoFile /\ file[c].state # "admitted"
    /\ Advance(c, Loaded(c))
    /\ UNCHANGED <<serverVars, cardInvite, cardClaim, claims>>

\* A request fails, its answer is lost, or the process is gone.
ClientStops(c) ==
    /\ doing[c] # "off"
    /\ doing' = [doing EXCEPT ![c] = "off"]
    /\ UNCHANGED <<serverVars, cardInvite, cardClaim, file, claims>>

DeclineUnusedIdentity(c) ==
    LET i == file[c].invite IN
    /\ doing[c] = "decline" /\ cardInvite[i] \in {"open", "declined"}
    /\ cardInvite' = [cardInvite EXCEPT ![i] = "declined"]
    /\ \/ Advance(c, [file[c] EXCEPT !.declined = TRUE])
       \/ doing' = [doing EXCEPT ![c] = "off"] /\ UNCHANGED file
    /\ UNCHANGED <<serverVars, cardClaim, claims>>

\* claimIdentity.  A claim the service has accepted is answered again, by the
\* claim itself or by the status query that follows an error.
ClaimIdentity(c) ==
    LET i == file[c].invite  id == <<c, file[c].claim>> IN
    /\ doing[c] = "identity"
    /\ IF cardInvite[i] = "claimed" THEN cardClaim[i] = id ELSE cardInvite[i] = "open"
    /\ cardInvite' = [cardInvite EXCEPT ![i] = "claimed"]
    /\ cardClaim' = [cardClaim EXCEPT ![i] = id]
    /\ \/ Advance(c, [file[c] EXCEPT !.state = "identity_claimed"])
       \/ doing' = [doing EXCEPT ![c] = "off"] /\ UNCHANGED file
    /\ UNCHANGED <<serverVars, claims>>

\* joinYoyoo: the claim goes out and may arrive late.
SendClaim(c) ==
    /\ doing[c] = "join"
    /\ claims' = claims \cup {[invite |-> file[c].invite,
                               claim |-> <<c, file[c].claim>>,
                               subject |-> file[c].identity]}
    /\ doing' = [doing EXCEPT ![c] = "joining"]
    /\ UNCHANGED <<serverVars, cardInvite, cardClaim, file>>

AdmissionNext ==
    \/ \E i \in Invitations :
          \/ MakeCardInvitation(i) \/ InsertInvitation(i) \/ AbandonInvitation(i)
          \/ PrepareRevocation(i) \/ RevokeCardInvitation(i) \/ RevocationFails(i)
          \/ FinalizeRevocation(i) \/ Expire(i) \/ ArchiveOrRestoreRoom(i)
    \/ \E s \in Identities : RevokeAICardAgent(s)
    \/ \E m \in claims : Claim(m)
    \/ \E c \in Files :
          \/ Rerun(c) \/ ClientStops(c)
          \/ DeclineUnusedIdentity(c) \/ ClaimIdentity(c) \/ SendClaim(c)
          \/ \E i \in Invitations :
                \/ CreateCredential(c, i)
                \/ \E s \in Cards : ReuseCredential(c, i, s)

AdmissionSpec == AdmissionInit /\ [][AdmissionNext]_admissionVars

-----------------------------------------------------------------------------
InvitationRow ==
    [state : {"none", "inserting", "abandoned", "pending", "admitted", "revoked"},
     claim : ClaimId \cup {NoClaim}, subject : Identities \cup {NoFileId}]
CredentialFile ==
    [state : {"none", "identity_pending", "identity_claimed", "admitted"},
     invite : Invitations \cup {NoInvitation}, claim : {0, 1, 2},
     identity : Identities \cup {NoFileId}, declined : BOOLEAN]
ClaimRequest == [invite : Invitations, claim : ClaimId, subject : Identities]

\* Every variable keeps its type.
AdmissionTypeOK ==
    /\ invitation \in [Invitations -> InvitationRow]
    /\ cardInvite \in [Invitations -> {"none", "open", "revoked", "declined", "claimed"}]
    /\ cardClaim \in [Invitations -> ClaimId \cup {NoClaim}]
    /\ expired \subseteq Invitations /\ unavailable \subseteq Invitations
    /\ enabledBy \in [Identities -> Invitations \cup {NoInvitation}]
    /\ revoking \in [Invitations -> {"idle", "card", "unused", "final"}]
    /\ file \in [Files -> CredentialFile]
    /\ doing \in [Files -> {"off", "decline", "identity", "join", "joining"}]
    /\ claims \subseteq ClaimRequest

\* An Agent's binding is enabled only on the strength of an invitation that
\* admitted this very Agent and has not been revoked, whatever claims, repeats
\* and revocations overlap (claim, finalizeRevocation, revokeAICardAgent).
EnabledByAdmission ==
    \A s \in Identities : \A i \in Invitations :
        enabledBy[s] = i =>
            invitation[i].state = "admitted" /\ invitation[i].subject = s

\* A credential file says admitted only if the invitation recorded its claim
\* and its identity: an invitation pasted into two machines admits one of
\* them (claim's comparison of an admitted row, joinYoyoo).
AdmittedOnce ==
    \A c \in Files : file[c].state = "admitted" =>
        /\ invitation[file[c].invite].claim = <<c, file[c].claim>>
        /\ invitation[file[c].invite].subject = file[c].identity

\* An AI Card drawn by a claim is held by a file that can repeat the claim, so
\* neither a crash nor a lost answer strands it (createCredential's persist
\* before claimIdentity's request).
NoCardIsStranded ==
    \A i \in Invitations : \A c \in Files : \A n \in {1, 2} :
        cardClaim[i] = <<c, n>> => file[c].invite = i /\ file[c].claim = n

\* What the credential files say is what the two services have recorded.
FilesTellTheTruth == AdmittedOnce /\ NoCardIsStranded

\* The owner sees a guest list: whatever claims, repeats, lost answers and
\* revocations overlap, an invitation admits once, and nothing but an admission
\* gives an Agent permissions.
Desk == INSTANCE GuestList WITH
    Offers <- Invitations, Guests <- Identities,
    Nobody <- NoFileId, Nothing <- NoInvitation,
    guest <- [i \in Invitations |-> invitation[i].subject],
    revoked <- {i \in Invitations : invitation[i].state = "revoked"},
    allowed <- enabledBy

ImplementsGuestList == Desk!GuestSpec
=============================================================================
