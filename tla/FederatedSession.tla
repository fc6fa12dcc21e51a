--------------------------- MODULE FederatedSession ---------------------------
(***************************************************************************)
(* Signing in with an AI Card: the callback of an authorization            *)
(* (auth/aicard/callback/route.ts, loginWithAICard), the requests that     *)
(* use the session (resolveSession), the operations that need an access    *)
(* token (getFederatedAccessToken) and logout, over human_sessions         *)
(* (human-auth-repository.ts) and the identity provider.                   *)
(*                                                                         *)
(* The provider is external.  It is modelled from how the code uses it:    *)
(* a refresh token is exchanged once for the next one, a repeat with the   *)
(* same idempotency key is answered again, a repeat with another key is    *)
(* refused (aicard-client.ts, aicard-session-authority.ts and their        *)
(* tests).  Tokens of one authorization are numbered in the order in which *)
(* they are issued.                                                        *)
(***************************************************************************)
EXTENDS Integers, Sequences

CONSTANTS
    Authorizations,   \* authorization transactions, one state each
    Requests,         \* requests in the server at a time
    Interval,         \* FEDERATED_VALIDATION_INTERVAL_MS, in ticks
    Grace,            \* FEDERATED_VALIDATION_GRACE_MS, in ticks
    MaxTokens,        \* bound: refresh tokens issued per authorization
    CardMaxClock,     \* bound: ticks
    NoSession

ASSUME FederatedAssumption ==
    /\ Interval \in Nat /\ Grace \in Nat /\ Interval <= Grace
    /\ MaxTokens \in Nat \ {0} /\ CardMaxClock \in Nat

VARIABLES
    cardClock,    \* the server's clock
    issued,       \* provider: refresh tokens issued per authorization
    keys,         \* provider: the key each token but the newest was exchanged with
    withdrawn,    \* provider: when the grant was withdrawn, or NoSession
    cardSession,  \* row of human_sessions per authorization_state_hash, or NoSession
    req,          \* the requests
    ended         \* authorizations logged out or revoked by an administrator

cardVars == <<cardClock, issued, keys, withdrawn, cardSession, req, ended>>

NoRequest == [pc |-> "idle", kind |-> NoSession, auth |-> NoSession, token |-> 0,
         seen |-> 0, now |-> 0, late |-> FALSE]

CardInit ==
    /\ cardClock = 0
    /\ issued = [a \in Authorizations |-> 0]
    /\ keys = [a \in Authorizations |-> <<>>]
    /\ withdrawn = [a \in Authorizations |-> NoSession]
    /\ cardSession = [a \in Authorizations |-> NoSession]
    /\ req = [q \in Requests |-> NoRequest]
    /\ ended = {}

CardAt(q, pc) == req[q].pc = pc
CardGo(q, pc) == req' = [req EXCEPT ![q].pc = pc]
AuthOf(q) == req[q].auth
Granted(a) == withdrawn[a] = NoSession

-----------------------------------------------------------------------------
(* The callback                                                            *)

\* The state in the URL matches the sealed cookie; the code goes to the
\* provider with the transaction's idempotency key, and comes back as the
\* first refresh token.  The same callback may arrive again.
ExchangeCode(q, a) ==
    /\ CardAt(q, "idle") /\ Granted(a)
    /\ issued' = [issued EXCEPT ![a] = IF @ = 0 THEN 1 ELSE @]
    /\ req' = [req EXCEPT ![q] = [pc |-> "login", kind |-> "callback", auth |-> a, token |-> 1,
                                  seen |-> 0, now |-> 0, late |-> a \in ended]]
    /\ UNCHANGED <<cardClock, keys, withdrawn, cardSession, ended>>

NewSession(q) ==
    [token |-> req[q].token, validated |-> cardClock, created |-> cardClock,
     revoked |-> FALSE]

\* Mutant: without the unique index.
CreateSessionAgain(q) ==
    /\ CardAt(q, "login")
    /\ cardSession' = [cardSession EXCEPT ![AuthOf(q)] = NewSession(q)]
    /\ CardGo(q, "done")
    /\ UNCHANGED <<cardClock, issued, keys, withdrawn, ended>>

\* loginWithAICard: createFederatedSession.  The unique index on the state's
\* hash refuses a second session: invalid_session.
CreateSession(q) ==
    /\ CardAt(q, "login")
    /\ IF cardSession[AuthOf(q)] = NoSession
         THEN /\ cardSession' = [cardSession EXCEPT ![AuthOf(q)] = NewSession(q)]
              /\ CardGo(q, "done")
         ELSE /\ UNCHANGED cardSession
              /\ CardGo(q, "out")
    /\ UNCHANGED <<cardClock, issued, keys, withdrawn, ended>>

-----------------------------------------------------------------------------
(* resolveSession                                                          *)

CardUsable(a) == cardSession[a] # NoSession /\ ~cardSession[a].revoked

\* The repository's resolveSession, and the answer where none is needed from
\* the provider.  kind "operate": the route goes on to getFederatedAccessToken
\* with the record read here.
Resolve(q, a, kind) ==
    /\ CardAt(q, "idle") /\ cardSession[a] # NoSession
    /\ LET row == cardSession[a] IN
         req' = [req EXCEPT ![q] =
                   [pc    |-> IF row.revoked THEN "out"
                              ELSE IF cardClock - row.validated < Interval THEN "in"
                              ELSE "refresh",
                    kind  |-> kind, auth |-> a, token |-> row.token,
                    seen  |-> row.validated, now |-> cardClock,
                    late  |-> a \in ended]]
    /\ UNCHANGED <<cardClock, issued, keys, withdrawn, cardSession, ended>>

\* Where refreshAuthorizationForOperation is awaited, and where it returns to.
Refreshing(q) == CardAt(q, "refresh") \/ CardAt(q, "opRefresh")
Returning(q, step) == IF CardAt(q, "refresh") THEN step ELSE
    CASE step = "update" -> "opUpdate" [] step = "rejected" -> "refused"
      [] step = "unavailable" -> "refused"

\* Mutant: a key of the request's own.
RandomKey(q) == <<q, req[q].token>>

\* The idempotency key: an HMAC of the authorization's state and the token.
Key(q) == <<AuthOf(q), req[q].token>>

\* The provider exchanges its newest token, and answers an exchanged one again
\* if the key is the one it was exchanged with.
Newest(q) == req[q].token = issued[AuthOf(q)]
Answered(q) == ~Newest(q) => keys[AuthOf(q)][req[q].token] = Key(q)

\* The provider exchanges the token; its answer arrives, or is lost.
Rotate(q) ==
    /\ Refreshing(q) /\ Granted(AuthOf(q)) /\ Answered(q)
    /\ IF Newest(q)
         THEN /\ issued[AuthOf(q)] < MaxTokens
              /\ issued' = [issued EXCEPT ![AuthOf(q)] = @ + 1]
              /\ keys' = [keys EXCEPT ![AuthOf(q)] = Append(@, Key(q))]
         ELSE UNCHANGED <<issued, keys>>
    /\ \/ CardGo(q, Returning(q, "update"))
       \/ CardGo(q, Returning(q, "unavailable"))
    /\ UNCHANGED <<cardClock, withdrawn, cardSession, ended>>

\* The provider cannot be reached.
Unreachable(q) ==
    /\ Refreshing(q)
    /\ CardGo(q, Returning(q, "unavailable"))
    /\ UNCHANGED <<cardClock, issued, keys, withdrawn, cardSession, ended>>

\* The grant is gone, or the token is refused.  (A refresh token past its
\* expiry, which the provider sets, is left out.)
Reject(q) ==
    /\ Refreshing(q) /\ ~(Granted(AuthOf(q)) /\ Answered(q))
    /\ CardGo(q, Returning(q, "rejected"))
    /\ UNCHANGED <<cardClock, issued, keys, withdrawn, cardSession, ended>>

\* Mutant: the time of validation is that of the update.
UpdatedLate(q, row) ==
    [row EXCEPT !.token = req[q].token + 1, !.validated = cardClock]

\* updateFederatedSessionAuthorization stores the token of the answer, the next
\* one, and, as the time of validation, the clock the request began at.
Updated(q, row) ==
    [row EXCEPT !.token = req[q].token + 1, !.validated = req[q].now]

\* A session that was revoked meanwhile is not updated, and not let in.
Update(q) ==
    /\ CardAt(q, "update") \/ CardAt(q, "opUpdate")
    /\ IF CardUsable(AuthOf(q))
         THEN /\ cardSession' = [cardSession EXCEPT ![AuthOf(q)] = Updated(q, @)]
              /\ CardGo(q, IF CardAt(q, "update") THEN "in" ELSE "granted")
         ELSE /\ UNCHANGED cardSession
              /\ CardGo(q, "out")
    /\ UNCHANGED <<cardClock, issued, keys, withdrawn, ended>>

\* FederatedAuthorizationUnavailableError: let in within the grace period.
WithinGrace(q) ==
    /\ CardAt(q, "unavailable")
    /\ CardGo(q, IF req[q].now - req[q].seen <= Grace THEN "in" ELSE "out")
    /\ UNCHANGED <<cardClock, issued, keys, withdrawn, cardSession, ended>>

\* FederatedAuthorizationRejectedError: revokeSessionById.
RevokeRejected(q) ==
    /\ CardAt(q, "rejected")
    /\ cardSession' = [cardSession EXCEPT ![AuthOf(q)].revoked = TRUE]
    /\ CardGo(q, "out")
    /\ UNCHANGED <<cardClock, issued, keys, withdrawn, ended>>

-----------------------------------------------------------------------------
(* The rest                                                                *)

\* getFederatedAccessToken with the record of the request, whose token a
\* rotation of this very request may have exchanged already.
Operate(q) ==
    /\ CardAt(q, "in") /\ req[q].kind = "operate"
    /\ CardGo(q, "opRefresh")
    /\ UNCHANGED <<cardClock, issued, keys, withdrawn, cardSession, ended>>

\* The request is over, or its connection or its process is gone.
LeaveRequest(q) ==
    /\ ~CardAt(q, "idle")
    /\ req' = [req EXCEPT ![q] = NoRequest]
    /\ UNCHANGED <<cardClock, issued, keys, withdrawn, cardSession, ended>>

\* logout, or replaceCredential, which revokes every session of the person.
CardLogout(a) ==
    /\ CardUsable(a)
    /\ cardSession' = [cardSession EXCEPT ![a].revoked = TRUE]
    /\ ended' = ended \cup {a}
    /\ UNCHANGED <<cardClock, issued, keys, withdrawn, req>>

\* The person withdraws the grant at the provider.
Withdraw(a) ==
    /\ Granted(a) /\ issued[a] > 0
    /\ withdrawn' = [withdrawn EXCEPT ![a] = cardClock]
    /\ UNCHANGED <<cardClock, issued, keys, cardSession, req, ended>>

CardTick ==
    /\ cardClock < CardMaxClock
    /\ cardClock' = cardClock + 1
    /\ UNCHANGED <<issued, keys, withdrawn, cardSession, req, ended>>

RequestStep(q) ==
    \/ CreateSession(q) \/ Rotate(q) \/ Unreachable(q) \/ Reject(q)
    \/ Update(q) \/ WithinGrace(q) \/ RevokeRejected(q) \/ Operate(q) \/ LeaveRequest(q)
    \/ \E a \in Authorizations :
          \/ ExchangeCode(q, a)
          \/ \E kind \in {"page", "operate"} : Resolve(q, a, kind)

CardNext ==
    \/ \E q \in Requests : RequestStep(q)
    \/ \E a \in Authorizations : CardLogout(a) \/ Withdraw(a)
    \/ CardTick

CardSpec == CardInit /\ [][CardNext]_cardVars

-----------------------------------------------------------------------------
SessionRow == [token : Nat \ {0}, validated : Nat, created : Nat, revoked : BOOLEAN]
ASSUME NoSessionAssumption == NoSession \notin SessionRow
Places == {"idle", "login", "done", "in", "out", "refresh", "update",
           "unavailable", "rejected", "opRefresh", "opUpdate", "granted",
           "refused"}
CardRequest == [pc : Places, kind : {"callback", "page", "operate", NoSession},
            auth : Authorizations \cup {NoSession}, token : Nat, seen : Nat,
            now : Nat, late : BOOLEAN]

\* Every variable keeps its type.
CardTypeOK ==
    /\ cardClock \in Nat
    /\ issued \in [Authorizations -> Nat]
    /\ keys \in [Authorizations -> Seq(Authorizations \X Nat)]
    /\ withdrawn \in [Authorizations -> Nat \cup {NoSession}]
    /\ cardSession \in [Authorizations -> SessionRow \cup {NoSession}]
    /\ req \in [Requests -> CardRequest]
    /\ ended \subseteq Authorizations

\* A request that arrives after the logout is never let in: neither by the
\* session, whatever refresh was under way, nor by its authorization, whose
\* callback may be repeated (revokeSession, createFederatedSession).
LogoutIsFinal ==
    \A q \in Requests : req[q].late => ~(req[q].pc \in {"in", "granted", "done"})

\* Only a logout or the provider ends a session: however requests and
\* operations race with the same refresh token, and although an answer of the
\* provider may be lost after it took effect, no session is revoked as
\* rejected while the grant stands (refreshAuthorizationForOperation's
\* idempotency key, resolveSession's catch).
GrantedSessionsLast ==
    \A a \in Authorizations :
        cardSession[a] # NoSession /\ cardSession[a].revoked => a \in ended \/ ~Granted(a)

LaterOf(m, n) == IF m > n THEN m ELSE n

\* Once the grant is withdrawn, no request that begins more than the grace
\* period later is let in, whether the provider can be reached or not, and
\* whatever updates of earlier validations arrive late.  (A session created
\* after the withdrawal counts from its creation: loginWithAICard takes the
\* clock after the provider has answered.)
WithdrawalReaches ==
    \A q \in Requests :
        LET a == req[q].auth IN
        CardAt(q, "in") /\ ~Granted(a) =>
            req[q].now - LaterOf(withdrawn[a], cardSession[a].created) <= Grace
=============================================================================
