---------------------------- MODULE PasswordLogin ----------------------------
(***************************************************************************)
(* Signing in with a password: login and resolveSession of                 *)
(* human-auth-service.ts for password sessions, over the tables            *)
(* human_credentials, human_sessions and login_throttles of one person     *)
(* (human-auth-repository.ts), with the two administrator's scripts that   *)
(* change the credential: provision-public-owner.mts (replaceCredential)   *)
(* and finalize-aicard-owner-cutover.mts.                                  *)
(*                                                                         *)
(* A login is cut at its awaits.  Every database call is a statement or a  *)
(* transaction of its own; createSession is one INSERT ... SELECT, which   *)
(* reads the credential in its snapshot and commits later.                 *)
(***************************************************************************)
EXTENDS Integers, FiniteSets

CONSTANTS
    Attempts,     \* logins; a successful one makes one session
    Scopes,       \* what failures are counted for: the account, the source
    Limit,        \* THROTTLE_FAILURE_LIMIT
    Window,       \* THROTTLE_WINDOW_MS, in ticks
    Lock,         \* THROTTLE_LOCK_MS, in ticks
    MaxDelay,     \* bound: ticks a login may take
    LoginMaxClock, \* bound: ticks
    MaxResets,    \* bound: uses of the administrator's scripts
    Missing

ASSUME PasswordAssumption ==
    /\ Limit \in Nat \ {0} /\ Window \in Nat \ {0} /\ Lock \in Nat
    /\ Window <= Lock                      \* both are 15 minutes
    /\ MaxDelay \in Nat /\ MaxDelay < Window
    /\ LoginMaxClock \in Nat /\ MaxResets \in Nat
    /\ IsFiniteSet(Attempts)

VARIABLES
    loginClock,   \* the server's clock
    version,      \* human_credentials.credential_version; names the password too
    enabled,      \* human_credentials.status = 'active'
    throttle,     \* scope -> row of login_throttles, or Missing
    attempt,      \* the logins under way
    passwordSession, \* attempt -> row of human_sessions it made, or Missing
    resets        \* how often the credential was replaced or disabled

loginVars == <<loginClock, version, enabled, throttle, attempt, passwordSession, resets>>
credential == <<version, enabled, resets>>

NoLogin == [pc |-> "idle", now |-> 0, guess |-> 0, snap |-> Missing, todo |-> {}]

LoginInit ==
    /\ loginClock = 1 /\ version = 1 /\ enabled = TRUE /\ resets = 0
    /\ throttle = [sc \in Scopes |-> Missing]
    /\ attempt = [a \in Attempts |-> NoLogin]
    /\ passwordSession = [a \in Attempts |-> Missing]

LoginAt(a, pc) == attempt[a].pc = pc
LoginGo(a, pc) == attempt' = [attempt EXCEPT ![a].pc = pc]

-----------------------------------------------------------------------------
(* login                                                                   *)

\* until = 0 stands for locked_until IS NULL.
Locked(sc, now) == throttle[sc] # Missing /\ throttle[sc].until > now

\* The request arrives and the clock is read.  A guess names the password tried;
\* guess 0 is never one.
BeginLogin(a) ==
    /\ LoginAt(a, "idle") /\ passwordSession[a] = Missing
    /\ \E guess \in {0, version} :
          attempt' = [attempt EXCEPT ![a] =
            [NoLogin EXCEPT !.pc = "throttle", !.now = loginClock, !.guess = guess,
                            !.todo = Scopes]]
    /\ UNCHANGED <<loginClock, credential, throttle, passwordSession>>

\* One of the two queries for throttle rows, which are judged by the clock read
\* before: the login goes on when neither is locked, else LOGIN_LOCKED.
ReadThrottle(a, sc) ==
    /\ LoginAt(a, "throttle") /\ sc \in attempt[a].todo
    /\ LET rest == attempt[a].todo \ {sc} IN
       attempt' = [attempt EXCEPT ![a] =
         IF Locked(sc, attempt[a].now) THEN NoLogin
         ELSE [@ EXCEPT !.pc = IF rest = {} THEN "verify" ELSE "throttle", !.todo = rest]]
    /\ UNCHANGED <<loginClock, credential, throttle, passwordSession>>

\* verifyPassword against what findCredential has found: an active credential.
Matches(a) == enabled /\ attempt[a].guess = version

VerifyPassword(a) ==
    /\ LoginAt(a, "verify")
    /\ IF Matches(a)
         THEN LoginGo(a, "create")
         ELSE attempt' = [attempt EXCEPT ![a].pc = "fail", ![a].todo = Scopes]
    /\ UNCHANGED <<loginClock, credential, throttle, passwordSession>>

\* Mutant: one failure more before the lock.
AfterFailureLate(row, now) ==
    LET within == row # Missing /\ now - row.since < Window
        count  == IF within THEN row.count + 1 ELSE 1
    IN [count |-> count,
        since |-> IF within THEN row.since ELSE now,
        until |-> IF count > Limit THEN now + Lock ELSE 0]

\* What recordLoginFailure makes of a row, by the clock the login began at.
AfterFailure(row, now) ==
    LET within == row # Missing /\ now - row.since < Window
        count  == IF within THEN row.count + 1 ELSE 1
    IN [count |-> count,
        since |-> IF within THEN row.since ELSE now,
        until |-> IF count >= Limit THEN now + Lock ELSE 0]

\* A scope is written; after the last one the login is answered.
Written(a, sc) ==
    LET rest == attempt[a].todo \ {sc} IN
    attempt' = [attempt EXCEPT ![a] = IF rest = {} THEN NoLogin ELSE [@ EXCEPT !.todo = rest]]

\* One scope's recordLoginFailure; the advisory lock makes it one step.
RecordFailure(a, sc) ==
    /\ LoginAt(a, "fail") /\ sc \in attempt[a].todo
    /\ throttle' = [throttle EXCEPT ![sc] = AfterFailure(@, attempt[a].now)]
    /\ Written(a, sc)
    /\ UNCHANGED <<loginClock, credential, passwordSession>>

\* createSession: the SELECT's snapshot.  No active credential: no row, a throw.
SnapshotCredential(a) ==
    /\ LoginAt(a, "create")
    /\ IF enabled
         THEN attempt' = [attempt EXCEPT ![a].pc = "insert",
                            ![a].snap = [version |-> version, resets |-> resets]]
         ELSE attempt' = [attempt EXCEPT ![a] = NoLogin]
    /\ UNCHANGED <<loginClock, credential, throttle, passwordSession>>

\* createSession: the INSERT commits.
InsertSession(a) ==
    /\ LoginAt(a, "insert")
    /\ passwordSession' = [passwordSession EXCEPT ![a] =
                     [version |-> attempt[a].snap.version,
                      madeAt |-> attempt[a].snap.resets, revoked |-> FALSE]]
    /\ attempt' = [attempt EXCEPT ![a].pc = "clear", ![a].todo = Scopes]
    /\ UNCHANGED <<loginClock, credential, throttle>>

ClearThrottle(a, sc) ==
    /\ LoginAt(a, "clear") /\ sc \in attempt[a].todo
    /\ throttle' = [throttle EXCEPT ![sc] = Missing]
    /\ Written(a, sc)
    /\ UNCHANGED <<loginClock, credential, passwordSession>>

\* The connection or the process is gone, or a database call throws.
AbandonLogin(a) ==
    /\ ~LoginAt(a, "idle")
    /\ attempt' = [attempt EXCEPT ![a] = NoLogin]
    /\ UNCHANGED <<loginClock, credential, throttle, passwordSession>>

-----------------------------------------------------------------------------
(* Sessions and the credential                                             *)

\* Mutants: without the credential's version, without its status.
UsableAnyVersion(a) ==
    /\ passwordSession[a] # Missing /\ ~passwordSession[a].revoked
    /\ enabled

UsableWhenDisabled(a) ==
    /\ passwordSession[a] # Missing /\ ~passwordSession[a].revoked
    /\ passwordSession[a].version = version

\* resolveSession's condition for a password session (expiry left out).
PasswordUsable(a) ==
    /\ passwordSession[a] # Missing /\ ~passwordSession[a].revoked
    /\ enabled /\ passwordSession[a].version = version

RevokeAll == [a \in Attempts |->
    IF passwordSession[a] = Missing THEN Missing ELSE [passwordSession[a] EXCEPT !.revoked = TRUE]]

PasswordLogout(a) ==
    /\ PasswordUsable(a)
    /\ passwordSession' = [passwordSession EXCEPT ![a].revoked = TRUE]
    /\ UNCHANGED <<loginClock, credential, throttle, attempt>>

\* replaceCredential: a new password, a new version, every session revoked.
ReplaceCredential ==
    /\ resets < MaxResets
    /\ version' = version + 1 /\ enabled' = TRUE /\ resets' = resets + 1
    /\ passwordSession' = RevokeAll
    /\ UNCHANGED <<loginClock, throttle, attempt>>

\* finalizeAICardOwnerCutover with --apply; that an AI Card session of the
\* owner is active, which it requires, is a matter of FederatedSession.
Cutover ==
    /\ resets < MaxResets /\ enabled
    /\ enabled' = FALSE /\ resets' = resets + 1
    /\ passwordSession' = RevokeAll
    /\ UNCHANGED <<loginClock, version, throttle, attempt>>

LoginTick ==
    /\ loginClock < LoginMaxClock
    /\ \A a \in Attempts : ~LoginAt(a, "idle") => loginClock - attempt[a].now < MaxDelay
    /\ loginClock' = loginClock + 1
    /\ UNCHANGED <<credential, throttle, attempt, passwordSession>>

-----------------------------------------------------------------------------
LoginStep(a) ==
    \/ BeginLogin(a) \/ VerifyPassword(a) \/ SnapshotCredential(a) \/ InsertSession(a)
    \/ AbandonLogin(a)
    \/ \E sc \in Scopes :
          ReadThrottle(a, sc) \/ RecordFailure(a, sc) \/ ClearThrottle(a, sc)

\* The administrator's scripts.
Administer == ReplaceCredential \/ Cutover

LoginNext ==
    \/ \E a \in Attempts : LoginStep(a) \/ PasswordLogout(a)
    \/ Administer \/ LoginTick

LoginSpec == LoginInit /\ [][LoginNext]_loginVars

-----------------------------------------------------------------------------
ThrottleRow == [count : Nat \ {0}, since : Nat, until : Nat]
Snap == [version : Nat, resets : Nat]
PasswordSession == [version : Nat, madeAt : Nat, revoked : BOOLEAN]
Attempt == [pc : {"idle", "throttle", "verify", "fail", "create", "insert", "clear"},
            now : Nat, guess : Nat, snap : Snap \cup {Missing},
            todo : SUBSET Scopes]

\* Every variable keeps its type.
LoginTypeOK ==
    /\ loginClock \in Nat /\ version \in Nat /\ enabled \in BOOLEAN /\ resets \in Nat
    /\ throttle \in [Scopes -> ThrottleRow \cup {Missing}]
    /\ attempt \in [Attempts -> Attempt]
    /\ passwordSession \in [Attempts -> PasswordSession \cup {Missing}]

\* Between one success and the next, a window holds no more failures than the
\* limit allows plus, for every login the server works on at a time, two: one
\* already past the throttle when the limit was reached, and one that begins
\* in the moment by which such a late login, recording with the clock of its
\* start, ends the lock before the window (getThrottle, recordLoginFailure).
FailuresBounded ==
    \A sc \in Scopes : throttle[sc] # Missing =>
        throttle[sc].count <= Limit - 1 + 2 * Cardinality(Attempts)

\* A session that resolves was read from the credential as it is now: neither
\* one that existed when the credential was replaced or disabled, nor one whose
\* INSERT was under way then, resolves afterwards, not even once the credential
\* is active again (replaceCredential, the cutover, resolveSession).
NoSessionFromBefore ==
    \A a \in Attempts : PasswordUsable(a) => passwordSession[a].madeAt = resets
=============================================================================
