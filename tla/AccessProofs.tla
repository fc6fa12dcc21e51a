---------------------------- MODULE AccessProofs ----------------------------
(***************************************************************************)
(* How people and Agents come in, and what ends their coming in, for any   *)
(* number of logins, authorizations, requests, invitations and files.  One *)
(* section for each of the three specifications; they share no state.      *)
(*                                                                         *)
(* PasswordLogin.  A snapshot or a session carries a version that has been *)
(* the credential's, and while that version is active nothing has happened *)
(* to the credential since.  A replacement makes a version nobody carries, *)
(* and after a cutover only a replacement makes the credential active.     *)
(*                                                                         *)
(* FederatedSession.  The provider has exchanged every token but the       *)
(* newest under the key any holder of that token computes, so a request    *)
(* that refreshes is answered as long as the grant stands; what a request  *)
(* has read of its session is never later than the withdrawal or the       *)
(* session's creation; and a session that is ended stays revoked, because  *)
(* an update asks for a usable one.                                        *)
(*                                                                         *)
(* AgentAdmission.  A file's invitation, claim and identity are written    *)
(* once, before any request is made, so every claim on its way repeats     *)
(* them; a row leaves "pending" once; and finalizeRevocation reads the     *)
(* status that counts under the row's lock.                                *)
(***************************************************************************)
EXTENDS PasswordLogin, FederatedSession, AgentAdmission, FiniteSetTheorems, TLAPS

-----------------------------------------------------------------------------
(* PasswordLogin.                                                          *)

\* A version and a count of resets, read together, that are no newer than the
\* credential's, and the credential's own if the version still is.
ReadFrom(v, n) == v <= version /\ (v = version /\ enabled => n = resets)

\* What a login under way and a session know of the credential.
OriginInv ==
    \A a \in Attempts :
        /\ LoginAt(a, "insert") =>
             /\ attempt[a].snap \in Snap
             /\ ReadFrom(attempt[a].snap.version, attempt[a].snap.resets)
        /\ passwordSession[a] # Missing =>
             ReadFrom(passwordSession[a].version, passwordSession[a].madeAt)

LoginInv == LoginTypeOK /\ OriginInv

-----------------------------------------------------------------------------
LEMMA NoLoginType == NoLogin \in Attempt
BY DEF NoLogin, Attempt

\* A failure turns a row, or none, into a row.
LEMMA AfterFailureType ==
    ASSUME NEW old \in ThrottleRow \cup {Missing}, NEW now \in Nat
    PROVE  AfterFailure(old, now) \in ThrottleRow
<1> DEFINE within == old # Missing /\ now - old.since < Window
           count == IF within THEN old.count + 1 ELSE 1
<1>1. old # Missing => old.count \in Nat \ {0} /\ old.since \in Nat
  BY DEF ThrottleRow
<1>2. count \in Nat \ {0}
  BY <1>1
<1>3. (IF within THEN old.since ELSE now) \in Nat
  BY <1>1
<1>4. (IF count >= Limit THEN now + Lock ELSE 0) \in Nat
  BY <1>2, PasswordAssumption DEF PasswordAssumption
<1> HIDE DEF within, count
<1>5. [count |-> count, since |-> IF within THEN old.since ELSE now,
       until |-> IF count >= Limit THEN now + Lock ELSE 0] \in ThrottleRow
  BY <1>2, <1>3, <1>4 DEF ThrottleRow
<1> QED BY <1>5 DEF AfterFailure, within, count

\* The last scope of a login ends it.
LEMMA WrittenType ==
    ASSUME LoginTypeOK, NEW a \in Attempts, NEW sc \in Scopes, Written(a, sc)
    PROVE  /\ attempt' \in [Attempts -> Attempt]
           /\ \A b \in Attempts : LoginAt(b, "insert")' =>
                LoginAt(b, "insert") /\ attempt'[b].snap = attempt[b].snap
<1>1. attempt \in [Attempts -> Attempt]
  BY DEF LoginTypeOK
<1>2. [attempt[a] EXCEPT !.todo = attempt[a].todo \ {sc}] \in Attempt
  BY <1>1 DEF Attempt
<1>3. attempt' \in [Attempts -> Attempt]
  BY <1>1, <1>2, NoLoginType DEF Written
<1>4. ASSUME NEW b \in Attempts, LoginAt(b, "insert")'
      PROVE  LoginAt(b, "insert") /\ attempt'[b].snap = attempt[b].snap
  <2>1. CASE b # a
    BY <1>1, <1>4, <2>1 DEF Written, LoginAt
  <2>2. CASE b = a
    <3>1. attempt'[a] # NoLogin
      BY <1>4, <2>2 DEF LoginAt, NoLogin
    <3>2. attempt'[a] = [attempt[a] EXCEPT !.todo = attempt[a].todo \ {sc}]
      BY <1>1, <3>1 DEF Written
    <3> QED BY <1>1, <1>4, <2>2, <3>2 DEF LoginAt, Attempt
  <2> QED BY <2>1, <2>2
<1> QED BY <1>3, <1>4

-----------------------------------------------------------------------------
(* The invariant.                                                          *)

LEMMA LoginInitially == LoginInit => LoginInv
<1> SUFFICES ASSUME LoginInit PROVE LoginInv
  OBVIOUS
<1>1. LoginTypeOK
  BY NoLoginType DEF LoginInit, LoginTypeOK
<1>2. OriginInv
  BY DEF LoginInit, OriginInv, LoginAt, NoLogin
<1> QED BY <1>1, <1>2 DEF LoginInv

\* The steps that leave the credential and the sessions alone keep what is
\* known of them, if no login comes to its INSERT.
LEMMA OriginKept ==
    ASSUME OriginInv, UNCHANGED credential, UNCHANGED passwordSession,
           \A b \in Attempts : LoginAt(b, "insert")' =>
             LoginAt(b, "insert") /\ attempt'[b].snap = attempt[b].snap
    PROVE  OriginInv'
BY DEF OriginInv, ReadFrom, credential

LEMMA LoginStepKeeps ==
    ASSUME LoginInv, NEW a \in Attempts, LoginStep(a)
    PROVE  LoginInv'
<1>0. LoginTypeOK /\ OriginInv /\ attempt \in [Attempts -> Attempt] /\ attempt[a] \in Attempt
  BY DEF LoginInv, LoginTypeOK
<1>1. CASE BeginLogin(a)
  <2>1. PICK guess \in {0, version} :
          attempt' = [attempt EXCEPT ![a] =
            [NoLogin EXCEPT !.pc = "throttle", !.now = loginClock, !.guess = guess,
                            !.todo = Scopes]]
    BY <1>1 DEF BeginLogin
  <2>2. [NoLogin EXCEPT !.pc = "throttle", !.now = loginClock, !.guess = guess,
                        !.todo = Scopes] \in Attempt
    <3>1. guess \in Nat /\ loginClock \in Nat
      BY <1>0 DEF LoginTypeOK
    <3> QED BY <3>1 DEF NoLogin, Attempt
  <2>3. LoginTypeOK'
    BY <1>0, <1>1, <2>1, <2>2 DEF BeginLogin, LoginTypeOK, credential
  <2>4. \A b \in Attempts : LoginAt(b, "insert")' =>
          LoginAt(b, "insert") /\ attempt'[b].snap = attempt[b].snap
    BY <1>0, <2>1 DEF LoginAt, NoLogin
  <2> QED BY <1>0, <1>1, <2>3, <2>4, OriginKept DEF BeginLogin, LoginInv
<1>2. CASE VerifyPassword(a)
  <2>1. attempt' \in [Attempts -> Attempt]
    BY <1>0, <1>2 DEF VerifyPassword, LoginGo, Attempt
  <2>2. LoginTypeOK'
    BY <1>0, <1>2, <2>1 DEF VerifyPassword, LoginTypeOK, credential
  <2>3. \A b \in Attempts : LoginAt(b, "insert")' =>
          LoginAt(b, "insert") /\ attempt'[b].snap = attempt[b].snap
    BY <1>0, <1>2 DEF VerifyPassword, LoginAt, LoginGo, Attempt
  <2> QED BY <1>0, <1>2, <2>2, <2>3, OriginKept DEF VerifyPassword, LoginInv
<1>3. CASE SnapshotCredential(a)
  <2>1. [version |-> version, resets |-> resets] \in Snap
    BY <1>0 DEF LoginTypeOK, Snap
  <2>2. attempt' \in [Attempts -> Attempt]
    BY <1>0, <1>3, <2>1, NoLoginType DEF SnapshotCredential, Attempt
  <2>3. LoginTypeOK'
    BY <1>0, <1>3, <2>2 DEF SnapshotCredential, LoginTypeOK, credential
  <2>4. ASSUME NEW b \in Attempts, LoginAt(b, "insert")'
        PROVE  attempt'[b].snap \in Snap
               /\ ReadFrom(attempt'[b].snap.version, attempt'[b].snap.resets)
    <3>1. CASE b # a
      BY <1>0, <1>3, <2>4, <3>1 DEF SnapshotCredential, LoginAt, OriginInv
    <3>2. CASE b = a
      <4>1. enabled
        BY <1>0, <1>3, <2>4, <3>2 DEF SnapshotCredential, LoginAt, NoLogin
      <4>2. attempt'[a].snap = [version |-> version, resets |-> resets]
        BY <1>0, <1>3, <4>1 DEF SnapshotCredential, Attempt
      <4>3. version <= version
        BY <1>0 DEF LoginTypeOK
      <4> QED BY <2>1, <3>2, <4>2, <4>3 DEF ReadFrom
    <3> QED BY <3>1, <3>2
  <2>5. OriginInv'
    BY <1>0, <1>3, <2>4 DEF SnapshotCredential, OriginInv, ReadFrom, credential
  <2> QED BY <2>3, <2>5 DEF LoginInv
<1>4. CASE InsertSession(a)
  <2>1. attempt[a].snap \in Snap
    BY <1>0, <1>4 DEF InsertSession, OriginInv, Attempt
  <2>2. attempt' \in [Attempts -> Attempt]
    BY <1>0, <1>4 DEF InsertSession, Attempt
  <2>3. passwordSession' \in [Attempts -> PasswordSession \cup {Missing}]
    BY <1>0, <1>4, <2>1 DEF InsertSession, LoginTypeOK, PasswordSession, Snap
  <2>4. LoginTypeOK'
    BY <1>0, <1>4, <2>2, <2>3 DEF InsertSession, LoginTypeOK, credential
  <2>5. OriginInv'
    BY <1>0, <1>4 DEF InsertSession, LoginTypeOK, OriginInv, ReadFrom, LoginAt, credential
  <2> QED BY <2>4, <2>5 DEF LoginInv
<1>5. CASE AbandonLogin(a)
  <2>1. LoginTypeOK'
    BY <1>0, <1>5, NoLoginType DEF AbandonLogin, LoginTypeOK, credential
  <2>2. \A b \in Attempts : LoginAt(b, "insert")' =>
          LoginAt(b, "insert") /\ attempt'[b].snap = attempt[b].snap
    BY <1>0, <1>5 DEF AbandonLogin, LoginAt, NoLogin
  <2> QED BY <1>0, <1>5, <2>1, <2>2, OriginKept DEF AbandonLogin, LoginInv
<1>6. ASSUME NEW sc \in Scopes, RecordFailure(a, sc) PROVE LoginInv'
  <2>1. attempt[a].now \in Nat /\ throttle[sc] \in ThrottleRow \cup {Missing}
    BY <1>0 DEF LoginTypeOK, Attempt
  <2>2. AfterFailure(throttle[sc], attempt[a].now) \in ThrottleRow
    BY <2>1, AfterFailureType
  <2>3. throttle' \in [Scopes -> ThrottleRow \cup {Missing}]
    BY <1>0, <1>6, <2>2 DEF RecordFailure, LoginTypeOK
  <2>4. /\ attempt' \in [Attempts -> Attempt]
        /\ \A b \in Attempts : LoginAt(b, "insert")' =>
             LoginAt(b, "insert") /\ attempt'[b].snap = attempt[b].snap
    BY <1>0, <1>6, WrittenType DEF RecordFailure
  <2>5. LoginTypeOK'
    BY <1>0, <1>6, <2>3, <2>4 DEF RecordFailure, LoginTypeOK, credential
  <2> QED BY <1>0, <1>6, <2>4, <2>5, OriginKept DEF RecordFailure, LoginInv
<1>7. ASSUME NEW sc \in Scopes, ClearThrottle(a, sc) PROVE LoginInv'
  <2>1. /\ attempt' \in [Attempts -> Attempt]
        /\ \A b \in Attempts : LoginAt(b, "insert")' =>
             LoginAt(b, "insert") /\ attempt'[b].snap = attempt[b].snap
    BY <1>0, <1>7, WrittenType DEF ClearThrottle
  <2>2. LoginTypeOK'
    BY <1>0, <1>7, <2>1 DEF ClearThrottle, LoginTypeOK, credential
  <2> QED BY <1>0, <1>7, <2>1, <2>2, OriginKept DEF ClearThrottle, LoginInv
<1>8. ASSUME NEW sc \in Scopes, ReadThrottle(a, sc) PROVE LoginInv'
  <2>1. [attempt[a] EXCEPT
           !.pc = IF attempt[a].todo \ {sc} = {} THEN "verify" ELSE "throttle",
           !.todo = attempt[a].todo \ {sc}] \in Attempt
    BY <1>0 DEF Attempt
  <2>2. attempt' \in [Attempts -> Attempt]
    BY <1>0, <1>8, <2>1, NoLoginType DEF ReadThrottle
  <2>3. LoginTypeOK'
    BY <1>0, <1>8, <2>2 DEF ReadThrottle, LoginTypeOK, credential
  <2>4. attempt'[a].pc # "insert"
    BY <1>0, <1>8 DEF ReadThrottle, NoLogin, Attempt
  <2>5. \A b \in Attempts : LoginAt(b, "insert")' =>
          LoginAt(b, "insert") /\ attempt'[b].snap = attempt[b].snap
    BY <1>0, <1>8, <2>4 DEF ReadThrottle, LoginAt
  <2> QED BY <1>0, <1>8, <2>3, <2>5, OriginKept DEF ReadThrottle, LoginInv
<1> QED BY <1>1, <1>2, <1>3, <1>4, <1>5, <1>6, <1>7, <1>8 DEF LoginStep

\* Only the flag of a session changes in a logout.
LEMMA LogoutKeeps ==
    ASSUME LoginInv, NEW a \in Attempts, PasswordLogout(a)
    PROVE  LoginInv'
<1>1. passwordSession[a] \in PasswordSession
  BY DEF LoginInv, LoginTypeOK, PasswordLogout, PasswordUsable
<1>2. LoginTypeOK'
  BY <1>1 DEF LoginInv, LoginTypeOK, PasswordLogout, PasswordSession, credential
<1>3. \A b \in Attempts : passwordSession'[b] # Missing =>
        /\ passwordSession[b] # Missing
        /\ passwordSession'[b].version = passwordSession[b].version
        /\ passwordSession'[b].madeAt = passwordSession[b].madeAt
  BY <1>1 DEF LoginInv, LoginTypeOK, PasswordLogout, PasswordUsable, PasswordSession
<1>4. OriginInv'
  BY <1>3 DEF LoginInv, OriginInv, ReadFrom, LoginAt, PasswordLogout, credential
<1> QED BY <1>2, <1>4 DEF LoginInv

\* Revoking every session keeps where each came from.
LEMMA RevokeAllKeeps ==
    ASSUME LoginTypeOK, passwordSession' = RevokeAll
    PROVE  /\ passwordSession' \in [Attempts -> PasswordSession \cup {Missing}]
           /\ \A a \in Attempts : passwordSession'[a] # Missing =>
                /\ passwordSession[a] # Missing
                /\ passwordSession'[a].version = passwordSession[a].version
                /\ passwordSession'[a].madeAt = passwordSession[a].madeAt
<1>1. \A a \in Attempts : passwordSession[a] # Missing =>
        [passwordSession[a] EXCEPT !.revoked = TRUE] \in PasswordSession
  BY DEF LoginTypeOK, PasswordSession
<1>2. passwordSession' \in [Attempts -> PasswordSession \cup {Missing}]
  BY <1>1 DEF RevokeAll
<1>3. ASSUME NEW a \in Attempts, passwordSession'[a] # Missing
      PROVE  /\ passwordSession[a] # Missing
             /\ passwordSession'[a].version = passwordSession[a].version
             /\ passwordSession'[a].madeAt = passwordSession[a].madeAt
  <2>1. passwordSession[a] # Missing
    BY <1>3 DEF RevokeAll
  <2>2. passwordSession'[a] = [passwordSession[a] EXCEPT !.revoked = TRUE]
    BY <2>1 DEF RevokeAll
  <2> QED BY <2>1, <2>2 DEF LoginTypeOK, PasswordSession
<1> QED BY <1>2, <1>3

\* A replacement leaves nobody with the new version.
LEMMA ReplaceKeeps ==
    ASSUME LoginInv, ReplaceCredential
    PROVE  LoginInv'
<1>0. LoginTypeOK /\ OriginInv
  BY DEF LoginInv
<1>1. LoginTypeOK'
  BY <1>0, RevokeAllKeeps DEF ReplaceCredential, LoginTypeOK
<1>2. \A v, n \in Nat : ReadFrom(v, n) => ReadFrom(v, n)'
  BY <1>0 DEF ReplaceCredential, LoginTypeOK, ReadFrom
<1>3. ASSUME NEW a \in Attempts, LoginAt(a, "insert")'
      PROVE  attempt'[a].snap \in Snap
             /\ ReadFrom(attempt[a].snap.version, attempt[a].snap.resets)'
  <2>1. LoginAt(a, "insert") /\ attempt[a].snap \in Snap
    BY <1>0, <1>3 DEF ReplaceCredential, LoginAt, OriginInv, LoginTypeOK, Attempt
  <2> QED BY <1>0, <1>2, <2>1 DEF ReplaceCredential, OriginInv, Snap
<1>4. ASSUME NEW a \in Attempts, passwordSession'[a] # Missing
      PROVE  ReadFrom(passwordSession[a].version, passwordSession[a].madeAt)'
  <2>1. passwordSession[a] \in PasswordSession /\ passwordSession[a] # Missing
        /\ passwordSession'[a].version = passwordSession[a].version
        /\ passwordSession'[a].madeAt = passwordSession[a].madeAt
    BY <1>0, <1>4, RevokeAllKeeps DEF ReplaceCredential, LoginTypeOK
  <2> QED BY <1>0, <1>2, <2>1 DEF OriginInv, PasswordSession
<1>5. OriginInv'
  BY <1>3, <1>4 DEF OriginInv
<1> QED BY <1>1, <1>5 DEF LoginInv

\* A cutover leaves the credential disabled.
LEMMA CutoverKeeps ==
    ASSUME LoginInv, Cutover
    PROVE  LoginInv'
<1>0. LoginTypeOK /\ OriginInv
  BY DEF LoginInv
<1>1. LoginTypeOK'
  <2>1. enabled' \in BOOLEAN
    BY DEF Cutover
  <2>2. resets' \in Nat
    BY <1>0 DEF Cutover, LoginTypeOK
  <2>3. passwordSession' \in [Attempts -> PasswordSession \cup {Missing}]
    BY <1>0, RevokeAllKeeps DEF Cutover
  <2> QED BY <1>0, <2>1, <2>2, <2>3 DEF Cutover, LoginTypeOK
<1>2. OriginInv'
  BY <1>0, RevokeAllKeeps DEF Cutover, OriginInv, ReadFrom, LoginAt
<1> QED BY <1>1, <1>2 DEF LoginInv

LEMMA LoginInductive == LoginInv /\ [LoginNext]_loginVars => LoginInv'
<1> SUFFICES ASSUME LoginInv, [LoginNext]_loginVars PROVE LoginInv'
  OBVIOUS
<1>1. ASSUME NEW a \in Attempts, LoginStep(a) PROVE LoginInv'
  BY <1>1, LoginStepKeeps
<1>2. ASSUME NEW a \in Attempts, PasswordLogout(a) PROVE LoginInv'
  BY <1>2, LogoutKeeps
<1>3. CASE Administer
  BY <1>3, ReplaceKeeps, CutoverKeeps DEF Administer
<1>4. CASE LoginTick
  <2>1. LoginTypeOK'
    BY <1>4 DEF LoginInv, LoginTypeOK, LoginTick, credential
  <2>2. OriginInv'
    BY <1>4, OriginKept DEF LoginInv, LoginTick, LoginAt
  <2> QED BY <2>1, <2>2 DEF LoginInv
<1>5. CASE UNCHANGED loginVars
  BY <1>5 DEF LoginInv, LoginTypeOK, OriginInv, ReadFrom, LoginAt, loginVars
<1> QED BY <1>1, <1>2, <1>3, <1>4, <1>5 DEF LoginNext

-----------------------------------------------------------------------------
(* The theorems.                                                           *)

\* The types are right: rows, sessions and the places of a login keep their
\* shape (login, recordLoginFailure, createSession).
THEOREM LoginTypeCorrect == LoginSpec => []LoginTypeOK
<1>1. LoginInv => LoginTypeOK
  BY DEF LoginInv
<1> QED BY <1>1, LoginInitially, LoginInductive, PTL DEF LoginSpec

\* No session from before a reset resolves after it, even one whose INSERT was
\* under way during the reset, whatever the number of logins and resets
\* (createSession, replaceCredential, the cutover, resolveSession).
THEOREM ResetsEndSessions == LoginSpec => []NoSessionFromBefore
<1>1. LoginInv => NoSessionFromBefore
  BY DEF LoginInv, OriginInv, ReadFrom, NoSessionFromBefore, PasswordUsable
<1> QED BY <1>1, LoginInitially, LoginInductive, PTL DEF LoginSpec

-----------------------------------------------------------------------------
(* PasswordLogin: how many failures a row counts.  A login records by the  *)
(* clock of its start, so a late one can move the end of the lock back,    *)
(* and a login may begin at that end while others of before are still to   *)
(* record.  That happens once: afterwards the lock ends after the window,  *)
(* and what begins then starts a count of its own.  A login takes at most  *)
(* half of the lock, else it could happen again and again.                 *)

ShortLogins == 2 * MaxDelay <= Lock

\* The logins that may still be counted in the row of a scope, those of them
\* that its window holds, and those that began before its lock ends.
Uncounted(sc) ==
    {a \in Attempts : \/ LoginAt(a, "throttle") /\ sc \notin attempt[a].todo
                      \/ LoginAt(a, "verify")
                      \/ LoginAt(a, "fail") /\ sc \in attempt[a].todo}
InWindow(sc) == {a \in Uncounted(sc) : attempt[a].now < throttle[sc].since + Window}
BeforeEnd(sc) == {a \in InWindow(sc) : attempt[a].now < throttle[sc].until}

\* A login is at most MaxDelay old, and no window begins in the future.
ClockInv ==
    /\ \A a \in Attempts : ~LoginAt(a, "idle") =>
         attempt[a].now <= loginClock /\ loginClock <= attempt[a].now + MaxDelay
    /\ \A sc \in Scopes : throttle[sc] # Missing => throttle[sc].since <= loginClock

\* Nothing that began at the end of the lock has recorded yet; what began
\* before it began when the lock was set or earlier, and so did the window.
FirstLock(sc) ==
    /\ throttle[sc].count + Cardinality(BeforeEnd(sc)) <= Limit - 1 + Cardinality(Attempts)
    /\ \A a \in Uncounted(sc) :
         attempt[a].now < throttle[sc].until =>
           attempt[a].now <= throttle[sc].until - Lock + MaxDelay
    /\ throttle[sc].since <= throttle[sc].until - Lock + MaxDelay

\* The lock ends after the window, and from now on that stays so.
LastLock(sc) ==
    /\ throttle[sc].since + Window <= throttle[sc].until
    /\ throttle[sc].since + MaxDelay <= loginClock
    /\ throttle[sc].count + Cardinality(InWindow(sc)) <= Limit - 1 + 2 * Cardinality(Attempts)

CountOK(sc) ==
    throttle[sc] # Missing =>
      throttle[sc].count < Limit \/ FirstLock(sc) \/ LastLock(sc)

CountInv == ClockInv /\ \A sc \in Scopes : CountOK(sc)

-----------------------------------------------------------------------------
LEMMA AttemptsCounted ==
    ASSUME NEW S \in SUBSET Attempts
    PROVE  /\ Cardinality(S) \in Nat /\ Cardinality(Attempts) \in Nat
           /\ Cardinality(S) <= Cardinality(Attempts)
<1>1. IsFiniteSet(Attempts)
  BY PasswordAssumption DEF PasswordAssumption
<1>2. IsFiniteSet(S) /\ Cardinality(S) <= Cardinality(Attempts)
  BY <1>1, FS_Subset
<1> QED BY <1>1, <1>2, FS_CardinalityType

LEMMA FewerCounted ==
    ASSUME NEW S \in SUBSET Attempts, NEW T \in SUBSET S
    PROVE  Cardinality(T) <= Cardinality(S)
<1>1. IsFiniteSet(Attempts)
  BY PasswordAssumption DEF PasswordAssumption
<1>2. IsFiniteSet(S)
  BY <1>1, FS_Subset
<1> QED BY <1>2, FS_Subset

LEMMA OneFewerCounted ==
    ASSUME NEW S \in SUBSET Attempts, NEW T \in SUBSET S, NEW x \in S, x \notin T
    PROVE  Cardinality(T) <= Cardinality(S) - 1
<1>1. IsFiniteSet(Attempts)
  BY PasswordAssumption DEF PasswordAssumption
<1>2. IsFiniteSet(S)
  BY <1>1, FS_Subset
<1>3. IsFiniteSet(S \ {x}) /\ Cardinality(S \ {x}) = Cardinality(S) - 1
  BY <1>2, FS_RemoveElement
<1>4. T \in SUBSET (S \ {x})
  OBVIOUS
<1> QED BY <1>3, <1>4, FS_Subset

LEMMA LoginNumbers ==
    ASSUME LoginTypeOK
    PROVE  /\ loginClock \in Nat /\ Limit \in Nat /\ Window \in Nat /\ Lock \in Nat
           /\ Window <= Lock /\ MaxDelay \in Nat
           /\ \A a \in Attempts : attempt[a].now \in Nat
           /\ \A sc \in Scopes : throttle[sc] # Missing =>
                throttle[sc].count \in Nat /\ throttle[sc].since \in Nat /\ throttle[sc].until \in Nat
BY PasswordAssumption DEF PasswordAssumption, LoginTypeOK, Attempt, ThrottleRow

-----------------------------------------------------------------------------
(* A step that counts nothing in a scope.                                  *)

LEMMA CountStays ==
    ASSUME LoginTypeOK, NEW sc \in Scopes, CountOK(sc), throttle'[sc] = throttle[sc],
           loginClock' \in Nat, loginClock <= loginClock',
           \A a \in Uncounted(sc)' : a \in Uncounted(sc) /\ attempt'[a].now = attempt[a].now
    PROVE  CountOK(sc)'
<1> SUFFICES ASSUME throttle[sc] # Missing PROVE CountOK(sc)'
  BY DEF CountOK
<1>0. /\ throttle[sc].count \in Nat /\ throttle[sc].since \in Nat /\ throttle[sc].until \in Nat
      /\ loginClock \in Nat /\ Limit \in Nat /\ Window \in Nat /\ MaxDelay \in Nat
  BY LoginNumbers
<1>1. /\ InWindow(sc)' \in SUBSET InWindow(sc) /\ BeforeEnd(sc)' \in SUBSET BeforeEnd(sc)
      /\ InWindow(sc) \in SUBSET Attempts /\ BeforeEnd(sc) \in SUBSET Attempts
      /\ InWindow(sc)' \in SUBSET Attempts /\ BeforeEnd(sc)' \in SUBSET Attempts
  BY DEF InWindow, BeforeEnd, Uncounted
<1>2. /\ Cardinality(InWindow(sc)') <= Cardinality(InWindow(sc))
      /\ Cardinality(BeforeEnd(sc)') <= Cardinality(BeforeEnd(sc))
  BY <1>1, FewerCounted
<1>3. /\ Cardinality(InWindow(sc)) \in Nat /\ Cardinality(BeforeEnd(sc)) \in Nat
      /\ Cardinality(InWindow(sc)') \in Nat /\ Cardinality(BeforeEnd(sc)') \in Nat
      /\ Cardinality(Attempts) \in Nat
  BY <1>1, AttemptsCounted
<1>4. CASE throttle[sc].count < Limit
  BY <1>4 DEF CountOK
<1>5. CASE FirstLock(sc)
  <2>1. throttle[sc].count + Cardinality(BeforeEnd(sc)') <= Limit - 1 + Cardinality(Attempts)
    BY <1>0, <1>2, <1>3, <1>5 DEF FirstLock
  <2>2. \A a \in Uncounted(sc)' :
          attempt'[a].now < throttle[sc].until =>
            attempt'[a].now <= throttle[sc].until - Lock + MaxDelay
    BY <1>5 DEF FirstLock
  <2>3. FirstLock(sc)'
    BY <1>5, <2>1, <2>2 DEF FirstLock
  <2> QED BY <2>3 DEF CountOK
<1>6. CASE LastLock(sc)
  <2>1. throttle[sc].since + MaxDelay <= loginClock'
    BY <1>0, <1>6 DEF LastLock
  <2>2. throttle[sc].count + Cardinality(InWindow(sc)') <= Limit - 1 + 2 * Cardinality(Attempts)
    BY <1>0, <1>2, <1>3, <1>6 DEF LastLock
  <2>3. LastLock(sc)'
    BY <1>6, <2>1, <2>2 DEF LastLock
  <2> QED BY <2>3 DEF CountOK
<1> QED BY <1>4, <1>5, <1>6 DEF CountOK

\* A scope a login has written is no more to be written by it.
LEMMA WrittenCounts ==
    ASSUME LoginTypeOK, NEW x \in Attempts, NEW s \in Scopes, NEW sc \in Scopes,
           Written(x, s), ~LoginAt(x, "verify"), ~LoginAt(x, "throttle")
    PROVE  \A a \in Uncounted(sc)' :
             /\ a \in Uncounted(sc) /\ attempt'[a].now = attempt[a].now
             /\ sc = s => a # x
<1>0. attempt \in [Attempts -> Attempt]
  BY DEF LoginTypeOK
<1> SUFFICES ASSUME NEW a \in Uncounted(sc)'
             PROVE  /\ a \in Uncounted(sc) /\ attempt'[a].now = attempt[a].now
                    /\ sc = s => a # x
  OBVIOUS
<1>1. CASE a # x
  <2>1. a \in Attempts /\ attempt'[a] = attempt[a]
    BY <1>0, <1>1 DEF Written, Uncounted
  <2> QED BY <1>1, <2>1 DEF Uncounted, LoginAt
<1>2. CASE a = x
  <2>1. attempt'[x] # NoLogin
    BY <1>2 DEF Uncounted, LoginAt, NoLogin
  <2>2. attempt'[x] = [attempt[x] EXCEPT !.todo = attempt[x].todo \ {s}]
    BY <1>0, <2>1 DEF Written
  <2>3. attempt'[x].pc = attempt[x].pc /\ attempt'[x].now = attempt[x].now
        /\ attempt'[x].todo = attempt[x].todo \ {s}
    BY <1>0, <2>2 DEF Attempt
  <2> QED BY <1>2, <2>3 DEF Uncounted, LoginAt
<1> QED BY <1>1, <1>2

\* A read of one scope's row changes nothing for another's.
LEMMA ReadElsewhere ==
    ASSUME LoginTypeOK, NEW x \in Attempts, NEW s \in Scopes, NEW sc \in Scopes,
           ReadThrottle(x, s), sc # s \/ Locked(s, attempt[x].now)
    PROVE  \A a \in Uncounted(sc)' : a \in Uncounted(sc) /\ attempt'[a].now = attempt[a].now
<1>0. attempt \in [Attempts -> Attempt]
  BY DEF LoginTypeOK
<1> SUFFICES ASSUME NEW a \in Uncounted(sc)'
             PROVE  a \in Uncounted(sc) /\ attempt'[a].now = attempt[a].now
  OBVIOUS
<1>1. CASE a # x
  <2>1. a \in Attempts /\ attempt'[a] = attempt[a]
    BY <1>0, <1>1 DEF ReadThrottle, Uncounted
  <2> QED BY <2>1 DEF Uncounted, LoginAt
<1>2. CASE a = x
  <2>1. attempt'[x] # NoLogin
    BY <1>2 DEF Uncounted, LoginAt, NoLogin
  <2>2. /\ attempt'[x].now = attempt[x].now /\ attempt'[x].todo = attempt[x].todo \ {s}
        /\ attempt'[x].pc = IF attempt[x].todo \ {s} = {} THEN "verify" ELSE "throttle"
        /\ ~Locked(s, attempt[x].now)
    BY <1>0, <2>1 DEF ReadThrottle, Attempt
  <2>3. sc \notin attempt[x].todo
    BY <1>2, <2>2 DEF Uncounted, LoginAt
  <2> QED BY <1>2, <2>2, <2>3 DEF Uncounted, LoginAt, ReadThrottle
<1> QED BY <1>1, <1>2

\* What passes the throttle began at the end of every lock, or after it.
LEMMA CountPasses ==
    ASSUME LoginTypeOK, NEW x \in Attempts, NEW sc \in Scopes, ReadThrottle(x, sc),
           ~Locked(sc, attempt[x].now), CountOK(sc)
    PROVE  CountOK(sc)'
<1> SUFFICES ASSUME throttle[sc] # Missing PROVE CountOK(sc)'
  BY DEF ReadThrottle, CountOK
<1>0. /\ throttle[sc].count \in Nat /\ throttle[sc].since \in Nat /\ throttle[sc].until \in Nat
      /\ loginClock \in Nat /\ Limit \in Nat /\ Window \in Nat /\ MaxDelay \in Nat
      /\ attempt \in [Attempts -> Attempt] /\ attempt[x].now \in Nat
  BY LoginNumbers DEF LoginTypeOK
<1>1. throttle' = throttle /\ loginClock' = loginClock /\ throttle[sc].until <= attempt[x].now
  BY <1>0 DEF ReadThrottle, Locked
<1>2. /\ attempt'[x].now = attempt[x].now
      /\ \A a \in Attempts : a # x => attempt'[a] = attempt[a]
  BY <1>0 DEF ReadThrottle, Attempt
<1>3. \A a \in Uncounted(sc)' : a # x => a \in Uncounted(sc) /\ attempt'[a].now = attempt[a].now
  BY <1>2 DEF Uncounted, LoginAt
<1>4. CASE throttle[sc].count < Limit
  BY <1>1, <1>4 DEF CountOK
<1>5. CASE FirstLock(sc)
  <2>1. x \notin BeforeEnd(sc)'
    BY <1>0, <1>1, <1>2 DEF BeforeEnd
  <2>2. BeforeEnd(sc)' \in SUBSET BeforeEnd(sc) /\ BeforeEnd(sc) \in SUBSET Attempts
        /\ BeforeEnd(sc)' \in SUBSET Attempts
    BY <1>1, <1>3, <2>1 DEF BeforeEnd, InWindow, Uncounted
  <2>3. Cardinality(BeforeEnd(sc)') <= Cardinality(BeforeEnd(sc))
        /\ Cardinality(BeforeEnd(sc)) \in Nat /\ Cardinality(BeforeEnd(sc)') \in Nat
        /\ Cardinality(Attempts) \in Nat
    BY <2>2, FewerCounted, AttemptsCounted
  <2>4. throttle[sc].count + Cardinality(BeforeEnd(sc)') <= Limit - 1 + Cardinality(Attempts)
    BY <1>0, <1>5, <2>3 DEF FirstLock
  <2>5. \A a \in Uncounted(sc)' :
          attempt'[a].now < throttle[sc].until =>
            attempt'[a].now <= throttle[sc].until - Lock + MaxDelay
    BY <1>0, <1>1, <1>2, <1>3, <1>5 DEF FirstLock
  <2>6. FirstLock(sc)'
    BY <1>1, <1>5, <2>4, <2>5 DEF FirstLock
  <2> QED BY <2>6 DEF CountOK
<1>6. CASE LastLock(sc)
  <2>1. x \notin InWindow(sc)'
    BY <1>0, <1>1, <1>2, <1>6 DEF InWindow, LastLock
  <2>2. InWindow(sc)' \in SUBSET InWindow(sc) /\ InWindow(sc) \in SUBSET Attempts
        /\ InWindow(sc)' \in SUBSET Attempts
    BY <1>1, <1>3, <2>1 DEF InWindow, Uncounted
  <2>3. Cardinality(InWindow(sc)') <= Cardinality(InWindow(sc))
        /\ Cardinality(InWindow(sc)) \in Nat /\ Cardinality(InWindow(sc)') \in Nat
        /\ Cardinality(Attempts) \in Nat
    BY <2>2, FewerCounted, AttemptsCounted
  <2>4. throttle[sc].count + Cardinality(InWindow(sc)') <= Limit - 1 + 2 * Cardinality(Attempts)
    BY <1>0, <1>6, <2>3 DEF LastLock
  <2>5. LastLock(sc)'
    BY <1>1, <1>6, <2>4 DEF LastLock
  <2> QED BY <2>5 DEF CountOK
<1> QED BY <1>4, <1>5, <1>6 DEF CountOK

-----------------------------------------------------------------------------
(* A failure is counted.                                                   *)

\* A count that comes to the limit sets the first lock.
LEMMA LimitReached ==
    ASSUME LoginTypeOK, LoginTypeOK', ClockInv, NEW x \in Attempts, NEW sc \in Scopes,
           RecordFailure(x, sc), throttle'[sc].count = Limit,
           throttle[sc] # Missing => throttle[sc].since <= loginClock
    PROVE  FirstLock(sc)'
<1>0. /\ loginClock \in Nat /\ Limit \in Nat /\ Window \in Nat /\ Lock \in Nat /\ MaxDelay \in Nat
      /\ \A a \in Attempts : attempt[a].now \in Nat
      /\ throttle \in [Scopes -> ThrottleRow \cup {Missing}]
  BY LoginNumbers DEF LoginTypeOK
<1>1. throttle'[sc] = AfterFailure(throttle[sc], attempt[x].now)
  BY <1>0 DEF RecordFailure
<1>2. throttle'[sc].until = attempt[x].now + Lock
      /\ (throttle'[sc].since = attempt[x].now
          \/ (throttle[sc] # Missing /\ throttle'[sc].since = throttle[sc].since))
  BY <1>0, <1>1 DEF AfterFailure
<1>3. attempt[x].now <= loginClock /\ loginClock <= attempt[x].now + MaxDelay
  BY DEF ClockInv, RecordFailure, LoginAt
<1>4. \A a \in Uncounted(sc)' : a \in Uncounted(sc) /\ attempt'[a].now = attempt[a].now /\ a # x
  BY WrittenCounts DEF RecordFailure, LoginAt
<1>5. \A a \in Uncounted(sc) : a \in Attempts /\ attempt[a].now <= loginClock
  BY DEF ClockInv, Uncounted, LoginAt
<1>6. BeforeEnd(sc)' \in SUBSET Attempts /\ x \notin BeforeEnd(sc)'
  BY <1>4 DEF BeforeEnd, InWindow, Uncounted
<1>7. Cardinality(BeforeEnd(sc)') <= Cardinality(Attempts) - 1
      /\ Cardinality(BeforeEnd(sc)') \in Nat /\ Cardinality(Attempts) \in Nat
  BY <1>6, OneFewerCounted, AttemptsCounted
<1>8. throttle'[sc].count + Cardinality(BeforeEnd(sc)') <= Limit - 1 + Cardinality(Attempts)
  BY <1>0, <1>7
<1>9. \A a \in Uncounted(sc)' : attempt'[a].now <= throttle'[sc].until - Lock + MaxDelay
  BY <1>0, <1>2, <1>3, <1>4, <1>5
<1>10. throttle'[sc].since <= throttle'[sc].until - Lock + MaxDelay
  <2>1. throttle[sc] # Missing => throttle[sc].since \in Nat
    BY LoginNumbers
  <2> QED BY <1>0, <1>2, <1>3, <2>1
<1> QED BY <1>8, <1>9, <1>10 DEF FirstLock

LEMMA CountRecords ==
    ASSUME ShortLogins, LoginTypeOK, LoginTypeOK', ClockInv, NEW x \in Attempts, NEW sc \in Scopes,
           RecordFailure(x, sc), CountOK(sc)
    PROVE  CountOK(sc)'
<1> SUFFICES ASSUME ~(throttle'[sc].count < Limit) PROVE FirstLock(sc)' \/ LastLock(sc)'
  BY DEF CountOK
<1>0. /\ loginClock \in Nat /\ Limit \in Nat /\ Window \in Nat /\ Lock \in Nat /\ MaxDelay \in Nat
      /\ Window <= Lock /\ 2 * MaxDelay <= Lock /\ Limit # 0
      /\ \A a \in Attempts : attempt[a].now \in Nat
      /\ throttle \in [Scopes -> ThrottleRow \cup {Missing}]
  BY LoginNumbers, PasswordAssumption DEF LoginTypeOK, ShortLogins, PasswordAssumption
<1>1. throttle'[sc] = AfterFailure(throttle[sc], attempt[x].now) /\ loginClock' = loginClock
  BY <1>0 DEF RecordFailure
<1>2. throttle[sc] # Missing =>
        /\ throttle[sc].count \in Nat /\ throttle[sc].since \in Nat /\ throttle[sc].until \in Nat
        /\ throttle[sc].since <= loginClock
  BY LoginNumbers DEF ClockInv
<1>3. attempt[x].now <= loginClock /\ loginClock <= attempt[x].now + MaxDelay
  BY DEF ClockInv, RecordFailure, LoginAt
<1>4. \A a \in Uncounted(sc)' : a \in Uncounted(sc) /\ attempt'[a].now = attempt[a].now /\ a # x
  BY WrittenCounts DEF RecordFailure, LoginAt
<1>5. \A a \in Uncounted(sc) : a \in Attempts /\ attempt[a].now <= loginClock
  BY DEF ClockInv, Uncounted, LoginAt
<1>6. x \in Uncounted(sc)
  BY DEF RecordFailure, Uncounted
<1>7. CASE throttle[sc] = Missing \/ ~(attempt[x].now - throttle[sc].since < Window)
  <2>1. throttle'[sc].count = 1
    BY <1>1, <1>7 DEF AfterFailure
  <2>2. throttle'[sc].count = Limit
    BY <1>0, <2>1
  <2> QED BY <1>2, <2>2, LimitReached
<1>8. CASE throttle[sc] # Missing /\ attempt[x].now - throttle[sc].since < Window
  <2>1. /\ throttle'[sc].count = throttle[sc].count + 1 /\ throttle'[sc].since = throttle[sc].since
        /\ throttle'[sc].until = attempt[x].now + Lock
    <3>1. throttle'[sc] =
            [count |-> throttle[sc].count + 1, since |-> throttle[sc].since,
             until |-> IF throttle[sc].count + 1 >= Limit THEN attempt[x].now + Lock ELSE 0]
      BY <1>1, <1>8 DEF AfterFailure
    <3>2. throttle'[sc].count = throttle[sc].count + 1
      BY <3>1
    <3>3. throttle[sc].count + 1 >= Limit
      BY <1>0, <1>2, <1>8, <3>2
    <3> QED BY <3>1, <3>2, <3>3
  <2>2. x \in InWindow(sc) /\ InWindow(sc) \in SUBSET Attempts
    BY <1>0, <1>2, <1>6, <1>8 DEF InWindow, Uncounted
  <2>3. InWindow(sc)' \in SUBSET InWindow(sc) /\ x \notin InWindow(sc)'
        /\ InWindow(sc)' \in SUBSET Attempts
    BY <1>4, <2>1 DEF InWindow, Uncounted
  <2>4. Cardinality(InWindow(sc)') <= Cardinality(InWindow(sc)) - 1
    BY <2>2, <2>3, OneFewerCounted
  <2>5. /\ Cardinality(InWindow(sc)) \in Nat /\ Cardinality(InWindow(sc)') \in Nat
        /\ Cardinality(Attempts) \in Nat /\ Cardinality(InWindow(sc)) <= Cardinality(Attempts)
    BY <2>2, <2>3, AttemptsCounted
  <2>6. CASE throttle[sc].count < Limit
    <3>1. throttle'[sc].count = Limit
      BY <1>0, <1>2, <1>8, <2>1, <2>6
    <3> QED BY <1>2, <3>1, LimitReached
  <2>7. CASE LastLock(sc)
    <3>1. throttle'[sc].since + Window <= throttle'[sc].until
      BY <1>0, <1>2, <1>3, <1>8, <2>1, <2>7 DEF LastLock
    <3>2. throttle'[sc].count + Cardinality(InWindow(sc)') <= Limit - 1 + 2 * Cardinality(Attempts)
      BY <1>0, <1>2, <1>8, <2>1, <2>4, <2>5, <2>7 DEF LastLock
    <3> QED BY <1>1, <2>1, <2>7, <3>1, <3>2 DEF LastLock
  <2>8. CASE FirstLock(sc) /\ \A y \in InWindow(sc) : attempt[y].now < throttle[sc].until
    <3>1. x \in BeforeEnd(sc) /\ BeforeEnd(sc) \in SUBSET Attempts
      BY <2>2, <2>8 DEF BeforeEnd
    <3>2. BeforeEnd(sc)' \in SUBSET BeforeEnd(sc) /\ x \notin BeforeEnd(sc)'
          /\ BeforeEnd(sc)' \in SUBSET Attempts
      BY <1>4, <2>2, <2>3, <2>8 DEF BeforeEnd
    <3>3. Cardinality(BeforeEnd(sc)') <= Cardinality(BeforeEnd(sc)) - 1
      BY <3>1, <3>2, OneFewerCounted
    <3>4. Cardinality(BeforeEnd(sc)) \in Nat /\ Cardinality(BeforeEnd(sc)') \in Nat
      BY <3>1, <3>2, AttemptsCounted
    <3>5. throttle'[sc].count + Cardinality(BeforeEnd(sc)') <= Limit - 1 + Cardinality(Attempts)
      BY <1>0, <1>2, <1>8, <2>1, <2>5, <2>8, <3>3, <3>4 DEF FirstLock
    <3>6. \A a \in Uncounted(sc)' : attempt'[a].now <= throttle'[sc].until - Lock + MaxDelay
      BY <1>0, <1>3, <1>4, <1>5, <2>1
    <3>7. throttle'[sc].since <= throttle'[sc].until - Lock + MaxDelay
      BY <1>0, <1>2, <1>3, <1>8, <2>1
    <3> QED BY <3>5, <3>6, <3>7 DEF FirstLock
  <2>9. ASSUME FirstLock(sc), NEW y \in InWindow(sc), ~(attempt[y].now < throttle[sc].until)
        PROVE  LastLock(sc)'
    <3>1. y \in Attempts /\ attempt[y].now <= loginClock /\ attempt[y].now \in Nat
      BY <1>0, <1>5 DEF InWindow
    <3>2. throttle[sc].until <= loginClock
      BY <1>2, <1>0, <1>8, <2>9, <3>1
    <3>3. throttle[sc].since + Lock <= loginClock + MaxDelay
      BY <1>0, <1>2, <1>8, <2>9, <3>2 DEF FirstLock
    <3>4. throttle'[sc].since + MaxDelay <= loginClock
      BY <1>0, <1>2, <1>8, <2>1, <3>3
    <3>5. throttle'[sc].since + Window <= throttle'[sc].until
      BY <1>0, <1>2, <1>3, <1>8, <2>1, <3>3
    <3>6. throttle[sc].count <= Limit - 1 + Cardinality(Attempts)
      <4>1. BeforeEnd(sc) \in SUBSET Attempts
        BY <2>2 DEF BeforeEnd
      <4>2. Cardinality(BeforeEnd(sc)) \in Nat
        BY <4>1, AttemptsCounted
      <4> QED BY <1>0, <1>2, <1>8, <2>5, <2>9, <4>2 DEF FirstLock
    <3>7. throttle'[sc].count + Cardinality(InWindow(sc)') <= Limit - 1 + 2 * Cardinality(Attempts)
      BY <1>0, <1>2, <1>8, <2>1, <2>4, <2>5, <3>6
    <3> QED BY <1>1, <3>4, <3>5, <3>7 DEF LastLock
  <2> QED BY <1>8, <2>6, <2>7, <2>8, <2>9 DEF CountOK
<1> QED BY <1>7, <1>8

-----------------------------------------------------------------------------
LEMMA ClockStays ==
    ASSUME ClockInv, loginClock' = loginClock,
           \A a \in Attempts : ~LoginAt(a, "idle")' =>
             ~LoginAt(a, "idle") /\ attempt'[a].now = attempt[a].now,
           \A sc \in Scopes : throttle'[sc] # Missing => throttle'[sc].since <= loginClock
    PROVE  ClockInv'
BY DEF ClockInv

\* The steps of a login that count nothing.
LEMMA QuietStepCounts ==
    ASSUME LoginTypeOK, CountInv, NEW x \in Attempts,
           VerifyPassword(x) \/ SnapshotCredential(x) \/ InsertSession(x) \/ AbandonLogin(x)
    PROVE  CountInv'
<1>0. attempt \in [Attempts -> Attempt] /\ loginClock \in Nat
  BY DEF LoginTypeOK
<1>1. loginClock' = loginClock /\ throttle' = throttle
  BY DEF VerifyPassword, SnapshotCredential, InsertSession, AbandonLogin
<1>2. \A a \in Attempts : a # x => attempt'[a] = attempt[a]
  BY <1>0 DEF VerifyPassword, SnapshotCredential, InsertSession, AbandonLogin, LoginGo
<1>3. /\ ~LoginAt(x, "idle")
      /\ ~LoginAt(x, "idle")' => attempt'[x].now = attempt[x].now
      /\ ~LoginAt(x, "throttle")'
      /\ LoginAt(x, "verify")' \/ LoginAt(x, "fail")' => LoginAt(x, "verify") /\ attempt'[x].pc = "fail"
  BY <1>0
     DEF VerifyPassword, SnapshotCredential, InsertSession, AbandonLogin, LoginGo, LoginAt, NoLogin,
         Attempt
<1>4. ClockInv'
  BY <1>1, <1>2, <1>3, ClockStays DEF CountInv, ClockInv, LoginAt
<1>5. ASSUME NEW sc \in Scopes PROVE CountOK(sc)'
  <2>1. \A a \in Uncounted(sc)' : a \in Uncounted(sc) /\ attempt'[a].now = attempt[a].now
    BY <1>2, <1>3 DEF Uncounted, LoginAt
  <2> QED BY <1>0, <1>1, <2>1, CountStays DEF CountInv
<1> QED BY <1>4, <1>5 DEF CountInv

\* A row is written: one failure more, or none.
LEMMA WritingStepCounts ==
    ASSUME ShortLogins, LoginTypeOK, LoginTypeOK', CountInv, NEW x \in Attempts, NEW s \in Scopes,
           RecordFailure(x, s) \/ ClearThrottle(x, s)
    PROVE  CountInv'
<1>0. /\ attempt \in [Attempts -> Attempt] /\ loginClock \in Nat
      /\ throttle \in [Scopes -> ThrottleRow \cup {Missing}]
  BY DEF LoginTypeOK
<1>1. /\ loginClock' = loginClock /\ Written(x, s)
      /\ ~LoginAt(x, "idle") /\ ~LoginAt(x, "verify") /\ ~LoginAt(x, "throttle")
      /\ \A sc \in Scopes : sc # s => throttle'[sc] = throttle[sc]
  BY <1>0 DEF RecordFailure, ClearThrottle, LoginAt
<1>2. \A a \in Attempts : ~LoginAt(a, "idle")' =>
             ~LoginAt(a, "idle") /\ attempt'[a].now = attempt[a].now
  BY <1>0, <1>1 DEF Written, LoginAt, NoLogin, Attempt
<1>3. throttle'[s] # Missing => throttle'[s].since <= loginClock
  <2>1. CASE ClearThrottle(x, s)
    BY <1>0, <2>1 DEF ClearThrottle
  <2>2. CASE RecordFailure(x, s)
    <3>1. throttle'[s] = AfterFailure(throttle[s], attempt[x].now)
      BY <1>0, <2>2 DEF RecordFailure
    <3>2. throttle'[s].since = attempt[x].now
          \/ (throttle[s] # Missing /\ throttle'[s].since = throttle[s].since)
      BY <3>1 DEF AfterFailure
    <3> QED BY <1>1, <3>2 DEF CountInv, ClockInv
  <2> QED BY <2>1, <2>2
<1>4. ClockInv'
  BY <1>1, <1>2, <1>3, ClockStays DEF CountInv, ClockInv
<1>5. ASSUME NEW sc \in Scopes PROVE CountOK(sc)'
  <2>1. CASE sc # s
    <3>1. \A a \in Uncounted(sc)' : a \in Uncounted(sc) /\ attempt'[a].now = attempt[a].now
      BY <1>1, WrittenCounts
    <3> QED BY <1>0, <1>1, <2>1, <3>1, CountStays DEF CountInv
  <2>2. CASE sc = s /\ RecordFailure(x, s)
    BY <2>2, CountRecords DEF CountInv
  <2>3. CASE sc = s /\ ClearThrottle(x, s)
    <3>1. throttle'[sc] = Missing
      BY <1>0, <2>3 DEF ClearThrottle
    <3> QED BY <3>1 DEF CountOK
  <2> QED BY <2>1, <2>2, <2>3
<1> QED BY <1>4, <1>5 DEF CountInv

LEMMA BeginStepCounts ==
    ASSUME LoginTypeOK, CountInv, NEW x \in Attempts, BeginLogin(x)
    PROVE  CountInv'
<1>0. attempt \in [Attempts -> Attempt] /\ loginClock \in Nat /\ MaxDelay \in Nat
  BY LoginNumbers DEF LoginTypeOK
<1>1. throttle' = throttle /\ loginClock' = loginClock
      /\ attempt'[x].now = loginClock
      /\ attempt'[x].pc = "throttle" /\ attempt'[x].todo = Scopes
      /\ \A a \in Attempts : a # x => attempt'[a] = attempt[a]
  BY <1>0 DEF BeginLogin, NoLogin
<1>2. ClockInv'
  BY <1>0, <1>1 DEF CountInv, ClockInv, LoginAt
<1>3. ASSUME NEW sc \in Scopes PROVE CountOK(sc)'
  <2>1. \A a \in Uncounted(sc)' : a \in Uncounted(sc) /\ attempt'[a].now = attempt[a].now
    BY <1>1 DEF Uncounted, LoginAt
  <2> QED BY <1>0, <1>1, <2>1, CountStays DEF CountInv
<1> QED BY <1>2, <1>3 DEF CountInv

\* Reading a throttle row counts the login that passes it.
LEMMA ReadStepCounts ==
    ASSUME LoginTypeOK, CountInv, NEW x \in Attempts, NEW s \in Scopes, ReadThrottle(x, s)
    PROVE  CountInv'
<1>0. attempt \in [Attempts -> Attempt] /\ loginClock \in Nat
  BY DEF LoginTypeOK
<1>1. throttle' = throttle /\ loginClock' = loginClock
  BY DEF ReadThrottle
<1>2. \A a \in Attempts : ~LoginAt(a, "idle")' =>
             ~LoginAt(a, "idle") /\ attempt'[a].now = attempt[a].now
  BY <1>0 DEF ReadThrottle, LoginAt, NoLogin, Attempt
<1>3. ClockInv'
  BY <1>1, <1>2, ClockStays DEF CountInv, ClockInv
<1>4. ASSUME NEW sc \in Scopes PROVE CountOK(sc)'
  <2>1. CASE sc # s \/ Locked(s, attempt[x].now)
    <3>1. \A a \in Uncounted(sc)' : a \in Uncounted(sc) /\ attempt'[a].now = attempt[a].now
      BY <2>1, ReadElsewhere
    <3> QED BY <1>0, <1>1, <3>1, CountStays DEF CountInv
  <2>2. CASE sc = s /\ ~Locked(s, attempt[x].now)
    BY <2>2, CountPasses DEF CountInv
  <2> QED BY <2>1, <2>2
<1> QED BY <1>3, <1>4 DEF CountInv

LEMMA TickCounts ==
    ASSUME LoginTypeOK, CountInv, LoginTick
    PROVE  CountInv'
<1>0. loginClock \in Nat /\ MaxDelay \in Nat /\ (\A a \in Attempts : attempt[a].now \in Nat)
      /\ \A sc \in Scopes : throttle[sc] # Missing => throttle[sc].since \in Nat
  BY LoginNumbers
<1>1. /\ loginClock' = loginClock + 1 /\ throttle' = throttle /\ attempt' = attempt
      /\ \A a \in Attempts : ~LoginAt(a, "idle") => loginClock - attempt[a].now < MaxDelay
  BY DEF LoginTick
<1>2. ClockInv'
  BY <1>0, <1>1 DEF CountInv, ClockInv, LoginAt
<1>3. ASSUME NEW sc \in Scopes PROVE CountOK(sc)'
  <2>1. Uncounted(sc)' = Uncounted(sc)
    BY <1>1 DEF Uncounted, LoginAt
  <2> QED BY <1>0, <1>1, <2>1, CountStays DEF CountInv
<1> QED BY <1>2, <1>3 DEF CountInv

LEMMA CountInductive ==
    ASSUME ShortLogins, LoginInv, CountInv, [LoginNext]_loginVars
    PROVE  CountInv'
<1>0. LoginTypeOK /\ LoginTypeOK'
  BY LoginInductive DEF LoginInv
<1>1. ASSUME NEW x \in Attempts, LoginStep(x) PROVE CountInv'
  BY <1>0, <1>1, BeginStepCounts, ReadStepCounts, QuietStepCounts, WritingStepCounts DEF LoginStep
<1>2. CASE LoginTick
  BY <1>0, <1>2, TickCounts
<1>3. CASE UNCHANGED <<loginClock, throttle, attempt>>
  <2>1. ClockInv'
    BY <1>3 DEF CountInv, ClockInv, LoginAt
  <2>2. \A sc \in Scopes : CountOK(sc)'
    BY <1>3 DEF CountInv, CountOK, FirstLock, LastLock, BeforeEnd, InWindow, Uncounted, LoginAt
  <2> QED BY <2>1, <2>2 DEF CountInv
<1>4. ASSUME NEW x \in Attempts, PasswordLogout(x) PROVE UNCHANGED <<loginClock, throttle, attempt>>
  BY <1>4 DEF PasswordLogout
<1>5. ASSUME Administer \/ UNCHANGED loginVars PROVE UNCHANGED <<loginClock, throttle, attempt>>
  BY <1>5 DEF Administer, ReplaceCredential, Cutover, loginVars
<1> QED BY <1>1, <1>2, <1>3, <1>4, <1>5 DEF LoginNext

LEMMA CountsAreBounded == LoginInv /\ CountInv => FailuresBounded
<1> SUFFICES ASSUME LoginInv, CountInv, NEW sc \in Scopes, throttle[sc] # Missing
             PROVE  throttle[sc].count <= Limit - 1 + 2 * Cardinality(Attempts)
  BY DEF FailuresBounded
<1>1. throttle[sc].count \in Nat /\ Limit \in Nat
  BY LoginNumbers DEF LoginInv
<1>2. BeforeEnd(sc) \in SUBSET Attempts /\ InWindow(sc) \in SUBSET Attempts
  BY DEF BeforeEnd, InWindow, Uncounted
<1>3. Cardinality(BeforeEnd(sc)) \in Nat /\ Cardinality(InWindow(sc)) \in Nat
      /\ Cardinality(Attempts) \in Nat
  BY <1>2, AttemptsCounted
<1> QED BY <1>1, <1>3 DEF CountInv, CountOK, FirstLock, LastLock

\* However the logins of a person interleave, no window holds more failures
\* than the limit less one and two for every login under way, when a login takes
\* at most half the time of the lock (recordLoginFailure, getThrottle).
THEOREM FailuresAreBounded == ShortLogins => (LoginSpec => []FailuresBounded)
<1> SUFFICES ASSUME ShortLogins PROVE LoginSpec => []FailuresBounded
  OBVIOUS
<1>1. LoginInit => LoginInv /\ CountInv
  <2>1. LoginInit => CountInv
    BY DEF LoginInit, CountInv, ClockInv, CountOK, LoginAt, NoLogin
  <2> QED BY <2>1, LoginInitially
<1>2. LoginInv /\ CountInv /\ [LoginNext]_loginVars => LoginInv' /\ CountInv'
  BY LoginInductive, CountInductive
<1>3. LoginInv /\ CountInv => FailuresBounded
  BY CountsAreBounded
<1> QED BY <1>1, <1>2, <1>3, PTL DEF LoginSpec

-----------------------------------------------------------------------------
(* FederatedSession.                                                       *)

\* Each exchanged token was exchanged with its own key.
KeyInv ==
    \A a \in Authorizations :
        /\ Len(keys[a]) = IF issued[a] = 0 THEN 0 ELSE issued[a] - 1
        /\ \A i \in 1 .. Len(keys[a]) : keys[a][i] = <<a, i>>

\* From when on the grace period runs.
Latest(a) == LaterOf(withdrawn[a], cardSession[a].created)

SessionInv ==
    \A a \in Authorizations :
        /\ a \in ended => cardSession[a] # NoSession /\ cardSession[a].revoked
        /\ cardSession[a] # NoSession =>
             /\ cardSession[a].token <= issued[a]
             /\ cardSession[a].validated <= cardClock
             /\ cardSession[a].created <= cardClock
             /\ cardSession[a].revoked => a \in ended \/ ~Granted(a)
             /\ ~Granted(a) => cardSession[a].validated <= Latest(a)

\* What a request knows at its place.
RequestOK(q) ==
    LET a == req[q].auth IN
    ~CardAt(q, "idle") =>
        /\ a \in Authorizations /\ 1 <= req[q].token /\ req[q].token <= issued[a]
        /\ req[q].late => a \in ended /\ req[q].pc \in {"login", "out"}
        /\ ~(req[q].pc \in {"login", "out"}) => cardSession[a] # NoSession
        /\ ~(req[q].pc \in {"login", "out", "done"}) =>
             /\ req[q].seen <= req[q].now /\ req[q].now <= cardClock
             /\ ~Granted(a) => req[q].seen <= Latest(a)
        /\ req[q].pc \in {"update", "opUpdate"} =>
             /\ req[q].token < issued[a]
             /\ ~Granted(a) => req[q].now <= withdrawn[a]
        /\ req[q].pc = "rejected" => ~Granted(a)
        /\ req[q].pc = "in" /\ ~Granted(a) => req[q].now - Latest(a) <= Grace

RequestInv == \A q \in Requests : RequestOK(q)

CardInv == CardTypeOK /\ KeyInv /\ SessionInv /\ RequestInv

-----------------------------------------------------------------------------
LEMMA NoRequestType == NoRequest \in CardRequest
BY DEF NoRequest, CardRequest, Places

\* The session of an authorization and its times are numbers.
LEMMA TypesOf ==
    ASSUME CardTypeOK, NEW a \in Authorizations
    PROVE  /\ issued[a] \in Nat /\ cardClock \in Nat
           /\ ~Granted(a) => withdrawn[a] \in Nat
           /\ cardSession[a] # NoSession => cardSession[a] \in SessionRow
           /\ keys[a] \in Seq(Authorizations \X Nat)
BY DEF CardTypeOK, Granted

\* Time passes, tokens are issued, sessions appear and grants go: a request
\* that is not touched keeps what it knows.
LEMMA RequestStays ==
    ASSUME CardInv, NEW q \in Requests, req'[q] = req[q],
           cardClock' \in Nat, cardClock <= cardClock',
           ended \subseteq ended',
           \A a \in Authorizations :
             /\ issued'[a] \in Nat /\ issued[a] <= issued'[a]
             /\ cardSession[a] # NoSession =>
                  cardSession'[a] # NoSession /\ cardSession'[a].created = cardSession[a].created
             /\ withdrawn'[a] = withdrawn[a] \/ (Granted(a) /\ withdrawn'[a] = cardClock)
    PROVE  RequestOK(q)'
<1> DEFINE a == req[q].auth
<1>1. CASE CardAt(q, "idle")
  BY <1>1 DEF RequestOK, CardAt
<1>2. CASE ~CardAt(q, "idle")
  <2>1. RequestOK(q) /\ req[q] \in CardRequest /\ a \in Authorizations
    BY <1>2 DEF CardInv, RequestInv, RequestOK, CardTypeOK
  <2>2. req[q].now \in Nat /\ req[q].seen \in Nat /\ req[q].token \in Nat
    BY <2>1 DEF CardRequest
  <2>3. /\ issued[a] \in Nat /\ cardClock \in Nat
        /\ ~Granted(a) => withdrawn[a] \in Nat
        /\ cardSession[a] # NoSession => cardSession[a].created \in Nat
    BY <2>1, TypesOf DEF CardInv, SessionRow
  <2>4. Grace \in Nat
    BY FederatedAssumption DEF FederatedAssumption
  <2>5. ~Granted(a) => ~Granted(a)' /\ withdrawn'[a] = withdrawn[a]
    BY <2>1 DEF Granted
  <2>6. ASSUME ~Granted(a)', Granted(a) PROVE withdrawn'[a] = cardClock
    BY <2>1, <2>6 DEF Granted
  <2>7. ASSUME cardSession[a] # NoSession, ~Granted(a)'
        PROVE  /\ ~Granted(a) => Latest(a)' = Latest(a) /\ Latest(a) \in Nat
               /\ Granted(a) => cardClock <= Latest(a)' /\ Latest(a)' \in Nat
    <3>1. cardSession'[a].created = cardSession[a].created
      BY <2>1, <2>7
    <3> QED BY <2>3, <2>5, <2>6, <2>7, <3>1 DEF Latest, LaterOf
  <2>8. a \in Authorizations /\ 1 <= req[q].token /\ req[q].token <= issued'[a]
    BY <1>2, <2>1, <2>2, <2>3 DEF RequestOK
  <2>9. req[q].late => a \in ended' /\ req[q].pc \in {"login", "out"}
    BY <1>2, <2>1 DEF RequestOK
  <2>10. ~(req[q].pc \in {"login", "out"}) => cardSession'[a] # NoSession
    BY <1>2, <2>1 DEF RequestOK
  <2>11. ~(req[q].pc \in {"login", "out", "done"}) =>
             /\ req[q].seen <= req[q].now /\ req[q].now <= cardClock'
             /\ ~Granted(a)' => req[q].seen <= Latest(a)'
    BY <1>2, <2>1, <2>2, <2>3, <2>7 DEF RequestOK
  <2>12. req[q].pc \in {"update", "opUpdate"} =>
             /\ req[q].token < issued'[a]
             /\ ~Granted(a)' => req[q].now <= withdrawn'[a]
    BY <1>2, <2>1, <2>2, <2>3, <2>5, <2>6 DEF RequestOK
  <2>13. req[q].pc = "rejected" => ~Granted(a)'
    BY <1>2, <2>1, <2>5 DEF RequestOK
  <2>14. req[q].pc = "in" /\ ~Granted(a)' => req[q].now - Latest(a)' <= Grace
    BY <1>2, <2>1, <2>2, <2>3, <2>4, <2>7 DEF RequestOK
  <2> HIDE DEF a
  <2>15. (~CardAt(q, "idle") =>
        /\ a \in Authorizations /\ 1 <= req[q].token /\ req[q].token <= issued'[a]
        /\ req[q].late => a \in ended' /\ req[q].pc \in {"login", "out"}
        /\ ~(req[q].pc \in {"login", "out"}) => cardSession'[a] # NoSession
        /\ ~(req[q].pc \in {"login", "out", "done"}) =>
             /\ req[q].seen <= req[q].now /\ req[q].now <= cardClock'
             /\ ~Granted(a)' => req[q].seen <= Latest(a)'
        /\ req[q].pc \in {"update", "opUpdate"} =>
             /\ req[q].token < issued'[a]
             /\ ~Granted(a)' => req[q].now <= withdrawn'[a]
        /\ req[q].pc = "rejected" => ~Granted(a)'
        /\ req[q].pc = "in" /\ ~Granted(a)' => req[q].now - Latest(a)' <= Grace)
    BY <2>8, <2>9, <2>10, <2>11, <2>12, <2>13, <2>14
  <2> QED BY <2>15 DEF RequestOK, CardAt, a
<1> QED BY <1>1, <1>2

cardRest == <<cardClock, issued, keys, withdrawn, cardSession, ended>>

\* Steps of one request that leave everything else alone.
LEMMA RequestAlone ==
    ASSUME CardInv, NEW q \in Requests, UNCHANGED cardRest,
           NEW r \in CardRequest, req' = [req EXCEPT ![q] = r], RequestOK(q)'
    PROVE  CardInv'
<1>0. req \in [Requests -> CardRequest]
  BY DEF CardInv, CardTypeOK
<1>1. CardTypeOK'
  BY <1>0 DEF CardInv, CardTypeOK, cardRest
<1>2. KeyInv' /\ SessionInv'
  BY DEF CardInv, KeyInv, SessionInv, Granted, Latest, cardRest
<1>3. ASSUME NEW p \in Requests PROVE RequestOK(p)'
  <2>1. CASE p = q
    BY <2>1
  <2>2. CASE p # q
    <3>1. req'[p] = req[p]
      BY <1>0, <2>2
    <3>2. cardClock \in Nat /\ \A a \in Authorizations : issued[a] \in Nat
      BY DEF CardInv, CardTypeOK
    <3>3. /\ cardClock' \in Nat /\ cardClock <= cardClock' /\ ended \subseteq ended'
          /\ \A a \in Authorizations :
               /\ issued'[a] \in Nat /\ issued[a] <= issued'[a]
               /\ cardSession[a] # NoSession =>
                    cardSession'[a] # NoSession /\ cardSession'[a].created = cardSession[a].created
               /\ withdrawn'[a] = withdrawn[a] \/ (Granted(a) /\ withdrawn'[a] = cardClock)
      BY <3>2 DEF cardRest
    <3> QED BY <3>1, <3>3, RequestStays
  <2> QED BY <2>1, <2>2
<1> QED BY <1>1, <1>2, <1>3 DEF CardInv, RequestInv

\* A request at a place of its own, with the row and the type it has.
LEMMA RequestAt ==
    ASSUME CardInv, NEW q \in Requests
    PROVE  /\ req \in [Requests -> CardRequest] /\ req[q] \in CardRequest
           /\ RequestOK(q)
           /\ \A pc \in Places : [req[q] EXCEPT !.pc = pc] \in CardRequest
<1>1. req \in [Requests -> CardRequest] /\ req[q] \in CardRequest
  BY DEF CardInv, CardTypeOK
<1> QED BY <1>1 DEF CardInv, RequestInv, CardRequest

\* A place with the record as it is.
LEMMA GoKeeps ==
    ASSUME CardInv, NEW q \in Requests, NEW pc \in Places, UNCHANGED cardRest,
           CardGo(q, pc), ~CardAt(q, "idle"),
           req[q].late => pc \in {"login", "out"},
           ~(pc \in {"login", "out", "done"}) =>
              ~(req[q].pc \in {"login", "out", "done"}),
           pc = "done" => ~(req[q].pc \in {"login", "out"}),
           pc \notin {"update", "opUpdate"},
           pc = "rejected" => ~Granted(AuthOf(q)),
           pc = "in" /\ ~Granted(AuthOf(q)) => req[q].now - Latest(AuthOf(q)) <= Grace
    PROVE  CardInv'
<1>1. /\ req \in [Requests -> CardRequest] /\ req[q] \in CardRequest /\ RequestOK(q)
      /\ [req[q] EXCEPT !.pc = pc] \in CardRequest
  BY RequestAt
<1>2. req' = [req EXCEPT ![q] = [req[q] EXCEPT !.pc = pc]]
  BY <1>1 DEF CardGo
<1>3. /\ req'[q].pc = pc /\ req'[q].auth = req[q].auth /\ req'[q].token = req[q].token
      /\ req'[q].seen = req[q].seen /\ req'[q].now = req[q].now /\ req'[q].late = req[q].late
  BY <1>1, <1>2 DEF CardRequest
<1>4. /\ cardClock' = cardClock /\ issued' = issued /\ withdrawn' = withdrawn
      /\ cardSession' = cardSession /\ ended' = ended
  BY DEF cardRest
<1>5. RequestOK(q)'
  BY <1>1, <1>3, <1>4 DEF RequestOK, CardAt, AuthOf, Granted, Latest
<1> QED BY <1>1, <1>2, <1>5, RequestAlone

-----------------------------------------------------------------------------
(* The steps of a request.                                                 *)

LEMMA ExchangeCodeKeeps ==
    ASSUME CardInv, NEW q \in Requests, NEW a \in Authorizations, ExchangeCode(q, a)
    PROVE  CardInv'
<1>0. /\ req \in [Requests -> CardRequest] /\ issued \in [Authorizations -> Nat]
      /\ CardTypeOK /\ KeyInv /\ SessionInv /\ cardClock \in Nat
  BY DEF CardInv, CardTypeOK
<1>1. issued' \in [Authorizations -> Nat] /\ 1 <= issued'[a]
      /\ \A b \in Authorizations : issued[b] <= issued'[b]
  BY <1>0 DEF ExchangeCode
<1> DEFINE r == [pc |-> "login", kind |-> "callback", auth |-> a, token |-> 1,
                 seen |-> 0, now |-> 0, late |-> a \in ended]
<1>2. r \in CardRequest
  BY DEF CardRequest, Places
<1>2a. r.pc = "login" /\ r.auth = a /\ r.token = 1 /\ (r.late <=> a \in ended)
  OBVIOUS
<1>3. req' = [req EXCEPT ![q] = r]
  BY DEF ExchangeCode
<1> HIDE DEF r
<1>4. req' \in [Requests -> CardRequest] /\ req'[q] = r
  BY <1>0, <1>2, <1>3
<1>5. CardTypeOK'
  BY <1>0, <1>1, <1>4 DEF CardTypeOK, ExchangeCode
<1>6. KeyInv'
  BY <1>0 DEF KeyInv, ExchangeCode, CardTypeOK
<1>7. SessionInv'
  <2> SUFFICES ASSUME NEW b \in Authorizations, cardSession[b] # NoSession
               PROVE  cardSession[b].token <= issued'[b]
    BY <1>0 DEF SessionInv, ExchangeCode, Granted, Latest
  <2>1. cardSession[b] \in SessionRow
    BY <1>0, TypesOf
  <2> QED BY <1>0, <1>1, <2>1 DEF SessionInv, SessionRow
<1>8. RequestOK(q)'
  <2>1. ended' = ended /\ req'[q].pc = "login" /\ req'[q].auth = a /\ req'[q].token = 1
        /\ (req'[q].late <=> a \in ended)
    BY <1>2a, <1>4 DEF ExchangeCode
  <2> QED BY <1>1, <2>1 DEF RequestOK, CardAt
<1>9. ASSUME NEW p \in Requests, p # q PROVE RequestOK(p)'
  <2>1. req'[p] = req[p]
    BY <1>0, <1>3, <1>9
  <2>2. /\ cardClock' \in Nat /\ cardClock <= cardClock' /\ ended \subseteq ended'
        /\ \A b \in Authorizations :
             /\ issued'[b] \in Nat /\ issued[b] <= issued'[b]
             /\ cardSession[b] # NoSession =>
                  cardSession'[b] # NoSession /\ cardSession'[b].created = cardSession[b].created
             /\ withdrawn'[b] = withdrawn[b] \/ (Granted(b) /\ withdrawn'[b] = cardClock)
    BY <1>0, <1>1 DEF ExchangeCode
  <2> QED BY <2>1, <2>2, RequestStays
<1> QED BY <1>5, <1>6, <1>7, <1>8, <1>9 DEF CardInv, RequestInv

\* A session is written, or another one is: what the rows must satisfy.
LEMMA SessionWritten ==
    ASSUME CardInv, NEW q \in Requests, NEW a \in Authorizations, NEW pc \in Places,
           NEW w \in SessionRow,
           cardSession' = [cardSession EXCEPT ![a] = w],
           CardGo(q, pc), ended' = ended,
           UNCHANGED <<cardClock, issued, keys, withdrawn>>,
           cardSession[a] # NoSession => w.created = cardSession[a].created,
           a \in ended => w.revoked,
           w.token <= issued[a], w.validated <= cardClock, w.created <= cardClock,
           w.revoked => a \in ended \/ ~Granted(a),
           ~Granted(a) => w.validated <= LaterOf(withdrawn[a], w.created),
           RequestOK(q)'
    PROVE  CardInv'
<1>0. /\ req \in [Requests -> CardRequest] /\ cardSession \in [Authorizations -> SessionRow \cup {NoSession}]
      /\ CardTypeOK /\ KeyInv /\ SessionInv /\ cardClock \in Nat /\ issued \in [Authorizations -> Nat]
  BY DEF CardInv, CardTypeOK
<1>1. w # NoSession
  BY NoSessionAssumption DEF NoSessionAssumption
<1>2. req' \in [Requests -> CardRequest]
  BY <1>0 DEF CardGo, CardRequest
<1>3. CardTypeOK'
  BY <1>0, <1>2 DEF CardTypeOK
<1>4. KeyInv'
  BY <1>0 DEF KeyInv
<1>5. SessionInv'
  <2> SUFFICES ASSUME NEW b \in Authorizations
               PROVE  /\ b \in ended => cardSession'[b] # NoSession /\ cardSession'[b].revoked
                      /\ cardSession'[b] # NoSession =>
                           /\ cardSession'[b].token <= issued[b]
                           /\ cardSession'[b].validated <= cardClock
                           /\ cardSession'[b].created <= cardClock
                           /\ cardSession'[b].revoked => b \in ended \/ ~Granted(b)
                           /\ ~Granted(b) => cardSession'[b].validated <= Latest(b)'
    BY DEF SessionInv, Granted
  <2>1. CASE b = a
    BY <1>0, <1>1, <2>1 DEF Latest
  <2>2. CASE b # a
    BY <1>0, <2>2 DEF SessionInv, Latest
  <2> QED BY <2>1, <2>2
<1>6. ASSUME NEW p \in Requests, p # q PROVE RequestOK(p)'
  <2>1. req'[p] = req[p]
    BY <1>0, <1>6 DEF CardGo
  <2>2. /\ cardClock' \in Nat /\ cardClock <= cardClock' /\ ended \subseteq ended'
        /\ \A b \in Authorizations :
             /\ issued'[b] \in Nat /\ issued[b] <= issued'[b]
             /\ cardSession[b] # NoSession =>
                  cardSession'[b] # NoSession /\ cardSession'[b].created = cardSession[b].created
             /\ withdrawn'[b] = withdrawn[b] \/ (Granted(b) /\ withdrawn'[b] = cardClock)
    BY <1>0, <1>1
  <2> QED BY <2>1, <2>2, RequestStays
<1> QED BY <1>3, <1>4, <1>5, <1>6 DEF CardInv, RequestInv

LEMMA CreateSessionKeeps ==
    ASSUME CardInv, NEW q \in Requests, CreateSession(q)
    PROVE  CardInv'
<1>0. /\ req \in [Requests -> CardRequest] /\ req[q] \in CardRequest /\ RequestOK(q)
  BY RequestAt
<1>1. req[q].token \in Nat \ {0} /\ AuthOf(q) \in Authorizations /\ req[q].token <= issued[AuthOf(q)]
      /\ ~CardAt(q, "idle") /\ req[q].pc = "login" /\ (req[q].late => AuthOf(q) \in ended)
  BY <1>0 DEF CreateSession, RequestOK, CardAt, AuthOf, CardRequest
<1>2. PICK a \in Authorizations : a = AuthOf(q)
  BY <1>1
<1>3. cardClock \in Nat /\ issued[a] \in Nat /\ (~Granted(a) => withdrawn[a] \in Nat)
      /\ cardSession \in [Authorizations -> SessionRow \cup {NoSession}]
  BY TypesOf DEF CardInv, CardTypeOK
<1>4. CASE cardSession[a] = NoSession
  <2>1. NewSession(q) \in SessionRow
    BY <1>1, <1>3 DEF NewSession, SessionRow
  <2>2. PICK w \in SessionRow : w = NewSession(q)
    BY <2>1
  <2>3. w.created = cardClock /\ w.validated = cardClock /\ w.token = req[q].token /\ ~w.revoked
    BY <2>2 DEF NewSession
  <2>4. a \notin ended
    BY <1>4 DEF CardInv, SessionInv
  <2>5. cardSession' = [cardSession EXCEPT ![a] = w] /\ CardGo(q, "done")
        /\ UNCHANGED <<cardClock, issued, keys, withdrawn>> /\ ended' = ended
    BY <1>2, <1>4, <2>2 DEF CreateSession
  <2>6. "done" \in Places
    BY DEF Places
  <2>7. cardSession'[a] = w /\ w # NoSession
    BY <1>3, <2>5, NoSessionAssumption DEF NoSessionAssumption
  <2>8. /\ req'[q].pc = "done" /\ req'[q].auth = a /\ req'[q].token = req[q].token
        /\ req'[q].late = req[q].late
    BY <1>0, <1>2, <2>5 DEF CardGo, AuthOf, CardRequest
  <2>9. ~req[q].late
    BY <1>1, <1>2, <2>4
  <2>10. RequestOK(q)'
    <3>1. 1 <= req[q].token /\ req[q].token <= issued[a]
      BY <1>1, <1>2
    <3> QED BY <3>1, <2>5, <2>7, <2>8, <2>9 DEF RequestOK, CardAt
  <2>11. ~Granted(a) => w.validated <= LaterOf(withdrawn[a], w.created)
    BY <1>3, <2>3 DEF LaterOf
  <2>12. w.token <= issued[a] /\ w.validated <= cardClock /\ w.created <= cardClock
    BY <1>1, <1>2, <1>3, <2>3
  <2> QED BY <1>4, <2>3, <2>4, <2>5, <2>6, <2>10, <2>11, <2>12, SessionWritten
<1>5. CASE cardSession[a] # NoSession
  <2>1. "out" \in Places
    BY DEF Places
  <2>2. CardGo(q, "out") /\ UNCHANGED cardRest
    BY <1>2, <1>5 DEF CreateSession, cardRest
  <2> QED BY <1>1, <2>1, <2>2, GoKeeps
<1> QED BY <1>4, <1>5

\* resolveSession's reading.
LEMMA ResolveKeeps ==
    ASSUME CardInv, NEW q \in Requests, NEW a \in Authorizations,
           NEW kind \in {"page", "operate"}, Resolve(q, a, kind)
    PROVE  CardInv'
<1> DEFINE row == cardSession[a]
           place == IF row.revoked THEN "out"
                    ELSE IF cardClock - row.validated < Interval THEN "in" ELSE "refresh"
           r == [pc |-> place, kind |-> kind, auth |-> a, token |-> row.token,
                 seen |-> row.validated, now |-> cardClock, late |-> a \in ended]
<1>0. req \in [Requests -> CardRequest] /\ CardTypeOK /\ SessionInv
  BY DEF CardInv, CardTypeOK
<1>1. row # NoSession /\ row \in SessionRow /\ cardClock \in Nat /\ issued[a] \in Nat
      /\ (~Granted(a) => withdrawn[a] \in Nat)
  BY <1>0, TypesOf DEF Resolve
<1>2. row.token \in Nat /\ 1 <= row.token /\ row.validated \in Nat /\ row.created \in Nat
  BY <1>1 DEF SessionRow
<1>3. r \in CardRequest
  BY <1>1, <1>2 DEF CardRequest, Places
<1>4. req' = [req EXCEPT ![q] = r] /\ UNCHANGED cardRest
  BY DEF Resolve, cardRest
<1>5. /\ r.pc = place /\ r.auth = a /\ r.token = row.token /\ r.seen = row.validated
      /\ r.now = cardClock /\ (r.late <=> a \in ended)
  OBVIOUS
<1>6. /\ cardClock' = cardClock /\ issued' = issued /\ withdrawn' = withdrawn
      /\ cardSession' = cardSession /\ ended' = ended
  BY <1>4 DEF cardRest
<1>7. /\ row.token <= issued[a] /\ row.validated <= cardClock
      /\ ~Granted(a) => row.validated <= Latest(a)
      /\ a \in ended => row.revoked
  BY <1>0, <1>1 DEF SessionInv
<1>8. place = "in" => cardClock - row.validated < Interval
  OBVIOUS
<1>9. Interval \in Nat /\ Grace \in Nat /\ Interval <= Grace
  BY FederatedAssumption DEF FederatedAssumption
<1>10. Latest(a) \in Nat \/ Granted(a)
  BY <1>1, <1>2 DEF Latest, LaterOf
<1>11. place = "in" /\ ~Granted(a) => cardClock - Latest(a) <= Grace
  BY <1>1, <1>2, <1>7, <1>8, <1>9, <1>10
<1>12. place \in {"out", "in", "refresh"} /\ (row.revoked => place = "out")
  OBVIOUS
<1> HIDE DEF place, r
<1>13. req'[q] = r
  BY <1>0, <1>4
<1>14. RequestOK(q)'
  BY <1>1, <1>2, <1>5, <1>6, <1>7, <1>11, <1>12, <1>13 DEF RequestOK, CardAt, Granted, Latest
<1> QED BY <1>3, <1>4, <1>14, RequestAlone

\* The provider exchanges a token: under the key of its holder, so that every
\* token but the newest stays exchanged with its own key.
LEMMA RotateKeeps ==
    ASSUME CardInv, NEW q \in Requests, Rotate(q)
    PROVE  CardInv'
<1>0. /\ req \in [Requests -> CardRequest] /\ req[q] \in CardRequest /\ RequestOK(q)
      /\ CardTypeOK /\ KeyInv /\ SessionInv /\ issued \in [Authorizations -> Nat]
      /\ keys \in [Authorizations -> Seq(Authorizations \X Nat)] /\ cardClock \in Nat
  BY RequestAt DEF CardInv, CardTypeOK
<1>1. /\ req[q].token \in Nat /\ 1 <= req[q].token /\ AuthOf(q) \in Authorizations
      /\ req[q].token <= issued[AuthOf(q)] /\ ~req[q].late /\ cardSession[AuthOf(q)] # NoSession
      /\ req[q].pc \in {"refresh", "opRefresh"} /\ req[q].seen <= req[q].now
      /\ req[q].now <= cardClock
  BY <1>0 DEF Rotate, Refreshing, RequestOK, CardAt, AuthOf, CardRequest
<1>2. PICK a \in Authorizations : a = AuthOf(q)
  BY <1>1
<1>3. Granted(a) /\ UNCHANGED <<cardClock, withdrawn, cardSession, ended>>
  BY <1>2 DEF Rotate
<1>4. PICK pc \in {"update", "opUpdate", "unavailable", "refused"} : CardGo(q, pc)
  BY <1>1 DEF Rotate, Returning, CardAt
<1>5. req' \in [Requests -> CardRequest] /\ req'[q].pc = pc /\ req'[q].auth = a
      /\ req'[q].token = req[q].token /\ req'[q].seen = req[q].seen
      /\ req'[q].now = req[q].now /\ req'[q].late = req[q].late
  BY <1>0, <1>2, <1>4 DEF CardGo, CardRequest, Places, AuthOf
<1>6. /\ issued' \in [Authorizations -> Nat]
      /\ keys' \in [Authorizations -> Seq(Authorizations \X Nat)]
      /\ \A b \in Authorizations : issued[b] <= issued'[b]
      /\ req[q].token < issued'[a]
      /\ KeyInv'
  <2>1. CASE Newest(q)
    <3>1. /\ issued' = [issued EXCEPT ![a] = @ + 1]
          /\ keys' = [keys EXCEPT ![a] = Append(@, Key(q))]
          /\ Key(q) = <<a, issued[a]>> /\ req[q].token = issued[a]
      BY <1>2, <2>1 DEF Rotate, Newest, Key
    <3>2. /\ Key(q) \in Authorizations \X Nat /\ issued[a] \in Nat
          /\ keys[a] \in Seq(Authorizations \X Nat)
      BY <1>0, <3>1
    <3>3. /\ Append(keys[a], Key(q)) \in Seq(Authorizations \X Nat)
          /\ Len(Append(keys[a], Key(q))) = Len(keys[a]) + 1
          /\ \A i \in 1 .. Len(keys[a]) : Append(keys[a], Key(q))[i] = keys[a][i]
          /\ Append(keys[a], Key(q))[Len(keys[a]) + 1] = Key(q)
      BY <3>2
    <3>4. /\ issued' \in [Authorizations -> Nat]
          /\ keys' \in [Authorizations -> Seq(Authorizations \X Nat)]
          /\ \A b \in Authorizations : issued[b] <= issued'[b]
          /\ req[q].token < issued'[a]
      BY <1>0, <3>1, <3>2, <3>3
    <3>5. KeyInv'
      <4> SUFFICES ASSUME NEW b \in Authorizations
                   PROVE  /\ Len(keys'[b]) = IF issued'[b] = 0 THEN 0 ELSE issued'[b] - 1
                          /\ \A i \in 1 .. Len(keys'[b]) : keys'[b][i] = <<b, i>>
        BY DEF KeyInv
      <4>1. CASE b = a
        <5>0. issued[a] # 0
          BY <1>1, <3>1, <3>2
        <5>1. Len(keys[a]) = issued[a] - 1 /\ \A i \in 1 .. Len(keys[a]) : keys[a][i] = <<a, i>>
          BY <1>0, <5>0 DEF KeyInv
        <5>2. keys'[a] = Append(keys[a], Key(q)) /\ issued'[a] = issued[a] + 1
          BY <1>0, <3>1
        <5>3. ASSUME NEW i \in 1 .. Len(keys'[a]) PROVE keys'[a][i] = <<a, i>>
          <6>1. i \in 1 .. Len(keys[a]) \/ i = Len(keys[a]) + 1
            BY <3>2, <3>3, <5>2, <5>3
          <6> QED BY <3>1, <3>2, <3>3, <5>1, <5>2, <6>1
        <5> QED BY <3>2, <3>3, <4>1, <5>1, <5>2, <5>3
      <4>2. CASE b # a
        <5>1. keys'[b] = keys[b] /\ issued'[b] = issued[b]
          BY <1>0, <3>1, <4>2
        <5> QED BY <1>0, <5>1 DEF KeyInv
      <4> QED BY <4>1, <4>2
    <3> QED BY <3>4, <3>5
  <2>2. CASE ~Newest(q)
    <3>1. issued' = issued /\ keys' = keys /\ req[q].token # issued[a]
      BY <1>2, <2>2 DEF Rotate, Newest
    <3>2. issued[a] \in Nat /\ req[q].token <= issued[a]
      BY <1>0, <1>1, <1>2
    <3>3. KeyInv'
      BY <1>0, <3>1 DEF KeyInv
    <3>4. \A b \in Authorizations : issued[b] <= issued'[b]
      BY <1>0, <3>1
    <3>5. req[q].token < issued'[a]
      BY <1>1, <3>1, <3>2
    <3> QED BY <1>0, <3>1, <3>3, <3>4, <3>5
  <2> QED BY <2>1, <2>2
<1>7. CardTypeOK'
  BY <1>0, <1>3, <1>5, <1>6 DEF CardTypeOK
<1>8. SessionInv'
  <2> SUFFICES ASSUME NEW b \in Authorizations, cardSession[b] # NoSession
               PROVE  cardSession[b].token <= issued'[b]
    BY <1>0, <1>3 DEF SessionInv, Granted, Latest
  <2>1. cardSession[b] \in SessionRow /\ cardSession[b].token <= issued[b]
    BY <1>0, TypesOf DEF SessionInv
  <2> QED BY <1>0, <1>6, <2>1 DEF SessionRow
<1>9. RequestOK(q)'
  <2>1. Granted(a)' /\ cardSession'[a] # NoSession /\ cardClock' = cardClock /\ ~req'[q].late
    BY <1>1, <1>2, <1>3, <1>5 DEF Granted
  <2>2. issued'[a] \in Nat /\ req[q].token <= issued'[a]
    BY <1>1, <1>6
  <2> QED BY <1>1, <1>4, <1>5, <1>6, <2>1, <2>2 DEF RequestOK, CardAt
<1>10. ASSUME NEW p \in Requests, p # q PROVE RequestOK(p)'
  <2>1. req'[p] = req[p]
    BY <1>0, <1>4, <1>10 DEF CardGo
  <2>2. /\ cardClock' \in Nat /\ cardClock <= cardClock' /\ ended \subseteq ended'
        /\ \A b \in Authorizations :
             /\ issued'[b] \in Nat /\ issued[b] <= issued'[b]
             /\ cardSession[b] # NoSession =>
                  cardSession'[b] # NoSession /\ cardSession'[b].created = cardSession[b].created
             /\ withdrawn'[b] = withdrawn[b] \/ (Granted(b) /\ withdrawn'[b] = cardClock)
    BY <1>0, <1>3, <1>6
  <2> QED BY <2>1, <2>2, RequestStays
<1> QED BY <1>6, <1>7, <1>8, <1>9, <1>10 DEF CardInv, RequestInv

LEMMA UnreachableKeeps ==
    ASSUME CardInv, NEW q \in Requests, Unreachable(q)
    PROVE  CardInv'
<1>1. RequestOK(q) /\ req[q].pc \in {"refresh", "opRefresh"}
  BY RequestAt DEF Unreachable, Refreshing, CardAt
<1>2. PICK pc \in {"unavailable", "refused"} : CardGo(q, pc)
  BY DEF Unreachable, Returning
<1>3. pc \in Places /\ UNCHANGED cardRest /\ ~CardAt(q, "idle") /\ ~req[q].late
  BY <1>1 DEF Places, Unreachable, cardRest, CardAt, RequestOK
<1> QED BY <1>1, <1>2, <1>3, GoKeeps

\* While the grant stands, the provider answers every holder of a token.
LEMMA HoldersAreAnswered ==
    ASSUME CardInv, NEW q \in Requests, Refreshing(q)
    PROVE  Answered(q)
<1>1. /\ RequestOK(q) /\ req[q] \in CardRequest /\ KeyInv
      /\ issued \in [Authorizations -> Nat]
  BY RequestAt DEF CardInv, CardTypeOK
<1>2. /\ AuthOf(q) \in Authorizations /\ req[q].token \in Nat /\ 1 <= req[q].token
      /\ req[q].token <= issued[AuthOf(q)]
  BY <1>1 DEF Refreshing, RequestOK, CardAt, AuthOf, CardRequest
<1>3. ASSUME ~Newest(q) PROVE keys[AuthOf(q)][req[q].token] = Key(q)
  <2>1. issued[AuthOf(q)] \in Nat /\ req[q].token # issued[AuthOf(q)]
    BY <1>1, <1>2, <1>3 DEF Newest
  <2>2. req[q].token \in 1 .. Len(keys[AuthOf(q)])
    BY <1>1, <1>2, <2>1 DEF KeyInv
  <2> QED BY <1>1, <1>2, <2>2 DEF KeyInv, Key
<1> QED BY <1>3 DEF Answered

LEMMA RejectKeeps ==
    ASSUME CardInv, NEW q \in Requests, Reject(q)
    PROVE  CardInv'
<1>1. RequestOK(q) /\ req[q].pc \in {"refresh", "opRefresh"} /\ Refreshing(q)
  BY RequestAt DEF Reject, Refreshing, CardAt
<1>2. ~Granted(AuthOf(q))
  BY <1>1, HoldersAreAnswered DEF Reject
<1>3. PICK pc \in {"rejected", "refused"} : CardGo(q, pc)
  BY DEF Reject, Returning
<1>4. pc \in Places /\ UNCHANGED cardRest /\ ~CardAt(q, "idle") /\ ~req[q].late
  BY <1>1 DEF Places, Reject, cardRest, CardAt, RequestOK
<1> QED BY <1>1, <1>2, <1>3, <1>4, GoKeeps

\* What is stored of a validation is the clock its request began at.
LEMMA UpdateKeeps ==
    ASSUME CardInv, NEW q \in Requests, Update(q)
    PROVE  CardInv'
<1>0. /\ req \in [Requests -> CardRequest] /\ req[q] \in CardRequest /\ RequestOK(q)
      /\ SessionInv
  BY RequestAt DEF CardInv
<1>1. req[q].pc \in {"update", "opUpdate"} /\ ~CardAt(q, "idle")
  BY DEF Update, CardAt
<1>2. /\ req[q].token \in Nat /\ 1 <= req[q].token /\ AuthOf(q) \in Authorizations
      /\ req[q].token < issued[AuthOf(q)] /\ req[q].now \in Nat /\ req[q].now <= cardClock
      /\ req[q].seen \in Nat /\ req[q].seen <= req[q].now
      /\ ~Granted(AuthOf(q)) => req[q].now <= withdrawn[AuthOf(q)]
      /\ ~req[q].late /\ cardSession[AuthOf(q)] # NoSession
  BY <1>0, <1>1 DEF RequestOK, CardAt, AuthOf, CardRequest
<1>3. PICK a \in Authorizations : a = AuthOf(q)
  BY <1>2
<1>4. /\ cardClock \in Nat /\ issued[a] \in Nat /\ (~Granted(a) => withdrawn[a] \in Nat)
      /\ cardSession \in [Authorizations -> SessionRow \cup {NoSession}]
      /\ cardSession[a] \in SessionRow /\ cardSession[a] # NoSession
      /\ cardSession[a].created \in Nat
  BY <1>2, <1>3, TypesOf DEF CardInv, CardTypeOK, SessionRow
<1>5. CASE CardUsable(a)
  <2>1. Updated(q, cardSession[a]) \in SessionRow
    <3>1. PICK row \in SessionRow : row = cardSession[a]
      BY <1>4
    <3>2. PICK t \in Nat \ {0}, n \in Nat : t = req[q].token + 1 /\ n = req[q].now
      BY <1>2
    <3>3. [row EXCEPT !.token = t, !.validated = n] \in SessionRow
      BY DEF SessionRow
    <3> QED BY <3>1, <3>2, <3>3 DEF Updated
  <2>2. PICK w \in SessionRow : w = Updated(q, cardSession[a])
    BY <2>1
  <2>3. /\ w.created = cardSession[a].created /\ w.validated = req[q].now
        /\ w.token = req[q].token + 1 /\ ~w.revoked
    BY <1>4, <1>5, <2>2 DEF Updated, SessionRow, CardUsable
  <2>4. PICK pc \in {"in", "granted"} : CardGo(q, pc)
    BY <1>3, <1>5 DEF Update
  <2>5. cardSession' = [cardSession EXCEPT ![a] = w]
        /\ UNCHANGED <<cardClock, issued, keys, withdrawn>> /\ ended' = ended
    BY <1>3, <1>5, <2>2 DEF Update
  <2>6. pc \in Places
    BY DEF Places
  <2>7. cardSession'[a] = w /\ w # NoSession
    BY <1>4, <2>5, NoSessionAssumption DEF NoSessionAssumption
  <2>8. /\ req'[q].pc = pc /\ req'[q].auth = a /\ req'[q].token = req[q].token
        /\ req'[q].seen = req[q].seen /\ req'[q].now = req[q].now
        /\ req'[q].late = req[q].late
    BY <1>0, <1>3, <2>4 DEF CardGo, AuthOf, CardRequest
  <2>9. a \notin ended /\ cardSession[a].created <= cardClock
    BY <1>0, <1>4, <1>5 DEF SessionInv, CardUsable
  <2>10. ~Granted(a) => /\ w.validated <= LaterOf(withdrawn[a], w.created)
                        /\ LaterOf(withdrawn[a], w.created) \in Nat
    BY <1>2, <1>3, <1>4, <2>3 DEF LaterOf
  <2>11. RequestOK(q)'
    <3>1. Latest(a)' = LaterOf(withdrawn[a], w.created) /\ (Granted(a)' <=> Granted(a))
      BY <2>5, <2>7 DEF Latest, Granted
    <3>2. Grace \in Nat
      BY FederatedAssumption DEF FederatedAssumption
    <3>3. ~Granted(a) => /\ req[q].seen <= Latest(a)'
                         /\ req[q].now - Latest(a)' <= Grace
      BY <1>2, <1>3, <2>3, <2>10, <3>1, <3>2
    <3>4. 1 <= req[q].token /\ req[q].token <= issued'[a] /\ cardClock' = cardClock
      BY <1>2, <1>3, <1>4, <2>5
    <3> QED BY <1>2, <2>7, <2>8, <3>1, <3>3, <3>4 DEF RequestOK, CardAt
  <2>12. w.token <= issued[a] /\ w.validated <= cardClock /\ w.created <= cardClock
    BY <1>2, <1>3, <1>4, <2>3, <2>9
  <2> QED BY <2>3, <2>4, <2>5, <2>6, <2>9, <2>10, <2>11, <2>12, SessionWritten
<1>6. CASE ~CardUsable(a)
  <2>1. "out" \in Places
    BY DEF Places
  <2>2. CardGo(q, "out") /\ UNCHANGED cardRest
    BY <1>3, <1>6 DEF Update, cardRest
  <2> QED BY <1>1, <2>1, <2>2, GoKeeps
<1> QED BY <1>5, <1>6

LEMMA WithinGraceKeeps ==
    ASSUME CardInv, NEW q \in Requests, WithinGrace(q)
    PROVE  CardInv'
<1>0. req[q] \in CardRequest /\ RequestOK(q)
  BY RequestAt
<1>1. req[q].pc = "unavailable" /\ ~CardAt(q, "idle") /\ ~req[q].late /\ UNCHANGED cardRest
  BY <1>0 DEF WithinGrace, CardAt, RequestOK, cardRest
<1>2. CASE req[q].now - req[q].seen <= Grace
  <2>1. CardGo(q, "in") /\ "in" \in Places
    BY <1>2 DEF WithinGrace, Places
  <2>2. /\ AuthOf(q) \in Authorizations /\ req[q].seen \in Nat /\ req[q].now \in Nat
        /\ cardSession[AuthOf(q)] # NoSession
        /\ ~Granted(AuthOf(q)) => req[q].seen <= Latest(AuthOf(q))
    BY <1>0, <1>1 DEF RequestOK, CardAt, AuthOf, CardRequest
  <2>3. ~Granted(AuthOf(q)) => Latest(AuthOf(q)) \in Nat
    BY <2>2, TypesOf DEF CardInv, Latest, LaterOf, SessionRow
  <2>4. Grace \in Nat
    BY FederatedAssumption DEF FederatedAssumption
  <2>5. ~Granted(AuthOf(q)) => req[q].now - Latest(AuthOf(q)) <= Grace
    BY <1>2, <2>2, <2>3, <2>4
  <2> QED BY <1>1, <2>1, <2>5, GoKeeps
<1>3. CASE ~(req[q].now - req[q].seen <= Grace)
  <2>1. CardGo(q, "out") /\ "out" \in Places
    BY <1>3 DEF WithinGrace, Places
  <2> QED BY <1>1, <2>1, GoKeeps
<1> QED BY <1>2, <1>3

\* The provider refused, so the grant is gone: revoking ends no session early.
LEMMA RevokeRejectedKeeps ==
    ASSUME CardInv, NEW q \in Requests, RevokeRejected(q)
    PROVE  CardInv'
<1>0. /\ req \in [Requests -> CardRequest] /\ req[q] \in CardRequest /\ RequestOK(q)
      /\ SessionInv
  BY RequestAt DEF CardInv
<1>1. /\ req[q].pc = "rejected" /\ AuthOf(q) \in Authorizations /\ ~Granted(AuthOf(q))
      /\ ~req[q].late /\ cardSession[AuthOf(q)] # NoSession
      /\ req[q].token \in Nat /\ 1 <= req[q].token /\ req[q].token <= issued[AuthOf(q)]
  BY <1>0 DEF RevokeRejected, RequestOK, CardAt, AuthOf, CardRequest
<1>2. PICK a \in Authorizations : a = AuthOf(q)
  BY <1>1
<1>3. PICK row \in SessionRow : row = cardSession[a]
  BY <1>1, <1>2, TypesOf DEF CardInv
<1>4. [row EXCEPT !.revoked = TRUE] \in SessionRow
  BY DEF SessionRow
<1>5. PICK w \in SessionRow : w = [row EXCEPT !.revoked = TRUE]
  BY <1>4
<1>6. w.created = row.created /\ w.validated = row.validated /\ w.token = row.token /\ w.revoked
  BY <1>5 DEF SessionRow
<1>7. /\ cardSession' = [cardSession EXCEPT ![a] = w] /\ CardGo(q, "out")
      /\ UNCHANGED <<cardClock, issued, keys, withdrawn>> /\ ended' = ended
  BY <1>2, <1>3, <1>5 DEF RevokeRejected
<1>8. "out" \in Places
  BY DEF Places
<1>9. /\ req'[q].pc = "out" /\ req'[q].auth = a /\ req'[q].token = req[q].token
      /\ req'[q].late = req[q].late
  BY <1>0, <1>2, <1>7 DEF CardGo, AuthOf, CardRequest
<1>10. RequestOK(q)'
  BY <1>1, <1>2, <1>7, <1>9 DEF RequestOK, CardAt
<1>11. /\ w.token <= issued[a] /\ w.validated <= cardClock /\ w.created <= cardClock
       /\ ~Granted(a) => w.validated <= LaterOf(withdrawn[a], w.created)
  BY <1>0, <1>1, <1>2, <1>3, <1>6 DEF SessionInv, Latest
<1>12. cardSession[a] # NoSession => w.created = cardSession[a].created
  BY <1>3, <1>6
<1>13. (a \in ended => w.revoked) /\ (w.revoked => a \in ended \/ ~Granted(a))
  BY <1>1, <1>2, <1>6
<1> QED BY <1>7, <1>8, <1>10, <1>11, <1>12, <1>13, SessionWritten

LEMMA OperateKeeps ==
    ASSUME CardInv, NEW q \in Requests, Operate(q)
    PROVE  CardInv'
<1>1. req[q].pc = "in" /\ ~CardAt(q, "idle") /\ ~req[q].late /\ UNCHANGED cardRest
  BY RequestAt DEF Operate, CardAt, RequestOK, cardRest
<1>2. CardGo(q, "opRefresh") /\ "opRefresh" \in Places
  BY DEF Operate, Places
<1> QED BY <1>1, <1>2, GoKeeps

LEMMA LeaveRequestKeeps ==
    ASSUME CardInv, NEW q \in Requests, LeaveRequest(q)
    PROVE  CardInv'
<1>1. req' = [req EXCEPT ![q] = NoRequest] /\ UNCHANGED cardRest
  BY DEF LeaveRequest, cardRest
<1>2. req'[q] = NoRequest /\ NoRequest.pc = "idle"
  BY <1>1, RequestAt DEF NoRequest
<1>3. RequestOK(q)'
  BY <1>2 DEF RequestOK, CardAt
<1> QED BY <1>1, <1>3, NoRequestType, RequestAlone

-----------------------------------------------------------------------------
(* The steps of no request.                                                *)

LEMMA CardLogoutKeeps ==
    ASSUME CardInv, NEW a \in Authorizations, CardLogout(a)
    PROVE  CardInv'
<1>0. /\ CardTypeOK /\ KeyInv /\ SessionInv /\ cardClock \in Nat /\ issued \in [Authorizations -> Nat]
      /\ cardSession \in [Authorizations -> SessionRow \cup {NoSession}]
      /\ cardSession[a] \in SessionRow /\ cardSession[a] # NoSession
  BY TypesOf DEF CardInv, CardTypeOK, CardLogout, CardUsable
<1>1. PICK row \in SessionRow : row = cardSession[a]
  BY <1>0
<1>2. [row EXCEPT !.revoked = TRUE] \in SessionRow
  BY DEF SessionRow
<1>3. PICK w \in SessionRow : w = [row EXCEPT !.revoked = TRUE]
  BY <1>2
<1>4. w.created = row.created /\ w.validated = row.validated /\ w.token = row.token /\ w.revoked
      /\ w # NoSession
  BY <1>3, NoSessionAssumption DEF SessionRow, NoSessionAssumption
<1>5. /\ cardSession' = [cardSession EXCEPT ![a] = w] /\ ended' = ended \cup {a}
      /\ UNCHANGED <<cardClock, issued, keys, withdrawn, req>>
  BY <1>1, <1>3 DEF CardLogout
<1>6. CardTypeOK' /\ KeyInv'
  BY <1>0, <1>5 DEF CardTypeOK, KeyInv
<1>7. SessionInv'
  <2> SUFFICES ASSUME NEW b \in Authorizations
               PROVE  /\ b \in ended' => cardSession'[b] # NoSession /\ cardSession'[b].revoked
                      /\ cardSession'[b] # NoSession =>
                           /\ cardSession'[b].token <= issued[b]
                           /\ cardSession'[b].validated <= cardClock
                           /\ cardSession'[b].created <= cardClock
                           /\ cardSession'[b].revoked => b \in ended' \/ ~Granted(b)
                           /\ ~Granted(b) => cardSession'[b].validated <= Latest(b)'
    BY <1>5 DEF SessionInv, Granted
  <2>1. CASE b = a
    <3>1. cardSession'[a] = w /\ a \in ended'
      BY <1>0, <1>5
    <3>2. /\ row.token <= issued[a] /\ row.validated <= cardClock /\ row.created <= cardClock
          /\ ~Granted(a) => row.validated <= LaterOf(withdrawn[a], row.created)
      BY <1>0, <1>1 DEF SessionInv, Latest
    <3>3. Latest(a)' = LaterOf(withdrawn[a], w.created)
      BY <1>5, <3>1 DEF Latest
    <3> QED BY <1>4, <2>1, <3>1, <3>2, <3>3
  <2>2. CASE b # a
    <3>1. cardSession'[b] = cardSession[b] /\ (b \in ended' <=> b \in ended) /\ Latest(b)' = Latest(b)
      BY <1>0, <1>5, <2>2 DEF Latest
    <3> QED BY <1>0, <3>1 DEF SessionInv
  <2> QED BY <2>1, <2>2
<1>8. ASSUME NEW p \in Requests PROVE RequestOK(p)'
  <2>1. /\ req'[p] = req[p]
        /\ cardClock' \in Nat /\ cardClock <= cardClock' /\ ended \subseteq ended'
        /\ \A b \in Authorizations :
             /\ issued'[b] \in Nat /\ issued[b] <= issued'[b]
             /\ cardSession[b] # NoSession =>
                  cardSession'[b] # NoSession /\ cardSession'[b].created = cardSession[b].created
             /\ withdrawn'[b] = withdrawn[b] \/ (Granted(b) /\ withdrawn'[b] = cardClock)
    BY <1>0, <1>1, <1>4, <1>5
  <2> QED BY <2>1, RequestStays
<1> QED BY <1>6, <1>7, <1>8 DEF CardInv, RequestInv

LEMMA WithdrawKeeps ==
    ASSUME CardInv, NEW a \in Authorizations, Withdraw(a)
    PROVE  CardInv'
<1>0. /\ CardTypeOK /\ KeyInv /\ SessionInv /\ cardClock \in Nat /\ issued \in [Authorizations -> Nat]
      /\ withdrawn \in [Authorizations -> Nat \cup {NoSession}]
  BY DEF CardInv, CardTypeOK
<1>1. /\ withdrawn' = [withdrawn EXCEPT ![a] = cardClock] /\ Granted(a)
      /\ UNCHANGED <<cardClock, issued, keys, cardSession, req, ended>>
  BY DEF Withdraw
<1>2. CardTypeOK' /\ KeyInv'
  BY <1>0, <1>1 DEF CardTypeOK, KeyInv
<1>3. SessionInv'
  <2> SUFFICES ASSUME NEW b \in Authorizations, cardSession[b] # NoSession
               PROVE  /\ cardSession[b].revoked => b \in ended \/ ~Granted(b)'
                      /\ ~Granted(b)' => cardSession[b].validated <= Latest(b)'
    BY <1>0, <1>1 DEF SessionInv
  <2>1. /\ cardSession[b].validated <= cardClock /\ cardSession[b].created <= cardClock
        /\ cardSession[b].validated \in Nat /\ cardSession[b].created \in Nat
    BY <1>0, TypesOf DEF SessionInv, SessionRow
  <2>2. cardSession[b].revoked => b \in ended \/ ~Granted(b)
    BY <1>0 DEF SessionInv
  <2>3. ~Granted(b) => cardSession[b].validated <= Latest(b)
    BY <1>0 DEF SessionInv
  <2>4. CASE b = a
    <3>1. withdrawn'[b] = cardClock
      BY <1>0, <1>1, <2>4
    <3>2. cardSession[b].validated <= Latest(b)'
      BY <1>0, <1>1, <2>1, <3>1 DEF Latest, LaterOf
    <3> QED BY <1>1, <2>2, <2>4, <3>2
  <2>5. CASE b # a
    <3>1. withdrawn'[b] = withdrawn[b]
      BY <1>0, <1>1, <2>5
    <3>2. (Granted(b)' <=> Granted(b)) /\ Latest(b)' = Latest(b)
      BY <1>1, <3>1 DEF Granted, Latest
    <3> QED BY <2>2, <2>3, <3>2
  <2> QED BY <2>4, <2>5
<1>4. ASSUME NEW p \in Requests PROVE RequestOK(p)'
  <2>1. /\ req'[p] = req[p]
        /\ cardClock' \in Nat /\ cardClock <= cardClock' /\ ended \subseteq ended'
        /\ \A b \in Authorizations :
             /\ issued'[b] \in Nat /\ issued[b] <= issued'[b]
             /\ cardSession[b] # NoSession =>
                  cardSession'[b] # NoSession /\ cardSession'[b].created = cardSession[b].created
             /\ withdrawn'[b] = withdrawn[b] \/ (Granted(b) /\ withdrawn'[b] = cardClock)
    BY <1>0, <1>1
  <2> QED BY <2>1, RequestStays
<1> QED BY <1>2, <1>3, <1>4 DEF CardInv, RequestInv

LEMMA CardTickKeeps ==
    ASSUME CardInv, CardTick
    PROVE  CardInv'
<1>0. /\ CardTypeOK /\ KeyInv /\ SessionInv /\ cardClock \in Nat /\ issued \in [Authorizations -> Nat]
  BY DEF CardInv, CardTypeOK
<1>1. cardClock' = cardClock + 1 /\ UNCHANGED <<issued, keys, withdrawn, cardSession, req, ended>>
  BY DEF CardTick
<1>2. CardTypeOK' /\ KeyInv'
  BY <1>0, <1>1 DEF CardTypeOK, KeyInv
<1>3. SessionInv'
  <2> SUFFICES ASSUME NEW b \in Authorizations, cardSession[b] # NoSession
               PROVE  cardSession[b].validated <= cardClock' /\ cardSession[b].created <= cardClock'
    BY <1>0, <1>1 DEF SessionInv, Granted, Latest
  <2>1. /\ cardSession[b].validated <= cardClock /\ cardSession[b].created <= cardClock
        /\ cardSession[b].validated \in Nat /\ cardSession[b].created \in Nat
    BY <1>0, TypesOf DEF SessionInv, SessionRow
  <2> QED BY <1>0, <1>1, <2>1
<1>4. ASSUME NEW p \in Requests PROVE RequestOK(p)'
  <2>1. /\ req'[p] = req[p]
        /\ cardClock' \in Nat /\ cardClock <= cardClock' /\ ended \subseteq ended'
        /\ \A b \in Authorizations :
             /\ issued'[b] \in Nat /\ issued[b] <= issued'[b]
             /\ cardSession[b] # NoSession =>
                  cardSession'[b] # NoSession /\ cardSession'[b].created = cardSession[b].created
             /\ withdrawn'[b] = withdrawn[b] \/ (Granted(b) /\ withdrawn'[b] = cardClock)
    BY <1>0, <1>1
  <2> QED BY <2>1, RequestStays
<1> QED BY <1>2, <1>3, <1>4 DEF CardInv, RequestInv

-----------------------------------------------------------------------------
LEMMA CardInitially == CardInit => CardInv
<1> SUFFICES ASSUME CardInit PROVE CardInv
  OBVIOUS
<1>1. NoRequest.pc = "idle"
  BY DEF NoRequest
<1>2. CardTypeOK
  BY NoRequestType DEF CardInit, CardTypeOK
<1>3. KeyInv /\ SessionInv
  BY DEF CardInit, KeyInv, SessionInv
<1>4. RequestInv
  BY <1>1 DEF CardInit, RequestInv, RequestOK, CardAt
<1> QED BY <1>2, <1>3, <1>4 DEF CardInv

LEMMA CardInductive == CardInv /\ [CardNext]_cardVars => CardInv'
<1> SUFFICES ASSUME CardInv, [CardNext]_cardVars PROVE CardInv'
  OBVIOUS
<1>1. ASSUME NEW q \in Requests, RequestStep(q) PROVE CardInv'
  BY <1>1, CreateSessionKeeps, RotateKeeps, UnreachableKeeps, RejectKeeps, UpdateKeeps,
     WithinGraceKeeps, RevokeRejectedKeeps, OperateKeeps, LeaveRequestKeeps,
     ExchangeCodeKeeps, ResolveKeeps DEF RequestStep
<1>2. ASSUME NEW a \in Authorizations, CardLogout(a) \/ Withdraw(a) PROVE CardInv'
  BY <1>2, CardLogoutKeeps, WithdrawKeeps
<1>3. CASE CardTick
  BY <1>3, CardTickKeeps
<1>4. CASE UNCHANGED cardVars
  BY <1>4 DEF cardVars, CardInv, CardTypeOK, KeyInv, SessionInv, RequestInv, RequestOK,
              CardAt, Granted, Latest
<1> QED BY <1>1, <1>2, <1>3, <1>4 DEF CardNext

\* The invariant holds of every behaviour of the specification.
LEMMA CardAlways == CardSpec => []CardInv
BY CardInitially, CardInductive, PTL DEF CardSpec

\* The provider's, the sessions' and the requests' variables keep their types
\* through every race of human-auth-service.ts.
THEOREM CardTypeCorrect == CardSpec => []CardTypeOK
<1>1. CardInv => CardTypeOK
  BY DEF CardInv
<1> QED BY <1>1, CardAlways, PTL

\* No request that arrives after a logout is let in, for any number of
\* requests under way at the time (revokeSession,
\* updateFederatedSessionAuthorization, createFederatedSession).
THEOREM LogoutHolds == CardSpec => []LogoutIsFinal
<1>1. CardInv => LogoutIsFinal
  <2> SUFFICES ASSUME CardInv, NEW q \in Requests, req[q].late
               PROVE  ~(req[q].pc \in {"in", "granted", "done"})
    BY DEF LogoutIsFinal
  <2> QED BY RequestAt DEF RequestOK, CardAt
<1> QED BY <1>1, CardAlways, PTL

\* However many requests refresh with the same token, and whichever answers
\* are lost, no session ends while its grant stands
\* (refreshAuthorizationForOperation's idempotency key).
THEOREM GrantedSessionsHold == CardSpec => []GrantedSessionsLast
<1>1. CardInv => GrantedSessionsLast
  BY DEF CardInv, SessionInv, GrantedSessionsLast
<1> QED BY <1>1, CardAlways, PTL

\* The grace period bounds how long a withdrawn grant still lets requests in,
\* for any interval and grace (resolveSession, loginWithAICard).
THEOREM WithdrawalHolds == CardSpec => []WithdrawalReaches
<1>1. CardInv => WithdrawalReaches
  <2> SUFFICES ASSUME CardInv, NEW q \in Requests, CardAt(q, "in"), ~Granted(req[q].auth)
               PROVE  req[q].now - LaterOf(withdrawn[req[q].auth], cardSession[req[q].auth].created) <= Grace
    BY DEF WithdrawalReaches
  <2> QED BY RequestAt DEF RequestOK, CardAt, Latest
<1> QED BY <1>1, CardAlways, PTL

-----------------------------------------------------------------------------
(* AgentAdmission.                                                         *)

\* A credential file that has been written.
Named(f) == f.invite \in Invitations /\ f.claim \in {1, 2} /\ f.identity \in Identities

FilesInv ==
    \A c \in Files :
        /\ file[c] # NoFile => Named(file[c])
        /\ doing[c] # "off" => Named(file[c])

\* A claim on its way says what its file says.
ClaimOK(m) ==
    LET f == file[m.claim[1]] IN
    m.invite = f.invite /\ m.claim[2] = f.claim /\ m.subject = f.identity

ClaimsInv == \A m \in claims : ClaimOK(m)

\* The row of an admitted file stays as it is.
SettledRow(i) == invitation[i].state \in {"admitted", "revoked"}
AdmittedInv ==
    \A c \in Files : file[c].state = "admitted" =>
        /\ SettledRow(file[c].invite)
        /\ invitation[file[c].invite].claim = <<c, file[c].claim>>
        /\ invitation[file[c].invite].subject = file[c].identity

AdmissionInv ==
    /\ AdmissionTypeOK /\ FilesInv /\ ClaimsInv
    /\ EnabledByAdmission /\ AdmittedInv /\ NoCardIsStranded

-----------------------------------------------------------------------------
LEMMA AdmittedIsNamed ==
    ASSUME FilesInv, NEW c \in Files, file[c].state # "none"
    PROVE  Named(file[c])
<1>1. file[c] # NoFile
  BY DEF NoFile
<1> QED BY <1>1 DEF FilesInv

\* Steps of the owner, of time and of the rooms leave the files alone.
LEMMA OwnerKeeps ==
    ASSUME AdmissionInv, UNCHANGED clientVars, AdmissionTypeOK', EnabledByAdmission',
           \A i \in Invitations : SettledRow(i) =>
              /\ SettledRow(i)' /\ invitation'[i].claim = invitation[i].claim
              /\ invitation'[i].subject = invitation[i].subject
    PROVE  AdmissionInv'
<1>1. cardClaim' = cardClaim /\ file' = file /\ doing' = doing /\ claims' = claims
  BY DEF clientVars
<1>2. FilesInv' /\ ClaimsInv' /\ NoCardIsStranded'
  BY <1>1 DEF AdmissionInv, FilesInv, ClaimsInv, ClaimOK, NoCardIsStranded
<1>3. AdmittedInv'
  <2> SUFFICES ASSUME NEW c \in Files, file[c].state = "admitted"
               PROVE  /\ SettledRow(file[c].invite)'
                      /\ invitation'[file[c].invite].claim = <<c, file[c].claim>>
                      /\ invitation'[file[c].invite].subject = file[c].identity
    BY <1>1 DEF AdmittedInv, SettledRow
  <2>1. file[c].invite \in Invitations
    BY AdmittedIsNamed DEF AdmissionInv, Named
  <2>2. /\ SettledRow(file[c].invite)
        /\ invitation[file[c].invite].claim = <<c, file[c].claim>>
        /\ invitation[file[c].invite].subject = file[c].identity
    BY DEF AdmissionInv, AdmittedInv
  <2>3. /\ SettledRow(file[c].invite)'
        /\ invitation'[file[c].invite].claim = invitation[file[c].invite].claim
        /\ invitation'[file[c].invite].subject = invitation[file[c].invite].subject
    BY <1>1, <2>1, <2>2
  <2> QED BY <2>2, <2>3
<1> QED BY <1>2, <1>3 DEF AdmissionInv

\* A row that is not settled yet changes its state.
LEMMA RowChanges ==
    ASSUME AdmissionInv, NEW i \in Invitations,
           NEW state \in {"inserting", "abandoned", "pending"}, ~SettledRow(i),
           invitation' = [invitation EXCEPT ![i].state = state],
           cardInvite' \in [Invitations -> {"none", "open", "revoked", "declined", "claimed"}],
           UNCHANGED <<expired, unavailable, enabledBy, revoking>>, UNCHANGED clientVars
    PROVE  AdmissionInv'
<1>1. AdmissionTypeOK'
  BY DEF AdmissionInv, AdmissionTypeOK, InvitationRow, clientVars
<1>2. EnabledByAdmission'
  BY DEF AdmissionInv, AdmissionTypeOK, InvitationRow, EnabledByAdmission, SettledRow
<1>3. \A j \in Invitations : SettledRow(j) =>
              /\ SettledRow(j)' /\ invitation'[j].claim = invitation[j].claim
              /\ invitation'[j].subject = invitation[j].subject
  BY DEF AdmissionInv, AdmissionTypeOK, InvitationRow, SettledRow
<1> QED BY <1>1, <1>2, <1>3, OwnerKeeps

\* The rows stay as they are.
LEMMA RowsStay ==
    ASSUME AdmissionInv, invitation' = invitation, UNCHANGED clientVars,
           AdmissionTypeOK',
           \A s \in Identities : enabledBy'[s] \in {enabledBy[s], NoInvitation}
    PROVE  AdmissionInv'
<1>1. EnabledByAdmission'
  BY AdmissionAssumption DEF AdmissionAssumption, AdmissionInv, EnabledByAdmission
<1>2. \A j \in Invitations : SettledRow(j) =>
              /\ SettledRow(j)' /\ invitation'[j].claim = invitation[j].claim
              /\ invitation'[j].subject = invitation[j].subject
  BY DEF SettledRow
<1> QED BY <1>1, <1>2, OwnerKeeps

\* Whatever a claim did since prepareRevocation, the row finalizeRevocation
\* locks tells whose binding to disable.
LEMMA FinalizeRevocationKeeps ==
    ASSUME AdmissionInv, NEW i \in Invitations, FinalizeRevocation(i)
    PROVE  AdmissionInv'
<1>1. /\ invitation \in [Invitations -> InvitationRow]
      /\ enabledBy \in [Identities -> Invitations \cup {NoInvitation}]
      /\ EnabledByAdmission
  BY DEF AdmissionInv, AdmissionTypeOK
<1>2. /\ invitation' = [invitation EXCEPT ![i].state = "revoked"]
      /\ enabledBy' = IF invitation[i].state = "admitted"
                        THEN [enabledBy EXCEPT ![invitation[i].subject] = NoInvitation]
                        ELSE enabledBy
      /\ UNCHANGED clientVars
  BY DEF FinalizeRevocation, Disabled, RevokedRow
<1>3. invitation' \in [Invitations -> InvitationRow]
  BY <1>1, <1>2 DEF InvitationRow
<1>4. enabledBy' \in [Identities -> Invitations \cup {NoInvitation}]
  BY <1>1, <1>2
<1>5. AdmissionTypeOK'
  BY <1>3, <1>4 DEF AdmissionInv, AdmissionTypeOK, FinalizeRevocation, clientVars
<1>6. EnabledByAdmission'
  <2> SUFFICES ASSUME NEW s \in Identities, NEW j \in Invitations, enabledBy'[s] = j
               PROVE  invitation'[j].state = "admitted" /\ invitation'[j].subject = s
    BY DEF EnabledByAdmission
  <2>1. enabledBy[s] = j /\ ~(invitation[i].state = "admitted" /\ invitation[i].subject = s)
    BY <1>1, <1>2, AdmissionAssumption DEF AdmissionAssumption
  <2>2. invitation[j].state = "admitted" /\ invitation[j].subject = s
    BY <1>1, <2>1 DEF EnabledByAdmission
  <2>3. j # i
    BY <2>1, <2>2
  <2> QED BY <1>1, <1>2, <2>2, <2>3
<1>7. \A j \in Invitations : SettledRow(j) =>
              /\ SettledRow(j)' /\ invitation'[j].claim = invitation[j].claim
              /\ invitation'[j].subject = invitation[j].subject
  BY <1>1, <1>2 DEF SettledRow, InvitationRow
<1> QED BY <1>2, <1>5, <1>6, <1>7, OwnerKeeps

-----------------------------------------------------------------------------
(* The claim.                                                              *)

LEMMA ClaimKeeps ==
    ASSUME AdmissionInv, NEW m \in claims, Claim(m)
    PROVE  AdmissionInv'
<1>0. /\ invitation \in [Invitations -> InvitationRow]
      /\ enabledBy \in [Identities -> Invitations \cup {NoInvitation}]
      /\ file \in [Files -> CredentialFile] /\ doing \in [Files -> {"off", "decline", "identity", "join", "joining"}]
      /\ claims \subseteq ClaimRequest
      /\ EnabledByAdmission /\ FilesInv /\ ClaimsInv /\ AdmittedInv /\ NoCardIsStranded
  BY DEF AdmissionInv, AdmissionTypeOK
<1>1. m.invite \in Invitations /\ m.claim \in ClaimId /\ m.subject \in Identities /\ ClaimOK(m)
  BY <1>0 DEF ClaimRequest, ClaimsInv
<1>2. PICK c \in Files : c = m.claim[1]
  BY <1>1 DEF ClaimId
<1>3. m.claim = <<c, file[c].claim>> /\ m.invite = file[c].invite /\ m.subject = file[c].identity
  BY <1>1, <1>2 DEF ClaimOK, ClaimId
<1>4. UNCHANGED <<cardInvite, cardClaim, expired, unavailable, revoking>> /\ claims' \subseteq claims
  BY DEF Claim
<1>5. doing' \in [Files -> {"off", "decline", "identity", "join", "joining"}]
      /\ \A d \in Files : doing'[d] # "off" => doing[d] # "off"
  BY <1>0, <1>2 DEF Claim
<1>6. /\ invitation' \in [Invitations -> InvitationRow]
      /\ enabledBy' \in [Identities -> Invitations \cup {NoInvitation}]
      /\ EnabledByAdmission'
      /\ \A j \in Invitations : SettledRow(j) => SettledRow(j)' /\ invitation'[j] = invitation[j]
      /\ Admits(m) => /\ SettledRow(m.invite)' /\ invitation'[m.invite].claim = m.claim
                      /\ invitation'[m.invite].subject = m.subject
  <2>1. CASE Admits(m)
    <3>1. /\ invitation' = [invitation EXCEPT ![m.invite] =
                [state |-> "admitted", claim |-> m.claim, subject |-> m.subject]]
          /\ enabledBy' = [enabledBy EXCEPT ![m.subject] = m.invite]
          /\ invitation[m.invite].state = "pending"
      BY <2>1 DEF Claim, Admits, Admitted, Bound
    <3>2. /\ invitation' \in [Invitations -> InvitationRow]
          /\ enabledBy' \in [Identities -> Invitations \cup {NoInvitation}]
      BY <1>0, <1>1, <3>1 DEF InvitationRow
    <3>3. EnabledByAdmission'
      <4> SUFFICES ASSUME NEW s \in Identities, NEW j \in Invitations, enabledBy'[s] = j
                   PROVE  invitation'[j].state = "admitted" /\ invitation'[j].subject = s
        BY DEF EnabledByAdmission
      <4>1. CASE s = m.subject
        BY <1>0, <1>1, <3>1, <4>1
      <4>2. CASE s # m.subject
        <5>1. enabledBy[s] = j
          BY <1>0, <3>1, <4>2
        <5>2. invitation[j].state = "admitted" /\ invitation[j].subject = s
          BY <1>0, <5>1 DEF EnabledByAdmission
        <5> QED BY <1>0, <3>1, <5>2
      <4> QED BY <4>1, <4>2
    <3>4. \A j \in Invitations : SettledRow(j) => SettledRow(j)' /\ invitation'[j] = invitation[j]
      BY <1>0, <3>1 DEF SettledRow
    <3>5. /\ SettledRow(m.invite)' /\ invitation'[m.invite].claim = m.claim
          /\ invitation'[m.invite].subject = m.subject
      BY <1>0, <1>1, <3>1 DEF SettledRow
    <3> QED BY <3>2, <3>3, <3>4, <3>5
  <2>2. CASE ~Admits(m)
    <3>1. invitation' = invitation /\ enabledBy' = enabledBy
      BY <2>2 DEF Claim
    <3> QED BY <1>0, <2>2, <3>1 DEF EnabledByAdmission, SettledRow
  <2> QED BY <2>1, <2>2
<1>7. /\ file' \in [Files -> CredentialFile]
      /\ \A d \in Files : /\ file'[d].invite = file[d].invite /\ file'[d].claim = file[d].claim
                          /\ file'[d].identity = file[d].identity
                          /\ file'[d] # file[d] => d = c /\ (Admits(m) \/ Repeats(m)) /\ doing[c] = "joining"
  <2>1. CASE file' = file
    BY <1>0, <2>1
  <2>2. CASE file' # file
    <3>1. file' = [file EXCEPT ![c].state = "admitted"] /\ (Admits(m) \/ Repeats(m)) /\ doing[c] = "joining"
      BY <1>2, <2>2 DEF Claim
    <3>2. PICK f \in CredentialFile : f = file[c]
      BY <1>0
    <3>3. /\ [f EXCEPT !.state = "admitted"] \in CredentialFile
          /\ [f EXCEPT !.state = "admitted"].invite = f.invite
          /\ [f EXCEPT !.state = "admitted"].claim = f.claim
          /\ [f EXCEPT !.state = "admitted"].identity = f.identity
      BY DEF CredentialFile
    <3>4. file' = [file EXCEPT ![c] = [f EXCEPT !.state = "admitted"]]
      BY <1>0, <3>1, <3>2
    <3> QED BY <1>0, <3>1, <3>2, <3>3, <3>4
  <2> QED BY <2>1, <2>2
<1>8. AdmissionTypeOK'
  BY <1>0, <1>4, <1>5, <1>6, <1>7 DEF AdmissionInv, AdmissionTypeOK
<1>9. FilesInv'
  <2> SUFFICES ASSUME NEW d \in Files, file'[d] # NoFile \/ doing'[d] # "off" PROVE Named(file'[d])
    BY DEF FilesInv
  <2>1. file[d] # NoFile \/ doing[d] # "off"
    BY <1>5, <1>7
  <2> QED BY <1>0, <1>7, <2>1 DEF FilesInv, Named
<1>10. ClaimsInv'
  <2> SUFFICES ASSUME NEW n \in claims PROVE ClaimOK(n)'
    BY <1>4 DEF ClaimsInv
  <2>1. n.claim[1] \in Files /\ ClaimOK(n)
    BY <1>0 DEF ClaimRequest, ClaimId, ClaimsInv
  <2> QED BY <1>7, <2>1 DEF ClaimOK
<1>11. NoCardIsStranded'
  BY <1>0, <1>4, <1>7 DEF NoCardIsStranded
<1>12. AdmittedInv'
  <2> SUFFICES ASSUME NEW d \in Files, file'[d].state = "admitted"
               PROVE  /\ invitation'[file[d].invite].state \in {"admitted", "revoked"}
                      /\ invitation'[file[d].invite].claim = <<d, file[d].claim>>
                      /\ invitation'[file[d].invite].subject = file[d].identity
    BY <1>7 DEF AdmittedInv, SettledRow
  <2>1. CASE file'[d] = file[d]
    <3>1. /\ SettledRow(file[d].invite)
          /\ invitation[file[d].invite].claim = <<d, file[d].claim>>
          /\ invitation[file[d].invite].subject = file[d].identity
      BY <1>0, <2>1 DEF AdmittedInv
    <3>2. file[d].invite \in Invitations
      BY <1>0, <2>1, AdmittedIsNamed DEF Named
    <3> QED BY <1>6, <3>1, <3>2 DEF SettledRow
  <2>2. CASE file'[d] # file[d]
    <3>1. d = c /\ (Admits(m) \/ Repeats(m))
      BY <1>7, <2>2
    <3>2. Repeats(m) => /\ SettledRow(m.invite) /\ invitation[m.invite].claim = m.claim
                        /\ invitation[m.invite].subject = m.subject
      BY DEF Repeats, SameClaim, SettledRow
    <3>3. /\ SettledRow(m.invite)' /\ invitation'[m.invite].claim = m.claim
          /\ invitation'[m.invite].subject = m.subject
      BY <1>1, <1>6, <3>1, <3>2
    <3> QED BY <1>3, <3>1, <3>3 DEF SettledRow
  <2> QED BY <2>1, <2>2
<1> QED BY <1>6, <1>8, <1>9, <1>10, <1>11, <1>12 DEF AdmissionInv

-----------------------------------------------------------------------------
(* The client.                                                             *)

\* A step of a client that keeps what its file names.
LEMMA ClientKeeps ==
    ASSUME AdmissionInv, NEW c \in Files, UNCHANGED serverVars,
           NEW f \in CredentialFile, NEW step \in {"off", "decline", "identity", "join", "joining"},
           file' = [file EXCEPT ![c] = f], doing' = [doing EXCEPT ![c] = step],
           cardInvite' \in [Invitations -> {"none", "open", "revoked", "declined", "claimed"}],
           cardClaim' \in [Invitations -> ClaimId \cup {NoClaim}],
           Named(f), file[c] # NoFile => /\ f.invite = file[c].invite /\ f.claim = file[c].claim
                                         /\ f.identity = file[c].identity,
           f.state = "admitted" => file[c].state = "admitted",
           claims' = claims \/ claims' = claims \cup
              {[invite |-> f.invite, claim |-> <<c, f.claim>>, subject |-> f.identity]},
           cardClaim' = cardClaim \/ cardClaim' = [cardClaim EXCEPT ![f.invite] = <<c, f.claim>>]
    PROVE  AdmissionInv'
<1>0. /\ file \in [Files -> CredentialFile] /\ doing \in [Files -> {"off", "decline", "identity", "join", "joining"}]
      /\ claims \subseteq ClaimRequest /\ cardClaim \in [Invitations -> ClaimId \cup {NoClaim}]
      /\ FilesInv /\ ClaimsInv /\ AdmittedInv /\ NoCardIsStranded /\ EnabledByAdmission
  BY DEF AdmissionInv, AdmissionTypeOK
<1>1. invitation' = invitation /\ expired' = expired /\ unavailable' = unavailable
      /\ enabledBy' = enabledBy /\ revoking' = revoking
  BY DEF serverVars
<1> DEFINE new == [invite |-> f.invite, claim |-> <<c, f.claim>>, subject |-> f.identity]
<1>2. new \in ClaimRequest /\ new.claim[1] = c /\ new.claim[2] = f.claim
      /\ new.invite = f.invite /\ new.subject = f.identity
  BY DEF Named, ClaimRequest, ClaimId
<1>3. \A d \in Files : d # c => file'[d] = file[d] /\ doing'[d] = doing[d]
  BY <1>0
<1>4. file'[c] = f /\ doing'[c] = step
  BY <1>0
<1>5. file[c] = NoFile => /\ file[c].invite \notin Invitations
                          /\ file[c].state = "none"
  BY AdmissionAssumption DEF AdmissionAssumption, NoFile
<1>6. AdmissionTypeOK'
  BY <1>0, <1>1, <1>2 DEF AdmissionInv, AdmissionTypeOK
<1>7. FilesInv'
  BY <1>0, <1>3, <1>4 DEF FilesInv
<1>8. ClaimsInv'
  <2> SUFFICES ASSUME NEW m \in claims' PROVE ClaimOK(m)'
    BY DEF ClaimsInv
  <2>1. CASE m \in claims
    <3>1. m.claim[1] \in Files /\ m.invite \in Invitations /\ ClaimOK(m)
      BY <1>0, <2>1 DEF ClaimRequest, ClaimId, ClaimsInv
    <3>2. CASE m.claim[1] = c
      <4>1. file[c] # NoFile
        BY <1>5, <3>1, <3>2 DEF ClaimOK
      <4> QED BY <1>4, <3>1, <3>2, <4>1 DEF ClaimOK
    <3>3. CASE m.claim[1] # c
      BY <1>3, <3>1, <3>3 DEF ClaimOK
    <3> QED BY <3>2, <3>3
  <2>2. CASE m = new
    BY <1>2, <1>4, <2>2 DEF ClaimOK
  <2> QED BY <2>1, <2>2
<1>9. AdmittedInv'
  <2> SUFFICES ASSUME NEW d \in Files, file'[d].state = "admitted"
               PROVE  /\ invitation[file'[d].invite].state \in {"admitted", "revoked"}
                      /\ invitation[file'[d].invite].claim = <<d, file'[d].claim>>
                      /\ invitation[file'[d].invite].subject = file'[d].identity
    BY <1>1 DEF AdmittedInv, SettledRow
  <2>1. CASE d = c
    <3>1. file[c].state = "admitted" /\ file[c] # NoFile
      BY <1>4, <1>5, <2>1
    <3> QED BY <1>0, <1>4, <2>1, <3>1 DEF AdmittedInv, SettledRow
  <2>2. CASE d # c
    BY <1>0, <1>3, <2>2 DEF AdmittedInv, SettledRow
  <2> QED BY <2>1, <2>2
<1>10. NoCardIsStranded'
  <2> SUFFICES ASSUME NEW i \in Invitations, NEW d \in Files, NEW n \in {1, 2},
                      cardClaim'[i] = <<d, n>>
               PROVE  file'[d].invite = i /\ file'[d].claim = n
    BY DEF NoCardIsStranded
  <2>1. CASE cardClaim[i] = <<d, n>>
    <3>1. file[d].invite = i /\ file[d].claim = n
      BY <1>0, <2>1 DEF NoCardIsStranded
    <3>2. CASE d = c
      <4>1. file[c] # NoFile
        BY <1>5, <3>1, <3>2
      <4> QED BY <1>4, <3>1, <3>2, <4>1
    <3>3. CASE d # c
      BY <1>3, <3>1, <3>3
    <3> QED BY <3>2, <3>3
  <2>2. CASE cardClaim[i] # <<d, n>>
    <3>1. i = f.invite /\ <<c, f.claim>> = <<d, n>>
      BY <1>0, <2>2
    <3> QED BY <1>4, <3>1
  <2> QED BY <2>1, <2>2
<1>11. EnabledByAdmission'
  BY <1>0, <1>1 DEF EnabledByAdmission
<1> QED BY <1>6, <1>7, <1>8, <1>9, <1>10, <1>11 DEF AdmissionInv

\* A file is written once, before any request.
LEMMA CredentialKeeps ==
    ASSUME AdmissionInv, NEW c \in Files, NEW i \in Invitations,
           CreateCredential(c, i) \/ \E s \in Cards : ReuseCredential(c, i, s)
    PROVE  AdmissionInv'
<1>0. /\ cardInvite \in [Invitations -> {"none", "open", "revoked", "declined", "claimed"}]
      /\ cardClaim \in [Invitations -> ClaimId \cup {NoClaim}] /\ FilesInv
  BY DEF AdmissionInv, AdmissionTypeOK
<1>1. Cards \subseteq Identities
  <2> SUFFICES ASSUME NEW d \in Files, file[d].state \in {"identity_claimed", "admitted"}
               PROVE  file[d].identity \in Identities
    BY DEF Cards, Identities
  <2> QED BY <1>0, AdmittedIsNamed DEF Named
<1>2. \E f \in CredentialFile :
         /\ Named(f) /\ f.state # "admitted" /\ Advance(c, f)
  <2>1. CASE CreateCredential(c, i)
    <3> DEFINE f == [state |-> "identity_pending", invite |-> i, claim |-> 1,
                     identity |-> c, declined |-> TRUE]
    <3>1. f \in CredentialFile /\ Named(f) /\ f.state # "admitted"
      BY DEF CredentialFile, Named, Identities
    <3> QED BY <2>1, <3>1 DEF CreateCredential
  <2>2. CASE \E s \in Cards : ReuseCredential(c, i, s)
    <3>1. PICK s \in Cards : ReuseCredential(c, i, s)
      BY <2>2
    <3> DEFINE f == [state |-> "identity_claimed", invite |-> i, claim |-> 1,
                     identity |-> s, declined |-> FALSE]
    <3>2. f \in CredentialFile /\ Named(f) /\ f.state # "admitted"
      BY <1>1, <3>1 DEF CredentialFile, Named
    <3> QED BY <3>1, <3>2 DEF ReuseCredential
  <2> QED BY <2>1, <2>2
<1>3. PICK f \in CredentialFile : Named(f) /\ f.state # "admitted" /\ Advance(c, f)
  BY <1>2
<1>4. NextStep(f) \in {"off", "decline", "identity", "join", "joining"}
  BY DEF NextStep
<1>5. file[c] = NoFile /\ UNCHANGED serverVars /\ cardInvite' = cardInvite
      /\ cardClaim' = cardClaim /\ claims' = claims
  BY DEF CreateCredential, ReuseCredential
<1>6. file' = [file EXCEPT ![c] = f] /\ doing' = [doing EXCEPT ![c] = NextStep(f)]
  BY <1>3 DEF Advance
<1> QED BY <1>0, <1>3, <1>4, <1>5, <1>6, ClientKeeps

\* The other steps of a client keep or advance the file they find.
LEMMA StepKeeps ==
    ASSUME AdmissionInv, NEW c \in Files,
           \/ Rerun(c) \/ ClientStops(c) \/ DeclineUnusedIdentity(c)
           \/ ClaimIdentity(c) \/ SendClaim(c)
    PROVE  AdmissionInv'
<1> DEFINE Steps == {"off", "decline", "identity", "join", "joining"}
<1>0. /\ cardInvite \in [Invitations -> {"none", "open", "revoked", "declined", "claimed"}]
      /\ cardClaim \in [Invitations -> ClaimId \cup {NoClaim}] /\ FilesInv
      /\ file \in [Files -> CredentialFile] /\ doing \in [Files -> Steps]
  BY DEF AdmissionInv, AdmissionTypeOK
<1>1. Named(file[c]) /\ file[c] \in CredentialFile /\ UNCHANGED serverVars
  BY <1>0 DEF FilesInv, Rerun, ClientStops, DeclineUnusedIdentity, ClaimIdentity, SendClaim
<1>2. PICK f \in CredentialFile : f = file[c]
  BY <1>1
<1>3. file = [file EXCEPT ![c] = f] /\ Named(f)
  BY <1>0, <1>1, <1>2
<1>4. \A g \in CredentialFile : NextStep(g) \in Steps
  BY DEF NextStep
<1> HIDE DEF Steps
<1>5. CASE Rerun(c)
  <2>1. /\ file' = [file EXCEPT ![c] = f] /\ doing' = [doing EXCEPT ![c] = NextStep(f)]
        /\ UNCHANGED <<cardInvite, cardClaim, claims>>
    BY <1>2, <1>5 DEF Rerun, Advance, Loaded
  <2> QED BY <1>0, <1>1, <1>2, <1>3, <1>4, <2>1, ClientKeeps DEF Steps
<1>6. CASE ClientStops(c)
  <2>1. /\ file' = [file EXCEPT ![c] = f] /\ doing' = [doing EXCEPT ![c] = "off"]
        /\ UNCHANGED <<cardInvite, cardClaim, claims>>
    BY <1>3, <1>6 DEF ClientStops
  <2> QED BY <1>0, <1>1, <1>2, <1>3, <2>1, ClientKeeps
<1>7. CASE DeclineUnusedIdentity(c)
  <2>1. cardInvite' \in [Invitations -> {"none", "open", "revoked", "declined", "claimed"}]
        /\ UNCHANGED <<cardClaim, claims>>
    BY <1>0, <1>7 DEF DeclineUnusedIdentity
  <2>2. [f EXCEPT !.declined = TRUE] \in CredentialFile
    BY DEF CredentialFile
  <2>3. PICK g \in CredentialFile : g = [f EXCEPT !.declined = TRUE]
    BY <2>2
  <2>4. g.invite = f.invite /\ g.claim = f.claim /\ g.identity = f.identity /\ g.state = f.state
    BY <2>3 DEF CredentialFile
  <2>5. Named(g)
    BY <1>3, <2>4 DEF Named
  <2>6. \/ file' = [file EXCEPT ![c] = g] /\ doing' = [doing EXCEPT ![c] = NextStep(g)]
        \/ file' = [file EXCEPT ![c] = f] /\ doing' = [doing EXCEPT ![c] = "off"]
    BY <1>2, <1>3, <1>7, <2>3 DEF DeclineUnusedIdentity, Advance
  <2>7. CASE file' = [file EXCEPT ![c] = g] /\ doing' = [doing EXCEPT ![c] = NextStep(g)]
    BY <1>0, <1>1, <1>2, <1>4, <2>1, <2>4, <2>5, <2>7, ClientKeeps DEF Steps
  <2>8. CASE file' = [file EXCEPT ![c] = f] /\ doing' = [doing EXCEPT ![c] = "off"]
    BY <1>0, <1>1, <1>2, <1>3, <2>1, <2>8, ClientKeeps
  <2> QED BY <2>6, <2>7, <2>8
<1>8. CASE ClaimIdentity(c)
  <2>1. cardInvite' \in [Invitations -> {"none", "open", "revoked", "declined", "claimed"}]
        /\ UNCHANGED claims /\ cardClaim' = [cardClaim EXCEPT ![f.invite] = <<c, f.claim>>]
    BY <1>0, <1>2, <1>8 DEF ClaimIdentity
  <2>2. cardClaim' \in [Invitations -> ClaimId \cup {NoClaim}]
    BY <1>0, <1>3, <2>1 DEF ClaimId, Named
  <2>3. [f EXCEPT !.state = "identity_claimed"] \in CredentialFile
    BY DEF CredentialFile
  <2>4. PICK g \in CredentialFile : g = [f EXCEPT !.state = "identity_claimed"]
    BY <2>3
  <2>5. g.invite = f.invite /\ g.claim = f.claim /\ g.identity = f.identity
        /\ g.state = "identity_claimed"
    BY <2>4 DEF CredentialFile
  <2>6. Named(g)
    BY <1>3, <2>5 DEF Named
  <2>7. \/ file' = [file EXCEPT ![c] = g] /\ doing' = [doing EXCEPT ![c] = NextStep(g)]
        \/ file' = [file EXCEPT ![c] = f] /\ doing' = [doing EXCEPT ![c] = "off"]
    BY <1>2, <1>3, <1>8, <2>4 DEF ClaimIdentity, Advance
  <2>8. CASE file' = [file EXCEPT ![c] = g] /\ doing' = [doing EXCEPT ![c] = NextStep(g)]
    BY <1>0, <1>1, <1>2, <1>4, <2>1, <2>2, <2>5, <2>6, <2>8, ClientKeeps DEF Steps
  <2>9. CASE file' = [file EXCEPT ![c] = f] /\ doing' = [doing EXCEPT ![c] = "off"]
    BY <1>0, <1>1, <1>2, <1>3, <2>1, <2>2, <2>9, ClientKeeps
  <2> QED BY <2>7, <2>8, <2>9
<1>9. CASE SendClaim(c)
  <2>1. /\ file' = [file EXCEPT ![c] = f] /\ doing' = [doing EXCEPT ![c] = "joining"]
        /\ UNCHANGED <<cardInvite, cardClaim>>
        /\ claims' = claims \cup
              {[invite |-> f.invite, claim |-> <<c, f.claim>>, subject |-> f.identity]}
    BY <1>2, <1>3, <1>9 DEF SendClaim
  <2> QED BY <1>0, <1>1, <1>2, <1>3, <2>1, ClientKeeps
<1> QED BY <1>5, <1>6, <1>7, <1>8, <1>9

-----------------------------------------------------------------------------
LEMMA AdmissionInitially == AdmissionInit => AdmissionInv
<1> SUFFICES ASSUME AdmissionInit PROVE AdmissionInv
  OBVIOUS
<1>1. NoFile \in CredentialFile /\ NoFile.state = "none"
  BY DEF NoFile, CredentialFile
<1>2. Unknown \in InvitationRow
  BY DEF Unknown, InvitationRow
<1>3. AdmissionTypeOK
  BY <1>1, <1>2 DEF AdmissionInit, AdmissionTypeOK
<1>4. EnabledByAdmission
  BY AdmissionAssumption DEF AdmissionInit, EnabledByAdmission, AdmissionAssumption
<1>5. NoCardIsStranded
  BY DEF AdmissionInit, NoCardIsStranded, NoClaim
<1>6. FilesInv /\ ClaimsInv /\ AdmittedInv
  BY <1>1 DEF AdmissionInit, FilesInv, ClaimsInv, AdmittedInv
<1> QED BY <1>3, <1>4, <1>5, <1>6 DEF AdmissionInv

LEMMA OwnerStepKeeps ==
    ASSUME AdmissionInv, NEW i \in Invitations,
           \/ MakeCardInvitation(i) \/ InsertInvitation(i) \/ AbandonInvitation(i)
           \/ PrepareRevocation(i) \/ RevokeCardInvitation(i) \/ RevocationFails(i)
           \/ FinalizeRevocation(i) \/ Expire(i) \/ ArchiveOrRestoreRoom(i)
    PROVE  AdmissionInv'
<1>0. cardInvite \in [Invitations -> {"none", "open", "revoked", "declined", "claimed"}]
  BY DEF AdmissionInv, AdmissionTypeOK
<1>1. CASE MakeCardInvitation(i)
  BY <1>0, <1>1, RowChanges DEF MakeCardInvitation, SettledRow
<1>2. CASE InsertInvitation(i)
  BY <1>0, <1>2, RowChanges DEF InsertInvitation, SettledRow
<1>3. CASE AbandonInvitation(i)
  BY <1>0, <1>3, RowChanges DEF AbandonInvitation, SettledRow
<1>4. CASE \/ PrepareRevocation(i) \/ RevokeCardInvitation(i) \/ RevocationFails(i)
           \/ Expire(i) \/ ArchiveOrRestoreRoom(i)
  <2>1. invitation' = invitation /\ enabledBy' = enabledBy /\ UNCHANGED clientVars
    BY <1>4 DEF PrepareRevocation, RevokeCardInvitation, RevocationFails, Expire,
                ArchiveOrRestoreRoom
  <2>2. cardInvite' \in [Invitations -> {"none", "open", "revoked", "declined", "claimed"}]
    BY <1>0, <1>4 DEF PrepareRevocation, RevokeCardInvitation, RevocationFails, Expire,
                ArchiveOrRestoreRoom
  <2>3. revoking' \in [Invitations -> {"idle", "card", "unused", "final"}]
    BY <1>4 DEF AdmissionInv, AdmissionTypeOK, PrepareRevocation, RevokeCardInvitation,
                RevocationFails, Expire, ArchiveOrRestoreRoom
  <2>4. expired' \subseteq Invitations /\ unavailable' \subseteq Invitations
    BY <1>4 DEF AdmissionInv, AdmissionTypeOK, PrepareRevocation, RevokeCardInvitation,
                RevocationFails, Expire, ArchiveOrRestoreRoom
  <2>5. AdmissionTypeOK'
    BY <2>1, <2>2, <2>3, <2>4 DEF AdmissionInv, AdmissionTypeOK, clientVars
  <2> QED BY <2>1, <2>5, RowsStay
<1>5. CASE FinalizeRevocation(i)
  BY <1>5, FinalizeRevocationKeeps
<1> QED BY <1>1, <1>2, <1>3, <1>4, <1>5

LEMMA RevokeAgentKeeps ==
    ASSUME AdmissionInv, NEW s \in Identities, RevokeAICardAgent(s)
    PROVE  AdmissionInv'
<1>1. /\ enabledBy' = [enabledBy EXCEPT ![s] = NoInvitation]
      /\ UNCHANGED <<invitation, cardInvite, expired, unavailable, revoking>> /\ UNCHANGED clientVars
  BY DEF RevokeAICardAgent, Disabled
<1>2. enabledBy \in [Identities -> Invitations \cup {NoInvitation}]
  BY DEF AdmissionInv, AdmissionTypeOK
<1>3. AdmissionTypeOK'
  BY <1>1, <1>2 DEF AdmissionInv, AdmissionTypeOK, clientVars
<1>4. \A r \in Identities : enabledBy'[r] \in {enabledBy[r], NoInvitation}
  BY <1>1, <1>2
<1> QED BY <1>1, <1>3, <1>4, RowsStay

LEMMA AdmissionInductive == AdmissionInv /\ [AdmissionNext]_admissionVars => AdmissionInv'
<1> SUFFICES ASSUME AdmissionInv, [AdmissionNext]_admissionVars PROVE AdmissionInv'
  OBVIOUS
<1>1. ASSUME NEW i \in Invitations,
             \/ MakeCardInvitation(i) \/ InsertInvitation(i) \/ AbandonInvitation(i)
             \/ PrepareRevocation(i) \/ RevokeCardInvitation(i) \/ RevocationFails(i)
             \/ FinalizeRevocation(i) \/ Expire(i) \/ ArchiveOrRestoreRoom(i)
      PROVE  AdmissionInv'
  BY <1>1, OwnerStepKeeps
<1>2. ASSUME NEW s \in Identities, RevokeAICardAgent(s) PROVE AdmissionInv'
  BY <1>2, RevokeAgentKeeps
<1>3. ASSUME NEW m \in claims, Claim(m) PROVE AdmissionInv'
  BY <1>3, ClaimKeeps
<1>4. ASSUME NEW c \in Files,
             \/ Rerun(c) \/ ClientStops(c) \/ DeclineUnusedIdentity(c)
             \/ ClaimIdentity(c) \/ SendClaim(c)
      PROVE  AdmissionInv'
  BY <1>4, StepKeeps
<1>5. ASSUME NEW c \in Files, NEW i \in Invitations,
             CreateCredential(c, i) \/ \E s \in Cards : ReuseCredential(c, i, s)
      PROVE  AdmissionInv'
  BY <1>5, CredentialKeeps
<1>6. CASE UNCHANGED admissionVars
  <2>1. AdmissionTypeOK' /\ EnabledByAdmission' /\ UNCHANGED clientVars /\ invitation' = invitation
    BY <1>6 DEF admissionVars, AdmissionInv, AdmissionTypeOK, EnabledByAdmission, clientVars
  <2> QED BY <1>6, <2>1, RowsStay DEF admissionVars
<1> QED BY <1>1, <1>2, <1>3, <1>4, <1>5, <1>6 DEF AdmissionNext

\* The invariant holds of every behaviour of the specification.
LEMMA AdmissionAlways == AdmissionSpec => []AdmissionInv
BY AdmissionInitially, AdmissionInductive, PTL DEF AdmissionSpec

\* The rows, the files and the claims of agent-admission-repository.ts and
\* agent-admission-reference.mts keep their types.
THEOREM AdmissionTypeCorrect == AdmissionSpec => []AdmissionTypeOK
<1>1. AdmissionInv => AdmissionTypeOK
  BY DEF AdmissionInv
<1> QED BY <1>1, AdmissionAlways, PTL

\* A binding is enabled only by a standing invitation that admitted its Agent,
\* however claims and revocations overlap (finalizeRevocation).
THEOREM EnabledOnlyByAdmission == AdmissionSpec => []EnabledByAdmission
<1>1. AdmissionInv => EnabledByAdmission
  BY DEF AdmissionInv
<1> QED BY <1>1, AdmissionAlways, PTL

\* Whatever crashes, lost answers and repeats there are, a file that says
\* admitted is the one the invitation recorded, and every card drawn is in a
\* file that can go on (claim, createCredential).
THEOREM FilesAreTrue == AdmissionSpec => []FilesTellTheTruth
<1>1. AdmissionInv => FilesTellTheTruth
  BY DEF AdmissionInv, AdmittedInv, FilesTellTheTruth, AdmittedOnce
<1> QED BY <1>1, AdmissionAlways, PTL

-----------------------------------------------------------------------------
(* The guest list.                                                         *)

\* A row has an Agent from its admission on.
DeskInv ==
    \A i \in Invitations :
        /\ invitation[i].state = "admitted" => invitation[i].subject \in Identities
        /\ ~SettledRow(i) => invitation[i].subject = NoFileId

DeskGuest == [i \in Invitations |-> invitation[i].subject]
DeskRevoked == {i \in Invitations : invitation[i].state = "revoked"}

LEMMA DeskInitially == AdmissionInit => DeskInv /\ Desk!GuestInit
BY DEF AdmissionInit, Unknown, DeskInv, SettledRow, Desk!GuestInit

\* Nothing of the list changes.
LEMMA QuietDesk ==
    ASSUME DeskInv, UNCHANGED <<invitation, enabledBy>>
    PROVE  DeskInv' /\ UNCHANGED Desk!guestVars
BY DEF DeskInv, SettledRow, Desk!guestVars

\* A row that is not settled changes its state, and not its Agent.
LEMMA UnsettledDesk ==
    ASSUME AdmissionInv, DeskInv, NEW i \in Invitations, ~SettledRow(i),
           NEW state \in {"inserting", "abandoned", "pending"},
           invitation' = [invitation EXCEPT ![i].state = state],
           enabledBy' = enabledBy
    PROVE  DeskInv' /\ UNCHANGED Desk!guestVars
<1>1. invitation \in [Invitations -> InvitationRow]
  BY DEF AdmissionInv, AdmissionTypeOK
<1>2. /\ \A j \in Invitations : invitation'[j].subject = invitation[j].subject
      /\ \A j \in Invitations : j # i => invitation'[j] = invitation[j]
      /\ invitation'[i].state = state
  BY <1>1 DEF InvitationRow
<1>3. DeskInv'
  BY <1>2 DEF DeskInv, SettledRow
<1>4. DeskGuest' = DeskGuest
  BY <1>2 DEF DeskGuest
<1>5. DeskRevoked' = DeskRevoked
  BY <1>2 DEF DeskRevoked, SettledRow
<1> QED BY <1>3, <1>4, <1>5 DEF Desk!guestVars, DeskGuest, DeskRevoked

\* A revocation takes away the permissions of the Agent that the row, read
\* again, has admitted.
LEMMA FinalizeOnDesk ==
    ASSUME AdmissionInv, DeskInv, NEW i \in Invitations, FinalizeRevocation(i)
    PROVE  DeskInv' /\ Desk!Revoke(i)
<1>1. /\ invitation \in [Invitations -> InvitationRow]
      /\ enabledBy \in [Identities -> Invitations \cup {NoInvitation}]
  BY DEF AdmissionInv, AdmissionTypeOK
<1>2. /\ invitation[i].state \in {"pending", "admitted"}
      /\ invitation' = [invitation EXCEPT ![i].state = "revoked"]
      /\ enabledBy' = IF invitation[i].state = "admitted"
                        THEN [enabledBy EXCEPT ![invitation[i].subject] = NoInvitation]
                        ELSE enabledBy
  BY DEF FinalizeRevocation, Disabled, RevokedRow
<1>3. /\ \A j \in Invitations : invitation'[j].subject = invitation[j].subject
      /\ \A j \in Invitations : j # i => invitation'[j] = invitation[j]
      /\ invitation'[i].state = "revoked"
  BY <1>1, <1>2 DEF InvitationRow
<1>4. DeskInv'
  BY <1>3 DEF DeskInv, SettledRow
<1>5. DeskGuest' = DeskGuest /\ DeskRevoked' = DeskRevoked \cup {i} /\ i \notin DeskRevoked
  BY <1>2, <1>3 DEF DeskGuest, DeskRevoked
<1>6. enabledBy' = [s \in Identities |->
                      IF s = DeskGuest[i] THEN NoInvitation ELSE enabledBy[s]]
  <2>1. CASE invitation[i].state = "admitted"
    BY <1>1, <1>2, <2>1 DEF DeskInv, DeskGuest
  <2>2. CASE invitation[i].state = "pending"
    <3>1. DeskGuest[i] \notin Identities /\ enabledBy' = enabledBy
      BY <1>2, <2>2, AdmissionAssumption
         DEF AdmissionAssumption, DeskInv, SettledRow, DeskGuest, Identities
    <3> QED BY <1>1, <3>1
  <2> QED BY <1>2, <2>1, <2>2
<1> QED BY <1>4, <1>5, <1>6 DEF Desk!Revoke, DeskGuest, DeskRevoked

\* A claim admits, or changes nothing of the list.
LEMMA ClaimOnDesk ==
    ASSUME AdmissionInv, DeskInv, NEW m \in claims, Claim(m)
    PROVE  DeskInv' /\ [Desk!GuestNext]_(Desk!guestVars)
<1>1. /\ invitation \in [Invitations -> InvitationRow]
      /\ m.invite \in Invitations /\ m.subject \in Identities /\ m.claim \in ClaimId
  BY DEF AdmissionInv, AdmissionTypeOK, ClaimRequest
<1>2. CASE ~Admits(m)
  BY <1>2, QuietDesk DEF Claim
<1>3. CASE Admits(m)
  <2>1. /\ invitation[m.invite].state = "pending"
        /\ invitation' = [invitation EXCEPT ![m.invite] =
              [state |-> "admitted", claim |-> m.claim, subject |-> m.subject]]
        /\ enabledBy' = [enabledBy EXCEPT ![m.subject] = m.invite]
    BY <1>3 DEF Claim, Admits, Admitted, Bound
  <2>2. /\ invitation'[m.invite].state = "admitted"
        /\ invitation'[m.invite].subject = m.subject
        /\ \A j \in Invitations : j # m.invite => invitation'[j] = invitation[j]
    BY <1>1, <2>1
  <2>3. DeskInv'
    BY <1>1, <2>2 DEF DeskInv, SettledRow
  <2>4. /\ DeskGuest[m.invite] = NoFileId /\ m.invite \notin DeskRevoked
        /\ DeskGuest' = [DeskGuest EXCEPT ![m.invite] = m.subject]
        /\ DeskRevoked' = DeskRevoked
    BY <1>1, <2>1, <2>2 DEF DeskInv, SettledRow, DeskGuest, DeskRevoked
  <2>5. Desk!Admit(m.invite, m.subject)
    BY <2>1, <2>4 DEF Desk!Admit, DeskGuest, DeskRevoked
  <2> QED BY <1>1, <2>3, <2>5 DEF Desk!GuestNext
<1> QED BY <1>2, <1>3

LEMMA DeskStep ==
    AdmissionInv /\ DeskInv /\ [AdmissionNext]_admissionVars =>
        DeskInv' /\ [Desk!GuestNext]_(Desk!guestVars)
<1> SUFFICES ASSUME AdmissionInv, DeskInv, [AdmissionNext]_admissionVars
             PROVE  DeskInv' /\ [Desk!GuestNext]_(Desk!guestVars)
  OBVIOUS
<1>1. ASSUME NEW i \in Invitations,
             \/ MakeCardInvitation(i) \/ InsertInvitation(i) \/ AbandonInvitation(i)
      PROVE  DeskInv' /\ UNCHANGED Desk!guestVars
  BY <1>1, UnsettledDesk
     DEF MakeCardInvitation, InsertInvitation, AbandonInvitation, SettledRow
<1>2. ASSUME NEW i \in Invitations, FinalizeRevocation(i)
      PROVE  DeskInv' /\ Desk!GuestNext
  BY <1>2, FinalizeOnDesk DEF Desk!GuestNext
<1>3. ASSUME NEW s \in Identities, RevokeAICardAgent(s)
      PROVE  DeskInv' /\ Desk!GuestNext
  <2>1. enabledBy' = [enabledBy EXCEPT ![s] = NoInvitation] /\ invitation' = invitation
    BY <1>3 DEF RevokeAICardAgent, Disabled
  <2>2. DeskInv' /\ Desk!Dismiss(s)
    BY <2>1 DEF DeskInv, SettledRow, Desk!Dismiss
  <2> QED BY <2>2 DEF Desk!GuestNext
<1>4. ASSUME NEW m \in claims, Claim(m)
      PROVE  DeskInv' /\ [Desk!GuestNext]_(Desk!guestVars)
  BY <1>4, ClaimOnDesk
<1>5. CASE \/ \E i \in Invitations :
                \/ PrepareRevocation(i) \/ RevokeCardInvitation(i)
                \/ RevocationFails(i) \/ Expire(i) \/ ArchiveOrRestoreRoom(i)
           \/ \E c \in Files :
                \/ Rerun(c) \/ ClientStops(c)
                \/ DeclineUnusedIdentity(c) \/ ClaimIdentity(c) \/ SendClaim(c)
                \/ \E i \in Invitations :
                      \/ CreateCredential(c, i)
                      \/ \E s \in Cards : ReuseCredential(c, i, s)
           \/ UNCHANGED admissionVars
  <2>1. UNCHANGED <<invitation, enabledBy>>
    BY <1>5 DEF PrepareRevocation, RevokeCardInvitation, RevocationFails, Expire,
       ArchiveOrRestoreRoom, Rerun, ClientStops, DeclineUnusedIdentity,
       ClaimIdentity, SendClaim, CreateCredential, ReuseCredential, serverVars,
       admissionVars
  <2> QED BY <2>1, QuietDesk
<1> QED BY <1>1, <1>2, <1>3, <1>4, <1>5 DEF AdmissionNext

\* An invitation admits one Agent, once, and gives permissions in that step
\* alone; revoking it takes them away, whatever claims, lost answers and
\* revocations overlap (claim, finalizeRevocation, revokeAICardAgent).
THEOREM GuestListImplemented == AdmissionSpec => ImplementsGuestList
<1>1. AdmissionInit => AdmissionInv /\ DeskInv /\ Desk!GuestInit
  BY AdmissionInitially, DeskInitially
<1>2. AdmissionInv /\ DeskInv /\ [AdmissionNext]_admissionVars =>
        (AdmissionInv /\ DeskInv)' /\ [Desk!GuestNext]_(Desk!guestVars)
  BY AdmissionInductive, DeskStep
<1> QED BY <1>1, <1>2, PTL DEF AdmissionSpec, ImplementsGuestList, Desk!GuestSpec
=============================================================================
