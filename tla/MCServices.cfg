SPECIFICATION ServicesSpec

CONSTANTS
  u1 = u1  u2 = u2  v1 = v1  v2 = v2
  Attempts = {u1, u2}
  Scopes = {"account"}
  Limit = 2
  Window = 2
  Lock = 2
  MaxDelay = 1
  LoginMaxClock = 5
  MaxResets = 2
  Missing = Missing
  Authorizations = {s1}
  Requests = {u1, u2}
  Interval = 1
  Grace = 1
  MaxTokens = 2
  CardMaxClock = 3
  NoSession = NoSession
  Invitations = {v1, v2}
  Files = {u1, u2}
  Existing = {e1}
  NoInvitation = NoInvitation
  NoFileId = NoFileId
  MaxTurns = 2
  SubmitKeys = {u1, u2}
  AgainKeys = {a1}
  MaxDeltas = 1
  MaxFaults = 2
  NoSubmission = NoSubmission

SYMMETRY ServicesSymmetry

INVARIANTS
  FailuresBounded
  NoSessionFromBefore
  LogoutIsFinal
  GrantedSessionsLast
  WithdrawalReaches
  
  FilesTellTheTruth
  ActiveTurnsHaveWorker
  TurnTellsOneStory

CHECK_DEADLOCK FALSE
