SPECIFICATION SafetySpec

CONSTANTS
  Runs = {j1, j2}
  secondJob = j2
  theAgent = helper
  Agents = {helper}
  Workers = {w1, w2}
  Target <- TheTarget
  Owner <- TheOwner
  RuntimeWorkers = {w2}
  Answers = {"yes"}
  LeaseIds = {l1, l2, l3}
  LeaseTime = 2
  ResponseTime = 2
  PresenceTime = 1
  MaxDelay = 1
  MaxRestarts = 1
  Managed = {helper}
  NoRun = NoRun
  NoLease = NoLease
  NoResult = NoResult

SYMMETRY LeaseSymmetry

INVARIANTS
  SecondLeaseClaimedAtOnce
  LockedRowClaimable
  OneAnswerPerJob
  RunShowsStoredAnswer

PROPERTIES
  ImplementsJobBoard
  LeaseNotStolen

CHECK_DEADLOCK FALSE
