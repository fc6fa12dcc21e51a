SPECIFICATION FairSpec

CONSTANTS
  Runs = {j1, j2}
  theAgent = helper
  Agents = {helper}
  Workers = {w1}
  Target <- TheTarget
  Owner <- TheOwner
  RuntimeWorkers = {}
  Answers = {}
  LeaseIds = {l1, l2, l3}
  LeaseTime = 1
  ResponseTime = 1
  PresenceTime = 1
  MaxDelay = 0
  MaxRestarts = 1
  Managed = {}
  NoRun = NoRun
  NoLease = NoLease
  NoResult = NoResult

PROPERTIES
  AdapterEnds
  OldestIsReclaimed

CHECK_DEADLOCK FALSE
