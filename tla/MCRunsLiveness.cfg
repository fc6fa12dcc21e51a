SPECIFICATION FairSpec

CONSTANTS
  Runs = {r1, r2}
  Messages = {m1}
  WithFiles = {}
  Agents = {planner, bridge}
  Gateway = {bridge}
  Delegators = {planner}
  Producers = {}
  Cancellable = {planner}
  Readers = {bridge}
  Keys = {k1}
  RetryKeys = {}
  NoRun = NoRun
  NoKey = NoKey
  NoRow = NoRow
  NoEvent = NoEvent
  MaxProgress = 1
  MaxRestarts = 1
  MaxFaults = 0
  Movable = {}
  Addressed = {planner, bridge}
  Retractable = {}

INVARIANTS
  SequenceInStep

PROPERTIES
  StartedRunsFinish
  AbortedRunsStop

CHECK_DEADLOCK FALSE
