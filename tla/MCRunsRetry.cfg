SPECIFICATION Spec

CONSTANTS
  Runs = {r1, r2, r3}
  Messages = {m1}
  WithFiles = {m1}
  Agents = {planner, reviewer}
  Gateway = {}
  Delegators = {planner}
  Producers = {planner}
  Cancellable = {}
  Readers = {planner}
  Keys = {}
  RetryKeys = {again, other}
  NoRun = NoRun
  NoKey = NoKey
  NoRow = NoRow
  NoEvent = NoEvent
  MaxProgress = 0
  MaxRestarts = 1
  MaxFaults = 0
  Movable = {}
  Addressed = {planner, reviewer}
  Retractable = {m1}

SYMMETRY RunSymmetry

INVARIANTS
  OneActiveRetry

CHECK_DEADLOCK FALSE
