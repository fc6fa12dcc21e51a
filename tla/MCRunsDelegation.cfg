SPECIFICATION Spec

CONSTANTS
  Runs = {r1, r2}
  Messages = {m1}
  WithFiles = {}
  Agents = {planner, bridge}
  Gateway = {bridge}
  Delegators = {planner}
  Producers = {planner}
  Cancellable = {}
  Readers = {bridge}
  Keys = {k1}
  RetryKeys = {}
  NoRun = NoRun
  NoKey = NoKey
  NoRow = NoRow
  NoEvent = NoEvent
  MaxProgress = 2
  MaxRestarts = 1
  MaxFaults = 1
  Movable = {bridge}
  Addressed = {planner}
  Retractable = {}

SYMMETRY RunSymmetry

INVARIANTS
  LogMatchesStatus
  DelegationFollowsChild
  OnlyUnrecordedChildrenAreStranded
  EffectsMatchLog

PROPERTIES
  ImplementsBoard
  FinishedRunsStay

CHECK_DEADLOCK FALSE
