SPECIFICATION LegacySpec

CONSTANTS
  MaxTurns = 3
  SubmitKeys = {u1, u2}
  AgainKeys = {a1}
  MaxDeltas = 1
  MaxFaults = 1
  NoSubmission = NoSubmission

INVARIANTS
  OneActiveTurn

CHECK_DEADLOCK FALSE
