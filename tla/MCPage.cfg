SPECIFICATION Spec

CONSTANTS
  Rooms = {r1, r2}
  Windows = {w1, w2}
  Texts = {"a", "b"}
  MaxRevision = 3
  MaxTyped = 2
  MaxSends = 2
  MaxSelects = 2
  MaxQueue = 2
  None = None

SYMMETRY PageSymmetry

INVARIANTS
  ReferencesMatch

PROPERTIES
  UnseenDraftKept
  OnlySentDraftsAreCleared
  CursorAdvances

CHECK_DEADLOCK FALSE
