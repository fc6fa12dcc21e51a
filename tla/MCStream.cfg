SPECIFICATION FairSpec

CONSTANTS
  Refreshes = {f1, f2}
  Parts = {"runs"}
  MaxEvents = 2
  MaxBreaks = 1
  MaxRejects = 1
  MaxRefreshes = 1
  MaxLeaves = 1

INVARIANTS
  EndsAfterTerminal

PROPERTIES
  ImplementsFeed
  EndIsShown

CHECK_DEADLOCK FALSE
