SPECIFICATION ConfFairSpec
CONSTANTS
  Servers = {s1, s2}
  Tries = 2
  FreshTree = TRUE
  MaxStarts = 2
  MaxSets = 1
  MaxLosses = 2
  LoadMayGiveUp = FALSE
CHECK_DEADLOCK FALSE
INVARIANTS RegisteredIsOurs 
PROPERTY ListCatchesUp
