SPECIFICATION Spec
CONSTANTS
  Indices = {0, 1, 2}
  MaxSpeed <- Limits
  Word = 16
  IntMax = 2
  MaxCalls = 4
INVARIANTS SpeedsAddUp
CHECK_DEADLOCK FALSE
