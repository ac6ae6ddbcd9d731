SPECIFICATION Spec
CONSTANTS
  NWorld = 3
  Setups <- OneRing
  NUbatch = 2
  NKeep = 1
  MaxInput = 3
  MaxCalls = 3
  SlowMaster = TRUE
  Size = 7
  Nothing = Nothing
INVARIANT
  AssertionsHold
CHECK_DEADLOCK FALSE
