SPECIFICATION FairSpec
CONSTANTS
  NWorld = 4
  Setups <- SomeSetups
  NUbatch = 1
  NKeep = 1
  MaxInput = 2
  MaxCalls = 5
  SlowMaster = FALSE
  Size = 6
  Nothing = Nothing
INVARIANTS
  TypeOK
  AppliedInOrder
  RightMessage
  CachesAgree
PROPERTIES
  DecodeReturns
  EveryoneLeaves
  ImplementsLayerOrder
CHECK_DEADLOCK FALSE
