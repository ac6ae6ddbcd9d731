SPECIFICATION FairSpec
CONSTANTS
  NWorld = 6
  None = None
INVARIANTS
  TypeOK
  AssertionsHold
  Barriers
  OneRing
  OneLastWorker
  NothingLeft
PROPERTIES
  EveryDeviceSettles
  StopGoesRound
CHECK_DEADLOCK FALSE
