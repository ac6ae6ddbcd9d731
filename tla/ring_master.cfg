SPECIFICATION FairSpec
CONSTANTS
  NWorld = 3
  None = None
PROPERTY
  OthersSettle
CHECK_DEADLOCK FALSE
