SPECIFICATION FairSpec
CONSTANTS
  Clients = {c1, c2}
  NSlots = 1
  Requests <- Regular
  NoData = NoData
  MaxTasks = 3
  MaxDecoded = 2
  DecodeMayFail = FALSE
  ClientsMayLeave = FALSE
INVARIANTS
  NoOrphanResult
PROPERTIES
  StopsAfterSignal
  ImplementsFairBroker
CHECK_DEADLOCK FALSE
