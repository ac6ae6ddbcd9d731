SPECIFICATION Spec
CONSTANTS
  Clients = {c1, c2}
  NSlots = 2
  Requests <- AllRequests
  NoData = NoData
  MaxTasks = 2
  MaxDecoded = 1
  DecodeMayFail = TRUE
  ClientsMayLeave = TRUE
INVARIANTS
  TypeOK
  TaskInOnePlace
  NeverSleepsOnWork
PROPERTIES
  EntersByPostOnly
SYMMETRY ClientSymmetry
CHECK_DEADLOCK FALSE
