SPECIFICATION Spec
CONSTANTS
  Clients = {c1, c2}
  NSlots = 1
  Requests <- Schedulable
  NoData = NoData
  MaxTasks = 3
  MaxDecoded = 2
  DecodeMayFail = FALSE
  ClientsMayLeave = TRUE
INVARIANTS
  NoStrandedTask
  AnswersInOrder
PROPERTIES
  ImplementsBroker
SYMMETRY ClientSymmetry
CHECK_DEADLOCK FALSE
