SPECIFICATION Spec
CONSTANTS
  NSlots = 2
  NCtx = 5
  Size = 10
  NBatch = 3
  NUbatch = 2
  AddBos = 1
  NPredict = 4
  Requests <- OnePrompt
  Systems <- OneSystem
  Sampled = {1}
  InvalidToken = 9
  SlotActions = {}
  MaxTasks = 3
  Nothing = Nothing
INVARIANTS
  WorkerAgrees
CHECK_DEADLOCK FALSE
