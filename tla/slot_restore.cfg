SPECIFICATION Spec
CONSTANTS
  NSlots = 2
  NCtx = 5
  Size = 10
  NBatch = 3
  NUbatch = 2
  AddBos = 1
  NPredict = 4
  Requests <- OnePrompt
  Systems <- NoSystems
  Sampled = {1}
  InvalidToken = 9
  SlotActions = {"save", "restore"}
  MaxTasks = 2
  Nothing = Nothing
INVARIANTS
  RestoreAsserts
CHECK_DEADLOCK FALSE
