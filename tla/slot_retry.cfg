SPECIFICATION Spec
CONSTANTS
  NSlots = 2
  NCtx = 5
  Size = 10
  NBatch = 4
  NUbatch = 2
  AddBos = 1
  NPredict = 4
  Requests <- ShortAndLong
  Systems <- NoSystems
  Sampled = {1}
  InvalidToken = 9
  SlotActions = {}
  MaxTasks = 3
  Nothing = Nothing
INVARIANTS
  SlotPositions
CHECK_DEADLOCK FALSE
