SPECIFICATION Spec
CONSTANTS
  NSlots = 2
  NCtx = 5
  Size = 10
  NBatch = 3
  NUbatch = 2
  AddBos = 1
  NPredict = 3
  Requests <- ShortAndLong
  Systems <- NoSystems
  Sampled = {1}
  InvalidToken = 9
  SlotActions = {"save", "restore", "erase"}
  MaxTasks = 3
  Nothing = Nothing
INVARIANTS
  TypeOK
  CacheTokensStored
  SlotPositions
  NeverFull
  WorkerAgrees
CHECK_DEADLOCK FALSE
