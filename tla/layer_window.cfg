SPECIFICATION Spec
CONSTANTS
  NWorld = 4
  Layers = {8}
  MemBudgets = {1, 5}
  MaxWindow = 1
  U32 = 1000
INVARIANT
  WindowsInRange
CHECK_DEADLOCK FALSE
