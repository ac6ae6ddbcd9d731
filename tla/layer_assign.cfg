SPECIFICATION Spec
CONSTANTS
  NWorld = 4
  Layers = {1, 2, 3, 5, 6, 8, 9}
  MemBudgets = {1, 2, 5, 6, 9}
  MaxWindow = 3
  U32 = 1000
INVARIANTS
  LayersAddUp
  PlacedOnce
CHECK_DEADLOCK FALSE
