SPECIFICATION Spec
CONSTANTS
  Size = 3
  Nothing = Nothing
  Seqs = {0, 1}
  Bounds <- OpenOrOne
  Deltas <- UpOrDown
  Divisors = {2}
  MaxBatch = 2
  MaxMoves = 1
  MaxPos = 1
  MaxShift = 1
  MaxTokens = 4
  WideSize = 8
INVARIANTS
  UsedIsExact
  FindSlotExact
  DefragCompacts
  KeysFollowPositions
PROPERTIES
  ImplementsStore
