SPECIFICATION Spec
CONSTANTS
  Processes = {p1, p2}
  Recordings = {r1, r2}
  Texts = {t1, t2}
  MaxCalls = 4
  None = None
SYMMETRY Symmetry
INVARIANTS
  HistoryKept
  OwnRecording
  TurnsKept
CHECK_DEADLOCK FALSE
