SPECIFICATION Spec
CONSTANTS
  Processes = {p1, p2}
  Recordings = {r1}
  Texts = {t1, t2}
  MaxCalls = 4
  None = None
SYMMETRY Symmetry
INVARIANT
  SessionLoads
CHECK_DEADLOCK FALSE
