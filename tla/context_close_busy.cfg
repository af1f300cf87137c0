SPECIFICATION Spec
CONSTANTS
  Platforms = {p1}
  Calls = {c1, c2, c3, c4}
  Ctxs = {x1, x2}
  Null = Null
  MaxSessions = 1
  AppMay = {}
SYMMETRY Symmetry
INVARIANTS
  NoDanglingThis
CHECK_DEADLOCK FALSE
