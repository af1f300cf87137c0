SPECIFICATION Spec
CONSTANTS
  Platforms = {p1}
  Calls = {c1, c2, c3, c4}
  Ctxs = {x1, x2}
  Null = Null
  MaxSessions = 2
  AppMay = {"concurrent_get"}
SYMMETRY Symmetry
INVARIANTS
  HeldAlive
CHECK_DEADLOCK FALSE
