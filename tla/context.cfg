SPECIFICATION FairSpec
CONSTANTS
  Platforms = {p1}
  Calls = {c1, c2, c3}
  Ctxs = {x1, x2}
  Null = Null
  MaxSessions = 2
  AppMay = {}
INVARIANTS
  HeldAlive
  DanglesOnlyClosed
  CallsBackOnce
PROPERTIES
  AfterGuarded
  Answered
CHECK_DEADLOCK FALSE
