SPECIFICATION FairSpec
CONSTANTS
  Posters = {p1, p2}
  Ctxs = {t1}
  Jobs = {j1}
  Works = {w1}
  NoCtx = NoCtx
  PoolSize = 1
  MaxPosts = 2
  AppMay = {}
INVARIANTS
  TypeOK
  NoLostWakeup
  FifoExactlyOnce
PROPERTIES
  Refines
  PostedRuns
  OnDoneRuns
  StopCompletes
CHECK_DEADLOCK FALSE
