SPECIFICATION Spec
CONSTANTS
  Posters = {}
  Ctxs = {t1, t2, t3}
  Jobs = {j1, j2}
  Works = {w1, w2}
  NoCtx = NoCtx
  PoolSize = 1
  MaxPosts = 1
  AppMay = {}
SYMMETRY Symmetry
INVARIANTS
  TimerMapConsistent
  RunningCtxAllocated
  DestroyedIsSilent
  NoFault
  CompletionSignalled
PROPERTIES
  FiresOnlyRegistered
CHECK_DEADLOCK FALSE
