SPECIFICATION Spec
CONSTANTS
  Client = {c1, c2, c3}
  Session = {s1, s2, s3, s4}
  MaxSize = 2
  MinSize = 1
  MaxWaiters = 2
  Warmup = Warmup
  NoSession = NoSession
  OpenMayFail = TRUE
  EarlyDeath = TRUE
SYMMETRY PoolSymmetry
INVARIANTS Capacity LeaseExclusive NoIdleWhileWaiting CloseDrains
CHECK_DEADLOCK FALSE
