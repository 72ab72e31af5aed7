SPECIFICATION FairSpec
CONSTANTS
  Client = {c1, c2, c3}
  Session = {s1, s2, s3}
  MaxSize = 1
  MinSize = 0
  MaxWaiters = 2
  Warmup = Warmup
  NoSession = NoSession
  OpenMayFail = FALSE
  EarlyDeath = FALSE
INVARIANTS NoLeakedSlot
PROPERTIES FifoService WaiterSettles CloseCompletes
CHECK_DEADLOCK FALSE
