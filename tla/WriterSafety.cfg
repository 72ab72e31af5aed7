SPECIFICATION Spec
CONSTANTS
  Numberings = {"auto", "manual"}
  Recovered = 1
  Hasty = TRUE
  FatalErrors = FALSE
  BoundedRecovery = TRUE
  Flusher = {f1}
  MaxRequests = 1
  MaxMsg = 3
  MaxBuffer = 3
  MaxFaults = 2
  MaxInflight = 2
  BatchLimit = 2
  OrderlyClose = TRUE
INVARIANTS WindowInv Conservation
PROPERTIES FlushBarrier DurableSpec
CHECK_DEADLOCK FALSE
