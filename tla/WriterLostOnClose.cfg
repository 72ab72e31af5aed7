SPECIFICATION Spec
CONSTANTS
  Numberings = {"auto"}
  Recovered = 1
  Hasty = TRUE
  FatalErrors = FALSE
  BoundedRecovery = FALSE
  Flusher = {}
  MaxRequests = 0
  MaxMsg = 2
  MaxBuffer = 2
  MaxFaults = 1
  MaxInflight = 2
  BatchLimit = 1
  OrderlyClose = FALSE
INVARIANTS AckedIsStored
CHECK_DEADLOCK FALSE
