SPECIFICATION FairSpec
CONSTANTS
  Numberings = {"auto"}
  Recovered = 1
  Hasty = FALSE
  FatalErrors = TRUE
  BoundedRecovery = TRUE
  Flusher = {f1}
  MaxRequests = 1
  MaxMsg = 2
  MaxBuffer = 2
  MaxFaults = 1
  MaxInflight = 1
  BatchLimit = 1
  OrderlyClose = FALSE
PROPERTIES FlushSettles Delivery CloseSettles RecoveryEnds
CHECK_DEADLOCK FALSE
