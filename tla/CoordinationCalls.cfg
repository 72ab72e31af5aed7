SPECIFICATION CallsFairSpec
CONSTANTS
  MaxFaults = 2
  Orderly = TRUE
  MaxAcquires = 1
  MaxChanges = 1
  MaxIds = 6
INVARIANTS Agreement LeaseOwns NoGhostLock
PROPERTIES SameSession Reconnects CloseSettles CallSettles WatchCatchesUp
CHECK_DEADLOCK FALSE
