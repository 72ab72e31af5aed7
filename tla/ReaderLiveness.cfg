SPECIFICATION FairSpec
CONSTANTS
  None = None
  Partition = {p1}
  MaxOffset = 1
  Hole = {}
  MaxGrants = 2
  MaxCommits = 1
  MaxBuffer = 1
  MaxUnderway = 2
  MaxFaults = 1
  IdsRestart = TRUE
  Override = {0, 1}
  FatalErrors = TRUE
  BoundedRecovery = TRUE
PROPERTIES CommitSettles StopAnswered CloseSettles
CHECK_DEADLOCK FALSE
