SPECIFICATION Spec
CONSTANTS
  None = None
  Partition = {p1, p2}
  MaxOffset = 1
  Hole = {}
  MaxGrants = 4
  MaxCommits = 0
  MaxBuffer = 1
  MaxUnderway = 2
  MaxFaults = 1
  IdsRestart = TRUE
  Override = {0}
  FatalErrors = FALSE
  BoundedRecovery = FALSE
INVARIANTS GrantsRouted
CHECK_DEADLOCK FALSE
