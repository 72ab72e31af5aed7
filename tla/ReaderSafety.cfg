SPECIFICATION Spec
CONSTANTS
  None = None
  Partition = {p1}
  MaxOffset = 3
  Hole = {0}
  MaxGrants = 2
  MaxCommits = 2
  MaxBuffer = 1
  MaxUnderway = 2
  MaxFaults = 1
  IdsRestart = TRUE
  Override = {0}
  FatalErrors = FALSE
  BoundedRecovery = FALSE
INVARIANTS RegistryInv NoRepeatedCommit AnswersDue RangesTile CreditKept
PROPERTIES CommitPromised
CHECK_DEADLOCK FALSE
