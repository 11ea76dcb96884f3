SPECIFICATION MigrationSpec
CONSTANTS
  NumRepos = 1
  OldStatuses = {"none", "rolled_back"}
  MaxWork = 2
  MaxStops = 1
  MaxBackups = 1
INVARIANT NoWorkDropped
CHECK_DEADLOCK FALSE
