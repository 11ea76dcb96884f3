SPECIFICATION MigrationSpec
CONSTANTS
  NumRepos = 1
  OldStatuses = {"none"}
  MaxWork = 2
  MaxStops = 1
  MaxBackups = 1
INVARIANTS
  RollbackRestartable
CHECK_DEADLOCK FALSE
