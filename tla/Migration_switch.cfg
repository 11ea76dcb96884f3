SPECIFICATION MigrationSpec
CONSTANTS
  NumRepos = 3
  OldStatuses = {"none", "rolled_back"}
  MaxWork = 3
  MaxStops = 2
  MaxBackups = 2
INVARIANTS
  MigrationKeepsWork
  RuntimeSeesWhole
  PreparedResumable
