SPECIFICATION FairSpec
CONSTANTS
  Clashes = {2, 4}
  MaxBase = 4
  MaxAttemptsPerBase = 2
  MaxBaseUpdates = 2
  MaxPushes = 1
  MaxCrashes = 1
  MaxFaults = 1
  MaxResolves = 1
  LeftEarlier = {FALSE}
  None = None
INVARIANTS
  PublishedIsVerified
  WorksOnRecordedMerge
PROPERTIES
  RecoverySettles
CHECK_DEADLOCK FALSE
