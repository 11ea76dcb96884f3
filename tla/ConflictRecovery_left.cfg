SPECIFICATION Spec
CONSTANTS
  Clashes = {2, 4}
  MaxBase = 4
  MaxAttemptsPerBase = 2
  MaxBaseUpdates = 2
  MaxPushes = 1
  MaxCrashes = 1
  MaxFaults = 1
  MaxResolves = 1
  LeftEarlier = {FALSE}
  None = None
INVARIANT CommitsAreVerified
CHECK_DEADLOCK FALSE
