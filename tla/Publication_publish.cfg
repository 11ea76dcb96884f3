SPECIFICATION LiveSpec
CONSTANTS
  MaxAttempts = 2
  MaxBase = 1
  MaxForeign = 1
  MaxFaults = 2
  MaxStops = 1
  MaxResolves = 1
  MaxRemovals = 1
  None = None
INVARIANTS
  WorkKept
  PublishedWorkWhole
  WorkNotRedone
PROPERTIES
  RunSettles
CHECK_DEADLOCK FALSE
