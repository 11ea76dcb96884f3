SPECIFICATION Spec
PROPERTY OwnPushAccepted
CONSTANTS
  MaxAttempts = 3
  MaxBase = 0
  MaxForeign = 0
  MaxFaults = 2
  MaxStops = 0
  MaxResolves = 0
  MaxRemovals = 0
  None = None
CHECK_DEADLOCK FALSE
