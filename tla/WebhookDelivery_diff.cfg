SPECIFICATION Spec
CONSTANTS
  None = None
  Issues = {1}
  MaxEvents = 2
  WorkCapacity = 1
  MaxFaults = 1
  MaxReset = 1
INVARIANT SweepKeepsDiff
CHECK_DEADLOCK FALSE
