SPECIFICATION Spec
CONSTANTS
  None = None
  Slots = {1, 2}
  MaxStarts = 2
  MaxCrashes = 1
  MaxCommands = 2
  MaxFaults = 2
  MaxInterrupts = 1
  Webhooks = TRUE
INVARIANT AssignedRuns
CHECK_DEADLOCK FALSE
