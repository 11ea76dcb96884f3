SPECIFICATION Spec
CONSTANTS
  None = None
  Slots = {1, 2}
  MaxStarts = 2
  MaxCrashes = 1
  MaxCommands = 2
  MaxFaults = 2
  MaxInterrupts = 1
  Webhooks = TRUE
INVARIANTS
  DrainedMeansIdle
  FencesExplained
  AssignmentInstalled
CHECK_DEADLOCK FALSE
