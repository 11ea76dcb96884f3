SPECIFICATION LiveSpec
CONSTANTS
  Issues = {i1}
  None = None
  MaxAttempts = 1
  MaxContinuations = 0
  MaxCrashes = 1
  MaxQuestions = 0
  MaxResolves = 0
  MaxFaults = 1
  Faults = {"github"}
PROPERTIES
  ClaimEnds
CHECK_DEADLOCK FALSE
