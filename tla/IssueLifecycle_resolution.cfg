SPECIFICATION LiveSpec
CONSTANTS
  Issues = {i1}
  None = None
  MaxAttempts = 1
  MaxContinuations = 0
  MaxCrashes = 0
  MaxQuestions = 0
  MaxResolves = 1
  MaxFaults = 0
  Faults = {}
PROPERTIES
  ResolutionSettles
CHECK_DEADLOCK FALSE
