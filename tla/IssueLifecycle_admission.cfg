SPECIFICATION Spec
CONSTANTS
  Issues = {i1, i2}
  None = None
  MaxAttempts = 1
  MaxContinuations = 0
  MaxCrashes = 0
  MaxQuestions = 0
  MaxResolves = 1
  MaxFaults = 0
  Faults = {}
PROPERTIES
  AdmissionWaits
CHECK_DEADLOCK FALSE
