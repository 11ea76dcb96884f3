SPECIFICATION Spec
CONSTANTS
  Issues = {i1, i2}
  None = None
  MaxAttempts = 1
  MaxContinuations = 0
  MaxCrashes = 1
  MaxQuestions = 0
  MaxResolves = 0
  MaxFaults = 0
  Faults = {"orphan"}
INVARIANTS
  OneLiveWorker
CHECK_DEADLOCK FALSE
