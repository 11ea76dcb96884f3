SPECIFICATION Spec
CONSTANTS
  Issues = {i1}
  None = None
  MaxAttempts = 2
  MaxContinuations = 0
  MaxCrashes = 0
  MaxQuestions = 1
  MaxResolves = 0
  MaxFaults = 1
  Faults = {"checks", "merge", "publish"}
INVARIANTS
  NeverQuarantined
CHECK_DEADLOCK FALSE
