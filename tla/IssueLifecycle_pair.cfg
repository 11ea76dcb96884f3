SPECIFICATION Spec
CONSTANTS
  Issues = {i1, i2}
  None = None
  MaxAttempts = 1
  MaxContinuations = 1
  MaxCrashes = 1
  MaxQuestions = 0
  MaxResolves = 1
  MaxFaults = 1
  Faults = {"worktree", "orphan"}
INVARIANTS
  TypeOK
  OneRecordedWorker
  RunHoldsAuthority
PROPERTIES
  RunsOnce
  EffectNotDropped
CHECK_DEADLOCK FALSE
