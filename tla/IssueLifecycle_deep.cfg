SPECIFICATION Spec
CONSTANTS
  Issues = {i1}
  None = None
  MaxAttempts = 2
  MaxContinuations = 1
  MaxCrashes = 1
  MaxQuestions = 1
  MaxResolves = 1
  MaxFaults = 1
  Faults = {"worktree", "publish", "close", "merge", "head", "checks", "spawn", "orphan"}
INVARIANTS
  OneRecordedWorker
  RunHoldsAuthority
  AnswerDeliveredOnce
PROPERTIES
  RunsOnce
  EffectNotDropped
CHECK_DEADLOCK FALSE
