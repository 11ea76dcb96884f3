SPECIFICATION Spec
CONSTANTS
  Issues = {i1}
  None = None
  MaxAttempts = 1
  MaxContinuations = 0
  MaxCrashes = 0
  MaxQuestions = 1
  MaxResolves = 1
  MaxFaults = 1
  Faults = {"worktree"}
PROPERTIES
  ResumeKeepsIssue
CHECK_DEADLOCK FALSE
