SPECIFICATION LiveSpec
CONSTANTS
  Issues = {i1}
  None = None
  MaxAttempts = 1
  MaxContinuations = 1
  MaxCrashes = 1
  MaxQuestions = 1
  MaxResolves = 1
  MaxFaults = 1
  Faults = {"github"}
PROPERTIES
  RunEnds
  AnswerArrives
  EffectsSettle
CHECK_DEADLOCK FALSE
