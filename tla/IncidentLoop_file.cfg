SPECIFICATION Spec
CONSTANTS
  MaxItems = 1
  Width = 2
  Attention = 1
  Observed = {"violation"}
  Committed = {"violation"}
  Callers = {"loop", "cli"}
  RunIDs = {1, 2}
  MaxAttempts = 2
  Budgets <- Mixed
INVARIANTS
  OneIssue
  CountedOnce
  FiledOnCurrentEvidence
PROPERTY Considered
