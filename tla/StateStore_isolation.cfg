SPECIFICATION Spec
CONSTANTS
  Payloads = {p1}
  None = None
  Unreadable = Unreadable
  MaxRevision = 2
  MaxInterrupts = 1
  MaxDamage = 1
PROPERTIES
  IsolationSurvivesCrash
