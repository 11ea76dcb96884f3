SPECIFICATION Spec
CONSTANTS
  None = None
  Issues = {1, 2}
  MaxEvents = 1
  WorkCapacity = 1
  MaxFaults = 2
  MaxReset = 1
INVARIANTS
  NoLostIntent
PROPERTIES
  DuplicateSuppressed
  CooldownHonoured
  IntentServed
CHECK_DEADLOCK FALSE
