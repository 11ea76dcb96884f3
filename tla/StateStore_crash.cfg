SPECIFICATION LiveSpec
CONSTANTS
  Payloads = {p1, p2}
  None = None
  Unreadable = Unreadable
  MaxRevision = 3
  MaxInterrupts = 3
  MaxDamage = 0
PROPERTIES
  ImplementsDurableLog
  PreparedCompletes
