SPECIFICATION Spec
CONSTANTS
  Payloads = {p1, p2}
  None = None
  Unreadable = Unreadable
  MaxRevision = 2
  MaxInterrupts = 2
  MaxDamage = 1
SYMMETRY PayloadSymmetry
INVARIANTS
  TypeOK
  RecoveryIsExact
  StatusReadsCommitted
  AppendsToWholeLines
  EvidenceKept
