SPECIFICATION Spec
CONSTANTS
  ann = ann
  Ann = Ann
  Spellings = {ann, Ann}
  Canonical <- Lower
  Requests = {r1, r2, r3}
  MaxRecords = 2
  None = None
  Budget <- Everything
INVARIANT TypeOK
INVARIANT WelcomedOnce
INVARIANT SameRecipient
INVARIANT ProfileKeepsUpdates
PROPERTY NewcomersWelcomed
CHECK_DEADLOCK FALSE
