SPECIFICATION Spec
CONSTANTS
  Ids = {m1, m2}
  Workers = {w1}
  Prefetch = 2
  MaxMessageRetries = 2
  NoMessage = NoMessage
  Budget <- OneOfEach
INVARIANT TypeOK
INVARIANT NeverVanishes
INVARIANT SingleLiveCopy
INVARIANT TriesInTurn
INVARIANT EveryMessageIsShown
PROPERTY EventuallyFinished
CHECK_DEADLOCK FALSE
