SPECIFICATION Spec
CONSTANTS
  Ids = {n1}
  Workers = {w1}
  Prefetch = 1
  MaxAttempts = 2
  NoMessage = NoMessage
  Budget <- OneDrop
PROPERTY RecoversFromOutage
CHECK_DEADLOCK FALSE
