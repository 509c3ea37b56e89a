SPECIFICATION Spec
CONSTANTS
  Ids = {n1, n2}
  Workers = {w1}
  Prefetch = 2
  MaxAttempts = 2
  NoMessage = NoMessage
  Budget <- NoEvents
PROPERTY KeepsRetryPolicy
CHECK_DEADLOCK FALSE
