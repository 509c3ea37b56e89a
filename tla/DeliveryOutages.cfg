SPECIFICATION Spec
CONSTANTS
  Ids = {n1}
  Workers = {w1, w2}
  Prefetch = 1
  MaxAttempts = 2
  NoMessage = NoMessage
  Budget <- Outages
INVARIANT NotLost
PROPERTY EventuallySettled
PROPERTY BusyWorkerReturns
CHECK_DEADLOCK FALSE
