SPECIFICATION Safe
CONSTANTS
  Ids = {n1}
  Workers = {w1, w2}
  Prefetch = 1
  MaxAttempts = 3
  NoMessage = NoMessage
  Budget <- Failures
INVARIANT TypeOK
INVARIANT SentMeansDelivered
INVARIANT SendsBounded
INVARIANT SingleSender
INVARIANT AtMostOnce
INVARIANT UnqueuedIsNotSent
PROPERTY AttemptsGrow
SYMMETRY WorkerSymmetry
CHECK_DEADLOCK FALSE
