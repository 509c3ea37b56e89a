SPECIFICATION Safe
CONSTANTS
  Ids = {n1}
  Workers = {w1}
  Prefetch = 2
  MaxAttempts = 2
  NoMessage = NoMessage
  Budget <- NoEvents
PROPERTY SentStaysSent
CHECK_DEADLOCK FALSE
