SPECIFICATION Spec
CONSTANTS
  Reconnects = {a, b}
  MaxRetries = 2
  MaxConnections = 6
  None = None
  Budget <- Everything
INVARIANT TypeOK
INVARIANT ChannelIsConnected
INVARIANT FlagMeansAtWork
PROPERTY ShutdownStaysDown
PROPERTY ChannelComesBack
CHECK_DEADLOCK FALSE
