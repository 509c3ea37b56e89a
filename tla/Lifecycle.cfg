SPECIFICATION Spec
CONSTANTS
  Signals = {sigterm, sigint}
  MaxRetries = 2
  MaxRequests = 2
  Budget <- Several
INVARIANT TypeOK
INVARIANT CleanExit
INVARIANT RequestsHaveServices
PROPERTY ShutdownEnds
PROPERTY EventuallyServes
