SPECIFICATION FairSpec
CONSTANTS
  Calls = {c1, c2, c3, c4}
  Keys = {k1}
  None = None
  MaxConcurrent = 2
  MaxRetries = 1
  RetryNetworkErrors = TRUE
CHECK_DEADLOCK FALSE
INVARIANTS
  SlotsAreCounted
  OneRunPerKey
PROPERTIES
  ImplementsGate
  EveryCallSettles
