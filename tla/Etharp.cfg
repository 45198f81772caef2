SPECIFICATION FairSpec
CONSTANTS
  TableSize = 2
  MaxAge = 3
  MaxPending = 2
  RerequestUsed = 2
  Addrs = {a, b, c}
  Macs = {m, n}
  None = None
  CanFail = TRUE
INVARIANTS OneEntryEach SentToItsHop
PROPERTIES LeastDestructive NotHeldForever
