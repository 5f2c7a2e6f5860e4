SPECIFICATION ProgressSpec
CONSTANTS
  Openers = {}
  Upgraders = {u1, u2}
  DirectTunnels = {d1}
  ProxyTunnels = {p1}
  HasSn = TRUE
  EarlyDeath = FALSE
  MaxArrivals = 1
  None = None
  Direct = {1}
  Reverse = {2}
  Stealing = TRUE
  Failures = TRUE
  Timeouts = TRUE
  Closes = TRUE
INVARIANTS
  AttemptIsExclusive
  BarrierHolds
  
PROPERTIES
  
  RequestAnswered
CHECK_DEADLOCK FALSE
