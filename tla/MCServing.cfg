SPECIFICATION ServingSpec
CONSTANTS
  u = u
  v = v
  Conns = {1, 2, 3, 4}
  Request <- MCRequest
  Users = {u, v}
  Retentions = {0, 1}
  Limits = {1}
  MaxTime = 3
  Listeners = {1}
  Workers = {1, 2}
  Tokens = {1}
  Owners = {1, 2}
  Signers = {1, 2}
  Targets = 2
  PunchOnlyTime = 3
  Interval = 2
  ActiveStart = 1
  BurstWindow = 3
  RetryInterval = 2
  BaseTimeout = 4
  Openers = {"a"}
  CacheTunnels = {1, 2, 3}
  CacheKeys = {1, 2}
  KeyOf <- MCKeyOf
  Runtimes = {"r1", "r2"}
  Acceptors = {"m"}
  Arrivals = {1, 2}
  EndpointsOf <- MCEndpointsOf
  ListenCalls = {1, 2}
  Openings = {1, 2}
  QueueCapacity = 1
INVARIANTS
  SessionsCounted
  ProbeHasItsWaiter
  LeaseKeepsTunnel
  DeliveredHasOwner
  ListenerStaysRegistered
PROPERTIES
  ExpiredGoes
  
  FirstAcceptReturns
CHECK_DEADLOCK FALSE
