SPECIFICATION SetupSpec
CONSTANTS
  Small = Small
  Large = Large
  Opens <- OneEach
  Deliveries <- LargeTwice
  c1 = c1
  c2 = c2
  Ports = {1, 2}
  Controls = {c1, c2}
  DataConns = {1, 2}
  NoTunnel = NoTunnel
  MaxTime = 1
  Openers = {o1}
  Upgraders = {u1}
  DirectTunnels = {d1, d2}
  ProxyTunnels = {p1}
  HasSn = TRUE
  EarlyDeath = TRUE
  MaxArrivals = 0
  None = None
SYMMETRY Symmetry
INVARIANTS
  AttemptOwned
  SuccessMeansRegistered
  UnacceptedIsUnreachable
  NotBothWait
  UpgradeMeansNoDirect
PROPERTIES
  MappingKept
CHECK_DEADLOCK FALSE
