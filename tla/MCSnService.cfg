SPECIFICATION SnSpec
CONSTANTS
  a = a
  b = b
  k1 = k1
  k2 = k2
  k3 = k3
  Peers = {a, b}
  Keys = {k1, k2, k3}
  InitiatorOf <- Initiators
  Calls = {c1, c2, c3}
  MaxLive = 2
  MaxPerPair = 1
  MaxRate = 2
  MaxWaiters = 1
  Sns = {1, 2}
  Owners = {"o1", "o2"}
  Jobs = {1, 2}
  Receiver <- Receivers
  Settings <- RelaySettings
  MaxSequence = 2
  MaxLinks = 2
  MaxEvents = 1
SYMMETRY Symmetry
INVARIANTS
  WaiterIsTold
  NotFoundMeansUnserved
  CalledOnce
  AckedRouteKept
CHECK_DEADLOCK FALSE
