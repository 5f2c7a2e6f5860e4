SPECIFICATION Spec
CONSTANTS
  Channels = {1}
  Openers = {"A", "P"}
  Listeners = {"P"}
  MaxPings <- OnePing
INVARIANTS
  CountsExact
PROPERTIES
  CloseSpreads
CHECK_DEADLOCK FALSE
