SPECIFICATION FairSpec
CONSTANTS
  p1 = p1
  p2 = p2
  Streams = {1, 2}
  Paths <- MCPaths
  OpensOn <- MCOpensOn
  Handlers = {1}
  MaxFaults = 1
  MaxMisses = 2
  MaxExtras = 2
CHECK_DEADLOCK FALSE
PROPERTIES
  LiveAuthorityKept
  RegistrationFollows
  ProbeSlotFreed
