SPECIFICATION FairSpec
CONSTANTS
  Members = {1, 2, 3}
  Candidates = {1, 2}
  Entries = {e1}
  KindOf <- MCKindOf
  NowOf <- MCNowOf
  Ttl = 2
  Submitters = {3}
  Restarting = {3}
  MaxTerm = 2
  MaxFaults = 1
CHECK_DEADLOCK FALSE
INVARIANTS
  LeaderWasElected
  AppliedByQuorum
PROPERTY
  SplitBrainHeals
