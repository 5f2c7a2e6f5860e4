SPECIFICATION Spec
CONSTANTS
  Members = {1, 2, 3}
  Candidates = {1, 2}
  Entries = {e1}
  KindOf <- MCKindOf
  NowOf <- MCNowOf
  Ttl = 2
  Submitters = {3}
  Restarting = {3}
  MaxTerm = 1
  MaxFaults = 0
CHECK_DEADLOCK FALSE
INVARIANT
  OneVotePerTerm
