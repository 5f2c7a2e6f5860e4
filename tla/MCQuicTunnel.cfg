SPECIFICATION LiveSpec
CONSTANTS
  StreamId = {1}
  Capacity = 1
  StreamOpens = {4}
  DatagramOpens = {3}
  Unserved = {}
  Lossy = {"active"}
  Writers = {"passive"}
  Budget = 3
INVARIANTS OpenedIsServed NothingSkipped
PROPERTIES CountsUses ReaderEnds
CHECK_DEADLOCK FALSE
