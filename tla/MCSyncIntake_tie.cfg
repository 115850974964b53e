SPECIFICATION Spec
CONSTANTS
  None = None
  p1 = p1
  p2 = p2
  Process <- OneProcess
  Record <- TwoRecords
  Foreign <- OneForeign
  Paging = "locator"
  PageSize = 1
  Lookback = 1
  MaxTime = 3
  MaxFaults = 1
INVARIANTS
  ChangedMidPollSeen
CHECK_DEADLOCK FALSE
