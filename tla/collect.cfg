SPECIFICATION CollectorsFairSpec
CONSTANTS
  None = None
  Documents = {1, 2, 3}
  Messages = {4, 5}
  PageSize = 2
  MaxPagesPerRun = 2
  MaxItemsPerRun = 2
  Lookback = 1
  MaxTime = 2
  MaxFailures = 1
INVARIANTS CollectInv
PROPERTIES DocumentsRecorded
CHECK_DEADLOCK FALSE
