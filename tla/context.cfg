SPECIFICATION ChatSpec
CONSTANTS
  None = None
  MaxTasks = 2
  MaxResults = 2
  MaxFaults = 1
  MaxCommands = 1
  MaxModelRecovery = 2
  ResultTokens = 3
  SoftLimit = 5
  HardLimit = 8
  ModelWindow = 7
INVARIANTS ContextInv SummarizedOnce ReceiptsJournaled SummariesJournaled
CHECK_DEADLOCK FALSE
