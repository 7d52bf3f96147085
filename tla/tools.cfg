SPECIFICATION FairSpec
CONSTANTS
  N = 3
  Tools <- RegisteredTools
  MaxWorkers = 2
  MaxRetries = 3
  NoResult = NoResult
INVARIANTS ExecutorInv RetriesAsDeclared CountersAgree
PROPERTIES TurnSpec TurnReturns
CHECK_DEADLOCK FALSE
