SPECIFICATION FairSpec
CONSTANTS
  MaxCalls = 2
  MaxTurns = 2
  MaxRecovery = 2
  MaxCompacts = 1
  MaxRuns = 2
INVARIANTS LoopInv
PROPERTIES ResultsKept RunEnds
CHECK_DEADLOCK FALSE
