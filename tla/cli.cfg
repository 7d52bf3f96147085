SPECIFICATION FairSpec
CONSTANTS
  Handlers = {1, 2, 3, 4}
  None = None
INVARIANTS SessionsInv
PROPERTIES TimeoutHiddenByClose CallReturns
CHECK_DEADLOCK FALSE
