SPECIFICATION Spec
CONSTANTS
  Walkers = {w1, w2}
  Tools = {t1}
  Shared = Shared
  Nobody = Nobody
  MaxRetries = 1
  MaxPages = 2
  MaxCalls = 1
  MaxGrants = 4
  MaxChanges = 2
  MaxFaults = 1
INVARIANTS RequestsInv RefreshIsDue
CHECK_DEADLOCK FALSE
