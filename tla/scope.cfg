SPECIFICATION Spec
CONSTANTS
  AsyncTasks = {}
  ScheduledTasks = {}
  ScopeTasks = {f1}
  ApprovalIds = {p1, p2}
  Requesters = {r1}
  Deciders = {d1}
  None = None
  Stop = Stop
  MaxStops = 0
  MaxCrashes = 1
  Faults = FALSE
  ServiceFaults = TRUE
INVARIANTS IndInv OneGrantPerApproval ScopeNeedsApproval
SYMMETRY Symmetry
