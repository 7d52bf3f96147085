SPECIFICATION FairSpec
CONSTANTS
  AsyncTasks = {a1}
  ScheduledTasks = {s1}
  ScopeTasks = {}
  ApprovalIds = {}
  Requesters = {}
  Deciders = {}
  None = None
  Stop = Stop
  MaxStops = 1
  MaxCrashes = 1
  Faults = TRUE
  ServiceFaults = FALSE
INVARIANTS HeldOnce
PROPERTIES GateSpec ReleasedRuns TasksFinish
