SPECIFICATION EffectSpec
CONSTANTS
  AsyncTasks = {}
  ScheduledTasks = {s1}
  ScopeTasks = {}
  ApprovalIds = {p1, p2}
  Requesters = {r1}
  Deciders = {d1}
  None = None
  Stop = Stop
  MaxStops = 0
  MaxCrashes = 1
  Faults = FALSE
  ServiceFaults = FALSE
INVARIANTS ApprovalStands
PROPERTIES ReleaseHasCause DecisionFinal
