SPECIFICATION Spec
CONSTANTS
  Scopes = {1}
  NoScope = NoScope
  Never = Never
  Ticker = Ticker
  Listener = Listener
  Console = Console
  MaxJobs = 2
  Messages = {1, 2}
  ScopeOf <- MCScopeOf
  DiscoveryInterval = 3
  CollectInterval = 1
  Cooldown = 2
  MaxRequests = 1
  MaxItems = 1
  MaxRecords = 1
  GmWindows <- MCGmWindows
  MaxTime = 2
  MaxFailures = 1
INVARIANTS ProactiveInv ConsentFirst AnalysedOnce NothingOvertaken
PROPERTIES CooldownKept
\* The ticker thread may be dead for good.
CHECK_DEADLOCK FALSE
