SPECIFICATION FairSpec
CONSTANTS
  Tools = {t1}
  Proactive = Proactive
  OAuth = OAuth
  Bind = Bind
  NoCaller = NoCaller
  NoEnv = NoEnv
  MaxGrants = 3
  MaxCrashes = 1
INVARIANTS RestartFindsAll
PROPERTIES RequestsEnd
