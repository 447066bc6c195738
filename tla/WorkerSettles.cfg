SPECIFICATION FairSpec
CONSTANTS
  Turns = {t1,t2}
  Calls = {}
  Commands = {cmd}
  NoCommand = NoCommand
  LeaseTicks = 1
  BackoffTicks = 1
  BackoffCap = 2
  MaxFailures = 2
  GrantEnd = 2
  MaxEffects = 1
  Drifts = {"recipe"}
  RecheckTicks = 1
  MaxTime = 2
  MaxLeases = 2
  MaxApprovals = 0
  MaxCrashes = 1
  MaxRetries = 0
INVARIANTS ActiveWorkerCovered WatchdogRemains
 
