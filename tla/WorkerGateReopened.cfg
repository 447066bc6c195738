SPECIFICATION Spec
CONSTANTS
  Turns = {t1}
  Calls = {c1}
  Commands = {cmd}
  NoCommand = NoCommand
  LeaseTicks = 2
  BackoffTicks = 1
  BackoffCap = 2
  MaxFailures = 2
  GrantEnd = 4
  MaxEffects = 2
  Drifts = {}
  RecheckTicks = 1
  MaxTime = 3
  MaxLeases = 2
  MaxApprovals = 0
  MaxCrashes = 0
  MaxRetries = 2
PROPERTY GateNeedsApproval
