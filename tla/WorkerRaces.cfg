SPECIFICATION Spec
CONSTANTS
  Turns = {t1, t2}
  Calls = {c1}
  Commands = {cmd}
  NoCommand = NoCommand
  LeaseTicks = 1
  BackoffTicks = 1
  BackoffCap = 2
  MaxFailures = 2
  GrantEnd = 2
  MaxEffects = 2
  Drifts = {}
  RecheckTicks = 1
  MaxTime = 1
  MaxLeases = 2
  MaxApprovals = 1
  MaxCrashes = 0
  MaxRetries = 2
SYMMETRY Interchangeable
INVARIANTS TypeOK WorkerInv CreditNeedsEvidence FailureBudgetStops
PROPERTIES UnresolvedNeedsHuman ClosedStaysClosed
VIEW RacesView
