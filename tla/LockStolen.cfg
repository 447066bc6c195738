SPECIFICATION Spec
CONSTANTS
  Procs = {p1, p2, p3}
  NoProc = NoProc
  Inodes = {1}
  CanStall = FALSE
  Keys = {k1}
  MaxEntries = 1
  Ttl = 1
  MaxTime = 0
  MaxCalls = 1
  MaxDeaths = 1
CHECK_DEADLOCK FALSE
SYMMETRY Interchangeable
PROPERTY LiveLockKept
