SPECIFICATION Spec
CONSTANTS
  Procs = {p1, p2}
  NoProc = NoProc
  Inodes = {1}
  CanStall = TRUE
  Keys = {k1, k2}
  MaxEntries = 1
  Ttl = 1
  MaxTime = 1
  MaxCalls = 1
  MaxDeaths = 1
CHECK_DEADLOCK FALSE
SYMMETRY Interchangeable
CONSTRAINT NoMisfire
INVARIANTS TypeOK Exclusive
PROPERTIES ImplementsContract OneWinner
