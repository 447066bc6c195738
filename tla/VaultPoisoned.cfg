SPECIFICATION Spec
CONSTANTS
  Procs = {g1}
  NoProc = NoProc
  Subjects = {s1}
  Contents = {c1, c2}
  Formats = {json}
  Retentions = {1, 2}
  MaxRecords = 1
  MaxExports = 2
  MaxDelay = 1
  MaxFailures = 0
  MaxCalls = 3
  MaxCrashes = 0
  MaxKeys = 1
  MaxTime = 2
PROPERTY TighteningKeepsIndexReadable
CHECK_DEADLOCK FALSE
