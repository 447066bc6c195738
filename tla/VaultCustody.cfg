SPECIFICATION FairSpec
CONSTANTS
  Procs = {g1}
  NoProc = NoProc
  Subjects = {s1}
  Contents = {c1, c2}
  Formats = {json, md}
  Retentions = {1, 2}
  MaxRecords = 1
  MaxExports = 1
  MaxDelay = 1
  MaxFailures = 1
  MaxCalls = 3
  MaxCrashes = 1
  MaxKeys = 1
  MaxTime = 2
INVARIANTS TypeOK ReportedExportTracked PurgeIsComplete ExportWithinRetention EveryStoreOpens
PROPERTIES RetentionOnlyShortens ExpiredExportsGo
CONSTRAINT OneRecordRead
CHECK_DEADLOCK FALSE
