SPECIFICATION Spec
CONSTANTS
  Runs = {r1, r2}
  Sessions = {s1}
  NoSession = NoSession
  Lanes = {"email","session"}
  NeedsDiscovery = TRUE
  Reconcilable = {TRUE}
  MaxAttempts = 2
  Listings = {page}
  NoListing = NoListing
  MaxTime = 0
  DayTicks = 1
  WeekTicks = 1
  ProcessingTicks = 1
  RescanTicks = 1
INVARIANTS SubmissionInv NoBlindRetry DoubtIsFlagged
PROPERTIES WriteHasIntent ImplementsClaim
CONSTRAINTS NothingLost NoAbsenceClock
SYMMETRY Interchangeable
VIEW View
