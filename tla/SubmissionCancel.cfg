SPECIFICATION Spec
CONSTANTS
  Runs = {r1, r2}
  Sessions = {}
  NoSession = NoSession
  Lanes = {"parity"}
  NeedsDiscovery = TRUE
  Reconcilable = {TRUE}
  MaxAttempts = 2
  Listings = {}
  NoListing = NoListing
  MaxTime = 0
  DayTicks = 1
  WeekTicks = 1
  ProcessingTicks = 1
  RescanTicks = 1
INVARIANTS CancelKeepsClaim
