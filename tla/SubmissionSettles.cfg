SPECIFICATION FairSpec
CONSTANTS
  Runs = {r1}
  Sessions = {s1}
  NoSession = NoSession
  Lanes = {"form","webmail","parity","session"}
  NeedsDiscovery = TRUE
  Reconcilable = {TRUE, FALSE}
  MaxAttempts = 1
  Listings = {}
  NoListing = NoListing
  MaxTime = 0
  DayTicks = 1
  WeekTicks = 1
  ProcessingTicks = 1
  RescanTicks = 1
PROPERTY FlaggedSettles
