SPECIFICATION PartsSpec
CONSTANTS
  Rescans = {r1, r2}
  Listings = {page}
  NoListing = NoListing
  MaxTime = 3
  DayTicks = 1
  WeekTicks = 2
  ProcessingTicks = 1
  RescanTicks = 2
  Calls = {c1, c2}
  ProcessingStart = 1
  CycleTicks = 2
  OrdinaryTicks = 2
  MaxRecords = 4
INVARIANTS TypeOK ConfirmationDated InFlightHasRecheck RequestPrecedes FilingWatched
PROPERTIES ConfirmedByTwoAbsences DeadlineStands
SYMMETRY Interchangeable
CHECK_DEADLOCK FALSE
