SPECIFICATION Spec
CONSTANTS
  MaxTime = 3
  DeskTime = 1
  Calls = {h1, h2}
  Execs = {t1, t2}
  Inputs = {i1}
  InPlay <- DeskSets
  ApprovalTicks = 1
  MaxDialogs = 2
  MaxDrift = 1
  NoApproval = NoApproval
  Listings = {page}
  NoListing = NoListing
  DayTicks = 1
  WeekTicks = 2
  ProcessingTicks = 1
  RescanTicks = 2
  Lanes = {"get", "portal", "human"}
  Tasks = {t1, t2}
  Handles = {h1, h2}
  Sessions = {s1, s2}
  MaxRequests = 2
  MaxEntries = 2
  FlowDays = 1
  HandleDays = 1
  MailDays = 1
  GuardDays = 2
  Nobody = Nobody
  Brokers = {1, 2}
  Me = 1
  ScanBatch = 1
  Campaigns <- LoopCampaigns
  GrantEnd = 3
  MaxEffects = 6
SYMMETRY Symmetry
INVARIANTS EffectsApproved NothingForgotten
PROPERTIES LatestPresentationRules NoBlindReopen OneSessionClicks OutcomesAdvance PlannedIsAccepted
CHECK_DEADLOCK FALSE
