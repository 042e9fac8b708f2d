SPECIFICATION ScreensSpec
CONSTANTS
  c1 = c1
  c2 = c2
  Captures <- TwoCaptures
  PdfCaptures <- SecondIsPdf
  PAGE_CONCURRENCY = 2
  Modes = {TRUE, FALSE}
  MaxJobs = 2
  MaxReads = 1
  MaxUploads = 1
  MaxWithAi = 1
  MaxActs = 4
  q1 = q1
  q2 = q2
  q3 = q3
  p1 = p1
  p2 = p2
  p3 = p3
  A = A
  B = B
  Calls <- ThreeCalls
  Buckets = {"items", "lists"}
  Kind <- WriteOrRead
  Queries = {"page"}
  NoCall = NoCall
  Throttle = 1
  MaxClock = 1
  Roots = {"row", "editor"}
  Inputs = {"one", "two", "incomplete"}
  BadInputs = {"incomplete"}
  MaxEdits = 2
  Receipts = {"front", "back"}
  NoReceipt = "none"
  MaxResults = 2
  MaxReviewActs = 6
  WorksOnMeanwhile = FALSE
  Products = {"oil", "salt"}
  FilterSets = {"all", "priced"}
  Selections <- SaltSelected
  Patience = {TRUE, FALSE}
  MaxBrowseCalls = 2
  MaxBrowseActs <- ActsOfPatience
  Categories = {"food", "home", "pets"}
  Planted = {"food", "home"}
  Views = {"all", "roots"}
  MaxCategoryCalls = 2
  MaxCategoryActs = 4
  Tickets = {"monday", "friday"}
  TicketFilters = {"all", "paid"}
  LinePrices = {"1.00", "2.00"}
  MayWait = {TRUE, FALSE}
  MaxHistoryCalls = 2
  MaxHistoryActs <- ActsOfPatience
  Callers <- ThreeCallers
  Providers <- TwoProviders
  MaxLimit = 2
  MaxClients = 2
  MaxChanges = 1
  Deadlines <- NoCallers
  GetsMayFail = TRUE
  ProviderMayChange = TRUE
INVARIANTS ScreensTypeOK PageWorkSound CoordinatorSound LineTotalsSound   SlotsAccounted
PROPERTIES GrantsSound SettledPagesHold
\* The acts of the user are bounded.
CHECK_DEADLOCK FALSE
