SPECIFICATION FairSpec
CONSTANTS
  c1 = c1
  L1 = L1
  L2 = L2
  Clients <- OneClient
  Lists <- OneList
  Kinds <- AllKinds
  SlowAnswers = FALSE
  MaxWrites = 3
  MaxMoves = 3
  MaxDrops = 1
  MaxFailures = 0
INVARIANTS StalePageWillResync
PROPERTIES PagesConverge
CHECK_DEADLOCK FALSE
