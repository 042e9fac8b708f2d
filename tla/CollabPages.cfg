SPECIFICATION Spec
CONSTANTS
  c1 = c1
  L1 = L1
  L2 = L2
  Clients <- OneClient
  Lists <- TwoLists
  Kinds <- NoReorders
  SlowAnswers = TRUE
  MaxWrites = 2
  MaxMoves = 3
  MaxDrops = 1
  MaxFailures = 1
INVARIANTS PagesWellFormed ShownListIsActive
CHECK_DEADLOCK FALSE
