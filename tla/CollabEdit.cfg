SPECIFICATION Spec
CONSTANTS
  c1 = c1
  L1 = L1
  L2 = L2
  Clients <- OneClient
  Lists <- OneList
  Kinds <- AllKinds
  SlowAnswers = FALSE
  MaxWrites = 2
  MaxMoves = 1
  MaxDrops = 0
  MaxFailures = 0
PROPERTIES EditReplacesWhatItShowed
CHECK_DEADLOCK FALSE
