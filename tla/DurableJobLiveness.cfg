SPECIFICATION FairSpec
CONSTANTS
  j1 = j1
  j2 = j2
  NoJob = NoJob
  Jobs <- OneJob
  PageCount = 2
  Kinds <- AllKinds
  MaxStops = 1
  CrashInTurn = FALSE
  GracefulClose = FALSE
INVARIANT ActiveJobHasTask
 
CHECK_DEADLOCK FALSE
