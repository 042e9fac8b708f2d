SPECIFICATION Spec
CONSTANTS
  j1 = j1
  j2 = j2
  NoJob = NoJob
  Jobs <- OneJob
  PageCount = 1
  Kinds <- OnlyImage
  MaxStops = 1
  CrashInTurn = TRUE
  GracefulClose = FALSE
PROPERTY StartupResumesActiveJobs
CHECK_DEADLOCK FALSE
