SPECIFICATION Spec
CONSTANTS
  j1 = j1
  j2 = j2
  NoJob = NoJob
  Jobs <- TwoJobs
  PageCount = 2
  Kinds <- OnlyImage
  MaxStops = 2
  CrashInTurn = TRUE
  GracefulClose = TRUE
INVARIANTS TypeOK RemoteWorkAnchored ResultsAreRemoteTruth RowAndPhaseAgree RetryCopyIsRepeatable
PROPERTIES KnownResponseNeverResubmitted CancelledJobIsSilent ImplementsLifecycle
CONSTRAINT RetryAfterFailure
ACTION_CONSTRAINT RetryWithoutStops
CHECK_DEADLOCK FALSE
