SPECIFICATION ServicesSpec
CONSTANTS
  r1 = r1
  r2 = r2
  i1 = i1
  p1 = p1
  p2 = p2
  A = A
  Requests <- TwoRequests
  PageCount = 2
  Pdf <- OnePdf
  PageSlots = 2
  AiSlots = 1
  Imports <- OneImport
  OldImport <- OneImport
  MaxBackups = 2
  MaxWrites = 2
  MaxNames = 3
  MaxCrashes = 1
  Callers <- TwoCallers
  Providers <- OneProvider
  MaxLimit = 2
  MaxClients = 2
  MaxChanges = 2
  Deadlines <- TwoCallers
  GetsMayFail = FALSE
  ProviderMayChange = FALSE
INVARIANTS ServicesTypeOK PageQueuesSound 
PROPERTIES RestoreOverBackup ExtractionSettles RestoreEnds WaiterServed
\* The writes and the events of a behaviour are bounded.
CHECK_DEADLOCK FALSE
