SPECIFICATION RecordsSpec
CONSTANTS
  r1 = r1
  r2 = r2
  d1 = d1
  c1 = c1
  L1 = L1
  S1 = S1
  a1 = a1
  a2 = a2
  LogRequests <- TwoRequests
  LogKeys <- OneLogKey
  MaxLines = 2
  MaxFiles = 3
  MaxPerMinute = 3
  Batches <- OneOrTwo
  DuplicateWindow = 1
  LogWindow = 2
  MaxEvents = 5
  MaxTime = 2
  Clients <- OneClient
  Lists <- OneList
  MaxItem = 3
  Stores <- OneStore
  MaxQuantity = 1
  MaxVersion = 5
  m1 = m1
  NoRetailer = NoRetailer
  Histories <- SomeHistories
  m2 = m2
  t1 = t1
  t2 = t2
  k1 = k1
  k2 = k2
  g1 = g1
  UNKNOWN_CATEGORY_NAME = "desconocido"
  Retailers <- TwoRetailers
  Titles <- TwoTitles
  CategoryNames <- OneCategory
  AliasSets <- OneAlias
  Prices <- OnePrice
  Proposals <- SomeProposals
  ImportKeys <- TwoKeys
  MaxSerial = 5
  MaxReceiptLines = 1
  MaxTicketActs = 4
  Papers <- SomePapers
  Misread <- MilkMisread
  Entries <- SomeEntries
  Declared <- SomeTotals
  Hundred = 100
  MaxOverlap = 20
  PricedLines <- SomeLines
  Shelves <- SomeShelves
  Needs <- SomeNeeds
  Journeys <- SomeJourneys
  RetailerPenalty = 2
  MostRetailers = 2
  MissingPenalty = 1000
  AiCalls <- TwoCalls
  FirstSettings <- OffOrOn
  Patches <- Saves
  Snapshots <- SomeLimits
  Contents <- OneUpload
  MaxPatches = 1
  MostRetries = 3
INVARIANTS RecordsTypeOK LogSound ListsSound StoreSound BackfillSound ArithmeticSound AiSound
PROPERTIES NoUnseenOverwrite ImplementsSharedLists PricesAreEvidence
SYMMETRY TicketSymmetry
\* The versions of a list and the events of a log are bounded.
CHECK_DEADLOCK FALSE
