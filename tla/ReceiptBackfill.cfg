SPECIFICATION BackfillSpec
CONSTANTS
  m1 = m1
  NoRetailer = NoRetailer
  Histories <- SomeHistories
  m2 = m2
  t1 = t1
  t2 = t2
  k1 = k1
  k2 = k2
  g1 = g1
  UNKNOWN_CATEGORY_NAME = "desconocido"
  Retailers <- TwoRetailers
  Titles <- TwoTitles
  CategoryNames <- OneCategory
  AliasSets <- OneAlias
  Prices <- OnePrice
  Proposals <- SomeProposals
  ImportKeys <- TwoKeys
  MaxSerial = 5
  MaxReceiptLines = 1
  MaxTicketActs = 4
INVARIANTS BackfillSucceeds
CHECK_DEADLOCK FALSE
