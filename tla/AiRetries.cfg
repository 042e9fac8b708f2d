SPECIFICATION AiSpec
CONSTANTS
  a1 = a1
  AiCalls <- OneCall
  FirstSettings <- JustOn
  Patches <- SavesOfUse
  Snapshots <- SomeLimits
  Contents <- OneUpload
  MaxPatches = 1
  MostRetries = 3
INVARIANTS SavedRetriesAreUsable
CHECK_DEADLOCK FALSE
