SPECIFICATION AutoSaveSpec
CONSTANTS
  e1 = e1
  e2 = e2
  Dirty = Dirty
  NsCount = 2
  Values <- TwoVersions
  Editors <- TwoEditors
  CommandScopes <- NoStores
  MaxFlushRounds = 2
  MaxEvents = 3
  Faults = FALSE
CHECK_DEADLOCK FALSE
INVARIANT MidStoreEditsSaved
