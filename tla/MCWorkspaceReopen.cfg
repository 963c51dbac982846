SPECIFICATION FairLifecycleSpec
CONSTANTS
  c1 = c1
  c2 = c2
  d1 = d1
  d2 = d2
  NoDir = NoDir
  Callers <- TwoCallers
  Dirs <- OneDir
  MaxCalls = 2
  MaxCrashes = 0
  Faults = FALSE
  GatedCreate = TRUE
PROPERTY LoadingEnds
CHECK_DEADLOCK FALSE
