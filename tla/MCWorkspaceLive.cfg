SPECIFICATION FairLifecycleSpec
CONSTANTS
  c1 = c1
  c2 = c2
  d1 = d1
  d2 = d2
  NoDir = NoDir
  Callers <- TwoCallers
  Dirs <- TwoDirs
  MaxCalls = 2
  MaxCrashes = 1
  Faults = TRUE
  GatedCreate = TRUE
PROPERTY LifecycleProgress
CHECK_DEADLOCK FALSE
