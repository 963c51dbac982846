SPECIFICATION LifecycleSpec
CONSTANTS
  c1 = c1
  c2 = c2
  d1 = d1
  d2 = d2
  NoDir = NoDir
  Callers <- TwoCallers
  Dirs <- OneDir
  MaxCalls = 3
  MaxCrashes = 0
  Faults = TRUE
  GatedCreate = TRUE
INVARIANT LoadsIntoOpenDatabase
CHECK_DEADLOCK FALSE
