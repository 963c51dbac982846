SPECIFICATION LifecycleSpec
CONSTANTS
  c1 = c1
  c2 = c2
  d1 = d1
  d2 = d2
  NoDir = NoDir
  Callers <- TwoCallers
  Dirs <- TwoDirs
  MaxCalls = 3
  MaxCrashes = 0
  Faults = TRUE
  GatedCreate = FALSE
PROPERTY LoadClosesOwnDatabase
CHECK_DEADLOCK FALSE
