SPECIFICATION CanvasSpec
CONSTANTS
  d1 = d1
  d2 = d2
  Dirs <- OneDir
  MAX_RETRIES = 1
  StrayEdits = FALSE
  MaxMounts = 2
  MaxEdits = 2
  MaxFailures = 2
INVARIANT CanvasTypeOK NothingForgotten SavedMeansSaved
CHECK_DEADLOCK FALSE
