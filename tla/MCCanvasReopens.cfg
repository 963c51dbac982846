SPECIFICATION CanvasSpec
CONSTANTS
  d1 = d1
  d2 = d2
  Dirs <- TwoDirs
  MAX_RETRIES = 1
  StrayEdits = FALSE
  MaxMounts = 1
  MaxEdits = 2
  MaxFailures = 2
INVARIANT SavesLeaveWorkspaceOpen
CHECK_DEADLOCK FALSE
