SPECIFICATION DispatchSpec
CONSTANTS
    Commands <- MCTwoCommands
    Opens <- MCOpens
    Dirs <- MCDirs
    Statements = 1
INVARIANT CleanupOutsideLoads
CHECK_DEADLOCK FALSE
