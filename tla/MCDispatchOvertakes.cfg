SPECIFICATION DispatchSpec
CONSTANTS
    Commands <- MCCommands
    Opens <- MCOpens
    Dirs <- MCDirs
    Statements = 2
PROPERTY NoCommandOvertakes
CHECK_DEADLOCK FALSE
