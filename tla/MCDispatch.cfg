SPECIFICATION FairDispatchSpec
CONSTANTS
    Commands <- MCTwoCommands
    Opens <- MCOpens
    Dirs <- MCDirs
    Statements = 2
INVARIANTS HeldUntilSettled
PROPERTIES DeferredInOrder EveryRequestAnswered
CHECK_DEADLOCK FALSE
