SPECIFICATION FairSupervisorSpec
CONSTANTS
    Requests <- MCRequests
    Retryable <- MCRetryable
    MaxRetries = 2
    MaxCrashes = 4
INVARIANTS SupervisorTypeOK RetriedOnce CrashLoopEnds NoWorkerAfterShutdown
PROPERTIES EveryCallSettles
CHECK_DEADLOCK FALSE
