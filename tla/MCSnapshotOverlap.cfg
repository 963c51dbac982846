SPECIFICATION SyncSpec
CONSTANTS
    Namespaces <- MCNamespaces
    Shared <- MCShared
    Faults <- OverlapFaults
    MaxEvents = 3
INVARIANT FilesNeverHollow
CHECK_DEADLOCK FALSE
