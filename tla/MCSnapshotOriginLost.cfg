SPECIFICATION SyncSpec
CONSTANTS
    Namespaces <- MCNamespaces
    Shared <- MCShared
    Faults <- OriginLostFaults
    MaxEvents = 3
PROPERTY UnsavedSharedWorkKept
CHECK_DEADLOCK FALSE
