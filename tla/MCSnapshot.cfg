SPECIFICATION SyncSpec
CONSTANTS
    Namespaces <- MCNamespaces
    Shared <- MCShared
    Faults <- MCFaults
    MaxEvents = 3
INVARIANTS SyncTypeOK OpenMeansWhole OriginTruthful
PROPERTIES NoUnseenOverwrite UnsavedSharedWorkKept
CHECK_DEADLOCK FALSE
