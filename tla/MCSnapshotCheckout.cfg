SPECIFICATION SyncSpec
CONSTANTS
    Namespaces <- MCNamespaces
    Shared <- MCShared
    Faults <- CheckoutFaults
    MaxEvents = 3
PROPERTY NoUnseenOverwrite
CHECK_DEADLOCK FALSE
