\* One permit on a key shared by two instances; the window is one time unit.
CONSTANTS
    a1 = a1
    a2 = a2
    b1 = b1
    A = A
    B = B
    Callers <- MCCallers
    Instances <- MCInstances
    Home <- MCHome
    Uids <- MCCallers
    UniqueId <- MCUniqueId
    Distributed = TRUE
    MaxConcurrent = 1
    MaxWait = 1
    ExecutionTimeout = 0
    MaxNow = 2
    MaxTickets = 3
SPECIFICATION Spec
INVARIANTS
    FreshPermitBacked
    CapacityPerInstance
PROPERTIES
    ImplementsPermits
CHECK_DEADLOCK FALSE
