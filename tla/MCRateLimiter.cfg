\* One permit per window of one time unit.
CONSTANTS
    a1 = a1
    a2 = a2
    b1 = b1
    A = A
    B = B
    Callers <- MCCallers
    Instances <- MCInstances
    Home <- MCHome
    PermitLimit = 1
    Window = 1
    MaxNow = 2
SPECIFICATION Spec
INVARIANTS
    TypeOK
    WindowLimit
PROPERTIES
    ImplementsPermits
    RefusedWhenFull
CHECK_DEADLOCK FALSE
