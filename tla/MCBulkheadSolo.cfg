\* One process, its own key (kind Instance), one permit; the window is two
\* time units and the clock runs beyond it.
CONSTANTS
    a1 = a1
    a2 = a2
    b1 = b1
    A = A
    B = B
    Callers = {a1, a2}
    Instances = {A}
    Home <- SoloHome
    Uids = {a1, a2}
    UniqueId <- SoloUniqueId
    Distributed = FALSE
    MaxConcurrent = 1
    MaxWait = 1
    ExecutionTimeout = 1
    MaxNow = 4
    MaxTickets = 4
SPECIFICATION FairSpec
INVARIANTS
    TypeOK
    Capacity
PROPERTIES
    CallIsDecided
CHECK_DEADLOCK FALSE
