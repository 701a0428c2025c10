\* Two attempts a call; entries live three time units, and two are read.
CONSTANTS
    A = A
    B = B
    Callers = {1, 2, 3}
    Instances <- MCInstances
    Home <- MCHome
    MaxAttempts = 2
    Backoff = 1
    Limit = 2
    MaxNow = 5
SPECIFICATION Spec
INVARIANTS
    TypeOK
    LiveEntryKept
    PeersExclude
CHECK_DEADLOCK FALSE
