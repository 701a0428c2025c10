\* Three calls for one key; one of them does not extend its lock.
CONSTANTS
    c1 = c1
    c2 = c2
    c3 = c3
    Callers <- MCCallers
    Extensible = {c1, c2}
    Duration = 2
    RefreshInterval = 1
    Drift = 2
    Epoch = 100
    MaxNow = 4
SPECIFICATION FairSpec
INVARIANTS
    TypeOK
    OnlyOverrunsOverlap
PROPERTIES
    KeptAliveByHolder
    RecordGoesAway
CHECK_DEADLOCK FALSE
