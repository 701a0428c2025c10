\* Two processes, a budget of one attempt in a window of one time unit, buckets that
\* expire one second after they were made.
CONSTANTS
    a1 = a1
    a2 = a2
    b1 = b1
    A = A
    B = B
    Callers <- MCCallers
    Instances <- MCInstances
    Home <- MCHome
    Configs <- MCConfigs
    WindowBudget = 1
    WindowSize = 1
    Second = 1
    Delay = 1
    MaxDuration = 100
    MaxNow = 1
SPECIFICATION FairSpec
INVARIANTS
    TypeOK
    BudgetAccounted
PROPERTIES
    OwnCountsKept
    CallEnds
CHECK_DEADLOCK FALSE
