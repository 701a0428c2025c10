\* Two callers in one process, two failures trip, and one retry.  A bucket may expire
\* between the steps of a call, also twice; three calls, failures and crashes.
CONSTANTS
    c1 = c1
    c2 = c2
    c3 = c3
    A = A
    B = B
    Callers = {c1, c2}
    Instances = {A}
    Home <- MCHome
    Strategy = "percentage"
    Threshold = 50
    MinimumFailures = 2
    Interval = 1
    Retries = 1
    HalfOpenLimit = 1
    MaxNow = 5
    MaxEvents = 3
    MaxBuckets = 5
SPECIFICATION FairSpec
INVARIANTS
    TypeOK
    OpenMeansMinimum
PROPERTIES
    CallEnds
CHECK_DEADLOCK FALSE
