\* Two callers, two processes, the default (percentage) strategy; one failure trips;
\* three calls, failures and crashes in all.
CONSTANTS
    c1 = c1
    c2 = c2
    c3 = c3
    A = A
    B = B
    Callers = {c1, c2}
    Instances <- MCInstances
    Home <- MCHome
    Strategy = "percentage"
    Threshold = 50
    MinimumFailures = 1
    Interval = 1
    Retries = 2
    HalfOpenLimit = 1
    MaxNow = 4
    MaxEvents = 3
    MaxBuckets = 3
SPECIFICATION Spec
INVARIANTS
    OpenShutsOut
CHECK_DEADLOCK FALSE
