\* Two calls of one object, two hedged functions each.
CONSTANTS
    c1 = c1
    c2 = c2
    Calls = {c1, c2}
    PoolSize = 2
SPECIFICATION HedgeFairSpec
INVARIANTS
    HedgeTypeOK
    OutcomeJustified
PROPERTIES
    NoHedgeAfterSuccess
    CallEnds
CHECK_DEADLOCK FALSE
