\* An entry lives for one time unit; the clock lets it be stored and expire twice.
CONSTANTS
    Readers = {r1, r2, r3}
    Busters = {b1, b2}
    Configs <- MCConfigs
    Expiration = 1
    MaxNow = 3
SPECIFICATION FairSpec
INVARIANTS
    TypeOK
    StaleOnlyByOvertaking
    ClearedByItsCall
PROPERTIES
    StaleGoesAway
CHECK_DEADLOCK FALSE
