\* All orders of up to three decorators, up to three attempts, two providers.
CONSTANTS
    Orders <- MCOrders
    MaxAttempts = 3
    MaxProviders = 2
SPECIFICATION PipeFairSpec
INVARIANTS
    PipeTypeOK
    OutcomeExplained
    StrayAttempts
PROPERTIES
    TimeoutEndsCall
CHECK_DEADLOCK FALSE
