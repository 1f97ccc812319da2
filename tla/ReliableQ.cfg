SPECIFICATION SystemSpec
CONSTANTS
    Jobs = {j1}
    NULL = NULL
    MaxBudget = 3
    LeaseDuration = 1
    MaxDelay = 0
    Horizon = 0
    ErrorCodes <- WorkerCodes
    Limits = {1}
    Operators = {op1}
    RetryIncrement = 1
    MaxRequestedBudget = 2
INVARIANTS
    AtMostOneChargePerJob
    SucceededIsCharged
    DeadCodeIsTrue
    PendingHasBudget
PROPERTIES
    StaleHandlersAreFenced
