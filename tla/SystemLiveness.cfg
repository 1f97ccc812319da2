SPECIFICATION FairSystem
CONSTANTS
    Jobs = {j1}
    NULL = NULL
    MaxBudget = 2
    LeaseDuration = 2
    MaxDelay = 1
    Horizon = 0
    ErrorCodes <- WorkerCodes
    Limits = {1}
    Operators = {op1}
    RetryIncrement = 1
    MaxRequestedBudget = 2
PROPERTIES
    UsesStore
    EveryJobTerminates
