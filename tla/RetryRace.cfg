SPECIFICATION SystemSpec
CONSTANTS
    Jobs = {j1}
    NULL = NULL
    MaxBudget = 2
    LeaseDuration = 1
    MaxDelay = 0
    Horizon = 0
    ErrorCodes <- WorkerCodes
    Limits = {1}
    Operators = {op1, op2}
    RetryIncrement = 1
    MaxRequestedBudget = 2
INVARIANT PendingHasBudget
