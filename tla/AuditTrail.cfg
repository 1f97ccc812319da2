SPECIFICATION Spec
CONSTANTS
    Jobs = {j1, j2}
    NULL = NULL
    MaxBudget = 2
    LeaseDuration = 1
    MaxDelay = 1
    Horizon = 1
    ErrorCodes = {transient}
    Limits = {1}
PROPERTY TrailIsAppendOnly
