SPECIFICATION Spec
CONSTANTS
    Jobs = {j1, j2}
    NULL = NULL
    MaxBudget = 3
    LeaseDuration = 1
    MaxDelay = 1
    Horizon = 1
    ErrorCodes = {rejected}
    Limits = {1, 2}
SYMMETRY Symmetry
INVARIANTS
    TypeOK
    ChecksHold
    TrailComplete
    TrailMatchesStatus
    DeadIsExplained
PROPERTIES
    TakeoverNeedsExpiry
    SucceededIsFinal
    TrailSettles
    ImplementsLifecycle
