SPECIFICATION DrillSpec
CONSTANTS
    j1 = j1
    j2 = j2
    Jobs = {j1, j2}
    NULL = NULL
    MaxBudget = 2
    LeaseDuration = 1
    MaxDelay = 0
    Horizon = 0
    ErrorCodes <- Codes
    Limits = {2}
    Workers = {1, 2}
    Drills = {"AfterClaimBeforeEffect", "AfterEffectBeforeFinalize", "DuringFinalize", "any"}
    Answers = {"ok", "transient", "permanent"}
    Batch = 2
    Budget = 2
INVARIANTS
    
    GatePasses
SYMMETRY Symmetry
\* A drill that stopped has nothing left to do.
CHECK_DEADLOCK FALSE
