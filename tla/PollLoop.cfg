SPECIFICATION FairSpec
CONSTANTS
    Concurrency = 4
    ClaimBatchMax = 3
    Grace = 2
INVARIANTS
    PermitsMatchTasks
    TopIsIdle
PROPERTY ShutdownTerminates
\* The process ends.
CHECK_DEADLOCK FALSE
