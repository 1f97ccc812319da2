SPECIFICATION EdgesSpec
CONSTANTS
    NULL = NULL
    Edges = {"startup", "requests", "observers", "listing", "gauges"}
\* startup
    Environments <- MCEnvironments
    Default <- MCDefault
    Limit <- MCLimit
    UMax = 31
    MsPerSecond = 10
    HeartbeatFloor = 1
    MaxAttempts = 5
    UNSET = UNSET
    NOT_UNICODE = NOT_UNICODE
    BAD = BAD
\* requests
    Texts <- MCTexts
    Amounts = {0, 1, 2}
    MaxKindLen = 4
    MaxCustomerIdLen = 5
    MaxMaxAttempts = 2
    RetryIncrement = 1
    MaxAttemptsEver = 4
\* observers
    Jobs = {j1}
    MaxBudget = 2
    LeaseDuration = 1
    MaxDelay = 1
    Horizon = 1
    ErrorCodes = {rejected, transient}
    Limits = {1}
\* listing
    NumJobs = 3
    MaxTime = 1
    MaxListLimit = 2
\* gauges
    GaugedJobs = 2
INVARIANTS
    NothingTouchedUnlessSane
    BackoffIsExact
    HeartbeatFitsLease
    AcceptedIsExecutable
    AnswerIsCoherent
    ListedInOrder
    NothingOwedIsSkipped
    CountersMatchTrail
PROPERTY GaugesCatchUp
\* A process refused, a job finished and a listing done have nothing left to do.
CHECK_DEADLOCK FALSE
