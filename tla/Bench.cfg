SPECIFICATION FairSpec
CONSTANTS
    Preload = {1, 2}
    WarmUp = {3}
    Concurrency = 1
    Budget = 2
    Sequel <- MCSequel
INVARIANTS DrainedMeansDone NeverCrowded NothingSurvives
PROPERTY RunsEnd
\* The harness may rest for ever.
CHECK_DEADLOCK FALSE
