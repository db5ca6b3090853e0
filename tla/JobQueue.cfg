SPECIFICATION FairSpec
CONSTANTS
    j1 = j1
    j2 = j2
    w1 = w1
    w2 = w2
    NoJob = NoJob
    Jobs <- Jobs2
    Workers <- Workers2
    Polling <- Jobs1
    MAX_ATTEMPTS = 3
    MaxStamp = 2
    MaxBatches = 2
    MaxFaults = 1
    RunAsModule = FALSE
INVARIANTS
    ExclusiveClaim
    AttemptsCharged
    SurvivesDeploys
PROPERTIES
    ImplementsLedger
    EveryJobEnds
