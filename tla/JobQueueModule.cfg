SPECIFICATION Spec
CONSTANTS
    j1 = j1
    j2 = j2
    w1 = w1
    w2 = w2
    NoJob = NoJob
    Jobs <- Jobs2
    Workers <- Workers1
    Polling <- Jobs2
    MAX_ATTEMPTS = 3
    MaxStamp = 1
    MaxBatches = 2
    MaxFaults = 0
    RunAsModule = TRUE
INVARIANT SurvivesDeploys
