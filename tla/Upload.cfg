SPECIFICATION FairSpec
CONSTANTS
    f1 = f1
    f2 = f2
    f3 = f3
    r1 = r1
    r2 = r2
    NoFile = NoFile
    Files <- Files3
    Requests <- Requests2
    MaxStops = 2
    MaxFaults = 1
    MaxRefusals = 1
CHECK_DEADLOCK FALSE
INVARIANTS
    NoImageLost
    ReadyYearHasImagery
PROPERTIES
    ReadyJudgesBatch
    StoredLostOnlyByRefusal
    YearSettles
