SPECIFICATION FairSpec
CONSTANTS
    f1 = f1
    f2 = f2
    f3 = f3
    r1 = r1
    r2 = r2
    NoFile = NoFile
    Files <- Files2
    Requests <- Requests2
    MaxStops = 0
    MaxFaults = 0
    MaxRefusals = 1
CHECK_DEADLOCK FALSE
PROPERTY StoredStaysReady
