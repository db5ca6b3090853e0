SPECIFICATION FairSpec
CONSTANTS
    a1 = a1
    a2 = a2
    Parcels <- Parcels4
    BATCH_SIZE = 3
    Admins <- Admins2
    MaxFaults = 1
CHECK_DEADLOCK FALSE
INVARIANTS
    CountersMatchRows
    SucceededIsComplete
    CancelStopsAtBoundary
    NoRunLeftBehind
PROPERTIES
    RunEnds
