SPECIFICATION FairSpec
CONSTANTS
    a1 = a1
    a2 = a2
    Parcels <- Parcels3
    BATCH_SIZE = 2
    Admins <- Admins1
    MaxFaults = 0
CHECK_DEADLOCK FALSE
PROPERTY CancelIsFinal
