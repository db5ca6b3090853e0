SPECIFICATION FairSpec
CONSTANTS
    i1 = i1
    i2 = i2
    r1 = r1
    r2 = r2
    r3 = r3
    i3 = i3
    Items <- Items3
    Catalogs <- CatalogsFew
    MAX_PAGES = 2
    MaxItems = 2
    MaxChanges = 1
    Requests <- Requests3
    OneWorker = TRUE
    MaxStops = 2
    MaxFaults = 1
CHECK_DEADLOCK FALSE
INVARIANTS
    NoDuplicateTiles
    ReadyIsComplete
PROPERTIES
    ReadyLeftOnlyLate
    YearSettles
