SPECIFICATION CoverageFairSpec
CONSTANTS
    l1 = l1
    l2 = l2
    r1 = r1
    r2 = r2
    y1 = y1
    NoLayer = NoLayer
    NoField = NoField
    Layers <- Layers1
    Requests <- Requests2
    Fields <- Columns
    RefsOf <- ColumnRefs
    Years <- NoYears
    MaxFaults = 0
CHECK_DEADLOCK FALSE
PROPERTY IngestOnlyFromAwaitingField
