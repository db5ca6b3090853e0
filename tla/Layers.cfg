SPECIFICATION CoverageFairSpec
CONSTANTS
    l1 = l1
    l2 = l2
    r1 = r1
    r2 = r2
    y1 = y1
    NoLayer = NoLayer
    NoField = NoField
    Layers <- Layers2
    Requests <- Requests2
    Fields <- Columns
    RefsOf <- ColumnRefs
    Years <- Years1
    MaxFaults = 1
CHECK_DEADLOCK FALSE
INVARIANTS
    CurrentIsWhole
    OnlyWholeIngests
    ReportsAreCurrent
PROPERTIES
    ParcelsNeverChange
    LayersSettle
