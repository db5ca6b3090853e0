SPECIFICATION FairSpec
CONSTANTS
    Height = 3
    Width = 4
    Sights <- SightsFew
    Resolutions = {80, 40, 27}
    MIN_STRUCTURE = 80
    HALF_STRUCTURE = 40000
    MIN_AREA = 14000
    FILL_NUM = 3
    FILL_DEN = 4
    THR_NUM = 1
    THR_DEN = 5
CHECK_DEADLOCK FALSE
INVARIANTS
    OnlySeenGround
    TreesAreBlobs
    CandidateIfSomeBlob
PROPERTIES
    OpenedIsBlocks
    CompareEnds
