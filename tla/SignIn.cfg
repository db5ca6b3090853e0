SPECIFICATION SignInSpec
CONSTANTS
    ann = ann
    bob = bob
    i1 = i1
    i2 = i2
    s1 = s1
    c1 = c1
    k1 = k1
    k2 = k2
    NoSub = NoSub
    Emails <- Emails2
    Operations <- Operations4
    Asked <- Asked4
    Calls <- Calls2
    Made <- Made2
    MaxCuts = 1
    MaxResets = 1
    MaxKeys = 2
CHECK_DEADLOCK FALSE
SYMMETRY CallSymmetry
INVARIANTS
    RowsAreBound
PROPERTIES
    UndoTakesItsOwn
    TabIsOneUser
    PublishedNeverRefused
    RetiredNotAccepted
