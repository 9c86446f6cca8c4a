SPECIFICATION LockSpec
CONSTANTS
    Proc = {p1, p2, p3, p4}
    NoLock = NoLock
    Orphan = Orphan
    MaxFailures = 2
    MaxCrashes = 1
SYMMETRY Symmetry
INVARIANTS
    OverlapBound
PROPERTY
    RemovedByOwner
