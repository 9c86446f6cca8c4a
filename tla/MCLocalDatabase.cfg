SPECIFICATION ListSpec
CONSTANTS
    Listed = {a, b}
    SyncCall = {k1, k2, k3}
    NoFile = NoFile
    Torn = Torn
    MaxSyncFaults = 1
    MaxCrashes = 2
SYMMETRY Symmetry
INVARIANTS
    FileFollowsList
CHECK_DEADLOCK FALSE
