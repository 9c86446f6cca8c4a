SPECIFICATION Spec
CONSTANTS
    Uplink = {u1, u2}
    Getters = {g1, g2}
    Creators = {c1}
    Version = {1, 2}
    AllowOffline = FALSE
    Local = Local
    Bad = Bad
    None = None
    NoPkg = NoPkg
    MaxChanges = 1
    MaxFaults = 1
SYMMETRY Symmetry
INVARIANTS
    EtagHonest
    SameForAll
    NotFoundHonest
    LatestFollows
