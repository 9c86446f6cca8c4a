SPECIFICATION Spec
CONSTANTS
    Updaters = {u1, u2}
    Creators = {c1, c2}
    Savers = {s1}
    Removers = {d1}
    NoLock = NoLock
    Orphan = Orphan
    Absent = Absent
    Empty = Empty
    MaxFailures = 1
    MaxFaults = 1
    MaxCrashes = 1
SYMMETRY Symmetry
INVARIANTS
    UpdatesSurvive
PROPERTIES
    NoResurrection
    FollowsLocking
