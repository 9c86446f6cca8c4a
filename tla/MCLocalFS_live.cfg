SPECIFICATION FairSpec
CONSTANTS
    Updaters = {u1, u2}
    Creators = {c1}
    Savers = {}
    Removers = {}
    NoLock = NoLock
    Orphan = Orphan
    Absent = Absent
    Empty = Empty
    MaxFailures = 0
    MaxFaults = 1
    MaxCrashes = 2
PROPERTIES
    RequestsEnd
    ImplementsStore
