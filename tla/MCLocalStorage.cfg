SPECIFICATION Spec
CONSTANTS
    Creators = {c1, c2}
    Publishers = {p1}
    Taggers = {t1}
    Changers = {x1, x2}
    Syncers = {s1}
    Removers = {d1}
    Version = {1, 2}
    Tag = {}
    None = None
    NoPkg = NoPkg
    Remote = Remote
    MaxFaults = 1
    MaxRequests = 4
CONSTRAINT Few
INVARIANTS
    PublishedOnce
    TagsResolve
    AttachmentsOnDisk
    NoOrphanTarball
    RemovalIsFinal
SYMMETRY Symmetry
