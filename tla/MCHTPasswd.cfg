SPECIFICATION Spec
CONSTANTS
    User = {u, v}
    Adders = {a1, a2}
    Changers = {c1}
    Logins = {l1, l2}
    MaxUsers = 2
    First = First
    Broken = Broken
    None = None
    NoFile = NoFile
    NoLock = NoLock
    Orphan = Orphan
    MaxAccidents = 1
SYMMETRY Symmetry
CONSTRAINT Few
INVARIANTS
    RegisteredKept
PROPERTIES
    OnlyByOwner
    LoginCurrent
