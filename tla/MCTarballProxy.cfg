SPECIFICATION Spec
CONSTANTS
    Uplink = {1}
    Download = {d1}
    Meta = {m1}
    Client = {c1}
    Call = {d1, m1}
    Stream = {d1, c1}
    MaxFails = 2
    FailTimeout = 1
    MaxOutages = 1
    MaxFaults = 1
    NoUplink = NoUplink
    NoFile = NoFile
INVARIANTS
    NoSilentTruncation
    SuccessMeansStored
PROPERTIES
    RefusalJustified
    BackInUse
    Answered
