SPECIFICATION Spec
CONSTANTS
    Call = {1, 2, 3}
    MaxFaults = 1
    None = None
INVARIANTS
    AloneIsKept
    UploadHonest
PROPERTY
    UploadAnswered
