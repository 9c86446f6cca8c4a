SPECIFICATION Spec
CONSTANTS
    Process = {p1, p2}
    Call = {c1, c2}
    Name = {a, b}
    Limit = 1
    MaxFaults = 1
    MaxStarts = 2
    XdgFolder = TRUE
    WinFolder = FALSE
    Setups <- MCSetups
    None = None
SYMMETRY Symmetry
INVARIANTS
    AddsSurvive
    ConfigWhole
    SecretShared
