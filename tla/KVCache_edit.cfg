SPECIFICATION Spec
CONSTANTS
    NCells = 2
    NSeqs = 2
    NStream = 1
    NSwa = 0
    SwaType = "none"
    NUbatch = 2
    MaxPos = 2
    MaxBatch = 3
    MaxShift = 1
    MaxCopies = 0
    Calls = {"rm", "rm_any", "cp", "keep", "add", "div"}
    SharedTokens = TRUE
    EditMiddle = TRUE
    StateIoAny = FALSE
    KShiftFails = TRUE
    Failures = {"oom"}
    Tokens = {a}
    NoTok = none
    Divs = {2}
    Shifts <- BackOnly
INVARIANTS
    TypeOK
    IndexesAgree
PROPERTIES
    ReturnOneRestores
