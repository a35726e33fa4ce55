SPECIFICATION Spec
CONSTANTS
    NCells = 2
    NSeqs = 2
    NStream = 2
    NSwa = 0
    SwaType = "none"
    NUbatch = 2
    MaxPos = 1
    MaxBatch = 2
    MaxShift = 1
    MaxCopies = 2
    Calls = {"cp", "add", "clear", "state"}
    SharedTokens = FALSE
    EditMiddle = FALSE
    StateIoAny = FALSE
    KShiftFails = FALSE
    Failures = {"fatal", "oom"}
    Tokens = {a}
    NoTok = none
    Divs = {}
    Shifts <- BackOnly
INVARIANTS
    DataMatchesCells
    StreamsSeparate
PROPERTIES
    FailedUbatchRemoved
