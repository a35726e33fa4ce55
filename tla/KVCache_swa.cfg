SPECIFICATION Spec
CONSTANTS
    NCells = 3
    NSeqs = 2
    NStream = 1
    NSwa = 2
    SwaType = "standard"
    NUbatch = 2
    MaxPos = 4
    MaxBatch = 3
    MaxShift = 2
    MaxCopies = 0
    Calls = {"cp", "rm"}
    SharedTokens = FALSE
    EditMiddle = FALSE
    StateIoAny = FALSE
    KShiftFails = FALSE
    Failures = {}
    Tokens = {a}
    NoTok = none
    Divs = {}
    Shifts <- NoShifts
PROPERTIES
    SuccessLeavesNoHoles
    SlotsTakeNothingVisible
    UbatchStored
