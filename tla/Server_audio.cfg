\* A realtime session and its audio on one slot; sleeping on.
SPECIFICATION FairSpec
CONSTANTS
    s1 = s1
    Slots = {s1}
    Kinds = {"t", "c"}
    Requests = {"t", "c"}
    Tasks <- MCTasks
    None = None
    Owner <- MCOwner
    Type <- MCType
    IdSlot <- MCIdSlot
    ParentOf <- MCParentOf
    Session <- MCSession
    IdleSleep = TRUE
    Leavers = {}
    Refused = {}
    Failing = {}
    DecodeErrs = {}
    ReadThrows = FALSE
    Terminates = FALSE
    MaxRetries = 0
PROPERTY AudioWakesLoop
CHECK_DEADLOCK FALSE
