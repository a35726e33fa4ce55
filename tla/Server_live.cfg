\* A parent with a child, which may be refused, against another completion on two slots; no sleeping.
SPECIFICATION FairSpec
CONSTANTS
    s1 = s1
    s2 = s2
    Slots = {s1, s2}
    Kinds = {"p", "a"}
    Requests = {"p", "a"}
    Tasks <- MCTasks
    None = None
    Owner <- MCOwner
    Type <- MCType
    IdSlot <- MCIdSlot
    ParentOf <- MCParentOf
    Session <- MCSession
    IdleSleep = FALSE
    Leavers = {}
    Refused = {"p"}
    Failing = {}
    DecodeErrs = {"throw", "retry"}
    ReadThrows = FALSE
    Terminates = TRUE
    MaxRetries = 1
INVARIANTS NoTaskLost DeferredHasSlot
PROPERTIES Answered Shutdown
CHECK_DEADLOCK FALSE
