\* A realtime session and its audio on two slots, an erase and a metrics scrape; sleeping on.
SPECIFICATION Spec
CONSTANTS
    s1 = s1
    s2 = s2
    Slots = {s1, s2}
    Kinds = {"t", "c", "e", "m"}
    Requests = {"t", "c", "e", "m"}
    Tasks <- MCTasks
    None = None
    Owner <- MCOwner
    Type <- MCType
    IdSlot <- MCIdSlot
    ParentOf <- MCParentOf
    Session <- MCSession
    IdleSleep = TRUE
    Leavers = {"t"}
    Refused = {"t"}
    Failing = {"t"}
    DecodeErrs = {}
    ReadThrows = TRUE
    Terminates = FALSE
    MaxRetries = 0
INVARIANTS NoTaskLost ResultsOK WorkerInsideYield SleepsOnlyIdle
PROPERTY YieldKeepsOrder
CHECK_DEADLOCK FALSE
