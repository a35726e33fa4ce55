SPECIFICATION Spec
CONSTANTS
    a = a
    b = b
    Models = {a, b}
    NoModel = none
    Requests = {1, 2}
    MaxModels = 1
    Asks <- TwoMixed
    MaxFaults = 1
    Startups = {{}, {a}}
INVARIANTS
    WithinLimit
    QueueOK
    StopHitsItsInstance
PROPERTIES
    StopsEnd
    TakeTurns
CHECK_DEADLOCK FALSE
