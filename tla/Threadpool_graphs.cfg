SPECIFICATION Spec
CONSTANTS
    NThreads = 3
    MaxGraphs = 2
    CountMod = 65536
    Graphs <- SmallGraphs
INVARIANTS
    InputsComplete
    ComputedOnce
    ReturnOK
PROPERTIES
    BarrierImplementsLockstep
    CallsReturn
CHECK_DEADLOCK FALSE
