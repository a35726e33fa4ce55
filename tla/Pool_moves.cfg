CONSTANTS
    l1 = l1
    l2 = l2
    x1 = x1
    x2 = x2
    NBlocks = 4
    Layers = {l1, l2}
    Experts = {x1, x2}
    LayerOf <- TwoExperts
    Workers = {w1}
    MaxCells = 4
    Need <- TwoSizes
    SmallPasses = {"decode"}
    Adopts = TRUE
SPECIFICATION FairSpec
\* the assertion may end the process
CHECK_DEADLOCK FALSE
INVARIANTS
    SlotsAreTrue
    TableIsTrue
    KvIntact
    CellCovered
    LendIsOwned
    LedgerOK
PROPERTIES
    CallReturns
