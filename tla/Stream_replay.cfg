SPECIFICATION Spec
CONSTANTS
    Posts = {p1, p2}
    NoPost = none
    Readers = {r1}
    CapBytes = 2
    GenBytes = 3
    Offsets = {0, 2}
INVARIANTS
    ReadsOK
    SurvivesDisconnect
PROPERTIES
    ReadersEnd
CHECK_DEADLOCK FALSE
