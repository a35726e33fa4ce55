SPECIFICATION Spec
CONSTANTS
    NCells = 5
    NSeqs = 1
    Tokens <- OneToken
    NoTok = none
    U32 = 64
    KvTail = TRUE
    HeadBeyondCap = FALSE
INVARIANTS
    SearchExact
PROPERTIES
    Ends
CHECK_DEADLOCK FALSE
