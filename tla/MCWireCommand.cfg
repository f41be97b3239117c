SPECIFICATION FairSpec
CONSTANTS
    ChanCap = 1
    RingCap = 2
    Limit = 3
    MaxChunks = 4
    MaxMatches = 2
INVARIANTS
    TypeOK
    NothingSkipped
PROPERTIES
    CommandEnds
CHECK_DEADLOCK FALSE
