SPECIFICATION Spec
CONSTANTS
    t1 = t1
    t2 = t2
    Thread <- MCThread
    MaxCalls = 4
    MaxDepth = 2
    Results = {0, 1, 3, 4, 5}
    RingCap = 2
    Block = 2
    CaptureMax = 4
    CaptureOptions = {0, 3}
SYMMETRY MCSymmetry
INVARIANTS
    TypeOK
    EventsAreReturns
    ChunksArePrefixes
    OnlyKnownLosses
CHECK_DEADLOCK FALSE
