SPECIFICATION Spec
CONSTANTS
    PageSize = 8
    PageHeader = 2
    LongHeader = 4
    SegmentSize = 16
    RecordHeader = 3
    Align = 2
    BufferCap = 16
    MaxRecords = 2
    Records <- MCRecords
    Reads <- MCReads
    MaxLSN = 32
    Senders <- MCPieces
INVARIANT
    RecordsAreReal
CHECK_DEADLOCK FALSE
