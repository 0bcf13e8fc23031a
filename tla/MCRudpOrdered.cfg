CONSTANTS
    PktIds <- MCPktIds
    SubCount <- MCSubCount
    Relayed = FALSE
    CbSize = 2048
    NoRecv = NoRecv
    FullLen = 1320
    LastLen <- MCLastLen
    NoData = NoData
    StreamThreads = {s}
    AsideThreads = {}
    AsideTries = 1
    MaxResend = 0
    TicksPerPkt = 1
    Lossy = TRUE
    QueueCap = 2
SPECIFICATION PathSpec
PROPERTIES
    Implements
CHECK_DEADLOCK FALSE
