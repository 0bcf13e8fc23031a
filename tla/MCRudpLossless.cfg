CONSTANTS
    PktIds <- MCWholePktIds
    SubCount <- MCWholeSubCount
    Relayed = TRUE
    CbSize = 2048
    NoRecv = NoRecv
    FullLen = 1320
    LastLen <- MCWholeLastLen
    NoData = NoData
    StreamThreads = {s}
    AsideThreads = {}
    AsideTries = 1
    MaxResend = 0
    TicksPerPkt = 1
    Lossy = FALSE
    QueueCap = 2
SPECIFICATION FairPathSpec
INVARIANTS
    WholeWhenLossless
PROPERTIES
    SentIsHanded
CHECK_DEADLOCK FALSE
