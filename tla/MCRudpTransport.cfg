CONSTANTS
    PktIds <- MCPktIds
    SubCount <- MCSubCount
    Relayed = FALSE
    CbSize = 2048
    NoRecv = NoRecv
    FullLen = 1320
    LastLen <- MCLastLen
    NoData = NoData
    StreamThreads = {s}
    AsideThreads = {}
    AsideTries = 2
    MaxResend = 1
    TicksPerPkt = 1
SPECIFICATION Spec
INVARIANTS
    SuccessIsReceived
    PayloadWasReceived
    WholeIffAscending
    AllReceivedIsHanded
    OnlyLongOverruns
CHECK_DEADLOCK FALSE
