CONSTANTS
    PktIds <- MCPktIds
    SubCount <- MCSubCount
    NoData = NoData
    StreamThreads = {s}
    AsideThreads = {a}
    AsideTries = 2
    MaxResend = 1
    TicksPerPkt = 1
SPECIFICATION TxFairSpec
INVARIANTS
    SuccessWasSent
    FlagIsReleased
PROPERTIES
    SendReturns
CHECK_DEADLOCK FALSE
