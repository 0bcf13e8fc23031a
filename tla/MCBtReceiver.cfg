CONSTANTS
    Bytes = {x}
    BufLen = 3
    MaxLen = 0
    MaxChunk = 2
    PeekLen = 2
SPECIFICATION BtFairSpec
INVARIANTS
    FreedIsUnused
PROPERTIES
    OnlyOverflowJams
    StopEnds
    StuckForGood
CHECK_DEADLOCK FALSE
