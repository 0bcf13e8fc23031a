CONSTANTS
    PktIds <- MCPktIds
    SubCount <- MCSubCount
    Nodes = {n1, n2, n3, n4}
    NULL = NULL
SPECIFICATION Spec
SYMMETRY Symmetry
INVARIANTS
    TypeOK
    CopiedAscending
    NoLeakInOrder
PROPERTIES
    ImplementsSet
CHECK_DEADLOCK FALSE
