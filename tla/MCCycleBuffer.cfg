CONSTANTS
    Bytes = {x, y}
    BufLen = 4
    MaxLen = 5
SPECIFICATION Spec
PROPERTIES
    Implements
CHECK_DEADLOCK FALSE
