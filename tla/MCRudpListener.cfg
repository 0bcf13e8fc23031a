CONSTANTS
    NULL = NULL
    Head = Head
    Radoms = {r, q}
    Sessions = {s1, s2, s3}
    TurnNodes = {t1, t2, t3}
    TurnTTL = 2
    HoleNodes = {h1, h2}
    Addresses = {a, b}
    HoleTTL = 2
    MaxMessages = 4
SPECIFICATION Spec
SYMMETRY Symmetry
INVARIANTS
    FreedIsUntouched
    NothingIsLost
    OneSessionEach
    HolesStop
CHECK_DEADLOCK FALSE
