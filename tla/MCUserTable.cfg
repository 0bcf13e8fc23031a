SPECIFICATION Spec
CONSTANTS
    Webs = {w1, w2}
    P2ps = {}
    Houses = 2
    Admin = "admin"
    OtherNames = {"u"}
    NoPassword = "none"
    OtherPasswords = {"pw"}
    MaxChanges = 3
    MaxCrashes = 2
SYMMETRY Symmetry
INVARIANTS
    TableSound
    AllOrNothing
    UpToDate
CHECK_DEADLOCK FALSE
