CONSTANTS
    Streams = {a, b}
SPECIFICATION FairSpec
INVARIANTS
    FreedIsUnused
    WantedIsServed
PROPERTIES
    QuitIsReclaimed
CHECK_DEADLOCK FALSE
