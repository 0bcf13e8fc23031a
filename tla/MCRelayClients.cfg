CONSTANTS
    Clients = {c}
    NoClient = NoClient
    ESEE_TURN_AUTH_RE_CNT = 2
    ESEE_HEARTBEAT_RE_CNT = 2
    ESEE_READYTURN_TIMEOUT = 2
    TurnTries = 2
    MaxOrders = 2
SPECIFICATION FairSpec
INVARIANTS
    RunsAsRegistered
PROPERTIES
    LogsInAgain
    RequestIsPassedOn
    OrderIsTried
    TurnSettles
