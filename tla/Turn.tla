-------------------------------- MODULE Turn --------------------------------
(***************************************************************************)
(* The client of the turn server (src/rudpa/turn.c), which relays a        *)
(* session whose peer cannot be reached: TurnThread registers the camera   *)
(* with a server, and the listener orders it to (TurnEventProc) and takes  *)
(* note of the server's answers (TurnDataProc).  No lock.                  *)
(*                                                                         *)
(* Servers are numbered in the order they are named by the platform, as an *)
(* order never names the same one in the model; 0 is none.                 *)
(***************************************************************************)
EXTENDS Naturals

CONSTANTS
    TurnTries,      \* the requests to a server that does not answer: 3 in the code
    MaxOrders       \* bound: the orders

ASSUME TurnAssumption == TurnTries \in Nat \ {0} /\ MaxOrders \in Nat

VARIABLES
    turnStatus,     \* m_Status
    turnAt,         \* where TurnThread is
    turnDue,        \* TURN_TIMEOUT since curTime is over
    b_LoginStatus,
    m_retry,
    turnServer,
    retryRead,      \* m_retry while m_retry++ is under way
    orderAt,        \* how far the listener is in TurnEventProc
    registered,     \* history: the server of the last request
    orderRaced      \* history: the last order came while TurnThread was in a case

turnVars == <<turnStatus, turnAt, turnDue, b_LoginStatus, m_retry, turnServer, retryRead,
              orderAt, registered, orderRaced>>
order == <<turnServer, orderAt, orderRaced>>

TurnStatuses == {"TS_IDLE", "TS_TURNREQ", "TS_WAIT_TURNREQ", "TS_RUN"}
Steps == {"poll", "req", "reqSent", "wait", "count", "counted", "login", "tries"}

\* A count past TurnTries, which it is compared with by =, stays past it.
Beyond == TurnTries + 1

\* CreateNewTurn: malloc leaves m_retry at what it is.
TurnInit ==
    /\ turnStatus = "TS_IDLE" /\ turnAt = "poll"
    /\ turnDue = FALSE
    /\ b_LoginStatus = FALSE
    /\ m_retry \in {0, Beyond} /\ retryRead = 0
    /\ turnServer = 0 /\ orderAt = "none"
    /\ registered = 0 /\ orderRaced = FALSE

----------------------------------------------------------------------------
\* TurnThread.  In TS_IDLE and TS_RUN it only sleeps.
TurnPoll ==
    /\ turnAt = "poll"
    /\ \/ turnStatus = "TS_TURNREQ" /\ turnAt' = "req"
       \/ turnStatus = "TS_WAIT_TURNREQ" /\ turnAt' = "wait"
    /\ UNCHANGED <<turnStatus, turnDue, b_LoginStatus, m_retry, retryRead, registered, order>>

TurnReq ==
    /\ turnAt = "req"
    /\ b_LoginStatus' = FALSE
    /\ registered' = turnServer
    /\ turnAt' = "reqSent"
    /\ UNCHANGED <<turnStatus, turnDue, m_retry, retryRead, order>>

AwaitTurn ==
    /\ turnAt = "reqSent"
    /\ turnStatus' = "TS_WAIT_TURNREQ"
    /\ turnDue' = FALSE
    /\ turnAt' = "poll"
    /\ UNCHANGED <<b_LoginStatus, m_retry, retryRead, registered, order>>

\* A mistake for comparison: the request is repeated and not counted.
TurnTimedOutUncounted ==
    /\ turnAt = "wait"
    /\ \/ /\ turnDue
          /\ turnStatus' = "TS_TURNREQ"
          /\ turnAt' = "login"
       \/ /\ ~turnDue
          /\ turnAt' = "login"
          /\ UNCHANGED turnStatus
    /\ UNCHANGED <<turnDue, b_LoginStatus, m_retry, retryRead, registered, order>>

TurnTimedOut ==
    /\ turnAt = "wait"
    /\ \/ /\ turnDue
          /\ turnStatus' = "TS_TURNREQ"
          /\ turnAt' = "count"
       \/ /\ ~turnDue
          /\ turnAt' = "login"
          /\ UNCHANGED turnStatus
    /\ UNCHANGED <<turnDue, b_LoginStatus, m_retry, retryRead, registered, order>>

\* m_retry++ reads and writes.
ReadRetry ==
    /\ turnAt = "count"
    /\ retryRead' = m_retry
    /\ turnAt' = "counted"
    /\ UNCHANGED <<turnStatus, turnDue, b_LoginStatus, m_retry, registered, order>>

WriteRetry ==
    /\ turnAt = "counted"
    /\ m_retry' = IF retryRead < Beyond THEN retryRead + 1 ELSE Beyond
    /\ retryRead' = 0
    /\ turnAt' = "login"
    /\ UNCHANGED <<turnStatus, turnDue, b_LoginStatus, registered, order>>

CheckLogin ==
    /\ turnAt = "login"
    /\ turnStatus' = IF b_LoginStatus THEN "TS_RUN" ELSE turnStatus
    /\ turnAt' = "tries"
    /\ UNCHANGED <<turnDue, b_LoginStatus, m_retry, retryRead, registered, order>>

CheckTries ==
    /\ turnAt = "tries"
    /\ \/ /\ m_retry = TurnTries
          /\ m_retry' = 0
          /\ turnStatus' = "TS_IDLE"
       \/ m_retry # TurnTries /\ UNCHANGED <<m_retry, turnStatus>>
    /\ turnAt' = "poll"
    /\ UNCHANGED <<turnDue, b_LoginStatus, retryRead, registered, order>>

TurnThread ==
    \/ TurnPoll \/ TurnReq \/ AwaitTurn
    \/ TurnTimedOut \/ ReadRetry \/ WriteRetry \/ CheckLogin \/ CheckTries

TurnTimeout ==
    /\ turnStatus = "TS_WAIT_TURNREQ" /\ ~turnDue
    /\ turnDue' = TRUE
    /\ UNCHANGED <<turnStatus, turnAt, b_LoginStatus, m_retry, retryRead, registered, order>>

----------------------------------------------------------------------------
\* TurnEventProc, in the listener: the server, then the status, then the count.
NameServer ==
    /\ orderAt = "none" /\ turnServer < MaxOrders
    /\ turnServer' = turnServer + 1
    /\ orderAt' = "status"
    /\ orderRaced' = (turnAt # "poll")
    /\ UNCHANGED <<turnStatus, turnAt, turnDue, b_LoginStatus, m_retry, retryRead, registered>>

\* A mistake for comparison: a camera that is registered is not registered anew.
OrderReqOnce ==
    /\ orderAt = "status"
    /\ turnStatus' = IF turnStatus = "TS_RUN" THEN turnStatus ELSE "TS_TURNREQ"
    /\ orderAt' = "retry"
    /\ orderRaced' = (orderRaced \/ turnAt # "poll")
    /\ UNCHANGED <<turnAt, turnDue, b_LoginStatus, m_retry, turnServer, retryRead, registered>>

OrderReq ==
    /\ orderAt = "status"
    /\ turnStatus' = "TS_TURNREQ"
    /\ orderAt' = "retry"
    /\ orderRaced' = (orderRaced \/ turnAt # "poll")
    /\ UNCHANGED <<turnAt, turnDue, b_LoginStatus, m_retry, turnServer, retryRead, registered>>

ClearRetry ==
    /\ orderAt = "retry"
    /\ m_retry' = 0
    /\ orderAt' = "none"
    /\ UNCHANGED <<turnStatus, turnAt, turnDue, b_LoginStatus, turnServer, retryRead,
                   registered, orderRaced>>

\* TurnDataProc, in the listener: any datagram for a client counts as an answer.
SD_Client_Cs ==
    /\ orderAt = "none"
    /\ b_LoginStatus' = TRUE
    /\ UNCHANGED <<turnStatus, turnAt, turnDue, m_retry, turnServer, retryRead, orderAt,
                   registered, orderRaced>>

----------------------------------------------------------------------------
TurnTypeOK ==
    /\ turnStatus \in TurnStatuses /\ turnAt \in Steps
    /\ turnDue \in BOOLEAN /\ b_LoginStatus \in BOOLEAN
    /\ m_retry \in 0..Beyond /\ retryRead \in 0..Beyond
    /\ turnServer \in 0..MaxOrders /\ registered \in 0..MaxOrders
    /\ orderAt \in {"none", "status", "retry"} /\ orderRaced \in BOOLEAN
=============================================================================
