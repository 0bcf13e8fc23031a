---------------------------- MODULE RelayClients ----------------------------
(***************************************************************************)
(* The clients of the platform and of the turn server together             *)
(* (src/rudpa/esee.c, turn.c): two threads, and the listener that carries  *)
(* orders from the one to the other.  The platform's SResponseTurn is an   *)
(* order for the turn client; a client the turn server announces without   *)
(* an address makes the platform's client ask for it again.                *)
(***************************************************************************)
EXTENDS Esee, Turn

VARIABLE busy   \* bound: the client that is kept busy, as both are too much for TLC

vars == <<eseeVars, turnVars, busy>>

\* While the turn client is busy, the platform is not found; while the platform's is,
\* there are no orders.
Init ==
    /\ EseeInit /\ TurnInit
    /\ \/ busy = "turn" /\ m_HeartbeatReCnt = 0 /\ m_ReadyTurnReCnt = 0
       \/ busy = "platform" /\ m_retry = 0

----------------------------------------------------------------------------
\* The threads, and the time.
Platform == EseeThread /\ UNCHANGED <<turnVars, busy>>
FindPlatform == busy = "platform" /\ GetEseePlatInfo /\ UNCHANGED <<turnVars, busy>>
Registrar == TurnThread /\ UNCHANGED <<eseeVars, busy>>
Clock ==
    \/ (EseeTimeout \/ ReloginTime) /\ UNCHANGED <<turnVars, busy>>
    \/ TurnTimeout /\ UNCHANGED <<eseeVars, busy>>

\* The listener is one thread: it takes nothing else while it is in TurnEventProc.
Answer ==
    /\ orderAt = "none"
    /\ SResponseIdentify \/ SResponseHeart \/ STurnAck
    /\ UNCHANGED <<turnVars, busy>>

\* There is no end to what clients may ask for.
TraversalReq ==
    /\ orderAt = "none"
    /\ busy = "platform"
    /\ \E c \in Clients : STraversalReq(c)
    /\ UNCHANGED <<turnVars, busy>>

HoleDevice ==
    /\ orderAt = "none"
    /\ busy = "platform"
    /\ \E c \in Clients : OtherClient(c)
    /\ UNCHANGED <<turnVars, busy>>

SResponseTurn ==
    /\ \E c \in Clients : OtherClient(c)
    /\ NameServer
    /\ busy = "turn"
    /\ UNCHANGED busy

TurnEventProc ==
    /\ OrderReq \/ ClearRetry
    /\ UNCHANGED <<eseeVars, busy>>

\* TurnDataProc: with an address the client is queued, without one it is asked for.
ClientCs == SD_Client_Cs /\ UNCHANGED <<eseeVars, busy>>
ClientUnknown == busy = "platform" /\ SD_Client_Cs /\ EseeEventProc /\ UNCHANGED busy

Listener ==
    \/ Answer \/ TraversalReq \/ HoleDevice \/ SResponseTurn \/ TurnEventProc
    \/ ClientCs \/ ClientUnknown

Next == Platform \/ FindPlatform \/ Registrar \/ Clock \/ Listener

Spec == Init /\ [][Next]_vars

\* The threads run and the time passes; neither the platform nor the turn server nor
\* any client need say anything.
FairSpec ==
    /\ Spec
    /\ WF_vars(Platform) /\ WF_vars(Registrar) /\ WF_vars(TurnEventProc)
    /\ WF_vars(EseeTimeout /\ UNCHANGED <<turnVars, busy>>)
    /\ WF_vars(ReloginTime /\ UNCHANGED <<turnVars, busy>>)
    /\ WF_vars(TurnTimeout /\ UNCHANGED <<eseeVars, busy>>)

----------------------------------------------------------------------------
TypeOK ==
    /\ EseeTypeOK /\ TurnTypeOK
    /\ busy \in {"platform", "turn"}

\* A login is sent to the platform again and again, whatever is answered, late or not at
\* all, unless the requests of clients never come to an end: each of them takes the place
\* of the status that the thread has set itself, the wait for a heartbeat's answer with
\* the look at reloginTime among them, and enough of them keep the camera from ever
\* logging in again.  Two more things would: a reloginTime never set, and the count of
\* ready turns past the limit that it must equal; both come from memory the code does not
\* set.
LogsInAgain ==
    \/ []<>(eseeAt = "ES_TURN_AUTH")
    \/ []<><<TraversalReq \/ ClientUnknown>>_vars
    \/ []~m_EseePlatInfoValid
    \/ <>[](relogin = "never")
    \/ <>[](m_ReadyTurnReCnt > ESEE_READYTURN_TIMEOUT)

\* A client's request is passed on to the platform under the client's own name,
\* unless it came while the thread was in a case, which then overwrites the status,
\* or another message came on top of it.
RequestIsPassedOn ==
    (fate = "waiting" /\ m_EseePlatInfoValid) ~> fate \in {"passed on", "raced"}

\* While it believes itself registered, the camera is with the server it sends
\* relayed data to, unless the order came while the thread was in a case.
RunsAsRegistered ==
    turnStatus = "TS_RUN" => registered = turnServer \/ orderRaced \/ orderAt = "status"

\* An order is acted upon, or a later one is.
OrderIsTried ==
    \A n \in 1..MaxOrders :
        (turnServer = n /\ orderAt = "retry")
            ~> (registered >= n \/ orderRaced)

\* Once the last order has come, registration comes to an end with any server, answering
\* or not, unless a new order's
\* reset of the count falls into its increment of a count past the limit.
TurnSettles ==
    \/ <>[](turnStatus \in {"TS_IDLE", "TS_RUN"})
    \/ <>[](m_retry = Beyond)
=============================================================================
