-------------------------------- MODULE Esee --------------------------------
(***************************************************************************)
(* The client of the Esee platform (src/rudpa/esee.c): EseeThread logs the *)
(* camera in and keeps it so with heartbeats; the listener, in             *)
(* EseeDataProc, notes the platform's answers and bends the thread's own   *)
(* status to have a client's request passed on.  No lock.                  *)
(*                                                                         *)
(* The thread looks at the status, acts, and writes the status as the last *)
(* shared thing it does, so a turn of its loop is two steps: Poll and the  *)
(* case.                                                                   *)
(***************************************************************************)
EXTENDS Naturals

CONSTANTS
    Clients, NoClient,
    ESEE_TURN_AUTH_RE_CNT,
    ESEE_HEARTBEAT_RE_CNT,
    ESEE_READYTURN_TIMEOUT      \* the seconds, and in the code the attempts too

ASSUME EseeAssumption ==
    /\ NoClient \notin Clients
    /\ ESEE_TURN_AUTH_RE_CNT \in Nat \ {0}
    /\ ESEE_HEARTBEAT_RE_CNT \in Nat \ {0}
    /\ ESEE_READYTURN_TIMEOUT \in Nat \ {0}

VARIABLES
    eseeStatus,         \* m_Status
    eseeAt,             \* the case EseeThread is in, or "poll"
    eseeDue,            \* the timeout since curTime is over
    relogin,            \* how ESEE_RELOGIN_TIME stands since reloginTime
    b_turnAuth, b_heartbeat, b_turn_ready,
    m_TurnAuthReCnt, m_HeartbeatReCnt, m_ReadyTurnReCnt,
    m_EseePlatInfoValid,
    m_extern,           \* m_externIp and m_externPort, compared with the answer's
    tagOnline,          \* TagTable: the status in the last heartbeat's answer
    tagClient,          \* TagTable: the client of the last message that named one
    request,            \* history: the last request to be passed on
    fate                \* history: what became of it

flags == <<b_turnAuth, b_heartbeat, b_turn_ready>>
counts == <<m_TurnAuthReCnt, m_HeartbeatReCnt, m_ReadyTurnReCnt>>
told == <<m_EseePlatInfoValid, m_extern, tagOnline, tagClient>>
timing == <<eseeDue, relogin>>
asked == <<request, fate>>
eseeVars == <<eseeStatus, eseeAt, timing, flags, counts, told, asked>>

Waiting == {"ES_TURN_AUTH_ACK", "ES_HEARTBEAT_ACK", "ES_TURNREADY_ACK"}
PassedOn == {"ES_TURNREADY", "ES_CONFIRM_TRAVERSAL"}
EseeStatuses == {"ES_IDLE", "ES_TURN_AUTH", "ES_HEARTBEAT"} \cup Waiting \cup PassedOn

\* CreateNewEsee.  malloc leaves two counters at what they are, and reloginTime is
\* an uninitialised local of EseeThread.
EseeInit ==
    /\ eseeStatus = "ES_TURN_AUTH" /\ eseeAt = "poll"
    /\ eseeDue = FALSE /\ relogin \in {"never", "due"}
    /\ b_turnAuth = FALSE /\ b_heartbeat = FALSE /\ b_turn_ready = FALSE
    /\ m_TurnAuthReCnt = 0
    /\ \/ m_HeartbeatReCnt = 0 /\ m_ReadyTurnReCnt = 0
       \/ /\ m_HeartbeatReCnt = ESEE_HEARTBEAT_RE_CNT + 1
          /\ m_ReadyTurnReCnt = ESEE_READYTURN_TIMEOUT + 1
    /\ m_EseePlatInfoValid = FALSE /\ m_extern = "unset"
    /\ tagOnline = FALSE /\ tagClient = NoClient
    /\ request = [status |-> "none", client |-> NoClient] /\ fate = "none"

\* A counter past its limit, which it is compared with by =, stays past it.
Counted(n, limit) == IF n > limit THEN limit + 1 ELSE n + 1

----------------------------------------------------------------------------
\* EseeThread.  GetEseePlatInfo has found the platform before the loop starts.
Poll ==
    /\ eseeAt = "poll" /\ m_EseePlatInfoValid
    /\ eseeAt' = eseeStatus
    /\ UNCHANGED <<eseeStatus, timing, flags, counts, told, asked>>

\* The end of a case.
EndOf(case) == eseeAt = case /\ eseeAt' = "poll"

Idle ==
    /\ EndOf("ES_IDLE")
    /\ eseeStatus' = "ES_TURN_AUTH"
    /\ m_TurnAuthReCnt' = 0
    /\ UNCHANGED <<timing, flags, m_HeartbeatReCnt, m_ReadyTurnReCnt, told, asked>>

SendAuth ==
    /\ EndOf("ES_TURN_AUTH")
    /\ b_turnAuth' = FALSE
    /\ eseeStatus' = "ES_TURN_AUTH_ACK"
    /\ eseeDue' = FALSE
    /\ UNCHANGED <<relogin, b_heartbeat, b_turn_ready, counts, told, asked>>

AuthAcked ==
    /\ EndOf("ES_TURN_AUTH_ACK")
    /\ b_turnAuth
    /\ relogin' = "counting"
    /\ m_HeartbeatReCnt' = 0
    /\ eseeStatus' = "ES_HEARTBEAT"
    /\ UNCHANGED <<eseeDue, flags, m_TurnAuthReCnt, m_ReadyTurnReCnt, told, asked>>

AuthMissed ==
    /\ EndOf("ES_TURN_AUTH_ACK")
    /\ ~b_turnAuth /\ eseeDue
    /\ \/ /\ m_TurnAuthReCnt + 1 = ESEE_TURN_AUTH_RE_CNT
          /\ m_TurnAuthReCnt' = 0
          /\ eseeStatus' = "ES_IDLE"
       \/ /\ m_TurnAuthReCnt + 1 # ESEE_TURN_AUTH_RE_CNT
          /\ m_TurnAuthReCnt' = m_TurnAuthReCnt + 1
          /\ eseeStatus' = "ES_TURN_AUTH"
    /\ UNCHANGED <<timing, flags, m_HeartbeatReCnt, m_ReadyTurnReCnt, told, asked>>

SendHeartbeat ==
    /\ EndOf("ES_HEARTBEAT")
    /\ b_heartbeat' = FALSE
    /\ eseeStatus' = "ES_HEARTBEAT_ACK"
    /\ eseeDue' = FALSE
    /\ UNCHANGED <<relogin, b_turnAuth, b_turn_ready, counts, told, asked>>

\* The camera's address has changed: the case ends here, without a look at reloginTime.
HeartbeatMoved ==
    /\ EndOf("ES_HEARTBEAT_ACK")
    /\ b_heartbeat /\ m_extern = "changed"
    /\ m_extern' = "same"
    /\ eseeStatus' = "ES_TURN_AUTH"
    /\ UNCHANGED <<timing, flags, counts, m_EseePlatInfoValid, tagOnline, tagClient, asked>>

\* A mistake for comparison: the time since the login is looked at only when an
\* answer did not come.
AfterHeartbeatMissed(status, missed) ==
    /\ m_HeartbeatReCnt' = IF missed = ESEE_HEARTBEAT_RE_CNT THEN 0 ELSE missed
    /\ eseeStatus' = IF missed = ESEE_HEARTBEAT_RE_CNT \/ (relogin = "due" /\ ~b_heartbeat)
                     THEN "ES_IDLE" ELSE status
    /\ UNCHANGED <<timing, flags, m_TurnAuthReCnt, m_ReadyTurnReCnt, asked>>

\* A heartbeat that was answered, or not in time: five that were not, or ten minutes
\* since the login, end it.
AfterHeartbeat(status, missed) ==
    /\ m_HeartbeatReCnt' = IF missed = ESEE_HEARTBEAT_RE_CNT THEN 0 ELSE missed
    /\ eseeStatus' = IF missed = ESEE_HEARTBEAT_RE_CNT \/ relogin = "due"
                     THEN "ES_IDLE" ELSE status
    /\ UNCHANGED <<timing, flags, m_TurnAuthReCnt, m_ReadyTurnReCnt, asked>>

\* Until the timeout an answer changes nothing, unless it says that the camera is
\* taken to be offline; at the timeout, not even then.
HeartbeatAcked ==
    /\ EndOf("ES_HEARTBEAT_ACK")
    /\ b_heartbeat /\ m_extern # "changed"
    /\ m_extern' = "same"
    /\ AfterHeartbeat(IF eseeDue THEN "ES_HEARTBEAT" ELSE IF tagOnline THEN eseeStatus ELSE "ES_IDLE",
                      m_HeartbeatReCnt)
    /\ UNCHANGED <<m_EseePlatInfoValid, tagOnline, tagClient>>

HeartbeatMissed ==
    /\ EndOf("ES_HEARTBEAT_ACK")
    /\ ~b_heartbeat /\ eseeDue
    /\ AfterHeartbeat("ES_HEARTBEAT", Counted(m_HeartbeatReCnt, ESEE_HEARTBEAT_RE_CNT))
    /\ UNCHANGED told

HeartbeatAwaited ==
    /\ EndOf("ES_HEARTBEAT_ACK")
    /\ ~b_heartbeat /\ ~eseeDue
    /\ eseeStatus' = IF relogin = "due" THEN "ES_IDLE" ELSE eseeStatus
    /\ UNCHANGED <<timing, flags, counts, told, asked>>

\* WriteProtocol fills a request in from TagTable, whatever has been put there since.
PassOn(status) ==
    /\ IF fate = "waiting" /\ request.status = status
       THEN fate' = IF request.client = tagClient THEN "passed on" ELSE "misnamed"
       ELSE UNCHANGED fate
    /\ UNCHANGED request

SendTurnReady ==
    /\ EndOf("ES_TURNREADY")
    /\ PassOn("ES_TURNREADY")
    /\ b_turn_ready' = FALSE
    /\ eseeStatus' = "ES_TURNREADY_ACK"
    /\ eseeDue' = FALSE
    /\ UNCHANGED <<relogin, b_turnAuth, b_heartbeat, counts, told>>

TurnReadyAcked ==
    /\ EndOf("ES_TURNREADY_ACK")
    /\ b_turn_ready
    /\ eseeStatus' = "ES_HEARTBEAT"
    /\ UNCHANGED <<timing, flags, counts, told, asked>>

TurnReadyMissed ==
    /\ EndOf("ES_TURNREADY_ACK")
    /\ ~b_turn_ready /\ eseeDue
    /\ LET missed == Counted(m_ReadyTurnReCnt, ESEE_READYTURN_TIMEOUT) IN
       \/ /\ missed = ESEE_READYTURN_TIMEOUT
          /\ m_ReadyTurnReCnt' = 0
          /\ eseeStatus' = "ES_HEARTBEAT"
       \/ /\ missed # ESEE_READYTURN_TIMEOUT
          /\ m_ReadyTurnReCnt' = missed
          /\ eseeStatus' = "ES_TURNREADY"
    /\ UNCHANGED <<timing, flags, m_TurnAuthReCnt, m_HeartbeatReCnt, told, asked>>

\* The answers to a login and to a ready turn, awaited without a look at the clock
\* but for the timeout.
Awaited ==
    /\ \/ EndOf("ES_TURN_AUTH_ACK") /\ ~b_turnAuth
       \/ EndOf("ES_TURNREADY_ACK") /\ ~b_turn_ready
    /\ ~eseeDue
    /\ UNCHANGED <<eseeStatus, timing, flags, counts, told, asked>>

SendConfirm ==
    /\ EndOf("ES_CONFIRM_TRAVERSAL")
    /\ PassOn("ES_CONFIRM_TRAVERSAL")
    /\ eseeStatus' = "ES_HEARTBEAT"
    /\ UNCHANGED <<timing, flags, counts, told>>

EseeThread ==
    \/ Poll \/ Idle \/ SendAuth \/ AuthAcked \/ AuthMissed
    \/ SendHeartbeat \/ HeartbeatMoved \/ HeartbeatAcked \/ HeartbeatMissed \/ HeartbeatAwaited
    \/ SendTurnReady \/ TurnReadyAcked \/ TurnReadyMissed \/ Awaited \/ SendConfirm

----------------------------------------------------------------------------
\* The clock, and GetEseePlatInfo the first time.
EseeTimeout ==
    /\ {eseeStatus, eseeAt} \cap Waiting # {} /\ ~eseeDue
    /\ eseeDue' = TRUE
    /\ UNCHANGED <<eseeStatus, eseeAt, relogin, flags, counts, told, asked>>

ReloginTime ==
    /\ relogin = "counting"
    /\ relogin' = "due"
    /\ UNCHANGED <<eseeStatus, eseeAt, eseeDue, flags, counts, told, asked>>

GetEseePlatInfo ==
    /\ ~m_EseePlatInfoValid
    /\ m_EseePlatInfoValid' = TRUE
    /\ UNCHANGED <<eseeStatus, eseeAt, timing, flags, counts, m_extern, tagOnline, tagClient,
                   asked>>

----------------------------------------------------------------------------
\* EseeDataProc, in the listener.  Answers may be late, and may come more than once;
\* one that comes when none is awaited, and is forgotten with the next request, is
\* left out.
Awaits(status) == status \in {eseeStatus, eseeAt}

SResponseIdentify ==
    /\ Awaits("ES_TURN_AUTH_ACK")
    /\ b_turnAuth' = TRUE
    /\ UNCHANGED <<eseeStatus, eseeAt, timing, b_heartbeat, b_turn_ready, counts, told, asked>>

SResponseHeart ==
    /\ Awaits("ES_HEARTBEAT_ACK")
    /\ b_heartbeat' = TRUE
    /\ tagOnline' \in BOOLEAN
    /\ m_extern' \in IF m_extern = "unset" THEN {"unset"} ELSE {"same", "changed"}
    /\ UNCHANGED <<eseeStatus, eseeAt, timing, b_turnAuth, b_turn_ready, counts,
                   m_EseePlatInfoValid, tagClient, asked>>

STurnAck ==
    /\ Awaits("ES_TURNREADY_ACK")
    /\ b_turn_ready' = TRUE
    /\ UNCHANGED <<eseeStatus, eseeAt, timing, b_turnAuth, b_heartbeat, counts, told, asked>>

\* Parse puts the client of a message into TagTable, over any that a request waits with.
NameClient(c) ==
    /\ tagClient' = c
    /\ UNCHANGED <<eseeAt, timing, flags, counts, m_EseePlatInfoValid, m_extern, tagOnline>>

\* A request that comes while the thread is in a case, or on top of another, races.
Ask(status) ==
    /\ eseeStatus' = status
    /\ request' = [status |-> status, client |-> tagClient']
    /\ fate' = IF eseeAt = "poll" /\ fate # "waiting" THEN "waiting" ELSE "raced"

\* A mistake for comparison: a thread that awaits an answer is not disturbed.
STraversalReqPolite(c) ==
    /\ NameClient(c)
    /\ eseeStatus' = IF eseeStatus \in Waiting THEN eseeStatus ELSE "ES_CONFIRM_TRAVERSAL"
    /\ request' = [status |-> "ES_CONFIRM_TRAVERSAL", client |-> c]
    /\ fate' = IF eseeAt = "poll" /\ fate # "waiting" THEN "waiting" ELSE "raced"

STraversalReq(c) ==
    /\ NameClient(c)
    /\ Ask("ES_CONFIRM_TRAVERSAL")

\* CHoleDevice, and the tags of SResponseTurn.
OtherClient(c) ==
    /\ NameClient(c)
    /\ fate' = IF fate = "waiting" THEN "raced" ELSE fate
    /\ UNCHANGED <<eseeStatus, request>>

\* EseeEventProc, called by TurnDataProc.
EseeEventProc ==
    /\ UNCHANGED <<eseeAt, timing, flags, counts, told>>
    /\ Ask("ES_TURNREADY")

----------------------------------------------------------------------------
EseeTypeOK ==
    /\ eseeStatus \in EseeStatuses /\ eseeAt \in EseeStatuses \cup {"poll"}
    /\ eseeDue \in BOOLEAN /\ relogin \in {"never", "counting", "due"}
    /\ b_turnAuth \in BOOLEAN /\ b_heartbeat \in BOOLEAN /\ b_turn_ready \in BOOLEAN
    /\ m_TurnAuthReCnt \in 0..ESEE_TURN_AUTH_RE_CNT - 1
    /\ m_HeartbeatReCnt \in (0..ESEE_HEARTBEAT_RE_CNT + 1) \ {ESEE_HEARTBEAT_RE_CNT}
    /\ m_ReadyTurnReCnt \in (0..ESEE_READYTURN_TIMEOUT + 1) \ {ESEE_READYTURN_TIMEOUT}
    /\ m_EseePlatInfoValid \in BOOLEAN
    /\ m_extern \in {"unset", "same", "changed"}
    /\ tagOnline \in BOOLEAN /\ tagClient \in Clients \cup {NoClient}
    /\ request \in [status : PassedOn \cup {"none"}, client : Clients \cup {NoClient}]
    /\ fate \in {"none", "waiting", "raced", "passed on", "misnamed"}
=============================================================================
