------------------------- MODULE RelayClientsProofs -------------------------
(***************************************************************************)
(* Proofs about the clients of the platform and of the turn server, for    *)
(* any numbers of attempts and orders, and requests without end.           *)
(***************************************************************************)
EXTENDS RelayClients, TLAPS

\* What an order that did not race has brought about: the status it wrote is still
\* there, before TurnThread has looked or while it is about to send the request, or the
\* request has been sent to the server of the order.
OrderInv ==
    orderRaced \/ orderAt = "status" \/ registered = turnServer
        \/ (turnStatus = "TS_TURNREQ" /\ turnAt \in {"poll", "req"})

----------------------------------------------------------------------------
\* The parts of the platform client's types.
ControlOK ==
    /\ eseeStatus \in EseeStatuses /\ eseeAt \in EseeStatuses \cup {"poll"}
TimingOK == eseeDue \in BOOLEAN /\ relogin \in {"never", "counting", "due"}
FlagsOK == b_turnAuth \in BOOLEAN /\ b_heartbeat \in BOOLEAN /\ b_turn_ready \in BOOLEAN
CountsOK ==
    /\ m_TurnAuthReCnt \in 0..ESEE_TURN_AUTH_RE_CNT - 1
    /\ m_HeartbeatReCnt \in (0..ESEE_HEARTBEAT_RE_CNT + 1) \ {ESEE_HEARTBEAT_RE_CNT}
    /\ m_ReadyTurnReCnt \in (0..ESEE_READYTURN_TIMEOUT + 1) \ {ESEE_READYTURN_TIMEOUT}
ToldOK ==
    /\ m_EseePlatInfoValid \in BOOLEAN
    /\ m_extern \in {"unset", "same", "changed"}
    /\ tagOnline \in BOOLEAN /\ tagClient \in Clients \cup {NoClient}
AskedOK ==
    /\ request \in [status : PassedOn \cup {"none"}, client : Clients \cup {NoClient}]
    /\ fate \in {"none", "waiting", "raced", "passed on", "misnamed"}

EseeParts == ControlOK /\ TimingOK /\ FlagsOK /\ CountsOK /\ ToldOK /\ AskedOK

LEMMA EseePartsType == (EseeTypeOK <=> EseeParts) /\ (EseeTypeOK' <=> EseeParts')
BY Zenon DEF EseeTypeOK, EseeParts, ControlOK, TimingOK, FlagsOK, CountsOK, ToldOK, AskedOK

\* A step that leaves a part alone.
LEMMA EseeFrames ==
    /\ TimingOK /\ UNCHANGED timing => TimingOK'
    /\ FlagsOK /\ UNCHANGED flags => FlagsOK'
    /\ CountsOK /\ UNCHANGED counts => CountsOK'
    /\ ToldOK /\ UNCHANGED told => ToldOK'
    /\ AskedOK /\ UNCHANGED asked => AskedOK'
<1>1. TimingOK /\ UNCHANGED timing => TimingOK'
  BY DEF TimingOK, timing
<1>2. FlagsOK /\ UNCHANGED flags => FlagsOK'
  BY DEF FlagsOK, flags
<1>3. CountsOK /\ UNCHANGED counts => CountsOK'
  BY DEF CountsOK, counts
<1>4. ToldOK /\ UNCHANGED told => ToldOK'
  BY DEF ToldOK, told
<1>5. AskedOK /\ UNCHANGED asked => AskedOK'
  BY DEF AskedOK, asked
<1> QED
  BY <1>1, <1>2, <1>3, <1>4, <1>5

LEMMA InitTypes == Init => TypeOK
<1>1. EseeInit => EseeTypeOK
  <2> SUFFICES ASSUME EseeInit PROVE EseeParts
    BY EseePartsType
  <2>1. ControlOK
    BY DEF EseeInit, ControlOK, EseeStatuses
  <2>2. CountsOK
    BY EseeAssumption DEF EseeInit, CountsOK
  <2>3. AskedOK
    BY DEF EseeInit, AskedOK
  <2>4. TimingOK /\ FlagsOK /\ ToldOK
    BY DEF EseeInit, TimingOK, FlagsOK, ToldOK
  <2> QED
    BY <2>1, <2>2, <2>3, <2>4 DEF EseeParts
<1>2. TurnInit => TurnTypeOK
  <2>1. TurnInit => m_retry \in 0..Beyond /\ retryRead \in 0..Beyond
    BY TurnAssumption DEF TurnInit, Beyond
  <2>2. TurnInit => turnServer \in 0..MaxOrders /\ registered \in 0..MaxOrders
    BY TurnAssumption DEF TurnInit
  <2> QED
    BY <2>1, <2>2 DEF TurnInit, TurnTypeOK, TurnStatuses, Steps
<1>3. Init => busy \in {"platform", "turn"}
  BY DEF Init
<1> QED
  BY <1>1, <1>2, <1>3 DEF Init, TypeOK

LEMMA TurnThreadTypes == TurnTypeOK /\ TurnThread => TurnTypeOK'
<1> SUFFICES ASSUME TurnTypeOK, TurnThread PROVE TurnTypeOK'
  OBVIOUS
<1> USE TurnAssumption DEF TurnTypeOK, TurnStatuses, Steps, Beyond, order
<1>1. CASE TurnPoll
  BY <1>1 DEF TurnPoll
<1>2. CASE TurnReq
  BY <1>2 DEF TurnReq
<1>3. CASE AwaitTurn
  BY <1>3 DEF AwaitTurn
<1>4. CASE TurnTimedOut
  BY <1>4 DEF TurnTimedOut
<1>5. CASE ReadRetry
  BY <1>5 DEF ReadRetry
<1>6. CASE WriteRetry
  BY <1>6 DEF WriteRetry
<1>7. CASE CheckLogin
  BY <1>7 DEF CheckLogin
<1>8. CASE CheckTries
  BY <1>8 DEF CheckTries
<1> QED
  BY <1>1, <1>2, <1>3, <1>4, <1>5, <1>6, <1>7, <1>8 DEF TurnThread

LEMMA TurnListenerTypes ==
    ASSUME TurnTypeOK, NameServer \/ OrderReq \/ ClearRetry \/ SD_Client_Cs \/ TurnTimeout
    PROVE  TurnTypeOK'
<1> USE TurnAssumption DEF TurnTypeOK, TurnStatuses, Steps, Beyond, order
<1>1. CASE NameServer
  BY <1>1 DEF NameServer
<1>2. CASE OrderReq
  BY <1>2 DEF OrderReq
<1>3. CASE ClearRetry
  BY <1>3 DEF ClearRetry
<1>4. CASE SD_Client_Cs
  BY <1>4 DEF SD_Client_Cs
<1>5. CASE TurnTimeout
  BY <1>5 DEF TurnTimeout
<1> QED
  BY <1>1, <1>2, <1>3, <1>4, <1>5

----------------------------------------------------------------------------
LEMMA EseeThreadTypes == EseeTypeOK /\ EseeThread => EseeTypeOK'
<1>1. EseeTypeOK /\ Poll => EseeTypeOK'
  <2> SUFFICES ASSUME EseeParts, Poll PROVE EseeParts'
    BY EseePartsType
  <2>1. ControlOK'
    BY DEF EseeParts, ControlOK, EseeStatuses, Waiting, PassedOn, Poll
  <2>2. TimingOK' /\ FlagsOK' /\ CountsOK' /\ ToldOK' /\ AskedOK'
    BY EseeFrames DEF EseeParts, Poll
  <2> QED
    BY <2>1, <2>2 DEF EseeParts
<1>2. EseeTypeOK /\ Idle => EseeTypeOK'
  <2> SUFFICES ASSUME EseeParts, Idle PROVE EseeParts'
    BY EseePartsType
  <2>1. ControlOK'
    BY DEF EseeParts, ControlOK, EseeStatuses, Waiting, PassedOn, Idle, EndOf
  <2>2. TimingOK' /\ FlagsOK' /\ ToldOK' /\ AskedOK'
    BY EseeFrames DEF EseeParts, Idle, EndOf
  <2>3. CountsOK'
    BY EseeAssumption DEF EseeParts, CountsOK, Idle, EndOf
  <2> QED
    BY <2>1, <2>2, <2>3 DEF EseeParts
<1>3. EseeTypeOK /\ SendAuth => EseeTypeOK'
  <2> SUFFICES ASSUME EseeParts, SendAuth PROVE EseeParts'
    BY EseePartsType
  <2>1. ControlOK'
    BY DEF EseeParts, ControlOK, EseeStatuses, Waiting, PassedOn, SendAuth, EndOf
  <2>2. CountsOK' /\ ToldOK' /\ AskedOK'
    BY EseeFrames DEF EseeParts, SendAuth, EndOf
  <2>3. TimingOK'
    BY DEF EseeParts, TimingOK, SendAuth, EndOf
  <2>4. FlagsOK'
    BY DEF EseeParts, FlagsOK, SendAuth, EndOf
  <2> QED
    BY <2>1, <2>2, <2>3, <2>4 DEF EseeParts
<1>4. EseeTypeOK /\ AuthAcked => EseeTypeOK'
  <2> SUFFICES ASSUME EseeParts, AuthAcked PROVE EseeParts'
    BY EseePartsType
  <2>1. ControlOK'
    BY DEF EseeParts, ControlOK, EseeStatuses, Waiting, PassedOn, AuthAcked, EndOf
  <2>2. FlagsOK' /\ ToldOK' /\ AskedOK'
    BY EseeFrames DEF EseeParts, AuthAcked, EndOf
  <2>3. TimingOK'
    BY DEF EseeParts, TimingOK, AuthAcked, EndOf
  <2>4. CountsOK'
    BY EseeAssumption DEF EseeParts, CountsOK, AuthAcked, EndOf
  <2> QED
    BY <2>1, <2>2, <2>3, <2>4 DEF EseeParts
<1>5. EseeTypeOK /\ AuthMissed => EseeTypeOK'
  <2> SUFFICES ASSUME EseeParts, AuthMissed PROVE EseeParts'
    BY EseePartsType
  <2>1. ControlOK'
    BY DEF EseeParts, ControlOK, EseeStatuses, Waiting, PassedOn, AuthMissed, EndOf
  <2>2. TimingOK' /\ FlagsOK' /\ ToldOK' /\ AskedOK'
    BY EseeFrames DEF EseeParts, AuthMissed, EndOf
  <2>3. CountsOK'
    BY EseeAssumption DEF EseeParts, CountsOK, AuthMissed, EndOf
  <2> QED
    BY <2>1, <2>2, <2>3 DEF EseeParts
<1>6. EseeTypeOK /\ SendHeartbeat => EseeTypeOK'
  <2> SUFFICES ASSUME EseeParts, SendHeartbeat PROVE EseeParts'
    BY EseePartsType
  <2>1. ControlOK'
    BY DEF EseeParts, ControlOK, EseeStatuses, Waiting, PassedOn, SendHeartbeat, EndOf
  <2>2. CountsOK' /\ ToldOK' /\ AskedOK'
    BY EseeFrames DEF EseeParts, SendHeartbeat, EndOf
  <2>3. TimingOK'
    BY DEF EseeParts, TimingOK, SendHeartbeat, EndOf
  <2>4. FlagsOK'
    BY DEF EseeParts, FlagsOK, SendHeartbeat, EndOf
  <2> QED
    BY <2>1, <2>2, <2>3, <2>4 DEF EseeParts
<1>7. EseeTypeOK /\ HeartbeatMoved => EseeTypeOK'
  <2> SUFFICES ASSUME EseeParts, HeartbeatMoved PROVE EseeParts'
    BY EseePartsType
  <2>1. ControlOK'
    BY DEF EseeParts, ControlOK, EseeStatuses, Waiting, PassedOn, HeartbeatMoved, EndOf
  <2>2. TimingOK' /\ FlagsOK' /\ CountsOK' /\ AskedOK'
    BY EseeFrames DEF EseeParts, HeartbeatMoved, EndOf
  <2>3. ToldOK'
    BY DEF EseeParts, ToldOK, HeartbeatMoved, EndOf
  <2> QED
    BY <2>1, <2>2, <2>3 DEF EseeParts
<1>8. EseeTypeOK /\ HeartbeatAcked => EseeTypeOK'
  <2> SUFFICES ASSUME EseeParts, HeartbeatAcked PROVE EseeParts'
    BY EseePartsType
  <2>1. ControlOK'
    BY DEF EseeParts, ControlOK, EseeStatuses, Waiting, PassedOn, HeartbeatAcked, AfterHeartbeat, EndOf
  <2>2. TimingOK' /\ FlagsOK' /\ AskedOK'
    BY EseeFrames DEF EseeParts, HeartbeatAcked, AfterHeartbeat, EndOf
  <2>3. CountsOK'
    BY EseeAssumption DEF EseeParts, CountsOK, HeartbeatAcked, AfterHeartbeat, EndOf
  <2>4. ToldOK'
    BY DEF EseeParts, ToldOK, HeartbeatAcked, AfterHeartbeat, EndOf
  <2> QED
    BY <2>1, <2>2, <2>3, <2>4 DEF EseeParts
<1>9. EseeTypeOK /\ HeartbeatMissed => EseeTypeOK'
  <2> SUFFICES ASSUME EseeParts, HeartbeatMissed PROVE EseeParts'
    BY EseePartsType
  <2>1. ControlOK'
    BY DEF EseeParts, ControlOK, EseeStatuses, Waiting, PassedOn, HeartbeatMissed, AfterHeartbeat, Counted, EndOf
  <2>2. TimingOK' /\ FlagsOK' /\ ToldOK' /\ AskedOK'
    BY EseeFrames DEF EseeParts, HeartbeatMissed, AfterHeartbeat, EndOf
  <2>3. CountsOK'
    BY EseeAssumption DEF EseeParts, CountsOK, HeartbeatMissed, AfterHeartbeat, Counted, EndOf
  <2> QED
    BY <2>1, <2>2, <2>3 DEF EseeParts
<1>10. EseeTypeOK /\ HeartbeatAwaited => EseeTypeOK'
  <2> SUFFICES ASSUME EseeParts, HeartbeatAwaited PROVE EseeParts'
    BY EseePartsType
  <2>1. ControlOK'
    BY DEF EseeParts, ControlOK, EseeStatuses, Waiting, PassedOn, HeartbeatAwaited, EndOf
  <2>2. TimingOK' /\ FlagsOK' /\ CountsOK' /\ ToldOK' /\ AskedOK'
    BY EseeFrames DEF EseeParts, HeartbeatAwaited, EndOf
  <2> QED
    BY <2>1, <2>2 DEF EseeParts
<1>11. EseeTypeOK /\ SendTurnReady => EseeTypeOK'
  <2> SUFFICES ASSUME EseeParts, SendTurnReady PROVE EseeParts'
    BY EseePartsType
  <2>1. ControlOK'
    BY DEF EseeParts, ControlOK, EseeStatuses, Waiting, PassedOn, SendTurnReady, PassOn, EndOf
  <2>2. CountsOK' /\ ToldOK'
    BY EseeFrames DEF EseeParts, SendTurnReady, PassOn, EndOf
  <2>3. TimingOK'
    BY DEF EseeParts, TimingOK, SendTurnReady, PassOn, EndOf
  <2>4. FlagsOK'
    BY DEF EseeParts, FlagsOK, SendTurnReady, PassOn, EndOf
  <2>5. AskedOK'
    BY DEF EseeParts, AskedOK, PassedOn, SendTurnReady, PassOn, EndOf
  <2> QED
    BY <2>1, <2>2, <2>3, <2>4, <2>5 DEF EseeParts
<1>12. EseeTypeOK /\ TurnReadyAcked => EseeTypeOK'
  <2> SUFFICES ASSUME EseeParts, TurnReadyAcked PROVE EseeParts'
    BY EseePartsType
  <2>1. ControlOK'
    BY DEF EseeParts, ControlOK, EseeStatuses, Waiting, PassedOn, TurnReadyAcked, EndOf
  <2>2. TimingOK' /\ FlagsOK' /\ CountsOK' /\ ToldOK' /\ AskedOK'
    BY EseeFrames DEF EseeParts, TurnReadyAcked, EndOf
  <2> QED
    BY <2>1, <2>2 DEF EseeParts
<1>13. EseeTypeOK /\ TurnReadyMissed => EseeTypeOK'
  <2> SUFFICES ASSUME EseeParts, TurnReadyMissed PROVE EseeParts'
    BY EseePartsType
  <2>1. ControlOK'
    BY DEF EseeParts, ControlOK, EseeStatuses, Waiting, PassedOn, TurnReadyMissed, Counted, EndOf
  <2>2. TimingOK' /\ FlagsOK' /\ ToldOK' /\ AskedOK'
    BY EseeFrames DEF EseeParts, TurnReadyMissed, Counted, EndOf
  <2>3. CountsOK'
    BY EseeAssumption DEF EseeParts, CountsOK, TurnReadyMissed, Counted, EndOf
  <2> QED
    BY <2>1, <2>2, <2>3 DEF EseeParts
<1>14. EseeTypeOK /\ Awaited => EseeTypeOK'
  <2> SUFFICES ASSUME EseeParts, Awaited PROVE EseeParts'
    BY EseePartsType
  <2>1. ControlOK'
    BY DEF EseeParts, ControlOK, EseeStatuses, Waiting, PassedOn, Awaited, EndOf
  <2>2. TimingOK' /\ FlagsOK' /\ CountsOK' /\ ToldOK' /\ AskedOK'
    BY EseeFrames DEF EseeParts, Awaited, EndOf
  <2> QED
    BY <2>1, <2>2 DEF EseeParts
<1>15. EseeTypeOK /\ SendConfirm => EseeTypeOK'
  <2> SUFFICES ASSUME EseeParts, SendConfirm PROVE EseeParts'
    BY EseePartsType
  <2>1. ControlOK'
    BY DEF EseeParts, ControlOK, EseeStatuses, Waiting, PassedOn, SendConfirm, PassOn, EndOf
  <2>2. TimingOK' /\ FlagsOK' /\ CountsOK' /\ ToldOK'
    BY EseeFrames DEF EseeParts, SendConfirm, PassOn, EndOf
  <2>3. AskedOK'
    BY DEF EseeParts, AskedOK, PassedOn, SendConfirm, PassOn, EndOf
  <2> QED
    BY <2>1, <2>2, <2>3 DEF EseeParts
<1> QED
  BY <1>1, <1>2, <1>3, <1>4, <1>5, <1>6, <1>7, <1>8, <1>9, <1>10, <1>11, <1>12, <1>13,
     <1>14, <1>15 DEF EseeThread

LEMMA EseeListenerTypes ==
    ASSUME EseeTypeOK,
           \/ SResponseIdentify \/ SResponseHeart \/ STurnAck \/ EseeEventProc
           \/ \E c \in Clients : STraversalReq(c) \/ OtherClient(c)
           \/ EseeTimeout \/ ReloginTime \/ GetEseePlatInfo
    PROVE  EseeTypeOK'
<1>1. EseeTypeOK /\ SResponseIdentify => EseeTypeOK'
  <2> SUFFICES ASSUME EseeParts, SResponseIdentify PROVE EseeParts'
    BY EseePartsType
  <2>1. ControlOK'
    BY DEF EseeParts, ControlOK, EseeStatuses, Waiting, PassedOn, SResponseIdentify
  <2>2. TimingOK' /\ CountsOK' /\ ToldOK' /\ AskedOK'
    BY EseeFrames DEF EseeParts, SResponseIdentify
  <2>3. FlagsOK'
    BY DEF EseeParts, FlagsOK, SResponseIdentify
  <2> QED
    BY <2>1, <2>2, <2>3 DEF EseeParts
<1>2. EseeTypeOK /\ SResponseHeart => EseeTypeOK'
  <2> SUFFICES ASSUME EseeParts, SResponseHeart PROVE EseeParts'
    BY EseePartsType
  <2>1. ControlOK'
    BY DEF EseeParts, ControlOK, EseeStatuses, Waiting, PassedOn, SResponseHeart
  <2>2. TimingOK' /\ CountsOK' /\ AskedOK'
    BY EseeFrames DEF EseeParts, SResponseHeart
  <2>3. FlagsOK'
    BY DEF EseeParts, FlagsOK, SResponseHeart
  <2>4. ToldOK'
    BY DEF EseeParts, ToldOK, SResponseHeart
  <2> QED
    BY <2>1, <2>2, <2>3, <2>4 DEF EseeParts
<1>3. EseeTypeOK /\ STurnAck => EseeTypeOK'
  <2> SUFFICES ASSUME EseeParts, STurnAck PROVE EseeParts'
    BY EseePartsType
  <2>1. ControlOK'
    BY DEF EseeParts, ControlOK, EseeStatuses, Waiting, PassedOn, STurnAck
  <2>2. TimingOK' /\ CountsOK' /\ ToldOK' /\ AskedOK'
    BY EseeFrames DEF EseeParts, STurnAck
  <2>3. FlagsOK'
    BY DEF EseeParts, FlagsOK, STurnAck
  <2> QED
    BY <2>1, <2>2, <2>3 DEF EseeParts
<1>4. EseeTypeOK /\ EseeEventProc => EseeTypeOK'
  <2> SUFFICES ASSUME EseeParts, EseeEventProc PROVE EseeParts'
    BY EseePartsType
  <2>1. ControlOK'
    BY DEF EseeParts, ControlOK, EseeStatuses, Waiting, PassedOn, EseeEventProc, Ask
  <2>2. TimingOK' /\ FlagsOK' /\ CountsOK' /\ ToldOK'
    BY EseeFrames DEF EseeParts, EseeEventProc
  <2>3. AskedOK'
    BY <2>2 DEF EseeParts, ToldOK, AskedOK, PassedOn, EseeEventProc, Ask
  <2> QED
    BY <2>1, <2>2, <2>3 DEF EseeParts
<1>5. ASSUME EseeTypeOK, NEW c \in Clients, STraversalReq(c) PROVE EseeTypeOK'
  <2> SUFFICES ASSUME EseeParts PROVE EseeParts'
    BY <1>5, EseePartsType
  <2>1. ControlOK'
    BY <1>5 DEF EseeParts, ControlOK, EseeStatuses, Waiting, PassedOn, STraversalReq, NameClient, Ask
  <2>2. TimingOK' /\ FlagsOK' /\ CountsOK'
    BY <1>5, EseeFrames DEF EseeParts, STraversalReq, NameClient
  <2>3. ToldOK'
    BY <1>5 DEF EseeParts, ToldOK, STraversalReq, NameClient
  <2>4. AskedOK'
    BY <1>5, <2>3 DEF EseeParts, ToldOK, AskedOK, PassedOn, STraversalReq, Ask
  <2> QED
    BY <2>1, <2>2, <2>3, <2>4 DEF EseeParts
<1>6. ASSUME EseeTypeOK, NEW c \in Clients, OtherClient(c) PROVE EseeTypeOK'
  <2> SUFFICES ASSUME EseeParts PROVE EseeParts'
    BY <1>6, EseePartsType
  <2>1. ControlOK'
    BY <1>6 DEF EseeParts, ControlOK, OtherClient, NameClient
  <2>2. TimingOK' /\ FlagsOK' /\ CountsOK'
    BY <1>6, EseeFrames DEF EseeParts, OtherClient, NameClient
  <2>3. ToldOK'
    BY <1>6 DEF EseeParts, ToldOK, OtherClient, NameClient
  <2>4. AskedOK'
    BY <1>6 DEF EseeParts, AskedOK, OtherClient
  <2> QED
    BY <2>1, <2>2, <2>3, <2>4 DEF EseeParts
<1>7. EseeTypeOK /\ (EseeTimeout \/ ReloginTime) => EseeTypeOK'
  <2> SUFFICES ASSUME EseeParts, (EseeTimeout \/ ReloginTime) PROVE EseeParts'
    BY EseePartsType
  <2>1. ControlOK'
    BY DEF EseeParts, ControlOK, EseeStatuses, Waiting, PassedOn, EseeTimeout, ReloginTime
  <2>2. FlagsOK' /\ CountsOK' /\ ToldOK' /\ AskedOK'
    BY EseeFrames DEF EseeParts, EseeTimeout, ReloginTime
  <2>3. TimingOK'
    BY DEF EseeParts, TimingOK, EseeTimeout, ReloginTime
  <2> QED
    BY <2>1, <2>2, <2>3 DEF EseeParts
<1>8. EseeTypeOK /\ GetEseePlatInfo => EseeTypeOK'
  <2> SUFFICES ASSUME EseeParts, GetEseePlatInfo PROVE EseeParts'
    BY EseePartsType
  <2>1. ControlOK'
    BY DEF EseeParts, ControlOK, EseeStatuses, Waiting, PassedOn, GetEseePlatInfo
  <2>2. TimingOK' /\ FlagsOK' /\ CountsOK' /\ AskedOK'
    BY EseeFrames DEF EseeParts, GetEseePlatInfo
  <2>3. ToldOK'
    BY DEF EseeParts, ToldOK, GetEseePlatInfo
  <2> QED
    BY <2>1, <2>2, <2>3 DEF EseeParts
<1> QED
  BY <1>1, <1>2, <1>3, <1>4, <1>5, <1>6, <1>7, <1>8

\* A step that leaves a client alone.
LEMMA EseeAlone == EseeTypeOK /\ UNCHANGED eseeVars => EseeTypeOK'
<1> SUFFICES ASSUME EseeParts, UNCHANGED eseeVars PROVE EseeParts'
  BY EseePartsType
<1>1. ControlOK'
  BY DEF EseeParts, ControlOK, eseeVars
<1>2. TimingOK' /\ FlagsOK' /\ CountsOK' /\ ToldOK' /\ AskedOK'
  BY EseeFrames DEF EseeParts, eseeVars
<1> QED
  BY <1>1, <1>2 DEF EseeParts

LEMMA TurnAlone == TurnTypeOK /\ UNCHANGED turnVars => TurnTypeOK'
BY DEF TurnTypeOK, turnVars

LEMMA NextTypes == TypeOK /\ [Next]_vars => TypeOK'
<1> SUFFICES ASSUME TypeOK, [Next]_vars PROVE TypeOK'
  OBVIOUS
<1>0. EseeTypeOK /\ TurnTypeOK
  BY DEF TypeOK
<1>1. EseeTypeOK'
  BY <1>0, EseeAlone, EseeThreadTypes, EseeListenerTypes
     DEF Next, vars, Platform, FindPlatform, Registrar, Clock, Listener, Answer, TraversalReq,
         HoleDevice, SResponseTurn, TurnEventProc, ClientCs, ClientUnknown
<1>2. TurnTypeOK'
  BY <1>0, TurnAlone, TurnThreadTypes, TurnListenerTypes
     DEF Next, vars, Platform, FindPlatform, Registrar, Clock, Listener, Answer, TraversalReq,
         HoleDevice, SResponseTurn, TurnEventProc, ClientCs, ClientUnknown
<1>3. busy' \in {"platform", "turn"}
  BY DEF TypeOK, Next, vars, Platform, FindPlatform, Registrar, Clock, Listener, Answer,
         TraversalReq, HoleDevice, SResponseTurn, TurnEventProc, ClientCs, ClientUnknown
<1> QED
  BY <1>1, <1>2, <1>3 DEF TypeOK

\* The states of both clients, the counters strictly below the limits they are compared
\* with or, from uninitialised memory, beyond them, never at them between two steps.
THEOREM TypeCorrect == Spec => []TypeOK
BY InitTypes, NextTypes, PTL DEF Spec

----------------------------------------------------------------------------
LEMMA OrderInit == Init => OrderInv
BY DEF Init, TurnInit, OrderInv

\* TurnThread takes up the order, or has nothing to lose.
LEMMA OrderThread == TurnTypeOK /\ OrderInv /\ TurnThread => OrderInv'
<1> SUFFICES ASSUME TurnTypeOK, OrderInv, TurnThread PROVE OrderInv'
  OBVIOUS
<1>1. orderRaced' = orderRaced /\ orderAt' = orderAt /\ turnServer' = turnServer
  BY DEF TurnThread, TurnPoll, TurnReq, AwaitTurn, TurnTimedOut, ReadRetry, WriteRetry,
         CheckLogin, CheckTries, order
<1>2. CASE orderRaced \/ orderAt = "status"
  BY <1>1, <1>2, Zenon DEF OrderInv
<1>3. CASE registered = turnServer
  <2>1. registered' = registered \/ registered' = turnServer
    BY DEF TurnThread, TurnPoll, TurnReq, AwaitTurn, TurnTimedOut, ReadRetry, WriteRetry,
           CheckLogin, CheckTries
  <2> QED
    BY <1>1, <1>3, <2>1, Zenon DEF OrderInv
<1>4. CASE turnStatus = "TS_TURNREQ" /\ turnAt \in {"poll", "req"}
  <2>1. \/ turnStatus' = "TS_TURNREQ" /\ turnAt' = "req"
        \/ registered' = turnServer
    BY <1>4 DEF TurnThread, TurnPoll, TurnReq, AwaitTurn, TurnTimedOut, ReadRetry, WriteRetry,
                CheckLogin, CheckTries
  <2> QED
    BY <1>1, <2>1 DEF OrderInv
<1> QED
  BY <1>2, <1>3, <1>4, Zenon DEF OrderInv

\* The listener's part.
LEMMA OrderListener ==
    ASSUME TurnTypeOK, OrderInv,
           NameServer \/ OrderReq \/ ClearRetry \/ SD_Client_Cs \/ TurnTimeout
    PROVE  OrderInv'
<1>1. CASE NameServer
  <2>1. orderAt' = "status"
    BY <1>1 DEF NameServer
  <2> QED
    BY <2>1, Zenon DEF OrderInv
<1>2. CASE OrderReq
  <2>1. CASE turnAt = "poll"
    <3>1. turnStatus' = "TS_TURNREQ" /\ turnAt' = "poll"
      BY <1>2, <2>1 DEF OrderReq
    <3> QED
      BY <3>1 DEF OrderInv
  <2>2. CASE turnAt # "poll"
    <3>1. orderRaced'
      BY <1>2, <2>2, Zenon DEF OrderReq
    <3> QED
      BY <3>1, Zenon DEF OrderInv
  <2> QED
    BY <2>1, <2>2
<1>3. CASE ClearRetry
  <2>1. /\ orderRaced' = orderRaced /\ registered' = registered /\ turnServer' = turnServer
        /\ turnStatus' = turnStatus /\ turnAt' = turnAt
        /\ orderAt # "status"
    BY <1>3 DEF ClearRetry
  <2> QED
    BY <2>1, Zenon DEF OrderInv
<1>4. CASE SD_Client_Cs \/ TurnTimeout
  <2>1. /\ orderRaced' = orderRaced /\ registered' = registered /\ turnServer' = turnServer
        /\ turnStatus' = turnStatus /\ turnAt' = turnAt /\ orderAt' = orderAt
    BY <1>4 DEF SD_Client_Cs, TurnTimeout, order
  <2> QED
    BY <2>1, Zenon DEF OrderInv
<1> QED
  BY <1>1, <1>2, <1>3, <1>4

LEMMA OrderAlone == OrderInv /\ UNCHANGED turnVars => OrderInv'
<1> SUFFICES ASSUME OrderInv, UNCHANGED turnVars PROVE OrderInv'
  OBVIOUS
<1>1. /\ orderRaced' = orderRaced /\ registered' = registered /\ turnServer' = turnServer
      /\ turnStatus' = turnStatus /\ turnAt' = turnAt /\ orderAt' = orderAt
  BY DEF turnVars
<1> QED
  BY <1>1, Zenon DEF OrderInv

LEMMA OrderNext == TypeOK /\ OrderInv /\ [Next]_vars => OrderInv'
<1> SUFFICES ASSUME TypeOK, OrderInv, [Next]_vars PROVE OrderInv'
  OBVIOUS
<1> QED
  BY OrderAlone, OrderThread, OrderListener
     DEF TypeOK, Next, vars, Platform, FindPlatform, Registrar, Clock, Listener, Answer,
         TraversalReq, HoleDevice, SResponseTurn, TurnEventProc, ClientCs, ClientUnknown

\* With any number of attempts and orders: a camera that believes itself registered is
\* so with the server it sends to, unless the last order met TurnThread inside a case.
THEOREM RegisteredWhereItSends == Spec => []RunsAsRegistered
<1>1. OrderInv => RunsAsRegistered
  BY Zenon DEF OrderInv, RunsAsRegistered
<1> QED
  BY <1>1, InitTypes, NextTypes, OrderInit, OrderNext, PTL DEF Spec
=============================================================================
