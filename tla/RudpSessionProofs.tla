------------------------- MODULE RudpSessionProofs -------------------------
(***************************************************************************)
(* Proofs about the life of a rudp session, for any number of stream       *)
(* threads: that its memory is freed under no stream thread and under no   *)
(* request, and that a wanted stream is served.                            *)
(***************************************************************************)
EXTENDS RudpSession, TLAPS

\* The stream threads that still need the session, the last assignment apart.
Using == Serving \cup {"exit"}

\* As long as starts do not overlap there is one stream thread at most, and none
\* while the listener is about to create one.
OneStream ==
    ~overlap =>
        /\ \A m, n \in Streams : stream[m] # "none" /\ stream[n] # "none" => m = n
        /\ listener \in {"reset", "create"} => \A n \in Streams : stream[n] = "none"

\* The flags that keep the session from being finished under a thread.
FlagsHold ==
    ~overlap =>
        /\ listener = "create" => canBeFree = 0
        /\ \A n \in Streams :
              stream[n] \in Using =>
                  canBeFree = 0 /\ (listener # "flag" => started = 1)

\* A datagram is handled only on a session that is neither quit nor freed.
NotQuitUnder == ~late /\ listener \in Handling => ~timeout /\ ~freed

FreedWasQuit == freed => timeout

FreeInv ==
    /\ TypeOK
    /\ OneStream
    /\ FlagsHold
    /\ NotQuitUnder
    /\ FreedWasQuit
    /\ FreedIsUnused

ServedInv ==
    status = 1 /\ listener \notin {"reset", "create"} /\ failed = {} =>
        \E n \in Streams : stream[n] \in Serving

----------------------------------------------------------------------------
LEMMA TypeInit == Init => TypeOK
BY DEF Init, TypeOK

\* The Boolean part of the types, and the rest.
Truths ==
    /\ timeout \in BOOLEAN /\ recv \in BOOLEAN /\ heard \in BOOLEAN /\ recvOld \in BOOLEAN
    /\ freed \in BOOLEAN
    /\ overlap \in BOOLEAN /\ late \in BOOLEAN /\ revived \in BOOLEAN

Places ==
    /\ status \in {0, 1} /\ canBeFree \in {0, 1} /\ started \in {0, 1}
    /\ listener \in {"idle", "closing"} \cup Handling
    /\ after \in {"idle", "open"}
    /\ timer \in {"asleep", "scan", "overdue", "closing"}
    /\ stream \in [Streams -> {"none", "exit", "ending"} \cup Serving]

Failures == failed \subseteq {"thread", "media"}

LEMMA TruthsNext == Truths /\ [Next]_vars => Truths'
<1> SUFFICES ASSUME Truths, [Next]_vars PROVE Truths'
  OBVIOUS
<1> USE DEF Truths, session, flags, thread, history
<1>1. CASE Request
  BY <1>1, Zenon DEF Request, Heartbeat, Datagram, CloseReq
<1>2. CASE Assemble
  <2>1. recvOld' \in BOOLEAN
    <3>1. recvOld' \in {FALSE, recvOld /\ recv'}
      BY <1>2, Zenon DEF Assemble
    <3> QED
      BY <3>1, Zenon
  <2> QED
    BY <1>2, <2>1, Zenon DEF Assemble
<1>3. CASE StartReq
  BY <1>3, Zenon DEF StartReq
<1>4. CASE \/ StillThere \/ RequestIsWhole \/ IsWanted \/ ResetCanBeFree \/ CreateThread
           \/ CreateFails \/ SetStarted \/ StopReq \/ Closed
  BY <1>4, Zenon DEF StillThere, RequestIsWhole, IsWanted, ResetCanBeFree, CreateThread,
                     CreateFails, SetStarted, StopReq, Closed
<1>5. CASE \E n \in Streams : StreamThread(n)
  BY <1>5, Zenon DEF StreamThread, Attach, NoMedia, SendFrame, Sent, Unwanted, SetCanBeFree,
                     Terminate
<1>6. CASE Silence \/ RecvAges
  BY <1>6, Zenon DEF Silence, RecvAges
<1>7. CASE Timer
  BY <1>7, Zenon DEF Timer, Wake, FreeRecv, FreeSession, Pass, Overdue, TimerQuit, TimerClosed
<1>8. CASE UNCHANGED vars
  BY <1>8, Zenon DEF vars
<1> QED
  BY <1>1, <1>2, <1>3, <1>4, <1>5, <1>6, <1>7, <1>8 DEF Next, Handler

LEMMA PlacesNext == Places /\ [Next]_vars => Places'
<1> SUFFICES ASSUME Places, [Next]_vars PROVE Places'
  OBVIOUS
<1> USE DEF Places, session, flags, thread, Handling, Starting, Serving
<1>1. CASE Request
  BY <1>1 DEF Request, Datagram, Heartbeat, CloseReq
<1>2. CASE Handler
  <2>1. CASE StillThere \/ Assemble \/ RequestIsWhole \/ IsWanted
    BY <2>1 DEF StillThere, Assemble, RequestIsWhole, IsWanted
  <2>2. CASE StartReq \/ ResetCanBeFree \/ CreateThread \/ CreateFails \/ SetStarted
    BY <2>2 DEF StartReq, ResetCanBeFree, CreateThread, CreateFails, SetStarted, Alive
  <2>3. CASE StopReq \/ Closed
    BY <2>3 DEF StopReq, Closed
  <2> QED
    BY <1>2, <2>1, <2>2, <2>3 DEF Handler
<1>3. CASE \E n \in Streams : StreamThread(n)
  BY <1>3 DEF StreamThread, Attach, NoMedia, SendFrame, Sent, Unwanted, SetCanBeFree, Terminate
<1>4. CASE Silence \/ RecvAges
  BY <1>4 DEF Silence, RecvAges
<1>5. CASE Timer
  BY <1>5 DEF Timer, Wake, FreeRecv, FreeSession, Pass, Overdue, TimerQuit, TimerClosed
<1>6. CASE UNCHANGED vars
  BY <1>6 DEF vars
<1> QED
  BY <1>1, <1>2, <1>3, <1>4, <1>5, <1>6 DEF Next

LEMMA FailuresNext == Failures /\ [Next]_vars => Failures'
<1> SUFFICES ASSUME Failures, [Next]_vars PROVE Failures'
  OBVIOUS
<1> USE DEF Failures, history
<1>1. CASE CreateFails
  BY <1>1 DEF CreateFails
<1>2. CASE \E n \in Streams : NoMedia(n)
  BY <1>2 DEF NoMedia
<1>3. CASE UNCHANGED failed
  BY <1>3
<1> QED
  BY <1>1, <1>2, <1>3 DEF Next, Request, Datagram, Heartbeat, CloseReq,
     Handler, StillThere, Assemble, RequestIsWhole, IsWanted, StartReq, ResetCanBeFree,
     CreateThread, SetStarted, StopReq, Closed,
     StreamThread, Attach, SendFrame, Sent, Unwanted, SetCanBeFree, Terminate,
     Silence, RecvAges, Timer, Wake, FreeRecv, FreeSession, Pass, Overdue, TimerQuit,
     TimerClosed, vars

LEMMA TypeNext == TypeOK /\ [Next]_vars => TypeOK'
<1>1. TypeOK <=> Truths /\ Places /\ Failures
  BY Zenon DEF TypeOK, Truths, Places, Failures
<1>2. TypeOK' <=> Truths' /\ Places' /\ Failures'
  BY Zenon DEF TypeOK, Truths, Places, Failures
<1> QED
  BY <1>1, <1>2, TruthsNext, PlacesNext, FailuresNext

\* The state keeps its types.
THEOREM TypeCorrect == Spec => []TypeOK
<1> QED
  BY TypeInit, TypeNext, PTL DEF Spec

----------------------------------------------------------------------------
LEMMA FreeInit == Init => FreeInv
BY TypeInit DEF Init, FreeInv, OneStream, FlagsHold, NotQuitUnder, FreedWasQuit, FreedIsUnused,
                Handling, Starting, Using, Serving

LEMMA FreeNext == FreeInv /\ [Next]_vars => FreeInv'
<1> SUFFICES ASSUME FreeInv, [Next]_vars PROVE FreeInv'
  OBVIOUS
<1>0. TypeOK'
  BY TypeNext DEF FreeInv
<1> USE DEF FreeInv, TypeOK, OneStream, FlagsHold, NotQuitUnder, FreedWasQuit, FreedIsUnused,
            Using, Serving, Handling, Starting, session, flags, thread, history
<1>1. CASE Request \/ Silence \/ RecvAges
  BY <1>0, <1>1 DEF Request, Datagram, Heartbeat, CloseReq, Silence, RecvAges, Found
<1>2. CASE StartReq
  BY <1>0, <1>2 DEF StartReq, Alive
<1>3. CASE Handler
  <2>0. CASE StillThere \/ Assemble \/ RequestIsWhole \/ IsWanted \/ StopReq
    BY <1>0, <2>0 DEF StillThere, Assemble, RequestIsWhole, IsWanted, StopReq
  <2>1. CASE ResetCanBeFree
    BY <1>0, <2>1 DEF ResetCanBeFree
  <2>2. CASE CreateThread
    <3>1. PICK n \in Streams : stream[n] = "none" /\ stream' = [stream EXCEPT ![n] = "begin"]
      BY <2>2 DEF CreateThread, Alive
    <3>2. \A m \in Streams \ {n} : stream'[m] = stream[m]
      BY <3>1
    <3>3. stream'[n] = "begin"
      BY <3>1
    <3> QED
      BY <1>0, <2>2, <3>2, <3>3 DEF CreateThread
  <2>3. CASE CreateFails \/ SetStarted \/ Closed
    BY <1>0, <2>3 DEF CreateFails, SetStarted, Closed
  <2> QED
    BY <1>2, <1>3, <2>0, <2>1, <2>2, <2>3 DEF Handler
<1>4. ASSUME NEW n \in Streams, StreamThread(n)
      PROVE  FreeInv'
  <2>1. CASE Attach(n) \/ SendFrame(n) \/ Sent(n) \/ Unwanted(n) \/ NoMedia(n)
    <3>1. \A m \in Streams \ {n} : stream'[m] = stream[m]
      BY <2>1 DEF Attach, SendFrame, Sent, Unwanted, NoMedia
    <3>2. stream[n] \in Using /\ stream[n] # "exit" /\ stream'[n] \in Using
      BY <2>1 DEF Attach, SendFrame, Sent, Unwanted, NoMedia
    <3>3. /\ UNCHANGED <<session, flags, thread, timer, overlap, late, revived>>
      BY <2>1 DEF Attach, SendFrame, Sent, Unwanted, NoMedia
    <3> QED
      BY <1>0, <3>1, <3>2, <3>3
  <2>2. CASE SetCanBeFree(n)
    BY <1>0, <2>2 DEF SetCanBeFree
  <2>3. CASE Terminate(n)
    BY <1>0, <2>3 DEF Terminate
  <2> QED
    BY <1>4, <2>1, <2>2, <2>3 DEF StreamThread
<1>5. CASE Timer
  <2>1. CASE FreeSession
    BY <1>0, <2>1 DEF FreeSession, Finished
  <2>2. CASE Wake \/ FreeRecv \/ Pass \/ Overdue \/ TimerQuit \/ TimerClosed
    BY <1>0, <2>2 DEF Wake, FreeRecv, Pass, Overdue, TimerQuit, TimerClosed
  <2> QED
    BY <1>5, <2>1, <2>2 DEF Timer
<1>6. CASE UNCHANGED vars
  BY <1>0, <1>6 DEF vars
<1> QED
  BY <1>1, <1>2, <1>3, <1>4, <1>5, <1>6 DEF Next

\* The timer thread frees the session under no stream thread that is in its loop
\* and under no datagram that is being handled, however the steps of the three
\* threads follow each other.
THEOREM FreedUnderNobody == Spec => []FreedIsUnused
<1>1. FreeInv => FreedIsUnused
  BY DEF FreeInv
<1> QED
  BY <1>1, FreeInit, FreeNext, PTL DEF Spec

----------------------------------------------------------------------------
LEMMA ServedNext == TypeOK /\ ServedInv /\ [Next]_vars => ServedInv'
<1> SUFFICES ASSUME TypeOK, ServedInv, [Next]_vars PROVE ServedInv'
  OBVIOUS
<1> USE DEF TypeOK, ServedInv, Serving, Starting, Handling, session, flags, thread, history
<1>1. CASE Request
  BY <1>1 DEF Request, Datagram, Heartbeat, CloseReq, Found
<1>2. CASE CreateThread
  BY <1>2 DEF CreateThread, Alive
<1>3. CASE StartReq \/ ResetCanBeFree \/ CreateFails \/ SetStarted \/ StopReq \/ Closed
  BY <1>3 DEF StartReq, ResetCanBeFree, CreateFails, SetStarted, StopReq, Closed
<1>7. CASE StillThere \/ Assemble \/ RequestIsWhole \/ IsWanted
  BY <1>7 DEF StillThere, Assemble, RequestIsWhole, IsWanted
<1>4. ASSUME NEW n \in Streams, StreamThread(n)
      PROVE  ServedInv'
  <2>1. CASE Attach(n) \/ SendFrame(n) \/ Sent(n)
    <3>1. stream'[n] \in Serving
      BY <2>1 DEF Attach, SendFrame, Sent
    <3> QED
      BY <3>1
  <2>2. CASE NoMedia(n)
    BY <2>2 DEF NoMedia
  <2>3. CASE Unwanted(n)
    BY <2>3 DEF Unwanted
  <2>4. CASE SetCanBeFree(n) \/ Terminate(n)
    <3>1. \A m \in Streams : stream[m] \in Serving => stream'[m] \in Serving
      BY <2>4 DEF SetCanBeFree, Terminate
    <3>2. UNCHANGED <<status, listener, failed>>
      BY <2>4 DEF SetCanBeFree, Terminate
    <3> QED
      BY <3>1, <3>2
  <2> QED
    BY <1>4, <2>1, <2>2, <2>3, <2>4 DEF StreamThread
<1>5. CASE Timer \/ Silence \/ RecvAges
  BY <1>5 DEF Timer, Wake, FreeRecv, FreeSession, Pass, Overdue, TimerQuit, TimerClosed,
              Silence, RecvAges
<1>6. CASE UNCHANGED vars
  BY <1>6 DEF vars
<1> QED
  BY <1>1, <1>2, <1>3, <1>4, <1>5, <1>6, <1>7 DEF Next, Handler

\* A stream that a peer asked for has a thread, whatever stops and starts there
\* were before, as long as threads and media buffers could be had.
THEOREM StreamIsServed == Spec => []WantedIsServed
<1>1. Init => ServedInv
  BY DEF Init, ServedInv
<1>2. ServedInv => WantedIsServed
  BY DEF ServedInv, WantedIsServed, Starting
<1> QED
  BY <1>1, <1>2, ServedNext, TypeCorrect, PTL DEF Spec

----------------------------------------------------------------------------
\* A session that has been quit, and whose quitter is done with it, is wanted by
\* nobody, so that its stream threads come to an end and it can be freed: unless
\* a start request found it before the timer quit it and was carried out after.
QuitIsUnwanted ==
    timeout /\ timer # "closing" /\ listener # "closing" /\ ~revived => status = 0

LEMMA UnwantedNext == TypeOK /\ QuitIsUnwanted /\ [Next]_vars => QuitIsUnwanted'
<1> SUFFICES ASSUME TypeOK, QuitIsUnwanted, [Next]_vars PROVE QuitIsUnwanted'
  OBVIOUS
<1> USE DEF TypeOK, QuitIsUnwanted, Handling, Starting, session, flags, thread, history
<1>1. CASE Request
  BY <1>1 DEF Request, Datagram, Heartbeat, CloseReq, Found
<1>2. CASE StillThere \/ Assemble \/ RequestIsWhole \/ IsWanted
  BY <1>2 DEF StillThere, Assemble, RequestIsWhole, IsWanted
<1>3. CASE StartReq
  BY <1>3 DEF StartReq
<1>4. CASE ResetCanBeFree \/ CreateThread \/ CreateFails \/ SetStarted \/ StopReq \/ Closed
  BY <1>4 DEF ResetCanBeFree, CreateThread, CreateFails, SetStarted, StopReq, Closed
<1>5. ASSUME NEW n \in Streams, StreamThread(n)
      PROVE  QuitIsUnwanted'
  <2>1. UNCHANGED <<timeout, status, listener, timer, revived>>
    BY <1>5, Zenon DEF StreamThread, Attach, NoMedia, SendFrame, Sent, Unwanted, SetCanBeFree,
                       Terminate
  <2> QED
    BY <2>1
<1>6. CASE Timer \/ Silence \/ RecvAges
  BY <1>6 DEF Timer, Wake, FreeRecv, FreeSession, Pass, Overdue, TimerQuit, TimerClosed,
              Silence, RecvAges
<1>7. CASE UNCHANGED vars
  BY <1>7 DEF vars
<1> QED
  BY <1>1, <1>2, <1>3, <1>4, <1>5, <1>6, <1>7 DEF Next, Handler

\* Nothing but such a late request makes a session that was quit wanted again: what
\* QuitIsReclaimed rests on, whatever the steps of the listener and of the timer.
THEOREM QuitIsSilenced == Spec => []QuitIsUnwanted
<1>1. Init => QuitIsUnwanted
  BY DEF Init, QuitIsUnwanted
<1> QED
  BY <1>1, UnwantedNext, TypeCorrect, PTL DEF Spec
============================================================================
