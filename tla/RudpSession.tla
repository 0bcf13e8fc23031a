---------------------------- MODULE RudpSession ----------------------------
(***************************************************************************)
(* The life of one rudp session of the camera, from the first request on   *)
(* it until its memory is freed: the listener thread that handles stream   *)
(* requests and closes (src/rudpa/rudpa.c, session.c), the stream threads  *)
(* it starts (test_send_data) and the timer thread that quits and frees    *)
(* sessions.  They share the flags of the session and of its Rudpa object  *)
(* without a lock; each assignment to a flag is a step of its own.         *)
(*                                                                         *)
(* session_close is called nowhere, so the timer never counts s->close.    *)
(***************************************************************************)
EXTENDS Naturals, FiniteSets

CONSTANT
    Streams         \* bound: the stream threads that can run at a time

VARIABLES
    timeout,        \* s->timeout
    recv,           \* s->recv # NULL: a reassembly is open
    heard,          \* s->time + STIMEOUT >= now
    recvOld,        \* s->recv->time + RECV_TIMEOUT < now
    status,         \* m_uiSessionStatus: the peer wants the stream
    canBeFree,      \* m_uiSessionCanBeFree
    started,        \* m_DataThreadStart_If
    freed,          \* the session and its Rudpa object are freed
    listener,       \* where the listener thread is
    after,          \* where it goes on when it has done what a packet asks for
    timer,          \* where session_timeout_thread is
    stream,         \* where each stream thread is
    failed,         \* history: what could not be had, a thread or its media buffer
    overlap,        \* history: a stream was asked for while one was still ending
    late,           \* history: the timer quit the session under a datagram
    revived         \* history: a stream was asked for on a session already quit

vars == <<timeout, recv, heard, recvOld, status, canBeFree, started, freed,
          listener, after, timer, stream, failed, overlap, late, revived>>

session == <<timeout, recv, heard, recvOld, freed>>
flags == <<status, canBeFree, started>>
thread == <<listener, after>>
history == <<failed, overlap, late, revived>>

Starting == {"reset", "create", "flag"}
Handling == {"found", "add", "open", "start", "want", "stop"} \cup Starting
Serving == {"begin", "run", "send"}
Alive == {n \in Streams : stream[n] # "none"}

\* new_session_proc, on a session create_session has just put in the list.
Init ==
    /\ timeout = FALSE /\ recv = FALSE /\ heard = TRUE /\ recvOld = FALSE
    /\ status = 0 /\ canBeFree = 0 /\ started = 0
    /\ freed = FALSE
    /\ listener = "idle" /\ after = "idle"
    /\ timer = "asleep"
    /\ stream = [n \in Streams |-> "none"]
    /\ failed = {} /\ overlap = FALSE /\ late = FALSE /\ revived = FALSE

----------------------------------------------------------------------------
\* The listener.  get_session finds the session unless it has been quit, and
\* notes the time.
Found == listener = "idle" /\ ~freed /\ ~timeout

\* A heartbeat, or any request that changes nothing here.
Heartbeat ==
    /\ Found
    /\ heard' = TRUE
    /\ UNCHANGED <<timeout, recv, recvOld, freed, flags, thread, timer, stream, history>>

\* A datagram of a packet: rdpkt_data looks the session up, and asks once more
\* whether it has been quit, and not again after that.
Datagram ==
    /\ Found
    /\ heard' = TRUE
    /\ listener' = "found"
    /\ UNCHANGED <<timeout, recv, recvOld, freed, flags, after, timer, stream, history>>

StillThere ==
    /\ listener = "found"
    /\ listener' = IF timeout THEN "idle" ELSE "add"
    /\ UNCHANGED <<session, flags, after, timer, stream, history>>

\* The datagram goes to the reassembly, which is opened, goes on or is completed.
\* "open" is what is left to do when it has ended the packet before its own.
Assemble ==
    /\ listener \in {"add", "open"}
    /\ recv' \in BOOLEAN
    /\ recvOld' \in {FALSE, recvOld /\ recv'}
    /\ listener' = "idle"
    /\ UNCHANGED <<timeout, heard, freed, flags, after, timer, stream, history>>

\* It makes whole, or ends, a packet that asks for the stream or for its end: the
\* reassembly is closed and acknowledged, which takes a millisecond, before the
\* packet is looked into.
RequestIsWhole ==
    /\ listener \in {"add", "open"}
    /\ recv' = FALSE /\ recvOld' = FALSE
    /\ listener' \in {"start", "stop"}
    /\ after' \in {"idle"} \cup (IF listener = "add" /\ recv THEN {"open"} ELSE {})
    /\ UNCHANGED <<timeout, heard, freed, flags, timer, stream, history>>

\* SoupCmdReqStream "start": nothing if the stream is already wanted.
IsWanted ==
    /\ listener = "start"
    /\ listener' = IF status = 0 THEN "want" ELSE after
    /\ UNCHANGED <<session, flags, after, timer, stream, history>>

\* A mistake for comparison: no thread is created while the flag says there is one.
StartReqUnlessStarted ==
    /\ listener = "want"
    /\ status' = 1
    /\ listener' = IF started = 1 THEN after ELSE "reset"
    /\ overlap' = (overlap \/ Alive # {})
    /\ revived' = (revived \/ timeout)
    /\ UNCHANGED <<session, canBeFree, started, after, timer, stream, failed, late>>

StartReq ==
    /\ listener = "want"
    /\ status' = 1
    /\ listener' = "reset"
    /\ overlap' = (overlap \/ Alive # {})
    /\ revived' = (revived \/ timeout)
    /\ UNCHANGED <<session, canBeFree, started, after, timer, stream, failed, late>>

\* A mistake for comparison: the flag of the thread before is kept.
KeepCanBeFree ==
    /\ listener = "reset"
    /\ listener' = "create"
    /\ UNCHANGED <<session, flags, after, timer, stream, history>>

ResetCanBeFree ==
    /\ listener = "reset"
    /\ canBeFree' = 0
    /\ listener' = "create"
    /\ UNCHANGED <<session, status, started, after, timer, stream, history>>

CreateThread ==
    /\ listener = "create"
    /\ \E n \in Streams \ Alive : stream' = [stream EXCEPT ![n] = "begin"]
    /\ listener' = "flag"
    /\ UNCHANGED <<session, flags, after, timer, history>>

CreateFails ==
    /\ listener = "create"
    /\ failed' = failed \cup {"thread"}
    /\ listener' = after
    /\ UNCHANGED <<session, flags, after, timer, stream, overlap, late, revived>>

SetStarted ==
    /\ listener = "flag"
    /\ started' = 1
    /\ listener' = after
    /\ UNCHANGED <<session, status, canBeFree, after, timer, stream, history>>

\* SoupCmdReqStream "stop".
StopReq ==
    /\ listener = "stop"
    /\ status' = 0
    /\ listener' = after
    /\ UNCHANGED <<session, canBeFree, started, after, timer, stream, history>>

\* CMD_CLOSE_SESSION finds the session even if it has been quit before, and so
\* may do what CMD_CLOSE_ACK does to one that has not.  It is quit, and
\* then event_proc is told.
CloseReq ==
    /\ listener = "idle" /\ ~freed
    /\ timeout' = TRUE
    /\ listener' = "closing"
    /\ UNCHANGED <<recv, heard, recvOld, freed, flags, after, timer, stream, history>>

Closed ==
    /\ listener = "closing"
    /\ status' = 0
    /\ listener' = "idle"
    /\ UNCHANGED <<session, canBeFree, started, after, timer, stream, history>>

----------------------------------------------------------------------------
\* A stream thread: test_send_data, until the stream is not wanted any more.
Attach(n) ==
    /\ stream[n] = "begin"
    /\ stream' = [stream EXCEPT ![n] = "run"]
    /\ UNCHANGED <<session, flags, thread, timer, history>>

\* No such media buffer, or it is not running, or it has too many users.
NoMedia(n) ==
    /\ stream[n] = "begin"
    /\ stream' = [stream EXCEPT ![n] = "exit"]
    /\ failed' = failed \cup {"media"}
    /\ UNCHANGED <<session, flags, thread, timer, overlap, late, revived>>

SendFrame(n) ==
    /\ stream[n] = "run"
    /\ status = 1
    /\ stream' = [stream EXCEPT ![n] = "send"]
    /\ UNCHANGED <<session, flags, thread, timer, history>>

Sent(n) ==
    /\ stream[n] = "send"
    /\ stream' = [stream EXCEPT ![n] = "run"]
    /\ UNCHANGED <<session, flags, thread, timer, history>>

Unwanted(n) ==
    /\ stream[n] = "run"
    /\ status # 1
    /\ stream' = [stream EXCEPT ![n] = "exit"]
    /\ UNCHANGED <<session, flags, thread, timer, history>>

SetCanBeFree(n) ==
    /\ stream[n] = "exit"
    /\ canBeFree' = 1
    /\ stream' = [stream EXCEPT ![n] = "ending"]
    /\ UNCHANGED <<session, status, started, thread, timer, history>>

Terminate(n) ==
    /\ stream[n] = "ending"
    /\ started' = 0
    /\ stream' = [stream EXCEPT ![n] = "none"]
    /\ UNCHANGED <<session, status, canBeFree, thread, timer, history>>

StreamThread(n) ==
    \/ Attach(n)
    \/ NoMedia(n)
    \/ SendFrame(n)
    \/ Sent(n)
    \/ Unwanted(n)
    \/ SetCanBeFree(n)
    \/ Terminate(n)

----------------------------------------------------------------------------
\* Time passes: STIMEOUT without a datagram, RECV_TIMEOUT with a reassembly open.
Silence ==
    /\ heard
    /\ heard' = FALSE
    /\ UNCHANGED <<timeout, recv, recvOld, freed, flags, thread, timer, stream, history>>

RecvAges ==
    /\ recv /\ ~recvOld
    /\ recvOld' = TRUE
    /\ UNCHANGED <<timeout, recv, heard, freed, flags, thread, timer, stream, history>>

\* The timer sleeps two seconds between two scans.
Wake ==
    /\ timer = "asleep" /\ ~freed
    /\ timer' = "scan"
    /\ UNCHANGED <<session, flags, thread, stream, history>>

\* check_recv_pkt_timeout: only of a session that has been quit.
FreeRecv ==
    /\ timer = "scan"
    /\ timeout /\ recv /\ recvOld
    /\ recv' = FALSE
    /\ recvOld' = FALSE
    /\ UNCHANGED <<timeout, heard, freed, flags, thread, timer, stream, history>>

\* Event_Finished_Session.  As long as the answer is no the timer asks again at
\* once, without going on to the next session.  (FinishedStarted is a mistake for
\* comparison: it forgets a session that never had a stream thread.)
FinishedStarted == started = 1 /\ canBeFree = 1

Finished ==
    \/ started = 1 /\ canBeFree = 1
    \/ started = 0

FreeSession ==
    /\ timer = "scan"
    /\ timeout /\ ~recv
    /\ Finished
    /\ freed' = TRUE
    /\ timer' = "asleep"
    /\ UNCHANGED <<timeout, recv, heard, recvOld, flags, thread, stream, history>>

\* Nothing to do: the scan goes on to the next session.
Pass ==
    /\ timer = "scan"
    /\ IF timeout THEN recv /\ ~recvOld ELSE heard
    /\ timer' = "asleep"
    /\ UNCHANGED <<session, flags, thread, stream, history>>

\* Silence for too long: the test of s->time, and then session_quit.
Overdue ==
    /\ timer = "scan"
    /\ ~timeout /\ ~heard
    /\ timer' = "overdue"
    /\ UNCHANGED <<session, flags, thread, stream, history>>

TimerQuit ==
    /\ timer = "overdue"
    /\ timeout' = TRUE
    /\ late' = (late \/ listener \in Handling)
    /\ timer' = "closing"
    /\ UNCHANGED <<recv, heard, recvOld, freed, flags, thread, stream, failed, overlap, revived>>

TimerClosed ==
    /\ timer = "closing"
    /\ status' = 0
    /\ timer' = "asleep"
    /\ UNCHANGED <<session, canBeFree, started, thread, stream, history>>

----------------------------------------------------------------------------
Request == Heartbeat \/ Datagram \/ CloseReq

\* The rest of a handler the listener is in.
Handler ==
    \/ StillThere
    \/ Assemble
    \/ RequestIsWhole
    \/ IsWanted
    \/ StartReq
    \/ ResetCanBeFree
    \/ CreateThread
    \/ CreateFails
    \/ SetStarted
    \/ StopReq
    \/ Closed

Timer == Wake \/ FreeRecv \/ FreeSession \/ Pass \/ Overdue \/ TimerQuit \/ TimerClosed

Next ==
    \/ Request
    \/ Handler
    \/ \E n \in Streams : StreamThread(n)
    \/ Silence
    \/ RecvAges
    \/ Timer

Spec == Init /\ [][Next]_vars

(***************************************************************************)
(* The threads run and time passes; peers need send nothing.  A stream     *)
(* thread is never stuck in send_data: RudpSender!SendReturns.             *)
(***************************************************************************)
Fairness ==
    /\ WF_vars(Handler) /\ WF_vars(Timer) /\ WF_vars(RecvAges)
    /\ \A n \in Streams : WF_vars(StreamThread(n))

FairSpec == Spec /\ Fairness

----------------------------------------------------------------------------
\* The types of the state.
TypeOK ==
    /\ timeout \in BOOLEAN /\ recv \in BOOLEAN /\ heard \in BOOLEAN /\ recvOld \in BOOLEAN
    /\ status \in {0, 1} /\ canBeFree \in {0, 1} /\ started \in {0, 1}
    /\ freed \in BOOLEAN
    /\ listener \in {"idle", "closing"} \cup Handling
    /\ after \in {"idle", "open"}
    /\ timer \in {"asleep", "scan", "overdue", "closing"}
    /\ stream \in [Streams -> {"none", "exit", "ending"} \cup Serving]
    /\ failed \subseteq {"thread", "media"}
    /\ overlap \in BOOLEAN /\ late \in BOOLEAN /\ revived \in BOOLEAN

\* The memory of a session is freed only when no stream thread is in its loop
\* and no datagram is being handled on it, as long as no stream was asked
\* for while another was still ending and the timer did not quit the session
\* under a datagram, that is after get_session had found it.  What remains, and
\* the code does not exclude, is a thread's last assignment to a flag, and
\* event_proc being told of a close.
FreedIsUnused ==
    freed /\ ~overlap /\ ~late =>
        /\ \A n \in Streams : stream[n] \in {"none", "ending"}
        /\ listener \in {"idle", "closing"}

\* A peer that asked for the stream is served: outside the handling of the
\* request some stream thread is in its loop, even after a stop and a start in
\* quick succession, unless the thread or its media buffer could not be had.
WantedIsServed ==
    status = 1 /\ listener \notin Starting /\ failed = {} =>
        \E n \in Streams : stream[n] \in Serving

\* A session that has been quit is freed, whatever its threads were doing, at
\* whatever step of a request it was quit, and whether or not they found their
\* media buffers.  Two things keep it for ever: a thread that could not be
\* created, and a start request that had found the session before the timer quit
\* it and sets m_uiSessionStatus after that.
QuitIsReclaimed == timeout ~> (freed \/ revived \/ "thread" \in failed)
============================================================================
