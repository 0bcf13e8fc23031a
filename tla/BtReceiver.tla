----------------------------- MODULE BtReceiver -----------------------------
(***************************************************************************)
(* The two threads around the cycle buffer of the bluetooth module         *)
(* (src/bluetooth/bluetooth.c): bt_thr_recv writes what the serial port    *)
(* has received, and the thread that binds the device                      *)
(* (src/device_binding/dev_bind_bluetooth.c) starts it, peeks at the bytes,*)
(* skips those it has used, and stops it before it frees the buffer.  The  *)
(* thread that sets up the network interrupts the binding and waits until  *)
(* the binding thread has gone.                                            *)
(*                                                                         *)
(* What the device says and answers over the serial port is external: any  *)
(* bytes may come at any time, and any part of them may be of use.         *)
(***************************************************************************)
EXTENDS CycleBuffer

CONSTANTS
    MaxChunk,       \* what Recv_Nb returns at most at a time
    PeekLen         \* the reader's own buffer

ASSUME ChunkAssumption == MaxChunk \in Nat /\ PeekLen \in Nat \ {0}

VARIABLES
    trigger,        \* recv_thr.trigger
    running,        \* recv_thr.running
    recv,           \* where bt_thr_recv is
    chunk,          \* the bytes it has read from the serial port
    workTrigger,    \* work_thr.triger
    workRunning,    \* work_thr.running
    work,           \* where the binding thread is
    phase,          \* it opens the hotspot, serves requests or closes all
    due,            \* the answer it waits for has not come in time
    size,           \* how many bytes that thread thinks it may peek at or skip
    caller          \* where the thread that interrupts the binding is

btVars == <<vars, trigger, running, recv, chunk, workTrigger, workRunning, work, phase, due,
            size, caller>>

control == <<trigger, running>>
writer == <<recv, chunk>>
binding == <<workTrigger, workRunning, caller>>
reader == <<work, phase, due, size>>

\* DEV_BIND_BT_start and BT_init: the buffer, and then the thread.
BtInit ==
    /\ Init
    /\ trigger = TRUE /\ running = TRUE
    /\ recv = "poll" /\ chunk = <<>>
    /\ workTrigger = TRUE /\ workRunning = TRUE
    /\ work = "idle" /\ phase = "open" /\ due = FALSE /\ size = 0
    /\ caller = "idle"

----------------------------------------------------------------------------
\* bt_thr_recv.
Receive ==
    /\ recv = "poll" /\ trigger
    /\ \E n \in 1..MaxChunk : chunk' \in [1..n -> Bytes]
    /\ recv' = "write"
    /\ UNCHANGED <<vars, control, binding, reader>>

\* The buffer takes the bytes or does not; the thread goes on either way.
StoreChunk ==
    /\ recv = "write"
    /\ Write(chunk)
    /\ chunk' = <<>>
    /\ recv' = "poll"
    /\ UNCHANGED <<control, binding, reader>>

\* A mistake for comparison: the thread ends and does not say so.
EndReceiveSilently ==
    /\ recv = "poll" /\ ~trigger
    /\ recv' = "ended"
    /\ UNCHANGED <<vars, control, chunk, binding, reader>>

EndReceive ==
    /\ recv = "poll" /\ ~trigger
    /\ running' = FALSE
    /\ recv' = "ended"
    /\ UNCHANGED <<vars, trigger, chunk, binding, reader>>

----------------------------------------------------------------------------
\* The binding thread.  In BT_init and BT_open_hotspot it asks the device this and
\* that, and the bytes from before a request are of no interest.
ClearOld ==
    /\ work = "idle" /\ phase = "open"
    /\ Clear
    /\ due' = FALSE
    /\ work' \in {"await", "idle"}      \* asked, or the request could not be sent
    /\ UNCHANGED <<control, writer, binding, phase, size>>

Opened ==
    /\ work = "idle" /\ phase = "open"
    /\ phase' = "serve"
    /\ UNCHANGED <<vars, control, writer, binding, work, due, size>>

OpenFails ==
    /\ work = "idle" /\ phase = "open"
    /\ work' = "quit" /\ phase' = "close"
    /\ UNCHANGED <<vars, control, writer, binding, due, size>>

\* endMs has passed, and bt_uart_cmd_recv_res sees it before it peeks again.
TimePasses ==
    /\ work \in {"await", "peek", "take"} /\ phase # "serve"
    /\ ~due
    /\ due' = TRUE
    /\ UNCHANGED <<vars, control, writer, binding, work, phase, size>>

NoAnswer ==
    /\ work = "await" /\ due
    /\ work' = "idle"
    /\ UNCHANGED <<vars, control, writer, binding, phase, due, size>>

\* The length is read without the lock; nothing is peeked at if it is zero.
GetSize ==
    /\ \/ work = "await" /\ ~due
       \/ work = "idle" /\ phase = "serve" /\ workTrigger
    /\ dataLen > 0
    /\ size' = IF dataLen < PeekLen THEN dataLen ELSE PeekLen
    /\ work' = "peek"
    /\ UNCHANGED <<vars, control, writer, binding, phase, due>>

\* The device's answer is there or not; before a request there may be other bytes.
PeekAll ==
    /\ work = "peek"
    /\ Peek(size)
    /\ work' \in IF ~out'.ok THEN {"idle"}
                 ELSE IF phase = "serve" THEN {"discard"} ELSE {"take", "await"}
    /\ UNCHANGED <<control, writer, binding, phase, due, size>>

\* Everything before the start of a request, if there is one, whose end is there,
\* has not come in time, or may still come.
Discard ==
    /\ work = "discard"
    /\ \E n \in 0..size :
          /\ Skip(n)
          /\ size' = size - n
          /\ work' \in IF n < size THEN {"take", "idle"} ELSE {"idle"}
    /\ UNCHANGED <<control, writer, binding, phase, due>>

\* The answer or the request, or all the rest of the bytes.  After a request that
\* gives the network's name and password the thread ends by itself.
Take ==
    /\ work = "take"
    /\ \E n \in 1..size : Skip(n)
    /\ work' = "idle"
    /\ size' = 0
    /\ workTrigger' \in IF phase = "serve" THEN {workTrigger, FALSE} ELSE {workTrigger}
    /\ UNCHANGED <<control, writer, workRunning, caller, phase, due>>

Quit ==
    /\ work = "idle" /\ phase = "serve" /\ ~workTrigger
    /\ work' = "quit" /\ phase' = "close"
    /\ UNCHANGED <<vars, control, writer, binding, due, size>>

\* BT_deinit: the request to close the hotspot, whose answer is waited for only
\* so long, and then the end of the receiver.
CloseHotspot ==
    /\ work = "quit"
    /\ Clear
    /\ due' = FALSE
    /\ work' \in {"await", "idle"}
    /\ UNCHANGED <<control, writer, binding, phase, size>>

Stop ==
    /\ work = "idle" /\ phase = "close"
    /\ trigger' = FALSE
    /\ work' = "stopping"
    /\ UNCHANGED <<vars, running, writer, binding, phase, due, size>>

\* A mistake for comparison: the thread is asked to end, but not waited for.
StoppedUnwaited ==
    /\ work = "stopping"
    /\ work' = "free"
    /\ UNCHANGED <<vars, control, writer, binding, phase, due, size>>

Stopped ==
    /\ work = "stopping"
    /\ ~running
    /\ work' = "free"
    /\ UNCHANGED <<vars, control, writer, binding, phase, due, size>>

\* Five seconds are enough for a thread that is not waiting for the mutex.
StopTimeout ==
    /\ work = "stopping"
    /\ running /\ locked /\ recv = "write"
    /\ running' = FALSE
    /\ work' = "free"
    /\ UNCHANGED <<vars, trigger, writer, binding, phase, due, size>>

\* CYCLE_BUFFER_free.
FreeBuffer ==
    /\ work = "free"
    /\ work' = "freed"
    /\ UNCHANGED <<vars, control, writer, binding, phase, due, size>>

\* The end of bt_work_thr.
EndWork ==
    /\ work = "freed"
    /\ workTrigger' = FALSE /\ workRunning' = FALSE
    /\ work' = "ended"
    /\ UNCHANGED <<vars, control, writer, caller, phase, due, size>>

----------------------------------------------------------------------------
\* DEV_BIND_BT_interrupt, which waits without a limit.
Interrupt ==
    /\ caller = "idle"
    /\ workTrigger' = FALSE
    /\ caller' = "waiting"
    /\ UNCHANGED <<vars, control, writer, workRunning, reader>>

Interrupted ==
    /\ caller = "waiting" /\ ~workRunning
    /\ caller' = "idle"
    /\ UNCHANGED <<vars, control, writer, workTrigger, workRunning, reader>>

\* The next DEV_BIND_BT_start and its BT_init, once the receiver is gone.
BtInitAgain ==
    /\ caller = "idle" /\ work = "ended" /\ recv = "ended"
    /\ buf' = buf
    /\ dataStart' = 0 /\ dataEnd' = 0 /\ dataLen' = 0
    /\ locked' = FALSE /\ out' = Done("new", <<>>)
    /\ trigger' = TRUE /\ running' = TRUE
    /\ recv' = "poll"
    /\ workTrigger' = TRUE /\ workRunning' = TRUE
    /\ work' = "idle" /\ phase' = "open"
    /\ UNCHANGED <<chunk, due, size, caller>>

----------------------------------------------------------------------------
Receiver == Receive \/ StoreChunk \/ EndReceive

Dialogue == ClearOld \/ Opened \/ OpenFails \/ TimePasses \/ NoAnswer

Reader == GetSize \/ PeekAll \/ Discard \/ Take \/ Quit

Stopping == CloseHotspot \/ Stop \/ Stopped \/ StopTimeout \/ FreeBuffer \/ EndWork

Caller == Interrupt \/ Interrupted \/ BtInitAgain

BtNext == Receiver \/ Dialogue \/ Reader \/ Stopping \/ Caller

BtSpec == BtInit /\ [][BtNext]_btVars

(***************************************************************************)
(* The threads run and time passes, but the serial port need not have      *)
(* anything, and nobody need interrupt the binding.  BT_open_hotspot asks  *)
(* for the name at most ten times, so it does not ask for ever.            *)
(***************************************************************************)
BtFairSpec ==
    /\ BtSpec
    /\ WF_btVars(StoreChunk) /\ WF_btVars(EndReceive)
    /\ WF_btVars(PeekAll) /\ WF_btVars(Discard) /\ WF_btVars(Take) /\ WF_btVars(Quit)
    /\ WF_btVars(TimePasses) /\ WF_btVars(NoAnswer) /\ SF_btVars(Opened \/ OpenFails)
    /\ WF_btVars(Stopping) /\ WF_btVars(Interrupted)

----------------------------------------------------------------------------
\* The types of the state.
BtTypeOK ==
    /\ TypeOK
    /\ trigger \in BOOLEAN /\ running \in BOOLEAN
    /\ recv \in {"poll", "write", "ended"}
    /\ chunk \in UNION {[1..n -> Bytes] : n \in 0..MaxChunk}
    /\ workTrigger \in BOOLEAN /\ workRunning \in BOOLEAN
    /\ work \in {"idle", "await", "peek", "discard", "take", "quit", "stopping", "free",
                 "freed", "ended"}
    /\ phase \in {"open", "serve", "close"}
    /\ due \in BOOLEAN
    /\ size \in 0..PeekLen
    /\ caller \in {"idle", "waiting"}

\* The reader's length, read without the lock and used under later locks, still
\* stands when it is used: only the reader takes bytes out.
SizeStillThere == work \in {"peek", "discard", "take"} => size <= dataLen

\* The only call that can leave the mutex locked is the receiver's, when the buffer
\* has no room for what has come.
OnlyOverflowJams ==
    [][locked' /\ ~locked => recv = "write" /\ BufLen < dataLen + Len(chunk)]_btVars

\* The buffer is freed under no receiver, unless that one is stuck on the mutex.
FreedIsUnused == work \in {"free", "freed", "ended"} => recv = "ended" \/ locked

\* The mutex has been left locked and the binding thread has not had its last use of
\* it, which is the emptying of the buffer in BT_deinit or the answer after that.
Stuck == locked /\ (phase # "close" \/ work \in {"quit", "peek", "take"})

\* An interruption of the binding comes to an end, whatever the device says and
\* wherever the threads are, except on a jammed buffer: there it waits for ever,
\* unless the binding thread is past its last use of the buffer, for then the five
\* seconds of bt_stop_thr_recv help.
StopEnds == caller = "waiting" ~> (caller = "idle" \/ Stuck)

\* And there it does wait for ever: neither the threads nor the passing of time get
\* the binding thread off a jammed buffer.
StuckForGood == [][Stuck => Stuck']_btVars
============================================================================
