----------------------------- MODULE RudpSender -----------------------------
(***************************************************************************)
(* The sending end of one rudp session: send_data as the threads that call *)
(* it run it (src/rudpa/send.c) and the listener thread's handler of       *)
(* CMD_RDPKT_ACK (src/rudpa/check.c), which writes the same ack array.     *)
(* Nothing but s->sendflag, tested and set without a lock, keeps two       *)
(* threads out of send_data: the module lets them interleave.              *)
(*                                                                         *)
(* One Tick is sub_pkt_interval (500 ms) of the clock.                     *)
(***************************************************************************)
EXTENDS RudpPackets

CONSTANTS
    StreamThreads,  \* threads of test_send_data: one frame after another
    AsideThreads,   \* threads of aside_send: one message each, with retries
    AsideTries,     \* attempts of an aside thread (10 in the code)
    MaxResend,      \* event_proc lets a send go on while resendcount <= 2
    TicksPerPkt,    \* pkt_interval / sub_pkt_interval
    NoData          \* a slot of s->data nothing was written to

Threads == StreamThreads \cup AsideThreads

ASSUME ThreadsAssumption == StreamThreads \cap AsideThreads = {}
ASSUME SenderBounds ==
    /\ AsideTries \in Nat \ {0}
    /\ MaxResend \in Nat
    /\ TicksPerPkt \in Nat \ {0}
ASSUME NoDataAssumption == NoData \notin Datagrams

VARIABLES
    packet_id,  \* the global next packet id of gen_pkt_id
    tx_timeout, \* s->timeout of this end
    sendflag,   \* s->sendflag
    data,       \* s->data: the datagram in each slot
    ack,        \* the sub ids whose s->ack entry is 1
    pkt_id,     \* s->pkt_id: the packet whose acknowledgements are accepted
    pend,       \* what check_ack_pkt has accepted and not yet written
    pc,         \* where each thread is in send_data
    mine,       \* its local pktid
    slot,       \* its loop index
    due,        \* now - last > sub_pkt_interval
    elapsed,    \* now - begin, in ticks, up to pkt_interval
    resend,     \* its local resend count
    tries,      \* aside threads: the attempts made so far
    outcome,    \* history: what send_data returned for each packet
    net,        \* every datagram sent so far
    excused     \* history: packets whose ack array others have written

txVars == <<packet_id, tx_timeout, sendflag, data, ack, pkt_id, pend, pc, mine,
            slot, due, elapsed, resend, tries, outcome, net, excused>>

Slots == UNION {Subs(p) : p \in PktIds}
Outcomes == {"none", "SUCCESS", "ETIMEDOUT2"}
Places == {"idle", "fill", "hold", "setid", "loop", "late", "check", "release", "ended"}

TxInit ==
    /\ packet_id \in PktIds /\ \A p \in PktIds : packet_id <= p
    /\ tx_timeout = FALSE
    /\ sendflag = 0
    /\ data = [i \in Slots |-> NoData]
    /\ ack = {}
    /\ pkt_id = 0
    /\ pend = {}
    /\ pc = [t \in Threads |-> "idle"]
    /\ mine = [t \in Threads |-> 0]
    /\ slot = [t \in Threads |-> 0]
    /\ due = [t \in Threads |-> FALSE]
    /\ elapsed = [t \in Threads |-> 0]
    /\ resend = [t \in Threads |-> 0]
    /\ tries = [t \in Threads |-> 0]
    /\ outcome = [p \in PktIds |-> "none"]
    /\ net = {}
    /\ excused = {}

Active(t) == pc[t] \notin {"idle", "ended"}
\* The packets send_data is busy with.
InSend == {mine[t] : t \in {u \in Threads : Active(u)}}

----------------------------------------------------------------------------
\* The two early returns of send_data.  A stream thread goes on with its next
\* frame; an aside thread tries again at once, AsideTries times in all.
Refused(t) ==
    /\ pc[t] = "idle"
    /\ tx_timeout \/ sendflag = 1
    /\ t \in AsideThreads
    /\ tries' = [tries EXCEPT ![t] = @ + 1]
    /\ pc' = [pc EXCEPT ![t] = IF tries[t] + 1 = AsideTries THEN "ended" ELSE @]
    /\ UNCHANGED <<packet_id, tx_timeout, sendflag, data, ack, pkt_id, pend, mine,
                   slot, due, elapsed, resend, outcome, net, excused>>

\* send_data passes its tests and takes a packet id.  Two threads may do so
\* before either sets the flag.
Begin(t) ==
    /\ pc[t] = "idle"
    /\ ~tx_timeout
    /\ sendflag = 0
    /\ packet_id \in PktIds
    /\ mine' = [mine EXCEPT ![t] = packet_id]
    /\ packet_id' = packet_id + 1
    /\ slot' = [slot EXCEPT ![t] = 0]
    /\ pc' = [pc EXCEPT ![t] = "fill"]
    /\ excused' = excused \cup (IF InSend = {} THEN {} ELSE InSend \cup {packet_id})
    /\ UNCHANGED <<tx_timeout, sendflag, data, ack, pkt_id, pend, due, elapsed,
                   resend, tries, outcome, net>>

\* One turn of the loop that writes headers and payload into s->data.
Fill(t) ==
    /\ pc[t] = "fill"
    /\ data' = [data EXCEPT ![slot[t]] = <<mine[t], slot[t]>>]
    /\ IF slot[t] + 1 = SubCount[mine[t]]
         THEN /\ pc' = [pc EXCEPT ![t] = "hold"]
              /\ slot' = [slot EXCEPT ![t] = 0]
         ELSE /\ slot' = [slot EXCEPT ![t] = @ + 1]
              /\ UNCHANGED pc
    /\ UNCHANGED <<packet_id, tx_timeout, sendflag, ack, pkt_id, pend, mine, due,
                   elapsed, resend, tries, outcome, net, excused>>

\* A mistake for comparison: the acknowledgements of the packet before are kept.
HoldKeepsAck(t) ==
    /\ pc[t] = "hold"
    /\ sendflag' = 1
    /\ pc' = [pc EXCEPT ![t] = "setid"]
    /\ UNCHANGED <<packet_id, tx_timeout, data, ack, pkt_id, pend, mine, slot, due,
                   elapsed, resend, tries, outcome, net, excused>>

\* s->sendflag = 1 and the memset of the packet's ack entries.
Hold(t) ==
    /\ pc[t] = "hold"
    /\ sendflag' = 1
    /\ ack' = ack \ Subs(mine[t])
    /\ pc' = [pc EXCEPT ![t] = "setid"]
    /\ UNCHANGED <<packet_id, tx_timeout, data, pkt_id, pend, mine, slot, due,
                   elapsed, resend, tries, outcome, net, excused>>

\* s->pkt_id = pktid, and session_send_data starts its clocks.  An entry
\* accepted for the packet before and not yet written will count for this one.
SetPktId(t) ==
    /\ pc[t] = "setid"
    /\ pkt_id' = mine[t]
    /\ due' = [due EXCEPT ![t] = TRUE]
    /\ elapsed' = [elapsed EXCEPT ![t] = 0]
    /\ resend' = [resend EXCEPT ![t] = 0]
    /\ pc' = [pc EXCEPT ![t] = "loop"]
    /\ excused' = excused \cup (IF pend = {} THEN {} ELSE {mine[t]})
    /\ UNCHANGED <<packet_id, tx_timeout, sendflag, data, ack, pend, mine, slot,
                   tries, outcome, net>>

\* One turn of send_go's loop; Emitted is what it puts on the wire.
Emitted(t) == IF slot[t] \in ack THEN {} ELSE {data[slot[t]]} \ {NoData}

SendSlot(t) ==
    /\ pc[t] = "loop"
    /\ due[t]
    /\ net' = net \cup Emitted(t)
    /\ IF slot[t] + 1 = SubCount[mine[t]]
         THEN /\ slot' = [slot EXCEPT ![t] = 0]
              /\ due' = [due EXCEPT ![t] = FALSE]
              /\ pc' = [pc EXCEPT ![t] = "late"]
         ELSE /\ slot' = [slot EXCEPT ![t] = @ + 1]
              /\ UNCHANGED <<due, pc>>
    /\ UNCHANGED <<packet_id, tx_timeout, sendflag, data, ack, pkt_id, pend, mine,
                   elapsed, resend, tries, outcome, excused>>

\* sendto fails: send_go returns, and the rest waits for the next pass.
SendFails(t) ==
    /\ pc[t] = "loop"
    /\ due[t]
    /\ slot[t] \notin ack
    /\ slot' = [slot EXCEPT ![t] = 0]
    /\ due' = [due EXCEPT ![t] = FALSE]
    /\ pc' = [pc EXCEPT ![t] = "late"]
    /\ UNCHANGED <<packet_id, tx_timeout, sendflag, data, ack, pkt_id, pend, mine,
                   elapsed, resend, tries, outcome, net, excused>>

\* The second half of a turn, with or without a send_go before it.
AfterSend(t) == pc[t] = "late" \/ (pc[t] = "loop" /\ ~due[t])
Late(t) == AfterSend(t) /\ elapsed[t] = TicksPerPkt

\* A mistake for comparison: extending without counting.
ExtendUncounted(t) ==
    /\ Late(t)
    /\ resend[t] <= MaxResend
    /\ elapsed' = [elapsed EXCEPT ![t] = 0]
    /\ pc' = [pc EXCEPT ![t] = "check"]
    /\ UNCHANGED <<packet_id, tx_timeout, sendflag, data, ack, pkt_id, pend, mine,
                   slot, due, resend, tries, outcome, net, excused>>

\* Event_Send_TimeOut says to go on: another pkt_interval.
Extend(t) ==
    /\ Late(t)
    /\ resend[t] <= MaxResend
    /\ resend' = [resend EXCEPT ![t] = @ + 1]
    /\ elapsed' = [elapsed EXCEPT ![t] = 0]
    /\ pc' = [pc EXCEPT ![t] = "check"]
    /\ UNCHANGED <<packet_id, tx_timeout, sendflag, data, ack, pkt_id, pend, mine,
                   slot, due, tries, outcome, net, excused>>

\* Event_Send_TimeOut leaves bcontinue at 0: ETIMEDOUT2, whatever is acknowledged.
GiveUp(t) ==
    /\ Late(t)
    /\ resend[t] > MaxResend
    /\ outcome' = [outcome EXCEPT ![mine[t]] = "ETIMEDOUT2"]
    /\ pc' = [pc EXCEPT ![t] = "release"]
    /\ UNCHANGED <<packet_id, tx_timeout, sendflag, data, ack, pkt_id, pend, mine,
                   slot, due, elapsed, resend, tries, net, excused>>

\* get_send_stauts at the end of a turn: go round again, or SUCCESS.
Polling(t) == pc[t] = "check" \/ (AfterSend(t) /\ elapsed[t] < TicksPerPkt)

KeepOn(t) ==
    /\ Polling(t)
    /\ pc[t] # "loop"
    /\ ~(Subs(mine[t]) \subseteq ack)
    /\ pc' = [pc EXCEPT ![t] = "loop"]
    /\ UNCHANGED <<packet_id, tx_timeout, sendflag, data, ack, pkt_id, pend, mine,
                   slot, due, elapsed, resend, tries, outcome, net, excused>>

AllAcked(t) ==
    /\ Polling(t)
    /\ Subs(mine[t]) \subseteq ack
    /\ outcome' = [outcome EXCEPT ![mine[t]] = "SUCCESS"]
    /\ pc' = [pc EXCEPT ![t] = "release"]
    /\ UNCHANGED <<packet_id, tx_timeout, sendflag, data, ack, pkt_id, pend, mine,
                   slot, due, elapsed, resend, tries, net, excused>>

\* A mistake for comparison: the early return of a timed-out send keeps the flag.
ReleaseOnlyOnSuccess(t) ==
    /\ pc[t] = "release"
    /\ sendflag' = IF outcome[mine[t]] = "SUCCESS" THEN 0 ELSE sendflag
    /\ IF t \in StreamThreads
         THEN pc' = [pc EXCEPT ![t] = "idle"] /\ UNCHANGED tries
         ELSE /\ tries' = [tries EXCEPT ![t] = @ + 1]
              /\ pc' = [pc EXCEPT ![t] =
                           IF \/ outcome[mine[t]] = "SUCCESS"
                              \/ tries[t] + 1 = AsideTries
                           THEN "ended" ELSE "idle"]
    /\ UNCHANGED <<packet_id, tx_timeout, data, ack, pkt_id, pend, mine, slot, due,
                   elapsed, resend, outcome, net, excused>>

\* s->sendflag = 0 and the return to the caller: a stream thread to its next
\* frame; an aside thread ends, or retries its message as a new packet.
Release(t) ==
    /\ pc[t] = "release"
    /\ sendflag' = 0
    /\ IF t \in StreamThreads
         THEN pc' = [pc EXCEPT ![t] = "idle"] /\ UNCHANGED tries
         ELSE /\ tries' = [tries EXCEPT ![t] = @ + 1]
              /\ pc' = [pc EXCEPT ![t] =
                           IF \/ outcome[mine[t]] = "SUCCESS"
                              \/ tries[t] + 1 = AsideTries
                           THEN "ended" ELSE "idle"]
    /\ UNCHANGED <<packet_id, tx_timeout, data, ack, pkt_id, pend, mine, slot, due,
                   elapsed, resend, outcome, net, excused>>

----------------------------------------------------------------------------
\* A mistake for comparison: the packet id of the acknowledgement is not looked at.
AcceptAnyAck(p, i) ==
    /\ ~tx_timeout
    /\ pend = {}
    /\ pend' = {i}
    /\ UNCHANGED <<packet_id, tx_timeout, sendflag, data, ack, pkt_id, pc, mine, slot,
                   due, elapsed, resend, tries, outcome, net, excused>>

\* check_ack_pkt, on an acknowledgement of sub-packet i of packet p: the test
\* of the packet id, and then, later, the store.  A session that has timed out
\* takes none (get_session).
AcceptAck(p, i) ==
    /\ ~tx_timeout
    /\ pend = {}
    /\ p = pkt_id
    /\ pend' = {i}
    /\ UNCHANGED <<packet_id, tx_timeout, sendflag, data, ack, pkt_id, pc, mine, slot,
                   due, elapsed, resend, tries, outcome, net, excused>>

WriteAck ==
    /\ pend # {}
    /\ ack' = ack \cup pend
    /\ pend' = {}
    /\ excused' = excused \cup {mine[t] : t \in {u \in Threads : pc[u] = "setid"}}
    /\ UNCHANGED <<packet_id, tx_timeout, sendflag, data, pkt_id, pc, mine, slot, due,
                   elapsed, resend, tries, outcome, net>>

\* Half a second passes for every thread that is waiting on its clocks.
Waiting(t) == pc[t] \in {"loop", "late", "check"}

Tick ==
    /\ \E t \in Threads : Waiting(t) /\ (~due[t] \/ elapsed[t] < TicksPerPkt)
    /\ due' = [t \in Threads |-> due[t] \/ Waiting(t)]
    /\ elapsed' = [t \in Threads |->
                     IF Waiting(t) /\ elapsed[t] < TicksPerPkt THEN elapsed[t] + 1
                                                               ELSE elapsed[t]]
    /\ UNCHANGED <<packet_id, tx_timeout, sendflag, data, ack, pkt_id, pend, pc, mine,
                   slot, resend, tries, outcome, net, excused>>

\* session_quit.
TxQuit ==
    /\ ~tx_timeout
    /\ tx_timeout' = TRUE
    /\ UNCHANGED <<packet_id, sendflag, data, ack, pkt_id, pend, pc, mine, slot, due,
                   elapsed, resend, tries, outcome, net, excused>>

\* A thread's next step, outside and inside send_data.
Call(t) == Begin(t) \/ Refused(t)

SendData(t) ==
    \/ Fill(t)
    \/ Hold(t)
    \/ SetPktId(t)
    \/ SendSlot(t)
    \/ SendFails(t)
    \/ Extend(t)
    \/ GiveUp(t)
    \/ KeepOn(t)
    \/ AllAcked(t)
    \/ Release(t)

(***************************************************************************)
(* The sending end alone: the peer may acknowledge, any number of times,   *)
(* whatever was sent to it.                                                *)
(***************************************************************************)
RecvAck == \E d \in net : AcceptAck(d[1], d[2])

TxNext ==
    \/ \E t \in Threads : Call(t) \/ SendData(t)
    \/ Tick
    \/ RecvAck
    \/ WriteAck
    \/ TxQuit

TxSpec == TxInit /\ [][TxNext]_txVars

(***************************************************************************)
(* A thread in send_data keeps running, and the clock moves.  Nothing is   *)
(* assumed of the network, of the peer or of the listener, and no thread   *)
(* has to call send_data.                                                  *)
(***************************************************************************)
TxFairness == WF_txVars(Tick) /\ \A t \in Threads : WF_txVars(SendData(t))

TxFairSpec == TxSpec /\ TxFairness

----------------------------------------------------------------------------
\* The types of the sending end's state.
TxTypeOK ==
    /\ packet_id \in Nat
    /\ tx_timeout \in BOOLEAN
    /\ sendflag \in {0, 1}
    /\ data \in [Slots -> Datagrams \cup {NoData}]
    /\ ack \subseteq Slots
    /\ pkt_id \in PktIds \cup {0}
    /\ pend \subseteq Slots
    /\ pc \in [Threads -> Places]
    /\ mine \in [Threads -> PktIds \cup {0}]
    /\ slot \in [Threads -> Nat]
    /\ due \in [Threads -> BOOLEAN]
    /\ elapsed \in [Threads -> 0 .. TicksPerPkt]
    /\ resend \in [Threads -> 0 .. MaxResend + 1]
    /\ tries \in [Threads -> 0 .. AsideTries]
    /\ outcome \in [PktIds -> Outcomes]
    /\ net \subseteq Datagrams
    /\ excused \subseteq PktIds

\* What SUCCESS is worth to the sender: unless another thread was in send_data
\* at the same time, or an acknowledgement of the packet before was being
\* written while this one was installed, every sub-packet had been sent, so
\* that each entry of s->ack stands for an acknowledgement of this packet.
SuccessWasSent ==
    \A p \in PktIds :
        outcome[p] = "SUCCESS" /\ p \notin excused =>
            \A i \in Subs(p) : <<p, i>> \in net

\* The flag is not lost: with no thread in send_data it is clear, so the next
\* one is not refused with ES_SYN_WAIT for ever.
FlagIsReleased == InSend = {} => sendflag = 0

\* Every call of send_data returns, SUCCESS or ETIMEDOUT2, however the network
\* behaves, whatever other threads do and even once the session has been quit.
SendReturns ==
    \A t \in Threads : (pc[t] = "fill") ~> (pc[t] \in {"idle", "ended"})
=============================================================================
