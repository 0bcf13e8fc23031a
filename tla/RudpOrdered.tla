---------------------------- MODULE RudpOrdered ----------------------------
(***************************************************************************)
(* The two ends of a rudp session on a path that keeps datagrams in order  *)
(* (one route, one queue) and may lose them.  Acknowledgements still       *)
(* arrive late, repeatedly or never, and the session lives throughout.     *)
(* Here, and only here, it implements MessageService.  What is named after *)
(* the path is of the two ends together.                                   *)
(***************************************************************************)
EXTENDS RudpSender, RudpReassembly

CONSTANTS
    Lossy,      \* TRUE: the path may drop a datagram
    QueueCap    \* bound: the datagrams in flight at a time

ASSUME PathAssumption == Lossy \in BOOLEAN /\ QueueCap \in Nat \ {0}

VARIABLES
    queue,      \* the datagrams in flight
    log         \* history: what the application has been given, in order, until
                \* a payload overruns cbdata

pathVars == <<txVars, rxVars, queue, log>>

PathInit == TxInit /\ RxInit /\ queue = <<>> /\ log = <<>>

SendDatagram(t) ==
    /\ SendSlot(t)
    /\ \/ \E d \in Emitted(t) : Len(queue) < QueueCap /\ queue' = Append(queue, d)
       \/ (Emitted(t) = {} \/ Lossy) /\ UNCHANGED queue
    /\ UNCHANGED <<rxVars, log>>

Sending(t) ==
    \/ SendDatagram(t)
    \/ Lossy /\ SendFails(t) /\ UNCHANGED <<rxVars, queue, log>>
    \/ /\ \/ Fill(t) \/ Hold(t) \/ SetPktId(t) \/ Extend(t) \/ GiveUp(t)
          \/ KeepOn(t) \/ AllAcked(t) \/ Release(t)
       /\ UNCHANGED <<rxVars, queue, log>>

NewCall == (\E t \in Threads : Call(t)) /\ UNCHANGED <<rxVars, queue, log>>

Clock == Tick /\ UNCHANGED <<rxVars, queue, log>>

AckListener ==
    /\ (\E a \in acks : AcceptAck(a[1], a[2])) \/ WriteAck
    /\ UNCHANGED <<rxVars, queue, log>>

RecvHead ==
    /\ queue # <<>>
    /\ Rdpkt(Head(queue)[1], Head(queue)[2])
    /\ queue' = Tail(queue)
    /\ log' = log \o [k \in DOMAIN handed' |->
                        [pkt_id |-> handed'[k].pkt_id, subs |-> handed'[k].subs]]
    /\ UNCHANGED txVars

OtherSession == OtherSessionAdd /\ UNCHANGED <<txVars, queue, log>>

PathNext ==
    \/ \E t \in Threads : Sending(t)
    \/ NewCall
    \/ Clock
    \/ AckListener
    \/ RecvHead
    \/ OtherSession

PathSpec == PathInit /\ [][PathNext]_pathVars

\* The threads in send_data, the clock and the receiving listener keep running.
FairPathSpec ==
    /\ PathSpec
    /\ WF_pathVars(Clock) /\ WF_pathVars(RecvHead)
    /\ \A t \in Threads : WF_pathVars(Sending(t))

----------------------------------------------------------------------------
\* What s->sendflag is for: no two threads are in send_data at a time.
OneInSend == \A t, u \in Threads : Active(t) /\ Active(u) => t = u

\* As long as it does that, the session implements MessageService: order and at-most-once delivery
\* survive loss, retransmission, senders that give up and late acknowledgements.
Service == INSTANCE MessageService WITH offered <- {p \in PktIds : p < packet_id}
Implements == Service!Spec

\* On a path that loses nothing, no payload is truncated: whatever the timing of
\* acknowledgements and retransmissions, a packet comes up whole, except packet
\* 0, whose late duplicates are taken for a new packet, and a packet that was
\* never sent whole because stale entries of s->ack hid some of it.  What is too
\* long for cbdata does not come up at all: it overruns it.
WholeWhenLossless ==
    \A k \in DOMAIN log :
        log[k].pkt_id # 0 /\ log[k].pkt_id \notin excused /\ ~Lossy /\ ~smashed =>
            log[k].subs = Subs(log[k].pkt_id)

\* On a path that loses nothing a packet reaches the application, even when
\* send_data gives up on its acknowledgements, unless one overruns cbdata.
SentIsHanded ==
    \A p \in PktIds :
        (\E t \in Threads : pc[t] = "fill" /\ mine[t] = p)
            ~> (p \in handedPkts \/ p \in excused \/ smashed)
============================================================================
