--------------------------- MODULE RudpTransport ---------------------------
(***************************************************************************)
(* The two ends of a rudp session over UDP that loses, duplicates, delays  *)
(* and reorders: a datagram or an acknowledgement, once sent, may arrive   *)
(* at any later time, any number of times, or never.                       *)
(***************************************************************************)
EXTENDS RudpSender, RudpReassembly

vars == <<txVars, rxVars>>

Init == TxInit /\ RxInit

Sender ==
    /\ (\E t \in Threads : Call(t) \/ SendData(t)) \/ Tick \/ TxQuit
    /\ UNCHANGED rxVars

\* The sender's listener thread: an acknowledgement arrives and is written.
SenderListener ==
    /\ (\E a \in acks : AcceptAck(a[1], a[2])) \/ WriteAck
    /\ UNCHANGED rxVars

RecvDatagram ==
    /\ \E d \in net : Rdpkt(d[1], d[2])
    /\ UNCHANGED txVars

Receiver ==
    /\ RxQuit \/ FreeRecv \/ OtherSessionAdd
    /\ UNCHANGED txVars

Next == Sender \/ SenderListener \/ RecvDatagram \/ Receiver

Spec == Init /\ [][Next]_vars

----------------------------------------------------------------------------
\* What SUCCESS is worth: with the same two exceptions as SuccessWasSent, and as
\* long as the peer has not overrun its array, each sub-packet of a packet
\* reported as sent reached the peer.
SuccessIsReceived ==
    \A p \in PktIds :
        outcome[p] = "SUCCESS" /\ p \notin excused /\ ~smashed =>
            \A i \in Subs(p) : <<p, i>> \in received

\* End to end: the peer's application was given a payload of such a packet.
SuccessReachesApp ==
    \A p \in PktIds :
        outcome[p] = "SUCCESS" /\ p \notin excused /\ ~smashed => p \in handedPkts
============================================================================
