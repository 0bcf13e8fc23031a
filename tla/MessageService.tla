--------------------------- MODULE MessageService ---------------------------
(***************************************************************************)
(* What a rudp session promises its application on a path that keeps       *)
(* datagrams in order but may lose them: payloads come in the order their  *)
(* packets were sent, each packet at most once, each payload a non-empty   *)
(* part of what was sent.  A gap, a truncated payload or a missing one is  *)
(* allowed; an old, repeated or mixed one is not.  Packet id 0 alone may   *)
(* be repeated until the next packet comes: receive_data_new exempts it    *)
(* from its test for duplicates.                                           *)
(***************************************************************************)
EXTENDS RudpPackets, Sequences

VARIABLES
    offered,    \* the packets handed to send_data
    log         \* what the application has been given, in order

Piece(m) == /\ m.pkt_id \in offered'
            /\ m.subs # {}
            /\ m.subs \subseteq Subs(m.pkt_id)

\* The order the promise is about.
Follows(m, n) == m.pkt_id < n.pkt_id \/ (m.pkt_id = 0 /\ n.pkt_id = 0)
Ordered(s) == \A k, l \in DOMAIN s : k < l => Follows(s[k], s[l])

Init == offered = {} /\ log = <<>>

Offer ==
    /\ \E p \in PktIds \ offered : offered' = offered \cup {p}
    /\ UNCHANGED log

\* One arriving datagram may hand up two payloads: what was pending of an
\* earlier packet and the packet it completes.
HandUp ==
    /\ UNCHANGED offered
    /\ Len(log) < Len(log') /\ SubSeq(log', 1, Len(log)) = log
    /\ Ordered(log')
    /\ \A k \in Len(log) + 1 .. Len(log') : Piece(log'[k])

Next == Offer \/ HandUp

Spec == Init /\ [][Next]_<<offered, log>>
=============================================================================
