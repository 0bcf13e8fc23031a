---------------------------- MODULE RudpPackets ----------------------------
(***************************************************************************)
(* What travels between two ends of a rudp session (src/rudpa/send.h): a   *)
(* message handed to send_data becomes one packet, a packet is cut into    *)
(* sub-packets, and each sub-packet is one datagram.                       *)
(***************************************************************************)
EXTENDS Naturals, FiniteSets

CONSTANTS
    PktIds,     \* the packet ids gen_pkt_id hands out in this execution
    SubCount    \* SubCount[p]: the sub-packets packet p is cut into

ASSUME PktIdsAssumption == PktIds \subseteq Nat
ASSUME SubCountAssumption == SubCount \in [PktIds -> Nat \ {0}]

\* The sub ids of packet p, and the datagrams it is sent as.
Subs(p) == 0 .. SubCount[p] - 1
Datagrams == UNION {{p} \X Subs(p) : p \in PktIds}

\* A mistake for comparison: the list keeps what follows the new node instead.
InsertKeepsTail(S, i) == {j \in S : j > i} \cup {i}

(***************************************************************************)
(* Storing sub id i in the list of a reassembly whose sub ids are S: what  *)
(* was smaller stays, what was larger is lost (sub_pkt_add never sets the  *)
(* next pointer of a node it puts before another).  SubPktList shows that  *)
(* the linked list does this.                                              *)
(***************************************************************************)
Insert(S, i) == {j \in S : j < i} \cup {i}
============================================================================
