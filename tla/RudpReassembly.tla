-------------------------- MODULE RudpReassembly --------------------------
(***************************************************************************)
(* The receiving end of one rudp session (src/rudpa/rudp.c): the handler   *)
(* of CMD_RDPKT, the one reassembly buffer s->recv it fills, the           *)
(* acknowledgements it emits and the payloads it hands to the application. *)
(*                                                                         *)
(* The sub-packet list of a reassembly is kept as the set of the sub ids   *)
(* in it; Insert says what the code's insertion leaves of it, and module   *)
(* SubPktList models the linked list itself.                               *)
(*                                                                         *)
(* rdpk_ack_all copies the sub-packets, one after the other, into an array *)
(* of CbSize bytes on its stack, and counts nothing.  A payload that does  *)
(* not fit overruns it, and from there on the program's behaviour is       *)
(* undefined: the model says that it happened, and the properties are      *)
(* about the time before.                                                  *)
(***************************************************************************)
EXTENDS RudpPackets, Sequences

CONSTANTS
    Relayed,    \* TRUE: the session runs through the turn relay (headlen > 0)
    FullLen,    \* DEFAULT_PKT_LEN: the bytes in every sub-packet but the last
    LastLen,    \* LastLen[p]: the bytes in the last sub-packet of packet p
    CbSize,     \* sizeof(cbdata): the payload rdpk_ack_all has room for
    NoRecv      \* s->recv == NULL

ASSUME RelayedAssumption == Relayed \in BOOLEAN
ASSUME LengthAssumption == FullLen \in Nat \ {0} /\ LastLen \in [PktIds -> 1 .. FullLen]
ASSUME CbSizeAssumption == CbSize \in Nat /\ FullLen <= CbSize
ASSUME NoRecvAssumption ==
    NoRecv \notin [pkt_id : PktIds, recved : Nat, subpkt : SUBSET Nat, ascending : BOOLEAN]

VARIABLES
    recv,       \* s->recv: NoRecv or the packet being reassembled
    cur_pktid,  \* s->cur_pktid: the packet most recently opened
    addcount,   \* sub_pkt_add's static counter, shared by every session
    rx_timeout, \* s->timeout of this end: the session has been quit
    smashed,    \* a payload was copied past the end of cbdata
    acks,       \* every <<pkt_id, sub_id>> acknowledged so far
    received,   \* history: every datagram the handler has accepted
    handed,     \* history: the payloads the latest step gave to Event_Ld_Pack
    handedPkts  \* history: the packets of which the application got something

rxVars ==
    <<recv, cur_pktid, addcount, rx_timeout, smashed, acks, received, handed, handedPkts>>

Recv == [pkt_id : PktIds, recved : Nat, subpkt : SUBSET Nat,
         \* history: every stored sub-packet came after all the smaller ones
         ascending : BOOLEAN]

Payload == [pkt_id : PktIds, subs : SUBSET Nat, complete : BOOLEAN, ascending : BOOLEAN]

RxInit ==
    /\ recv = NoRecv
    /\ cur_pktid = 0
    /\ addcount \in 0 .. 2      \* other sessions have been adding before
    /\ rx_timeout = FALSE
    /\ smashed = FALSE
    /\ acks = {}
    /\ received = {}
    /\ handed = <<>>
    /\ handedPkts = {}

----------------------------------------------------------------------------
\* receive_data_new and sub_pkt_add on a reassembly.
Fresh(p) == [pkt_id |-> p, recved |-> 0, subpkt |-> {}, ascending |-> TRUE]

\* Mistakes for comparison: counting what the list holds instead of the
\* insertions, and not counting the first sub-packet.
AddedByLength(r, i) ==
    [pkt_id |-> r.pkt_id,
     recved |-> Cardinality(Insert(r.subpkt, i)),
     subpkt |-> Insert(r.subpkt, i),
     ascending |-> r.ascending /\ \A j \in r.subpkt : j < i]
AddedFirstUncounted(r, i) ==
    [pkt_id |-> r.pkt_id,
     recved |-> IF r.subpkt = {} THEN 0 ELSE r.recved + 1,
     subpkt |-> Insert(r.subpkt, i),
     ascending |-> r.ascending /\ \A j \in r.subpkt : j < i]

Added(r, i) ==
    [pkt_id |-> r.pkt_id,
     recved |-> r.recved + 1,
     subpkt |-> Insert(r.subpkt, i),
     ascending |-> r.ascending /\ \A j \in r.subpkt : j < i]

AckOf(r) == {<<r.pkt_id, j>> : j \in r.subpkt}

PayloadOf(r, complete) ==
    [pkt_id |-> r.pkt_id, subs |-> r.subpkt, complete |-> complete,
     ascending |-> r.ascending]

\* The datagram does not belong to the reassembly in progress, if any.
Opens(p) == recv # NoRecv => recv.pkt_id # p

\* A reassembly of another packet, which receive_data_add acknowledges and
\* hands up as it is before it opens the new one.
Overtaken(p) == recv # NoRecv /\ recv.pkt_id # p

FlushedAcks(p) == IF Overtaken(p) THEN AckOf(recv) ELSE {}
Flushed(p) == IF Overtaken(p) THEN <<PayloadOf(recv, FALSE)>> ELSE <<>>
FlushedPkts(p) == IF Overtaken(p) THEN {recv.pkt_id} ELSE {}

\* A mistake for comparison: no packet is refused.
NeverSeen(p) == FALSE

\* receive_data_new refuses the packet it opened last, unless its id is 0.
AlreadySeen(p) == Opens(p) /\ p # 0 /\ p = cur_pktid

\* The sub-packet is in the list: sub_pkt_add returns 3 without adding it.
Held(p, i) == ~Opens(p) /\ i \in recv.subpkt

\* A mistake for comparison: the open reassembly is not compared with the packet.
BaseStale(p) == IF recv = NoRecv THEN Fresh(p) ELSE recv

\* The reassembly the sub-packet is added to.
Base(p) == IF Opens(p) THEN Fresh(p) ELSE recv

\* The bytes in the sub-packets S of packet p.  None of them is empty.
Bytes(p, S) ==
    FullLen * Cardinality(S \ {SubCount[p] - 1})
        + (IF SubCount[p] - 1 \in S THEN LastLen[p] ELSE 0)

\* A mistake for comparison: DEFAULT_PKT_LEN bytes are copied of every sub-packet.
OversizedUnlessCut(r) == FullLen * Cardinality(r.subpkt) > CbSize

\* The payload of reassembly r does not fit in cbdata.
Oversized(r) == Bytes(r.pkt_id, r.subpkt) > CbSize

\* Sub-packet i is added to the list and brings the count to the packet's.
Completes(p, i) ==
    /\ ~AlreadySeen(p) /\ ~Held(p, i)
    /\ Added(Base(p), i).recved = SubCount[p]

\* rdpk_ack_all, called for the overtaken or for the completed reassembly, copies
\* more than there is room for.  A packet that overtakes and completes at once is
\* one sub-packet, which fits: only one of the two copies can overrun.
CopiesTooMuch(p, i) ==
    \/ Overtaken(p) /\ Oversized(recv)
    \/ Completes(p, i) /\ Oversized(Added(Base(p), i))

\* rdpkt_data goes on with the datagram, and cbdata holds what is copied to it.
Handles(p, i) == ~rx_timeout /\ ~smashed /\ ~CopiesTooMuch(p, i)

----------------------------------------------------------------------------
\* A sub-packet of a packet that is over: acknowledged alone.  In a relayed
\* session the header is written at the wrong offset, so nothing usable is sent.
ReAck(p, i) ==
    /\ Handles(p, i)
    /\ AlreadySeen(p)
    /\ recv' = NoRecv
    /\ acks' = acks \cup FlushedAcks(p) \cup (IF Relayed THEN {} ELSE {<<p, i>>})
    /\ received' = received \cup {<<p, i>>}
    /\ handed' = Flushed(p)
    /\ handedPkts' = handedPkts \cup FlushedPkts(p)
    /\ UNCHANGED <<cur_pktid, addcount, rx_timeout, smashed>>

\* A retransmission of what the list holds: rdpk_ack acknowledges the list.
AckHeld(p, i) ==
    /\ Handles(p, i)
    /\ Held(p, i)
    /\ acks' = acks \cup AckOf(recv)
    /\ received' = received \cup {<<p, i>>}
    /\ handed' = <<>>
    /\ UNCHANGED <<recv, cur_pktid, addcount, rx_timeout, smashed, handedPkts>>

\* The sub-packet is stored and the count is not reached.  The first one of a
\* packet is never acknowledged at once; of the others every third one is.
StoreSub(p, i) ==
    /\ Handles(p, i)
    /\ ~AlreadySeen(p) /\ ~Held(p, i)
    /\ Added(Base(p), i).recved # SubCount[p]
    /\ recv' = Added(Base(p), i)
    /\ cur_pktid' = p
    /\ IF Base(p).subpkt = {}
         THEN /\ acks' = acks \cup FlushedAcks(p)
              /\ UNCHANGED addcount
         ELSE /\ addcount' = (addcount + 1) % 3
              /\ acks' = acks \cup FlushedAcks(p)
                              \cup (IF addcount = 2 THEN AckOf(recv') ELSE {})
    /\ received' = received \cup {<<p, i>>}
    /\ handed' = Flushed(p)
    /\ handedPkts' = handedPkts \cup FlushedPkts(p)
    /\ UNCHANGED <<rx_timeout, smashed>>

\* The sub-packet brings the count to the packet's: rdpkt_recv_all_pkts
\* acknowledges what the list holds, drops it and hands it to the application.
CompletePkt(p, i) ==
    /\ Handles(p, i)
    /\ Completes(p, i)
    /\ LET r == Added(Base(p), i)
       IN  /\ acks' = acks \cup FlushedAcks(p) \cup AckOf(r)
           /\ handed' = Append(Flushed(p), PayloadOf(r, TRUE))
    /\ recv' = NoRecv
    /\ cur_pktid' = p
    /\ received' = received \cup {<<p, i>>}
    /\ handedPkts' = handedPkts \cup FlushedPkts(p) \cup {p}
    /\ UNCHANGED <<addcount, rx_timeout, smashed>>

\* The copy overruns cbdata.  What becomes of the acknowledgement, built in a
\* neighbouring array, and of the listener thread, whose return address is not
\* far either, is undefined: nothing or anything is acknowledged, and the thread
\* is followed no further.
Overrun(p, i) ==
    /\ ~rx_timeout /\ ~smashed /\ CopiesTooMuch(p, i)
    /\ smashed' = TRUE
    /\ acks' \in {acks, Datagrams}
    /\ received' = received \cup {<<p, i>>}
    /\ handed' = <<>>
    /\ UNCHANGED <<recv, cur_pktid, addcount, rx_timeout, handedPkts>>

\* rdpkt_data on one datagram.
Rdpkt(p, i) ==
    \/ ReAck(p, i)
    \/ AckHeld(p, i)
    \/ StoreSub(p, i)
    \/ CompletePkt(p, i)
    \/ Overrun(p, i)

\* sub_pkt_add runs for another session and advances the shared counter.
OtherSessionAdd ==
    /\ addcount' = (addcount + 1) % 3
    /\ handed' = <<>>
    /\ UNCHANGED <<recv, cur_pktid, rx_timeout, smashed, acks, received, handedPkts>>

\* session_quit, on a close from the peer or on silence.
RxQuit ==
    /\ ~rx_timeout
    /\ rx_timeout' = TRUE
    /\ handed' = <<>>
    /\ UNCHANGED <<recv, cur_pktid, addcount, smashed, acks, received, handedPkts>>

\* check_recv_pkt_timeout: of a session that is over, the timer frees a
\* reassembly that has been waiting for RECV_TIMEOUT.
FreeRecv ==
    /\ rx_timeout
    /\ recv # NoRecv
    /\ recv' = NoRecv
    /\ handed' = <<>>
    /\ UNCHANGED <<cur_pktid, addcount, rx_timeout, smashed, acks, received, handedPkts>>

RxNext ==
    \/ \E p \in PktIds : \E i \in Subs(p) : Rdpkt(p, i)
    \/ OtherSessionAdd
    \/ RxQuit
    \/ FreeRecv

RxSpec == RxInit /\ [][RxNext]_rxVars

----------------------------------------------------------------------------
(***************************************************************************)
(* Properties.  Those that are about what the handler does say it of the   *)
(* time before cbdata is overrun.                                          *)
(***************************************************************************)

\* The types of the state; an open reassembly counts at least one sub-packet
\* and fewer than its packet has, so that some datagram can still complete it.
RxTypeOK ==
    /\ recv \in Recv \cup {NoRecv}
    /\ recv # NoRecv => recv.recved \in 1 .. SubCount[recv.pkt_id] - 1
    /\ cur_pktid \in PktIds \cup {0}
    /\ addcount \in 0 .. 2
    /\ rx_timeout \in BOOLEAN
    /\ smashed \in BOOLEAN
    /\ acks \subseteq Datagrams
    /\ received \subseteq Datagrams
    /\ handed \in Seq(Payload)
    /\ handedPkts \subseteq PktIds

\* No false acknowledgement: whatever the order, the duplication and the mix
\* of packets on the wire, only a sub-packet that arrived is acknowledged.
AckedWasReceived == ~smashed => acks \subseteq received

\* A payload is made of sub-packets of its own packet that arrived.
PayloadWasReceived ==
    ~smashed => \A k \in DOMAIN handed :
        /\ handed[k].subs # {}
        /\ \A j \in handed[k].subs : <<handed[k].pkt_id, j>> \in received

\* What the count is worth: a payload handed up because the count was reached
\* is the whole packet exactly when its sub-packets were stored in ascending
\* order.  Any reordering, the one a retransmission causes included, truncates
\* it, since the list loses what it held above the late sub-packet.
WholeIffAscending ==
    ~smashed => \A k \in DOMAIN handed :
        handed[k].complete =>
            (handed[k].ascending <=> handed[k].subs = Subs(handed[k].pkt_id))

\* Nothing is swallowed: once every sub-packet of a packet has arrived, in any
\* order, around any other packets, the application has been given a payload
\* of that packet.
AllReceivedIsHanded ==
    ~smashed => \A p \in PktIds :
        (\A i \in Subs(p) : <<p, i>> \in received) => p \in handedPkts

\* The limit is one on messages: however its sub-packets are reordered, repeated
\* or mixed with those of other packets, a packet makes rdpk_ack_all overrun its
\* array only by more bytes of that one packet than the array holds.
OnlyLongOverruns ==
    smashed =>
        \E p \in PktIds : Bytes(p, {i \in Subs(p) : <<p, i>> \in received}) > CbSize

============================================================================
