------------------------ MODULE RudpTransportProofs ------------------------
(***************************************************************************)
(* Proofs about a rudp session, for any number of threads in send_data and *)
(* any set of packets of any sizes.  First the sending end: what SUCCESS   *)
(* is worth is proved for any growing set G of sub-packets out of which    *)
(* acknowledgements come, so that it serves both the sending end alone (G  *)
(* is what was sent) and the two ends together (G is what was received).   *)
(* Then the receiving end: its safety invariants, by way of one inductive  *)
(* invariant.  Then the two ends over a network that loses, duplicates,    *)
(* delays and reorders: each end keeps its own invariant, and what the     *)
(* sender counts as acknowledged has been received, since whatever the     *)
(* receiver acknowledges has.  Last the two ends on a path that keeps      *)
(* datagrams in order, where the session implements MessageService.        *)
(***************************************************************************)
EXTENDS RudpTransport, RudpOrdered, FiniteSetTheorems, SequenceTheorems, TLAPS

----------------------------------------------------------------------------
(***************************************************************************)
(* The sending end.                                                        *)
(***************************************************************************)

\* Where acknowledgements count for a thread's packet.
Counting == {"loop", "late", "check"}

\* A thread in send_data is at a sub-packet of a packet.
Working == \A t \in Threads : Active(t) => mine[t] \in PktIds /\ slot[t] \in Subs(mine[t])

\* An aside thread that has not given up has an attempt left.
AttemptsLeft == \A t \in AsideThreads : pc[t] # "ended" => tries[t] < AsideTries

\* The flag is set only while some thread is in send_data.
Flagged == sendflag = 1 => \E t \in Threads : Active(t)

TxInv == TxTypeOK /\ Working /\ AttemptsLeft /\ Flagged

(***************************************************************************)
(* A packet that is not excused has send_data to itself; when its id is    *)
(* installed no entry of s->ack is left from before, and from then on each *)
(* entry, written or about to be, is of a sub-packet in G.                 *)
(***************************************************************************)
AckSound(t, G) ==
    /\ \A u \in Threads : Active(u) => u = t
    /\ pc[t] = "setid" => ack \cap Subs(mine[t]) = {}
    /\ pc[t] \in Counting =>
          /\ pkt_id = mine[t]
          /\ \A i \in (ack \cup pend) \cap Subs(mine[t]) : <<mine[t], i>> \in G

AckInv(G) ==
    \A t \in Threads : Active(t) /\ mine[t] \notin excused => AckSound(t, G)

\* What SUCCESS is worth, of G.
SuccessIn(G) ==
    \A p \in PktIds :
        outcome[p] = "SUCCESS" /\ p \notin excused => \A i \in Subs(p) : <<p, i>> \in G


----------------------------------------------------------------------------
\* The sub ids of a packet are counted from 0, and each names a slot and a datagram.
LEMMA SubFacts ==
    ASSUME NEW p \in PktIds
    PROVE  /\ SubCount[p] \in Nat \ {0} /\ p \in Nat
           /\ 0 \in Subs(p)
           /\ \A i \in Subs(p) :
                 /\ i \in Nat /\ i \in Slots /\ <<p, i>> \in Datagrams
                 /\ i + 1 # SubCount[p] => i + 1 \in Subs(p)
<1>1. SubCount[p] \in Nat \ {0} /\ p \in Nat
  BY SubCountAssumption, PktIdsAssumption
<1>2. 0 \in Subs(p) /\ \A i \in Subs(p) : i \in Nat /\ (i + 1 # SubCount[p] => i + 1 \in Subs(p))
  BY <1>1 DEF Subs
<1>3. \A i \in Subs(p) : i \in Slots
  BY DEF Slots
<1>4. ASSUME NEW i \in Subs(p) PROVE <<p, i>> \in Datagrams
  BY <1>2, <1>4 DEF Datagrams
<1> QED
  BY <1>1, <1>2, <1>3, <1>4

\* A datagram is a packet and one of its sub ids.
LEMMA DatagramFacts ==
    ASSUME NEW d \in Datagrams
    PROVE  d = <<d[1], d[2]>> /\ d[1] \in PktIds /\ d[2] \in Subs(d[1])
BY DEF Datagrams

\* In the beginning no thread is in send_data and nothing is set.
LEMMA TxInitInv == TxInit => TxInv
<1> SUFFICES ASSUME TxInit PROVE TxInv
  OBVIOUS
<1>1. TxTypeOK
  <2> USE DEF TxInit
  <2>1. packet_id \in Nat /\ tx_timeout \in BOOLEAN /\ sendflag \in {0, 1} /\ pkt_id \in PktIds \cup {0}
    BY PktIdsAssumption
  <2>2. data \in [Slots -> Datagrams \cup {NoData}] /\ ack \subseteq Slots /\ pend \subseteq Slots
    OBVIOUS
  <2>3. pc \in [Threads -> Places] /\ due \in [Threads -> BOOLEAN]
    BY DEF Places
  <2>4. mine \in [Threads -> PktIds \cup {0}] /\ slot \in [Threads -> Nat]
    OBVIOUS
  <2>5. 0 \in 0 .. TicksPerPkt /\ 0 \in 0 .. MaxResend + 1 /\ 0 \in 0 .. AsideTries
    BY SenderBounds
  <2>6. /\ elapsed \in [Threads -> 0 .. TicksPerPkt]
        /\ resend \in [Threads -> 0 .. MaxResend + 1]
        /\ tries \in [Threads -> 0 .. AsideTries]
    BY <2>5
  <2>7. outcome \in [PktIds -> Outcomes] /\ net \subseteq Datagrams /\ excused \subseteq PktIds
    BY DEF Outcomes
  <2> QED
    BY <2>1, <2>2, <2>3, <2>4, <2>6, <2>7 DEF TxTypeOK
<1>2. Working /\ AttemptsLeft /\ Flagged
  BY SenderBounds DEF TxInit, Working, AttemptsLeft, Flagged, Active, Threads
<1> QED
  BY <1>1, <1>2 DEF TxInv

----------------------------------------------------------------------------
\* A thread takes a step outside send_data.
LEMMA CallInv ==
    ASSUME TxInv, NEW t \in Threads, Call(t)
    PROVE  TxInv'
<1> USE DEF TxInv
<1>1. CASE Begin(t)
  <2> USE <1>1
  <2>1. packet_id \in PktIds /\ packet_id + 1 \in Nat /\ 0 \in Subs(packet_id)
    BY SubFacts, PktIdsAssumption DEF Begin
  <2>2. InSend \cup {packet_id} \subseteq PktIds
    BY <2>1 DEF InSend, Working
  <2>3. TxTypeOK'
    BY <2>1, <2>2 DEF Begin, TxTypeOK, Places
  <2>4. Working'
    BY <2>1 DEF Begin, TxTypeOK, Working, Active
  <2>5. AttemptsLeft' /\ Flagged'
    BY DEF Begin, TxTypeOK, AttemptsLeft, Flagged, Active, Threads
  <2> QED
    BY <2>3, <2>4, <2>5
<1>2. CASE Refused(t)
  <2> USE <1>2
  <2>1. t \in AsideThreads /\ tries[t] \in Nat /\ tries[t] < AsideTries
    BY SenderBounds DEF Refused, TxTypeOK, AttemptsLeft
  <2>2. tries[t] + 1 \in 0 .. AsideTries
    BY <2>1, SenderBounds
  <2>3. TxTypeOK'
    BY <2>2 DEF Refused, TxTypeOK, Places
  <2>4. Working'
    BY DEF Refused, TxTypeOK, Working, Active
  <2>5. AttemptsLeft'
    BY <2>1, SenderBounds DEF Refused, TxTypeOK, AttemptsLeft, Threads
  <2>6. Flagged'
    BY DEF Refused, TxTypeOK, Flagged, Active
  <2> QED
    BY <2>3, <2>4, <2>5, <2>6
<1> QED
  BY <1>1, <1>2 DEF Call

\* A thread takes a step inside send_data.
LEMMA SendDataInv ==
    ASSUME TxInv, NEW t \in Threads, SendData(t)
    PROVE  TxInv'
<1> USE DEF TxInv
<1> DEFINE p == mine[t]
           i == slot[t]
<1>0. Active(t) /\ p \in PktIds /\ i \in Subs(p)
  BY DEF SendData, Working, Active, Fill, Hold, SetPktId, SendSlot, SendFails, Extend, GiveUp,
         KeepOn, AllAcked, Release, Late, AfterSend, Polling
<1>1. /\ 0 \in Subs(p) /\ i \in Slots /\ i \in Nat /\ <<p, i>> \in Datagrams
      /\ i + 1 # SubCount[p] => i + 1 \in Subs(p) /\ i + 1 \in Nat
  BY <1>0, SubFacts
<1> HIDE DEF p, i
<1>2. CASE Fill(t)
  <2>1. data' \in [Slots -> Datagrams \cup {NoData}]
    BY <1>1, <1>2 DEF Fill, TxTypeOK, p, i
  <2>2. slot' \in [Threads -> Nat] /\ pc' \in [Threads -> Places]
    BY <1>1, <1>2 DEF Fill, TxTypeOK, Places, p, i
  <2>3. TxTypeOK'
    BY <2>1, <2>2, <1>2 DEF Fill, TxTypeOK
  <2>4. Working'
    BY <1>0, <1>1, <1>2 DEF Fill, TxTypeOK, Working, Active, p, i
  <2>5. AttemptsLeft' /\ Flagged'
    BY <1>2 DEF Fill, TxTypeOK, AttemptsLeft, Flagged, Active, Threads
  <2> QED
    BY <2>3, <2>4, <2>5
<1>3. CASE Hold(t)
  <2>1. TxTypeOK'
    BY <1>3 DEF Hold, TxTypeOK, Places
  <2>2. Working' /\ AttemptsLeft'
    BY <1>3 DEF Hold, TxTypeOK, Working, AttemptsLeft, Active, Threads
  <2>3. Flagged'
    BY <1>3 DEF Hold, TxTypeOK, Flagged, Active
  <2> QED
    BY <2>1, <2>2, <2>3
<1>4. CASE SetPktId(t)
  <2>1. TxTypeOK'
    BY <1>0, <1>4, SenderBounds DEF SetPktId, TxTypeOK, Places, p
  <2>2. Working' /\ AttemptsLeft' /\ Flagged'
    BY <1>4 DEF SetPktId, TxTypeOK, Working, AttemptsLeft, Flagged, Active, Threads
  <2> QED
    BY <2>1, <2>2
<1>5. CASE SendSlot(t)
  <2>1. net' \subseteq Datagrams
    BY <1>1, <1>5 DEF SendSlot, TxTypeOK, Emitted, i
  <2>2. slot' \in [Threads -> Nat] /\ pc' \in [Threads -> Places]
    BY <1>1, <1>5 DEF SendSlot, TxTypeOK, Places, p, i
  <2>2a. due' = due \/ due' = [due EXCEPT ![t] = FALSE]
    BY <1>5, Zenon DEF SendSlot
  <2>2b. due' \in [Threads -> BOOLEAN]
    BY <2>2a, Zenon DEF TxTypeOK
  <2>3. TxTypeOK'
    BY <2>1, <2>2, <2>2b, <1>5 DEF SendSlot, TxTypeOK
  <2>4. Working'
    BY <1>0, <1>1, <1>5 DEF SendSlot, TxTypeOK, Working, Active, p, i
  <2>5. AttemptsLeft' /\ Flagged'
    BY <1>5 DEF SendSlot, TxTypeOK, AttemptsLeft, Flagged, Active, Threads
  <2> QED
    BY <2>3, <2>4, <2>5
<1>6. CASE SendFails(t)
  <2>1. TxTypeOK'
    BY <1>6 DEF SendFails, TxTypeOK, Places
  <2>2. Working'
    BY <1>0, <1>1, <1>6 DEF SendFails, TxTypeOK, Working, Active, p, i
  <2>3. AttemptsLeft' /\ Flagged'
    BY <1>6 DEF SendFails, TxTypeOK, AttemptsLeft, Flagged, Active, Threads
  <2> QED
    BY <2>1, <2>2, <2>3
<1>7. CASE Extend(t)
  <2>1. resend[t] + 1 \in 0 .. MaxResend + 1
    BY <1>7, SenderBounds DEF Extend, TxTypeOK
  <2>2. TxTypeOK'
    BY <2>1, <1>7, SenderBounds DEF Extend, TxTypeOK, Places
  <2>3. Working' /\ AttemptsLeft' /\ Flagged'
    BY <1>7 DEF Extend, Late, AfterSend, TxTypeOK, Working, AttemptsLeft, Flagged, Active, Threads
  <2> QED
    BY <2>2, <2>3
<1>8. CASE GiveUp(t)
  <2>1. TxTypeOK'
    BY <1>8 DEF GiveUp, TxTypeOK, Places, Outcomes
  <2>2. Working' /\ AttemptsLeft' /\ Flagged'
    BY <1>8 DEF GiveUp, Late, AfterSend, TxTypeOK, Working, AttemptsLeft, Flagged, Active, Threads
  <2> QED
    BY <2>1, <2>2
<1>9. CASE KeepOn(t)
  <2>1. TxTypeOK'
    BY <1>9 DEF KeepOn, TxTypeOK, Places
  <2>2. Working' /\ AttemptsLeft' /\ Flagged'
    BY <1>9 DEF KeepOn, Polling, AfterSend, TxTypeOK, Working, AttemptsLeft, Flagged, Active, Threads
  <2> QED
    BY <2>1, <2>2
<1>10. CASE AllAcked(t)
  <2>1. TxTypeOK'
    BY <1>10 DEF AllAcked, TxTypeOK, Places, Outcomes
  <2>2. Working' /\ AttemptsLeft' /\ Flagged'
    BY <1>10 DEF AllAcked, Polling, AfterSend, TxTypeOK, Working, AttemptsLeft, Flagged, Active, Threads
  <2> QED
    BY <2>1, <2>2
<1>11. CASE Release(t)
  <2>1. CASE t \in StreamThreads
    <3>1. TxTypeOK'
      BY <2>1, <1>11 DEF Release, TxTypeOK, Places
    <3>2. Working' /\ AttemptsLeft' /\ Flagged'
      BY <2>1, <1>11, ThreadsAssumption
         DEF Release, TxTypeOK, Working, AttemptsLeft, Flagged, Active, Threads
    <3> QED
      BY <3>1, <3>2
  <2>2. CASE t \in AsideThreads
    <3>0. t \notin StreamThreads
      BY <2>2, ThreadsAssumption
    <3>1. tries[t] \in Nat /\ tries[t] < AsideTries
      BY <2>2, <1>11, SenderBounds DEF Release, TxTypeOK, AttemptsLeft
    <3>2. tries[t] + 1 \in 0 .. AsideTries
      BY <3>1, SenderBounds
    <3>3. tries' \in [Threads -> 0 .. AsideTries] /\ pc' \in [Threads -> Places]
      BY <3>0, <3>2, <1>11 DEF Release, TxTypeOK, Places
    <3>4. TxTypeOK'
      BY <3>3, <1>11 DEF Release, TxTypeOK
    <3>5. Working' /\ Flagged'
      BY <3>0, <1>11 DEF Release, TxTypeOK, Working, Flagged, Active
    <3>6. AttemptsLeft'
      BY <3>0, <3>1, <1>11, SenderBounds DEF Release, TxTypeOK, AttemptsLeft, Threads
    <3> QED
      BY <3>4, <3>5, <3>6
  <2> QED
    BY <2>1, <2>2 DEF Threads
<1> QED
  BY <1>2, <1>3, <1>4, <1>5, <1>6, <1>7, <1>8, <1>9, <1>10, <1>11 DEF SendData

\* The clock ticks, an acknowledgement is accepted or written, or the session ends.
LEMMA OtherInv ==
    ASSUME TxInv,
           \/ Tick \/ WriteAck \/ TxQuit \/ UNCHANGED txVars
           \/ \E d \in Datagrams : AcceptAck(d[1], d[2])
    PROVE  TxInv'
<1> USE DEF TxInv
<1>1. CASE Tick
  <2>1. due' \in [Threads -> BOOLEAN]
    BY <1>1, Zenon DEF Tick
  <2>2. elapsed' \in [Threads -> 0 .. TicksPerPkt]
    BY <1>1, SenderBounds DEF Tick, TxTypeOK
  <2>3. TxTypeOK'
    BY <2>1, <2>2, <1>1 DEF Tick, TxTypeOK
  <2>4. Working' /\ AttemptsLeft' /\ Flagged'
    BY <1>1 DEF Tick, Working, AttemptsLeft, Flagged, Active
  <2> QED
    BY <2>3, <2>4
<1>2. CASE WriteAck
  <2>1. \A t \in Threads : pc[t] = "setid" => mine[t] \in PktIds
    BY DEF Working, Active
  <2>2. excused' \subseteq PktIds /\ ack' \subseteq Slots /\ pend' \subseteq Slots
    BY <2>1, <1>2 DEF WriteAck, TxTypeOK
  <2>3. TxTypeOK'
    BY <2>2, <1>2 DEF WriteAck, TxTypeOK
  <2>4. Working' /\ AttemptsLeft' /\ Flagged'
    BY <1>2 DEF WriteAck, Working, AttemptsLeft, Flagged, Active
  <2> QED
    BY <2>3, <2>4
<1>3. CASE TxQuit
  <2>1. TxTypeOK'
    BY <1>3 DEF TxQuit, TxTypeOK
  <2>2. Working' /\ AttemptsLeft' /\ Flagged'
    BY <1>3 DEF TxQuit, Working, AttemptsLeft, Flagged, Active
  <2> QED
    BY <2>1, <2>2
<1>4. CASE UNCHANGED txVars
  <2>1. TxTypeOK'
    BY <1>4 DEF txVars, TxTypeOK
  <2>2. Working' /\ AttemptsLeft' /\ Flagged'
    BY <1>4 DEF txVars, Working, AttemptsLeft, Flagged, Active
  <2> QED
    BY <2>1, <2>2
<1>5. CASE \E d \in Datagrams : AcceptAck(d[1], d[2])
  <2>1. PICK d \in Datagrams : AcceptAck(d[1], d[2])
    BY <1>5
  <2>2. pend' \subseteq Slots
    BY <2>1, DatagramFacts, SubFacts DEF AcceptAck
  <2>3. TxTypeOK'
    BY <2>1, <2>2 DEF AcceptAck, TxTypeOK
  <2>4. Working' /\ AttemptsLeft' /\ Flagged'
    BY <2>1 DEF AcceptAck, Working, AttemptsLeft, Flagged, Active
  <2> QED
    BY <2>3, <2>4
<1> QED
  BY <1>1, <1>2, <1>3, <1>4, <1>5

----------------------------------------------------------------------------
\* A step of the sending end in which acknowledgements come out of G.
Stepping(G) ==
    \/ \E t \in Threads : Call(t) \/ SendData(t)
    \/ Tick \/ WriteAck \/ TxQuit \/ UNCHANGED txVars
    \/ \E d \in G : AcceptAck(d[1], d[2])

\* Any such step keeps the types and the bookkeeping of the flag.
LEMMA SteppingInv ==
    ASSUME TxInv, NEW G, G \subseteq Datagrams, Stepping(G)
    PROVE  TxInv'
BY CallInv, SendDataInv, OtherInv DEF Stepping

\* While a thread is in send_data with a packet that is not excused, no other
\* thread is.
LEMMA Alone ==
    ASSUME NEW G, AckInv(G), NEW t \in Threads, NEW u \in Threads,
           Active(t), Active(u), mine[t] \notin excused
    PROVE  u = t
BY DEF AckInv, AckSound

\* More acknowledgements may come, and nothing else changes.
LEMMA AckGrows ==
    ASSUME NEW G, NEW H, G \subseteq H, AckInv(G), SuccessIn(G)
    PROVE  AckInv(H) /\ SuccessIn(H)
BY DEF AckInv, AckSound, SuccessIn

\* A thread's step leaves what its packet's acknowledgements are worth.
LEMMA ThreadAcks ==
    ASSUME TxInv, NEW G, AckInv(G), NEW t \in Threads, Call(t) \/ SendData(t)
    PROVE  AckInv(G)'
<1> SUFFICES ASSUME NEW u \in Threads, Active(u)', mine'[u] \notin excused'
             PROVE  AckSound(u, G)'
  BY DEF AckInv
<1> USE DEF TxInv
<1>0. pc \in [Threads -> Places] /\ mine \in [Threads -> PktIds \cup {0}]
  BY DEF TxTypeOK
<1>1. CASE Begin(t)
  <2>1. InSend = {}
    BY <1>1, <1>0 DEF Begin, InSend, Active
  <2>2. \A v \in Threads : ~Active(v)
    BY <2>1 DEF InSend
  <2>3. \A v \in Threads : Active(v)' <=> v = t
    BY <1>0, <1>1, <2>2 DEF Begin, Active
  <2> QED
    BY <1>0, <1>1, <2>3 DEF Begin, AckSound, Counting
<1>2. CASE Refused(t)
  <2>1. /\ \A v \in Threads : Active(v)' => Active(v)
        /\ UNCHANGED <<mine, excused, ack, pend, pkt_id>>
        /\ pc'[u] = pc[u]
    BY <1>0, <1>2 DEF Refused, Active
  <2> QED
    BY <2>1 DEF AckInv, AckSound
<1>3. CASE SendData(t)
  <2>1. Active(t) /\ mine' = mine /\ excused \subseteq excused'
    BY <1>3 DEF SendData, Active, Fill, Hold, SetPktId, SendSlot, SendFails, Extend, GiveUp,
         KeepOn, AllAcked, Release, Late, AfterSend, Polling
  <2>2. \A v \in Threads : Active(v)' => Active(v)
    BY <1>0, <1>3 DEF SendData, Active, Fill, Hold, SetPktId, SendSlot, SendFails, Extend, GiveUp,
         KeepOn, AllAcked, Release, Late, AfterSend, Polling
  <2>3. Active(u) /\ mine[u] \notin excused /\ AckSound(u, G) /\ u = t
    BY <2>1, <2>2, Alone DEF AckInv
  <2>4. \A v \in Threads : Active(v)' => v = u
    BY <2>2, <2>3 DEF AckSound
  <2>5. CASE Hold(t)
    BY <1>0, <2>3, <2>4, <2>5 DEF Hold, AckSound, Counting
  <2>6. CASE SetPktId(t)
    <3>1. pend = {}
      BY <2>3, <2>6 DEF SetPktId
    <3> QED
      BY <1>0, <2>3, <2>4, <2>6, <3>1 DEF SetPktId, AckSound, Counting
  <2>7. CASE Fill(t) \/ GiveUp(t) \/ AllAcked(t) \/ Release(t)
    <3>1. pc'[u] \notin Counting \cup {"setid"}
      BY <1>0, <2>3, <2>7 DEF Fill, GiveUp, AllAcked, Release, Counting
    <3> QED
      BY <2>4, <3>1 DEF AckSound
  <2>8. CASE SendSlot(t) \/ SendFails(t) \/ Extend(t) \/ KeepOn(t)
    <3>1. UNCHANGED <<mine, ack, pend, pkt_id>>
      BY <2>8 DEF SendSlot, SendFails, Extend, KeepOn
    <3>2. pc[u] \in Counting /\ pc'[u] \in Counting
      BY <1>0, <2>3, <2>8 DEF SendSlot, SendFails, Extend, KeepOn, Late, AfterSend, Polling, Counting
    <3> QED
      BY <2>3, <2>4, <3>1, <3>2 DEF AckSound, Counting
  <2> QED
    BY <1>3, <2>5, <2>6, <2>7, <2>8 DEF SendData
<1> QED
  BY <1>1, <1>2, <1>3 DEF Call

\* So does every other step: what is accepted comes out of G, and a write that
\* meets a packet being installed excuses it.
LEMMA AckStep ==
    ASSUME TxInv, NEW G, AckInv(G), Stepping(G), G \subseteq Datagrams
    PROVE  AckInv(G)'
<1>1. CASE \E t \in Threads : Call(t) \/ SendData(t)
  BY <1>1, ThreadAcks
<1>2. CASE Tick \/ TxQuit \/ UNCHANGED txVars
  BY <1>2 DEF Tick, TxQuit, txVars, AckInv, AckSound, Active
<1>3. CASE WriteAck
  <2>1. \A t \in Threads : mine[t] \notin excused' => mine[t] \notin excused /\ pc[t] # "setid"
    BY <1>3 DEF WriteAck
  <2> QED
    BY <1>3, <2>1 DEF WriteAck, AckInv, AckSound, Active
<1>4. CASE \E d \in G : AcceptAck(d[1], d[2])
  <2>1. PICK d \in G : AcceptAck(d[1], d[2])
    BY <1>4
  <2>2. <<pkt_id, d[2]>> \in G /\ pend' = {d[2]}
    BY <2>1, DatagramFacts DEF AcceptAck
  <2> QED
    BY <2>1, <2>2 DEF AcceptAck, AckInv, AckSound, Active
<1> QED
  BY <1>1, <1>2, <1>3, <1>4 DEF Stepping

\* And SUCCESS is returned only for what is acknowledged to the last sub-packet.
LEMMA SuccessStep ==
    ASSUME TxInv, NEW G, AckInv(G), SuccessIn(G), Stepping(G)
    PROVE  SuccessIn(G)'
<1>1. CASE \E t \in Threads : AllAcked(t)
  <2>1. PICK t \in Threads : AllAcked(t)
    BY <1>1
  <2>2. Active(t) /\ pc[t] \in Counting /\ mine[t] \in PktIds
    BY <2>1 DEF AllAcked, Polling, AfterSend, Active, Counting, TxInv, Working
  <2>3. mine[t] \notin excused => \A i \in Subs(mine[t]) : <<mine[t], i>> \in G
    BY <2>1, <2>2 DEF AllAcked, AckInv, AckSound
  <2> QED
    BY <2>1, <2>2, <2>3 DEF AllAcked, SuccessIn, TxInv, TxTypeOK
<1>2. CASE \E t \in Threads : GiveUp(t)
  <2>1. PICK t \in Threads : GiveUp(t)
    BY <1>2
  <2> QED
    BY <2>1 DEF GiveUp, SuccessIn, TxInv, TxTypeOK
<1>3. CASE outcome' = outcome /\ excused \subseteq excused'
  BY <1>3 DEF SuccessIn
<1>4. ASSUME ~\E t \in Threads : AllAcked(t) \/ GiveUp(t)
      PROVE  outcome' = outcome /\ excused \subseteq excused'
  BY <1>4 DEF Stepping, Call, Begin, Refused, SendData, Fill, Hold, SetPktId, SendSlot,
         SendFails, Extend, KeepOn, Release, Tick, WriteAck, TxQuit, AcceptAck, txVars
<1> QED
  BY <1>1, <1>2, <1>3, <1>4

----------------------------------------------------------------------------
\* The sending end alone: what is acknowledged was sent.
LEMMA TxNextInv == TxInv /\ [TxNext]_txVars => TxInv'
<1> SUFFICES ASSUME TxInv, [TxNext]_txVars PROVE TxInv'
  OBVIOUS
<1>1. net \subseteq Datagrams
  BY DEF TxInv, TxTypeOK
<1>2. PICK G : G = net
  OBVIOUS
<1>3. Stepping(G)
  BY <1>2 DEF TxNext, RecvAck, Stepping
<1> QED
  BY <1>1, <1>2, <1>3, SteppingInv

\* What was sent stays sent.
LEMMA NetGrows == TxInv /\ [TxNext]_txVars => net \subseteq net'
<1> SUFFICES ASSUME [TxNext]_txVars PROVE net \subseteq net'
  OBVIOUS
<1> QED
  BY DEF TxNext, RecvAck, Call, Begin, Refused, SendData, Fill, Hold, SetPktId, SendSlot,
         SendFails, Extend, GiveUp, KeepOn, AllAcked, Release, Tick, WriteAck, TxQuit,
         AcceptAck, txVars

LEMMA TxAcks ==
    TxInv /\ AckInv(net) /\ SuccessIn(net) /\ [TxNext]_txVars
        => AckInv(net)' /\ SuccessIn(net)'
<1> SUFFICES ASSUME TxInv, AckInv(net), SuccessIn(net), [TxNext]_txVars
             PROVE  AckInv(net)' /\ SuccessIn(net)'
  OBVIOUS
<1>1. PICK G, H : G = net /\ H = net'
  OBVIOUS
<1>2. Stepping(G) /\ G \subseteq Datagrams /\ G \subseteq H
  BY <1>1, NetGrows DEF TxNext, RecvAck, Stepping, TxInv, TxTypeOK
<1>3. AckInv(G) /\ SuccessIn(G)
  BY <1>1
<1>4. AckInv(G)' /\ SuccessIn(G)'
  BY <1>2, <1>3, AckStep, SuccessStep
<1>5. AckInv(H)' /\ SuccessIn(H)'
  BY <1>2, <1>4 DEF AckInv, AckSound, SuccessIn
<1> QED
  BY <1>1, <1>5

\* The invariant of the sending end.
THEOREM TxInductive == TxSpec => [](TxInv /\ AckInv(net) /\ SuccessIn(net))
<1>1. TxInit => TxInv /\ AckInv(net) /\ SuccessIn(net)
  BY TxInitInv DEF TxInit, AckInv, SuccessIn, Active
<1> QED
  BY <1>1, TxNextInv, TxAcks, PTL DEF TxSpec

\* The types of the sending end's state (struct session's half of send.c):
\* no slot or count leaves its range, however the threads interleave.
THEOREM TxTypeCorrect == TxSpec => []TxTypeOK
<1>1. TxInv => TxTypeOK
  BY DEF TxInv
<1> QED
  BY <1>1, TxInductive, PTL

\* What SUCCESS is worth (get_send_stauts on the ack array two threads write):
\* for any threads, packets and sizes, with the two exceptions it names.
THEOREM SuccessIsWorth == TxSpec => []SuccessWasSent
<1>1. SuccessIn(net) => SuccessWasSent
  BY DEF SuccessIn, SuccessWasSent
<1> QED
  BY <1>1, TxInductive, PTL

\* No return of send_data leaves s->sendflag set (send.c's early returns).
THEOREM FlagReleased == TxSpec => []FlagIsReleased
<1>1. TxInv => FlagIsReleased
  BY DEF TxInv, TxTypeOK, Flagged, FlagIsReleased, InSend
<1> QED
  BY <1>1, TxInductive, PTL

----------------------------------------------------------------------------
(***************************************************************************)
(* The receiving end.                                                      *)
(***************************************************************************)

\* A reassembly: what it holds arrived (arr), and its count exceeds what it
\* holds exactly when something in it was overtaken.
Sound(r, arr) ==
    /\ r \in Recv
    /\ r.subpkt \subseteq Subs(r.pkt_id)
    /\ AckOf(r) \subseteq arr
    /\ Cardinality(r.subpkt) <= r.recved
    /\ r.ascending <=> Cardinality(r.subpkt) = r.recved

\* What is true of a payload.
GoodPayload(m, arr) ==
    /\ m \in Payload
    /\ m.subs # {}
    /\ \A j \in m.subs : <<m.pkt_id, j>> \in arr
    /\ m.complete => (m.ascending <=> m.subs = Subs(m.pkt_id))

GoodPayloads(s, arr) == \A k \in DOMAIN s : GoodPayload(s[k], arr)

OpenInv ==
    recv # NoRecv =>
        /\ Sound(recv, received)
        /\ recv.subpkt # {}
        /\ cur_pktid = recv.pkt_id

\* The sub-packets of p that arrived.
Arrived(p) == {i \in Subs(p) : <<p, i>> \in received}

\* A packet of which the application has nothing: nothing arrived, or it is the
\* one being reassembled and every arrival is counted, or the session is over.
Pending(p) ==
    \/ Arrived(p) = {}
    \/ recv # NoRecv /\ recv.pkt_id = p /\ Cardinality(Arrived(p)) <= recv.recved
    \/ rx_timeout /\ Arrived(p) # Subs(p)

PendingInv == \A p \in PktIds \ handedPkts : Pending(p)

\* A packet that receive_data_new would refuse has reached the application.
SeenInv == recv = NoRecv /\ ~rx_timeout /\ cur_pktid # 0 => cur_pktid \in handedPkts

RxInv ==
    /\ RxTypeOK
    /\ ~smashed
    /\ AckedWasReceived
    /\ GoodPayloads(handed, received)
    /\ OpenInv
    /\ PendingInv
    /\ SeenInv

\* All of it until cbdata is overrun; the types, and why it was, for ever.
RxSafe == RxTypeOK /\ (~smashed => RxInv) /\ OnlyLongOverruns

----------------------------------------------------------------------------
\* The sub ids of a packet are as many as its count.
LEMMA SubsCard ==
    ASSUME NEW p \in PktIds
    PROVE  /\ SubCount[p] \in Nat \ {0}
           /\ p \in Nat
           /\ Subs(p) \subseteq Nat
           /\ IsFiniteSet(Subs(p))
           /\ Cardinality(Subs(p)) = SubCount[p]
<1>1. SubCount[p] \in Nat \ {0} /\ p \in Nat
  BY SubCountAssumption, PktIdsAssumption
<1>2. Subs(p) \subseteq Nat
  BY <1>1 DEF Subs
<1>3. 0 \in Int /\ SubCount[p] - 1 \in Int
  BY <1>1
<1>4. IsFiniteSet(Subs(p)) /\ Cardinality(Subs(p)) = SubCount[p]
  <2>1. /\ IsFiniteSet(0 .. SubCount[p] - 1)
        /\ Cardinality(0 .. SubCount[p] - 1) =
              IF 0 > SubCount[p] - 1 THEN 0 ELSE SubCount[p] - 1 - 0 + 1
    BY <1>3, FS_Interval
  <2> QED
    BY <1>1, <2>1 DEF Subs
<1> QED
  BY <1>1, <1>2, <1>4

\* Inserting adds at most one element, and exactly one when it comes last.
LEMMA InsertCard ==
    ASSUME NEW S, S \subseteq Nat, IsFiniteSet(S), NEW i \in Nat, i \notin S
    PROVE  /\ IsFiniteSet(Insert(S, i))
           /\ Cardinality(Insert(S, i)) \in Nat
           /\ Cardinality(S) \in Nat
           /\ Cardinality(Insert(S, i)) <= Cardinality(S) + 1
           /\ Cardinality(Insert(S, i)) = Cardinality(S) + 1 <=> \A j \in S : j < i
<1> DEFINE T == {j \in S : j < i}
<1>1. T \in SUBSET S
  OBVIOUS
<1>2. /\ IsFiniteSet(T) /\ Cardinality(T) <= Cardinality(S)
      /\ Cardinality(S) = Cardinality(T) => S = T
  BY <1>1, FS_Subset
<1>3. Cardinality(S) \in Nat /\ Cardinality(T) \in Nat
  BY <1>2, FS_CardinalityType
<1>4. i \notin T
  OBVIOUS
<1>5. IsFiniteSet(T \cup {i}) /\ Cardinality(T \cup {i}) = Cardinality(T) + 1
  BY <1>2, <1>4, FS_AddElement
<1>6. (\A j \in S : j < i) => T = S
  OBVIOUS
<1>7. T = S => \A j \in S : j < i
  OBVIOUS
<1>8. Insert(S, i) = T \cup {i}
  BY DEF Insert
<1> HIDE DEF T
<1> QED
  BY <1>2, <1>3, <1>5, <1>6, <1>7, <1>8

\* The set a reassembly holds is finite.
LEMMA SoundFinite ==
    ASSUME NEW r, NEW arr, Sound(r, arr)
    PROVE  /\ r.pkt_id \in PktIds
           /\ r.subpkt \subseteq Nat
           /\ IsFiniteSet(r.subpkt)
           /\ Cardinality(r.subpkt) \in Nat
           /\ r.recved \in Nat
<1>1. r.pkt_id \in PktIds /\ r.recved \in Nat /\ r.subpkt \in SUBSET Subs(r.pkt_id)
  BY DEF Sound, Recv
<1>2. IsFiniteSet(Subs(r.pkt_id)) /\ Subs(r.pkt_id) \subseteq Nat
  BY <1>1, SubsCard
<1>3. IsFiniteSet(r.subpkt)
  BY <1>1, <1>2, FS_Subset
<1> QED
  BY <1>1, <1>2, <1>3, FS_CardinalityType

\* A record with the fields of a reassembly is one.
LEMMA RecvIntro ==
    ASSUME NEW p \in PktIds, NEW n \in Nat, NEW S \in SUBSET Nat, NEW b \in BOOLEAN
    PROVE  [pkt_id |-> p, recved |-> n, subpkt |-> S, ascending |-> b] \in Recv
BY DEF Recv

\* A new reassembly holds nothing and counts nothing.
LEMMA FreshSound ==
    ASSUME NEW p \in PktIds, NEW arr
    PROVE  Sound(Fresh(p), arr)
BY FS_EmptySet DEF Sound, Fresh, Recv, AckOf

\* Adding a sub-packet that arrived and is not in the list.
LEMMA AddedSound ==
    ASSUME NEW r, NEW arr, Sound(r, arr), NEW i \in Subs(r.pkt_id), i \notin r.subpkt
    PROVE  /\ Sound(Added(r, i), arr \cup {<<r.pkt_id, i>>})
           /\ Added(r, i).subpkt # {}
           /\ Added(r, i).pkt_id = r.pkt_id
           /\ Added(r, i).recved = r.recved + 1
<1> DEFINE a == Added(r, i)
<1>1. /\ r.pkt_id \in PktIds /\ r.subpkt \subseteq Nat /\ IsFiniteSet(r.subpkt)
      /\ Cardinality(r.subpkt) \in Nat /\ r.recved \in Nat
  BY SoundFinite
<1>2. i \in Nat
  BY <1>1, SubsCard
<1>3. r \in Recv
  BY DEF Sound
<1>4. /\ a.pkt_id = r.pkt_id
      /\ a.recved = r.recved + 1
      /\ a.subpkt = Insert(r.subpkt, i)
      /\ a.ascending = (r.ascending /\ \A j \in r.subpkt : j < i)
  BY <1>3 DEF Added, Recv
<1>5. Insert(r.subpkt, i) \subseteq Subs(r.pkt_id)
  BY DEF Insert, Sound
<1>6. a \in Recv
  <2>1. Insert(r.subpkt, i) \in SUBSET Nat
    BY <1>1, <1>2 DEF Insert
  <2>2. (r.ascending /\ \A j \in r.subpkt : j < i) \in BOOLEAN
    OBVIOUS
  <2>3. r.recved + 1 \in Nat
    BY <1>1
  <2> QED
    BY <1>1, <2>1, <2>2, <2>3, RecvIntro, Zenon DEF Added
<1>7. AckOf(a) \subseteq arr \cup {<<r.pkt_id, i>>}
  BY <1>4 DEF AckOf, Insert, Sound
<1>8. /\ Cardinality(Insert(r.subpkt, i)) \in Nat
      /\ Cardinality(Insert(r.subpkt, i)) <= Cardinality(r.subpkt) + 1
      /\ Cardinality(Insert(r.subpkt, i)) = Cardinality(r.subpkt) + 1
            <=> \A j \in r.subpkt : j < i
  BY <1>1, <1>2, InsertCard
<1>9. Cardinality(r.subpkt) <= r.recved
      /\ (r.ascending <=> Cardinality(r.subpkt) = r.recved)
  BY DEF Sound
<1>10. Cardinality(a.subpkt) <= a.recved
  BY <1>1, <1>4, <1>8, <1>9
<1>11. a.ascending <=> Cardinality(a.subpkt) = a.recved
  <2>1. CASE \A j \in r.subpkt : j < i
    <3>1. Cardinality(a.subpkt) = Cardinality(r.subpkt) + 1
      BY <1>4, <1>8, <2>1
    <3>2. a.ascending <=> r.ascending
      BY <1>4, <2>1
    <3> QED
      BY <1>1, <1>4, <1>9, <3>1, <3>2
  <2>2. CASE ~(\A j \in r.subpkt : j < i)
    <3>1. Cardinality(a.subpkt) < Cardinality(r.subpkt) + 1
      BY <1>1, <1>4, <1>8, <2>2
    <3>2. ~a.ascending
      BY <1>4, <2>2
    <3>3. Cardinality(a.subpkt) \in Nat
      BY <1>4, <1>8
    <3> QED
      BY <1>1, <1>4, <1>9, <3>1, <3>2, <3>3
  <2> QED
    BY <2>1, <2>2
<1>12. a.subpkt # {}
  BY <1>4 DEF Insert
<1> QED
  BY <1>4, <1>5, <1>6, <1>7, <1>10, <1>11, <1>12 DEF Sound

\* The payload of a reassembly, whole or not.
LEMMA PayloadGood ==
    ASSUME NEW r, NEW arr, Sound(r, arr), r.subpkt # {},
           NEW complete \in BOOLEAN,
           complete => r.recved = SubCount[r.pkt_id]
    PROVE  GoodPayload(PayloadOf(r, complete), arr)
<1> DEFINE m == PayloadOf(r, complete)
<1>1. /\ r.pkt_id \in PktIds /\ r.subpkt \subseteq Nat
      /\ Cardinality(r.subpkt) \in Nat /\ r.recved \in Nat
  BY SoundFinite
<1>2. /\ m.pkt_id = r.pkt_id /\ m.subs = r.subpkt
      /\ m.complete = complete /\ m.ascending = r.ascending
  BY DEF PayloadOf
<1>3. m \in Payload
  BY <1>1 DEF PayloadOf, Payload, Sound, Recv
<1>4. \A j \in m.subs : <<m.pkt_id, j>> \in arr
  BY <1>2 DEF Sound, AckOf
<1>5. ASSUME complete
      PROVE  r.ascending <=> r.subpkt = Subs(r.pkt_id)
  <2>1. r.recved = Cardinality(Subs(r.pkt_id)) /\ IsFiniteSet(Subs(r.pkt_id))
    BY <1>1, <1>5, SubsCard
  <2>2. r.subpkt \in SUBSET Subs(r.pkt_id)
    BY DEF Sound
  <2>3. Cardinality(Subs(r.pkt_id)) = Cardinality(r.subpkt) => Subs(r.pkt_id) = r.subpkt
    BY <2>1, <2>2, FS_Subset
  <2> QED
    BY <2>1, <2>3 DEF Sound
<1> QED
  BY <1>2, <1>3, <1>4, <1>5 DEF GoodPayload

\* What is sound, or good, stays so when more arrives.
LEMMA Monotone ==
    ASSUME NEW arr, NEW more, arr \subseteq more
    PROVE  /\ \A r : Sound(r, arr) => Sound(r, more)
           /\ \A s : GoodPayloads(s, arr) => GoodPayloads(s, more)
BY DEF Sound, GoodPayloads, GoodPayload

\* Sequences of good payloads.
LEMMA GoodSeqs ==
    ASSUME NEW arr
    PROVE  /\ <<>> \in Seq(Payload) /\ GoodPayloads(<<>>, arr)
           /\ \A m : GoodPayload(m, arr) => <<m>> \in Seq(Payload) /\ GoodPayloads(<<m>>, arr)
           /\ \A m, s : /\ GoodPayload(m, arr)
                       /\ s \in Seq(Payload) /\ GoodPayloads(s, arr)
                       => /\ Append(s, m) \in Seq(Payload)
                          /\ GoodPayloads(Append(s, m), arr)
<1>1. <<>> \in Seq(Payload) /\ GoodPayloads(<<>>, arr)
  BY DEF GoodPayloads
<1>2. ASSUME NEW m, GoodPayload(m, arr)
      PROVE  <<m>> \in Seq(Payload) /\ GoodPayloads(<<m>>, arr)
  <2>1. m \in Payload
    BY <1>2 DEF GoodPayload
  <2>2. <<m>> \in Seq(Payload)
    BY <2>1
  <2>3. \A k \in DOMAIN <<m>> : <<m>>[k] = m
    OBVIOUS
  <2> QED
    BY <1>2, <2>2, <2>3 DEF GoodPayloads
<1>3. ASSUME NEW m, NEW s, GoodPayload(m, arr), s \in Seq(Payload), GoodPayloads(s, arr)
      PROVE  Append(s, m) \in Seq(Payload) /\ GoodPayloads(Append(s, m), arr)
  <2>1. m \in Payload
    BY <1>3 DEF GoodPayload
  <2>2. Append(s, m) \in Seq(Payload)
    BY <1>3, <2>1
  <2>3. \A k \in DOMAIN Append(s, m) :
            \/ Append(s, m)[k] = m
            \/ k \in DOMAIN s /\ Append(s, m)[k] = s[k]
    BY <1>3, <2>1
  <2> QED
    BY <1>3, <2>2, <2>3 DEF GoodPayloads
<1> QED
  BY <1>1, <1>2, <1>3

----------------------------------------------------------------------------
\* The reassembly a datagram of p is added to.
LEMMA BaseSound ==
    ASSUME RxInv, NEW p \in PktIds
    PROVE  /\ Sound(Base(p), received)
           /\ Base(p).pkt_id = p
           /\ Base(p).recved \in 0 .. SubCount[p] - 1
<1>0. SubCount[p] \in Nat \ {0}
  BY SubsCard
<1>1. CASE Opens(p)
  <2>1. Base(p) = Fresh(p)
    BY <1>1 DEF Base
  <2> QED
    BY <1>0, <2>1, FreshSound DEF Fresh
<1>2. CASE ~Opens(p)
  <2>1. Base(p) = recv /\ recv # NoRecv /\ recv.pkt_id = p
    BY <1>2 DEF Base, Opens
  <2>2. Sound(recv, received) /\ recv.recved \in 1 .. SubCount[p] - 1
    BY <2>1 DEF RxInv, OpenInv, RxTypeOK
  <2> QED
    BY <1>0, <2>1, <2>2
<1> QED
  BY <1>1, <1>2

\* What receive_data_add acknowledges and hands up of an overtaken packet.
LEMMA FlushedSound ==
    ASSUME RxInv, NEW p \in PktIds
    PROVE  /\ FlushedAcks(p) \subseteq received
           /\ FlushedPkts(p) \subseteq PktIds
           /\ Flushed(p) \in Seq(Payload)
           /\ GoodPayloads(Flushed(p), received)
<1>1. CASE Overtaken(p)
  <2>1. Sound(recv, received) /\ recv.subpkt # {}
    BY <1>1 DEF Overtaken, RxInv, OpenInv
  <2>2. GoodPayload(PayloadOf(recv, FALSE), received)
    BY <2>1, PayloadGood
  <2>3. /\ FlushedAcks(p) = AckOf(recv) /\ FlushedPkts(p) = {recv.pkt_id}
        /\ Flushed(p) = <<PayloadOf(recv, FALSE)>>
    BY <1>1 DEF FlushedAcks, FlushedPkts, Flushed
  <2>4. AckOf(recv) \subseteq received /\ recv.pkt_id \in PktIds
    BY <2>1 DEF Sound, Recv
  <2> QED
    BY <2>2, <2>3, <2>4, GoodSeqs
<1>2. CASE ~Overtaken(p)
  BY <1>2, GoodSeqs DEF FlushedAcks, FlushedPkts, Flushed
<1> QED
  BY <1>1, <1>2

\* A packet receive_data_new refuses has reached the application.
LEMMA SeenIsHanded ==
    ASSUME RxInv, NEW p \in PktIds, ~rx_timeout, AlreadySeen(p)
    PROVE  p \in handedPkts
<1>1. recv = NoRecv
  BY DEF AlreadySeen, Opens, RxInv, OpenInv
<1> QED
  BY <1>1 DEF AlreadySeen, RxInv, SeenInv

\* The sub-packets of p that arrived are finitely many; if they are no more than
\* the count of the reassembly, one is missing.
LEMMA ArrivedFinite ==
    ASSUME RxInv, NEW p \in PktIds
    PROVE  /\ IsFiniteSet(Arrived(p))
           /\ Cardinality(Arrived(p)) \in Nat
           /\ recv # NoRecv /\ recv.pkt_id = p /\ Cardinality(Arrived(p)) <= recv.recved
                 => Arrived(p) # Subs(p)
<1>1. Arrived(p) \in SUBSET Subs(p) /\ IsFiniteSet(Subs(p))
  BY SubsCard DEF Arrived
<1>2. IsFiniteSet(Arrived(p)) /\ Cardinality(Arrived(p)) \in Nat
  BY <1>1, FS_Subset, FS_CardinalityType
<1>3. ASSUME recv # NoRecv, recv.pkt_id = p, Cardinality(Arrived(p)) <= recv.recved,
             Arrived(p) = Subs(p)
      PROVE  FALSE
  <2>1. recv.recved \in 1 .. SubCount[p] - 1
    BY <1>3 DEF RxInv, RxTypeOK
  <2>2. Cardinality(Arrived(p)) = SubCount[p] /\ SubCount[p] \in Nat
    BY <1>3, SubsCard
  <2> QED
    BY <1>2, <1>3, <2>1, <2>2
<1> QED
  BY <1>2, <1>3

\* One more datagram has arrived.
LEMMA ArrivedGrows ==
    ASSUME NEW p \in PktIds, NEW i \in Subs(p), received' = received \cup {<<p, i>>}
    PROVE  /\ Arrived(p)' = Arrived(p) \cup {i}
           /\ \A q \in PktIds \ {p} : Arrived(q)' = Arrived(q)
BY DEF Arrived

\* A datagram of p leaves the other packets as they were, unless it overtakes
\* the one in progress, which is then handed up.
LEMMA OthersStayPending ==
    ASSUME RxInv, NEW p \in PktIds, NEW i \in Subs(p), ~rx_timeout,
           received' = received \cup {<<p, i>>},
           recv' = recv \/ FlushedPkts(p) \subseteq handedPkts',
           handedPkts \subseteq handedPkts'
    PROVE  \A q \in PktIds \ (handedPkts' \cup {p}) : Pending(q)'
<1> SUFFICES ASSUME NEW q \in PktIds, q \notin handedPkts', q # p
             PROVE  Pending(q)'
  OBVIOUS
<1>1. Arrived(q)' = Arrived(q)
  BY ArrivedGrows
<1>2. Pending(q)
  BY DEF RxInv, PendingInv
<1>3. CASE Arrived(q) = {}
  BY <1>1, <1>3 DEF Pending
<1>4. CASE recv # NoRecv /\ recv.pkt_id = q /\ Cardinality(Arrived(q)) <= recv.recved
  <2>1. FlushedPkts(p) = {q}
    BY <1>4 DEF FlushedPkts, Overtaken
  <2>2. recv' = recv
    BY <2>1
  <2> QED
    BY <1>1, <1>4, <2>2 DEF Pending
<1> QED
  BY <1>2, <1>3, <1>4 DEF Pending

----------------------------------------------------------------------------
\* At the start.
LEMMA RxInitInv == RxInit => RxInv
<1> SUFFICES ASSUME RxInit PROVE RxInv
  OBVIOUS
<1>1. RxTypeOK
  BY GoodSeqs DEF RxInit, RxTypeOK
<1>2. AckedWasReceived /\ OpenInv /\ SeenInv /\ ~smashed
  BY DEF RxInit, AckedWasReceived, OpenInv, SeenInv
<1>3. GoodPayloads(handed, received)
  BY GoodSeqs DEF RxInit
<1>4. PendingInv
  BY DEF RxInit, PendingInv, Pending, Arrived
<1> QED
  BY <1>1, <1>2, <1>3, <1>4 DEF RxInv

\* A sub-packet of the packet opened last.
LEMMA ReAckInv ==
    ASSUME RxInv, NEW p \in PktIds, NEW i \in Subs(p), ReAck(p, i)
    PROVE  RxInv'
<1>1. /\ ~rx_timeout /\ recv' = NoRecv
      /\ received' = received \cup {<<p, i>>}
      /\ handed' = Flushed(p)
      /\ handedPkts' = handedPkts \cup FlushedPkts(p)
      /\ UNCHANGED <<cur_pktid, addcount, rx_timeout, smashed>>
  BY DEF ReAck, Handles
<1>2. p \in handedPkts /\ p = cur_pktid
  BY SeenIsHanded DEF ReAck, Handles, AlreadySeen
<1>3. /\ FlushedAcks(p) \subseteq received /\ FlushedPkts(p) \subseteq PktIds
      /\ Flushed(p) \in Seq(Payload) /\ GoodPayloads(Flushed(p), received)
  BY FlushedSound
<1>4. AckedWasReceived'
  BY <1>3 DEF ReAck, RxInv, AckedWasReceived
<1>5. received' \subseteq Datagrams
  BY <1>1, SubsCard DEF RxInv, RxTypeOK, Datagrams
<1>6. RxTypeOK'
  BY <1>1, <1>3, <1>4, <1>5 DEF RxInv, RxTypeOK, AckedWasReceived
<1>7. GoodPayloads(handed, received)'
  BY <1>1, <1>3, Monotone
<1>8. OpenInv' /\ SeenInv'
  BY <1>1, <1>2 DEF OpenInv, SeenInv
<1>9. PendingInv'
  BY <1>1, <1>2, OthersStayPending DEF PendingInv
<1> QED
  BY <1>1, <1>4, <1>6, <1>7, <1>8, <1>9 DEF RxInv

\* A sub-packet the list holds.
LEMMA AckHeldInv ==
    ASSUME RxInv, NEW p \in PktIds, NEW i \in Subs(p), AckHeld(p, i)
    PROVE  RxInv'
<1>1. recv # NoRecv /\ recv.pkt_id = p /\ i \in recv.subpkt
  BY DEF AckHeld, Held, Opens
<1>2. AckOf(recv) \subseteq received
  BY <1>1 DEF RxInv, OpenInv, Sound
<1>3. <<p, i>> \in received
  BY <1>1, <1>2 DEF AckOf
<1>4. /\ received' = received /\ acks' = acks \cup AckOf(recv) /\ handed' = <<>>
      /\ UNCHANGED <<recv, cur_pktid, addcount, rx_timeout, smashed, handedPkts>>
  BY <1>3 DEF AckHeld
<1>5. AckedWasReceived'
  BY <1>2, <1>4 DEF RxInv, AckedWasReceived
<1>6. RxTypeOK'
  BY <1>4, <1>5 DEF RxInv, RxTypeOK, AckedWasReceived
<1>7. GoodPayloads(handed, received)'
  BY <1>4 DEF GoodPayloads
<1>8. OpenInv' /\ SeenInv' /\ PendingInv'
  BY <1>4 DEF RxInv, OpenInv, SeenInv, PendingInv, Pending, Arrived
<1> QED
  BY <1>4, <1>5, <1>6, <1>7, <1>8 DEF RxInv

\* The reassembly after a sub-packet that was not in the list.
LEMMA AfterAdding ==
    ASSUME RxInv, NEW p \in PktIds, NEW i \in Subs(p), ~Held(p, i)
    PROVE  /\ Sound(Added(Base(p), i), received \cup {<<p, i>>})
           /\ Added(Base(p), i).subpkt # {}
           /\ Added(Base(p), i).pkt_id = p
           /\ Added(Base(p), i).recved = Base(p).recved + 1
<1>1. Sound(Base(p), received) /\ Base(p).pkt_id = p
  BY BaseSound
<1>2. i \notin Base(p).subpkt
  BY DEF Held, Base, Fresh
<1> QED
  BY <1>1, <1>2, AddedSound

\* Of a packet the application has nothing of, every arrival is counted.
LEMMA BaseCounts ==
    ASSUME RxInv, NEW p \in PktIds, NEW i \in Subs(p), ~rx_timeout, p \notin handedPkts
    PROVE  Cardinality(Arrived(p) \cup {i}) <= Base(p).recved + 1
<1>1. Pending(p)
  BY DEF RxInv, PendingInv
<1>2. Base(p).recved \in Nat
  BY BaseSound, SoundFinite
<1>3. CASE Arrived(p) = {}
  <2>1. Arrived(p) \cup {i} = {i}
    BY <1>3
  <2>2. Cardinality({i}) = 1
    BY FS_Singleton
  <2>3. 1 <= Base(p).recved + 1
    BY <1>2
  <2> QED
    BY <2>1, <2>2, <2>3, Zenon
<1>4. CASE recv # NoRecv /\ recv.pkt_id = p /\ Cardinality(Arrived(p)) <= recv.recved
  <2>1. Base(p) = recv
    BY <1>4 DEF Base, Opens
  <2>2. IsFiniteSet(Arrived(p)) /\ Cardinality(Arrived(p)) \in Nat
    BY ArrivedFinite
  <2>3. CASE i \in Arrived(p)
    <3>1. Arrived(p) \cup {i} = Arrived(p)
      BY <2>3
    <3>2. Cardinality(Arrived(p)) <= Base(p).recved + 1
      BY <1>2, <1>4, <2>1, <2>2
    <3> QED
      BY <3>1, <3>2, Zenon
  <2>4. CASE i \notin Arrived(p)
    <3>1. Cardinality(Arrived(p) \cup {i}) = Cardinality(Arrived(p)) + 1
      BY <2>2, <2>4, FS_AddElement
    <3>2. Cardinality(Arrived(p)) + 1 <= Base(p).recved + 1
      BY <1>2, <1>4, <2>1, <2>2
    <3> QED
      BY <3>1, <3>2, Zenon
  <2> QED
    BY <2>3, <2>4
<1> QED
  BY <1>1, <1>3, <1>4 DEF Pending

\* A sub-packet that does not reach the count.
LEMMA StoreSubInv ==
    ASSUME RxInv, NEW p \in PktIds, NEW i \in Subs(p), StoreSub(p, i)
    PROVE  RxInv'
<1>1. /\ ~rx_timeout /\ ~Held(p, i)
      /\ recv' = Added(Base(p), i)
      /\ recv'.recved # SubCount[p]
      /\ cur_pktid' = p
      /\ received' = received \cup {<<p, i>>}
      /\ handed' = Flushed(p)
      /\ handedPkts' = handedPkts \cup FlushedPkts(p)
      /\ UNCHANGED <<rx_timeout, smashed>>
  BY DEF StoreSub, Handles
<1>2. /\ Sound(recv', received') /\ recv'.subpkt # {}
      /\ recv'.pkt_id = p /\ recv'.recved = Base(p).recved + 1
  BY <1>1, AfterAdding
<1>3. recv' \in Recv /\ recv' # NoRecv
  BY <1>2, NoRecvAssumption DEF Sound, Recv
<1>4. /\ FlushedAcks(p) \subseteq received /\ FlushedPkts(p) \subseteq PktIds
      /\ Flushed(p) \in Seq(Payload) /\ GoodPayloads(Flushed(p), received)
  BY FlushedSound
<1>5. AckedWasReceived'
  <2>1. AckOf(recv') \subseteq received'
    BY <1>2 DEF Sound
  <2>2. acks' \subseteq acks \cup FlushedAcks(p) \cup AckOf(recv')
    BY DEF StoreSub
  <2> QED
    BY <1>1, <1>4, <2>1, <2>2 DEF RxInv, AckedWasReceived
<1>6. RxTypeOK'
  <2>1. recv'.recved \in 1 .. SubCount[p] - 1
    BY <1>1, <1>2, BaseSound, SubsCard
  <2>2. addcount' \in 0 .. 2
    BY DEF StoreSub, RxInv, RxTypeOK
  <2>3. received' \subseteq Datagrams
    BY <1>1, SubsCard DEF RxInv, RxTypeOK, Datagrams
  <2> QED
    BY <1>1, <1>2, <1>3, <1>4, <1>5, <2>1, <2>2, <2>3
       DEF RxInv, RxTypeOK, AckedWasReceived
<1>7. GoodPayloads(handed, received)'
  BY <1>1, <1>4, Monotone
<1>8. OpenInv' /\ SeenInv'
  BY <1>1, <1>2, <1>3 DEF OpenInv, SeenInv
<1>9. PendingInv'
  <2>1. \A q \in PktIds \ (handedPkts' \cup {p}) : Pending(q)'
    BY <1>1, OthersStayPending
  <2>2. ASSUME p \notin handedPkts'
        PROVE  Pending(p)'
    <3>1. Cardinality(Arrived(p) \cup {i}) <= Base(p).recved + 1
      BY <1>1, <2>2, BaseCounts
    <3>2. Arrived(p)' = Arrived(p) \cup {i}
      BY <1>1, ArrivedGrows
    <3>3. Cardinality(Arrived(p)') <= recv'.recved
      BY <1>2, <3>1, <3>2, Zenon
    <3> QED
      BY <1>2, <1>3, <3>3 DEF Pending
  <2> QED
    BY <2>1, <2>2 DEF PendingInv
<1> QED
  BY <1>1, <1>5, <1>6, <1>7, <1>8, <1>9 DEF RxInv

\* The sub-packet that reaches the count.
LEMMA CompletePktInv ==
    ASSUME RxInv, NEW p \in PktIds, NEW i \in Subs(p), CompletePkt(p, i)
    PROVE  RxInv'
<1> DEFINE r == Added(Base(p), i)
<1>1. /\ ~rx_timeout /\ ~Held(p, i)
      /\ r.recved = SubCount[p]
      /\ acks' = acks \cup FlushedAcks(p) \cup AckOf(r)
      /\ handed' = Append(Flushed(p), PayloadOf(r, TRUE))
      /\ recv' = NoRecv
      /\ cur_pktid' = p
      /\ received' = received \cup {<<p, i>>}
      /\ handedPkts' = handedPkts \cup FlushedPkts(p) \cup {p}
      /\ UNCHANGED <<addcount, rx_timeout, smashed>>
  BY DEF CompletePkt, Completes, Handles
<1>2. /\ Sound(r, received') /\ r.subpkt # {}
      /\ r.pkt_id = p /\ r.recved = Base(p).recved + 1
  BY <1>1, AfterAdding
<1> HIDE DEF r
<1>3. /\ FlushedAcks(p) \subseteq received /\ FlushedPkts(p) \subseteq PktIds
      /\ Flushed(p) \in Seq(Payload) /\ GoodPayloads(Flushed(p), received)
  BY FlushedSound
<1>4. AckedWasReceived'
  BY <1>1, <1>2, <1>3 DEF RxInv, AckedWasReceived, Sound
<1>5. GoodPayload(PayloadOf(r, TRUE), received')
  <2>1. r.recved = SubCount[r.pkt_id]
    BY <1>1, <1>2
  <2> QED
    BY <1>2, <2>1, PayloadGood
<1>6. handed' \in Seq(Payload) /\ GoodPayloads(handed', received')
  <2>1. GoodPayloads(Flushed(p), received')
    BY <1>1, <1>3, Monotone
  <2> QED
    BY <1>1, <1>3, <1>5, <2>1, GoodSeqs
<1>7. RxTypeOK'
  <2>1. received' \subseteq Datagrams
    BY <1>1, SubsCard DEF RxInv, RxTypeOK, Datagrams
  <2> QED
    BY <1>1, <1>3, <1>4, <1>6, <2>1 DEF RxInv, RxTypeOK, AckedWasReceived
<1>8. OpenInv' /\ SeenInv'
  BY <1>1 DEF OpenInv, SeenInv
<1>9. PendingInv'
  <2>1. \A q \in PktIds \ (handedPkts' \cup {p}) : Pending(q)'
    BY <1>1, OthersStayPending
  <2> QED
    BY <1>1, <2>1 DEF PendingInv
<1> QED
  BY <1>1, <1>4, <1>6, <1>7, <1>8, <1>9 DEF RxInv

\* The other steps, none of which brings a datagram.
LEMMA QuietInv ==
    ASSUME RxInv, OtherSessionAdd \/ RxQuit \/ FreeRecv \/ UNCHANGED rxVars
    PROVE  RxInv'
<1>1. CASE UNCHANGED rxVars
  BY <1>1 DEF rxVars, RxInv, RxTypeOK, AckedWasReceived, GoodPayloads, OpenInv,
              PendingInv, Pending, Arrived, SeenInv
<1>2. CASE OtherSessionAdd
  <2>1. /\ handed' = <<>> /\ addcount' \in 0 .. 2
        /\ UNCHANGED <<recv, cur_pktid, rx_timeout, smashed, acks, received, handedPkts>>
    BY <1>2 DEF OtherSessionAdd, RxInv, RxTypeOK
  <2>2. RxTypeOK' /\ GoodPayloads(handed, received)'
    BY <2>1, GoodSeqs DEF RxInv, RxTypeOK
  <2> QED
    BY <2>1, <2>2 DEF RxInv, AckedWasReceived, OpenInv, PendingInv, Pending, Arrived, SeenInv
<1>3. CASE RxQuit
  <2>1. /\ handed' = <<>> /\ rx_timeout' = TRUE /\ ~rx_timeout
        /\ UNCHANGED <<recv, cur_pktid, addcount, smashed, acks, received, handedPkts>>
    BY <1>3 DEF RxQuit
  <2>2. RxTypeOK' /\ GoodPayloads(handed, received)'
    BY <2>1, GoodSeqs DEF RxInv, RxTypeOK
  <2>3. PendingInv'
    BY <2>1 DEF RxInv, PendingInv, Pending, Arrived
  <2> QED
    BY <2>1, <2>2, <2>3 DEF RxInv, AckedWasReceived, OpenInv, SeenInv
<1>4. CASE FreeRecv
  <2>1. /\ handed' = <<>> /\ rx_timeout /\ recv' = NoRecv
        /\ UNCHANGED <<cur_pktid, addcount, rx_timeout, smashed, acks, received, handedPkts>>
    BY <1>4 DEF FreeRecv
  <2>2. RxTypeOK' /\ GoodPayloads(handed, received)'
    BY <2>1, GoodSeqs DEF RxInv, RxTypeOK
  <2>3. PendingInv'
    <3> SUFFICES ASSUME NEW q \in PktIds \ handedPkts PROVE Pending(q)'
      BY <2>1 DEF PendingInv
    <3>1. Pending(q) /\ Arrived(q)' = Arrived(q)
      BY <2>1 DEF RxInv, PendingInv, Arrived
    <3> QED
      BY <2>1, <3>1, ArrivedFinite DEF Pending
  <2> QED
    BY <2>1, <2>2, <2>3 DEF RxInv, AckedWasReceived, OpenInv, SeenInv
<1> QED
  BY <1>1, <1>2, <1>3, <1>4

\* More sub-packets are more bytes.
LEMMA BytesGrow ==
    ASSUME NEW p \in PktIds, NEW S, NEW T, S \subseteq T, T \subseteq Subs(p)
    PROVE  /\ Bytes(p, S) \in Nat /\ Bytes(p, T) \in Nat
           /\ Bytes(p, S) <= Bytes(p, T)
<1> DEFINE last == SubCount[p] - 1
           U == S \ {last}
           V == T \ {last}
<1>1. IsFiniteSet(V) /\ IsFiniteSet(U)
  BY SubsCard, FS_Subset
<1>2. /\ Cardinality(U) \in Nat /\ Cardinality(V) \in Nat
      /\ Cardinality(U) <= Cardinality(V)
  <2>1. U \in SUBSET V
    OBVIOUS
  <2> QED
    BY <1>1, <2>1, FS_Subset, FS_CardinalityType
<1>3. FullLen \in Nat /\ LastLen[p] \in Nat
  BY LengthAssumption
<1>4. /\ FullLen * Cardinality(U) \in Nat /\ FullLen * Cardinality(V) \in Nat
      /\ FullLen * Cardinality(U) <= FullLen * Cardinality(V)
  <2>1. PICK f \in Nat, m \in Nat, n \in Nat :
            f = FullLen /\ m = Cardinality(U) /\ n = Cardinality(V)
    BY <1>2, <1>3
  <2>2. m <= n
    BY <1>2, <2>1
  <2>3. f * m \in Nat /\ f * n \in Nat /\ f * m <= f * n
    BY <2>2
  <2> QED
    BY <2>1, <2>3
<1>5. (IF last \in S THEN LastLen[p] ELSE 0) \in Nat /\ (IF last \in T THEN LastLen[p] ELSE 0) \in Nat
      /\ (IF last \in S THEN LastLen[p] ELSE 0) <= (IF last \in T THEN LastLen[p] ELSE 0)
  BY <1>3
<1>6. PICK a \in Nat, b \in Nat, c \in Nat, d \in Nat :
          /\ a = FullLen * Cardinality(U) /\ b = (IF last \in S THEN LastLen[p] ELSE 0)
          /\ c = FullLen * Cardinality(V) /\ d = (IF last \in T THEN LastLen[p] ELSE 0)
  BY <1>4, <1>5
<1>7. Bytes(p, S) = a + b /\ Bytes(p, T) = c + d
  BY <1>6 DEF Bytes
<1>8. a <= c /\ b <= d
  BY <1>4, <1>5, <1>6
<1> QED
  BY <1>7, <1>8

\* What arrived of a packet that overran cbdata overran it.
LEMMA StaysLong ==
    ASSUME OnlyLongOverruns, smashed, received \subseteq received', UNCHANGED smashed
    PROVE  OnlyLongOverruns'
<1>1. PICK p \in PktIds : Bytes(p, Arrived(p)) > CbSize
  BY DEF OnlyLongOverruns, Arrived
<1>2. Arrived(p) \subseteq Arrived(p)' /\ Arrived(p)' \subseteq Subs(p)
  BY DEF Arrived
<1>3. PICK A : A = Arrived(p)'
  OBVIOUS
<1>4. /\ Bytes(p, Arrived(p)) \in Nat /\ Bytes(p, A) \in Nat
      /\ Bytes(p, Arrived(p)) <= Bytes(p, A)
  BY <1>2, <1>3, BytesGrow
<1>5. Bytes(p, A) > CbSize
  BY <1>1, <1>4, CbSizeAssumption
<1>6. A = {i \in Subs(p) : <<p, i>> \in received'}
  BY <1>3 DEF Arrived
<1> QED
  BY <1>5, <1>6 DEF OnlyLongOverruns

\* The step that overruns it.
LEMMA OverrunSafe ==
    ASSUME RxInv, NEW p \in PktIds, NEW i \in Subs(p), Overrun(p, i)
    PROVE  RxSafe'
<1>1. /\ smashed' = TRUE /\ acks' \in {acks, Datagrams} /\ handed' = <<>>
      /\ received' = received \cup {<<p, i>>}
      /\ UNCHANGED <<recv, cur_pktid, addcount, rx_timeout, handedPkts>>
  BY DEF Overrun
<1>2. received' \subseteq Datagrams
  BY <1>1, SubFacts DEF RxInv, RxTypeOK
<1>3. RxTypeOK'
  BY <1>1, <1>2, GoodSeqs DEF RxInv, RxTypeOK
<1>4. ASSUME NEW q \in PktIds, NEW S, S \subseteq Subs(q), Bytes(q, S) > CbSize,
             \A j \in S : <<q, j>> \in received'
      PROVE  OnlyLongOverruns'
  <2>1. PICK A : A = {j \in Subs(q) : <<q, j>> \in received'}
    OBVIOUS
  <2>2. S \subseteq A /\ A \subseteq Subs(q)
    BY <1>4, <2>1
  <2>3. Bytes(q, A) > CbSize
    BY <1>4, <2>2, BytesGrow, CbSizeAssumption
  <2> QED
    BY <2>1, <2>3 DEF OnlyLongOverruns
<1>5. CASE Overtaken(p) /\ Oversized(recv)
  <2>1. Sound(recv, received)
    BY <1>5 DEF Overtaken, RxInv, OpenInv
  <2>2. recv.pkt_id \in PktIds /\ recv.subpkt \subseteq Subs(recv.pkt_id)
        /\ \A j \in recv.subpkt : <<recv.pkt_id, j>> \in received'
    BY <1>1, <2>1 DEF Sound, AckOf, Recv
  <2> QED
    BY <1>1, <1>3, <1>4, <1>5, <2>2 DEF RxSafe, Oversized
<1>6. CASE Completes(p, i) /\ Oversized(Added(Base(p), i))
  <2>1. PICK r : r = Added(Base(p), i)
    OBVIOUS
  <2>2. Sound(r, received') /\ r.pkt_id = p
    BY <1>1, <1>6, <2>1, AfterAdding DEF Completes
  <2>3. r.subpkt \subseteq Subs(p) /\ \A j \in r.subpkt : <<p, j>> \in received'
    BY <2>2 DEF Sound, AckOf
  <2>4. Bytes(p, r.subpkt) > CbSize
    BY <1>6, <2>1, <2>2 DEF Oversized
  <2> QED
    BY <1>1, <1>3, <1>4, <2>3, <2>4 DEF RxSafe
<1> QED
  BY <1>5, <1>6 DEF Overrun, CopiesTooMuch

\* Once cbdata is overrun, only the other threads are followed.
LEMMA AfterOverrun ==
    ASSUME RxSafe, smashed, [RxNext]_rxVars
    PROVE  RxSafe' /\ smashed'
<1>1. /\ OtherSessionAdd \/ RxQuit \/ FreeRecv \/ UNCHANGED rxVars
      /\ UNCHANGED <<smashed, received>>
  BY DEF RxNext, Rdpkt, ReAck, AckHeld, StoreSub, CompletePkt, Overrun, Handles,
         OtherSessionAdd, RxQuit, FreeRecv, rxVars
<1>2. RxTypeOK'
  <2> USE GoodSeqs DEF RxSafe, RxTypeOK
  <2>1. CASE OtherSessionAdd
    BY <2>1 DEF OtherSessionAdd
  <2>2. CASE RxQuit
    BY <2>2 DEF RxQuit
  <2>3. CASE FreeRecv
    BY <2>3 DEF FreeRecv
  <2>4. CASE UNCHANGED rxVars
    BY <2>4 DEF rxVars
  <2> QED
    BY <1>1, <2>1, <2>2, <2>3, <2>4
<1>3. OnlyLongOverruns'
  BY <1>1, StaysLong DEF RxSafe
<1> QED
  BY <1>1, <1>2, <1>3 DEF RxSafe

\* RxSafe is inductive.
LEMMA RxNextInv == RxSafe /\ [RxNext]_rxVars => RxSafe'
<1> SUFFICES ASSUME RxSafe, [RxNext]_rxVars PROVE RxSafe'
  OBVIOUS
<1>1. CASE smashed
  BY <1>1, AfterOverrun
<1>2. CASE ~smashed
  <2>1. RxInv
    BY <1>2 DEF RxSafe
  <2>2. RxInv' => RxSafe'
    BY DEF RxInv, RxSafe, OnlyLongOverruns
  <2>3. CASE \E p \in PktIds : \E i \in Subs(p) : Rdpkt(p, i)
    BY <2>1, <2>2, <2>3, ReAckInv, AckHeldInv, StoreSubInv, CompletePktInv, OverrunSafe DEF Rdpkt
  <2>4. CASE OtherSessionAdd \/ RxQuit \/ FreeRecv \/ UNCHANGED rxVars
    BY <2>1, <2>2, <2>4, QuietInv
  <2> QED
    BY <2>3, <2>4 DEF RxNext
<1> QED
  BY <1>1, <1>2

\* A step that overruns nothing keeps RxInv.
LEMMA RxStepInv == RxInv /\ [RxNext]_rxVars /\ ~smashed' => RxInv'
BY RxNextInv DEF RxInv, RxSafe, OnlyLongOverruns

THEOREM RxInductive == RxSpec => []RxSafe
<1>1. RxInit => RxSafe
  BY RxInitInv DEF RxInv, RxSafe, OnlyLongOverruns
<1> QED
  BY <1>1, RxNextInv, PTL DEF RxSpec

----------------------------------------------------------------------------
(***************************************************************************)
(* The properties of RudpReassembly.                                       *)
(***************************************************************************)

\* The state keeps its types, and an open reassembly can still be completed.
THEOREM RxTypeCorrect == RxSpec => []RxTypeOK
<1>1. RxSafe => RxTypeOK
  BY DEF RxSafe
<1> QED
  BY <1>1, RxInductive, PTL

\* The receiver never acknowledges (rdpk_ack, rdpk_ack_all) a sub-packet that
\* did not arrive, whatever the order, loss and duplication of datagrams.
THEOREM NoFalseAck == RxSpec => []AckedWasReceived
<1>1. RxSafe => AckedWasReceived
  BY DEF RxSafe, RxInv, AckedWasReceived
<1> QED
  BY <1>1, RxInductive, PTL

\* A payload handed to Event_Ld_Pack holds sub-packets of one packet that arrived.
THEOREM PayloadsArrived == RxSpec => []PayloadWasReceived
<1>1. RxSafe => PayloadWasReceived
  BY DEF RxSafe, RxInv, GoodPayloads, GoodPayload, PayloadWasReceived
<1> QED
  BY <1>1, RxInductive, PTL

\* A payload handed up because the count was reached is the whole packet exactly
\* when its sub-packets were stored in ascending order.
THEOREM CompleteIsWhole == RxSpec => []WholeIffAscending
<1>1. RxSafe => WholeIffAscending
  BY DEF RxSafe, RxInv, GoodPayloads, GoodPayload, WholeIffAscending
<1> QED
  BY <1>1, RxInductive, PTL

\* With the invariant, a packet that arrived whole is not pending.
LEMMA RxInvHands == RxInv => AllReceivedIsHanded
<1> SUFFICES ASSUME RxInv, NEW p \in PktIds,
                    \A i \in Subs(p) : <<p, i>> \in received,
                    p \notin handedPkts
             PROVE  FALSE
  BY DEF AllReceivedIsHanded
<1>1. Arrived(p) = Subs(p) /\ 0 \in Subs(p)
  BY SubsCard DEF Arrived, Subs
<1>2. Pending(p)
  BY DEF RxInv, PendingInv
<1> QED
  BY <1>1, <1>2, ArrivedFinite DEF Pending

\* A packet of which every sub-packet arrived has reached the application.
THEOREM NothingSwallowed == RxSpec => []AllReceivedIsHanded
<1>1. RxSafe => AllReceivedIsHanded
  BY RxInvHands DEF RxSafe, AllReceivedIsHanded
<1> QED
  BY <1>1, RxInductive, PTL

\* cbdata is overrun only when more bytes of one packet arrived than it holds: a
\* session whose messages are no longer than that never overruns it.
THEOREM OverrunsAreLong == RxSpec => []OnlyLongOverruns
<1>1. RxSafe => OnlyLongOverruns
  BY DEF RxSafe
<1> QED
  BY <1>1, RxInductive, PTL

----------------------------------------------------------------------------
(***************************************************************************)
(* The two ends over a network.                                            *)
(***************************************************************************)

SessionInv ==
    TxInv /\ RxInv /\ received \subseteq net /\ AckInv(received) /\ SuccessIn(received)

\* All of it until the peer overruns its array; the types of both ends for ever.
SessionSafe == TxInv /\ RxSafe /\ (~smashed => SessionInv)

\* A step of the session is a step of each end, or leaves that end alone.
LEMMA BothStep ==
    ASSUME SessionInv, [Next]_vars
    PROVE  Stepping(received) /\ [RxNext]_rxVars
<1>1. CASE Sender
  BY <1>1 DEF Sender, Stepping
<1>2. CASE SenderListener
  <2>1. acks \subseteq received
    BY DEF SessionInv, RxInv, AckedWasReceived
  <2> QED
    BY <1>2, <2>1 DEF SenderListener, Stepping
<1>3. CASE RecvDatagram
  <2>1. PICK d \in net : Rdpkt(d[1], d[2])
    BY <1>3 DEF RecvDatagram
  <2>2. d[1] \in PktIds /\ d[2] \in Subs(d[1])
    BY DatagramFacts DEF SessionInv, TxInv, TxTypeOK
  <2> QED
    BY <1>3, <2>1, <2>2 DEF RecvDatagram, RxNext, Stepping
<1>4. CASE Receiver
  BY <1>4 DEF Receiver, RxNext, Stepping
<1>5. CASE UNCHANGED vars
  BY <1>5 DEF vars, Stepping
<1> QED
  BY <1>1, <1>2, <1>3, <1>4, <1>5 DEF Next

\* The receiving end leaves alone what was sent; what arrives was sent.
LEMMA OnlySentArrives == SessionInv /\ [Next]_vars => received' \subseteq net'
<1> SUFFICES ASSUME SessionInv, [Next]_vars PROVE received' \subseteq net'
  OBVIOUS
<1>1. received \subseteq net
  BY DEF SessionInv
<1>2. CASE Sender
  BY <1>1, <1>2 DEF Sender, rxVars, Call, Begin, Refused, SendData, Fill, Hold, SetPktId, SendSlot,
         SendFails, Extend, GiveUp, KeepOn, AllAcked, Release, Tick, TxQuit
<1>3. CASE SenderListener
  BY <1>1, <1>3 DEF SenderListener, rxVars, AcceptAck, WriteAck
<1>4. CASE RecvDatagram
  <2>1. PICK d \in net : Rdpkt(d[1], d[2])
    BY <1>4 DEF RecvDatagram
  <2>2. received' = received \cup {<<d[1], d[2]>>}
    BY <2>1 DEF Rdpkt, ReAck, AckHeld, StoreSub, CompletePkt, Overrun
  <2>3. <<d[1], d[2]>> \in net
    BY DatagramFacts DEF SessionInv, TxInv, TxTypeOK
  <2> QED
    BY <1>1, <1>4, <2>2, <2>3 DEF RecvDatagram, txVars
<1>5. CASE Receiver
  BY <1>1, <1>5 DEF Receiver, RxQuit, FreeRecv, OtherSessionAdd, txVars
<1>6. CASE UNCHANGED vars
  BY <1>1, <1>6 DEF vars, txVars, rxVars
<1> QED
  BY <1>2, <1>3, <1>4, <1>5, <1>6 DEF Next

\* What arrived stays arrived.
LEMMA ReceivedGrows == [RxNext]_rxVars => received \subseteq received'
BY DEF RxNext, Rdpkt, ReAck, AckHeld, StoreSub, CompletePkt, Overrun, OtherSessionAdd, RxQuit,
       FreeRecv, rxVars

LEMMA SessionStep == SessionInv /\ [Next]_vars /\ ~smashed' => SessionInv'
<1> SUFFICES ASSUME SessionInv, [Next]_vars, ~smashed' PROVE SessionInv'
  OBVIOUS
<1>1. Stepping(received) /\ [RxNext]_rxVars /\ TxInv /\ RxInv
  BY BothStep DEF SessionInv
<1>2. RxInv'
  BY <1>1, RxStepInv
<1>3. PICK G, H : G = received /\ H = received'
  OBVIOUS
<1>4. /\ Stepping(G) /\ G \subseteq Datagrams /\ G \subseteq H
      /\ AckInv(G) /\ SuccessIn(G)
  BY <1>1, <1>3, ReceivedGrows DEF SessionInv, RxInv, RxTypeOK
<1>5. TxInv' /\ AckInv(G)' /\ SuccessIn(G)'
  BY <1>1, <1>4, SteppingInv, AckStep, SuccessStep
<1>6. AckInv(H)' /\ SuccessIn(H)'
  BY <1>4, <1>5 DEF AckInv, AckSound, SuccessIn
<1> QED
  BY <1>2, <1>3, <1>5, <1>6, OnlySentArrives DEF SessionInv

\* The same of a peer that may acknowledge anything.
LEMMA AnyStep ==
    ASSUME TxInv, RxTypeOK, [Next]_vars
    PROVE  Stepping(Datagrams) /\ [RxNext]_rxVars
<1>1. CASE Sender
  BY <1>1 DEF Sender, Stepping
<1>2. CASE SenderListener
  <2>1. acks \subseteq Datagrams
    BY DEF RxTypeOK
  <2> QED
    BY <1>2, <2>1 DEF SenderListener, Stepping
<1>3. CASE RecvDatagram
  <2>1. PICK d \in net : Rdpkt(d[1], d[2])
    BY <1>3 DEF RecvDatagram
  <2>2. d[1] \in PktIds /\ d[2] \in Subs(d[1])
    BY DatagramFacts DEF TxInv, TxTypeOK
  <2> QED
    BY <1>3, <2>1, <2>2 DEF RecvDatagram, RxNext, Stepping
<1>4. CASE Receiver
  BY <1>4 DEF Receiver, RxNext, Stepping
<1>5. CASE UNCHANGED vars
  BY <1>5 DEF vars, Stepping
<1> QED
  BY <1>1, <1>2, <1>3, <1>4, <1>5 DEF Next

\* The invariant of the two ends together.
THEOREM SessionInductive == Spec => []SessionSafe
<1>1. Init => SessionSafe
  BY TxInitInv, RxInitInv
     DEF Init, TxInit, RxInit, SessionInv, SessionSafe, RxSafe, RxInv, OnlyLongOverruns, AckInv,
         SuccessIn, Active
<1>2. SessionSafe /\ [Next]_vars => SessionSafe'
  <2> SUFFICES ASSUME SessionSafe, [Next]_vars PROVE SessionSafe'
    OBVIOUS
  <2>1. Stepping(Datagrams) /\ [RxNext]_rxVars
    BY AnyStep DEF SessionSafe, RxSafe
  <2>2. RxSafe'
    BY <2>1, RxNextInv DEF SessionSafe
  <2>3. TxInv'
    BY <2>1, SteppingInv DEF SessionSafe
  <2>4. ASSUME ~smashed' PROVE SessionInv'
    <3>1. ~smashed
      BY <2>1, <2>4, AfterOverrun DEF SessionSafe
    <3> QED
      BY <2>4, <3>1, SessionStep DEF SessionSafe
  <2> QED
    BY <2>2, <2>3, <2>4 DEF SessionSafe
<1> QED
  BY <1>1, <1>2, PTL DEF Spec

\* In a session the receiving end behaves as it was modelled by itself, with a
\* network that may do anything: so what is proved of it holds here.
THEOREM ReceiverEnd == Spec => RxSpec
<1>1. Init => RxInit
  BY DEF Init
<1>2. SessionSafe /\ [Next]_vars => [RxNext]_rxVars
  BY AnyStep DEF SessionSafe, RxSafe
<1> QED
  BY <1>1, <1>2, SessionInductive, PTL DEF Spec, RxSpec

\* The same of the sending end, as long as the peer overruns nothing: the
\* acknowledgements it gets are of what it sent.
THEOREM SenderEnd == Spec /\ []~smashed => TxSpec
<1>1. Init => TxInit
  BY DEF Init
<1>2. SessionSafe /\ ~smashed /\ [Next]_vars => [TxNext]_txVars
  <2> SUFFICES ASSUME SessionInv, [Next]_vars PROVE [TxNext]_txVars
    BY DEF SessionSafe
  <2>1. acks \subseteq net
    BY DEF SessionInv, RxInv, AckedWasReceived
  <2>2. CASE Sender
    BY <2>2 DEF Sender, TxNext
  <2>3. CASE SenderListener
    BY <2>1, <2>3 DEF SenderListener, TxNext, RecvAck
  <2>4. CASE RecvDatagram \/ Receiver \/ UNCHANGED vars
    BY <2>4 DEF RecvDatagram, Receiver, vars
  <2> QED
    BY <2>2, <2>3, <2>4 DEF Next
<1> QED
  BY <1>1, <1>2, SessionInductive, PTL DEF Spec, TxSpec

\* SUCCESS of send_data means that every sub-packet reached rdpkt_data at the
\* peer, for any threads and packets, with the two exceptions it names and until
\* the peer overruns its array.
THEOREM SuccessMeansReceived == Spec => []SuccessIsReceived
<1>1. SessionSafe => SuccessIsReceived
  BY DEF SessionSafe, SessionInv, SuccessIn, SuccessIsReceived
<1> QED
  BY <1>1, SessionInductive, PTL

\* And that a payload of the packet was handed up through Event_Ld_Pack.
THEOREM SuccessMeansHanded == Spec => []SuccessReachesApp
<1>1. SessionSafe => SuccessReachesApp
  <2> SUFFICES ASSUME SessionInv, NEW p \in PktIds, outcome[p] = "SUCCESS", p \notin excused
               PROVE  p \in handedPkts
    BY DEF SuccessReachesApp, SessionSafe
  <2>1. \A i \in Subs(p) : <<p, i>> \in received
    BY DEF SessionInv, SuccessIn
  <2>2. AllReceivedIsHanded /\ ~smashed
    BY RxInvHands DEF SessionInv, RxInv
  <2> QED
    BY <2>1, <2>2 DEF AllReceivedIsHanded
<1> QED
  BY <1>1, SessionInductive, PTL


----------------------------------------------------------------------------
(***************************************************************************)
(* The two ends on a path that keeps datagrams in order, for any number of *)
(* threads as long as s->sendflag keeps all but one out of send_data.      *)
(* Then the sub-packets are emitted in the order of their packets, so the  *)
(* receiver never goes back to a packet it has left, and what it hands up  *)
(* comes in order and once.                                                *)
(***************************************************************************)
\* The slots of s->data hold the packet of the thread in send_data: those filled so
\* far, and then all of them.
FilledTo(t, n) == \A i \in Subs(mine[t]) : i < n => data[i] = <<mine[t], i>>
Filled ==
    \A t \in Threads :
        /\ pc[t] = "fill" => FilledTo(t, slot[t])
        /\ Active(t) /\ pc[t] # "fill" => FilledTo(t, SubCount[mine[t]])

\* A thread in send_data has the packet id taken last.
Latest == \A t \in Threads : Active(t) => packet_id = mine[t] + 1

\* A queue of datagrams out of D in the order of their packets, none of a packet older
\* than c or as new as n.
Flight(q, D, n, c) ==
    /\ q \in Seq(Datagrams)
    /\ \A k \in DOMAIN q :
          /\ q[k] \in D
          /\ q[k][1] < n
          /\ c <= q[k][1]
          /\ \A l \in DOMAIN q : k <= l => q[k][1] <= q[l][1]

\* What is in flight was sent, in order, and is not older than what the receiver opened
\* last.
InFlight == Flight(queue, net, packet_id, cur_pktid)

Entries == [pkt_id : PktIds, subs : SUBSET Nat]

\* Entries in order, of packets before n and up to c; none of c, if it is not packet 0.
GivenUpTo(s, n, c) ==
    /\ s \in Seq(Entries)
    /\ \A k \in DOMAIN s : s[k].pkt_id < n /\ s[k].pkt_id <= c
    /\ Service!Ordered(s)
NoneOf(s, c) == c # 0 => \A k \in DOMAIN s : s[k].pkt_id < c

\* What the application has been given, next to what the receiver is at: nothing yet of
\* a packet being reassembled.
Given ==
    /\ cur_pktid = 0 \/ cur_pktid < packet_id
    /\ GivenUpTo(log, packet_id, cur_pktid)
    /\ recv # NoRecv => NoneOf(log, cur_pktid)

PathInv ==
    /\ TxInv /\ RxInv /\ received \subseteq net /\ AckInv(received)
    /\ Filled /\ Latest /\ InFlight /\ Given

\* All of it until cbdata is overrun; the types of both ends for ever.
PathSafe == TxInv /\ RxTypeOK /\ (~smashed => PathInv)

----------------------------------------------------------------------------
(***************************************************************************)
(* Steps of the two ends together.                                         *)
(***************************************************************************)
\* A step of a thread that calls send_data or is in it, and what it leaves in flight.
Step(t) ==
    /\ Call(t) \/ SendData(t)
    /\ SendFails(t) => Lossy \/ SendSlot(t)
    /\ UNCHANGED <<rxVars, log>>
    /\ \/ UNCHANGED queue /\ (SendSlot(t) => Emitted(t) = {} \/ Lossy)
       \/ SendSlot(t) /\ \E d \in Emitted(t) : queue' = Append(queue, d)

\* A step that sends nothing and takes no packet id: the clock, the listener of the
\* sending end, another session's addition.
Aside ==
    /\ UNCHANGED <<packet_id, data, pc, mine, slot, net, queue, log, recv, cur_pktid, received,
                   handedPkts>>
    /\ excused \subseteq excused'
    /\ \A t \in Threads : due[t] => due'[t]

LEMMA Kinds ==
    ASSUME TxInv, [PathNext]_pathVars
    PROVE  (\E t \in Threads : Step(t)) \/ Aside \/ RecvHead
<1>1. ASSUME NEW t \in Threads, Sending(t) PROVE Step(t)
  <2>1. CASE SendDatagram(t)
    BY <2>1 DEF SendDatagram, Step, SendData
  <2>2. CASE Lossy /\ SendFails(t) /\ UNCHANGED <<rxVars, queue, log>>
    BY <2>2 DEF Step, SendData
  <2>3. CASE /\ \/ Fill(t) \/ Hold(t) \/ SetPktId(t) \/ Extend(t) \/ GiveUp(t)
                \/ KeepOn(t) \/ AllAcked(t) \/ Release(t)
             /\ UNCHANGED <<rxVars, queue, log>>
    <3>1. ~(pc[t] = "loop" /\ due[t])
      BY <2>3 DEF Fill, Hold, SetPktId, Extend, GiveUp, KeepOn, AllAcked, Release, Late, Polling,
             AfterSend
    <3>2. ~SendSlot(t) /\ ~SendFails(t)
      BY <3>1 DEF SendSlot, SendFails
    <3>3. QED
      BY <2>3, <3>2 DEF Step, SendData
  <2>4. QED
    BY <1>1, <2>1, <2>2, <2>3 DEF Sending
<1>2. CASE NewCall
  BY <1>2 DEF NewCall, Step, Call, SendSlot, SendFails, Begin, Refused
<1>3. CASE Clock
  BY <1>3 DEF Clock, Tick, Aside, TxInv, TxTypeOK, rxVars
<1>4. CASE AckListener
  BY <1>4 DEF AckListener, AcceptAck, WriteAck, Aside, rxVars
<1>5. CASE OtherSession
  BY <1>5 DEF OtherSession, OtherSessionAdd, Aside, txVars
<1>6. CASE UNCHANGED pathVars
  BY <1>6 DEF pathVars, txVars, rxVars, Aside
<1>7. QED
  BY <1>1, <1>2, <1>3, <1>4, <1>5, <1>6 DEF PathNext

\* Seen from each end, such a step is one of its own.
LEMMA EndSteps ==
    ASSUME PathInv, [PathNext]_pathVars
    PROVE  Stepping(received) /\ [RxNext]_rxVars
<1>1. acks \subseteq received
  BY DEF PathInv, RxInv, AckedWasReceived
<1>2. ASSUME NEW t \in Threads, Sending(t) PROVE SendData(t) /\ UNCHANGED rxVars
  BY <1>2 DEF Sending, SendDatagram, SendData
<1>3. CASE NewCall
  BY <1>3 DEF NewCall, Stepping
<1>4. CASE Clock
  BY <1>4 DEF Clock, Stepping
<1>5. CASE AckListener
  BY <1>1, <1>5 DEF AckListener, Stepping
<1>6. CASE RecvHead
  <2>1. Head(queue) \in Datagrams
    BY <1>6 DEF RecvHead, PathInv, InFlight, Flight
  <2>2. Head(queue)[1] \in PktIds /\ Head(queue)[2] \in Subs(Head(queue)[1])
    BY <2>1, DatagramFacts
  <2>3. QED
    BY <1>6, <2>2 DEF RecvHead, RxNext, Stepping
<1>7. CASE OtherSession
  BY <1>7 DEF OtherSession, RxNext, Stepping
<1>8. CASE UNCHANGED pathVars
  BY <1>8 DEF pathVars, Stepping
<1>9. QED
  BY <1>2, <1>3, <1>4, <1>5, <1>6, <1>7, <1>8 DEF PathNext, Stepping

\* So each end keeps its own invariant, and what the sender counts has been received.
LEMMA EndsKeep ==
    ASSUME PathInv, [PathNext]_pathVars, ~smashed'
    PROVE  TxInv' /\ RxInv' /\ AckInv(received)'
<1>1. Stepping(received) /\ [RxNext]_rxVars /\ TxInv /\ RxInv
  BY EndSteps DEF PathInv
<1>2. RxInv'
  BY <1>1, RxStepInv
<1>3. PICK G, H : G = received /\ H = received'
  OBVIOUS
<1>4. Stepping(G) /\ G \subseteq Datagrams /\ G \subseteq H /\ AckInv(G)
  BY <1>1, <1>3, ReceivedGrows DEF PathInv, RxInv, RxTypeOK
<1>5. TxInv' /\ AckInv(G)'
  BY <1>1, <1>4, SteppingInv, AckStep
<1>6. AckInv(H)'
  BY <1>4, <1>5 DEF AckInv, AckSound
<1>7. QED
  BY <1>2, <1>3, <1>5, <1>6

----------------------------------------------------------------------------
(***************************************************************************)
(* The sending end, a thread at a time.                                    *)
(***************************************************************************)
\* Whoever else is in send_data when a thread has taken a step was there before; if
\* the flag does its work, there is nobody else.
LEMMA AloneInStep ==
    ASSUME TxInv, OneInSend, OneInSend', NEW t \in Threads, Call(t) \/ SendData(t),
           NEW u \in Threads, u # t
    PROVE  /\ pc'[u] = pc[u] /\ mine'[u] = mine[u]
           /\ ~Begin(t) => mine'[t] = mine[t] /\ packet_id' = packet_id
           /\ ~Refused(t) => ~Active(u)
<1>1. pc \in [Threads -> Places] /\ mine \in [Threads -> PktIds \cup {0}]
  BY DEF TxInv, TxTypeOK
<1>2. CASE Begin(t)
  <2>1. pc'[u] = pc[u] /\ mine'[u] = mine[u] /\ pc'[t] = "fill"
    BY <1>1, <1>2 DEF Begin
  <2>2. Active(t)' /\ (Active(u) => Active(u)')
    BY <2>1 DEF Active
  <2>3. QED
    BY <1>2, <2>1, <2>2 DEF OneInSend
<1>3. CASE Refused(t)
  BY <1>1, <1>3 DEF Refused, Begin
<1>4. CASE SendData(t)
  <2>1. Active(t)
    BY <1>4 DEF SendData, Active, Fill, Hold, SetPktId, SendSlot, SendFails, Extend, GiveUp,
         KeepOn, AllAcked, Release, Late, AfterSend, Polling
  <2>2. pc'[u] = pc[u] /\ mine' = mine /\ packet_id' = packet_id
    BY <1>1, <1>4 DEF SendData, Fill, Hold, SetPktId, SendSlot, SendFails, Extend, GiveUp,
         KeepOn, AllAcked, Release
  <2>3. QED
    BY <2>1, <2>2 DEF OneInSend
<1>5. QED
  BY <1>2, <1>3, <1>4 DEF Call

LEMMA LatestStep ==
    ASSUME TxInv, Latest, OneInSend, OneInSend', NEW t \in Threads, Call(t) \/ SendData(t)
    PROVE  Latest'
<1> SUFFICES ASSUME NEW u \in Threads, Active(u)' PROVE packet_id' = mine'[u] + 1
  BY DEF Latest
<1>1. pc \in [Threads -> Places] /\ mine \in [Threads -> PktIds \cup {0}]
  BY DEF TxInv, TxTypeOK
<1>2. CASE u # t
  <2>1. pc'[u] = pc[u] /\ mine'[u] = mine[u]
    BY <1>2, AloneInStep
  <2>2. Active(u)
    BY <2>1 DEF Active
  <2>3. Refused(t) /\ packet_id' = packet_id
    BY <1>2, <2>2, AloneInStep DEF Refused
  <2>4. QED
    BY <2>1, <2>2, <2>3 DEF Latest
<1>3. CASE u = t /\ Begin(t)
  BY <1>1, <1>3 DEF Begin
<1>4. CASE u = t /\ Refused(t)
  BY <1>1, <1>4 DEF Refused, Active, Latest
<1>5. CASE u = t /\ SendData(t)
  BY <1>1, <1>5 DEF SendData, Active, Latest, Fill, Hold, SetPktId, SendSlot, SendFails, Extend,
         GiveUp, KeepOn, AllAcked, Release, Late, AfterSend, Polling
<1>6. QED
  BY <1>2, <1>3, <1>4, <1>5 DEF Call

LEMMA FilledStep ==
    ASSUME TxInv, Filled, OneInSend, OneInSend', NEW t \in Threads, Call(t) \/ SendData(t)
    PROVE  Filled'
<1> DEFINE Now(u) == /\ pc'[u] = "fill" => FilledTo(u, slot[u])'
                     /\ Active(u)' /\ pc'[u] # "fill" => FilledTo(u, SubCount[mine[u]])'
<1> SUFFICES ASSUME NEW u \in Threads PROVE Now(u)
  BY DEF Filled
<1>1. /\ pc \in [Threads -> Places] /\ mine \in [Threads -> PktIds \cup {0}]
      /\ slot \in [Threads -> Nat] /\ data \in [Slots -> Datagrams \cup {NoData}]
  BY DEF TxInv, TxTypeOK
<1>2. CASE ~Active(u)'
  BY <1>2 DEF Active
<1>3. CASE Refused(t)
  BY <1>1, <1>3 DEF Refused, Filled, FilledTo, Active
<1>4. CASE u # t /\ ~Refused(t)
  BY <1>4, AloneInStep DEF Active
<1>5. CASE u = t /\ Begin(t)
  <2>1. pc'[t] = "fill" /\ slot'[t] = 0
    BY <1>1, <1>5 DEF Begin
  <2>2. mine'[t] = packet_id /\ packet_id \in PktIds
    BY <1>1, <1>5 DEF Begin
  <2>3. \A p \in PktIds : \A i \in Subs(p) : ~(i < 0)
    BY SubCountAssumption DEF Subs
  <2>4. FilledTo(t, slot[t])'
    BY <2>1, <2>2, <2>3 DEF FilledTo
  <2>5. QED
    BY <1>5, <2>1, <2>4
<1>6. CASE u = t /\ Fill(t)
  <2>1. mine[t] \in PktIds /\ slot[t] \in Subs(mine[t]) /\ FilledTo(t, slot[t])
    BY <1>6 DEF Fill, Active, TxInv, Working, Filled
  <2>2. /\ data' = [data EXCEPT ![slot[t]] = <<mine[t], slot[t]>>] /\ mine' = mine
        /\ slot[t] \in Slots
    BY <1>6, <2>1, SubFacts DEF Fill
  <2>3. \A i \in Subs(mine[t]) : i \in Nat /\ i \in Slots
    BY <2>1, SubFacts
  <2>4. \A i \in Subs(mine[t]) : i < slot[t] + 1 => data'[i] = <<mine[t], i>>
    <3> SUFFICES ASSUME NEW i \in Subs(mine[t]), i < slot[t] + 1
                 PROVE  data'[i] = <<mine[t], i>>
      OBVIOUS
    <3>1. CASE i = slot[t]
      BY <1>1, <2>2, <3>1
    <3>2. CASE i # slot[t]
      <4>1. i < slot[t]
        BY <1>1, <2>3, <3>2
      <4>2. data[i] = <<mine[t], i>>
        BY <2>1, <4>1 DEF FilledTo
      <4>3. QED
        BY <1>1, <2>2, <2>3, <3>2, <4>2
    <3>3. QED
      BY <3>1, <3>2
  <2>5. CASE slot[t] + 1 = SubCount[mine[t]]
    <3>1. pc'[t] = "hold"
      BY <1>1, <1>6, <2>5 DEF Fill
    <3>2. QED
      BY <1>6, <2>2, <2>4, <2>5, <3>1 DEF FilledTo
  <2>6. CASE slot[t] + 1 # SubCount[mine[t]]
    <3>1. pc'[t] = "fill" /\ slot'[t] = slot[t] + 1
      BY <1>1, <1>6, <2>6 DEF Fill
    <3>2. QED
      BY <1>6, <2>2, <2>4, <3>1 DEF FilledTo
  <2>7. QED
    BY <2>5, <2>6
<1>7. CASE u = t /\ SendData(t) /\ ~Fill(t)
  <2>1. data' = data /\ mine' = mine
    BY <1>7 DEF SendData, Hold, SetPktId, SendSlot, SendFails, Extend, GiveUp, KeepOn, AllAcked,
           Release
  <2>2. Active(t) /\ pc[t] # "fill"
    BY <1>7 DEF SendData, Active, Hold, SetPktId, SendSlot, SendFails, Extend, GiveUp,
           KeepOn, AllAcked, Release, Late, AfterSend, Polling
  <2>3. pc'[t] # "fill"
    BY <1>1, <1>7, <2>2 DEF SendData, Hold, SetPktId, SendSlot, SendFails, Extend, GiveUp,
           KeepOn, AllAcked, Release, Late, AfterSend, Polling
  <2>4. QED
    BY <1>7, <2>1, <2>2, <2>3 DEF Filled, FilledTo
<1>8. QED
  BY <1>2, <1>3, <1>4, <1>5, <1>6, <1>7 DEF Call

\* What is emitted is the sub-packet the loop is at.
LEMMA EmittedIs ==
    ASSUME TxInv, Filled, NEW t \in Threads, SendSlot(t)
    PROVE  /\ mine[t] \in PktIds /\ slot[t] \in Subs(mine[t]) /\ Active(t)
           /\ <<mine[t], slot[t]>> \in Datagrams
           /\ Emitted(t) = IF slot[t] \in ack THEN {} ELSE {<<mine[t], slot[t]>>}
<1>1. Active(t) /\ pc[t] # "fill"
  BY DEF SendSlot, Active
<1>2. mine[t] \in PktIds /\ slot[t] \in Subs(mine[t]) /\ FilledTo(t, SubCount[mine[t]])
  BY <1>1 DEF TxInv, Working, Filled
<1>3. <<mine[t], slot[t]>> \in Datagrams /\ slot[t] < SubCount[mine[t]]
  BY <1>2, SubFacts DEF Subs
<1>4. data[slot[t]] = <<mine[t], slot[t]>>
  BY <1>2, <1>3 DEF FilledTo
<1>5. <<mine[t], slot[t]>> # NoData
  BY <1>3, NoDataAssumption
<1>6. QED
  BY <1>1, <1>2, <1>3, <1>4, <1>5 DEF Emitted

----------------------------------------------------------------------------
(***************************************************************************)
(* The path.                                                               *)
(***************************************************************************)
LEMMA Appending ==
    ASSUME NEW S, NEW s \in Seq(S), NEW d \in S
    PROVE  /\ Append(s, d) \in Seq(S)
           /\ Len(s) \in Nat /\ Len(Append(s, d)) = Len(s) + 1
           /\ DOMAIN s = 1 .. Len(s)
           /\ DOMAIN Append(s, d) = 1 .. Len(s) + 1
           /\ \A k \in 1 .. Len(s) : Append(s, d)[k] = s[k]
           /\ Append(s, d)[Len(s) + 1] = d
OBVIOUS

LEMMA TailOf ==
    ASSUME NEW S, NEW s \in Seq(S), s # <<>>
    PROVE  /\ Head(s) \in S /\ Head(s) = s[1] /\ 1 \in DOMAIN s
           /\ Tail(s) \in Seq(S)
           /\ \A k \in DOMAIN Tail(s) : k + 1 \in DOMAIN s /\ Tail(s)[k] = s[k + 1] /\ k \in Nat
           /\ \A k \in DOMAIN s : k # 1 => k \in Nat /\ k - 1 \in DOMAIN Tail(s) /\ (k - 1) + 1 = k
OBVIOUS

LEMMA FlightGrows ==
    ASSUME NEW D \in SUBSET Datagrams, NEW E, D \subseteq E, NEW a \in Nat, NEW b \in Nat, a <= b,
           NEW c, NEW q, Flight(q, D, a, c)
    PROVE  Flight(q, E, b, c)
<1>1. \A d \in Datagrams : d[1] \in Nat
  BY PktIdsAssumption DEF Datagrams
<1>2. ASSUME NEW k \in DOMAIN q PROVE q[k] \in E /\ q[k][1] < b
  <2>1. q[k] \in D /\ q[k][1] < a
    BY DEF Flight
  <2>2. q[k][1] \in Nat
    BY <1>1, <2>1
  <2>3. QED
    BY <2>1, <2>2
<1>3. QED
  BY <1>2 DEF Flight

LEMMA FlightAppends ==
    ASSUME NEW D, NEW q, NEW d \in Datagrams, d \in D, NEW a \in Nat, a = d[1] + 1,
           NEW c \in Nat, c <= d[1], Flight(q, D, a, c)
    PROVE  Flight(Append(q, d), D, a, c)
<1>1. \A e \in Datagrams : e[1] \in Nat
  BY PktIdsAssumption DEF Datagrams
<1>2. q \in Seq(Datagrams)
  BY DEF Flight
<1>3. PICK r, n : r = Append(q, d) /\ n = Len(q)
  OBVIOUS
<1>4. /\ r \in Seq(Datagrams) /\ n \in Nat /\ DOMAIN r = 1 .. n + 1 /\ DOMAIN q = 1 .. n
      /\ \A k \in 1 .. n : r[k] = q[k]
      /\ r[n + 1] = d
  BY <1>2, <1>3, Appending
<1>5. \A k \in DOMAIN r : k \in 1 .. n \/ k = n + 1
  BY <1>4
<1>6. ASSUME NEW k \in 1 .. n
      PROVE  /\ r[k] \in D /\ r[k][1] \in Nat /\ r[k][1] < a /\ c <= r[k][1] /\ r[k][1] <= d[1]
             /\ \A l \in 1 .. n : k <= l => r[k][1] <= r[l][1]
  <2>1. /\ q[k] \in D /\ q[k][1] < a /\ c <= q[k][1] /\ q[k] \in Datagrams
        /\ \A l \in 1 .. n : k <= l => q[k][1] <= q[l][1]
    BY <1>2, <1>4 DEF Flight
  <2>2. q[k][1] \in Nat /\ d[1] \in Nat
    BY <1>1, <2>1
  <2>3. q[k][1] <= d[1]
    BY <2>1, <2>2
  <2>4. QED
    BY <1>4, <2>1, <2>2, <2>3
<1>7. r[n + 1] \in D /\ r[n + 1][1] < a /\ c <= r[n + 1][1] /\ d[1] \in Nat
  BY <1>1, <1>4
<1>8. \A k \in DOMAIN r : r[k] \in D /\ r[k][1] < a /\ c <= r[k][1]
  BY <1>5, <1>6, <1>7
<1>9. ASSUME NEW k \in DOMAIN r, NEW l \in DOMAIN r, k <= l PROVE r[k][1] <= r[l][1]
  <2>1. CASE l \in 1 .. n
    <3>1. k \in 1 .. n
      BY <1>4, <1>5, <1>9, <2>1
    <3>2. QED
      BY <1>6, <1>9, <2>1, <3>1
  <2>2. CASE l = n + 1
    BY <1>4, <1>5, <1>6, <1>7, <2>2
  <2>3. QED
    BY <1>5, <2>1, <2>2
<1>10. QED
  BY <1>3, <1>4, <1>8, <1>9 DEF Flight

LEMMA FlightTail ==
    ASSUME NEW D, NEW q, q # <<>>, NEW a, NEW c, NEW e, e = c \/ e = Head(q)[1], Flight(q, D, a, c)
    PROVE  Flight(Tail(q), D, a, e)
<1>1. /\ q \in Seq(Datagrams)
      /\ \A k \in DOMAIN q : /\ q[k] \in D /\ q[k][1] < a /\ c <= q[k][1]
                             /\ \A l \in DOMAIN q : k <= l => q[k][1] <= q[l][1]
  BY DEF Flight
<1>2. PICK r : r = Tail(q)
  OBVIOUS
<1>3. /\ r \in Seq(Datagrams) /\ Head(q) = q[1] /\ 1 \in DOMAIN q
      /\ \A k \in DOMAIN r : k + 1 \in DOMAIN q /\ r[k] = q[k + 1] /\ k \in Nat
  BY <1>1, <1>2, TailOf
<1>4. ASSUME NEW k \in DOMAIN r PROVE r[k] \in D /\ r[k][1] < a /\ e <= r[k][1]
  <2>1. k + 1 \in DOMAIN q /\ 1 <= k + 1 /\ r[k] = q[k + 1]
    BY <1>3
  <2>2. c <= q[k + 1][1] /\ q[1][1] <= q[k + 1][1] /\ q[k + 1] \in D /\ q[k + 1][1] < a
    BY <1>1, <1>3, <2>1
  <2>3. QED
    BY <1>3, <2>1, <2>2
<1>5. ASSUME NEW k \in DOMAIN r, NEW l \in DOMAIN r, k <= l PROVE r[k][1] <= r[l][1]
  <2>1. k + 1 \in DOMAIN q /\ l + 1 \in DOMAIN q /\ k + 1 <= l + 1
    BY <1>3, <1>5
  <2>2. q[k + 1][1] <= q[l + 1][1]
    BY <1>1, <2>1
  <2>3. QED
    BY <1>3, <2>2
<1>6. QED
  BY <1>2, <1>3, <1>4, <1>5 DEF Flight

\* What a datagram that arrives does to what the receiver is at.
LEMMA Arrives ==
    ASSUME PathInv, RecvHead
    PROVE  /\ Head(queue) \in Datagrams /\ Head(queue) = queue[1] /\ 1 \in DOMAIN queue
           /\ Head(queue)[1] \in PktIds /\ Head(queue)[2] \in Subs(Head(queue)[1])
           /\ cur_pktid <= Head(queue)[1] /\ Head(queue)[1] < packet_id
           /\ cur_pktid' = cur_pktid \/ cur_pktid' = Head(queue)[1]
           /\ received' = received \cup {Head(queue)}
<1>1. queue \in Seq(Datagrams) /\ queue # <<>>
  BY DEF PathInv, InFlight, Flight, RecvHead
<1>2. Head(queue) \in Datagrams /\ Head(queue) = queue[1] /\ 1 \in DOMAIN queue
  BY <1>1, TailOf
<1>3. Head(queue)[1] \in PktIds /\ Head(queue)[2] \in Subs(Head(queue)[1])
      /\ Head(queue) = <<Head(queue)[1], Head(queue)[2]>>
  BY <1>2, DatagramFacts
<1>4. cur_pktid <= Head(queue)[1] /\ Head(queue)[1] < packet_id
  BY <1>2 DEF PathInv, InFlight, Flight
<1>5. cur_pktid' = cur_pktid \/ cur_pktid' = Head(queue)[1]
  BY DEF RecvHead, Rdpkt, ReAck, AckHeld, StoreSub, CompletePkt, Overrun
<1>6. received' = received \cup {<<Head(queue)[1], Head(queue)[2]>>}
  BY DEF RecvHead, Rdpkt, ReAck, AckHeld, StoreSub, CompletePkt, Overrun
<1>7. QED
  BY <1>2, <1>3, <1>4, <1>5, <1>6

LEMMA PathTypes ==
    ASSUME PathInv
    PROVE  /\ packet_id \in Nat /\ net \subseteq Datagrams /\ mine \in [Threads -> PktIds \cup {0}]
           /\ cur_pktid \in Nat /\ PktIds \subseteq Nat
BY PktIdsAssumption DEF PathInv, TxInv, TxTypeOK, RxInv, RxTypeOK

\* Net and packet ids only grow.
LEMMA StepGrows ==
    ASSUME PathInv, NEW t \in Threads, Step(t)
    PROVE  /\ net \subseteq net' /\ packet_id' \in Nat /\ packet_id <= packet_id'
           /\ excused \subseteq excused'
           /\ UNCHANGED <<recv, cur_pktid, received, handedPkts, log>>
<1>1. packet_id' = packet_id \/ packet_id' = packet_id + 1
  BY DEF Step, Call, Begin, Refused, SendData, Fill, Hold, SetPktId, SendSlot,
         SendFails, Extend, GiveUp, KeepOn, AllAcked, Release
<1>2. net \subseteq net' /\ excused \subseteq excused'
  BY DEF Step, Call, Begin, Refused, SendData, Fill, Hold, SetPktId, SendSlot,
         SendFails, Extend, GiveUp, KeepOn, AllAcked, Release
<1>3. UNCHANGED <<recv, cur_pktid, received, handedPkts, log>>
  BY DEF Step, rxVars
<1>4. QED
  BY <1>1, <1>2, <1>3, PathTypes

LEMMA InFlightStep ==
    ASSUME PathInv, NEW t \in Threads, Step(t)
    PROVE  InFlight'
<1>1. Flight(queue, net', packet_id', cur_pktid')
  BY StepGrows, PathTypes, FlightGrows DEF PathInv, InFlight
<1>2. ASSUME SendSlot(t), NEW d \in Emitted(t), queue' = Append(queue, d)
      PROVE  InFlight'
  <2>1. d = <<mine[t], slot[t]>> /\ d \in Datagrams /\ Active(t) /\ mine[t] \in PktIds
    BY <1>2, EmittedIs DEF PathInv
  <2>2. packet_id = mine[t] + 1 /\ packet_id' = packet_id /\ d \in net'
    BY <1>2, <2>1 DEF SendSlot, PathInv, Latest
  <2>3. d[1] = mine[t] /\ mine[t] \in Nat /\ cur_pktid' = cur_pktid /\ cur_pktid \in Nat
        /\ packet_id \in Nat
    BY <2>1, StepGrows, PathTypes
  <2>4. cur_pktid <= mine[t]
    BY <2>2, <2>3 DEF PathInv, Given, GivenUpTo
  <2>5. PICK q : q = queue
    OBVIOUS
  <2>6. packet_id' = d[1] + 1 /\ cur_pktid' <= d[1] /\ packet_id' \in Nat /\ cur_pktid' \in Nat
    BY <2>2, <2>3, <2>4
  <2>7. Flight(Append(q, d), net', packet_id', cur_pktid')
    BY <1>1, <2>1, <2>2, <2>5, <2>6, FlightAppends
  <2>8. QED
    BY <1>2, <2>5, <2>7 DEF InFlight
<1>3. CASE UNCHANGED queue
  BY <1>1, <1>3 DEF InFlight
<1>4. QED
  BY <1>2, <1>3 DEF Step

LEMMA InFlightArrives ==
    ASSUME PathInv, RecvHead
    PROVE  InFlight'
<1>1. queue # <<>> /\ queue' = Tail(queue) /\ net' = net /\ packet_id' = packet_id
  BY DEF RecvHead, txVars
<1>2. Flight(Tail(queue), net, packet_id, cur_pktid')
  BY <1>1, Arrives, FlightTail DEF PathInv, InFlight
<1>3. QED
  BY <1>1, <1>2 DEF InFlight

----------------------------------------------------------------------------
(***************************************************************************)
(* What the application is given.                                          *)
(***************************************************************************)
LEMMA GivenLater ==
    ASSUME NEW s, NEW n \in Nat, NEW m \in Nat, n <= m, NEW c \in Nat, NEW d \in Nat, c <= d,
           GivenUpTo(s, n, c)
    PROVE  GivenUpTo(s, m, d) /\ (c < d => NoneOf(s, d))
<1>1. s \in Seq(Entries) /\ Service!Ordered(s)
  BY DEF GivenUpTo
<1>2. ASSUME NEW k \in DOMAIN s
      PROVE  s[k].pkt_id < m /\ s[k].pkt_id <= d /\ (c < d => s[k].pkt_id < d)
  <2>1. s[k] \in Entries
    BY <1>1
  <2>2. s[k].pkt_id \in Nat
    BY <2>1, PktIdsAssumption DEF Entries
  <2>3. s[k].pkt_id < n /\ s[k].pkt_id <= c
    BY DEF GivenUpTo
  <2>4. QED
    BY <2>2, <2>3
<1>3. QED
  BY <1>1, <1>2 DEF GivenUpTo, NoneOf

LEMMA GivenKept ==
    ASSUME PathInv, UNCHANGED <<recv, cur_pktid, log>>, packet_id <= packet_id', packet_id' \in Nat
    PROVE  Given'
<1>1. cur_pktid' = 0 \/ cur_pktid' < packet_id'
  BY PathTypes DEF PathInv, Given
<1>2. GivenUpTo(log, packet_id', cur_pktid)
  BY PathTypes, GivenLater DEF PathInv, Given
<1>3. QED
  BY <1>1, <1>2 DEF PathInv, Given, NoneOf

\* What of a payload, or of a reassembly, is an entry.
Entry(m) == [pkt_id |-> m.pkt_id, subs |-> m.subs]

\* A payload that may follow.
LEMMA OrderedAppend ==
    ASSUME NEW s \in Seq(Entries), NEW m \in Entries, Service!Ordered(s),
           \A k \in DOMAIN s : Service!Follows(s[k], m)
    PROVE  Service!Ordered(Append(s, m))
<1>1. PICK r, n : r = Append(s, m) /\ n = Len(s)
  OBVIOUS
<1>2. /\ n \in Nat /\ DOMAIN r = 1 .. n + 1 /\ DOMAIN s = 1 .. n
      /\ \A k \in 1 .. n : r[k] = s[k]
      /\ r[n + 1] = m
  BY <1>1, Appending
<1>3. ASSUME NEW k \in DOMAIN r, NEW l \in DOMAIN r, k < l PROVE Service!Follows(r[k], r[l])
  <2>1. k \in 1 .. n
    BY <1>2, <1>3
  <2>2. CASE l \in 1 .. n
    BY <1>2, <1>3, <2>1, <2>2 DEF Service!Ordered
  <2>3. CASE l = n + 1
    BY <1>2, <2>1, <2>3
  <2>4. QED
    BY <1>2, <2>2, <2>3
<1>4. QED
  BY <1>1, <1>3 DEF Service!Ordered

LEMMA GivenNext ==
    ASSUME NEW s, NEW n \in Nat, NEW c \in Nat, GivenUpTo(s, n, c), NoneOf(s, c),
           NEW m \in Entries, m.pkt_id = c, c < n
    PROVE  GivenUpTo(Append(s, m), n, c)
<1>1. s \in Seq(Entries) /\ Service!Ordered(s)
  BY DEF GivenUpTo
<1>2. \A k \in DOMAIN s : Service!Follows(s[k], m) /\ s[k].pkt_id < n /\ s[k].pkt_id <= c
  <2> SUFFICES ASSUME NEW k \in DOMAIN s
               PROVE  Service!Follows(s[k], m) /\ s[k].pkt_id < n /\ s[k].pkt_id <= c
    OBVIOUS
  <2>1. s[k] \in Entries
    BY <1>1
  <2>2. s[k].pkt_id \in Nat
    BY <2>1, PktIdsAssumption DEF Entries
  <2>3. s[k].pkt_id < n /\ s[k].pkt_id <= c /\ (c # 0 => s[k].pkt_id < c)
    BY DEF GivenUpTo, NoneOf
  <2>4. QED
    BY <2>2, <2>3 DEF Service!Follows
<1>3. Service!Ordered(Append(s, m))
  BY <1>1, <1>2, OrderedAppend
<1>4. PICK r, l : r = Append(s, m) /\ l = Len(s)
  OBVIOUS
<1>5. /\ r \in Seq(Entries) /\ l \in Nat /\ DOMAIN r = 1 .. l + 1 /\ DOMAIN s = 1 .. l
      /\ \A k \in 1 .. l : r[k] = s[k]
      /\ r[l + 1] = m
  BY <1>1, <1>4, Appending
<1>6. \A k \in DOMAIN r : k \in 1 .. l \/ k = l + 1
  BY <1>5
<1>7. \A k \in DOMAIN r : r[k].pkt_id < n /\ r[k].pkt_id <= c
  BY <1>2, <1>5, <1>6
<1>8. QED
  BY <1>3, <1>4, <1>5, <1>7 DEF GivenUpTo

\* What one datagram gives: nothing, one payload or two.
Entries1(s) == [k \in DOMAIN s |-> [pkt_id |-> s[k].pkt_id, subs |-> s[k].subs]]

LEMMA Gives ==
    ASSUME NEW s \in Seq(Entries)
    PROVE  /\ s \o Entries1(<<>>) = s
           /\ \A m : Entry(m) \in Entries => s \o Entries1(<<m>>) = Append(s, Entry(m))
           /\ \A m, n : Entry(m) \in Entries /\ Entry(n) \in Entries =>
                 s \o Entries1(<<m, n>>) = Append(Append(s, Entry(m)), Entry(n))
<1>1. s \o Entries1(<<>>) = s
  <2>1. Entries1(<<>>) = <<>>
    BY DEF Entries1
  <2>2. QED
    BY <2>1
<1>2. ASSUME NEW m, Entry(m) \in Entries
      PROVE  s \o Entries1(<<m>>) = Append(s, Entry(m))
  <2>1. Entries1(<<m>>) = <<Entry(m)>>
    BY DEF Entries1, Entry
  <2>2. s \o <<Entry(m)>> = Append(s, Entry(m))
    BY <1>2
  <2>3. QED
    BY <2>1, <2>2, Zenon
<1>3. ASSUME NEW m, NEW n, Entry(m) \in Entries, Entry(n) \in Entries
      PROVE  s \o Entries1(<<m, n>>) = Append(Append(s, Entry(m)), Entry(n))
  <2>1. Entries1(<<m, n>>) = <<Entry(m), Entry(n)>>
    BY DEF Entries1, Entry
  <2>2. s \o <<Entry(m), Entry(n)>> = Append(Append(s, Entry(m)), Entry(n))
    BY <1>3
  <2>3. QED
    BY <2>1, <2>2, Zenon
<1>4. QED
  BY <1>1, <1>2, <1>3

LEMMA PairOf ==
    ASSUME NEW S, NEW m \in S, NEW n \in S
    PROVE  Append(<<m>>, n) = <<m, n>>
<1>1. <<m>> \in Seq(S) /\ <<m, n>> \in Seq(S)
  OBVIOUS
<1>2. /\ Append(<<m>>, n) \in Seq(S) /\ Len(Append(<<m>>, n)) = 2
      /\ Append(<<m>>, n)[1] = m /\ Append(<<m>>, n)[2] = n
  BY <1>1
<1>3. Len(<<m, n>>) = 2 /\ <<m, n>>[1] = m /\ <<m, n>>[2] = n
  OBVIOUS
<1>4. \A k \in 1 .. 2 : k = 1 \/ k = 2
  OBVIOUS
<1>5. QED
  BY <1>1, <1>2, <1>3, <1>4, SeqEqual

\* A datagram gives nothing, or it opens or goes on with its packet; then what was open
\* of another packet is given, and the packet itself if it is complete.
LEMMA HeadGives ==
    ASSUME PathInv, RecvHead, NEW p, p = Head(queue)[1]
    PROVE  \/ log' = log /\ cur_pktid' = cur_pktid /\ (recv' = recv \/ recv' = NoRecv)
           \/ /\ cur_pktid' = p /\ ~AlreadySeen(p)
              /\ \/ ~Overtaken(p) /\ log' = log
                 \/ /\ ~Overtaken(p) /\ recv' = NoRecv
                    /\ \E e \in Entries : e.pkt_id = p /\ log' = Append(log, e)
                 \/ /\ Overtaken(p)
                    /\ \E f \in Entries : f.pkt_id = cur_pktid /\ log' = Append(log, f)
                 \/ /\ Overtaken(p) /\ recv' = NoRecv
                    /\ \E e, f \in Entries : /\ f.pkt_id = cur_pktid /\ e.pkt_id = p
                                             /\ log' = Append(Append(log, f), e)
<1> DEFINE i == Head(queue)[2]
<1>1. Rdpkt(p, i) /\ log' = log \o Entries1(handed')
  BY DEF RecvHead, Entries1
<1>2. log \in Seq(Entries)
  BY DEF PathInv, Given, GivenUpTo
<1>3. p \in PktIds /\ i \in Subs(p)
  BY Arrives
<1>4. recv # NoRecv => recv.pkt_id = cur_pktid /\ recv \in Recv
  BY DEF PathInv, RxInv, OpenInv, Sound
<1>5. Overtaken(p) => /\ Entry(PayloadOf(recv, FALSE)) \in Entries
                      /\ Entry(PayloadOf(recv, FALSE)).pkt_id = cur_pktid
  BY <1>4 DEF Overtaken, Entry, PayloadOf, Entries, Recv
<1>6. ASSUME NEW r, r.pkt_id = p, r.subpkt \in SUBSET Nat
      PROVE  /\ Entry(PayloadOf(r, TRUE)) \in Entries
             /\ Entry(PayloadOf(r, TRUE)).pkt_id = p
  BY <1>3, <1>6 DEF Entry, PayloadOf, Entries
<1>7. CASE handed' = <<>> /\ cur_pktid' = cur_pktid /\ (recv' = recv \/ recv' = NoRecv)
  BY <1>1, <1>2, <1>7, Gives
<1>8. CASE ReAck(p, i)
  <2>1. ~Overtaken(p)
    BY <1>4, <1>8 DEF ReAck, AlreadySeen, Overtaken
  <2>2. handed' = <<>> /\ cur_pktid' = cur_pktid /\ recv' = NoRecv
    BY <1>8, <2>1 DEF ReAck, Flushed
  <2>3. QED
    BY <1>7, <2>2
<1>9. CASE AckHeld(p, i)
  BY <1>7, <1>9 DEF AckHeld
<1>10. CASE StoreSub(p, i)
  <2>1. handed' = Flushed(p) /\ cur_pktid' = p /\ ~AlreadySeen(p)
    BY <1>10 DEF StoreSub
  <2>2. CASE Overtaken(p)
    <3>1. handed' = <<PayloadOf(recv, FALSE)>>
      BY <2>1, <2>2 DEF Flushed
    <3>2. log' = Append(log, Entry(PayloadOf(recv, FALSE)))
      BY <1>1, <1>2, <1>5, <2>2, <3>1, Gives
    <3>3. QED
      BY <1>5, <2>1, <2>2, <3>2
  <2>3. CASE ~Overtaken(p)
    <3>1. handed' = <<>>
      BY <2>1, <2>3 DEF Flushed
    <3>2. log' = log
      BY <1>1, <1>2, <3>1, Gives
    <3>3. QED
      BY <2>1, <2>3, <3>2
  <2>4. QED
    BY <2>2, <2>3
<1>11. CASE CompletePkt(p, i)
  <2>1. PICK r : r = Added(Base(p), i)
    OBVIOUS
  <2>2. /\ handed' = Append(Flushed(p), PayloadOf(r, TRUE)) /\ cur_pktid' = p
        /\ ~AlreadySeen(p) /\ recv' = NoRecv
    BY <1>11, <2>1 DEF CompletePkt, Completes
  <2>3. r.pkt_id = p /\ r.subpkt \in SUBSET Nat
    <3>1. Base(p).pkt_id = p /\ Base(p).subpkt \in SUBSET Nat
      BY <1>4 DEF Base, Opens, Fresh, Recv
    <3>2. i \in Nat
      BY <1>3, SubsCard
    <3>3. QED
      BY <2>1, <3>1, <3>2 DEF Added, Insert
  <2>4. /\ Entry(PayloadOf(r, TRUE)) \in Entries
        /\ Entry(PayloadOf(r, TRUE)).pkt_id = p
    BY <1>6, <2>3
  <2>5. CASE Overtaken(p)
    <3>1. PICK m, n : m = PayloadOf(recv, FALSE) /\ n = PayloadOf(r, TRUE)
      OBVIOUS
    <3>2. handed' = <<m, n>>
      <4>1. Flushed(p) = <<m>>
        BY <2>5, <3>1 DEF Flushed
      <4>2. Append(<<m>>, n) = <<m, n>>
        <5>1. \A S : m \in S /\ n \in S => Append(<<m>>, n) = <<m, n>>
          BY PairOf
        <5>2. m \in {m, n} /\ n \in {m, n}
          OBVIOUS
        <5>3. QED
          BY <5>1, <5>2, Zenon
      <4>3. QED
        BY <2>2, <3>1, <4>1, <4>2, Zenon
    <3>3. /\ Entry(m) \in Entries /\ Entry(m).pkt_id = cur_pktid
          /\ Entry(n) \in Entries /\ Entry(n).pkt_id = p
      BY <1>5, <2>4, <2>5, <3>1
    <3>4. log \o Entries1(<<m, n>>) = Append(Append(log, Entry(m)), Entry(n))
      BY <1>2, <3>3, Gives
    <3>5. log' = Append(Append(log, Entry(m)), Entry(n))
      BY <1>1, <3>2, <3>4, Zenon
    <3>6. QED
      BY <2>2, <2>5, <3>3, <3>5
  <2>6. CASE ~Overtaken(p)
    <3>1. PICK n : n = PayloadOf(r, TRUE)
      OBVIOUS
    <3>2. handed' = <<n>>
      <4>1. Flushed(p) = <<>>
        BY <2>6 DEF Flushed
      <4>2. Append(<<>>, n) = <<n>>
        OBVIOUS
      <4>3. QED
        BY <2>2, <3>1, <4>1, <4>2, Zenon
    <3>3. Entry(n) \in Entries /\ Entry(n).pkt_id = p
      BY <2>4, <3>1
    <3>4. log \o Entries1(<<n>>) = Append(log, Entry(n))
      BY <1>2, <3>3, Gives
    <3>5. log' = Append(log, Entry(n))
      BY <1>1, <3>2, <3>4, Zenon
    <3>6. QED
      BY <2>2, <2>6, <3>3, <3>5
  <2>7. QED
    BY <2>5, <2>6
<1>12. CASE Overrun(p, i)
  BY <1>7, <1>12 DEF Overrun
<1>13. QED
  BY <1>1, <1>8, <1>9, <1>10, <1>11, <1>12 DEF Rdpkt

LEMMA GivenArrives ==
    ASSUME PathInv, RecvHead
    PROVE  Given'
<1>1. PICK p, c, n : p = Head(queue)[1] /\ c = cur_pktid /\ n = packet_id
  OBVIOUS
<1>2. /\ p \in PktIds /\ p \in Nat /\ c \in Nat /\ n \in Nat /\ c <= p /\ p < n
      /\ packet_id' = n /\ (cur_pktid' = c \/ cur_pktid' = p)
  BY <1>1, Arrives, PathTypes DEF RecvHead, txVars
<1>3. cur_pktid' = 0 \/ cur_pktid' < packet_id'
  BY <1>1, <1>2 DEF PathInv, Given
<1>4. GivenUpTo(log, n, c) /\ (recv # NoRecv => NoneOf(log, c))
  BY <1>1 DEF PathInv, Given
<1>5. recv # NoRecv => recv.pkt_id = c
  BY <1>1 DEF PathInv, RxInv, OpenInv
<1>6. CASE log' = log /\ cur_pktid' = cur_pktid /\ (recv' = recv \/ recv' = NoRecv)
  BY <1>1, <1>2, <1>3, <1>4, <1>6 DEF Given
\* Going on with a packet, or opening one with nothing open.
<1>7. ASSUME ~AlreadySeen(p), ~Overtaken(p) PROVE GivenUpTo(log, n, p) /\ NoneOf(log, p)
  <2>1. CASE c < p
    BY <1>2, <1>4, <2>1, GivenLater
  <2>2. CASE ~(c < p)
    <3>1. p = c
      BY <1>2, <2>2
    <3>2. recv # NoRecv \/ c = 0
      BY <1>1, <1>7, <3>1 DEF AlreadySeen, Opens
    <3>3. QED
      BY <1>4, <3>1, <3>2 DEF NoneOf
  <2>3. QED
    BY <2>1, <2>2
\* Giving what was open of an older packet.
<1>8. ASSUME Overtaken(p), NEW f \in Entries, f.pkt_id = c
      PROVE  GivenUpTo(Append(log, f), n, p) /\ NoneOf(Append(log, f), p)
  <2>1. c < p /\ c < n /\ NoneOf(log, c)
    BY <1>2, <1>4, <1>5, <1>8 DEF Overtaken
  <2>2. GivenUpTo(Append(log, f), n, c)
    BY <1>2, <1>4, <1>8, <2>1, GivenNext
  <2>3. QED
    BY <1>2, <2>1, <2>2, GivenLater
<1>9. CASE cur_pktid' = p /\ ~AlreadySeen(p) /\ ~Overtaken(p) /\ log' = log
  BY <1>2, <1>3, <1>7, <1>9 DEF Given
<1>10. ASSUME cur_pktid' = p, ~AlreadySeen(p), ~Overtaken(p), recv' = NoRecv,
              NEW e \in Entries, e.pkt_id = p, log' = Append(log, e)
       PROVE  Given'
  <2>1. GivenUpTo(Append(log, e), n, p)
    BY <1>2, <1>7, <1>10, GivenNext
  <2>2. QED
    BY <1>2, <1>3, <1>10, <2>1 DEF Given
<1>11. ASSUME cur_pktid' = p, Overtaken(p), NEW f \in Entries, f.pkt_id = c,
              log' = Append(log, f)
       PROVE  Given'
  BY <1>2, <1>3, <1>8, <1>11 DEF Given
<1>12. ASSUME cur_pktid' = p, Overtaken(p), recv' = NoRecv, NEW e \in Entries, NEW f \in Entries,
              f.pkt_id = c, e.pkt_id = p, log' = Append(Append(log, f), e)
       PROVE  Given'
  <2>1. PICK r : r = Append(log, f)
    OBVIOUS
  <2>2. GivenUpTo(r, n, p) /\ NoneOf(r, p)
    BY <1>8, <1>12, <2>1
  <2>3. GivenUpTo(Append(r, e), n, p)
    BY <1>2, <1>12, <2>2, GivenNext
  <2>4. QED
    BY <1>2, <1>3, <1>12, <2>1, <2>3 DEF Given
<1>13. QED
  BY <1>1, <1>6, <1>9, <1>10, <1>11, <1>12, HeadGives

----------------------------------------------------------------------------
LEMMA PathInitInv == PathInit => PathInv
<1> SUFFICES ASSUME PathInit PROVE PathInv
  OBVIOUS
<1>1. TxInv /\ RxInv
  BY TxInitInv, RxInitInv DEF PathInit
<1>2. received \subseteq net /\ AckInv(received) /\ Filled /\ Latest
  BY DEF PathInit, TxInit, RxInit, AckInv, Filled, Latest, Active
<1>3. queue = <<>> /\ log = <<>> /\ recv = NoRecv /\ cur_pktid = 0
  BY DEF PathInit, RxInit
<1>4. InFlight
  BY <1>3 DEF InFlight, Flight
<1>5. Given
  BY <1>3 DEF Given, GivenUpTo, Service!Ordered
<1>6. QED
  BY <1>1, <1>2, <1>4, <1>5 DEF PathInv

LEMMA PathStep ==
    ASSUME PathInv, OneInSend, OneInSend', [PathNext]_pathVars, ~smashed'
    PROVE  PathInv'
<1>1. TxInv' /\ RxInv' /\ AckInv(received)'
  BY EndsKeep
<1>2. ASSUME NEW t \in Threads, Step(t)
      PROVE  received' \subseteq net' /\ Filled' /\ Latest' /\ InFlight' /\ Given'
  <2>1. Filled' /\ Latest'
    BY <1>2, FilledStep, LatestStep DEF PathInv, Step
  <2>2. received' \subseteq net' /\ Given'
    BY <1>2, StepGrows, GivenKept DEF PathInv
  <2>3. QED
    BY <1>2, <2>1, <2>2, InFlightStep
<1>3. CASE Aside
  <2>1. /\ UNCHANGED <<packet_id, data, pc, mine, slot, net, queue, log, recv, cur_pktid, received>>
        /\ packet_id \in Nat
    BY <1>3, PathTypes DEF Aside
  <2>2. Filled' /\ Latest'
    BY <2>1 DEF PathInv, Filled, FilledTo, Latest, Active
  <2>3. InFlight' /\ received' \subseteq net'
    BY <2>1 DEF PathInv, InFlight
  <2>4. Given'
    BY <2>1, GivenKept
  <2>5. QED
    BY <1>1, <2>2, <2>3, <2>4 DEF PathInv
<1>4. CASE RecvHead
  <2>1. UNCHANGED <<packet_id, data, pc, mine, slot, net>>
    BY <1>4 DEF RecvHead, txVars
  <2>2. Filled' /\ Latest'
    BY <2>1 DEF PathInv, Filled, FilledTo, Latest, Active
  <2>3. Head(queue) \in net
    BY <1>4, Arrives DEF PathInv, InFlight, Flight
  <2>4. received' \subseteq net'
    BY <1>4, <2>1, <2>3, Arrives DEF PathInv
  <2>5. QED
    BY <1>1, <1>4, <2>2, <2>4, InFlightArrives, GivenArrives DEF PathInv
<1>5. QED
  BY <1>1, <1>2, <1>3, <1>4, Kinds DEF PathInv

\* Once cbdata is overrun nothing arrives any more, and the types are kept.
LEMMA PathAfter ==
    ASSUME PathSafe, smashed, [PathNext]_pathVars
    PROVE  TxInv' /\ RxTypeOK' /\ smashed' /\ ~RecvHead
<1>1. ~RecvHead
  BY DEF RecvHead, Rdpkt, ReAck, AckHeld, StoreSub, CompletePkt, Overrun, Handles
<1>2. ASSUME NEW t \in Threads, Sending(t) PROVE SendData(t) /\ UNCHANGED rxVars
  BY <1>2 DEF Sending, SendDatagram, SendData
<1>3. acks \subseteq Datagrams
  BY DEF PathSafe, RxTypeOK
<1>4. CASE UNCHANGED rxVars /\ Stepping(Datagrams)
  BY <1>1, <1>4, SteppingInv DEF PathSafe, RxTypeOK, rxVars
<1>5. CASE OtherSession
  <2>1. TxInv'
    BY <1>5, SteppingInv DEF OtherSession, Stepping, PathSafe
  <2>2. RxTypeOK' /\ smashed'
    BY <1>5, GoodSeqs DEF OtherSession, OtherSessionAdd, RxTypeOK, PathSafe
  <2>3. QED
    BY <1>1, <2>1, <2>2
<1>6. CASE NewCall \/ Clock
  BY <1>4, <1>6 DEF NewCall, Clock, Stepping
<1>7. CASE AckListener
  BY <1>3, <1>4, <1>7 DEF AckListener, Stepping
<1>8. CASE UNCHANGED pathVars
  BY <1>4, <1>8 DEF pathVars, Stepping
<1>9. CASE \E t \in Threads : Sending(t)
  BY <1>2, <1>4, <1>9 DEF Stepping
<1>10. QED
  BY <1>1, <1>5, <1>6, <1>7, <1>8, <1>9 DEF PathNext

\* What holds of both ends, step by step, also when cbdata is overrun.
LEMMA PathSafeStep ==
    ASSUME PathSafe, OneInSend, OneInSend', [PathNext]_pathVars
    PROVE  PathSafe'
<1>1. CASE smashed
  BY <1>1, PathAfter DEF PathSafe
<1>2. CASE ~smashed
  <2>1. Stepping(received) /\ [RxNext]_rxVars /\ TxInv /\ received \subseteq Datagrams /\ RxInv
    BY <1>2, EndSteps DEF PathSafe, PathInv, RxTypeOK
  <2>2. TxInv'
    BY <2>1, SteppingInv
  <2>3. RxTypeOK'
    <3>1. RxSafe
      BY <2>1 DEF RxInv, RxSafe, OnlyLongOverruns
    <3>2. QED
      BY <2>1, <3>1, RxNextInv DEF RxSafe
  <2>4. QED
    BY <1>2, <2>2, <2>3, PathStep DEF PathSafe
<1>3. QED
  BY <1>1, <1>2

\* The invariant of the two ends on an ordered path.
THEOREM PathInductive == PathSpec /\ []OneInSend => []PathSafe
<1>1. PathInit => PathSafe
  BY PathInitInv DEF PathSafe, PathInv, RxInv
<1>2. PathSafe /\ OneInSend /\ OneInSend' /\ [PathNext]_pathVars => PathSafe'
  BY PathSafeStep
<1>3. QED
  BY <1>1, <1>2, PTL DEF PathSpec

----------------------------------------------------------------------------
(***************************************************************************)
(* The refinement.                                                         *)
(***************************************************************************)
\* The datagram that overruns cbdata adds nothing to it.
LEMMA OverrunGives ==
    ASSUME PathInv, RecvHead, smashed'
    PROVE  log' = log
<1>1. ~smashed /\ log \in Seq(Entries)
  BY DEF PathInv, RxInv, Given, GivenUpTo
<1>2. handed' = <<>>
  BY <1>1 DEF RecvHead, Rdpkt, ReAck, AckHeld, StoreSub, CompletePkt, Overrun
<1>3. log' = log \o Entries1(handed')
  BY DEF RecvHead, Entries1
<1>4. QED
  BY <1>1, <1>2, <1>3, Gives

\* What a datagram that arrives adds to what the application has been given.
LEMMA HandsUp ==
    ASSUME PathInv, PathInv', RecvHead, log' # log
    PROVE  Service!HandUp
<1>1. packet_id' = packet_id
  BY DEF RecvHead, txVars
<1>2. PICK r, s, g : r = log' /\ s = log /\ g = Entries1(handed')
  OBVIOUS
<1>3. r = s \o g
  BY <1>2 DEF RecvHead, Entries1
<1>4. handed' \in Seq(Payload) /\ GoodPayloads(handed', received') /\ received' \subseteq Datagrams
  BY DEF PathInv, RxInv, RxTypeOK
<1>5. /\ DOMAIN g = DOMAIN handed'
      /\ \A k \in DOMAIN g : /\ g[k] \in Entries /\ g[k].subs # {}
                             /\ g[k].subs \subseteq Subs(g[k].pkt_id)
  <2>1. DOMAIN g = DOMAIN handed' /\ \A k \in DOMAIN g : g[k] = Entry(handed'[k])
    BY <1>2 DEF Entries1, Entry
  <2>2. ASSUME NEW k \in DOMAIN handed'
        PROVE  /\ Entry(handed'[k]) \in Entries /\ Entry(handed'[k]).subs # {}
               /\ Entry(handed'[k]).subs \subseteq Subs(Entry(handed'[k]).pkt_id)
    <3>1. GoodPayload(handed'[k], received')
      BY <1>4 DEF GoodPayloads
    <3>2. PICK m : m = handed'[k]
      OBVIOUS
    <3>3. /\ m.pkt_id \in PktIds /\ m.subs \in SUBSET Nat /\ m.subs # {}
          /\ \A j \in m.subs : <<m.pkt_id, j>> \in Datagrams
      BY <1>4, <3>1, <3>2 DEF GoodPayload, Payload
    <3>4. m.subs \subseteq Subs(m.pkt_id)
      <4>1. ASSUME NEW j \in m.subs PROVE j \in Subs(m.pkt_id)
        <5>1. PICK d \in Datagrams : d = <<m.pkt_id, j>>
          BY <3>3, <4>1
        <5>2. QED
          BY <5>1, DatagramFacts
      <4>2. QED
        BY <4>1
    <3>5. QED
      BY <3>2, <3>3, <3>4 DEF Entry, Entries
  <2>3. QED
    BY <2>1, <2>2
<1>6. g \in Seq(Entries) /\ s \in Seq(Entries) /\ r \in Seq(Entries)
  <2>1. g = [k \in 1 .. Len(handed') |-> g[k]] /\ Len(handed') \in Nat
    BY <1>2, <1>4 DEF Entries1
  <2>2. g \in [1 .. Len(handed') -> Entries]
    BY <1>4, <1>5, <2>1
  <2>3. g \in Seq(Entries)
    BY <2>1, <2>2
  <2>4. QED
    BY <1>2, <2>3 DEF PathInv, Given, GivenUpTo
<1>7. Len(g) # 0
  BY <1>2, <1>3, <1>6
<1>8. Len(s) < Len(r) /\ SubSeq(r, 1, Len(s)) = s
  BY <1>3, <1>6, <1>7
<1>9. ASSUME NEW k \in Len(s) + 1 .. Len(r)
       PROVE  /\ r[k].pkt_id \in PktIds /\ r[k].pkt_id < packet_id'
              /\ r[k].subs # {} /\ r[k].subs \subseteq Subs(r[k].pkt_id)
  <2>1. k - Len(s) \in DOMAIN g /\ r[k] = g[k - Len(s)] /\ k \in DOMAIN r
    BY <1>3, <1>6
  <2>2. r[k].pkt_id < packet_id'
    BY <1>2, <2>1 DEF PathInv, Given, GivenUpTo
  <2>3. QED
    BY <1>5, <2>1, <2>2 DEF Entries
<1>10. \A p : Service!Subs(p) = Subs(p)
  BY DEF Service!Subs, Subs
<1>11. UNCHANGED {p \in PktIds : p < packet_id}
  BY <1>1
<1>12. Len(log) < Len(log') /\ SubSeq(log', 1, Len(log)) = log
  BY <1>2, <1>8
<1>13. Service!Ordered(log')
  BY DEF PathInv, Given, GivenUpTo
<1>14. ASSUME NEW k \in Len(log) + 1 .. Len(log') PROVE Service!Piece(log'[k])
  <2>1. k \in Len(s) + 1 .. Len(r)
    BY <1>2
  <2>2. /\ log'[k].pkt_id \in PktIds /\ log'[k].pkt_id < packet_id'
        /\ log'[k].subs # {} /\ log'[k].subs \subseteq Subs(log'[k].pkt_id)
    BY <1>2, <1>9, <2>1
  <2>3. QED
    BY <1>10, <2>2 DEF Service!Piece
<1>15. QED
  BY <1>11, <1>12, <1>13, <1>14, Zenon DEF Service!HandUp

\* On a path that keeps datagrams in order, whatever it loses and however the
\* acknowledgements come, rudp hands up payloads in order and each packet at most once
\* (packet 0 apart), as long as s->sendflag keeps threads out of send_data (send.c:224-246).
THEOREM OrderedImplements == PathSpec /\ []OneInSend => Implements
<1>1. PathInit => Service!Init
  <2> SUFFICES ASSUME PathInit PROVE Service!Init
    OBVIOUS
  <2>1. log = <<>> /\ packet_id \in PktIds /\ \A p \in PktIds : packet_id <= p
    BY DEF PathInit, TxInit
  <2>2. \A p \in PktIds : ~(p < packet_id)
    BY <2>1, PktIdsAssumption
  <2>3. QED
    BY <2>1, <2>2 DEF Service!Init
<1>2. PathSafe /\ PathSafe' /\ [PathNext]_pathVars
        => [Service!Next]_<<{p \in PktIds : p < packet_id}, log>>
  <2> SUFFICES ASSUME PathSafe, PathSafe', [PathNext]_pathVars
               PROVE  [Service!Next]_<<{p \in PktIds : p < packet_id}, log>>
    OBVIOUS
  <2>0. TxInv /\ packet_id \in Nat /\ PktIds \subseteq Nat
    BY PktIdsAssumption DEF PathSafe, TxInv, TxTypeOK
  <2>1. CASE UNCHANGED <<packet_id, log>>
    BY <2>1
  <2>2. ASSUME NEW t \in Threads, Step(t), ~ UNCHANGED packet_id
        PROVE  Service!Offer
    <3>1. Begin(t) /\ UNCHANGED log
      BY <2>2 DEF Step, Call, Refused, SendData, Fill, Hold, SetPktId, SendSlot, SendFails, Extend,
             GiveUp, KeepOn, AllAcked, Release
    <3>2. packet_id \in PktIds /\ packet_id' = packet_id + 1
      BY <3>1 DEF Begin
    <3>3. packet_id \notin {p \in PktIds : p < packet_id}
      BY <2>0
    <3>4. {p \in PktIds : p < packet_id'} = {p \in PktIds : p < packet_id} \cup {packet_id}
      <4>1. PICK n \in PktIds : n = packet_id /\ packet_id' = n + 1
        BY <3>2
      <4>2. \A p \in PktIds : p < n + 1 <=> p < n \/ p = n
        BY <2>0
      <4>3. QED
        BY <4>1, <4>2
    <3>5. QED
      BY <3>1, <3>2, <3>3, <3>4 DEF Service!Offer
  <2>3. CASE RecvHead
    <3>1. packet_id' = packet_id
      BY <2>3 DEF RecvHead, txVars
    <3>2. PathInv
      BY <2>3, PathAfter DEF PathSafe
    <3>3. CASE ~smashed'
      <4>1. PathInv'
        BY <3>3 DEF PathSafe
      <4>2. QED
        BY <2>1, <2>3, <3>1, <3>2, <4>1, HandsUp DEF Service!Next
    <3>4. CASE smashed'
      BY <2>1, <2>3, <3>1, <3>2, <3>4, OverrunGives
    <3>5. QED
      BY <3>3, <3>4
  <2>4. CASE Aside
    BY <2>1, <2>4 DEF Aside
  <2>5. ASSUME NEW t \in Threads, Step(t), UNCHANGED packet_id
        PROVE  UNCHANGED <<packet_id, log>>
    BY <2>5 DEF Step
  <2>6. QED
    BY <2>0, <2>1, <2>2, <2>3, <2>4, <2>5, Kinds DEF Service!Next
<1>3. QED
  BY <1>1, <1>2, PathInductive, PTL DEF PathSpec, Implements, Service!Spec

----------------------------------------------------------------------------
(***************************************************************************)
(* A path that loses nothing.  There the first copy of each sub-packet     *)
(* comes after those of all that go before it, so that a reassembly grows  *)
(* in ascending order and is whole before the next packet begins.          *)
(***************************************************************************)
\* The order in which datagrams are first sent.
Before(e, d) == e[1] < d[1] \/ (e[1] = d[1] /\ e[2] < d[2])

\* Nothing is lost: what was sent has arrived or is in flight.
Kept == net \subseteq received \cup {queue[k] : k \in DOMAIN queue}

SentTo(p, n) == \A i \in Subs(p) : i < n => <<p, i>> \in net

\* A packet no thread is at any more was sent whole; the one a thread is at was sent as
\* far as its first turn of send_go has come.
SentSoFar ==
    /\ \A p \in PktIds : p < packet_id /\ p \notin excused =>
          \/ \E t \in Threads : Active(t) /\ mine[t] = p
          \/ SentTo(p, SubCount[p])
    /\ \A t \in Threads : pc[t] \in {"hold", "setid"} => slot[t] = 0
    /\ \A t \in Threads : mine[t] \notin excused =>
          /\ pc[t] = "loop" => SentTo(mine[t], slot[t])
          /\ pc[t] \in {"late", "check", "release"} \/ (pc[t] = "loop" /\ ~due[t]) =>
                SentTo(mine[t], SubCount[mine[t]])

\* Every datagram comes after all that were first sent before it.
InOrder ==
    \A e \in Datagrams : e[1] \notin excused =>
        /\ \A k \in DOMAIN queue :
              Before(e, queue[k]) => e \in received \/ \E l \in DOMAIN queue : l < k /\ queue[l] = e
        /\ \A d \in received : Before(e, d) => e \in received

\* Nothing arrived of a packet yet to be opened, and a reassembly holds what arrived.
OpenedInOrder ==
    /\ \A d \in received : d[1] <= cur_pktid
    /\ recv # NoRecv /\ recv.pkt_id # 0 /\ recv.pkt_id \notin excused =>
          recv.subpkt = Arrived(recv.pkt_id) /\ recv.ascending

\* The same of what has been given, on a path that may lose datagrams or may not.
WholeInv == Lossy \/ (Kept /\ SentSoFar /\ InOrder /\ OpenedInOrder /\ WholeWhenLossless)

\* What was sent is in flight or has arrived.
LEMMA KeptStep ==
    ASSUME PathInv, Kept, ~Lossy, NEW t \in Threads, Step(t)
    PROVE  Kept'
<1>1. received' = received /\ queue \in Seq(Datagrams)
  BY StepGrows DEF PathInv, InFlight, Flight
<1>2. CASE UNCHANGED <<queue, net>>
  BY <1>1, <1>2 DEF Kept
<1>3. ASSUME SendSlot(t), NEW d \in Emitted(t), queue' = Append(queue, d)
      PROVE  Kept'
  <2>1. d \in Datagrams /\ net' = net \cup {d}
    BY <1>3, EmittedIs DEF PathInv, SendSlot
  <2>2. PICK q, r, n : q = queue' /\ r = queue /\ n = Len(r)
    OBVIOUS
  <2>3. /\ n \in Nat /\ DOMAIN q = 1 .. n + 1 /\ DOMAIN r = 1 .. n
        /\ \A k \in 1 .. n : q[k] = r[k]
        /\ q[n + 1] = d
    BY <1>1, <1>3, <2>1, <2>2, Appending
  <2>4. \A k \in DOMAIN r : k \in DOMAIN q /\ q[k] = r[k]
    BY <2>3
  <2>5. n + 1 \in DOMAIN q
    BY <2>3
  <2>6. ASSUME NEW e \in net' PROVE e \in received' \/ \E k \in DOMAIN q : q[k] = e
    BY <1>1, <2>1, <2>2, <2>3, <2>4, <2>5, <2>6 DEF Kept
  <2>7. QED
    BY <2>2, <2>6 DEF Kept
<1>4. CASE ~SendSlot(t)
  <2>1. UNCHANGED <<queue, net>>
    BY <1>4 DEF Step, Call, Begin, Refused, SendData, Fill, Hold, SetPktId, SendFails, Extend,
           GiveUp, KeepOn, AllAcked, Release
  <2>2. QED
    BY <1>2, <2>1
<1>5. CASE SendSlot(t) /\ UNCHANGED queue /\ Emitted(t) = {}
  BY <1>2, <1>5 DEF SendSlot
<1>6. QED
  BY <1>3, <1>4, <1>5 DEF Step

\* A queue without its head.
LEMMA Rest ==
    ASSUME PathInv, RecvHead, NEW e
    PROVE  /\ \A k \in DOMAIN queue : queue[k] = e =>
                 e \in received' \/ \E l \in DOMAIN queue' : k = l + 1 /\ queue'[l] = e
           /\ \A k \in DOMAIN queue' : k \in Nat /\ k + 1 \in DOMAIN queue
                                      /\ queue'[k] = queue[k + 1]
<1>1. queue \in Seq(Datagrams) /\ queue # <<>>
  BY DEF PathInv, InFlight, Flight, RecvHead
<1>2. PICK q, r : q = queue' /\ r = queue
  OBVIOUS
<1>3. q = Tail(r) /\ r \in Seq(Datagrams) /\ r # <<>>
  BY <1>1, <1>2 DEF RecvHead
<1>4. /\ \A k \in DOMAIN q : k + 1 \in DOMAIN r /\ q[k] = r[k + 1] /\ k \in Nat
      /\ \A k \in DOMAIN r : k # 1 => k \in Nat /\ k - 1 \in DOMAIN q /\ (k - 1) + 1 = k
  BY <1>3, TailOf
<1>5. r[1] \in received'
  BY <1>2, Arrives
<1>6. ASSUME NEW k \in DOMAIN r, r[k] = e
      PROVE  e \in received' \/ \E l \in DOMAIN q : k = l + 1 /\ q[l] = e
  <2>1. CASE k = 1
    BY <1>5, <1>6, <2>1
  <2>2. CASE k # 1
    <3>1. k - 1 \in DOMAIN q /\ q[k - 1] = e /\ k = (k - 1) + 1
      BY <1>4, <1>6, <2>2
    <3>2. QED
      BY <3>1
  <2>3. QED
    BY <2>1, <2>2
<1>7. QED
  BY <1>2, <1>4, <1>6

LEMMA KeptArrives ==
    ASSUME PathInv, Kept, RecvHead
    PROVE  Kept'
<1>1. net' = net /\ received \subseteq received'
  BY Arrives DEF RecvHead, txVars
<1>2. ASSUME NEW e \in net'
      PROVE  e \in received' \/ \E l \in DOMAIN queue' : queue'[l] = e
  BY <1>1, Rest DEF Kept
<1>3. QED
  BY <1>2 DEF Kept

\* What has been sent of a packet stays sent.
LEMMA SentStays ==
    ASSUME net \subseteq net', NEW p, NEW n, SentTo(p, n)
    PROVE  SentTo(p, n)'
BY DEF SentTo

LEMMA SentWhole ==
    ASSUME NEW p \in PktIds, SentTo(p, SubCount[p]), NEW n
    PROVE  SentTo(p, n)
<1>1. \A i \in Subs(p) : i < SubCount[p]
  BY SubCountAssumption DEF Subs
<1>2. QED
  BY <1>1 DEF SentTo

\* The first part of SentSoFar, and the rest of it for one thread.
SentBefore ==
    \A p \in PktIds : p < packet_id /\ p \notin excused =>
        (\E t \in Threads : Active(t) /\ mine[t] = p) \/ SentTo(p, SubCount[p])
SentBy(t) ==
    /\ pc[t] \in {"hold", "setid"} => slot[t] = 0
    /\ mine[t] \notin excused =>
          /\ pc[t] = "loop" => SentTo(mine[t], slot[t])
          /\ pc[t] \in {"late", "check", "release"} \/ (pc[t] = "loop" /\ ~due[t]) =>
                SentTo(mine[t], SubCount[mine[t]])

LEMMA SentParts == SentSoFar <=> SentBefore /\ \A t \in Threads : SentBy(t)
BY DEF SentSoFar, SentBefore, SentBy

LEMMA SentBeforeStep ==
    ASSUME PathInv, OneInSend, OneInSend', SentSoFar, NEW t \in Threads, Step(t)
    PROVE  SentBefore'
<1>1. /\ pc \in [Threads -> Places] /\ mine \in [Threads -> PktIds \cup {0}]
      /\ net \subseteq net' /\ excused \subseteq excused' /\ packet_id \in Nat
      /\ PktIds \subseteq Nat
  BY StepGrows, PathTypes DEF PathInv, TxInv, TxTypeOK
<1>2. TxInv /\ (Call(t) \/ SendData(t))
  BY DEF PathInv, Step
<1> SUFFICES ASSUME NEW p \in PktIds, p < packet_id', p \notin excused',
                    ~ SentTo(p, SubCount[p])'
             PROVE  \E u \in Threads : Active(u)' /\ mine'[u] = p
  BY DEF SentBefore
<1>3. p \notin excused /\ ~ SentTo(p, SubCount[p])
  BY <1>1, SentStays
<1>4. CASE p < packet_id
  <2>1. PICK u \in Threads : Active(u) /\ mine[u] = p
    BY <1>3, <1>4 DEF SentSoFar
  <2>2. CASE u # t
    <3>1. pc'[u] = pc[u] /\ mine'[u] = mine[u]
      BY <1>2, <2>2, AloneInStep
    <3>2. QED
      BY <2>1, <3>1 DEF Active
  <2>3. CASE u = t
    <3>1. pc[t] # "idle" /\ pc[t] # "release"
      BY <1>3, <2>1, <2>3 DEF SentSoFar, Active
    <3>2. SendData(t) /\ ~Release(t)
      BY <1>2, <3>1 DEF Call, Begin, Refused, Release
    <3>3. mine' = mine /\ Active(t)'
      BY <1>1, <3>2 DEF SendData, Active, Fill, Hold, SetPktId, SendSlot, SendFails, Extend,
             GiveUp, KeepOn, AllAcked, Late, AfterSend, Polling
    <3>4. QED
      BY <2>1, <2>3, <3>3
  <2>4. QED
    BY <2>2, <2>3
<1>5. CASE ~(p < packet_id)
  <2>1. packet_id' # packet_id
    BY <1>5
  <2>2. Begin(t)
    BY <1>2, <2>1 DEF Call, Refused, SendData, Fill, Hold, SetPktId, SendSlot, SendFails, Extend,
           GiveUp, KeepOn, AllAcked, Release
  <2>3. p = packet_id /\ mine'[t] = packet_id /\ Active(t)'
    BY <1>1, <1>5, <2>2 DEF Begin, Active
  <2>4. QED
    BY <2>3
<1>6. QED
  BY <1>4, <1>5

\* One turn of send_go's loop for a packet that is not excused: the sub-packet is sent,
\* or has been received.
LEMMA SlotSent ==
    ASSUME PathInv, NEW t \in Threads, SendSlot(t), mine[t] \notin excused,
           NEW p, p = mine[t], NEW n, n = slot[t], SentTo(p, n)
    PROVE  SentTo(p, n + 1)'
<1>1. /\ mine[t] \in PktIds /\ slot[t] \in Subs(mine[t]) /\ Active(t) /\ pc[t] = "loop"
      /\ Emitted(t) = IF slot[t] \in ack THEN {} ELSE {<<mine[t], slot[t]>>}
      /\ mine' = mine /\ net' = net \cup Emitted(t)
  BY EmittedIs DEF PathInv, SendSlot
<1>2. slot[t] \in ack => <<mine[t], slot[t]>> \in received
  BY <1>1 DEF PathInv, AckInv, AckSound, Counting
<1>3. <<mine[t], slot[t]>> \in net'
  BY <1>1, <1>2 DEF PathInv
<1>4. \A i \in Subs(p) : i \in Nat /\ n \in Nat
  BY <1>1, SubsCard
<1>5. ASSUME NEW i \in Subs(p), i < n + 1 PROVE <<p, i>> \in net'
  <2>1. i < n \/ i = n
    BY <1>4, <1>5
  <2>2. QED
    BY <1>1, <1>3, <1>5, <2>1 DEF SentTo
<1>6. QED
  BY <1>5 DEF SentTo

LEMMA SentByStep ==
    ASSUME PathInv, OneInSend, OneInSend', SentSoFar, ~Lossy, NEW t \in Threads, Step(t),
           NEW u \in Threads
    PROVE  SentBy(u)'
<1>1. /\ pc \in [Threads -> Places] /\ mine \in [Threads -> PktIds \cup {0}]
      /\ slot \in [Threads -> Nat] /\ due \in [Threads -> BOOLEAN]
      /\ net \subseteq net' /\ excused \subseteq excused'
  BY StepGrows DEF PathInv, TxInv, TxTypeOK
<1>2. TxInv /\ (Call(t) \/ SendData(t))
  BY DEF PathInv, Step
<1>3. CASE pc'[u] \in {"idle", "ended", "fill"}
  BY <1>3 DEF SentBy
<1>4. CASE u # t \/ Refused(t)
  <2>1. pc'[u] \notin {"idle", "ended", "fill"} => Refused(t)
    BY <1>2, <1>4, AloneInStep DEF Active
  <2>2. CASE Refused(t)
    <3>1. UNCHANGED <<mine, slot, due, net, excused>> /\ (pc'[u] = pc[u] \/ pc'[u] = "ended")
      BY <1>1, <2>2 DEF Refused
    <3>2. QED
      BY <1>3, <3>1, SentParts DEF SentBy, SentTo
  <2>3. QED
    BY <1>3, <2>1, <2>2
<1>5. CASE u = t /\ Begin(t)
  <2>1. pc'[t] = "fill"
    BY <1>1, <1>5 DEF Begin
  <2>2. QED
    BY <1>3, <1>5, <2>1
<1>6. ASSUME u = t, SendData(t) PROVE SentBy(u)'
  <2>1. mine' = mine /\ (mine'[t] \notin excused' => mine[t] \notin excused) /\ SentBy(t)
    BY <1>1, <1>6, SentParts DEF SendData, Fill, Hold, SetPktId, SendSlot, SendFails, Extend, GiveUp,
           KeepOn, AllAcked, Release
  <2>2. PICK p, n : p = mine[t] /\ n = slot[t]
    OBVIOUS
  <2>a. Active(t) /\ p \in PktIds /\ n \in Nat
    BY <1>1, <1>2, <1>6, <2>2 DEF SendData, TxInv, Working, Active, Fill, Hold, SetPktId, SendSlot,
           SendFails, Extend, GiveUp, KeepOn, AllAcked, Release, Late, AfterSend, Polling
  <2>b. \A i \in Subs(p) : i < SubCount[p]
    BY <2>a, SubCountAssumption DEF Subs
  <2>3. ASSUME mine[t] \notin excused => \A i \in Subs(p) : <<p, i>> \in net',
               pc'[t] \in {"hold", "setid"} => slot'[t] = 0
        PROVE  SentBy(t)'
    BY <2>1, <2>2, <2>3 DEF SentBy, SentTo
  <2>4. CASE Fill(t) \/ Hold(t)
    <3>1. pc'[t] \in {"fill", "hold", "setid"} /\ (pc'[t] # "fill" => slot'[t] = 0)
      BY <1>1, <2>1, <2>4 DEF Fill, Hold, SentBy
    <3>2. QED
      BY <1>6, <3>1 DEF SentBy
  <2>5. CASE SetPktId(t)
    <3>1. pc'[t] = "loop" /\ slot'[t] = 0 /\ due'[t]
      BY <1>1, <2>1, <2>5 DEF SetPktId, SentBy
    <3>2. \A i \in Subs(mine'[t]) : ~(i < 0)
      BY SubCountAssumption DEF Subs
    <3>3. QED
      BY <1>6, <3>1, <3>2 DEF SentBy, SentTo
  <2>6. CASE SendSlot(t)
    <3>1. ASSUME mine[t] \notin excused PROVE SentTo(p, n + 1)'
      <4>1. SentTo(p, n)
        BY <2>1, <2>2, <2>6, <3>1 DEF SentBy, SendSlot
      <4>2. QED
        BY <2>2, <2>6, <3>1, <4>1, SlotSent
    <3>2. CASE n + 1 = SubCount[p]
      <4>1. pc'[t] = "late"
        BY <1>1, <2>2, <2>6, <3>2 DEF SendSlot
      <4>2. mine[t] \notin excused => \A i \in Subs(p) : <<p, i>> \in net'
        BY <2>b, <3>1, <3>2 DEF SentTo
      <4>3. QED
        BY <1>6, <2>3, <4>1, <4>2
    <3>3. CASE n + 1 # SubCount[p]
      <4>1. pc'[t] = "loop" /\ slot'[t] = n + 1 /\ due'[t]
        BY <1>1, <2>2, <2>6, <3>3 DEF SendSlot
      <4>2. mine[t] \notin excused => SentTo(mine[t], slot[t])'
        BY <2>1, <2>2, <3>1, <4>1 DEF SentTo
      <4>3. QED
        BY <1>6, <2>1, <4>1, <4>2 DEF SentBy
    <3>4. QED
      BY <3>2, <3>3
  <2>7. CASE SendFails(t)
    BY <2>6, <2>7 DEF Step
  <2>8. CASE Extend(t) \/ GiveUp(t) \/ KeepOn(t) \/ AllAcked(t)
    <3>1. pc[t] \in {"late", "check"} \/ (pc[t] = "loop" /\ ~due[t])
      BY <2>8 DEF Extend, GiveUp, KeepOn, AllAcked, Late, AfterSend, Polling
    <3>2. pc'[t] \notin {"hold", "setid"}
      BY <1>1, <2>8 DEF Extend, GiveUp, KeepOn, AllAcked
    <3>3. mine[t] \notin excused => SentTo(p, SubCount[p])
      BY <2>1, <2>2, <3>1 DEF SentBy
    <3>4. mine[t] \notin excused => \A i \in Subs(p) : <<p, i>> \in net'
      BY <1>1, <2>b, <3>3 DEF SentTo
    <3>5. QED
      BY <1>6, <2>3, <3>2, <3>4
  <2>9. CASE Release(t)
    <3>1. pc'[t] \in {"idle", "ended"}
      BY <1>1, <2>9 DEF Release
    <3>2. QED
      BY <1>3, <1>6, <3>1
  <2>10. QED
    BY <1>6, <2>4, <2>5, <2>6, <2>7, <2>8, <2>9 DEF SendData
<1>7. QED
  BY <1>2, <1>4, <1>5, <1>6 DEF Call

LEMMA SentSoFarStep ==
    ASSUME PathInv, OneInSend, OneInSend', SentSoFar, ~Lossy, NEW t \in Threads, Step(t)
    PROVE  SentSoFar'
<1>1. SentBefore'
  BY SentBeforeStep
<1>2. \A u \in Threads : SentBy(u)'
  BY SentByStep
<1>3. QED
  BY <1>1, <1>2 DEF SentSoFar, SentBefore, SentBy

LEMMA SentSoFarElse ==
    ASSUME SentSoFar, Aside \/ RecvHead
    PROVE  SentSoFar'
<1>1. /\ UNCHANGED <<packet_id, pc, mine, slot, net>> /\ excused \subseteq excused'
      /\ \A t \in Threads : due[t] => due'[t]
  BY DEF Aside, RecvHead, txVars
<1>2. SentBefore'
  BY <1>1, SentParts DEF SentBefore, SentTo, Active
<1>3. ASSUME NEW t \in Threads PROVE SentBy(t)'
  <2>1. SentBy(t)
    BY SentParts
  <2>2. QED
    BY <1>1, <2>1 DEF SentBy, SentTo
<1>4. QED
  BY <1>2, <1>3 DEF SentSoFar, SentBefore, SentBy

LEMMA KeptElse ==
    ASSUME PathInv, Kept, Aside \/ RecvHead
    PROVE  Kept'
BY KeptArrives DEF Aside, Kept

----------------------------------------------------------------------------
\* A sub-packet that is sent comes after all that go before it.
LEMMA InOrderStep ==
    ASSUME PathInv, OneInSend, Kept, SentSoFar, InOrder, ~Lossy, NEW t \in Threads, Step(t)
    PROVE  InOrder'
<1>1. received' = received /\ queue \in Seq(Datagrams) /\ excused \subseteq excused'
  BY StepGrows DEF PathInv, InFlight, Flight
<1>2. CASE UNCHANGED queue
  BY <1>1, <1>2 DEF InOrder
<1>3. ASSUME SendSlot(t), NEW d \in Emitted(t), queue' = Append(queue, d)
      PROVE  InOrder'
  <2>1. d = <<mine[t], slot[t]>> /\ d \in Datagrams /\ Active(t) /\ mine[t] \in PktIds
    BY <1>3, EmittedIs DEF PathInv
  <2>2. packet_id = mine[t] + 1 /\ pc[t] = "loop" /\ PktIds \subseteq Nat
    BY <1>3, <2>1, PathTypes DEF PathInv, Latest, SendSlot
  <2>3. ASSUME NEW e \in Datagrams, e[1] \notin excused, Before(e, d)
        PROVE  e \in received \/ \E l \in DOMAIN queue : queue[l] = e
    <3>1. e[1] \in PktIds /\ e[2] \in Subs(e[1])
      BY DatagramFacts
    <3>b. e = <<e[1], e[2]>>
      BY DatagramFacts
    <3>a. e[1] < mine[t] \/ (e[1] = mine[t] /\ e[2] < slot[t])
      <4>1. d[1] = mine[t] /\ d[2] = slot[t]
        BY <2>1
      <4>2. e[1] < d[1] \/ (e[1] = d[1] /\ e[2] < d[2])
        BY <2>3 DEF Before
      <4>3. QED
        BY <4>1, <4>2
    <3>c. mine[t] \in Nat /\ e[1] \in Nat /\ packet_id = mine[t] + 1
      BY <2>1, <2>2, <3>1
    <3>2. CASE e[1] = mine[t]
      <4>1. SentTo(mine[t], slot[t]) /\ e[2] < slot[t]
        <5>1. e[2] < slot[t]
          BY <3>2, <3>a, <3>c
        <5>2. SentTo(mine[t], slot[t])
          BY <2>2, <2>3, <3>2 DEF SentSoFar
        <5>3. QED
          BY <5>1, <5>2
      <4>2. e \in net
        BY <3>1, <3>b, <3>2, <4>1 DEF SentTo
      <4>3. QED
        BY <4>2 DEF Kept
    <3>3. CASE e[1] # mine[t]
      <4>1. e[1] < packet_id
        BY <3>3, <3>a, <3>c
      <4>2. \A u \in Threads : Active(u) => mine[u] # e[1]
        BY <2>1, <3>3 DEF OneInSend
      <4>3. SentTo(e[1], SubCount[e[1]])
        BY <2>3, <3>1, <4>1, <4>2 DEF SentSoFar
      <4>4. e \in net
        BY <3>1, <3>b, <4>3, SubCountAssumption DEF SentTo, Subs
      <4>5. QED
        BY <4>4 DEF Kept
    <3>4. QED
      BY <3>2, <3>3
  <2>4. PICK q, r, n : q = queue' /\ r = queue /\ n = Len(r)
    OBVIOUS
  <2>5. /\ n \in Nat /\ DOMAIN q = 1 .. n + 1 /\ DOMAIN r = 1 .. n
        /\ \A k \in 1 .. n : q[k] = r[k]
        /\ q[n + 1] = d
    BY <1>1, <1>3, <2>1, <2>4, Appending
  <2>6. ASSUME NEW e \in Datagrams, e[1] \notin excused, NEW k \in DOMAIN q, Before(e, q[k])
        PROVE  e \in received \/ \E l \in DOMAIN q : l < k /\ q[l] = e
    <3>1. \A l \in DOMAIN r : l \in DOMAIN q /\ q[l] = r[l] /\ l < n + 1
      BY <2>5
    <3>2. CASE k \in 1 .. n
      <4>1. e \in received \/ \E l \in DOMAIN r : l < k /\ r[l] = e
        BY <2>4, <2>5, <2>6, <3>2 DEF InOrder
      <4>2. QED
        BY <3>1, <4>1
    <3>3. CASE k = n + 1
      <4>1. e \in received \/ \E l \in DOMAIN r : r[l] = e
        BY <2>3, <2>4, <2>5, <2>6, <3>3
      <4>2. QED
        BY <3>1, <3>3, <4>1
    <3>4. QED
      BY <2>5, <3>2, <3>3
  <2>7. QED
    BY <1>1, <2>4, <2>6 DEF InOrder
<1>4. QED
  BY <1>2, <1>3 DEF Step

\* A datagram that arrives comes after all that go before it.
LEMMA InOrderArrives ==
    ASSUME PathInv, InOrder, RecvHead
    PROVE  /\ InOrder'
           /\ \A e \in Datagrams : e[1] \notin excused /\ Before(e, Head(queue)) => e \in received
<1>1. /\ excused' = excused /\ received' = received \cup {queue[1]} /\ Head(queue) = queue[1]
      /\ 1 \in DOMAIN queue /\ queue \in Seq(Datagrams)
  BY Arrives DEF RecvHead, txVars, PathInv, InFlight, Flight
<1>2. ASSUME NEW e \in Datagrams, e[1] \notin excused, Before(e, queue[1])
      PROVE  e \in received
  <2>1. e \in received \/ \E l \in DOMAIN queue : l < 1
    BY <1>1, <1>2 DEF InOrder
  <2>2. \A l \in DOMAIN queue : ~(l < 1)
    BY <1>1
  <2>3. QED
    BY <2>1, <2>2
<1>3. ASSUME NEW e \in Datagrams, e[1] \notin excused, NEW d \in received', Before(e, d)
      PROVE  e \in received'
  BY <1>1, <1>2, <1>3 DEF InOrder
<1>4. ASSUME NEW e \in Datagrams, e[1] \notin excused, NEW k \in DOMAIN queue',
             Before(e, queue'[k])
      PROVE  e \in received' \/ \E l \in DOMAIN queue' : l < k /\ queue'[l] = e
  <2>1. k \in Nat /\ k + 1 \in DOMAIN queue /\ queue'[k] = queue[k + 1]
    BY Rest
  <2>2. e \in received \/ \E l \in DOMAIN queue : l < k + 1 /\ queue[l] = e
    BY <1>4, <2>1 DEF InOrder
  <2>3. ASSUME NEW l \in DOMAIN queue, l < k + 1, queue[l] = e
        PROVE  e \in received' \/ \E i \in DOMAIN queue' : i < k /\ queue'[i] = e
    <3>1. e \in received' \/ \E i \in DOMAIN queue' : l = i + 1 /\ queue'[i] = e
      BY <2>3, Rest
    <3>2. \A i \in DOMAIN queue' : i \in Nat
      BY Rest
    <3>3. \A i \in DOMAIN queue' : l = i + 1 => i < k
      BY <2>1, <2>3, <3>2
    <3>4. QED
      BY <3>1, <3>3
  <2>4. QED
    BY <1>1, <2>2, <2>3
<1>5. QED
  BY <1>1, <1>2, <1>3, <1>4 DEF InOrder

----------------------------------------------------------------------------
\* A sub-packet that is stored finds all of its packet that arrived, and nothing larger.
LEMMA BaseAscends ==
    ASSUME PathInv, InOrder, OpenedInOrder, RecvHead, NEW p, p = Head(queue)[1],
           NEW i, i = Head(queue)[2],
           p # 0, p \notin excused, ~AlreadySeen(p), ~Held(p, i)
    PROVE  /\ Base(p).subpkt = Arrived(p) /\ Base(p).ascending
           /\ i \notin Arrived(p)
           /\ \A j \in Arrived(p) : j < i
<1>1. /\ p \in PktIds /\ p \in Nat /\ i \in Subs(p) /\ i \in Nat /\ cur_pktid <= p
      /\ cur_pktid \in Nat /\ Head(queue) \in Datagrams /\ Head(queue) = <<p, i>>
  <2>1. /\ Head(queue) \in Datagrams /\ p \in PktIds /\ i \in Subs(p) /\ cur_pktid <= p
        /\ p \in Nat /\ cur_pktid \in Nat
    BY Arrives, PathTypes
  <2>2. QED
    BY <2>1, DatagramFacts, SubsCard
<1>2. CASE Opens(p)
  <2>1. p # cur_pktid
    BY <1>2 DEF AlreadySeen
  <2>2. \A d \in received : d[1] <= cur_pktid /\ d \in Datagrams
    BY DEF OpenedInOrder, PathInv, RxInv, RxTypeOK
  <2>3. ASSUME NEW j \in Arrived(p) PROVE FALSE
    <3>1. PICK d \in received : d = <<p, j>>
      BY DEF Arrived
    <3>2. d[1] = p /\ d[1] <= cur_pktid
      BY <2>2, <3>1
    <3>3. QED
      BY <1>1, <2>1, <3>2
  <2>4. Base(p) = Fresh(p)
    BY <1>2 DEF Base
  <2>5. QED
    BY <2>3, <2>4 DEF Fresh
<1>3. CASE ~Opens(p)
  <2>1. recv # NoRecv /\ recv.pkt_id = p /\ Base(p) = recv
    BY <1>3 DEF Opens, Base
  <2>2. recv.subpkt = Arrived(p) /\ recv.ascending
    BY <2>1 DEF OpenedInOrder
  <2>3. i \notin Arrived(p)
    BY <1>3, <2>1, <2>2 DEF Held
  <2>4. ASSUME NEW j \in Arrived(p) PROVE j < i
    <3>1. j \in Nat /\ <<p, j>> \in received
      BY <1>1, SubsCard DEF Arrived
    <3>2. PICK d \in received : d = <<p, j>>
      BY <3>1
    <3>3. PICK e \in Datagrams : e = <<p, i>>
      BY <1>1
    <3>4. d[1] = p /\ d[2] = j /\ e[1] = p /\ e[2] = i
      BY <3>2, <3>3
    <3>5. e \notin received
      BY <1>1, <2>3, <3>3 DEF Arrived
    <3>6. ~Before(e, d)
      BY <3>4, <3>5 DEF InOrder
    <3>7. i # j
      BY <2>3
    <3>8. QED
      BY <1>1, <3>1, <3>4, <3>6, <3>7 DEF Before
  <2>5. QED
    BY <2>1, <2>2, <2>3, <2>4
<1>4. QED
  BY <1>2, <1>3

\* What is added is then again all that arrived, in order.
LEMMA AddedAscends ==
    ASSUME PathInv, InOrder, OpenedInOrder, RecvHead, NEW p, p = Head(queue)[1],
           NEW i, i = Head(queue)[2],
           p # 0, p \notin excused, ~AlreadySeen(p), ~Held(p, i)
    PROVE  /\ Added(Base(p), i).subpkt = Arrived(p)'
           /\ Added(Base(p), i).ascending
<1>1. /\ Base(p).subpkt = Arrived(p) /\ Base(p).ascending
      /\ \A j \in Arrived(p) : j < i
  BY BaseAscends
<1>2. received' = received \cup {Head(queue)} /\ Head(queue) = <<p, i>> /\ i \in Subs(p)
  BY Arrives, DatagramFacts
<1>3. Arrived(p)' = Arrived(p) \cup {i}
  BY <1>2 DEF Arrived
<1>4. Added(Base(p), i).subpkt = Insert(Base(p).subpkt, i)
  BY DEF Added
<1>5. Insert(Base(p).subpkt, i) = Arrived(p) \cup {i}
  BY <1>1 DEF Insert
<1>6. Added(Base(p), i).ascending
  BY <1>1 DEF Added
<1>7. QED
  BY <1>3, <1>4, <1>5, <1>6

\* No reassembly is overtaken but of packet 0 or of an excused packet.
LEMMA NoneOvertaken ==
    ASSUME PathInv, InOrder, OpenedInOrder, RecvHead, NEW p, p = Head(queue)[1], Overtaken(p)
    PROVE  recv.pkt_id = 0 \/ recv.pkt_id \in excused
<1> DEFINE c == recv.pkt_id
<1>1. recv # NoRecv /\ c # p
  BY DEF Overtaken
<1>2. c = cur_pktid /\ c \in PktIds /\ c < p
  <2>1. c = cur_pktid /\ c \in PktIds
    BY <1>1 DEF PathInv, RxInv, OpenInv, Sound, Recv
  <2>2. cur_pktid <= p /\ p \in Nat /\ cur_pktid \in Nat
    BY Arrives, PathTypes
  <2>3. QED
    BY <1>1, <2>1, <2>2
<1>3. ASSUME c # 0, c \notin excused PROVE FALSE
  <2>1. recv.subpkt = Arrived(c) /\ recv.ascending
    BY <1>1, <1>3 DEF OpenedInOrder
  <2>2. ASSUME NEW j \in Subs(c) PROVE <<c, j>> \in received
    <3>1. j \in Nat
      BY <1>2, SubsCard
    <3>2. PICK e \in Datagrams : e = <<c, j>>
      BY <1>2, <2>2, SubFacts
    <3>3. e[1] = c
      BY <3>2
    <3>4. Before(e, Head(queue))
      BY <1>2, <3>3 DEF Before
    <3>5. QED
      BY <1>3, <3>2, <3>3, <3>4, InOrderArrives
  <2>3. Arrived(c) = Subs(c)
    BY <2>2 DEF Arrived
  <2>4. Cardinality(recv.subpkt) = recv.recved
    BY <1>1, <2>1 DEF PathInv, RxInv, OpenInv, Sound
  <2>5. recv.recved \in 1 .. SubCount[c] - 1
    BY <1>1 DEF PathInv, RxInv, RxTypeOK
  <2>6. Cardinality(Subs(c)) = SubCount[c] /\ SubCount[c] \in Nat
    BY <1>2, SubsCard
  <2>7. recv.recved = SubCount[c]
    BY <2>1, <2>3, <2>4, <2>6
  <2>8. QED
    BY <2>5, <2>6, <2>7
<1>4. QED
  BY <1>3

LEMMA OpenedArrives ==
    ASSUME PathInv, PathInv', InOrder, OpenedInOrder, RecvHead
    PROVE  OpenedInOrder'
<1>1. PICK p, i : p = Head(queue)[1] /\ i = Head(queue)[2]
  OBVIOUS
<1>2. /\ p \in PktIds /\ p \in Nat /\ i \in Subs(p) /\ cur_pktid <= p /\ cur_pktid \in Nat
      /\ Head(queue) = <<p, i>> /\ received' = received \cup {<<p, i>>}
      /\ received \subseteq Datagrams
  <2>1. /\ Head(queue) \in Datagrams /\ p \in PktIds /\ i \in Subs(p) /\ cur_pktid <= p
        /\ p \in Nat /\ cur_pktid \in Nat /\ received' = received \cup {Head(queue)}
    BY <1>1, Arrives, PathTypes
  <2>2. QED
    BY <1>1, <2>1, DatagramFacts DEF PathInv, RxInv, RxTypeOK
<1>3. Rdpkt(p, i) /\ excused' = excused
  BY <1>1 DEF RecvHead, txVars
<1>3a. ~Overrun(p, i)
  BY DEF Overrun, PathInv, RxInv
<1>4. cur_pktid' = p
  <2>1. CASE ReAck(p, i)
    BY <2>1 DEF ReAck, AlreadySeen
  <2>2. CASE AckHeld(p, i)
    BY <2>2 DEF AckHeld, Held, Opens, PathInv, RxInv, OpenInv
  <2>3. CASE StoreSub(p, i) \/ CompletePkt(p, i)
    BY <2>3 DEF StoreSub, CompletePkt, Completes
  <2>4. QED
    BY <1>3, <1>3a, <2>1, <2>2, <2>3 DEF Rdpkt
<1>5. ASSUME NEW d \in received' PROVE d[1] <= cur_pktid'
  <2>1. CASE d \in received
    <3>1. d[1] <= cur_pktid /\ d[1] \in Nat
      BY <1>2, <2>1, DatagramFacts, PktIdsAssumption DEF OpenedInOrder
    <3>2. QED
      BY <1>2, <1>4, <3>1
  <2>2. CASE d = <<p, i>>
    <3>1. d[1] = p
      BY <2>2
    <3>2. QED
      BY <1>2, <1>4, <3>1
  <2>3. QED
    BY <1>2, <1>5, <2>1, <2>2
<1>6. ASSUME recv' # NoRecv, recv'.pkt_id # 0, recv'.pkt_id \notin excused'
      PROVE  (recv.subpkt = Arrived(recv.pkt_id) /\ recv.ascending)'
  <2>1. recv'.pkt_id = p
    BY <1>4, <1>6 DEF PathInv, RxInv, OpenInv
  <2>2. recv'.subpkt = Arrived(p)' /\ recv'.ascending
    <3>1. CASE AckHeld(p, i)
      <4>1. recv' = recv /\ recv # NoRecv /\ i \in recv.subpkt
        BY <1>6, <3>1 DEF AckHeld, Held
      <4>2. recv.subpkt = Arrived(p) /\ recv.ascending
        BY <1>3, <1>6, <2>1, <4>1 DEF OpenedInOrder
      <4>3. Arrived(p)' = Arrived(p)
        BY <1>2, <4>1, <4>2 DEF Arrived
      <4>4. QED
        BY <4>1, <4>2, <4>3
    <3>2. CASE StoreSub(p, i)
      <4>1. recv' = Added(Base(p), i) /\ ~AlreadySeen(p) /\ ~Held(p, i)
        BY <3>2 DEF StoreSub
      <4>2. p # 0 /\ p \notin excused
        BY <1>3, <1>6, <2>1
      <4>3. QED
        BY <1>1, <4>1, <4>2, AddedAscends
    <3>3. CASE ReAck(p, i) \/ CompletePkt(p, i)
      BY <1>6, <3>3 DEF ReAck, CompletePkt
    <3>4. QED
      BY <1>3, <1>3a, <3>1, <3>2, <3>3 DEF Rdpkt
  <2>3. QED
    BY <2>1, <2>2 DEF Arrived
<1>7. QED
  BY <1>5, <1>6 DEF OpenedInOrder

\* Whatever is handed up is whole, packet 0 and excused packets apart.
LEMMA HandsUpWhole ==
    ASSUME PathInv, PathInv', InOrder, OpenedInOrder, RecvHead, NEW k \in DOMAIN handed',
           handed'[k].pkt_id # 0, handed'[k].pkt_id \notin excused
    PROVE  handed'[k].subs = Subs(handed'[k].pkt_id)
<1>1. PICK p, i : p = Head(queue)[1] /\ i = Head(queue)[2]
  OBVIOUS
<1>2. Rdpkt(p, i) /\ p \in PktIds
  BY <1>1, Arrives DEF RecvHead
<1>3. PICK m : m = handed'[k]
  OBVIOUS
<1>4. GoodPayload(m, received')
  BY <1>3 DEF PathInv, RxInv, GoodPayloads
<1>5. ~(Overtaken(p) /\ m = PayloadOf(recv, FALSE))
  <2>1. m = PayloadOf(recv, FALSE) => m.pkt_id = recv.pkt_id
    BY DEF PayloadOf
  <2>2. QED
    BY <1>1, <1>3, <2>1, NoneOvertaken
<1>6. ASSUME Flushed(p) # <<>> PROVE Overtaken(p) /\ Flushed(p) = <<PayloadOf(recv, FALSE)>>
  BY <1>6 DEF Flushed
<1>7. handed' # <<>>
  OBVIOUS
<1>8. CASE handed' = Flushed(p)
  <2>1. Overtaken(p) /\ Flushed(p) = <<PayloadOf(recv, FALSE)>>
    BY <1>6, <1>7, <1>8
  <2>2. handed' = <<PayloadOf(recv, FALSE)>>
    BY <1>8, <2>1, Zenon
  <2>3. m = PayloadOf(recv, FALSE)
    <3>1. PICK f : f = PayloadOf(recv, FALSE)
      OBVIOUS
    <3>2. DOMAIN <<f>> = {1} /\ <<f>>[1] = f
      OBVIOUS
    <3>3. handed' = <<f>>
      BY <2>2, <3>1, Zenon
    <3>4. DOMAIN handed' = {1} /\ handed'[1] = f
      BY <3>2, <3>3, Zenon
    <3>5. QED
      BY <1>3, <3>1, <3>4
  <2>4. QED
    BY <1>5, <2>1, <2>3
<1>9. CASE CompletePkt(p, i)
  <2>1. PICK r, n : r = Added(Base(p), i) /\ n = PayloadOf(r, TRUE)
    OBVIOUS
  <2>2. handed' = Append(Flushed(p), n) /\ ~AlreadySeen(p) /\ ~Held(p, i)
    BY <1>9, <2>1 DEF CompletePkt, Completes
  <2>3. m = n
    <3>1. CASE Overtaken(p)
      <4>1. PICK f : f = PayloadOf(recv, FALSE)
        OBVIOUS
      <4>2. Flushed(p) = <<f>>
        BY <3>1, <4>1 DEF Flushed
      <4>3. m = f \/ m = n
        <5>1. PICK h : h = handed'
          OBVIOUS
        <5>2. h = Append(<<f>>, n)
          BY <2>2, <4>2, <5>1
        <5>3. <<f>> \in Seq({f, n})
          OBVIOUS
        <5>4. DOMAIN h = 1 .. 2 /\ h[1] = f /\ h[2] = n
          BY <5>2, <5>3
        <5>5. k = 1 \/ k = 2
          BY <5>1, <5>4
        <5>6. QED
          BY <1>3, <5>1, <5>4, <5>5
      <4>4. QED
        BY <1>5, <3>1, <4>1, <4>3
    <3>2. CASE ~Overtaken(p)
      <4>1. Flushed(p) = <<>>
        BY <3>2 DEF Flushed
      <4>2. handed' = Append(<<>>, n) /\ Append(<<>>, n) = <<n>>
        BY <2>2, <4>1
      <4>3. handed' = <<n>>
        BY <4>2, Zenon
      <4>4. QED
        BY <1>3, <4>3
    <3>3. QED
      BY <3>1, <3>2
  <2>4. Base(p).pkt_id = p
    BY <1>2, BaseSound DEF PathInv
  <2>5. m.pkt_id = p /\ m.ascending = r.ascending /\ m.complete
    BY <2>1, <2>3, <2>4 DEF PayloadOf, Added
  <2>6. p # 0 /\ p \notin excused
    BY <1>3, <2>5
  <2>7. r.ascending
    BY <1>1, <2>1, <2>2, <2>6, AddedAscends
  <2>8. m.subs = Subs(m.pkt_id)
    BY <1>4, <2>5, <2>7 DEF GoodPayload
  <2>9. QED
    BY <1>3, <2>8
<1>10. ~Overrun(p, i)
  BY DEF Overrun, PathInv, RxInv
<1>11. QED
  BY <1>2, <1>7, <1>8, <1>9, <1>10 DEF Rdpkt, ReAck, AckHeld, StoreSub

LEMMA WholeArrives ==
    ASSUME PathInv, PathInv', InOrder, OpenedInOrder, WholeWhenLossless, RecvHead
    PROVE  WholeWhenLossless'
<1>1. excused' = excused
  BY DEF RecvHead, txVars
<1>2. PICK r, s, g : r = log' /\ s = log /\ g = Entries1(handed')
  OBVIOUS
<1>3. r = s \o g
  BY <1>2 DEF RecvHead, Entries1
<1>4. s \in Seq(Entries) /\ handed' \in Seq(Payload)
  BY <1>2 DEF PathInv, Given, GivenUpTo, RxInv, RxTypeOK
<1>5. /\ DOMAIN g = DOMAIN handed'
      /\ \A k \in DOMAIN g : /\ g[k].pkt_id = handed'[k].pkt_id
                             /\ g[k].subs = handed'[k].subs
  BY <1>2 DEF Entries1
<1>6. \A k \in DOMAIN g :
          g[k].pkt_id # 0 /\ g[k].pkt_id \notin excused => g[k].subs = Subs(g[k].pkt_id)
  BY <1>5, HandsUpWhole
<1>7. \A k \in DOMAIN s :
          s[k].pkt_id # 0 /\ s[k].pkt_id \notin excused /\ ~Lossy => s[k].subs = Subs(s[k].pkt_id)
  BY <1>2 DEF WholeWhenLossless, PathInv, RxInv
<1>8. ASSUME NEW k \in DOMAIN r
      PROVE  \/ k \in DOMAIN s /\ r[k] = s[k]
             \/ \E l \in DOMAIN g : r[k] = g[l]
  <2>1. \E U : s \in Seq(U) /\ g \in Seq(U)
    <3>1. g = [l \in 1 .. Len(handed') |-> g[l]] /\ Len(handed') \in Nat
      BY <1>2, <1>4 DEF Entries1
    <3>2. PICK T : T = Entries \cup {g[l] : l \in DOMAIN g}
      OBVIOUS
    <3>3. g \in [1 .. Len(handed') -> T]
      BY <1>4, <1>5, <3>1, <3>2
    <3>4. g \in Seq(T)
      BY <3>1, <3>3
    <3>5. s \in Seq(T)
      BY <1>4, <3>2
    <3>6. QED
      BY <3>4, <3>5
  <2>2. PICK S : s \in Seq(S) /\ g \in Seq(S)
    BY <2>1
  <2>3. k \in 1 .. Len(s) + Len(g) /\ Len(s) \in Nat /\ Len(g) \in Nat
    BY <1>3, <1>8, <2>2
  <2>4. CASE k <= Len(s)
    BY <1>3, <2>2, <2>3, <2>4
  <2>5. CASE ~(k <= Len(s))
    <3>1. k - Len(s) \in DOMAIN g /\ r[k] = g[k - Len(s)]
      BY <1>3, <2>2, <2>3, <2>5
    <3>2. QED
      BY <3>1
  <2>6. QED
    BY <2>4, <2>5
<1>9. \A k \in DOMAIN r :
          r[k].pkt_id # 0 /\ r[k].pkt_id \notin excused /\ ~Lossy => r[k].subs = Subs(r[k].pkt_id)
  BY <1>6, <1>7, <1>8
<1>10. QED
  BY <1>1, <1>2, <1>9 DEF WholeWhenLossless

LEMMA WholeStep ==
    ASSUME PathInv, PathInv', OneInSend, OneInSend', WholeInv, [PathNext]_pathVars
    PROVE  WholeInv'
<1>1. CASE Lossy
  BY <1>1 DEF WholeInv
<1>2. CASE ~Lossy
  <2>0. ~smashed
    BY DEF PathInv, RxInv
  <2>1. Kept /\ SentSoFar /\ InOrder /\ OpenedInOrder /\ WholeWhenLossless
    BY <1>2 DEF WholeInv
  <2>2. ASSUME NEW t \in Threads, Step(t) PROVE WholeInv'
    <3>1. Kept' /\ SentSoFar' /\ InOrder'
      BY <1>2, <2>1, <2>2, KeptStep, SentSoFarStep, InOrderStep
    <3>2. /\ UNCHANGED <<recv, cur_pktid, received, log>> /\ excused \subseteq excused'
      BY <2>2, StepGrows
    <3>3. OpenedInOrder'
      BY <2>1, <3>2 DEF OpenedInOrder, Arrived
    <3>4. WholeWhenLossless'
      BY <2>0, <2>1, <3>2 DEF WholeWhenLossless
    <3>5. QED
      BY <3>1, <3>3, <3>4 DEF WholeInv
  <2>3. CASE Aside
    <3>1. Kept' /\ SentSoFar'
      BY <2>1, <2>3, KeptElse, SentSoFarElse
    <3>2. /\ UNCHANGED <<recv, cur_pktid, received, queue, log>> /\ excused \subseteq excused'
      BY <2>3 DEF Aside
    <3>3. InOrder'
      BY <2>1, <3>2 DEF InOrder
    <3>4. OpenedInOrder'
      BY <2>1, <3>2 DEF OpenedInOrder, Arrived
    <3>5. WholeWhenLossless'
      BY <2>0, <2>1, <3>2 DEF WholeWhenLossless
    <3>6. QED
      BY <3>1, <3>3, <3>4, <3>5 DEF WholeInv
  <2>4. CASE RecvHead
    <3>1. Kept' /\ SentSoFar'
      BY <2>1, <2>4, KeptElse, SentSoFarElse
    <3>2. InOrder' /\ OpenedInOrder' /\ WholeWhenLossless'
      BY <2>1, <2>4, InOrderArrives, OpenedArrives, WholeArrives
    <3>3. QED
      BY <3>1, <3>2 DEF WholeInv
  <2>5. QED
    BY <2>2, <2>3, <2>4, Kinds DEF PathInv
<1>3. QED
  BY <1>1, <1>2

LEMMA WholeInit == PathInit => WholeInv
<1> SUFFICES ASSUME PathInit PROVE WholeInv
  OBVIOUS
<1>1. /\ net = {} /\ received = {} /\ queue = <<>> /\ log = <<>> /\ recv = NoRecv
      /\ \A t \in Threads : pc[t] = "idle"
      /\ packet_id \in PktIds /\ \A p \in PktIds : packet_id <= p
  BY DEF PathInit, TxInit, RxInit
<1>2. \A p \in PktIds : ~(p < packet_id)
  BY <1>1, PktIdsAssumption
<1>3. Kept /\ InOrder /\ OpenedInOrder /\ WholeWhenLossless
  BY <1>1 DEF Kept, InOrder, OpenedInOrder, WholeWhenLossless
<1>4. SentSoFar
  BY <1>1, <1>2 DEF SentSoFar
<1>5. QED
  BY <1>3, <1>4 DEF WholeInv

\* On a path that loses nothing no payload is truncated, whatever the timing of
\* acknowledgements and retransmissions (sub_pkt_add, rdpkt_recv_all_pkts): packet 0 and
\* packets cut short by stale acknowledgements apart, and until rdpk_ack_all overruns its
\* array with a longer one.
THEOREM LosslessIsWhole == PathSpec /\ []OneInSend => []WholeWhenLossless
<1> DEFINE Whole == smashed \/ WholeInv
<1>1. PathInit => Whole
  BY WholeInit
<1>2. /\ PathSafe /\ PathSafe' /\ OneInSend /\ OneInSend' /\ [PathNext]_pathVars
      /\ Whole
      => Whole'
  BY WholeStep, PathAfter DEF PathSafe
<1>3. Whole => WholeWhenLossless
  BY DEF WholeInv, WholeWhenLossless
<1>4. QED
  BY <1>1, <1>2, <1>3, PathInductive, PTL DEF PathSpec

\* Both with a single thread that sends, as in the runs: the flag has nothing to do.
COROLLARY OneSender ==
    ASSUME \A t, u \in Threads : t = u
    PROVE  PathSpec => Implements /\ []WholeWhenLossless
<1>1. OneInSend
  BY DEF OneInSend
<1>2. QED
  BY <1>1, OrderedImplements, LosslessIsWhole, PTL

============================================================================
