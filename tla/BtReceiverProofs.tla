-------------------------- MODULE BtReceiverProofs --------------------------
(***************************************************************************)
(* Proofs about the cycle buffer, for any number of bytes of any values:   *)
(* its pointers never disagree with its length, and it is a queue.  Then   *)
(* about the two threads around it, for any sizes of the buffer, of the    *)
(* chunks and of the reader's own buffer.                                  *)
(***************************************************************************)
EXTENDS BtReceiver, SequenceTheorems, TLAPS

RingInv == TypeOK /\ PointersAgree

\* Where the i-th oldest byte is.
At(i) == IF i <= BufLen - dataStart THEN dataStart + i - 1 ELSE i - (BufLen - dataStart) - 1

----------------------------------------------------------------------------
\* The oldest n bytes are bytes of the ring, as long as there are as many.
LEMMA AtInRing ==
    ASSUME RingInv, NEW i \in 1..dataLen
    PROVE  /\ At(i) \in 0..BufLen - 1
           /\ At(i) \in Int
BY BufLenAssumption DEF RingInv, TypeOK, At

LEMMA OldestBytes ==
    ASSUME RingInv, NEW n \in 0..dataLen
    PROVE  /\ Oldest(n) \in [1..n -> Bytes]
           /\ Oldest(n) \in Seq(Bytes)
           /\ Len(Oldest(n)) = n
           /\ \A i \in 1..n : Oldest(n)[i] = buf[At(i)]
<1>1. n \in Nat /\ 1..n \subseteq 1..dataLen
  BY BufLenAssumption DEF RingInv, TypeOK
<1>2. \A i \in 1..n : Oldest(n)[i] = buf[At(i)]
  BY DEF Oldest, At
<1>3. \A i \in 1..n : buf[At(i)] \in Bytes
  BY <1>1, AtInRing DEF RingInv, TypeOK
<1>4. Oldest(n) \in [1..n -> Bytes]
  BY <1>2, <1>3 DEF Oldest
<1>5. Oldest(n) \in Seq(Bytes)
  BY <1>1, <1>4, SeqDef
<1>6. Len(Oldest(n)) = n
  BY <1>1, <1>4, <1>5, LenProperties
<1> QED
  BY <1>2, <1>4, <1>5, <1>6

\* A request is a sequence of bytes.
LEMMA RequestSeq ==
    ASSUME NEW data \in Requests
    PROVE  /\ data \in Seq(Bytes)
           /\ Len(data) \in 0..MaxLen
           /\ data \in [1..Len(data) -> Bytes]
<1>1. PICK n \in 0..MaxLen : data \in [1..n -> Bytes]
  BY DEF Requests
<1>2. n \in Nat
  BY MaxLenAssumption
<1>3. data \in Seq(Bytes)
  BY <1>1, <1>2, SeqDef
<1>4. Len(data) = n
  BY <1>1, <1>2, <1>3, LenProperties
<1> QED
  BY <1>1, <1>3, <1>4

----------------------------------------------------------------------------
\* What each operation does, with the queue in view: a write that fits.
LEMMA WriteAppends ==
    ASSUME RingInv, NEW data \in Seq(Bytes), Write(data), BufLen >= dataLen + Len(data)
    PROVE  /\ RingInv'
           /\ Oldest(dataLen)' = Oldest(dataLen) \o data
           /\ out' = Done("write", data)
<1> USE BufLenAssumption
<1> DEFINE n == Len(data)
           m == dataLen + n
<1>1. n \in Nat /\ data \in [1..n -> Bytes]
  BY LenProperties
<1>2. /\ buf' = Stored(data)
      /\ dataEnd' = Passed(dataEnd, n)
      /\ dataLen' = m
      /\ out' = Done("write", data)
      /\ dataStart' = dataStart
      /\ locked' = locked
  BY <1>1 DEF Write, RingInv, TypeOK
<1> HIDE DEF n
<1>3. buf' \in [0..BufLen - 1 -> Bytes]
  BY <1>1, <1>2 DEF Stored, RingInv, TypeOK, n
<1>4. RingInv'
  <2>0. dataLen + n <= BufLen
    BY DEF n
  <2>1. dataEnd' \in 0..BufLen /\ dataLen' \in 0..BufLen /\ PointersAgree'
    BY <1>1, <1>2, <2>0 DEF RingInv, TypeOK, PointersAgree, Passed
  <2>2. out'.ok = TRUE /\ out'.data = data
    BY <1>2 DEF Done
  <2>3. out'.ok \in BOOLEAN /\ out'.data \in Seq(Bytes)
    BY <2>2, Zenon
  <2> QED
    BY <1>2, <1>3, <2>1, <2>3 DEF RingInv, TypeOK
<1>5. \A i \in 1..dataLen : buf'[At(i)] = buf[At(i)]
  <2> SUFFICES ASSUME NEW i \in 1..dataLen PROVE buf'[At(i)] = buf[At(i)]
    OBVIOUS
  <2>1. At(i) \in 0..BufLen - 1
    BY AtInRing
  <2>2. ~(dataEnd <= At(i) /\ At(i) < dataEnd + n) /\ ~(At(i) < n - (BufLen - dataEnd))
    BY <1>1 DEF RingInv, TypeOK, PointersAgree, At, n
  <2> QED
    BY <1>2, <2>1, <2>2 DEF Stored, n
<1>6. \A i \in 1..n : buf'[At(dataLen + i)] = data[i]
  <2> SUFFICES ASSUME NEW i \in 1..n PROVE buf'[At(dataLen + i)] = data[i]
    OBVIOUS
  <2> DEFINE p == At(dataLen + i)
  <2>1. p \in 0..BufLen - 1
    BY <1>1 DEF RingInv, TypeOK, At, n
  <2>2. \/ /\ dataEnd <= p /\ p < dataEnd + n
           /\ p - dataEnd + 1 = i
        \/ /\ ~(dataEnd <= p /\ p < dataEnd + n)
           /\ p < n - (BufLen - dataEnd)
           /\ BufLen - dataEnd + p + 1 = i
    BY <1>1 DEF RingInv, TypeOK, PointersAgree, At, n
  <2> HIDE DEF p
  <2>3. buf'[p] = data[i]
    BY <1>2, <2>1, <2>2 DEF Stored, n
  <2> QED
    BY <2>3 DEF p
<1>7. \A i \in Int : At(i)' = At(i)
  BY <1>2 DEF At
<1>8. Oldest(dataLen)' \in Seq(Bytes) /\ Len(Oldest(dataLen)') = m
      /\ \A i \in 1..m : Oldest(dataLen)'[i] = buf'[At(i)]
  <2>1. Oldest(dataLen)' = [i \in 1..m |-> buf'[At(i)]]
    BY <1>2 DEF Oldest, At
  <2>2. m \in Nat
    BY <1>1 DEF RingInv, TypeOK
  <2>3. \A i \in 1..m : At(i) \in 0..BufLen - 1
    BY <1>1 DEF RingInv, TypeOK, At, n
  <2>4. Oldest(dataLen)' \in [1..m -> Bytes]
    BY <1>3, <2>1, <2>3
  <2>5. Oldest(dataLen)' \in Seq(Bytes)
    BY <2>2, <2>4, SeqDef
  <2> QED
    BY <2>1, <2>2, <2>4, <2>5, LenProperties
<1>9. /\ Oldest(dataLen) \o data \in Seq(Bytes)
      /\ Len(Oldest(dataLen) \o data) = m
      /\ \A i \in 1..m : (Oldest(dataLen) \o data)[i] =
                            IF i <= dataLen THEN Oldest(dataLen)[i] ELSE data[i - dataLen]
  <2>1. dataLen \in 0..dataLen
    BY DEF RingInv, TypeOK
  <2>2. Oldest(dataLen) \in Seq(Bytes) /\ Len(Oldest(dataLen)) = dataLen
    BY <2>1, OldestBytes
  <2> DEFINE q == Oldest(dataLen)
  <2>3. q \in Seq(Bytes) /\ Len(q) = dataLen /\ Len(data) = n
    BY <2>2 DEF n
  <2> HIDE DEF q
  <2>4. /\ q \o data \in Seq(Bytes)
        /\ Len(q \o data) = dataLen + n
        /\ \A i \in 1..dataLen + n :
              (q \o data)[i] = IF i <= dataLen THEN q[i] ELSE data[i - dataLen]
    BY <1>1, <2>3, ConcatProperties
  <2> QED
    BY <2>4 DEF q
<1>10. \A i \in 1..m : Oldest(dataLen)'[i] = (Oldest(dataLen) \o data)[i]
  <2> SUFFICES ASSUME NEW i \in 1..m
               PROVE  buf'[At(i)] = IF i <= dataLen THEN Oldest(dataLen)[i] ELSE data[i - dataLen]
    BY <1>8, <1>9
  <2>1. CASE i <= dataLen
    <3>1. i \in 1..dataLen /\ dataLen \in 0..dataLen
      BY <2>1, <1>1 DEF RingInv, TypeOK
    <3> QED
      BY <2>1, <3>1, <1>5, OldestBytes
  <2>2. CASE ~(i <= dataLen)
    <3>1. i - dataLen \in 1..n /\ dataLen + (i - dataLen) = i
      BY <2>2, <1>1 DEF RingInv, TypeOK
    <3> QED
      BY <2>2, <3>1, <1>6
  <2> QED
    BY <2>1, <2>2
<1> QED
  BY <1>2, <1>4, <1>8, <1>9, <1>10, SeqEqual
----------------------------------------------------------------------------
\* Looking at the oldest n bytes.
LEMMA PeekLooks ==
    ASSUME RingInv, NEW n \in 0..dataLen
    PROVE  Oldest(n) = SubSeq(Oldest(dataLen), 1, n)
<1> DEFINE q == Oldest(dataLen)
           r == Oldest(n)
<1>1. dataLen \in 0..dataLen /\ n \in Nat /\ dataLen \in Nat
  BY BufLenAssumption DEF RingInv, TypeOK
<1>2. /\ q \in Seq(Bytes) /\ Len(q) = dataLen
      /\ \A i \in 1..dataLen : q[i] = buf[At(i)] /\ q[i] \in Bytes
  BY <1>1, OldestBytes
<1>3. /\ r \in Seq(Bytes) /\ Len(r) = n
      /\ \A i \in 1..n : r[i] = buf[At(i)]
  BY OldestBytes
<1> HIDE DEF q, r
<1>4. /\ SubSeq(q, 1, n) \in Seq(Bytes) /\ Len(SubSeq(q, 1, n)) = n
      /\ \A i \in 1..n : SubSeq(q, 1, n)[i] = q[i]
  BY <1>1, <1>2, SubSeqProperties
<1>5. \A i \in 1..n : r[i] = SubSeq(q, 1, n)[i]
  BY <1>1, <1>2, <1>3, <1>4
<1>6. r = SubSeq(q, 1, n)
  BY <1>3, <1>4, <1>5, SeqEqual
<1> QED
  BY <1>6 DEF q, r

\* Leaving out the oldest n bytes.
LEMMA SkipDrops ==
    ASSUME RingInv, NEW n \in 0..dataLen,
           dataStart' = Passed(dataStart, n), dataLen' = dataLen - n,
           buf' = buf, dataEnd' = dataEnd, locked' = locked,
           out'.ok \in BOOLEAN, out'.data \in Seq(Bytes)
    PROVE  /\ RingInv'
           /\ Oldest(dataLen)' = SubSeq(Oldest(dataLen), n + 1, dataLen)
<1> USE BufLenAssumption
<1> DEFINE q == Oldest(dataLen)
           m == dataLen - n
<1>1. dataLen \in 0..dataLen /\ n \in Nat /\ dataLen \in Nat /\ m \in Nat
  BY DEF RingInv, TypeOK
<1>2. RingInv'
  <2>1. dataStart' \in 0..BufLen /\ dataLen' \in 0..BufLen /\ PointersAgree'
    BY <1>1 DEF RingInv, TypeOK, PointersAgree, Passed
  <2> QED
    BY <2>1 DEF RingInv, TypeOK
<1>3. \A i \in 1..m : At(i)' = At(n + i) /\ At(n + i) \in 0..BufLen - 1
  BY <1>1 DEF RingInv, TypeOK, At, Passed
<1>4. /\ q \in Seq(Bytes) /\ Len(q) = dataLen
      /\ \A i \in 1..dataLen : q[i] = buf[At(i)] /\ q[i] \in Bytes
  BY <1>1, OldestBytes
<1>5. Oldest(dataLen)' = [i \in 1..m |-> buf[At(n + i)]]
  <2>1. Oldest(dataLen)' = [i \in 1..m |-> buf[At(i)']]
    BY DEF Oldest, At
  <2> QED
    BY <1>3, <2>1
<1> HIDE DEF q
<1> DEFINE r == [i \in 1..m |-> buf[At(n + i)]]
<1>6. /\ r \in Seq(Bytes) /\ Len(r) = m
      /\ \A i \in 1..m : r[i] = q[n + i]
  <2>1. \A i \in 1..m : n + i \in 1..dataLen
    BY <1>1
  <2>2. \A i \in 1..m : r[i] = q[n + i] /\ q[n + i] \in Bytes
    BY <1>4, <2>1
  <2>3. r \in [1..m -> Bytes]
    BY <2>2
  <2>4. r \in Seq(Bytes)
    BY <1>1, <2>3, SeqDef
  <2>5. Len(r) = m
    BY <1>1, <2>3, <2>4, LenProperties
  <2> QED
    BY <2>2, <2>4, <2>5
<1> HIDE DEF r
<1>7. /\ SubSeq(q, n + 1, dataLen) \in Seq(Bytes)
      /\ Len(SubSeq(q, n + 1, dataLen)) = m
      /\ \A i \in 1..m : SubSeq(q, n + 1, dataLen)[i] = q[n + i]
  <2>1. /\ SubSeq(q, n + 1, dataLen) \in Seq(Bytes)
        /\ Len(SubSeq(q, n + 1, dataLen)) =
              IF n + 1 <= dataLen THEN dataLen - (n + 1) + 1 ELSE 0
        /\ \A i \in 1..dataLen - (n + 1) + 1 :
              SubSeq(q, n + 1, dataLen)[i] = q[(n + 1) + i - 1]
    <3>1. \A i \in n + 1..dataLen : q[i] \in Bytes
      BY <1>1, <1>4
    <3> QED
      BY <1>1, <3>1, SubSeqProperties
  <2> QED
    BY <1>1, <2>1
<1>8. r = SubSeq(q, n + 1, dataLen)
  <2> DEFINE t == SubSeq(q, n + 1, dataLen)
  <2>1. t \in Seq(Bytes) /\ Len(r) = Len(t) /\ \A i \in 1..Len(r) : r[i] = t[i]
    BY <1>6, <1>7
  <2> HIDE DEF t, m
  <2>2. r = t
    BY <1>6, <2>1, SeqEqual
  <2> QED
    BY <2>2 DEF t
<1> QED
  BY <1>2, <1>5, <1>8 DEF q, r

----------------------------------------------------------------------------
LEMMA RingInit == Init => RingInv /\ Queue!Init
<1> SUFFICES ASSUME Init PROVE RingInv /\ Queue!Init
  OBVIOUS
<1>1. RingInv
  <2>1. out.ok = TRUE /\ out.data = <<>> /\ locked = FALSE
    BY DEF Init, Done
  <2>2. out.ok \in BOOLEAN /\ out.data \in Seq(Bytes) /\ locked \in BOOLEAN
    BY <2>1, EmptySeq, Zenon
  <2>3. /\ buf \in [0..BufLen - 1 -> Bytes]
        /\ dataStart \in 0..BufLen /\ dataEnd \in 0..BufLen /\ dataLen \in 0..BufLen
        /\ PointersAgree
    BY BufLenAssumption DEF Init, PointersAgree
  <2> QED
    BY <2>2, <2>3, Zenon DEF RingInv, TypeOK
<1>2. Oldest(dataLen) \in Seq(Bytes) /\ Len(Oldest(dataLen)) = 0
  BY <1>1, OldestBytes DEF Init
<1>3. Oldest(dataLen) = <<>>
  BY <1>2, EmptySeq
<1> QED
  BY <1>1, <1>3 DEF Init, Queue!Init, Done, Queue!Done

\* A call that fails leaves the bytes alone.
LEMMA RefusedStep == RingInv /\ Refused => RingInv' /\ Queue!Refuse
<1> SUFFICES ASSUME RingInv, Refused PROVE RingInv' /\ Queue!Refuse
  OBVIOUS
<1>1. RingInv'
  BY EmptySeq DEF RingInv, TypeOK, PointersAgree, Refused, ring, Error
<1>2. Oldest(dataLen)' = Oldest(dataLen)
  BY DEF Refused, ring, Oldest
<1> QED
  BY <1>1, <1>2 DEF Refused, Queue!Refuse, Error, Queue!Error

LEMMA RingNext == RingInv /\ [Next]_vars => RingInv' /\ [Queue!Next]_<<Oldest(dataLen), out>>
<1> SUFFICES ASSUME RingInv, [Next]_vars
             PROVE  RingInv' /\ [Queue!Next]_<<Oldest(dataLen), out>>
  OBVIOUS
<1> USE DEF Done, Queue!Done
<1>1. CASE Refused
  BY <1>1, RefusedStep DEF Queue!Next
<1>2. ASSUME NEW data \in Requests, Write(data), ~Refused
      PROVE  RingInv' /\ Queue!Put
  <2>1. BufLen >= dataLen + Len(data)
    BY <1>2 DEF Write
  <2>2. /\ RingInv'
        /\ Oldest(dataLen)' = Oldest(dataLen) \o data
        /\ out' = Done("write", data)
    BY <1>2, <2>1, RequestSeq, WriteAppends
  <2>3. Len(data) \in 0..BufLen /\ data \in [1..Len(data) -> Bytes]
    BY <2>1, RequestSeq, BufLenAssumption, MaxLenAssumption DEF RingInv, TypeOK
  <2>4. Len(Oldest(dataLen)') <= BufLen
    <3>1. dataLen' \in 0..dataLen' /\ dataLen' <= BufLen
      BY <2>2, BufLenAssumption DEF RingInv, TypeOK
    <3>2. dataLen \in 0..dataLen /\ dataLen \in Nat
      BY BufLenAssumption DEF RingInv, TypeOK
    <3>3. Oldest(dataLen) \in Seq(Bytes) /\ Len(Oldest(dataLen)) = dataLen
      BY <3>2, OldestBytes
    <3>4. Len(Oldest(dataLen) \o data) = Len(Oldest(dataLen)) + Len(data)
      BY <3>3, RequestSeq, ConcatProperties
    <3> QED
      BY <2>1, <2>2, <3>3, <3>4
  <2> QED
    BY <2>2, <2>3, <2>4 DEF Queue!Put
<1>3. ASSUME NEW n \in 0..MaxLen, Peek(n) \/ Read(n) \/ Skip(n), ~Refused
      PROVE  RingInv' /\ (Queue!Look \/ Queue!Take \/ Queue!Drop)
  <2>1. n \in 0..dataLen /\ dataLen \in Nat
    BY <1>3, BufLenAssumption, MaxLenAssumption DEF Peek, Read, Skip, RingInv, TypeOK
  <2>2. dataLen \in 0..dataLen
    BY <2>1
  <2>3. Len(Oldest(dataLen)) = dataLen /\ Oldest(n) \in Seq(Bytes)
    BY <2>1, <2>2, OldestBytes
  <2>4. Oldest(n) = SubSeq(Oldest(dataLen), 1, n)
    BY <2>1, PeekLooks
  <2>5. CASE Peek(n)
    <3>1. out' = Done("peek", Oldest(n)) /\ UNCHANGED <<ring, locked>>
      BY <1>3, <2>5 DEF Peek
    <3>2. Oldest(dataLen)' = Oldest(dataLen)
      BY <3>1 DEF ring, Oldest
    <3>3. RingInv'
      BY <2>3, <3>1 DEF ring, RingInv, TypeOK, PointersAgree
    <3>4. Queue!Look
      BY <2>1, <2>3, <2>4, <3>1, <3>2 DEF Queue!Look
    <3> QED
      BY <3>3, <3>4
  <2>6. CASE Read(n)
    <3>1. /\ out' = Done("read", Oldest(n))
          /\ dataStart' = Passed(dataStart, n) /\ dataLen' = dataLen - n
          /\ buf' = buf /\ dataEnd' = dataEnd /\ locked' = locked
      BY <1>3, <2>6 DEF Read
    <3>2. RingInv' /\ Oldest(dataLen)' = SubSeq(Oldest(dataLen), n + 1, dataLen)
      BY <2>1, <2>3, <3>1, SkipDrops
    <3>3. Queue!Take
      BY <2>1, <2>3, <2>4, <3>1, <3>2 DEF Queue!Take
    <3> QED
      BY <3>2, <3>3
  <2>7. CASE Skip(n)
    <3>1. /\ out' = Done("skip", <<>>)
          /\ dataStart' = Passed(dataStart, n) /\ dataLen' = dataLen - n
          /\ buf' = buf /\ dataEnd' = dataEnd /\ locked' = locked
      BY <1>3, <2>7 DEF Skip
    <3>2. RingInv' /\ Oldest(dataLen)' = SubSeq(Oldest(dataLen), n + 1, dataLen)
      BY <2>1, <3>1, SkipDrops, EmptySeq
    <3>3. Queue!Drop
      BY <2>1, <2>3, <3>1, <3>2 DEF Queue!Drop
    <3> QED
      BY <3>2, <3>3
  <2> QED
    BY <1>3, <2>5, <2>6, <2>7
<1>4. CASE Clear
  <2>1. RingInv'
    BY <1>4, BufLenAssumption, EmptySeq DEF Clear, RingInv, TypeOK, PointersAgree
  <2>2. Oldest(dataLen)' = <<>>
    BY <1>4 DEF Clear, Oldest
  <2> QED
    BY <1>4, <2>1, <2>2 DEF Clear, Queue!Next, Queue!Empty
<1>5. CASE UNCHANGED vars
  <2>1. RingInv'
    BY <1>5 DEF vars, RingInv, TypeOK, PointersAgree
  <2>2. UNCHANGED <<Oldest(dataLen), out>>
    BY <1>5 DEF vars, Oldest
  <2> QED
    BY <2>1, <2>2
<1> QED
  BY <1>1, <1>2, <1>3, <1>4, <1>5 DEF Next, Queue!Next

\* The types, and the ranges of the pointers, of a ring of any length.
THEOREM TypeCorrect == Spec => []TypeOK
<1>1. RingInv => TypeOK
  BY DEF RingInv
<1> QED
  BY <1>1, RingInit, RingNext, PTL DEF Spec

\* The length and the two pointers never disagree, in a ring of any length.
THEOREM LengthAndPointers == Spec => []PointersAgree
<1>1. RingInv => PointersAgree
  BY DEF RingInv
<1> QED
  BY <1>1, RingInit, RingNext, PTL DEF Spec

\* A ring of any length, of any bytes, with requests of any size, is a queue.
THEOREM RingIsQueue == Spec => Implements
<1> QED
  BY RingInit, RingNext, PTL DEF Spec, Implements, Queue!Spec

----------------------------------------------------------------------------
(***************************************************************************)
(* The two threads around the buffer.                                      *)
(***************************************************************************)

\* Where each thread is, and what it has in hand.
Places ==
    /\ recv \in {"poll", "write", "ended"}
    /\ chunk \in UNION {[1..n -> Bytes] : n \in 0..MaxChunk}
    /\ work \in {"idle", "await", "peek", "discard", "take", "quit", "stopping", "free",
                 "freed", "ended"}
    /\ phase \in {"open", "serve", "close"}
    /\ size \in 0..PeekLen
    /\ caller \in {"idle", "waiting"}

Switches ==
    /\ trigger \in BOOLEAN /\ running \in BOOLEAN
    /\ workTrigger \in BOOLEAN /\ workRunning \in BOOLEAN
    /\ due \in BOOLEAN

\* The flag that BT_deinit waits for, and what it means.
StopInv ==
    /\ ~running => recv = "ended" \/ locked
    /\ work \in {"free", "freed", "ended"} => ~running
    /\ work \in {"quit", "stopping", "free", "freed", "ended"} => phase = "close"

BtInv == RingInv /\ Places /\ SizeStillThere

----------------------------------------------------------------------------
\* The operations keep the ring a ring, for any caller.
LEMMA WriteKeeps ==
    ASSUME RingInv, NEW data \in Seq(Bytes), Write(data)
    PROVE  RingInv' /\ dataLen <= dataLen'
<1>1. CASE Refused
  BY <1>1, RefusedStep, BufLenAssumption DEF Refused, ring, RingInv, TypeOK
<1>2. CASE ~Refused
  <2>1. BufLen >= dataLen + Len(data) /\ dataLen' = dataLen + Len(data)
    BY <1>2 DEF Write
  <2>2. Len(data) \in Nat
    BY LenProperties
  <2>3. RingInv'
    BY <2>1, WriteAppends
  <2> QED
    BY <2>1, <2>2, <2>3, BufLenAssumption DEF RingInv, TypeOK
<1> QED
  BY <1>1, <1>2

LEMMA PeekKeeps ==
    ASSUME RingInv, NEW n \in Nat, Peek(n)
    PROVE  RingInv' /\ dataLen' = dataLen
<1>1. CASE Refused
  BY <1>1, RefusedStep DEF Refused, ring
<1>2. CASE ~Refused
  <2>1. n \in 0..dataLen /\ out' = Done("peek", Oldest(n)) /\ UNCHANGED <<ring, locked>>
    BY <1>2, BufLenAssumption DEF Peek, RingInv, TypeOK
  <2>2. Oldest(n) \in Seq(Bytes)
    BY <2>1, OldestBytes
  <2> QED
    BY <2>1, <2>2 DEF Done, ring, RingInv, TypeOK, PointersAgree
<1> QED
  BY <1>1, <1>2

LEMMA SkipKeeps ==
    ASSUME RingInv, NEW n \in 0..dataLen, Skip(n)
    PROVE  RingInv' /\ dataLen' = dataLen - n
<1>1. dataLen \in Nat /\ n \in Nat /\ ~(dataLen < n)
  BY BufLenAssumption DEF RingInv, TypeOK
<1>2. /\ out' = Done("skip", <<>>)
      /\ dataStart' = Passed(dataStart, n) /\ dataLen' = dataLen - n
      /\ buf' = buf /\ dataEnd' = dataEnd /\ locked' = locked
  BY <1>1 DEF Skip
<1>3. out'.ok = TRUE /\ out'.data = <<>>
  BY <1>2 DEF Done
<1>4. out'.ok \in BOOLEAN /\ out'.data \in Seq(Bytes)
  BY <1>3, EmptySeq, Zenon
<1> QED
  BY <1>2, <1>4, SkipDrops

LEMMA EmptyKeeps ==
    ASSUME buf \in [0..BufLen - 1 -> Bytes], locked' \in BOOLEAN, buf' = buf,
           dataStart' = 0, dataEnd' = 0, dataLen' = 0, NEW op, out' = Done(op, <<>>)
    PROVE  RingInv'
<1>1. out'.ok = TRUE /\ out'.data = <<>>
  BY DEF Done
<1>2. out'.ok \in BOOLEAN /\ out'.data \in Seq(Bytes)
  BY <1>1, EmptySeq, Zenon
<1>3. /\ dataStart' \in 0..BufLen /\ dataEnd' \in 0..BufLen /\ dataLen' \in 0..BufLen
      /\ PointersAgree'
  BY BufLenAssumption DEF PointersAgree
<1> QED
  BY <1>2, <1>3, Zenon DEF RingInv, TypeOK

LEMMA ChunkSeq ==
    ASSUME NEW c \in UNION {[1..n -> Bytes] : n \in 0..MaxChunk}
    PROVE  c \in Seq(Bytes)
<1>1. \A n \in 0..MaxChunk : n \in Nat
  BY ChunkAssumption
<1> QED
  BY <1>1, SeqDef

LEMMA NoChunk == <<>> \in UNION {[1..n -> Bytes] : n \in 0..MaxChunk}
<1>1. <<>> \in [1..0 -> Bytes] /\ 0 \in 0..MaxChunk
  BY ChunkAssumption
<1> QED
  BY <1>1

----------------------------------------------------------------------------
LEMMA BtFirst == BtInit => BtInv /\ Switches /\ StopInv
<1> SUFFICES ASSUME BtInit PROVE BtInv /\ Switches /\ StopInv
  OBVIOUS
<1>1. RingInv
  BY RingInit DEF BtInit
<1>2. Places /\ SizeStillThere
  BY NoChunk, ChunkAssumption DEF BtInit, Places, SizeStillThere
<1>3. Switches /\ StopInv
  BY Zenon DEF BtInit, Switches, StopInv
<1> QED
  BY <1>1, <1>2, <1>3 DEF BtInv

LEMMA BtStep == BtInv /\ [BtNext]_btVars => BtInv'
<1> SUFFICES ASSUME BtInv, [BtNext]_btVars PROVE BtInv'
  OBVIOUS
<1>a. /\ RingInv /\ dataLen \in Nat /\ size \in Nat /\ PeekLen \in Nat
      /\ chunk \in Seq(Bytes)
  BY BufLenAssumption, ChunkAssumption, ChunkSeq DEF BtInv, RingInv, TypeOK, Places
<1>b. UNCHANGED vars => RingInv' /\ dataLen' = dataLen
  BY <1>a DEF vars, RingInv, TypeOK, PointersAgree
<1> USE DEF BtInv, Places, SizeStillThere, reader, writer, control, binding
<1>1. CASE Receive
  <2>1. chunk' \in UNION {[1..n -> Bytes] : n \in 0..MaxChunk}
    BY <1>1, ChunkAssumption DEF Receive
  <2> QED
    BY <1>1, <1>b, <2>1 DEF Receive
<1>2. CASE StoreChunk
  <2>1. RingInv' /\ dataLen <= dataLen' /\ dataLen' \in Nat
    BY <1>2, <1>a, WriteKeeps, BufLenAssumption DEF StoreChunk, RingInv, TypeOK
  <2> QED
    BY <1>2, <1>a, <2>1, NoChunk DEF StoreChunk
<1>3. CASE EndReceive \/ GetSize \/ Quit
  BY <1>3, <1>a, <1>b DEF EndReceive, GetSize, Quit
<1>10. CASE Stop \/ Stopped \/ StopTimeout \/ FreeBuffer \/ EndWork
  BY <1>10, <1>a, <1>b DEF Stop, Stopped, StopTimeout, FreeBuffer, EndWork
<1>11. CASE Opened \/ OpenFails \/ TimePasses \/ NoAnswer
  BY <1>11, <1>a, <1>b DEF Opened, OpenFails, TimePasses, NoAnswer
<1>12. CASE Interrupt \/ Interrupted
  BY <1>12, <1>a, <1>b DEF Interrupt, Interrupted
<1>4. CASE ClearOld \/ CloseHotspot
  <2>1. RingInv'
    BY <1>4, <1>a, EmptyKeeps DEF ClearOld, CloseHotspot, Clear, RingInv, TypeOK
  <2> QED
    BY <1>4, <2>1 DEF ClearOld, CloseHotspot
<1>5. CASE PeekAll
  <2>1. RingInv' /\ dataLen' = dataLen
    BY <1>5, <1>a, PeekKeeps DEF PeekAll
  <2> QED
    BY <1>5, <2>1 DEF PeekAll
<1>6. CASE Discard
  <2>1. PICK n \in 0..size : /\ Skip(n) /\ size' = size - n
                             /\ work' \in IF n < size THEN {"take", "idle"} ELSE {"idle"}
    BY <1>6 DEF Discard
  <2>2. n \in 0..dataLen
    BY <1>6, <1>a, <2>1 DEF Discard
  <2>3. RingInv' /\ dataLen' = dataLen - n
    BY <1>a, <2>1, <2>2, SkipKeeps
  <2> QED
    BY <1>6, <1>a, <2>1, <2>2, <2>3 DEF Discard
<1>7. CASE Take
  <2>1. PICK n \in 1..size : Skip(n)
    BY <1>7 DEF Take
  <2>2. n \in 0..dataLen
    BY <1>7, <1>a, <2>1 DEF Take
  <2>3. RingInv'
    BY <1>a, <2>1, <2>2, SkipKeeps
  <2> QED
    BY <1>7, <1>a, <2>3 DEF Take
<1>8. CASE BtInitAgain
  <2>1. RingInv'
    BY <1>8, <1>a, EmptyKeeps DEF BtInitAgain, RingInv, TypeOK
  <2> QED
    BY <1>8, <2>1 DEF BtInitAgain
<1>9. CASE UNCHANGED btVars
  BY <1>9, <1>b DEF btVars
<1> QED
  BY <1>1, <1>2, <1>3, <1>4, <1>5, <1>6, <1>7, <1>8, <1>9, <1>10, <1>11, <1>12
  DEF BtNext, Receiver, Dialogue, Reader, Stopping, Caller

LEMMA SwitchStep == Switches /\ StopInv /\ [BtNext]_btVars => Switches' /\ StopInv'
<1> SUFFICES ASSUME Switches, StopInv, [BtNext]_btVars PROVE Switches' /\ StopInv'
  OBVIOUS
<1> USE DEF Switches, StopInv, reader, writer, control, binding, vars
<1>1. CASE Receive \/ EndReceive
  <2>1. Switches'
    BY <1>1, Zenon DEF Receive, EndReceive
  <2>2. StopInv'
    BY <1>1 DEF Receive, EndReceive
  <2> QED
    BY <2>1, <2>2
<1>2. CASE StoreChunk
  BY <1>2, Zenon DEF StoreChunk, Write, Refused
<1>3. CASE GetSize \/ Quit \/ Opened \/ OpenFails \/ NoAnswer
  <2>1. Switches'
    BY <1>3, Zenon DEF GetSize, Quit, Opened, OpenFails, NoAnswer
  <2>2. StopInv'
    BY <1>3 DEF GetSize, Quit, Opened, OpenFails, NoAnswer
  <2> QED
    BY <2>1, <2>2
<1>10. CASE TimePasses \/ Interrupt \/ Interrupted
  <2>1. Switches'
    BY <1>10, Zenon DEF TimePasses, Interrupt, Interrupted
  <2>2. UNCHANGED <<running, recv, locked, work, phase>>
    BY <1>10, Zenon DEF TimePasses, Interrupt, Interrupted
  <2> QED
    BY <2>1, <2>2
<1>4. CASE Stop \/ Stopped \/ StopTimeout \/ FreeBuffer \/ EndWork
  <2>1. Switches'
    BY <1>4, Zenon DEF Stop, Stopped, StopTimeout, FreeBuffer, EndWork
  <2>2. StopInv'
    BY <1>4 DEF Stop, Stopped, StopTimeout, FreeBuffer, EndWork
  <2> QED
    BY <2>1, <2>2
<1>5. CASE ClearOld \/ CloseHotspot
  <2>1. Switches'
    BY <1>5, Zenon DEF ClearOld, CloseHotspot, Clear
  <2>2. work' \in {"await", "idle"} /\ UNCHANGED <<running, recv, locked>>
    BY <1>5, Zenon DEF ClearOld, CloseHotspot, Clear
  <2> QED
    BY <2>1, <2>2
<1>6. CASE PeekAll
  <2>1. Switches' /\ running' = running /\ recv' = recv /\ ~locked
    BY <1>6, Zenon DEF PeekAll, Peek
  <2>2. work' \in {"idle", "discard", "take", "await"}
    BY <1>6 DEF PeekAll
  <2> QED
    BY <2>1, <2>2
<1>7. CASE Discard \/ Take
  <2>1. running' = running /\ recv' = recv /\ ~locked
    BY <1>7, Zenon DEF Discard, Take, Skip
  <2>2. work' \in {"idle", "take"}
    BY <1>7 DEF Discard, Take
  <2>3. workTrigger' \in {workTrigger, FALSE}
    BY <1>7 DEF Discard, Take
  <2>4. Switches'
    BY <1>7, <2>3, Zenon DEF Discard, Take
  <2> QED
    BY <2>1, <2>2, <2>4
<1>8. CASE BtInitAgain
  <2>1. Switches'
    BY <1>8, Zenon DEF BtInitAgain
  <2>2. work' = "idle" /\ running' = TRUE
    BY <1>8, Zenon DEF BtInitAgain
  <2> QED
    BY <2>1, <2>2
<1>9. CASE UNCHANGED btVars
  BY <1>9, Zenon DEF btVars
<1> QED
  BY <1>1, <1>2, <1>3, <1>4, <1>5, <1>6, <1>7, <1>8, <1>9, <1>10
  DEF BtNext, Receiver, Dialogue, Reader, Stopping, Caller

----------------------------------------------------------------------------
\* The threads and the ring keep their types.
THEOREM BtTypeCorrect == BtSpec => []BtTypeOK
<1>1. BtInv /\ Switches => BtTypeOK
  BY Zenon DEF BtInv, Switches, BtTypeOK, RingInv, Places
<1> QED
  BY <1>1, BtFirst, BtStep, SwitchStep, PTL DEF BtSpec

\* The length the reader has read without the lock is good until it is used.
THEOREM SizeStands == BtSpec => []SizeStillThere
<1>1. BtInv => SizeStillThere
  BY DEF BtInv
<1> QED
  BY <1>1, BtFirst, BtStep, PTL DEF BtSpec

\* BT_deinit frees the buffer under no receiver that can still run.
THEOREM FreedUnderNobody == BtSpec => []FreedIsUnused
<1>1. StopInv => FreedIsUnused
  BY DEF StopInv, FreedIsUnused
<1> QED
  BY <1>1, BtFirst, SwitchStep, PTL DEF BtSpec

\* An operation that can be served leaves the mutex as it was, whoever calls it; the
\* reader asks for no more than there is, so that its calls can be served.
LEMMA OnlyWriteJams ==
    ASSUME RingInv, SizeStillThere, Places, [BtNext]_btVars, locked', ~locked
    PROVE  StoreChunk
<1>1. dataLen \in Nat /\ size \in Nat /\ PeekLen \in Nat
  BY BufLenAssumption, ChunkAssumption DEF RingInv, TypeOK, Places
<1>2. CASE \/ Receive \/ EndReceive \/ GetSize \/ Quit \/ Stop \/ Stopped \/ StopTimeout
           \/ FreeBuffer \/ EndWork
  BY <1>2, Zenon
  DEF Receive, EndReceive, GetSize, Quit, Stop, Stopped, StopTimeout, FreeBuffer, EndWork, vars
<1>8. CASE Opened \/ OpenFails \/ TimePasses \/ NoAnswer \/ Interrupt \/ Interrupted
  BY <1>8, Zenon
  DEF Opened, OpenFails, TimePasses, NoAnswer, Interrupt, Interrupted, vars
<1>3. CASE ClearOld \/ CloseHotspot \/ BtInitAgain
  BY <1>3, Zenon DEF ClearOld, CloseHotspot, BtInitAgain, Clear
<1>4. CASE PeekAll
  <2>1. ~(dataLen < size)
    BY <1>1, <1>4 DEF PeekAll, SizeStillThere
  <2> QED
    BY <1>4, <2>1, Zenon DEF PeekAll, Peek
<1>5. CASE Discard
  <2>1. PICK n \in 0..size : Skip(n)
    BY <1>5 DEF Discard
  <2>2. ~(dataLen < n)
    BY <1>1, <1>5 DEF Discard, SizeStillThere
  <2> QED
    BY <2>1, <2>2, Zenon DEF Skip
<1>6. CASE Take
  <2>1. PICK n \in 1..size : Skip(n)
    BY <1>6 DEF Take
  <2>2. ~(dataLen < n)
    BY <1>1, <1>6 DEF Take, SizeStillThere
  <2> QED
    BY <2>1, <2>2, Zenon DEF Skip
<1>7. CASE UNCHANGED btVars
  BY <1>7, Zenon DEF btVars, vars
<1> QED
  BY <1>2, <1>3, <1>4, <1>5, <1>6, <1>7, <1>8
  DEF BtNext, Receiver, Dialogue, Reader, Stopping, Caller

\* The mutex is left locked by an overflow and by nothing else, for a ring, chunks and
\* a reader's buffer of any size.
THEOREM JammedByOverflow == BtSpec => OnlyOverflowJams
<1>1. BtInv /\ [BtNext]_btVars =>
        [locked' /\ ~locked => recv = "write" /\ BufLen < dataLen + Len(chunk)]_btVars
  <2> SUFFICES ASSUME BtInv, [BtNext]_btVars, locked', ~locked
               PROVE  recv = "write" /\ BufLen < dataLen + Len(chunk)
    OBVIOUS
  <2>1. StoreChunk
    BY OnlyWriteJams DEF BtInv
  <2>2. Write(chunk) /\ recv = "write"
    BY <2>1 DEF StoreChunk
  <2> QED
    BY <2>2, Zenon DEF Write
<1> QED
  BY <1>1, BtFirst, BtStep, PTL DEF BtSpec, OnlyOverflowJams

----------------------------------------------------------------------------
\* With the mutex left locked every operation of the ring waits, and what the threads
\* do without the ring leads the binding thread nowhere but to the next operation.
LEMMA StaysStuck == StopInv /\ [BtNext]_btVars => [Stuck => Stuck']_btVars
<1> SUFFICES ASSUME StopInv, [BtNext]_btVars, Stuck PROVE Stuck'
  OBVIOUS
<1>0. work \in {"stopping", "free", "freed", "ended"} => FALSE
  BY DEF StopInv, Stuck
<1> USE DEF Stuck, reader, writer, control, binding, vars
<1>1. CASE Receive \/ EndReceive
  BY <1>1, Zenon DEF Receive, EndReceive
<1>2. CASE StoreChunk
  BY <1>2, Zenon DEF StoreChunk, Write
<1>3. CASE ClearOld \/ CloseHotspot
  BY <1>3, Zenon DEF ClearOld, CloseHotspot, Clear
<1>4. CASE Opened \/ OpenFails \/ TimePasses \/ NoAnswer
  BY <1>4 DEF Opened, OpenFails, TimePasses, NoAnswer
<1>5. CASE GetSize \/ Quit
  BY <1>5 DEF GetSize, Quit
<1>6. CASE PeekAll \/ Discard \/ Take
  BY <1>6, Zenon DEF PeekAll, Discard, Take, Peek, Skip
<1>7. CASE Interrupt \/ Interrupted
  BY <1>7, Zenon DEF Interrupt, Interrupted
<1>8. CASE Stop \/ Stopped \/ StopTimeout \/ FreeBuffer \/ EndWork \/ BtInitAgain
  BY <1>0, <1>8 DEF Stop, Stopped, StopTimeout, FreeBuffer, EndWork, BtInitAgain
<1>9. CASE UNCHANGED btVars
  BY <1>9, Zenon DEF btVars
<1> QED
  BY <1>1, <1>2, <1>3, <1>4, <1>5, <1>6, <1>7, <1>8, <1>9
  DEF BtNext, Receiver, Dialogue, Reader, Stopping, Caller

\* Once the buffer is jammed with a use of it still ahead, the binding thread never
\* gets past it, and who waits for that thread waits for ever: for rings and chunks of
\* any size, and whatever else happens.
THEOREM JamIsForGood == BtSpec => StuckForGood
<1> QED
  BY BtFirst, SwitchStep, StaysStuck, PTL DEF BtSpec, StuckForGood
============================================================================
