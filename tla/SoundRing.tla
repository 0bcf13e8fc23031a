----------------------------- MODULE SoundRing -----------------------------
(***************************************************************************)
(* The ring behind the loudspeaker (src/sound_queue.c): packets of any     *)
(* length side by side in queueBuffer, none divided over its end, and      *)
(* their lengths and types in a ring of their own.  Where a packet begins  *)
(* is stored nowhere: reader and writer both infer it from the lengths.    *)
(***************************************************************************)
EXTENDS Naturals, Sequences

CONSTANTS
    QbSize,     \* qbSize
    InfoCap,    \* QUEUE_MAX_COUNT
    PlayBufSize \* play_buf_sz

ASSUME RingAssumption ==
    QbSize \in Nat \ {0} /\ InfoCap \in Nat \ {0} /\ PlayBufSize \in Nat

VARIABLES
    buf,        \* queueBuffer
    info,       \* gs_dataInfo
    qbCount, readPos, writePos,
    infoRead,   \* dataInfoReadPos
    infoWrite   \* dataInfoWritePos

ring == <<buf, info, qbCount, readPos, writePos, infoRead, infoWrite>>

Types == {"WAV_FILE", "P2P_G711A", "NULL"}
NoInfo == [len |-> 0, type |-> "NULL"]

\* A byte of a packet, and a packet of n bytes; Zero is what memset leaves.
Packet(id, n) == [i \in 1..n |-> <<id, i>>]
Zero == <<0, 0>>

RingInit ==
    /\ buf = [i \in 0..QbSize - 1 |-> Zero]
    /\ info = [i \in 0..InfoCap - 1 |-> NoInfo]
    /\ qbCount = 0 /\ readPos = 0 /\ writePos = 0 /\ infoRead = 0 /\ infoWrite = 0

\* The entry of the n-th packet from the oldest, which is number 0.
InfoAt(n) == info[(infoRead + n) % InfoCap]

\* Where a packet of this length begins that is the next one after pos.
Place(pos, len) == IF pos + len > QbSize THEN 0 ELSE pos

\* readPos once the n oldest packets are gone.
ReadPosAfter[n \in Nat] ==
    IF n = 0 THEN readPos
    ELSE Place(ReadPosAfter[n - 1], InfoAt(n - 1).len) + InfoAt(n - 1).len

\* The bytes of the n-th packet, as the reader finds them.
PacketAt(n) ==
    [i \in 1..InfoAt(n).len |-> buf[Place(ReadPosAfter[n], InfoAt(n).len) + i - 1]]

Stepped(infoPos) == (infoPos % InfoCap) + 1

\* The end of sound_writeQueue: n packets are dropped, the new one is put at w.
Store(id, size, type, n, r, w) ==
    /\ buf' = [i \in 0..QbSize - 1 |->
                 IF w <= i /\ i < w + size THEN Packet(id, size)[i - w + 1] ELSE buf[i]]
    /\ info' = [info EXCEPT ![infoWrite % InfoCap] = [len |-> size, type |-> type]]
    /\ qbCount' = qbCount - n + 1
    /\ readPos' = r
    /\ writePos' = w + size
    /\ infoRead' = IF n = 0 THEN infoRead ELSE Stepped(infoRead + n - 1)
    /\ infoWrite' = Stepped(infoWrite)

\* A mistake for comparison: there is room to the right for one byte more than there is.
FitsRightByOne(size) == writePos >= readPos /\ writePos + size <= QbSize + 1

FitsRight(size) == writePos >= readPos /\ writePos + size <= QbSize

\* Where to write when there is no room to the right.
Left == IF writePos >= readPos THEN 0 ELSE writePos

\* A mistake for comparison: the new packet may come up against the oldest one.
FitsLeftTight(n, size) == Left + size <= ReadPosAfter[n]

\* There is room to the left once the n oldest packets are gone.
FitsLeft(n, size) == Left + size < ReadPosAfter[n]

\* sound_writeQueue: no packet waits for room, the oldest ones give way; when all of
\* them had to, the ring starts again at its first byte.
WriteQueue(id, size, type) ==
    \/ /\ size >= QbSize
       /\ UNCHANGED ring
    \/ /\ size < QbSize /\ FitsRight(size)
       /\ Store(id, size, type, 0, readPos, writePos)
    \/ /\ size < QbSize /\ ~FitsRight(size)
       /\ \E n \in 0..qbCount :
            /\ FitsLeft(n, size)
            /\ \A k \in 0..n - 1 : ~FitsLeft(k, size)
            /\ Store(id, size, type, n, ReadPosAfter[n], Left)
    \/ /\ size < QbSize /\ ~FitsRight(size)
       /\ \A k \in 0..qbCount : ~FitsLeft(k, size)
       /\ Store(id, size, type, qbCount, 0, 0)

\* sound_readQueue, with a packet there.
ReadQueue ==
    /\ qbCount > 0
    /\ readPos' = ReadPosAfter[1]
    /\ infoRead' = Stepped(infoRead)
    /\ qbCount' = qbCount - 1
    /\ UNCHANGED <<buf, info, writePos, infoWrite>>

\* sound_clearQueue: the count and the places in the ring of lengths stay, so the
\* packets become empty ones that are still to be read.
ClearQueue ==
    /\ buf' = [i \in 0..QbSize - 1 |-> Zero]
    /\ info' = [i \in 0..InfoCap - 1 |-> NoInfo]
    /\ readPos' = 0 /\ writePos' = 0
    /\ UNCHANGED <<qbCount, infoRead, infoWrite>>

----------------------------------------------------------------------------
\* Neither position ever passes the end of the buffer, so nothing is copied from or
\* to beyond it: not even when the ring of lengths has lapped itself.
RingTypeOK ==
    /\ buf \in [0..QbSize - 1 -> Nat \X Nat]
    /\ info \in [0..InfoCap - 1 -> [len : 0..QbSize - 1, type : Types]]
    /\ qbCount \in Nat
    /\ readPos \in 0..QbSize /\ writePos \in 0..QbSize
    /\ infoRead \in 0..InfoCap /\ infoWrite \in 0..InfoCap
============================================================================
