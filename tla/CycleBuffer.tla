---------------------------- MODULE CycleBuffer ----------------------------
(***************************************************************************)
(* The cycle buffer behind the bluetooth receiver                          *)
(* (src/bluetooth/cycle_buffer.c): a ring of BufLen bytes under a mutex.   *)
(* Both pointers may stand one past the last byte.                         *)
(*                                                                         *)
(* No other operation comes between the lock and the unlock of one, so an  *)
(* operation is a step.  An operation that fails returns without unlocking *)
(* the mutex: every later one waits for ever.                              *)
(***************************************************************************)
EXTENDS Integers, Sequences

CONSTANTS
    Bytes,      \* the values of a byte
    BufLen      \* data_buf_sz

ASSUME BufLenAssumption == BufLen \in Nat

VARIABLES
    buf,        \* the bytes of the ring
    dataStart,  \* data_start - buf
    dataEnd,    \* data_end - buf
    dataLen,    \* data_len
    locked,     \* the mutex is held, by a call that has returned
    out         \* the last operation: which, whether it was done, the bytes it copied

ring == <<buf, dataStart, dataEnd, dataLen>>
vars == <<buf, dataStart, dataEnd, dataLen, locked, out>>

Done(op, data) == [op |-> op, ok |-> TRUE, data |-> data]
Error == [op |-> "any", ok |-> FALSE, data |-> <<>>]

\* CYCLE_BUFFER_new: the bytes are what malloc returned.
Init ==
    /\ buf \in [0..BufLen - 1 -> Bytes]
    /\ dataStart = 0 /\ dataEnd = 0 /\ dataLen = 0
    /\ locked = FALSE
    /\ out = Done("new", <<>>)

\* A pointer at p after n bytes, over the end of the ring if need be.
Passed(p, n) == IF BufLen - p < n THEN n - (BufLen - p) ELSE p + n

\* The n bytes from data_start on: up to the end of the ring, then from its start.
Oldest(n) ==
    [i \in 1..n |->
        IF i <= BufLen - dataStart THEN buf[dataStart + i - 1]
                                   ELSE buf[i - (BufLen - dataStart) - 1]]

\* A mistake for comparison: what is beyond the end of the ring is not copied.
StoredOnce(data) ==
    [i \in 0..BufLen - 1 |->
        IF dataEnd <= i /\ i < dataEnd + Len(data) THEN data[i - dataEnd + 1] ELSE buf[i]]

\* The ring with data copied in at data_end, the rest of it at the start.
Stored(data) ==
    [i \in 0..BufLen - 1 |->
        IF dataEnd <= i /\ i < dataEnd + Len(data) THEN data[i - dataEnd + 1]
        ELSE IF i < Len(data) - (BufLen - dataEnd) THEN data[BufLen - dataEnd + i + 1]
        ELSE buf[i]]

----------------------------------------------------------------------------
\* The error path of all four operations.
Refused ==
    /\ locked' = TRUE
    /\ out' = Error
    /\ UNCHANGED ring

\* A mistake for comparison: one byte is always left free.
WriteKeepingGap(data) ==
    /\ ~locked
    /\ \/ /\ BufLen <= dataLen + Len(data)
          /\ Refused
       \/ /\ BufLen > dataLen + Len(data)
          /\ buf' = Stored(data)
          /\ dataEnd' = Passed(dataEnd, Len(data))
          /\ dataLen' = dataLen + Len(data)
          /\ out' = Done("write", data)
          /\ UNCHANGED <<dataStart, locked>>

Write(data) ==
    /\ ~locked
    /\ \/ /\ BufLen < dataLen + Len(data)
          /\ Refused
       \/ /\ BufLen >= dataLen + Len(data)
          /\ buf' = Stored(data)
          /\ dataEnd' = Passed(dataEnd, Len(data))
          /\ dataLen' = dataLen + Len(data)
          /\ out' = Done("write", data)
          /\ UNCHANGED <<dataStart, locked>>

Peek(n) ==
    /\ ~locked
    /\ \/ dataLen < n /\ Refused
       \/ /\ dataLen >= n
          /\ out' = Done("peek", Oldest(n))
          /\ UNCHANGED <<ring, locked>>

Read(n) ==
    /\ ~locked
    /\ \/ dataLen < n /\ Refused
       \/ /\ dataLen >= n
          /\ out' = Done("read", Oldest(n))
          /\ dataStart' = Passed(dataStart, n)
          /\ dataLen' = dataLen - n
          /\ UNCHANGED <<buf, dataEnd, locked>>

Skip(n) ==
    /\ ~locked
    /\ \/ dataLen < n /\ Refused
       \/ /\ dataLen >= n
          /\ dataStart' = Passed(dataStart, n)
          /\ dataLen' = dataLen - n
          /\ out' = Done("skip", <<>>)
          /\ UNCHANGED <<buf, dataEnd, locked>>

\* A mistake for comparison: the lock is not taken.
ClearUnlocked ==
    /\ dataStart' = 0 /\ dataEnd' = 0 /\ dataLen' = 0
    /\ out' = Done("clear", <<>>)
    /\ UNCHANGED <<buf, locked>>

Clear ==
    /\ ~locked
    /\ dataStart' = 0 /\ dataEnd' = 0 /\ dataLen' = 0
    /\ out' = Done("clear", <<>>)
    /\ UNCHANGED <<buf, locked>>

----------------------------------------------------------------------------
\* Any caller: any data and any length, those that cannot be served as well.
CONSTANT MaxLen     \* bound: the longest request

ASSUME MaxLenAssumption == MaxLen \in Nat

Requests == UNION {[1..n -> Bytes] : n \in 0..MaxLen}

Next ==
    \/ \E data \in Requests : Write(data)
    \/ \E n \in 0..MaxLen : Peek(n) \/ Read(n) \/ Skip(n)
    \/ Clear

Spec == Init /\ [][Next]_vars

----------------------------------------------------------------------------
\* The types, and how far each pointer can be.
TypeOK ==
    /\ buf \in [0..BufLen - 1 -> Bytes]
    /\ dataStart \in 0..BufLen /\ dataEnd \in 0..BufLen /\ dataLen \in 0..BufLen
    /\ locked \in BOOLEAN
    /\ out.ok \in BOOLEAN /\ out.data \in Seq(Bytes)

\* The two pointers and the length, kept apart by the code, never disagree: data_end
\* is data_len bytes on from data_start, around the end of the ring or not.
PointersAgree ==
    \/ dataEnd = dataStart + dataLen
    \/ dataEnd = dataStart + dataLen - BufLen

\* The ring is a queue of at most BufLen bytes: wrapped or not, full or empty, with
\* a pointer on either end, bytes come out as they went in.
Queue == INSTANCE ByteQueue WITH queue <- Oldest(dataLen)

Implements == Queue!Spec
============================================================================
