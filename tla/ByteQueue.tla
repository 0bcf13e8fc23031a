----------------------------- MODULE ByteQueue -----------------------------
(***************************************************************************)
(* What a bounded buffer of bytes promises: bytes come out in the order    *)
(* they went in, none twice and none left out, and an operation that       *)
(* cannot be done in full reports an error and changes nothing.            *)
(***************************************************************************)
EXTENDS Naturals, Sequences

CONSTANTS
    Bytes,      \* the values of a byte
    BufLen      \* the capacity

VARIABLES
    queue,      \* the bytes in the buffer, oldest first
    out         \* the last operation: which, whether it was done, the bytes it copied

Done(op, data) == [op |-> op, ok |-> TRUE, data |-> data]
Error == [op |-> "any", ok |-> FALSE, data |-> <<>>]

Init == queue = <<>> /\ out = Done("new", <<>>)

Put ==
    \E n \in 0..BufLen : \E data \in [1..n -> Bytes] :
        /\ queue' = queue \o data
        /\ Len(queue') <= BufLen
        /\ out' = Done("write", data)

Look ==
    \E n \in 0..Len(queue) :
        /\ out' = Done("peek", SubSeq(queue, 1, n))
        /\ queue' = queue

Take ==
    \E n \in 0..Len(queue) :
        /\ out' = Done("read", SubSeq(queue, 1, n))
        /\ queue' = SubSeq(queue, n + 1, Len(queue))

Drop ==
    \E n \in 0..Len(queue) :
        /\ queue' = SubSeq(queue, n + 1, Len(queue))
        /\ out' = Done("skip", <<>>)

Refuse == out' = Error /\ UNCHANGED queue

Empty == queue' = <<>> /\ out' = Done("clear", <<>>)

Next == Put \/ Look \/ Take \/ Drop \/ Refuse \/ Empty

Spec == Init /\ [][Next]_<<queue, out>>
============================================================================
