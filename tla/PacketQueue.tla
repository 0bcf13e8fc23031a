---------------------------- MODULE PacketQueue ----------------------------
(***************************************************************************)
(* What a queue of packets that never makes its writers wait promises: a   *)
(* packet comes out whole and in its turn, or is dropped from the front to *)
(* make room for a newer one.  Once spoilt it promises nothing.            *)
(***************************************************************************)
EXTENDS Naturals, Sequences

CONSTANT Packets    \* the packets, as sequences of bytes

VARIABLES
    queue,      \* the packets to be taken, oldest first
    out,        \* the packet taken last
    spoilt      \* the promise has been given up

Init == queue = <<>> /\ out = <<>> /\ spoilt = FALSE

\* An empty packet adds nothing, but may drop packets like any other.
Put ==
    /\ \E k \in 0..Len(queue), p \in Packets :
            queue' = SubSeq(queue, k + 1, Len(queue)) \o (IF p = <<>> THEN <<>> ELSE <<p>>)
    /\ UNCHANGED <<out, spoilt>>

Take ==
    /\ queue # <<>>
    /\ out' = Head(queue)
    /\ queue' = Tail(queue)
    /\ UNCHANGED spoilt

Clear ==
    /\ queue' = <<>>
    /\ UNCHANGED <<out, spoilt>>

Spoil == spoilt' = TRUE /\ queue' = <<>> /\ out' = <<>>

Next == ~spoilt /\ (Put \/ Take \/ Clear \/ Spoil)

Spec == Init /\ [][Next]_<<queue, out, spoilt>>
============================================================================
