----------------------------- MODULE SubPktList ------------------------------
(***************************************************************************)
(* The sub-packet list of one reassembly, s->recv->subpkt, as the linked   *)
(* list it is: sub_pkt_add's scan and its three ways of linking the new    *)
(* node, and the walk of rdpk_ack_all that takes the list and frees it     *)
(* (src/rudpa/rudp.c).  One thread, the listener, runs all of it.          *)
(***************************************************************************)
EXTENDS RudpPackets, Lists, Sequences

CONSTANT
    Nodes       \* bound: the nodes the heap can hold at a time

ASSUME NodesAssumption == IsFiniteSet(Nodes) /\ NULL \notin Nodes

VARIABLES
    subpkt,     \* recv->subpkt, the head
    next,       \* sp->next of every node
    subid,      \* sp->subid of every node
    live,       \* the nodes allocated and not freed
    recved,     \* recv->recved
    at,         \* where the listener is: outside, in the scan, in the walk
    new,        \* pkt->sub_id
    bp, sp,     \* sub_pkt_add's two pointers; sp is also the walk's sn
    out,        \* the sub ids the latest walk has copied out
    overtook    \* history: a node was linked before another

vars == <<subpkt, next, subid, live, recved, at, new, bp, sp, out, overtook>>

Init ==
    /\ subpkt = NULL
    /\ next = [n \in Nodes |-> NULL]
    /\ subid = [n \in Nodes |-> 0]
    /\ live = {}
    /\ recved = 0
    /\ at = "out"
    /\ new = 0
    /\ bp = NULL /\ sp = NULL
    /\ out = <<>>
    /\ overtook = FALSE

----------------------------------------------------------------------------
\* sub_pkt_new: a node of the heap, its next pointer still to be set.
SubPktNew(n, i) ==
    /\ n \notin live
    /\ live' = live \cup {n}
    /\ subid' = [subid EXCEPT ![n] = i]

\* sub_pkt_add on an empty list.
AddFirst(i) ==
    /\ at = "out" /\ subpkt = NULL
    /\ new' = i
    /\ \E n \in Nodes :
         /\ SubPktNew(n, i)
         /\ next' = [next EXCEPT ![n] = NULL]
         /\ subpkt' = n
    /\ recved' = recved + 1
    /\ out' = <<>>
    /\ UNCHANGED <<at, bp, sp, overtook>>

\* sub_pkt_add on a list: the scan starts at the head.
AddMore(i) ==
    /\ at = "out" /\ subpkt # NULL
    /\ new' = i
    /\ at' = "scan"
    /\ bp' = NULL /\ sp' = subpkt
    /\ UNCHANGED <<subpkt, next, subid, live, recved, out, overtook>>

Duplicate ==
    /\ at = "scan" /\ sp # NULL
    /\ new = subid[sp]
    /\ at' = "out"
    /\ UNCHANGED <<subpkt, next, subid, live, recved, new, bp, sp, out, overtook>>

\* A mistake for comparison: the scan does not stop at a larger sub id.
AdvancePastLarger ==
    /\ at = "scan" /\ sp # NULL
    /\ new # subid[sp]
    /\ bp' = sp /\ sp' = next[sp]
    /\ UNCHANGED <<subpkt, next, subid, live, recved, at, new, out, overtook>>

Advance ==
    /\ at = "scan" /\ sp # NULL
    /\ new > subid[sp]
    /\ bp' = sp /\ sp' = next[sp]
    /\ UNCHANGED <<subpkt, next, subid, live, recved, at, new, out, overtook>>

\* Mistakes for comparison: a node put last that points back, and one that the
\* node before it is not made to point to.
NextWithCycle(n) ==
    IF bp = NULL THEN [next EXCEPT ![n] = NULL]
    ELSE [next EXCEPT ![n] = bp, ![bp] = n]
NextUnlinked(n) ==
    IF bp = NULL \/ sp # NULL THEN [next EXCEPT ![n] = NULL]
    ELSE [next EXCEPT ![n] = sp]

\* Linking: before the first node, after the last, or between two.  Only the
\* second of the three sets the new node's next pointer.
NextAfterLink(n) ==
    IF bp = NULL THEN [next EXCEPT ![n] = NULL]
    ELSE IF sp = NULL THEN [next EXCEPT ![n] = sp, ![bp] = n]
    ELSE [next EXCEPT ![n] = NULL, ![bp] = n]

Link ==
    /\ at = "scan"
    /\ sp # NULL => new < subid[sp]
    /\ \E n \in Nodes :
         /\ SubPktNew(n, new)
         /\ next' = NextAfterLink(n)
         /\ subpkt' = IF bp = NULL THEN n ELSE subpkt
    /\ recved' = recved + 1
    /\ overtook' = (overtook \/ sp # NULL)
    /\ at' = "out"
    /\ UNCHANGED <<new, bp, sp, out>>

\* rdpk_ack_all: the walk that copies each node out and frees it.
TakeAll ==
    /\ at = "out" /\ subpkt # NULL
    /\ at' = "walk"
    /\ sp' = subpkt
    /\ out' = <<>>
    /\ UNCHANGED <<subpkt, next, subid, live, recved, new, bp, overtook>>

\* A mistake for comparison: the walk copies the data and does not free the node.
WalkNoFree ==
    /\ at = "walk" /\ sp # NULL
    /\ out' = Append(out, subid[sp])
    /\ sp' = next[sp]
    /\ UNCHANGED <<subpkt, next, subid, live, recved, at, new, bp, overtook>>

Walk ==
    /\ at = "walk" /\ sp # NULL
    /\ out' = Append(out, subid[sp])
    /\ live' = live \ {sp}
    /\ sp' = next[sp]
    /\ UNCHANGED <<subpkt, next, subid, recved, at, new, bp, overtook>>

WalkDone ==
    /\ at = "walk" /\ sp = NULL
    /\ subpkt' = NULL
    /\ recved' = 0
    /\ at' = "out"
    /\ UNCHANGED <<next, subid, live, new, bp, sp, out, overtook>>

Next ==
    \/ \E p \in PktIds : \E i \in Subs(p) : AddFirst(i) \/ AddMore(i)
    \/ Duplicate
    \/ Advance
    \/ Link
    \/ TakeAll
    \/ Walk
    \/ WalkDone

Spec == Init /\ [][Next]_vars

----------------------------------------------------------------------------
\* The list while it is being built, and what the walk has yet to visit.
List == Chain(next, subpkt)
Ahead == IF at = "walk" THEN Chain(next, sp) ELSE {}

\* Shapes: the list ends, and nothing in it has been freed.
TypeOK ==
    /\ subpkt \in Nodes \cup {NULL}
    /\ next \in [Nodes -> Nodes \cup {NULL}]
    /\ live \subseteq Nodes
    /\ at \in {"out", "scan", "walk"}
    /\ bp \in Nodes \cup {NULL} /\ sp \in Nodes \cup {NULL}
    /\ \A n \in List : n \notin Chain(next, next[n])
    /\ (IF at = "walk" THEN Ahead ELSE List) \subseteq live

\* The payload is assembled in ascending order of sub ids, none twice, whatever
\* order they came in: what has been copied and what the walk has yet to visit.
CopiedAscending ==
    /\ \A k, l \in DOMAIN out : k < l => out[k] < out[l]
    /\ \A k \in DOMAIN out, n \in Ahead : out[k] < subid[n]

\* Memory: as long as no node was ever linked before another, every allocated
\* node is in the list or still ahead of the walk, so that it will be freed.
\* The nodes an insertion before another cuts off are not, and stay allocated.
NoLeakInOrder ==
    ~overtook => live = IF at = "walk" THEN Ahead ELSE List

\* The list implements the set that RudpReassembly keeps in its place.
AsSet == INSTANCE SubPktSet WITH
            stored <- IF at = "walk" THEN {} ELSE {subid[n] : n \in List},
            recved <- IF at = "walk" THEN 0 ELSE recved
ImplementsSet == AsSet!Spec
============================================================================
