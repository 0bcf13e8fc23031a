----------------------------- MODULE SubPktSet -----------------------------
(***************************************************************************)
(* What module RudpReassembly assumes of the sub-packet list: a set of sub *)
(* ids that Insert changes, and a count of the insertions.                 *)
(***************************************************************************)
EXTENDS RudpPackets

VARIABLES
    stored,     \* the sub ids in the list
    recved      \* the insertions since it was opened

Add ==
    \E p \in PktIds : \E i \in Subs(p) :
        /\ i \notin stored
        /\ stored' = Insert(stored, i)
        /\ recved' = recved + 1

Take == stored # {} /\ stored' = {} /\ recved' = 0

Spec == stored = {} /\ recved = 0 /\ [][Add \/ Take]_<<stored, recved>>
============================================================================
