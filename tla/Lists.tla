------------------------------- MODULE Lists -------------------------------
(***************************************************************************)
(* Singly linked lists as the rudp library builds them (src/rudpa): nodes  *)
(* and a function that gives the next one.                                 *)
(***************************************************************************)
EXTENDS Naturals, FiniteSets

CONSTANT NULL

\* A set of nodes that a walk along next does not leave, and that it starts in.
Covers(S, next, first) ==
    /\ first \in S \cup {NULL}
    /\ \A n \in S : next[n] \in S \cup {NULL}

\* The nodes of the chain that starts with node first: those that no such set
\* can do without.
Chain(next, first) ==
    {n \in DOMAIN next : \A S \in SUBSET DOMAIN next : Covers(S, next, first) => n \in S}
============================================================================
