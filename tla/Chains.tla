------------------------------- MODULE Chains -------------------------------
(***************************************************************************)
(* The singly linked lists that the threads of the camera's rudp library   *)
(* share (src/rudpa/session.c, turn.c, traversal.c): nodes, a function     *)
(* that gives the next one, and a heap of those that are allocated.        *)
(***************************************************************************)
EXTENDS Lists

CONSTANTS
    Head,       \* the node a queue of requests starts with, which holds none
    Radoms      \* the random numbers by which clients are told apart

ASSUME HeadAssumption == Head # NULL
=============================================================================
