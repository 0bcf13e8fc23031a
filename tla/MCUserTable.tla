---- MODULE MCUserTable ----
(***************************************************************************)
(* Instance for TLC: two connections to the web pages, two houses, so that *)
(* a house is given up and taken by another, and enough changes and power  *)
(* failures for a store that is cut off, a reset and a change after it.    *)
(***************************************************************************)
EXTENDS UserTable, TLC

Symmetry == Permutations(Webs)
============================
