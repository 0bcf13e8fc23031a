--------------------------- MODULE MCSubPktList ----------------------------
\* One packet of three sub-packets in every order, in a heap of four nodes.
EXTENDS SubPktList, TLC

MCPktIds == {1}
MCSubCount == (1 :> 3)
Symmetry == Permutations(Nodes)
============================================================================
