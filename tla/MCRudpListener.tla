--------------------------- MODULE MCRudpListener ---------------------------
\* A few datagrams, two clients, and heaps that run full.
EXTENDS RudpListener, TLC

Symmetry ==
    Permutations(Sessions) \cup Permutations(TurnNodes) \cup Permutations(HoleNodes)
        \cup Permutations(Radoms) \cup Permutations(Addresses)
============================================================================
