--------------------------- MODULE MCRudpOrdered ---------------------------
\* One sending thread on an ordered path.
EXTENDS RudpOrdered, TLC

\* A lossy path; packet 0 is the first one after a boot.
MCPktIds == {0, 1, 2}
MCSubCount == (0 :> 1) @@ (1 :> 2) @@ (2 :> 1)
MCLastLen == (0 :> 700) @@ (1 :> 1320) @@ (2 :> 700)
\* A lossless path, and packets that fit in cbdata.
MCWholePktIds == {1, 2, 3}
MCWholeSubCount == (1 :> 2) @@ (2 :> 2) @@ (3 :> 1)
MCWholeLastLen == (1 :> 728) @@ (2 :> 728) @@ (3 :> 1)
============================================================================
