--------------------------- MODULE MCRudpSender ---------------------------
\* The sending end with two threads and two packets.
EXTENDS RudpSender, TLC

MCPktIds == {1, 2}
MCSubCount == (1 :> 2) @@ (2 :> 1)
============================================================================
