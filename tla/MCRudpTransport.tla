-------------------------- MODULE MCRudpTransport --------------------------
\* One sending thread, two packets, an arbitrary network.
EXTENDS RudpTransport, TLC

\* Packet 0 is the one id receive_data_new never recognises, and too long for
\* cbdata when it comes whole; packet 1 fits to the byte.
MCPktIds == {0, 1}
MCSubCount == (0 :> 2) @@ (1 :> 2)
MCLastLen == (0 :> 1320) @@ (1 :> 728)
============================================================================
