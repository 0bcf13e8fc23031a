--------------------------- MODULE MCRelayClients ---------------------------
\* A client, two turn servers, two attempts where the code has five or three.
EXTENDS RelayClients
=============================================================================
