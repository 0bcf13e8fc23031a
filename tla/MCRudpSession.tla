--------------------------- MODULE MCRudpSession ---------------------------
\* One session, and as many stream threads at a time as the cfg gives.
EXTENDS RudpSession
============================================================================
