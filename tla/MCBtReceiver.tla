---------------------------- MODULE MCBtReceiver ----------------------------
\* A buffer that a few chunks fill.
EXTENDS BtReceiver
============================================================================
