--------------------------- MODULE MCCycleBuffer ---------------------------
\* A ring of a few bytes, and requests one byte longer than it can serve.
EXTENDS CycleBuffer
============================================================================
