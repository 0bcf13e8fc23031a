--------------------------- MODULE MCSoundQueue ---------------------------
\* One prompt and one talk at a ring of six bytes; a packet of a talk fills half of
\* it, as much as is allowed, or one byte too much.
EXTENDS SoundQueue

MCTalkSizes == {3, 5, 6}
===========================================================================
