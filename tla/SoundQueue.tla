---------------------------- MODULE SoundQueue -----------------------------
(***************************************************************************)
(* The users of the sound ring: threads that queue a prompt, chunk by      *)
(* chunk under one lock (playWavFile), the callbacks of a two-way talk     *)
(* (TwoWayTalkOnRecv, OnHungUp), and the thread that plays.                *)
(*                                                                         *)
(* A chunk that is refused because a talk is on unlocks the mutex, though  *)
(* the caller goes on as if it held it and unlocks once more at the end.   *)
(* The mutex is an ordinary one: unlocking frees it, whoever holds it.     *)
(***************************************************************************)
EXTENDS SoundRing, FiniteSets

CONSTANTS
    Prompts,    \* the threads in playWavFile
    ChunkSize,  \* pcm16BitLength
    TalkSizes,  \* the lengths of packets of a talk
    MaxPackets  \* bound: the packets written

Talk == "talk"
Player == "player"

ASSUME UsersAssumption ==
    /\ Talk \notin Prompts /\ Player \notin Prompts
    /\ ChunkSize \in Nat \ {0}
    /\ TalkSizes \in SUBSET Nat
    /\ MaxPackets \in Nat

VARIABLES
    held,       \* gs_ptCtrl.lock
    priority,   \* gs_curPriority
    at,         \* where each thread is
    written,    \* history: the packets written
    out,        \* history: the packet played last that was not empty
    refused,    \* history: a prompt was refused for a talk
    spoilt      \* history: two threads were at the ring at once, or too many packets in it

users == <<held, priority, at, written, out, refused, spoilt>>
vars == <<ring, users>>

Threads == Prompts \cup {Talk, Player}

Init ==
    /\ RingInit
    /\ held = FALSE
    /\ priority = "NULL"
    /\ at = [t \in Threads |-> "idle"]
    /\ written = 0 /\ out = <<>> /\ refused = FALSE /\ spoilt = FALSE

\* The threads that are reading or writing the ring or the priority.
AtRing == {t \in Threads : at[t] \in {"check", "put", "read"}}

Go(t, place) == at' = [at EXCEPT ![t] = place]

\* A mistake for comparison: SOUND_writeQueue does not look at what the lock returned.
LockAnyway == held' = TRUE

Lock == ~held /\ held' = TRUE

Unlock == held' = FALSE

\* The ring is entered; by two at a time, it is undefined what they leave.
Enter == spoilt' = (spoilt \/ AtRing # {})

\* Whatever is written, more packets than the ring of lengths has entries spoil it.
Written ==
    /\ written' = written + 1
    /\ spoilt' = (spoilt \/ qbCount' > InfoCap)

\* The end of SOUND_writeQueue2: every priority but the highest is for one packet.
Released == IF priority # "ZERO" THEN "NULL" ELSE priority

----------------------------------------------------------------------------
\* playWavFile: one thread, one file.
OpenFile(p) ==
    /\ at[p] = "idle" /\ written < MaxPackets
    /\ Lock
    /\ Go(p, "file")
    /\ UNCHANGED <<ring, priority, written, out, refused, spoilt>>

\* SOUND_writeQueue2: a chunk is refused while a talk is on, and unlocks.
Refuse(p) ==
    /\ at[p] = "file"
    /\ priority = "ZERO"
    /\ Unlock
    /\ refused' = TRUE
    /\ UNCHANGED <<ring, priority, at, written, out, spoilt>>

Admit(p) ==
    /\ at[p] = "file" /\ written < MaxPackets
    /\ priority # "ZERO"
    /\ priority' = "FIRST"
    /\ Enter
    /\ Go(p, "put")
    /\ UNCHANGED <<ring, held, written, out, refused>>

PutChunk(p) ==
    /\ at[p] = "put"
    /\ WriteQueue(written + 1, ChunkSize, "WAV_FILE")
    /\ Written
    /\ priority' = Released
    /\ Go(p, "file")
    /\ UNCHANGED <<held, out, refused>>

CloseFile(p) ==
    /\ at[p] = "file"
    /\ Unlock
    /\ Go(p, "idle")
    /\ UNCHANGED <<ring, priority, written, out, refused, spoilt>>

----------------------------------------------------------------------------
\* TwoWayTalkOnCalled and OnRecv: SOUND_writeQueue with the highest priority.
Called ==
    /\ at[Talk] = "idle"
    /\ Go(Talk, "talking")
    /\ UNCHANGED <<ring, held, priority, written, out, refused, spoilt>>

Recv ==
    /\ at[Talk] = "talking" /\ written < MaxPackets
    /\ Lock
    /\ Enter
    /\ Go(Talk, "check")
    /\ UNCHANGED <<ring, priority, written, out, refused>>

\* A mistake for comparison: the first packet of a talk leaves what is queued.
TakeOverKeeping ==
    /\ at[Talk] = "check"
    /\ UNCHANGED ring
    /\ priority' = "ZERO"
    /\ Go(Talk, "put")
    /\ UNCHANGED <<held, written, out, refused, spoilt>>

\* The first packet of a talk empties the queue.
TakeOver ==
    /\ at[Talk] = "check"
    /\ IF priority # "ZERO" THEN ClearQueue ELSE UNCHANGED ring
    /\ priority' = "ZERO"
    /\ Go(Talk, "put")
    /\ UNCHANGED <<held, written, out, refused, spoilt>>

PutTalk ==
    /\ at[Talk] = "put"
    /\ \E size \in TalkSizes : WriteQueue(written + 1, size, "P2P_G711A")
    /\ Written
    /\ priority' = Released
    /\ Unlock
    /\ Go(Talk, "talking")
    /\ UNCHANGED <<out, refused>>

\* SOUND_releasePriority: without the lock.
HangUp ==
    /\ at[Talk] = "talking"
    /\ priority' = "NULL"
    /\ Go(Talk, "idle")
    /\ UNCHANGED <<ring, held, written, out, refused, spoilt>>

----------------------------------------------------------------------------
\* sound_playPro.
StartRead ==
    /\ at[Player] = "idle"
    /\ Lock
    /\ Enter
    /\ Go(Player, "read")
    /\ UNCHANGED <<ring, priority, written, out, refused>>

ReadNothing ==
    /\ at[Player] = "read" /\ qbCount = 0
    /\ Unlock
    /\ Go(Player, "idle")
    /\ UNCHANGED <<ring, priority, written, out, refused, spoilt>>

\* A mistake for comparison: a packet that is too long is dropped with the lock held.
PlayHolding ==
    /\ at[Player] = "read" /\ ReadQueue
    /\ out' = IF PacketAt(0) = <<>> \/ InfoAt(0).len > PlayBufSize THEN out ELSE PacketAt(0)
    /\ held' = (InfoAt(0).len > PlayBufSize)
    /\ Go(Player, "idle")
    /\ UNCHANGED <<priority, written, refused, spoilt>>

\* A packet is copied to be played, unless it is longer than the player's buffer.
Play ==
    /\ at[Player] = "read" /\ ReadQueue
    /\ out' = IF PacketAt(0) = <<>> \/ InfoAt(0).len > PlayBufSize THEN out ELSE PacketAt(0)
    /\ Unlock
    /\ Go(Player, "idle")
    /\ UNCHANGED <<priority, written, refused, spoilt>>

----------------------------------------------------------------------------
Prompt(p) == OpenFile(p) \/ Refuse(p) \/ Admit(p) \/ PutChunk(p) \/ CloseFile(p)
TalkEvent == Called \/ Recv \/ TakeOver \/ PutTalk \/ HangUp
Playing == StartRead \/ ReadNothing \/ Play

Next ==
    \/ \E p \in Prompts : Prompt(p)
    \/ TalkEvent
    \/ Playing

Spec == Init /\ [][Next]_vars

\* The player runs, callbacks return, files end and queueing one comes to its chunks'
\* end; a mutex that is free again and again is acquired in the end.
FairSpec ==
    /\ Spec
    /\ SF_vars(StartRead) /\ WF_vars(ReadNothing) /\ WF_vars(Play)
    /\ WF_vars(TakeOver) /\ WF_vars(PutTalk)
    /\ \A p \in Prompts : WF_vars(PutChunk(p)) /\ WF_vars(CloseFile(p))

----------------------------------------------------------------------------
\* The state of the ring and its users: whatever the lengths and the number of the
\* packets, and however often the mutex is freed by a thread that does not hold it,
\* no position leaves the buffer.
TypeOK ==
    /\ RingTypeOK
    /\ held \in BOOLEAN /\ refused \in BOOLEAN /\ spoilt \in BOOLEAN
    /\ priority \in {"ZERO", "FIRST", "NULL"}
    /\ at \in [Threads -> {"idle", "file", "talking", "check", "put", "read"}]
    /\ written \in Nat
    /\ out \in Seq(Nat \X Nat)

\* The lock does what it is for until a prompt is refused for a talk: before that no
\* two threads are ever at the ring together.
OnlyRefusalRaces == Cardinality(AtRing) > 1 => refused

\* From its first packet to its end a talk has the loudspeaker to itself: nothing of a
\* prompt is left in the ring, and nothing of one gets in.
TalkIsAlone ==
    priority = "ZERO" /\ ~spoilt => \A n \in 0..qbCount - 1 : InfoAt(n).type # "WAV_FILE"

\* The packets to be played: the n oldest in the ring without the empty ones that a
\* clearing leaves, and all of them.
Oldest[n \in Nat] ==
    IF n = 0 THEN <<>>
    ELSE IF PacketAt(n - 1) = <<>> THEN Oldest[n - 1]
    ELSE Append(Oldest[n - 1], PacketAt(n - 1))
Queued == Oldest[qbCount]

\* What the PacketQueue shows of it; an unspoilt ring writes packets of these.
ToPlay == IF spoilt THEN <<>> ELSE Queued
PlayedLast == IF spoilt THEN <<>> ELSE out
Sendable == {<<>>} \cup {Packet(id, n) : id \in 1..MaxPackets, n \in 1..QbSize}

\* Although where packets begin is inferred at both ends, across the end of the buffer,
\* droppings, clearings and restarts at the first byte the ring is a PacketQueue.
Service == INSTANCE PacketQueue WITH
    Packets <- Sendable, queue <- ToPlay, out <- PlayedLast

Implements == Service!Spec

\* Nobody is left waiting for the mutex, and what is queued is played or dropped.
SoundEnds == qbCount > 0 ~> qbCount = 0
============================================================================
