-------------------------- MODULE SoundQueueProofs --------------------------
(***************************************************************************)
(* Proofs about the users of the sound ring, for any number of threads     *)
(* that queue prompts, any sizes of ring and packets: the lock keeps them  *)
(* apart until a prompt is refused, and a talk has the loudspeaker to      *)
(* itself; where packets begin in the ring plays no part in either. That   *)
(* no packet leaves the buffer rests on where packets begin, and that the  *)
(* ring is a PacketQueue on where each of them lies.                       *)
(***************************************************************************)
EXTENDS SoundQueue, FiniteSetTheorems, SequenceTheorems, WellFoundedInduction, TLAPS

InfoSlots == 0 .. InfoCap - 1

\* The part of the types that the two invariants rest on.
ShapeOK ==
    /\ info \in [InfoSlots -> [len : Nat, type : Types]]
    /\ qbCount \in Nat /\ infoRead \in Nat /\ infoWrite \in Nat
    /\ at \in [Threads -> {"idle", "file", "talking", "check", "put", "read"}]
    /\ written \in Nat

\* Where the code believes that the thread has the mutex.
Holding(t) == at[t] \in {"file", "check", "put", "read"}

\* Until a prompt is refused it has: the mutex is held if any thread believes
\* so, and no two do.
Exclusive ==
    ~refused => \A t, u \in Threads : Holding(t) => held /\ (Holding(u) => t = u)

\* An unspoilt ring is used by one thread.
OneAtRing == ~spoilt => \A t, u \in AtRing : t = u

\* A prompt on its way into an unspoilt ring has not been overtaken by a talk.
PromptFirst == ~spoilt => \A p \in Prompts : at[p] = "put" => priority # "ZERO"

\* During a talk no entry of the ring of lengths is of a prompt: the first
\* packet wiped all of them, the used and the unused.
Silent == ~spoilt => (priority = "ZERO" => \A k \in InfoSlots : info[k].type # "WAV_FILE")

SoundInv == ShapeOK /\ Exclusive /\ OneAtRing /\ PromptFirst /\ Silent

----------------------------------------------------------------------------
\* Stepping on in the ring of lengths, and its entries.
LEMMA RingFacts ==
    ASSUME NEW n \in Nat
    PROVE  /\ n % InfoCap \in InfoSlots
           /\ Stepped(n) \in Nat
BY RingAssumption DEF InfoSlots, Stepped

\* Storing a packet.
LEMMA StoreShape ==
    ASSUME ShapeOK, NEW id, NEW size \in Nat, NEW type \in Types, NEW n \in 0 .. qbCount,
           NEW r, NEW w, Store(id, size, type, n, r, w)
    PROVE  /\ info' \in [InfoSlots -> [len : Nat, type : Types]]
           /\ qbCount' \in Nat /\ infoRead' \in Nat /\ infoWrite' \in Nat
           /\ \A k \in InfoSlots : info'[k] = info[k] \/ info'[k].type = type
<1>1. infoWrite % InfoCap \in InfoSlots /\ infoWrite' \in Nat
  BY RingFacts DEF Store, ShapeOK
<1>2. info' \in [InfoSlots -> [len : Nat, type : Types]]
  BY <1>1 DEF Store, ShapeOK
<1>3. \A k \in InfoSlots : info'[k] = info[k] \/ info'[k].type = type
  BY <1>1 DEF Store, ShapeOK
<1>4. qbCount' \in Nat
  BY DEF Store, ShapeOK
<1>5. infoRead' \in Nat
  <2>1. CASE n = 0
    BY <2>1 DEF Store, ShapeOK
  <2>2. CASE n # 0
    <3>1. infoRead + n - 1 \in Nat
      BY <2>2 DEF ShapeOK
    <3> QED
      BY <2>2, <3>1, RingFacts DEF Store
  <2> QED
    BY <2>1, <2>2
<1> QED
  BY <1>1, <1>2, <1>3, <1>4, <1>5

\* Writing a packet, whichever of the four cases it is.
LEMMA WriteShape ==
    ASSUME ShapeOK, NEW id, NEW size \in Nat, NEW type \in Types, WriteQueue(id, size, type)
    PROVE  /\ info' \in [InfoSlots -> [len : Nat, type : Types]]
           /\ qbCount' \in Nat /\ infoRead' \in Nat /\ infoWrite' \in Nat
           /\ \A k \in InfoSlots : info'[k] = info[k] \/ info'[k].type = type
<1>1. CASE UNCHANGED ring
  BY <1>1 DEF ring, ShapeOK
<1>2. CASE (\E n \in 0 .. qbCount : \E r, w : Store(id, size, type, n, r, w))
  BY <1>2, StoreShape
<1>3. 0 \in 0 .. qbCount /\ qbCount \in 0 .. qbCount
  BY DEF ShapeOK
<1> QED
  BY <1>1, <1>2, <1>3 DEF WriteQueue

----------------------------------------------------------------------------
LEMMA SoundInitInv == Init => SoundInv
<1> SUFFICES ASSUME Init PROVE SoundInv
  OBVIOUS
<1>1. ShapeOK
  BY DEF Init, RingInit, ShapeOK, NoInfo, Types, InfoSlots
<1>2. Exclusive /\ OneAtRing /\ PromptFirst /\ Silent
  BY DEF Init, Exclusive, Holding, OneAtRing, AtRing, PromptFirst, Silent, Threads
<1> QED
  BY <1>1, <1>2 DEF SoundInv

\* No thread is two of the users.
LEMMA Apart ==
    /\ Talk \in Threads /\ Player \in Threads /\ Prompts \subseteq Threads
    /\ Talk \notin Prompts /\ Player \notin Prompts /\ Talk # Player
BY UsersAssumption DEF Threads, Talk, Player

\* Every step keeps the shape of the state.
LEMMA ShapeStep == SoundInv /\ [Next]_vars => ShapeOK'
<1> SUFFICES ASSUME SoundInv, [Next]_vars PROVE ShapeOK'
  OBVIOUS
<1> USE DEF SoundInv
<1>1. ASSUME NEW p \in Prompts, PutChunk(p) PROVE ShapeOK'
  <2>1. ChunkSize \in Nat /\ "WAV_FILE" \in Types
    BY UsersAssumption DEF Types
  <2>2. WriteQueue(written + 1, ChunkSize, "WAV_FILE")
    BY <1>1 DEF PutChunk
  <2>3. /\ info' \in [InfoSlots -> [len : Nat, type : Types]]
        /\ qbCount' \in Nat /\ infoRead' \in Nat /\ infoWrite' \in Nat
    BY <2>1, <2>2, WriteShape
  <2>4. at' = [at EXCEPT ![p] = "file"] /\ written' = written + 1
    BY <1>1 DEF PutChunk, Go, Written
  <2>5. written' \in Nat
    BY <2>4 DEF ShapeOK
  <2>6. at' \in [Threads -> {"idle", "file", "talking", "check", "put", "read"}]
    BY <2>4 DEF ShapeOK
  <2> QED
    BY <2>3, <2>5, <2>6 DEF ShapeOK
<1>2. CASE PutTalk
  <2>1. PICK size \in TalkSizes : WriteQueue(written + 1, size, "P2P_G711A")
    BY <1>2 DEF PutTalk
  <2>2. size \in Nat /\ "P2P_G711A" \in Types
    BY UsersAssumption DEF Types
  <2>3. /\ info' \in [InfoSlots -> [len : Nat, type : Types]]
        /\ qbCount' \in Nat /\ infoRead' \in Nat /\ infoWrite' \in Nat
    BY <2>1, <2>2, WriteShape
  <2>4. at' = [at EXCEPT ![Talk] = "talking"] /\ written' = written + 1
    BY <1>2 DEF PutTalk, Go, Written
  <2>5. written' \in Nat
    BY <2>4 DEF ShapeOK
  <2>6. at' \in [Threads -> {"idle", "file", "talking", "check", "put", "read"}]
    BY <2>4 DEF ShapeOK
  <2> QED
    BY <2>3, <2>5, <2>6 DEF ShapeOK
<1>3. CASE TakeOver
  <2>1. info' \in [InfoSlots -> [len : Nat, type : Types]]
    BY <1>3 DEF TakeOver, ClearQueue, ring, ShapeOK, NoInfo, Types, InfoSlots
  <2> QED
    BY <1>3, <2>1 DEF TakeOver, ClearQueue, ring, ShapeOK, Go
<1>4. CASE Play
  <2>1. Stepped(infoRead) \in Nat
    BY RingFacts DEF ShapeOK
  <2>2. qbCount' \in Nat
    BY <1>4 DEF Play, ReadQueue, ShapeOK
  <2> QED
    BY <1>4, <2>1, <2>2 DEF Play, ReadQueue, ShapeOK, Go
<1>5. ASSUME NEW p \in Prompts, OpenFile(p) \/ Refuse(p) \/ Admit(p) \/ CloseFile(p)
      PROVE  ShapeOK'
  BY <1>5 DEF OpenFile, Refuse, Admit, CloseFile, ring, ShapeOK, Go
<1>6. CASE Called \/ Recv \/ HangUp \/ StartRead \/ ReadNothing \/ UNCHANGED vars
  BY <1>6 DEF Called, Recv, HangUp, StartRead, ReadNothing, vars, users, ring, ShapeOK, Go
<1> QED
  BY <1>1, <1>2, <1>3, <1>4, <1>5, <1>6 DEF Next, Prompt, TalkEvent, Playing

\* The mutex is taken by one at a time and freed by its holder, except by the
\* step that refuses a prompt.
LEMMA ExclusiveStep == SoundInv /\ [Next]_vars => Exclusive'
<1> SUFFICES ASSUME SoundInv, [Next]_vars, ~refused' PROVE Exclusive'
  BY DEF Exclusive
<1> USE Apart DEF SoundInv, ShapeOK
<1>1. ~refused
  BY DEF Next, Prompt, TalkEvent, Playing, OpenFile, Refuse, Admit, PutChunk, CloseFile, Called,
         Recv, TakeOver, PutTalk, HangUp, StartRead, ReadNothing, Play, vars, users
<1>2. \A t, u \in Threads : Holding(t) => held /\ (Holding(u) => t = u)
  BY <1>1 DEF Exclusive
<1>3. CASE \E t \in Threads : ~held /\ held' /\ \E x : x \in {"file", "check", "read"} /\ Go(t, x)
  BY <1>2, <1>3 DEF Exclusive, Holding, Go
<1>4. CASE \E t \in Threads : Holding(t) /\ ~held' /\ \E x : x \in {"idle", "talking"} /\ Go(t, x)
  BY <1>2, <1>4 DEF Exclusive, Holding, Go
<1>5. CASE held' = held /\ \E t \in Threads : Holding(t) /\ \E x : x \in {"file", "put"} /\ Go(t, x)
  BY <1>2, <1>5 DEF Exclusive, Holding, Go
<1>6. CASE held' = held /\ \E t \in Threads : ~Holding(t) /\ \E x : x \in {"idle", "talking"} /\ Go(t, x)
  BY <1>2, <1>6 DEF Exclusive, Holding, Go
<1>7. CASE UNCHANGED <<held, at>>
  BY <1>2, <1>7 DEF Exclusive, Holding
<1>8. ASSUME NEW p \in Prompts, Prompt(p) PROVE Exclusive'
  <2>1. ~Refuse(p)
    BY DEF Refuse
  <2>2. CASE OpenFile(p)
    BY <2>2, <1>3 DEF OpenFile, Lock
  <2>3. CASE Admit(p) \/ PutChunk(p)
    BY <2>3, <1>5 DEF Admit, PutChunk, Holding
  <2>4. CASE CloseFile(p)
    BY <2>4, <1>4 DEF CloseFile, Unlock, Holding
  <2> QED
    BY <1>8, <2>1, <2>2, <2>3, <2>4 DEF Prompt
<1>9. CASE TalkEvent
  <2>1. CASE Called \/ HangUp
    BY <2>1, <1>6 DEF Called, HangUp, Holding
  <2>2. CASE Recv
    BY <2>2, <1>3 DEF Recv, Lock
  <2>3. CASE TakeOver
    BY <2>3, <1>5 DEF TakeOver, Holding
  <2>4. CASE PutTalk
    BY <2>4, <1>4 DEF PutTalk, Unlock, Holding
  <2> QED
    BY <1>9, <2>1, <2>2, <2>3, <2>4 DEF TalkEvent
<1>10. CASE Playing
  <2>1. CASE StartRead
    BY <2>1, <1>3 DEF StartRead, Lock
  <2>2. CASE ReadNothing \/ Play
    BY <2>2, <1>4 DEF ReadNothing, Play, Unlock, Holding
  <2> QED
    BY <1>10, <2>1, <2>2 DEF Playing
<1> QED
  BY <1>7, <1>8, <1>9, <1>10 DEF Next, vars, users

----------------------------------------------------------------------------
\* Entering the ring spoils it unless nobody is there; nothing mends it.
LEMMA RingStep == SoundInv /\ [Next]_vars => OneAtRing'
<1> SUFFICES ASSUME SoundInv, [Next]_vars, ~spoilt' PROVE OneAtRing'
  BY DEF OneAtRing
<1> USE Apart DEF SoundInv, ShapeOK
<1>1. CASE ~spoilt /\ AtRing = {} /\ \E t \in Threads, x \in {"check", "put", "read"} : Go(t, x)
  BY <1>1 DEF OneAtRing, AtRing, Go
<1>2. CASE ~spoilt /\ \E t \in Threads, x \in {"idle", "file", "talking"} : Go(t, x)
  BY <1>2 DEF OneAtRing, AtRing, Go
<1>3. CASE ~spoilt /\ \E t \in AtRing : Go(t, "put")
  BY <1>3 DEF OneAtRing, AtRing, Go
<1>4. CASE ~spoilt /\ at' = at
  BY <1>4 DEF OneAtRing, AtRing
<1>5. ASSUME NEW p \in Prompts, Prompt(p) PROVE OneAtRing'
  <2>1. CASE OpenFile(p) \/ CloseFile(p)
    BY <2>1, <1>2 DEF OpenFile, CloseFile
  <2>2. CASE Refuse(p)
    BY <2>2, <1>4 DEF Refuse
  <2>3. CASE Admit(p)
    BY <2>3, <1>1 DEF Admit, Enter
  <2>4. CASE PutChunk(p)
    BY <2>4, <1>2 DEF PutChunk, Written
  <2> QED
    BY <1>5, <2>1, <2>2, <2>3, <2>4 DEF Prompt
<1>6. CASE TalkEvent
  <2>1. CASE Called \/ HangUp
    BY <2>1, <1>2 DEF Called, HangUp
  <2>2. CASE Recv
    BY <2>2, <1>1 DEF Recv, Enter
  <2>3. CASE TakeOver
    BY <2>3, <1>3 DEF TakeOver, AtRing
  <2>4. CASE PutTalk
    BY <2>4, <1>2 DEF PutTalk, Written
  <2> QED
    BY <1>6, <2>1, <2>2, <2>3, <2>4 DEF TalkEvent
<1>7. CASE Playing
  <2>1. CASE StartRead
    BY <2>1, <1>1 DEF StartRead, Enter
  <2>2. CASE ReadNothing \/ Play
    BY <2>2, <1>2 DEF ReadNothing, Play
  <2> QED
    BY <1>7, <2>1, <2>2 DEF Playing
<1>8. CASE UNCHANGED vars
  BY <1>8, <1>4 DEF vars, users
<1> QED
  BY <1>5, <1>6, <1>7, <1>8 DEF Next

\* While a prompt is on its way into an unspoilt ring no talk begins; once one
\* has, only packets of it are written.
LEMMA SilentStep == SoundInv /\ [Next]_vars => PromptFirst' /\ Silent'
<1> SUFFICES ASSUME SoundInv, [Next]_vars, ~spoilt' PROVE PromptFirst' /\ Silent'
  BY DEF PromptFirst, Silent
<1> USE Apart DEF SoundInv
<1>0. /\ ~spoilt
      /\ at \in [Threads -> {"idle", "file", "talking", "check", "put", "read"}]
      /\ \A p \in Prompts : at[p] = "put" => priority # "ZERO"
      /\ priority = "ZERO" => \A k \in InfoSlots : info[k].type # "WAV_FILE"
  <2>1. ~spoilt
    BY DEF Next, Prompt, TalkEvent, Playing, OpenFile, Refuse, Admit, PutChunk, CloseFile, Called,
           Recv, TakeOver, PutTalk, HangUp, StartRead, ReadNothing, Play, vars, users, Enter, Written
  <2> QED
    BY <2>1 DEF PromptFirst, Silent, ShapeOK
<1>1. CASE /\ priority' = priority /\ info' = info
           /\ \A p \in Prompts : at'[p] = "put" => at[p] = "put"
  BY <1>0, <1>1 DEF PromptFirst, Silent
<1>2. CASE priority' \in {"NULL", "FIRST"}
  BY <1>2 DEF PromptFirst, Silent
<1>3. ASSUME NEW p \in Prompts, Prompt(p) PROVE PromptFirst' /\ Silent'
  <2>1. CASE OpenFile(p) \/ CloseFile(p) \/ Refuse(p)
    BY <1>0, <2>1, <1>1 DEF OpenFile, CloseFile, Refuse, Go, ring
  <2>2. CASE Admit(p)
    BY <2>2, <1>2 DEF Admit
  <2>3. CASE PutChunk(p)
    BY <1>0, <2>3, <1>2 DEF PutChunk, Released
  <2> QED
    BY <1>3, <2>1, <2>2, <2>3 DEF Prompt
<1>4. CASE TakeOver
  <2>1. \A p \in Prompts : at[p] # "put"
    BY <1>0, <1>4 DEF TakeOver, OneAtRing, AtRing
  <2>2. \A k \in InfoSlots : info'[k].type # "WAV_FILE"
    <3>1. CASE priority = "ZERO"
      BY <1>0, <1>4, <3>1 DEF TakeOver, ring
    <3>2. CASE priority # "ZERO"
      BY <1>4, <3>2 DEF TakeOver, ClearQueue, NoInfo, InfoSlots
    <3> QED
      BY <3>1, <3>2
  <2> QED
    BY <1>0, <1>4, <2>1, <2>2 DEF TakeOver, Go, PromptFirst, Silent
<1>5. CASE PutTalk
  <2>1. CASE priority # "ZERO"
    BY <1>5, <2>1, <1>2 DEF PutTalk, Released
  <2>2. CASE priority = "ZERO"
    <3>1. PICK size \in TalkSizes : WriteQueue(written + 1, size, "P2P_G711A")
      BY <1>5 DEF PutTalk
    <3>2. size \in Nat /\ "P2P_G711A" \in Types
      BY UsersAssumption DEF Types
    <3>3. \A k \in InfoSlots : info'[k] = info[k] \/ info'[k].type = "P2P_G711A"
      BY <3>1, <3>2, WriteShape
    <3> QED
      BY <1>0, <1>5, <2>2, <3>3 DEF PutTalk, Released, Go, PromptFirst, Silent
  <2> QED
    BY <2>1, <2>2
<1>6. CASE HangUp
  BY <1>6, <1>2 DEF HangUp
<1>7. CASE Called \/ Recv
  BY <1>0, <1>7, <1>1 DEF Called, Recv, Go, ring
<1>8. CASE Playing
  BY <1>0, <1>8, <1>1 DEF Playing, StartRead, ReadNothing, Play, ReadQueue, Go, ring
<1>9. CASE UNCHANGED vars
  BY <1>9, <1>1 DEF vars, users, ring
<1> QED
  BY <1>3, <1>4, <1>5, <1>6, <1>7, <1>8, <1>9 DEF Next, TalkEvent

\* The invariant.
THEOREM SoundInductive == Spec => []SoundInv
<1>1. SoundInv /\ [Next]_vars => SoundInv'
  BY ShapeStep, ExclusiveStep, RingStep, SilentStep DEF SoundInv
<1> QED
  BY <1>1, SoundInitInv, PTL DEF Spec

\* Before a prompt is refused for a talk (sound_queue.c:271-276) the mutex keeps
\* every two threads apart at the ring.
THEOREM LockWorks == Spec => []OnlyRefusalRaces
<1>1. SoundInv => OnlyRefusalRaces
  <2> SUFFICES ASSUME SoundInv, ~refused PROVE ~(Cardinality(AtRing) > 1)
    BY DEF OnlyRefusalRaces
  <2>1. \A t, u \in AtRing : t = u
    BY DEF SoundInv, Exclusive, AtRing, Holding
  <2>2. CASE AtRing = {}
    BY <2>2, FS_EmptySet
  <2>3. CASE AtRing # {}
    <3>1. PICK t : AtRing = {t}
      BY <2>1, <2>3
    <3> QED
      <4>1. Cardinality({t}) = 1
        BY FS_Singleton
      <4> QED
        BY <3>1, <4>1
  <2> QED
    BY <2>2, <2>3
<1> QED
  BY <1>1, SoundInductive, PTL

\* The loudspeaker belongs to a talk from its first packet (sound_queue.c:279-283)
\* to its end, unless two threads were at the ring or it was overrun.
THEOREM TalkHasItsOwn == Spec => []TalkIsAlone
<1>1. SoundInv => TalkIsAlone
  <2> SUFFICES ASSUME SoundInv, priority = "ZERO", ~spoilt, NEW n \in 0 .. qbCount - 1
               PROVE  InfoAt(n).type # "WAV_FILE"
    BY DEF TalkIsAlone
  <2>1. infoRead + n \in Nat
    BY DEF SoundInv, ShapeOK
  <2>2. (infoRead + n) % InfoCap \in InfoSlots
    BY <2>1, RingFacts
  <2> QED
    BY <2>2 DEF SoundInv, Silent, InfoAt
<1> QED
  BY <1>1, SoundInductive, PTL

----------------------------------------------------------------------------
\* A set of naturals that is not empty has a least element: what an induction over the
\* packets comes down to.
LEMMA LeastOf ==
    ASSUME NEW S \in SUBSET Nat, S # {}
    PROVE  \E n \in S : \A m \in S : n <= m
<1>1. IsWellFoundedOn(OpToRel(<, Nat), Nat)
  BY NatLessThanWellFounded
<1>2. PICK n \in S : \A m \in S : ~(<<m, n>> \in OpToRel(<, Nat))
  BY <1>1, WFMin
<1>3. \A m \in Nat, k \in Nat : m < k => <<m, k>> \in OpToRel(<, Nat)
  BY DEF OpToRel
<1>4. ASSUME NEW m \in S PROVE n <= m
  <2>1. m \in Nat /\ n \in Nat
    OBVIOUS
  <2>2. ~(m < n)
    BY <1>2, <1>3, <2>1
  <2>3. QED
    BY <2>1, <2>2
<1>5. QED
  BY <1>4

\* Induction over the naturals.
LEMMA AllNaturals ==
    ASSUME NEW S \in SUBSET Nat, 0 \in S, \A n \in S : n + 1 \in S
    PROVE  S = Nat
<1>1. SUFFICES ASSUME Nat \ S # {} PROVE FALSE
  OBVIOUS
<1>2. PICK n \in Nat \ S : \A m \in Nat \ S : n <= m
  BY <1>1, LeastOf
<1>3. n - 1 \in Nat /\ n - 1 \notin Nat \ S /\ (n - 1) + 1 = n
  BY <1>2
<1>4. QED
  BY <1>3

----------------------------------------------------------------------------
(***************************************************************************)
(* Recursive functions.  A definition by recursion chooses a solution;     *)
(* that there is one is put together from its first parts.                 *)
(***************************************************************************)
\* f begins with a and follows the steps G up to m.
Part(f, m, D, a, G) ==
    /\ f \in [0..m -> D]
    /\ f[0] = a
    /\ \A i \in 0..m - 1 : f[i + 1] = G[i][f[i]]

\* The recursion goes as far as one likes.
LEMMA PartsExist ==
    ASSUME NEW D, NEW a \in D, NEW G \in [Nat -> [D -> D]]
    PROVE  \A m \in Nat : \E f : Part(f, m, D, a, G)
<1> DEFINE S == {m \in Nat : ~ \E f : Part(f, m, D, a, G)}
<1>1. SUFFICES ASSUME S # {} PROVE FALSE
  OBVIOUS
<1>2. PICK n \in S : \A m \in S : n <= m
  BY <1>1, LeastOf
<1>3. CASE n = 0
  <2>1. Part([i \in 0..0 |-> a], 0, D, a, G)
    BY DEF Part
  <2>2. QED
    BY <1>3, <2>1
<1>4. CASE n # 0
  <2>1. n - 1 \in Nat /\ n - 1 \notin S
    BY <1>2, <1>4
  <2>2. PICK f : Part(f, n - 1, D, a, G)
    BY <2>1
  <2> DEFINE g == [i \in 0..n |-> IF i = n THEN G[n - 1][f[n - 1]] ELSE f[i]]
  <2>3. f[n - 1] \in D
    BY <2>1, <2>2 DEF Part
  <2>4. G[n - 1][f[n - 1]] \in D
    BY <2>1, <2>3
  <2>5. g \in [0..n -> D]
    BY <2>2, <2>4 DEF Part
  <2>6. g[0] = a
    BY <1>4, <2>2 DEF Part
  <2>7. ASSUME NEW i \in 0..n - 1 PROVE g[i + 1] = G[i][g[i]]
    <3>1. g[i] = f[i] /\ i + 1 \in 0..n
      OBVIOUS
    <3>2. CASE i = n - 1
      BY <3>1, <3>2
    <3>3. CASE i # n - 1
      <4>1. i \in 0..(n - 1) - 1 /\ i + 1 # n
        BY <3>3
      <4>2. f[i + 1] = G[i][f[i]]
        BY <2>2, <4>1 DEF Part
      <4>3. QED
        BY <3>1, <4>1, <4>2
    <3>4. QED
      BY <3>2, <3>3
  <2>8. Part(g, n, D, a, G)
    BY <2>5, <2>6, <2>7 DEF Part
  <2>9. QED
    BY <2>8
<1>5. QED
  BY <1>3, <1>4

\* A longer part begins like a shorter one.
LEMMA PartsAgree ==
    ASSUME NEW D, NEW a, NEW G, NEW f, NEW g, NEW m \in Nat, NEW k \in Nat,
           Part(f, m, D, a, G), Part(g, k, D, a, G), m <= k
    PROVE  \A i \in 0..m : f[i] = g[i]
<1> DEFINE S == {i \in 0..m : f[i] # g[i]}
<1>1. SUFFICES ASSUME S # {} PROVE FALSE
  OBVIOUS
<1>0. S \in SUBSET Nat
  OBVIOUS
<1>2. PICK n \in S : \A i \in S : n <= i
  BY <1>0, <1>1, LeastOf
<1>3. n # 0
  BY DEF Part
<1>4. n - 1 \in 0..m /\ n - 1 \notin S
  BY <1>2, <1>3
<1>5. f[n - 1] = g[n - 1]
  BY <1>4
<1>6. n - 1 \in 0..m - 1 /\ n - 1 \in 0..k - 1 /\ (n - 1) + 1 = n
  BY <1>3
<1>7. f[n] = G[n - 1][f[n - 1]] /\ g[n] = G[n - 1][g[n - 1]]
  BY <1>6 DEF Part
<1>8. QED
  BY <1>5, <1>7

\* A recursion over the naturals has a solution.
Solvable(D, a, G) == \E f \in [Nat -> D] : f[0] = a /\ \A n \in Nat : f[n + 1] = G[n][f[n]]

\* The n-th value is the last one of the part up to n.
LEMMA Recursion ==
    ASSUME NEW D, NEW a \in D, NEW G \in [Nat -> [D -> D]]
    PROVE  Solvable(D, a, G)
<1> DEFINE W(m) == CHOOSE f : Part(f, m, D, a, G)
           F == [n \in Nat |-> W(n)[n]]
<1>1. \A m \in Nat : Part(W(m), m, D, a, G)
  BY PartsExist
<1> HIDE DEF W
<1>2. \A m \in Nat : W(m)[m] \in D
  BY <1>1 DEF Part
<1>3. F[0] = a
  BY <1>1 DEF Part
<1>4. ASSUME NEW n \in Nat PROVE F[n + 1] = G[n][F[n]]
  <2>1. Part(W(n), n, D, a, G) /\ Part(W(n + 1), n + 1, D, a, G)
    BY <1>1
  <2>2. W(n)[n] = W(n + 1)[n]
    BY <2>1, PartsAgree
  <2>3. W(n + 1)[n + 1] = G[n][W(n + 1)[n]]
    BY <2>1 DEF Part
  <2>4. QED
    BY <2>2, <2>3
<1>5. F \in [Nat -> D]
  BY <1>2
<1>6. QED
  BY <1>3, <1>4, <1>5 DEF Solvable

----------------------------------------------------------------------------
(***************************************************************************)
(* Where packets begin: ReadPosAfter is a recursion over their lengths.    *)
(***************************************************************************)
\* Where the reader is after the k-th packet, from where it was before it.
NextPos(p, k) == Place(p, InfoAt(k).len) + InfoAt(k).len

\* What the ring of lengths says.
LEMMA LengthIs ==
    ASSUME RingTypeOK, NEW k \in Nat
    PROVE  InfoAt(k).len \in 0..QbSize - 1
<1>1. (infoRead + k) % InfoCap \in 0..InfoCap - 1
  BY RingAssumption DEF RingTypeOK
<1>2. QED
  BY <1>1 DEF RingTypeOK, InfoAt

\* The reader stays within the buffer.
LEMMA NextPosIs ==
    ASSUME RingTypeOK, NEW p \in Nat, NEW k \in Nat
    PROVE  NextPos(p, k) \in Nat /\ (p \in 0..QbSize => NextPos(p, k) \in 0..QbSize)
BY LengthIs, RingAssumption DEF NextPos, Place

\* The places of the packets follow from each other.
LEMMA ReadPosIs ==
    ASSUME RingTypeOK
    PROVE  /\ ReadPosAfter \in [Nat -> Nat]
           /\ ReadPosAfter[0] = readPos
           /\ \A n \in Nat : ReadPosAfter[n + 1] = NextPos(ReadPosAfter[n], n)
<1> DEFINE G == [n \in Nat |-> [p \in Nat |-> NextPos(p, n)]]
<1>0. readPos \in Nat
  BY RingAssumption DEF RingTypeOK
<1>1. G \in [Nat -> [Nat -> Nat]]
  <2>1. \A n, p \in Nat : NextPos(p, n) \in Nat
    BY NextPosIs
  <2>2. QED
    BY <2>1
<1>2. \A n, p \in Nat : G[n][p] = NextPos(p, n)
  OBVIOUS
<1> HIDE DEF G
<1>3. PICK f \in [Nat -> Nat] : f[0] = readPos /\ \A n \in Nat : f[n + 1] = G[n][f[n]]
  <2>1. Solvable(Nat, readPos, G)
    BY <1>0, <1>1, Recursion
  <2>2. QED
    BY <2>1 DEF Solvable
<1>4. \A n \in Nat : f[n + 1] = NextPos(f[n], n)
  BY <1>2, <1>3
<1>5. f = [n \in Nat |-> IF n = 0 THEN readPos
                        ELSE Place(f[n - 1], InfoAt(n - 1).len) + InfoAt(n - 1).len]
  <2>1. ASSUME NEW n \in Nat
        PROVE  f[n] = IF n = 0 THEN readPos
                      ELSE Place(f[n - 1], InfoAt(n - 1).len) + InfoAt(n - 1).len
    <3>1. CASE n = 0
      BY <3>1, <1>3
    <3>2. CASE n # 0
      <4>1. n - 1 \in Nat /\ (n - 1) + 1 = n
        BY <3>2
      <4>2. f[n] = NextPos(f[n - 1], n - 1)
        BY <4>1, <1>4
      <4>3. QED
        BY <3>2, <4>2 DEF NextPos
    <3>3. QED
      BY <3>1, <3>2
  <2>2. QED
    BY <2>1
<1>6. ReadPosAfter = [n \in Nat |->
          IF n = 0 THEN readPos
          ELSE Place(ReadPosAfter[n - 1], InfoAt(n - 1).len) + InfoAt(n - 1).len]
  BY <1>5, Zenon DEF ReadPosAfter
<1>7. QED
  <2>1. \A n \in Nat : ReadPosAfter[n + 1] = NextPos(ReadPosAfter[n], n)
    <3> TAKE n \in Nat
    <3>1. n + 1 \in Nat /\ n + 1 # 0 /\ (n + 1) - 1 = n
      OBVIOUS
    <3>2. QED
      BY <1>6, <3>1 DEF NextPos
  <2>2. ReadPosAfter[0] = readPos
    BY <1>6
  <2>3. ReadPosAfter \in [Nat -> Nat]
    <3> DEFINE S == {n \in Nat : ReadPosAfter[n] \notin Nat}
    <3>1. SUFFICES ASSUME S # {} PROVE FALSE
      BY <1>6
    <3>2. PICK n \in S : \A i \in S : n <= i
      BY <3>1, LeastOf
    <3>3. n # 0
      BY <1>0, <2>2
    <3>4. n - 1 \in Nat /\ n - 1 \notin S /\ (n - 1) + 1 = n
      BY <3>2, <3>3
    <3>5. ReadPosAfter[n] = NextPos(ReadPosAfter[n - 1], n - 1)
      BY <3>4, <2>1
    <3>6. QED
      BY <3>4, <3>5, NextPosIs
  <2>4. QED
    BY <2>1, <2>2, <2>3

\* No packet begins beyond the end of the buffer.
LEMMA ReadPosWithin ==
    ASSUME RingTypeOK, NEW n \in Nat
    PROVE  ReadPosAfter[n] \in 0..QbSize
<1> DEFINE S == {m \in Nat : ReadPosAfter[m] \notin 0..QbSize}
<1>1. SUFFICES ASSUME S # {} PROVE FALSE
  OBVIOUS
<1>2. PICK m \in S : \A i \in S : m <= i
  BY <1>1, LeastOf
<1>3. m # 0
  BY ReadPosIs DEF RingTypeOK
<1>4. m - 1 \in Nat /\ m - 1 \notin S /\ (m - 1) + 1 = m
  BY <1>2, <1>3
<1>5. ReadPosAfter[m] = NextPos(ReadPosAfter[m - 1], m - 1) /\ ReadPosAfter[m - 1] \in Nat
  BY <1>4, ReadPosIs
<1>6. QED
  BY <1>4, <1>5, NextPosIs

\* Storing a packet within the buffer.
LEMMA StoreTypes ==
    ASSUME RingTypeOK, NEW id \in Nat, NEW size \in 0..QbSize - 1, NEW type \in Types,
           NEW n \in 0..qbCount, NEW r \in 0..QbSize, NEW w \in Nat, w + size \in 0..QbSize,
           Store(id, size, type, n, r, w)
    PROVE  RingTypeOK'
<1>1. buf' \in [0..QbSize - 1 -> Nat \X Nat]
  <2>1. ASSUME NEW i \in 0..QbSize - 1, w <= i, i < w + size
        PROVE  Packet(id, size)[i - w + 1] \in Nat \X Nat
    <3>1. i - w + 1 \in 1..size
      BY <2>1
    <3>2. QED
      BY <3>1 DEF Packet
  <2>2. \A i \in 0..QbSize - 1 : buf[i] \in Nat \X Nat
    BY DEF RingTypeOK
  <2>3. buf' = [i \in 0..QbSize - 1 |->
                  IF w <= i /\ i < w + size THEN Packet(id, size)[i - w + 1] ELSE buf[i]]
    BY DEF Store
  <2>4. QED
    BY <2>1, <2>2, <2>3
<1>2. info' \in [0..InfoCap - 1 -> [len : 0..QbSize - 1, type : Types]]
  <2>1. [len |-> size, type |-> type] \in [len : 0..QbSize - 1, type : Types]
    OBVIOUS
  <2>2. info' = [info EXCEPT ![infoWrite % InfoCap] = [len |-> size, type |-> type]]
    BY DEF Store
  <2>3. QED
    BY <2>1, <2>2 DEF RingTypeOK
<1>3. qbCount' \in Nat
  BY DEF Store, RingTypeOK
<1>4. readPos' \in 0..QbSize /\ writePos' \in 0..QbSize
  BY DEF Store
<1>5. \A k \in Nat : Stepped(k) \in 0..InfoCap
  BY RingAssumption DEF Stepped
<1>6. infoWrite' \in 0..InfoCap
  BY <1>5, RingAssumption DEF Store, RingTypeOK
<1>7. infoRead' \in 0..InfoCap
  <2>1. CASE n = 0
    BY <2>1 DEF Store, RingTypeOK
  <2>2. CASE n # 0
    <3>1. infoRead + n - 1 \in Nat
      BY <2>2, RingAssumption DEF RingTypeOK
    <3>2. QED
      BY <1>5, <2>2, <3>1 DEF Store
  <2>3. QED
    BY <2>1, <2>2
<1>8. QED
  BY <1>1, <1>2, <1>3, <1>4, <1>6, <1>7 DEF RingTypeOK

LEMMA WriteTypes ==
    ASSUME RingTypeOK, NEW id \in Nat, NEW size \in Nat, NEW type \in Types,
           WriteQueue(id, size, type)
    PROVE  RingTypeOK'
<1>1. /\ QbSize \in Nat \ {0} /\ qbCount \in Nat
      /\ readPos \in 0..QbSize /\ writePos \in 0..QbSize
  BY RingAssumption DEF RingTypeOK
<1>2. CASE UNCHANGED ring
  BY <1>2 DEF ring, RingTypeOK
<1>3. CASE size < QbSize /\ FitsRight(size) /\ Store(id, size, type, 0, readPos, writePos)
  <2>1. size \in 0..QbSize - 1 /\ writePos + size \in 0..QbSize /\ 0 \in 0..qbCount
    BY <1>1, <1>3 DEF FitsRight
  <2>2. QED
    BY <1>1, <1>3, <2>1, StoreTypes
<1>4. ASSUME size < QbSize, NEW n \in 0..qbCount, FitsLeft(n, size),
             Store(id, size, type, n, ReadPosAfter[n], Left)
      PROVE  RingTypeOK'
  <2>1. n \in Nat /\ ReadPosAfter[n] \in 0..QbSize
    BY <1>1, ReadPosWithin
  <2>2. Left \in Nat
    BY <1>1 DEF Left
  <2>3. size \in 0..QbSize - 1 /\ Left + size \in 0..QbSize
    BY <1>1, <1>4, <2>1, <2>2 DEF FitsLeft
  <2>4. QED
    BY <1>4, <2>1, <2>2, <2>3, StoreTypes
<1>5. CASE size < QbSize /\ Store(id, size, type, qbCount, 0, 0)
  <2>1. size \in 0..QbSize - 1 /\ 0 + size \in 0..QbSize /\ qbCount \in 0..qbCount
        /\ 0 \in 0..QbSize
    BY <1>1, <1>5
  <2>2. QED
    BY <1>5, <2>1, StoreTypes
<1>6. QED
  BY <1>2, <1>3, <1>4, <1>5 DEF WriteQueue

\* The bytes of a packet are in the buffer.
LEMMA PacketIs ==
    ASSUME RingTypeOK, NEW n \in Nat
    PROVE  /\ PacketAt(n) \in Seq(Nat \X Nat)
           /\ Len(PacketAt(n)) = InfoAt(n).len
<1>1. InfoAt(n).len \in 0..QbSize - 1
  BY LengthIs
<1>2. ReadPosAfter[n] \in 0..QbSize
  BY ReadPosWithin
<1>3. ASSUME NEW i \in 1..InfoAt(n).len
      PROVE  buf[Place(ReadPosAfter[n], InfoAt(n).len) + i - 1] \in Nat \X Nat
  <2>1. Place(ReadPosAfter[n], InfoAt(n).len) + i - 1 \in 0..QbSize - 1
    BY <1>1, <1>2, RingAssumption DEF Place
  <2>2. QED
    BY <2>1 DEF RingTypeOK
<1>4. PacketAt(n) \in [1..InfoAt(n).len -> Nat \X Nat]
  BY <1>3 DEF PacketAt
<1>5. QED
  BY <1>1, <1>4

LEMMA ReadTypes ==
    ASSUME RingTypeOK, ReadQueue
    PROVE  RingTypeOK'
<1>1. ReadPosAfter[1] \in 0..QbSize
  BY ReadPosWithin
<1>2. Stepped(infoRead) \in 0..InfoCap
  BY RingAssumption DEF Stepped, RingTypeOK
<1>3. qbCount' \in Nat
  BY DEF ReadQueue, RingTypeOK
<1>4. QED
  BY <1>1, <1>2, <1>3 DEF ReadQueue, RingTypeOK

LEMMA ClearTypes ==
    ASSUME RingTypeOK, ClearQueue
    PROVE  RingTypeOK'
<1>1. NoInfo \in [len : 0..QbSize - 1, type : Types]
  BY RingAssumption DEF NoInfo, Types
<1>2. info' \in [0..InfoCap - 1 -> [len : 0..QbSize - 1, type : Types]]
  BY <1>1 DEF ClearQueue
<1>3. buf' \in [0..QbSize - 1 -> Nat \X Nat]
  BY DEF ClearQueue, Zero
<1>4. /\ qbCount' \in Nat /\ infoRead' \in 0..InfoCap /\ infoWrite' \in 0..InfoCap
      /\ readPos' \in 0..QbSize /\ writePos' \in 0..QbSize
  BY RingAssumption DEF ClearQueue, RingTypeOK
<1>5. QED
  BY <1>2, <1>3, <1>4 DEF RingTypeOK

----------------------------------------------------------------------------
\* The users of the ring.
UserTypes ==
    /\ held \in BOOLEAN /\ refused \in BOOLEAN /\ spoilt \in BOOLEAN
    /\ priority \in {"ZERO", "FIRST", "NULL"}
    /\ at \in [Threads -> {"idle", "file", "talking", "check", "put", "read"}]
    /\ written \in Nat
    /\ out \in Seq(Nat \X Nat)

LEMMA InitTypes == Init => RingTypeOK /\ UserTypes
<1> SUFFICES ASSUME Init PROVE RingTypeOK /\ UserTypes
  OBVIOUS
<1>1. NoInfo \in [len : 0..QbSize - 1, type : Types]
  BY RingAssumption DEF NoInfo, Types
<1>2. RingTypeOK
  BY <1>1, RingAssumption DEF Init, RingInit, RingTypeOK, Zero
<1>3. held \in BOOLEAN /\ refused \in BOOLEAN /\ spoilt \in BOOLEAN
  BY Zenon DEF Init
<1>4. priority \in {"ZERO", "FIRST", "NULL"} /\ written \in Nat /\ out \in Seq(Nat \X Nat)
  BY DEF Init
<1>5. at \in [Threads -> {"idle", "file", "talking", "check", "put", "read"}]
  BY DEF Init
<1>6. QED
  BY <1>2, <1>3, <1>4, <1>5, Zenon DEF UserTypes

LEMMA RingTypesStep == RingTypeOK /\ UserTypes /\ [Next]_vars => RingTypeOK'
<1> SUFFICES ASSUME RingTypeOK, UserTypes, [Next]_vars PROVE RingTypeOK'
  OBVIOUS
<1>1. written + 1 \in Nat
  BY DEF UserTypes
<1>2. ASSUME NEW p \in Prompts, PutChunk(p) PROVE RingTypeOK'
  <2>1. ChunkSize \in Nat /\ "WAV_FILE" \in Types
    BY UsersAssumption DEF Types
  <2>2. QED
    BY <1>1, <1>2, <2>1, WriteTypes DEF PutChunk
<1>3. CASE PutTalk
  <2>1. PICK size \in TalkSizes : WriteQueue(written + 1, size, "P2P_G711A")
    BY <1>3 DEF PutTalk
  <2>2. size \in Nat /\ "P2P_G711A" \in Types
    BY UsersAssumption DEF Types
  <2>3. QED
    BY <1>1, <2>1, <2>2, WriteTypes
<1>4. CASE TakeOver
  BY <1>4, ClearTypes DEF TakeOver, ring, RingTypeOK
<1>5. CASE Play
  BY <1>5, ReadTypes DEF Play
<1>6. CASE UNCHANGED ring
  BY <1>6 DEF ring, RingTypeOK
<1>7. ASSUME NEW p \in Prompts, OpenFile(p) \/ Refuse(p) \/ Admit(p) \/ CloseFile(p)
      PROVE  UNCHANGED ring
  BY <1>7 DEF OpenFile, Refuse, Admit, CloseFile
<1>8. Called \/ Recv \/ HangUp \/ StartRead \/ ReadNothing \/ UNCHANGED vars => UNCHANGED ring
  BY DEF Called, Recv, HangUp, StartRead, ReadNothing, vars
<1>9. QED
  BY <1>2, <1>3, <1>4, <1>5, <1>6, <1>7, <1>8 DEF Next, Prompt, TalkEvent, Playing

\* Going somewhere.
LEMMA GoTypes ==
    ASSUME UserTypes, NEW t \in Threads,
           NEW x \in {"idle", "file", "talking", "check", "put", "read"}, Go(t, x)
    PROVE  at' \in [Threads -> {"idle", "file", "talking", "check", "put", "read"}]
BY DEF UserTypes, Go

LEMMA PlacesStep ==
    ASSUME UserTypes, [Next]_vars
    PROVE  at' \in [Threads -> {"idle", "file", "talking", "check", "put", "read"}]
<1>1. Talk \in Threads /\ Player \in Threads /\ Prompts \subseteq Threads
  BY Apart
<1>2. ASSUME NEW p \in Prompts, Prompt(p)
      PROVE  at' \in [Threads -> {"idle", "file", "talking", "check", "put", "read"}]
  <2>1. p \in Threads
    BY <1>1
  <2>2. CASE Refuse(p)
    BY <2>2 DEF Refuse, UserTypes
  <2>3. QED
    BY <1>2, <2>1, <2>2, GoTypes DEF Prompt, OpenFile, Admit, PutChunk, CloseFile
<1>3. CASE TalkEvent
  BY <1>1, <1>3, GoTypes DEF TalkEvent, Called, Recv, TakeOver, PutTalk, HangUp
<1>4. CASE Playing
  BY <1>1, <1>4, GoTypes DEF Playing, StartRead, ReadNothing, Play
<1>5. CASE UNCHANGED vars
  BY <1>5 DEF vars, users, UserTypes
<1>6. QED
  BY <1>2, <1>3, <1>4, <1>5 DEF Next

LEMMA FlagsStep ==
    ASSUME UserTypes, [Next]_vars
    PROVE  held' \in BOOLEAN /\ refused' \in BOOLEAN
<1>1. held' = held \/ held' = TRUE \/ held' = FALSE
  BY Zenon DEF Next, Prompt, TalkEvent, Playing, OpenFile, Refuse, Admit, PutChunk, CloseFile,
     Called, Recv, TakeOver, PutTalk, HangUp, StartRead, ReadNothing, Play, vars, users,
     Lock, Unlock
<1>2. refused' = refused \/ refused' = TRUE
  BY Zenon DEF Next, Prompt, TalkEvent, Playing, OpenFile, Refuse, Admit, PutChunk, CloseFile,
     Called, Recv, TakeOver, PutTalk, HangUp, StartRead, ReadNothing, Play, vars, users
<1>3. QED
  BY <1>1, <1>2, Zenon DEF UserTypes

LEMMA HistoryStep ==
    ASSUME RingTypeOK, UserTypes, [Next]_vars
    PROVE  /\ spoilt' \in BOOLEAN /\ written' \in Nat
           /\ priority' \in {"ZERO", "FIRST", "NULL"}
           /\ out' \in Seq(Nat \X Nat)
<1>1. \/ spoilt' = spoilt
      \/ spoilt' = (spoilt \/ AtRing # {})
      \/ spoilt' = (spoilt \/ qbCount' > InfoCap)
  BY Zenon DEF Next, Prompt, TalkEvent, Playing, OpenFile, Refuse, Admit, PutChunk, CloseFile,
     Called, Recv, TakeOver, PutTalk, HangUp, StartRead, ReadNothing, Play, vars, users,
     Enter, Written
<1>2. spoilt' \in BOOLEAN
  BY <1>1, Zenon DEF UserTypes
<1>3. written' = written \/ written' = written + 1
  BY Zenon DEF Next, Prompt, TalkEvent, Playing, OpenFile, Refuse, Admit, PutChunk, CloseFile,
     Called, Recv, TakeOver, PutTalk, HangUp, StartRead, ReadNothing, Play, vars, users, Written
<1>4. priority' \in {priority, "ZERO", "FIRST", "NULL"}
  BY Zenon DEF Next, Prompt, TalkEvent, Playing, OpenFile, Refuse, Admit, PutChunk, CloseFile,
     Called, Recv, TakeOver, PutTalk, HangUp, StartRead, ReadNothing, Play, vars, users, Released
<1>5. out' = out \/ out' = PacketAt(0)
  BY Zenon DEF Next, Prompt, TalkEvent, Playing, OpenFile, Refuse, Admit, PutChunk, CloseFile,
     Called, Recv, TakeOver, PutTalk, HangUp, StartRead, ReadNothing, Play, vars, users
<1>6. PacketAt(0) \in Seq(Nat \X Nat)
  BY PacketIs
<1>7. written' \in Nat
  BY <1>3 DEF UserTypes
<1>8. QED
  BY <1>2, <1>4, <1>5, <1>6, <1>7, Zenon DEF UserTypes

\* Whatever the lengths and the number of packets, and however often the mutex is freed
\* by a thread that does not hold it, no position leaves the buffer and no byte is read or
\* written beyond its end (sound_queue.c:150-244, 296-332).
THEOREM SoundTypeCorrect == Spec => []TypeOK
<1>1. Init => RingTypeOK /\ UserTypes
  BY InitTypes
<1>2. RingTypeOK /\ UserTypes /\ [Next]_vars => RingTypeOK' /\ UserTypes'
  <2> SUFFICES ASSUME RingTypeOK, UserTypes, [Next]_vars PROVE RingTypeOK' /\ UserTypes'
    OBVIOUS
  <2>1. QED
    BY RingTypesStep, PlacesStep, FlagsStep, HistoryStep, Zenon DEF UserTypes
<1>3. RingTypeOK /\ UserTypes => TypeOK
  BY Zenon DEF TypeOK, UserTypes
<1>4. QED
  BY <1>1, <1>2, <1>3, PTL DEF Spec

----------------------------------------------------------------------------
(***************************************************************************)
(* The packets of the ring.  What is true of them in every state is stated *)
(* once, with functions over the naturals instead of operators, so that it *)
(* can be used of the next state too.                                      *)
(***************************************************************************)
Bytes == Nat \X Nat

\* The lengths and the bytes of the packets, from the oldest on.
Lengths == [k \in Nat |-> InfoAt(k).len]
Contents == [k \in Nat |-> PacketAt(k)]

\* What is to be played with one packet more.
Played(s, p) == IF p = <<>> THEN s ELSE Append(s, p)

\* What is to be played is a sequence of packets.
LEMMA OldestIs ==
    ASSUME RingTypeOK
    PROVE  /\ Oldest[0] = <<>>
           /\ \A n \in Nat : Oldest[n] \in Seq(Seq(Bytes))
           /\ \A n \in Nat : Oldest[n + 1] = Played(Oldest[n], PacketAt(n))
<1> DEFINE D == Seq(Seq(Bytes))
           G == [n \in Nat |-> [s \in D |-> Played(s, PacketAt(n))]]
<1>0. <<>> \in D
  OBVIOUS
<1>a. ASSUME NEW n \in Nat, NEW s \in D PROVE Played(s, PacketAt(n)) \in D
  BY PacketIs, AppendProperties DEF Played, Bytes
<1>1. G \in [Nat -> [D -> D]]
  BY <1>a
<1>2. \A n \in Nat, s \in D : G[n][s] = Played(s, PacketAt(n))
  OBVIOUS
<1> HIDE DEF G
<1>3. PICK f \in [Nat -> D] : f[0] = <<>> /\ \A n \in Nat : f[n + 1] = G[n][f[n]]
  <2> HIDE DEF D
  <2>1. Solvable(D, <<>>, G)
    BY <1>0, <1>1, Recursion
  <2>2. QED
    BY <2>1 DEF Solvable
<1>4. \A n \in Nat : f[n + 1] = Played(f[n], PacketAt(n))
  BY <1>2, <1>3
<1>5. f = [n \in Nat |-> IF n = 0 THEN <<>>
                        ELSE IF PacketAt(n - 1) = <<>> THEN f[n - 1]
                        ELSE Append(f[n - 1], PacketAt(n - 1))]
  <2>1. ASSUME NEW n \in Nat
        PROVE  f[n] = IF n = 0 THEN <<>>
                      ELSE IF PacketAt(n - 1) = <<>> THEN f[n - 1]
                      ELSE Append(f[n - 1], PacketAt(n - 1))
    <3>1. CASE n = 0
      BY <3>1, <1>3
    <3>2. CASE n # 0
      <4>1. n - 1 \in Nat /\ (n - 1) + 1 = n
        BY <3>2
      <4>2. f[n] = Played(f[n - 1], PacketAt(n - 1))
        BY <4>1, <1>4
      <4>3. QED
        BY <3>2, <4>2 DEF Played
    <3>3. QED
      BY <3>1, <3>2
  <2>2. QED
    BY <2>1, <1>3
<1>6. Oldest = [n \in Nat |-> IF n = 0 THEN <<>>
                             ELSE IF PacketAt(n - 1) = <<>> THEN Oldest[n - 1]
                             ELSE Append(Oldest[n - 1], PacketAt(n - 1))]
  BY <1>5, Zenon DEF Oldest
<1>7. ASSUME NEW n \in Nat PROVE Oldest[n + 1] = Played(Oldest[n], PacketAt(n))
  <2>1. n + 1 \in Nat /\ n + 1 # 0 /\ (n + 1) - 1 = n
    OBVIOUS
  <2>2. QED
    BY <1>6, <2>1 DEF Played
<1>8. Oldest[0] = <<>>
  BY <1>6
<1>9. \A n \in Nat : Oldest[n] \in D
  <2> DEFINE S == {n \in Nat : Oldest[n] \in D}
  <2>1. 0 \in S
    BY <1>8, <1>0
  <2>2. ASSUME NEW n \in S PROVE n + 1 \in S
    <3>1. n \in Nat /\ n + 1 \in Nat /\ Oldest[n] \in D
      OBVIOUS
    <3>2. Played(Oldest[n], PacketAt(n)) \in D
      BY <3>1, <1>a
    <3>3. QED
      BY <3>1, <3>2, <1>7
  <2>3. S \in SUBSET Nat
    OBVIOUS
  <2>4. S = Nat
    <3> HIDE DEF S
    <3>1. QED
      BY <2>1, <2>2, <2>3, AllNaturals
  <2>5. QED
    BY <2>4
<1>10. QED
  BY <1>7, <1>8, <1>9

\* What is known of every state of the ring, and so of the next one.
Facts ==
    /\ ReadPosAfter[0] = readPos
    /\ \A n \in Nat :
         /\ ReadPosAfter[n] \in 0..QbSize
         /\ Lengths[n] \in 0..QbSize - 1
         /\ ReadPosAfter[n + 1] = Place(ReadPosAfter[n], Lengths[n]) + Lengths[n]
         /\ Contents[n] \in Seq(Bytes) /\ Len(Contents[n]) = Lengths[n]
    /\ Oldest[0] = <<>>
    /\ \A n \in Nat :
         /\ Oldest[n] \in Seq(Seq(Bytes))
         /\ Oldest[n + 1] = Played(Oldest[n], Contents[n])

\* Proved of the current state, and by priming all of it of the next one.
LEMMA FactsHold == RingTypeOK => Facts
<1> SUFFICES ASSUME RingTypeOK PROVE Facts
  OBVIOUS
<1>1. ASSUME NEW n \in Nat
      PROVE  /\ ReadPosAfter[n] \in 0..QbSize
             /\ Lengths[n] \in 0..QbSize - 1
             /\ ReadPosAfter[n + 1] = Place(ReadPosAfter[n], Lengths[n]) + Lengths[n]
             /\ Contents[n] \in Seq(Bytes) /\ Len(Contents[n]) = Lengths[n]
  <2>1. Lengths[n] = InfoAt(n).len /\ Contents[n] = PacketAt(n)
    BY DEF Lengths, Contents
  <2>2. ReadPosAfter[n] \in 0..QbSize /\ InfoAt(n).len \in 0..QbSize - 1
    BY ReadPosWithin, LengthIs
  <2>3. ReadPosAfter[n + 1] = Place(ReadPosAfter[n], InfoAt(n).len) + InfoAt(n).len
    BY ReadPosIs DEF NextPos
  <2>4. PacketAt(n) \in Seq(Bytes) /\ Len(PacketAt(n)) = InfoAt(n).len
    BY PacketIs DEF Bytes
  <2>5. QED
    BY <2>1, <2>2, <2>3, <2>4
<1>2. ASSUME NEW n \in Nat
      PROVE  Oldest[n] \in Seq(Seq(Bytes)) /\ Oldest[n + 1] = Played(Oldest[n], Contents[n])
  <2>1. Contents[n] = PacketAt(n)
    BY DEF Contents
  <2>2. QED
    BY <2>1, OldestIs
<1>3. ReadPosAfter[0] = readPos /\ Oldest[0] = <<>>
  BY ReadPosIs, OldestIs
<1>4. QED
  BY <1>1, <1>2, <1>3 DEF Facts

LEMMA FactsNext == RingTypeOK' => Facts'
  BY FactsHold, PTL

----------------------------------------------------------------------------
(***************************************************************************)
(* The ring of lengths, which is indexed modulo its size, and what stays   *)
(* the same when the oldest packets go.                                    *)
(***************************************************************************)
\* Up to twice its size an index comes round once.
LEMMA ModUpTo ==
    ASSUME NEW x \in 0..2 * InfoCap
    PROVE  x % InfoCap = IF x < InfoCap THEN x
                         ELSE IF x < 2 * InfoCap THEN x - InfoCap ELSE 0
BY RingAssumption

\* The n-th entry from one, and n entries on from it.
LEMMA ModShift ==
    ASSUME NEW a \in 0..InfoCap, NEW n \in Nat \ {0}, NEW k \in Nat, n + k <= InfoCap
    PROVE  (((a + n - 1) % InfoCap) + 1 + k) % InfoCap = (a + (n + k)) % InfoCap
<1>1. InfoCap \in Nat \ {0}
  BY RingAssumption
<1>2. PICK x \in 0..2 * InfoCap : x = a + n - 1 /\ x < 2 * InfoCap
  BY <1>1
<1>3. PICK q \in 0..InfoCap - 1 : q = x % InfoCap /\ q = IF x < InfoCap THEN x ELSE x - InfoCap
  <2>1. x % InfoCap = IF x < InfoCap THEN x ELSE IF x < 2 * InfoCap THEN x - InfoCap ELSE 0
    BY ModUpTo
  <2>2. x % InfoCap \in 0..InfoCap - 1
    BY <1>1
  <2>3. QED
    BY <1>2, <2>1, <2>2, Zenon
<1>4. PICK y \in 0..2 * InfoCap : y = q + 1 + k
  <2>1. q + 1 + k \in 0..2 * InfoCap
    BY <1>1
  <2>2. QED
    BY <2>1, Zenon
<1>5. PICK z \in 0..2 * InfoCap : z = a + (n + k)
  BY <1>1
<1>6. y % InfoCap = IF y < InfoCap THEN y ELSE IF y < 2 * InfoCap THEN y - InfoCap ELSE 0
  BY ModUpTo
<1>7. z % InfoCap = IF z < InfoCap THEN z ELSE IF z < 2 * InfoCap THEN z - InfoCap ELSE 0
  BY ModUpTo
<1>8. z = x + 1 + k
  BY <1>1, <1>2, <1>5
<1>9. y % InfoCap = z % InfoCap
  <2>1. CASE x < InfoCap
    <3>1. y = z
      BY <1>1, <1>3, <1>4, <1>8, <2>1
    <3>2. QED
      BY <3>1
  <2>2. CASE ~(x < InfoCap)
    <3>1. y = z - InfoCap /\ z >= InfoCap /\ y <= InfoCap
      BY <1>1, <1>3, <1>4, <1>8, <2>2
    <3>2. QED
      BY <1>1, <1>6, <1>7, <3>1
  <2>3. QED
    BY <2>1, <2>2
<1>10. QED
  BY <1>2, <1>3, <1>4, <1>5, <1>9

\* The rings of lengths of this state and the next, n packets on.
LEMMA Stepping ==
    ASSUME RingTypeOK, NEW n \in Nat, NEW k \in Nat, n + k <= InfoCap,
           infoRead' = IF n = 0 THEN infoRead ELSE Stepped(infoRead + n - 1)
    PROVE  (infoRead' + k) % InfoCap = (infoRead + (n + k)) % InfoCap
<1>1. infoRead \in 0..InfoCap
  BY DEF RingTypeOK
<1>2. CASE n = 0
  BY <1>1, <1>2
<1>3. CASE n # 0
  BY <1>1, <1>3, ModShift DEF Stepped
<1>4. QED
  BY <1>2, <1>3

\* One entry on.
LEMMA ModNext ==
    ASSUME NEW x \in 0..2 * InfoCap - 1
    PROVE  ((x % InfoCap) + 1) % InfoCap = (x + 1) % InfoCap
<1>1. x % InfoCap = IF x < InfoCap THEN x ELSE x - InfoCap
  BY ModUpTo, RingAssumption
<1>2. (x + 1) % InfoCap = IF x + 1 < InfoCap THEN x + 1
                          ELSE IF x + 1 < 2 * InfoCap THEN x + 1 - InfoCap ELSE 0
  BY ModUpTo, RingAssumption
<1>3. CASE x < InfoCap
  BY <1>1, <1>3
<1>4. CASE x >= InfoCap
  <2>1. (x - InfoCap + 1) % InfoCap = IF x - InfoCap + 1 < InfoCap THEN x - InfoCap + 1
                                     ELSE 0
    BY <1>4, ModUpTo, RingAssumption
  <2>2. QED
    BY <1>1, <1>2, <1>4, <2>1, RingAssumption
<1>5. QED
  BY <1>3, <1>4, RingAssumption

\* Different packets have different entries.
LEMMA ModApart ==
    ASSUME NEW x \in 0..2 * InfoCap, NEW y \in 0..2 * InfoCap, x < y, y - x < InfoCap
    PROVE  x % InfoCap # y % InfoCap
BY ModUpTo, RingAssumption

\* Where packets begin n packets on.
LEMMA Shift ==
    ASSUME Facts, Facts', NEW n \in Nat, NEW c \in Nat,
           readPos' = ReadPosAfter[n],
           \A k \in 0..c - 1 : Lengths'[k] = Lengths[n + k]
    PROVE  \A k \in 0..c : ReadPosAfter'[k] = ReadPosAfter[n + k]
<1> DEFINE S == {k \in Nat : k <= c => ReadPosAfter'[k] = ReadPosAfter[n + k]}
<1>1. 0 \in S
  BY DEF Facts
<1>2. ASSUME NEW k \in S PROVE k + 1 \in S
  <2>1. SUFFICES ASSUME k + 1 <= c PROVE ReadPosAfter'[k + 1] = ReadPosAfter[n + (k + 1)]
    OBVIOUS
  <2>2. k \in Nat /\ k \in 0..c - 1 /\ ReadPosAfter'[k] = ReadPosAfter[n + k] /\ n + k \in Nat
    BY <2>1
  <2>3. ReadPosAfter'[k + 1] = Place(ReadPosAfter'[k], Lengths'[k]) + Lengths'[k]
    BY <2>2 DEF Facts
  <2>4. ReadPosAfter[(n + k) + 1] = Place(ReadPosAfter[n + k], Lengths[n + k]) + Lengths[n + k]
    BY <2>2 DEF Facts
  <2>5. Lengths'[k] = Lengths[n + k] /\ (n + k) + 1 = n + (k + 1)
    BY <2>2
  <2>6. QED
    BY <2>2, <2>3, <2>4, <2>5
<1>3. S \in SUBSET Nat
  OBVIOUS
<1>4. S = Nat
  <2> HIDE DEF S
  <2>1. QED
    BY <1>1, <1>2, <1>3, AllNaturals
<1>5. QED
  BY <1>4

\* A packet is added behind two sequences as it is behind the second.
LEMMA PlayedBehind ==
    ASSUME NEW A, NEW s \in Seq(A), NEW t \in Seq(A), NEW p \in A
    PROVE  Played(s \o t, p) = s \o Played(t, p)
<1>1. CASE p = <<>>
  BY <1>1 DEF Played
<1>2. CASE p # <<>>
  <2>1. s \o t \in Seq(A)
    BY ConcatProperties
  <2>2. Append(s \o t, p) = (s \o t) \o <<p>> /\ Append(t, p) = t \o <<p>>
    BY <2>1, AppendIsConcat
  <2>3. <<p>> \in Seq(A)
    OBVIOUS
  <2>4. (s \o t) \o <<p>> = s \o (t \o <<p>>)
    BY <2>3, ConcatAssociative
  <2>5. QED
    BY <1>2, <2>2, <2>4 DEF Played
<1>3. QED
  BY <1>1, <1>2

\* What is to be played n packets on.
Splits(n, k) == Oldest[n + k] = Oldest[n] \o Oldest'[k]

\* It is what was to be played before them and what is to be played now.
LEMMA Split ==
    ASSUME Facts, Facts', NEW n \in Nat, NEW c \in Nat,
           \A k \in 0..c - 1 : Contents'[k] = Contents[n + k]
    PROVE  \A k \in 0..c : Splits(n, k)
<1> DEFINE D == Seq(Seq(Bytes))
           S == {k \in Nat : k <= c => Splits(n, k)}
<1>0. \A i \in Nat : Oldest[i] \in D /\ Oldest'[i] \in D
  BY DEF Facts
<1>b. ASSUME NEW s \in D, NEW t \in D, NEW p \in Seq(Bytes)
      PROVE  Played(s \o t, p) = s \o Played(t, p)
  <2>1. PICK A : A = Seq(Bytes)
    OBVIOUS
  <2>2. s \in Seq(A) /\ t \in Seq(A) /\ p \in A
    BY <2>1
  <2>3. QED
    BY <2>2, PlayedBehind
<1>1. 0 \in S
  <2>1. Oldest'[0] = <<>> /\ Oldest[n + 0] = Oldest[n]
    BY DEF Facts
  <2>2. Oldest[n] \o <<>> = Oldest[n]
    BY <1>0, ConcatEmptySeq
  <2>3. Splits(n, 0)
    BY <2>1, <2>2 DEF Splits
  <2>4. QED
    BY <2>3
<1>2. ASSUME NEW k \in S PROVE k + 1 \in S
  <2>1. SUFFICES ASSUME k + 1 <= c PROVE Splits(n, k + 1)
    OBVIOUS
  <2>2. k \in Nat /\ k \in 0..c - 1 /\ Splits(n, k) /\ n + k \in Nat
    BY <2>1
  <2>3. Oldest'[k + 1] = Played(Oldest'[k], Contents'[k])
    BY <2>2 DEF Facts, Played
  <2>4. Oldest[(n + k) + 1] = Played(Oldest[n + k], Contents[n + k])
    BY <2>2 DEF Facts
  <2>5. Contents'[k] = Contents[n + k] /\ (n + k) + 1 = n + (k + 1)
    BY <2>2
  <2>6. PICK p \in Seq(Bytes) : p = Contents[n + k]
    BY <2>2 DEF Facts
  <2>7. PICK s \in D : s = Oldest[n]
    BY <1>0
  <2>8. PICK t \in D : t = Oldest'[k]
    BY <1>0, <2>2
  <2>9. Played(s \o t, p) = s \o Played(t, p)
    BY <1>b, <2>6, Zenon
  <2>10. QED
    BY <2>2, <2>3, <2>4, <2>5, <2>6, <2>7, <2>8, <2>9 DEF Splits
<1>3. S \in SUBSET Nat
  OBVIOUS
<1>4. S = Nat
  <2> HIDE DEF S
  <2>1. QED
    BY <1>1, <1>2, <1>3, AllNaturals
<1>5. QED
  BY <1>4

\* A packet whose bytes, place and length stay is the same packet.
LEMMA SamePacket ==
    ASSUME Facts, NEW j \in Nat, NEW k \in Nat,
           Lengths'[k] = Lengths[j], ReadPosAfter'[k] = ReadPosAfter[j],
           \A i \in 0..QbSize - 1 :
              LET first == Place(ReadPosAfter[j], Lengths[j])
              IN  first <= i /\ i < first + Lengths[j] => buf'[i] = buf[i]
    PROVE  Contents'[k] = Contents[j]
<1> DEFINE p == Place(ReadPosAfter[j], Lengths[j])
<1>1. Contents'[k] =
        [i \in 1..Lengths'[k] |-> buf'[Place(ReadPosAfter'[k], Lengths'[k]) + i - 1]]
  BY DEF Contents, PacketAt, Lengths, Place
<1>2. Contents[j] = [i \in 1..Lengths[j] |-> buf[p + i - 1]]
  BY DEF Contents, PacketAt, Lengths
<1>3. Lengths[j] \in 0..QbSize - 1 /\ ReadPosAfter[j] \in 0..QbSize
  BY DEF Facts
<1>4. ASSUME NEW i \in 1..Lengths[j] PROVE buf'[p + i - 1] = buf[p + i - 1]
  <2>1. p \in Nat /\ p + Lengths[j] <= QbSize
    BY <1>3, RingAssumption DEF Place
  <2> HIDE DEF p
  <2>2. p + i - 1 \in 0..QbSize - 1 /\ p <= p + i - 1 /\ p + i - 1 < p + Lengths[j]
    BY <1>3, <2>1, RingAssumption
  <2>3. QED
    BY <2>2 DEF p
<1>5. Contents'[k] = [i \in 1..Lengths[j] |-> buf'[p + i - 1]]
  BY <1>1
<1> HIDE DEF p
<1>6. QED
  BY <1>2, <1>4, <1>5

\* Reader and writer agree on where the next packet and its length go.
Agreed ==
    /\ qbCount <= InfoCap
    /\ infoWrite % InfoCap = (infoRead + qbCount) % InfoCap
    /\ writePos = ReadPosAfter[qbCount]

\* The new packet's entry, and the old ones.
Entered(n, c, size) ==
    /\ qbCount' = c + 1
    /\ \A k \in 0..c - 1 : Lengths'[k] = Lengths[n + k]
    /\ Lengths'[c] = size
    /\ infoWrite' % InfoCap = (infoRead' + qbCount') % InfoCap

\* No entry that is in use is overwritten while there are free ones.
LEMMA StoreEntries ==
    ASSUME RingTypeOK, Agreed, NEW id, NEW size, NEW type, NEW n \in 0..qbCount, NEW r, NEW w,
           Store(id, size, type, n, r, w), qbCount' <= InfoCap, NEW c \in Nat, c = qbCount - n
    PROVE  Entered(n, c, size)
<1>1. /\ qbCount \in Nat /\ infoRead \in 0..InfoCap /\ InfoCap \in Nat \ {0}
      /\ qbCount <= InfoCap
      /\ infoWrite \in 0..InfoCap
  BY RingAssumption DEF RingTypeOK, Agreed
<1>2. qbCount' = c + 1 /\ c + 1 <= InfoCap /\ n + c = qbCount
  BY <1>1 DEF Store
<1>3. PICK e \in 0..InfoCap - 1 : e = infoWrite % InfoCap /\ e = (infoRead + qbCount) % InfoCap
  BY <1>1 DEF Agreed
<1>4. \A k \in 0..c : (infoRead' + k) % InfoCap = (infoRead + (n + k)) % InfoCap
  <2>1. infoRead' = IF n = 0 THEN infoRead ELSE Stepped(infoRead + n - 1)
    BY DEF Store
  <2>2. ASSUME NEW k \in 0..c PROVE k \in Nat /\ n \in Nat /\ n + k <= InfoCap
    BY <1>1
  <2>3. QED
    BY <2>1, <2>2, Stepping
<1>a. info' = [info EXCEPT ![e] = [len |-> size, type |-> type]]
  BY <1>3 DEF Store
<1>b. infoWrite' = e + 1
  BY <1>3 DEF Store, Stepped
<1>c. infoRead' \in 0..InfoCap
  <2>1. \A k \in Nat : Stepped(k) \in 0..InfoCap
    BY RingAssumption DEF Stepped
  <2>2. CASE n = 0
    BY <1>1, <2>2 DEF Store
  <2>3. CASE n # 0
    <3>1. infoRead + n - 1 \in Nat
      BY <1>1, <2>3
    <3>2. QED
      BY <2>1, <2>3, <3>1 DEF Store
  <2>4. QED
    BY <2>2, <2>3
<1>5. ASSUME NEW k \in 0..c - 1 PROVE Lengths'[k] = Lengths[n + k]
  <2>1. (infoRead + (n + k)) % InfoCap # e
    <3>1. PICK x \in 0..2 * InfoCap : x = infoRead + (n + k)
      BY <1>1, <1>2
    <3>2. PICK y \in 0..2 * InfoCap : y = infoRead + qbCount
      BY <1>1, <1>2
    <3>3. x < y /\ y - x < InfoCap
      BY <1>1, <1>2, <3>1, <3>2
    <3>4. x % InfoCap # y % InfoCap
      BY <3>3, ModApart
    <3>5. QED
      BY <1>3, <3>1, <3>2, <3>4
  <2>2. (infoRead' + k) % InfoCap = (infoRead + (n + k)) % InfoCap
    BY <1>2, <1>4
  <2>3. (infoRead + (n + k)) % InfoCap \in 0..InfoCap - 1
    BY <1>1
  <2>4. info'[(infoRead + (n + k)) % InfoCap] = info[(infoRead + (n + k)) % InfoCap]
    BY <1>a, <2>1, <2>3 DEF RingTypeOK
  <2>5. QED
    BY <2>2, <2>4 DEF Lengths, InfoAt
<1>6. Lengths'[c] = size
  <2>1. (infoRead' + c) % InfoCap = e
    <3>1. n + c = qbCount /\ c \in 0..c
      BY <1>2
    <3>2. QED
      BY <1>3, <1>4, <3>1
  <2>2. info'[e] = [len |-> size, type |-> type]
    BY <1>a DEF RingTypeOK
  <2>3. QED
    BY <2>1, <2>2 DEF Lengths, InfoAt
<1>7. infoWrite' % InfoCap = (infoRead' + qbCount') % InfoCap
  <2>1. PICK x \in 0..2 * InfoCap - 1 : x = infoRead' + c
    <3>1. PICK i \in 0..InfoCap : i = infoRead'
      BY <1>c
    <3>2. c + 1 <= InfoCap /\ InfoCap \in Nat
      BY <1>1, <1>2
    <3>3. i + c \in 0..2 * InfoCap - 1
      BY <3>2
    <3>4. QED
      BY <3>1, <3>3, Zenon
  <2>2. x % InfoCap = e
    <3>1. n + c = qbCount /\ c \in 0..c
      BY <1>2
    <3>2. QED
      BY <1>3, <1>4, <2>1, <3>1
  <2>3. (e + 1) % InfoCap = (x + 1) % InfoCap
    BY <2>2, ModNext
  <2>4. QED
    <3>1. x + 1 = infoRead' + qbCount'
      BY <1>1, <1>2, <1>c, <2>1
    <3>2. QED
      BY <1>b, <2>3, <3>1
<1>8. QED
  BY <1>2, <1>5, <1>6, <1>7 DEF Entered

----------------------------------------------------------------------------
(***************************************************************************)
(* The layout of the buffer.  The packets lie side by side (Straight) or   *)
(* are folded once over its end (FoldedAt); dropping the oldest keeps      *)
(* this, and so does putting one where the code says that there is room,   *)
(* which is never where another lies.                                      *)
(***************************************************************************)
\* R[k] is where the reader is before packet k, L[k] how long that is.
Walks(R, L) ==
    \A k \in Nat : /\ R[k] \in 0..QbSize
                   /\ L[k] \in 0..QbSize - 1
                   /\ R[k + 1] = Place(R[k], L[k]) + L[k]

\* The first byte of packet k.
Begin(R, L, k) == Place(R[k], L[k])

\* From packet i to j each one begins behind the one before.
Ascends(R, i, j) == \A k, l \in i..j : k <= l => R[k] <= R[l]

\* All of the first c packets lie side by side, or all before the m-th, ahead of which
\* are the others.
Straight(R, L, c) == Ascends(R, 0, c) /\ \A k \in 0..c - 1 : R[k] + L[k] <= QbSize
FoldedAt(R, L, c, m) ==
    /\ Ascends(R, 0, m) /\ Ascends(R, m + 1, c)
    /\ R[c] < R[0]
    /\ \A k \in 0..c - 1 : R[k] + L[k] <= QbSize <=> k # m
Shape(R, L, c) == Straight(R, L, c) \/ \E m \in 0..c - 1 : FoldedAt(R, L, c, m)

\* Dropping the n oldest.
LEMMA Dropped ==
    ASSUME NEW R, NEW L, NEW S, NEW M, Walks(R, L), Walks(S, M), NEW n \in Nat, NEW c \in Nat,
           Shape(R, L, n + c),
           \A k \in 0..c : S[k] = R[n + k], \A k \in 0..c - 1 : M[k] = L[n + k]
    PROVE  Shape(S, M, c)
<1>1. CASE Straight(R, L, n + c)
  <2>1. ASSUME NEW k \in 0..c, NEW l \in 0..c, k <= l PROVE S[k] <= S[l]
    <3>1. n + k \in 0..n + c /\ n + l \in 0..n + c /\ n + k <= n + l
      BY <2>1
    <3>2. R[n + k] <= R[n + l]
      BY <1>1, <3>1 DEF Straight, Ascends
    <3>3. QED
      BY <3>2
  <2>2. ASSUME NEW k \in 0..c - 1 PROVE S[k] + M[k] <= QbSize
    <3>1. n + k \in 0..(n + c) - 1 /\ k \in 0..c
      OBVIOUS
    <3>2. R[n + k] + L[n + k] <= QbSize
      BY <1>1, <3>1 DEF Straight
    <3>3. QED
      BY <3>1, <3>2
  <2>3. QED
    BY <2>1, <2>2 DEF Straight, Ascends, Shape
<1>2. ASSUME NEW m \in 0..(n + c) - 1, FoldedAt(R, L, n + c, m)
      PROVE  Shape(S, M, c)
  <2>1. CASE n <= m
    <3>1. PICK j \in 0..c - 1 : m = n + j
      <4>1. m - n \in 0..c - 1 /\ m = n + (m - n)
        BY <2>1
      <4>2. QED
        BY <4>1
    <3>2. ASSUME NEW k \in 0..j, NEW l \in 0..j, k <= l PROVE S[k] <= S[l]
      <4>1. n + k \in 0..m /\ n + l \in 0..m /\ n + k <= n + l /\ k \in 0..c /\ l \in 0..c
        BY <3>1, <3>2
      <4>2. R[n + k] <= R[n + l]
        BY <1>2, <4>1 DEF FoldedAt, Ascends
      <4>3. QED
        BY <4>1, <4>2
    <3>3. ASSUME NEW k \in j + 1..c, NEW l \in j + 1..c, k <= l PROVE S[k] <= S[l]
      <4>1. n + k \in m + 1..n + c /\ n + l \in m + 1..n + c /\ n + k <= n + l
            /\ k \in 0..c /\ l \in 0..c
        BY <3>1, <3>3
      <4>2. R[n + k] <= R[n + l]
        BY <1>2, <4>1 DEF FoldedAt, Ascends
      <4>3. QED
        BY <4>1, <4>2
    <3>4. S[c] < S[0]
      <4>1. S[c] = R[n + c] /\ S[0] = R[n]
        OBVIOUS
      <4>2. 0 \in 0..m /\ n \in 0..m /\ 0 <= n
        BY <2>1
      <4>3. R[0] <= R[n] /\ R[n + c] < R[0]
        BY <1>2, <4>2 DEF FoldedAt, Ascends
      <4>4. R[0] \in Nat /\ R[n] \in Nat /\ R[n + c] \in Nat
        BY DEF Walks
      <4>5. QED
        BY <4>1, <4>3, <4>4
    <3>5. ASSUME NEW k \in 0..c - 1 PROVE S[k] + M[k] <= QbSize <=> k # j
      <4>1. n + k \in 0..(n + c) - 1 /\ k \in 0..c /\ (n + k # m <=> k # j)
        BY <3>1
      <4>2. R[n + k] + L[n + k] <= QbSize <=> n + k # m
        BY <1>2, <4>1 DEF FoldedAt
      <4>3. QED
        BY <4>1, <4>2
    <3>6. FoldedAt(S, M, c, j)
      BY <3>2, <3>3, <3>4, <3>5 DEF FoldedAt, Ascends
    <3>7. QED
      BY <3>6 DEF Shape
  <2>2. CASE n > m
    <3>1. ASSUME NEW k \in 0..c, NEW l \in 0..c, k <= l PROVE S[k] <= S[l]
      <4>1. n + k \in m + 1..n + c /\ n + l \in m + 1..n + c /\ n + k <= n + l
        BY <2>2, <3>1
      <4>2. R[n + k] <= R[n + l]
        BY <1>2, <4>1 DEF FoldedAt, Ascends
      <4>3. QED
        BY <4>2
    <3>2. ASSUME NEW k \in 0..c - 1 PROVE S[k] + M[k] <= QbSize
      <4>1. n + k \in 0..(n + c) - 1 /\ k \in 0..c /\ n + k # m
        BY <2>2
      <4>2. R[n + k] + L[n + k] <= QbSize
        BY <1>2, <4>1 DEF FoldedAt
      <4>3. QED
        BY <4>1, <4>2
    <3>3. QED
      BY <3>1, <3>2 DEF Straight, Ascends, Shape
  <2>3. QED
    BY <2>1, <2>2
<1>3. QED
  BY <1>1, <1>2 DEF Shape

\* There is room for packet c: behind the others, or ahead of them all, or between the
\* last and the first.
Room(R, L, c) ==
    \/ R[0] <= R[c] /\ R[c] + L[c] <= QbSize
    \/ R[0] <= R[c] /\ R[c] + L[c] > QbSize /\ L[c] < R[0]
    \/ R[c] + L[c] < R[0]

\* Packets k and l have no byte in common.
Disjoint(R, L, k, l) ==
    Begin(R, L, k) + L[k] <= Begin(R, L, l) \/ Begin(R, L, l) + L[l] <= Begin(R, L, k)

\* It fits there: the layout stays one, and no byte of another packet is written.
LEMMA Added ==
    ASSUME NEW R, NEW L, Walks(R, L), NEW c \in Nat, Shape(R, L, c), Room(R, L, c)
    PROVE  /\ Shape(R, L, c + 1)
           /\ \A k \in 0..c - 1 : Disjoint(R, L, k, c)
<1>0. QbSize \in Nat \ {0}
  BY RingAssumption
<1>1. \A k \in Nat : R[k] \in 0..QbSize /\ L[k] \in 0..QbSize - 1
  BY DEF Walks
<1>2. \A k \in Nat : R[k] + L[k] <= QbSize =>
         R[k + 1] = R[k] + L[k] /\ R[k] <= R[k + 1] /\ Begin(R, L, k) = R[k]
  BY <1>0, <1>1 DEF Walks, Begin, Place
<1>3. \A k \in Nat : ~(R[k] + L[k] <= QbSize) => R[k + 1] = L[k] /\ Begin(R, L, k) = 0
  BY <1>0, <1>1 DEF Walks, Begin, Place
<1>4. CASE Straight(R, L, c) /\ R[0] <= R[c] /\ R[c] + L[c] <= QbSize
  <2>1. \A k \in 0..c : R[k] + L[k] <= QbSize
    BY <1>4 DEF Straight
  <2>2. Ascends(R, 0, c + 1)
    <3>1. ASSUME NEW k \in 0..c + 1, NEW l \in 0..c + 1, k <= l PROVE R[k] <= R[l]
      <4>1. CASE l <= c
        BY <1>4, <3>1, <4>1 DEF Straight, Ascends
      <4>2. CASE k <= c /\ l = c + 1
        <5>1. R[k] <= R[c]
          BY <1>4, <4>2 DEF Straight, Ascends
        <5>2. R[c] <= R[c + 1]
          BY <1>2, <2>1
        <5>3. QED
          BY <1>1, <4>2, <5>1, <5>2
      <4>3. CASE k = c + 1 /\ l = c + 1
        BY <1>1, <4>3
      <4>4. QED
        BY <3>1, <4>1, <4>2, <4>3
    <3>2. QED
      BY <3>1 DEF Ascends
  <2>3. ASSUME NEW k \in 0..c - 1 PROVE Disjoint(R, L, k, c)
    <3>1. R[k + 1] <= R[c]
      BY <1>4 DEF Straight, Ascends
    <3>2. R[k + 1] = R[k] + L[k] /\ Begin(R, L, k) = R[k] /\ Begin(R, L, c) = R[c]
      BY <1>2, <2>1
    <3>3. QED
      BY <3>1, <3>2 DEF Disjoint
  <2>4. QED
    BY <2>1, <2>2, <2>3 DEF Straight, Shape
<1>5. CASE Straight(R, L, c) /\ R[0] <= R[c] /\ R[c] + L[c] > QbSize /\ L[c] < R[0]
  <2>1. R[c + 1] = L[c] /\ Begin(R, L, c) = 0
    BY <1>0, <1>1, <1>3, <1>5
  <2>2. Ascends(R, 0, c)
    BY <1>5 DEF Straight
  <2>3. Ascends(R, c + 1, c + 1)
    BY <1>1 DEF Ascends
  <2>4. ASSUME NEW k \in 0..(c + 1) - 1 PROVE R[k] + L[k] <= QbSize <=> k # c
    <3>1. k # c => k \in 0..c - 1
      OBVIOUS
    <3>2. ~(R[c] + L[c] <= QbSize)
      BY <1>0, <1>1, <1>5
    <3>3. QED
      BY <1>5, <3>1, <3>2 DEF Straight
  <2>5. FoldedAt(R, L, c + 1, c)
    BY <1>5, <2>1, <2>2, <2>3, <2>4 DEF FoldedAt
  <2>6. ASSUME NEW k \in 0..c - 1 PROVE Disjoint(R, L, k, c)
    <3>1. R[0] <= R[k] /\ R[k] + L[k] <= QbSize
      BY <1>5 DEF Straight, Ascends
    <3>2. Begin(R, L, k) = R[k]
      BY <1>2, <3>1
    <3>3. QED
      BY <1>1, <1>5, <2>1, <3>1, <3>2 DEF Disjoint
  <2>7. c \in 0..(c + 1) - 1
    OBVIOUS
  <2>8. QED
    BY <2>5, <2>6, <2>7 DEF Shape
<1>6. ASSUME NEW m \in 0..c - 1, FoldedAt(R, L, c, m), R[c] + L[c] < R[0]
      PROVE  /\ Shape(R, L, c + 1)
             /\ \A k \in 0..c - 1 : Disjoint(R, L, k, c)
  <2>1. R[c] + L[c] <= QbSize
    BY <1>0, <1>1, <1>6
  <2>2. R[c + 1] = R[c] + L[c] /\ Begin(R, L, c) = R[c] /\ R[c] <= R[c + 1]
    BY <1>2, <2>1
  <2>3. Ascends(R, m + 1, c + 1)
    <3>1. ASSUME NEW k \in m + 1..c + 1, NEW l \in m + 1..c + 1, k <= l PROVE R[k] <= R[l]
      <4>1. CASE l <= c
        BY <1>6, <3>1, <4>1 DEF FoldedAt, Ascends
      <4>2. CASE k <= c /\ l = c + 1
        <5>1. R[k] <= R[c]
          BY <1>6, <4>2 DEF FoldedAt, Ascends
        <5>2. QED
          BY <1>1, <4>2, <5>1, <2>2
      <4>3. CASE k = c + 1 /\ l = c + 1
        BY <1>1, <4>3
      <4>4. QED
        BY <3>1, <4>1, <4>2, <4>3
    <3>2. QED
      BY <3>1 DEF Ascends
  <2>4. ASSUME NEW k \in 0..(c + 1) - 1 PROVE R[k] + L[k] <= QbSize <=> k # m
    <3>1. CASE k = c
      BY <2>1, <3>1
    <3>2. CASE k # c
      <4>1. k \in 0..c - 1
        BY <3>2
      <4>2. QED
        BY <1>6, <4>1 DEF FoldedAt
    <3>3. QED
      BY <3>1, <3>2
  <2>5. FoldedAt(R, L, c + 1, m)
    BY <1>6, <2>2, <2>3, <2>4 DEF FoldedAt
  <2>6. ASSUME NEW k \in 0..c - 1 PROVE Disjoint(R, L, k, c)
    <3>1. CASE k < m
      <4>1. R[0] <= R[k] /\ R[k] + L[k] <= QbSize
        BY <1>6, <3>1 DEF FoldedAt, Ascends
      <4>2. Begin(R, L, k) = R[k]
        BY <1>2, <4>1
      <4>3. QED
        BY <1>1, <1>6, <2>2, <4>1, <4>2 DEF Disjoint
    <3>2. CASE k >= m
      <4>1. k + 1 \in m + 1..c /\ c \in m + 1..c /\ k + 1 <= c
        BY <3>2
      <4>2. R[k + 1] <= R[c]
        BY <1>6, <4>1 DEF FoldedAt, Ascends
      <4>3. Begin(R, L, k) + L[k] = R[k + 1]
        BY DEF Walks, Begin
      <4>4. QED
        BY <2>2, <4>2, <4>3 DEF Disjoint
    <3>3. QED
      BY <3>1, <3>2
  <2>7. m \in 0..(c + 1) - 1
    OBVIOUS
  <2>8. QED
    BY <2>5, <2>6, <2>7 DEF Shape
<1>7. Straight(R, L, c) => R[0] <= R[c]
  BY DEF Straight, Ascends
<1>8. \A m \in 0..c - 1 : FoldedAt(R, L, c, m) => R[c] < R[0]
  BY DEF FoldedAt
<1>9. ~(R[0] <= R[c] /\ R[c] < R[0]) /\ (R[0] <= R[c] => ~(R[c] + L[c] < R[0]))
  BY <1>1
<1>10. QED
  BY <1>4, <1>5, <1>6, <1>7, <1>8, <1>9 DEF Shape, Room

----------------------------------------------------------------------------
(***************************************************************************)
(* The operations of the ring keep the layout, and every packet that stays *)
(* in it.                                                                  *)
(***************************************************************************)
\* The invariant of a ring that is not spoilt.
Laid == Agreed /\ Shape(ReadPosAfter, Lengths, qbCount)

\* The positions of a state of the ring, and of the next one, are such a walk.
LEMMA WalksOf ==
    ASSUME RingTypeOK, RingTypeOK'
    PROVE  /\ Facts /\ Walks(ReadPosAfter, Lengths)
           /\ Facts' /\ Walks(ReadPosAfter', Lengths')
<1>1. Facts /\ Facts'
  BY FactsHold, FactsNext
<1>3. Walks(ReadPosAfter, Lengths)
  BY <1>1 DEF Walks, Facts
<1>4. Walks(ReadPosAfter', Lengths')
  <2>1. ASSUME NEW k \in Nat
        PROVE  /\ ReadPosAfter'[k] \in 0..QbSize
               /\ Lengths'[k] \in 0..QbSize - 1
               /\ ReadPosAfter'[k + 1] = Place(ReadPosAfter'[k], Lengths'[k]) + Lengths'[k]
    BY <1>1 DEF Facts, Place
  <2>2. QED
    BY <2>1 DEF Walks
<1>5. QED
  BY <1>1, <1>3, <1>4

\* The n oldest packets go, p comes behind the c that stay.
Moved(n, c, p) ==
    /\ qbCount = n + c /\ qbCount' = c + 1
    /\ \A k \in 0..c - 1 : Contents'[k] = Contents[n + k]
    /\ Contents'[c] = p

\* A packet is stored where there is room for it behind those that stay.
LEMMA StoreLays ==
    ASSUME RingTypeOK, RingTypeOK', Laid, NEW id, NEW size \in 0..QbSize - 1, NEW type,
           NEW n \in 0..qbCount, NEW c \in Nat, c = qbCount - n, NEW r, NEW w,
           Store(id, size, type, n, r, w), qbCount' <= InfoCap,
           \A k \in 0..c - 1 : ReadPosAfter'[k] = ReadPosAfter[n + k],
           Shape(ReadPosAfter', Lengths', c), Room(ReadPosAfter', Lengths', c),
           w = Begin(ReadPosAfter', Lengths', c)
    PROVE  Laid' /\ Moved(n, c, Packet(id, size))
<1>0. Agreed
  BY DEF Laid
<1>1. /\ qbCount' = c + 1
      /\ \A k \in 0..c - 1 : Lengths'[k] = Lengths[n + k]
      /\ Lengths'[c] = size
      /\ infoWrite' % InfoCap = (infoRead' + qbCount') % InfoCap
  <2>1. Entered(n, c, size)
    BY <1>0, StoreEntries
  <2>2. QED
    BY <2>1 DEF Entered
<1>2. /\ Facts /\ Walks(ReadPosAfter, Lengths)
      /\ Facts' /\ Walks(ReadPosAfter', Lengths')
  BY WalksOf
<1>3. /\ Shape(ReadPosAfter', Lengths', c + 1)
      /\ \A k \in 0..c - 1 : Disjoint(ReadPosAfter', Lengths', k, c)
  BY <1>2, Added
<1>4. ReadPosAfter'[c + 1] = w + size
  <2>1. ReadPosAfter'[c + 1] = Place(ReadPosAfter'[c], Lengths'[c]) + Lengths'[c]
    BY <1>2 DEF Walks
  <2>2. Lengths'[c] = size
    BY <1>1, <1>2
  <2>3. QED
    BY <2>1, <2>2 DEF Begin
<1>5. Laid'
  <2>1. writePos' = w + size
    BY DEF Store
  <2>2. QED
    BY <1>1, <1>3, <1>4, <2>1 DEF Laid, Agreed
<1>6. w = Place(ReadPosAfter'[c], size) /\ w \in Nat /\ w + size <= QbSize
  <2>1. ReadPosAfter'[c] \in 0..QbSize
    BY <1>2 DEF Walks
  <2>2. QED
    BY <1>1, <1>2, <2>1, RingAssumption DEF Begin, Place
<1>7. buf' = [i \in 0..QbSize - 1 |->
                IF w <= i /\ i < w + size THEN Packet(id, size)[i - w + 1] ELSE buf[i]]
  BY DEF Store
<1>8. Contents'[c] = Packet(id, size)
  <2>1. Contents'[c] = [i \in 1..size |-> buf'[w + i - 1]]
    BY <1>1, <1>6 DEF Contents, PacketAt, Lengths, Place
  <2>2. ASSUME NEW i \in 1..size PROVE buf'[w + i - 1] = Packet(id, size)[i]
    <3>1. PICK v \in Nat : v = w
      BY <1>6
    <3>2. v + size <= QbSize
      BY <1>6, <3>1
    <3>3. v + i - 1 \in 0..QbSize - 1 /\ v <= v + i - 1 /\ v + i - 1 < v + size
          /\ (v + i - 1) - v + 1 = i
      BY <3>2, RingAssumption
    <3>4. QED
      BY <1>7, <3>1, <3>3
  <2>3. Packet(id, size) = [i \in 1..size |-> Packet(id, size)[i]]
    BY DEF Packet
  <2>4. QED
    BY <2>1, <2>2, <2>3
<1>9. ASSUME NEW k \in 0..c - 1 PROVE Contents'[k] = Contents[n + k]
  <2>1. n + k \in Nat /\ k \in Nat /\ c \in Nat
    OBVIOUS
  <2>2. ReadPosAfter'[k] = ReadPosAfter[n + k] /\ Lengths'[k] = Lengths[n + k]
    BY <1>1
  <2> DEFINE b == Place(ReadPosAfter[n + k], Lengths[n + k])
  <2>3. b + Lengths[n + k] <= w \/ w + size <= b
    <3>1. Disjoint(ReadPosAfter', Lengths', k, c)
      BY <1>3
    <3>2. Lengths'[k] = Lengths[n + k] /\ Lengths'[c] = size
      BY <1>1, <1>2, <2>1, <2>2
    <3>3. Begin(ReadPosAfter', Lengths', k) = b
      BY <2>2, <3>2 DEF Begin
    <3>4. QED
      BY <3>1, <3>2, <3>3 DEF Disjoint
  <2>4. b \in Nat /\ Lengths[n + k] \in Nat
    <3>1. ReadPosAfter[n + k] \in 0..QbSize /\ Lengths[n + k] \in 0..QbSize - 1
      BY <1>2, <2>1 DEF Facts
    <3>2. QED
      BY <3>1, RingAssumption DEF Place
  <2> HIDE DEF b
  <2>5. ASSUME NEW i \in 0..QbSize - 1, b <= i, i < b + Lengths[n + k] PROVE buf'[i] = buf[i]
    <3>1. ~(w <= i /\ i < w + size)
      BY <1>6, <2>3, <2>4, <2>5
    <3>2. QED
      BY <1>7, <3>1
  <2> USE DEF b
  <2>6. QED
    BY <1>2, <2>1, <2>2, <2>5, SamePacket
<1>10. qbCount = n + c
  BY DEF RingTypeOK
<1>11. QED
  BY <1>1, <1>5, <1>8, <1>9, <1>10 DEF Moved

\* Nothing happens to the ring.
LEMMA SameRing ==
    ASSUME UNCHANGED ring
    PROVE  /\ Laid' = Laid /\ Contents' = Contents /\ Oldest' = Oldest /\ qbCount' = qbCount
<1>1. Lengths' = Lengths
  BY DEF Lengths, InfoAt, ring
<1>2. ReadPosAfter' = ReadPosAfter
  BY DEF ReadPosAfter, InfoAt, Place, ring
<1>3. Contents' = Contents
  BY DEF Contents, PacketAt, ReadPosAfter, InfoAt, Place, ring
<1>4. Oldest' = Oldest
  BY DEF Oldest, PacketAt, ReadPosAfter, InfoAt, Place, ring
<1>5. Laid' = Laid
  BY <1>1, <1>2 DEF Laid, Agreed, Shape, Straight, FoldedAt, Ascends, ring
<1>6. QED
  BY <1>3, <1>4, <1>5 DEF ring

\* Behind the packets that stay, where there is room.
LEMMA StoreBehind ==
    ASSUME RingTypeOK, RingTypeOK', Laid, NEW id, NEW size \in 0..QbSize - 1, NEW type,
           NEW n \in 0..qbCount, NEW w, w = Place(writePos, size),
           Store(id, size, type, n, ReadPosAfter[n], w), qbCount' <= InfoCap,
           \/ ReadPosAfter[n] <= writePos /\ writePos + size <= QbSize
           \/ ReadPosAfter[n] <= writePos /\ writePos + size > QbSize /\ size < ReadPosAfter[n]
           \/ writePos + size < ReadPosAfter[n]
    PROVE  Laid' /\ \E c \in Nat : Moved(n, c, Packet(id, size))
<1>0. Agreed /\ Shape(ReadPosAfter, Lengths, qbCount) /\ writePos = ReadPosAfter[qbCount]
  BY DEF Laid, Agreed
<1>1. /\ Facts /\ Walks(ReadPosAfter, Lengths)
      /\ Facts' /\ Walks(ReadPosAfter', Lengths')
  BY WalksOf
<1>2. PICK c \in Nat : c = qbCount - n
  BY DEF RingTypeOK
<1>3. n \in Nat /\ n + c = qbCount
  BY <1>2 DEF RingTypeOK
<1>4. Entered(n, c, size)
  BY <1>0, <1>2, StoreEntries
<1>5. \A k \in 0..c - 1 : Lengths'[k] = Lengths[n + k]
  BY <1>4 DEF Entered
<1>6. readPos' = ReadPosAfter[n]
  BY DEF Store
<1>7. \A k \in 0..c : ReadPosAfter'[k] = ReadPosAfter[n + k]
  BY <1>1, <1>3, <1>5, <1>6, Shift
<1>8. Shape(ReadPosAfter', Lengths', c)
  <2>1. Shape(ReadPosAfter, Lengths, n + c)
    BY <1>0, <1>3
  <2>2. QED
    BY <1>1, <1>3, <1>5, <1>7, <2>1, Dropped
<1>9. ReadPosAfter'[0] = ReadPosAfter[n] /\ ReadPosAfter'[c] = writePos /\ Lengths'[c] = size
  <2>1. ReadPosAfter'[0] = ReadPosAfter[n + 0] /\ n + 0 = n
    BY <1>3, <1>7
  <2>2. ReadPosAfter'[c] = ReadPosAfter[n + c]
    BY <1>7
  <2>3. QED
    BY <1>0, <1>3, <1>4, <2>1, <2>2 DEF Entered
<1>10. Room(ReadPosAfter', Lengths', c) /\ w = Begin(ReadPosAfter', Lengths', c)
  BY <1>9 DEF Room, Begin
<1>11. \A k \in 0..c - 1 : ReadPosAfter'[k] = ReadPosAfter[n + k]
  BY <1>7
<1>12. Laid' /\ Moved(n, c, Packet(id, size))
  BY <1>2, <1>8, <1>10, <1>11, StoreLays
<1>13. QED
  BY <1>12

\* Whichever of the cases a packet is written by.
LEMMA WriteLays ==
    ASSUME RingTypeOK, RingTypeOK', Laid, NEW id \in Nat, NEW size \in Nat, NEW type \in Types,
           WriteQueue(id, size, type), qbCount' <= InfoCap
    PROVE  /\ Laid'
           /\ \/ UNCHANGED ring
              \/ size < QbSize /\ \E n, c \in Nat : Moved(n, c, Packet(id, size))
<1>1. /\ Facts /\ Walks(ReadPosAfter, Lengths)
      /\ Facts' /\ Walks(ReadPosAfter', Lengths')
  BY WalksOf
<1>2. /\ QbSize \in Nat \ {0} /\ qbCount \in Nat
      /\ readPos \in 0..QbSize /\ writePos \in 0..QbSize
  BY RingAssumption DEF RingTypeOK
<1>3. /\ Agreed /\ Shape(ReadPosAfter, Lengths, qbCount)
      /\ writePos = ReadPosAfter[qbCount] /\ readPos = ReadPosAfter[0]
  BY <1>1 DEF Laid, Agreed, Facts
<1>4. CASE UNCHANGED ring
  BY <1>4, SameRing
<1>5. CASE size < QbSize /\ FitsRight(size) /\ Store(id, size, type, 0, readPos, writePos)
  <2>1. /\ size \in 0..QbSize - 1 /\ 0 \in 0..qbCount
        /\ ReadPosAfter[0] <= writePos /\ writePos + size <= QbSize
    BY <1>2, <1>3, <1>5 DEF FitsRight
  <2>2. writePos = Place(writePos, size)
    BY <1>2, <2>1 DEF Place
  <2>3. Store(id, size, type, 0, ReadPosAfter[0], writePos)
    BY <1>3, <1>5
  <2>4. Laid' /\ \E c \in Nat : Moved(0, c, Packet(id, size))
    BY <2>1, <2>2, <2>3, StoreBehind
  <2>5. QED
    BY <1>5, <2>4
<1>6. ASSUME size < QbSize, ~FitsRight(size), NEW n \in 0..qbCount, FitsLeft(n, size),
             Store(id, size, type, n, ReadPosAfter[n], Left)
      PROVE  Laid' /\ \E c \in Nat : Moved(n, c, Packet(id, size))
  <2>1. size \in 0..QbSize - 1 /\ ReadPosAfter[n] \in 0..QbSize
    <3>1. n \in Nat
      BY <1>2
    <3>2. ReadPosAfter[n] \in 0..QbSize
      BY <1>1, <3>1 DEF Facts
    <3>3. QED
      BY <1>2, <1>6, <3>2
  <2>2. CASE writePos >= readPos
    <3>1. Left = 0 /\ writePos + size > QbSize /\ size < ReadPosAfter[n]
      BY <1>2, <1>6, <2>1, <2>2 DEF Left, FitsRight, FitsLeft
    <3>2. Left = Place(writePos, size)
      BY <1>2, <2>1, <3>1 DEF Place
    <3>3. ReadPosAfter[n] <= writePos
      <4>1. \A m \in 0..qbCount - 1 : ~FoldedAt(ReadPosAfter, Lengths, qbCount, m)
        BY <1>2, <1>3, <2>2 DEF FoldedAt
      <4>2. Straight(ReadPosAfter, Lengths, qbCount)
        BY <1>3, <4>1 DEF Shape
      <4>3. n \in 0..qbCount /\ qbCount \in 0..qbCount /\ n <= qbCount
        BY <1>2
      <4>4. QED
        BY <1>3, <4>2, <4>3 DEF Straight, Ascends
    <3>4. QED
      BY <1>6, <2>1, <3>1, <3>2, <3>3, StoreBehind
  <2>3. CASE writePos < readPos
    <3>1. Left = writePos /\ writePos + size < ReadPosAfter[n]
      BY <1>2, <1>6, <2>1, <2>3 DEF Left, FitsLeft
    <3>2. Left = Place(writePos, size)
      BY <1>2, <2>1, <3>1 DEF Place
    <3>3. QED
      BY <1>6, <2>1, <3>1, <3>2, StoreBehind
  <2>4. QED
    BY <1>2, <2>2, <2>3
<1>7. CASE size < QbSize /\ Store(id, size, type, qbCount, 0, 0)
  <2>1. size \in 0..QbSize - 1 /\ qbCount \in 0..qbCount /\ 0 = qbCount - qbCount
    BY <1>2, <1>7
  <2>2. Entered(qbCount, 0, size)
    BY <1>3, <1>7, <2>1, StoreEntries
  <2>3. ReadPosAfter'[0] = 0 /\ Lengths'[0] = size
    <3>1. readPos' = 0
      BY <1>7 DEF Store
    <3>2. ReadPosAfter'[0] = readPos'
      BY <1>1 DEF Facts
    <3>3. QED
      BY <2>2, <3>1, <3>2 DEF Entered
  <2>4. Shape(ReadPosAfter', Lengths', 0)
    BY <2>3 DEF Shape, Straight, Ascends
  <2>5. Room(ReadPosAfter', Lengths', 0) /\ 0 = Begin(ReadPosAfter', Lengths', 0)
    <3>1. 0 + size <= QbSize /\ size \in Nat
      BY <1>2, <2>1
    <3>2. Room(ReadPosAfter', Lengths', 0)
      BY <2>3, <3>1 DEF Room
    <3>3. 0 = Begin(ReadPosAfter', Lengths', 0)
      BY <1>2, <2>1, <2>3 DEF Begin, Place
    <3>4. QED
      BY <3>2, <3>3
  <2>6. \A k \in 0..0 - 1 : ReadPosAfter'[k] = ReadPosAfter[qbCount + k]
    OBVIOUS
  <2>7. Laid' /\ Moved(qbCount, 0, Packet(id, size))
    BY <1>7, <2>1, <2>4, <2>5, <2>6, StoreLays
  <2>8. QED
    BY <1>2, <1>7, <2>7
<1>8. QED
  <2>1. ASSUME NEW n \in 0..qbCount, NEW c \in Nat, Moved(n, c, Packet(id, size))
        PROVE  \E i, j \in Nat : Moved(i, j, Packet(id, size))
    BY <1>2, <2>1
  <2>2. QED
    BY <1>4, <1>5, <1>6, <1>7, <2>1 DEF WriteQueue

\* The oldest packet goes.
Gone(c) ==
    /\ qbCount = 1 + c /\ qbCount' = c
    /\ \A k \in 0..c - 1 : Contents'[k] = Contents[1 + k]

\* The packets behind it stay where they are.
LEMMA ReadLays ==
    ASSUME RingTypeOK, RingTypeOK', Laid, ReadQueue
    PROVE  Laid' /\ \E c \in Nat : Gone(c)
<1>0. /\ qbCount <= InfoCap
      /\ infoWrite % InfoCap = (infoRead + qbCount) % InfoCap
      /\ Shape(ReadPosAfter, Lengths, qbCount) /\ writePos = ReadPosAfter[qbCount]
  BY DEF Laid, Agreed
<1>1. /\ Facts /\ Walks(ReadPosAfter, Lengths)
      /\ Facts' /\ Walks(ReadPosAfter', Lengths')
  BY WalksOf
<1>2. PICK c \in Nat : c = qbCount - 1 /\ qbCount = 1 + c /\ qbCount' = c
  BY DEF RingTypeOK, ReadQueue
<1>3. \A k \in 0..c : (infoRead' + k) % InfoCap = (infoRead + (1 + k)) % InfoCap
  <2>1. infoRead' = IF 1 = 0 THEN infoRead ELSE Stepped(infoRead + 1 - 1)
    BY DEF ReadQueue, RingTypeOK
  <2>2. ASSUME NEW k \in 0..c PROVE k \in Nat /\ 1 \in Nat /\ 1 + k <= InfoCap
    BY <1>0, <1>2, RingAssumption
  <2>3. QED
    BY <2>1, <2>2, Stepping
<1>4. \A k \in 0..c - 1 : Lengths'[k] = Lengths[1 + k]
  <2>1. ASSUME NEW k \in 0..c - 1 PROVE Lengths'[k] = Lengths[1 + k]
    <3>1. (infoRead' + k) % InfoCap = (infoRead + (1 + k)) % InfoCap
      BY <1>3
    <3>2. info' = info /\ k \in Nat /\ 1 + k \in Nat
      BY DEF ReadQueue
    <3>3. QED
      BY <3>1, <3>2 DEF Lengths, InfoAt
  <2>2. QED
    BY <2>1
<1>5. readPos' = ReadPosAfter[1] /\ writePos' = writePos /\ infoWrite' = infoWrite /\ buf' = buf
  BY DEF ReadQueue
<1>6. \A k \in 0..c : ReadPosAfter'[k] = ReadPosAfter[1 + k]
  BY <1>1, <1>4, <1>5, Shift
<1>7. Shape(ReadPosAfter', Lengths', c)
  <2>1. PICK n \in Nat : n = 1
    OBVIOUS
  <2>2. Shape(ReadPosAfter, Lengths, n + c)
    BY <1>0, <1>2, <2>1
  <2>3. /\ \A k \in 0..c : ReadPosAfter'[k] = ReadPosAfter[n + k]
        /\ \A k \in 0..c - 1 : Lengths'[k] = Lengths[n + k]
    BY <1>4, <1>6, <2>1
  <2>4. QED
    BY <1>1, <2>2, <2>3, Dropped
<1>8. Agreed'
  <2>1. c <= InfoCap /\ c \in 0..c
    BY <1>0, <1>2, RingAssumption
  <2>2. (infoRead' + c) % InfoCap = (infoRead + (1 + c)) % InfoCap
    BY <1>3, <2>1
  <2>3. ReadPosAfter'[c] = ReadPosAfter[1 + c]
    BY <1>6, <2>1
  <2>4. QED
    BY <1>0, <1>2, <1>5, <2>1, <2>2, <2>3 DEF Agreed
<1>9. Laid'
  BY <1>2, <1>7, <1>8 DEF Laid
<1>10. ASSUME NEW k \in 0..c - 1 PROVE Contents'[k] = Contents[1 + k]
  <2>1. k \in Nat /\ 1 + k \in Nat
    OBVIOUS
  <2>2. Lengths'[k] = Lengths[1 + k] /\ ReadPosAfter'[k] = ReadPosAfter[1 + k]
    BY <1>4, <1>6
  <2>3. \A i \in 0..QbSize - 1 : buf'[i] = buf[i]
    BY <1>5
  <2>4. QED
    BY <1>1, <2>1, <2>2, <2>3, SamePacket
<1>11. QED
  BY <1>2, <1>9, <1>10 DEF Gone

\* The packets that a clearing leaves are empty, and nothing of them is to be played.
LEMMA ClearLays ==
    ASSUME RingTypeOK, RingTypeOK', Laid, ClearQueue
    PROVE  Laid' /\ Queued' = <<>>
<1>0. /\ qbCount <= InfoCap /\ qbCount \in Nat
      /\ infoWrite % InfoCap = (infoRead + qbCount) % InfoCap
  BY DEF Laid, Agreed, RingTypeOK
<1>1. Facts'
  BY WalksOf
<1>2. qbCount' = qbCount /\ infoRead' = infoRead /\ infoWrite' = infoWrite
      /\ readPos' = 0 /\ writePos' = 0
  BY DEF ClearQueue
<1>3. ASSUME NEW k \in Nat PROVE Lengths'[k] = 0
  <2>1. (infoRead' + k) % InfoCap \in 0..InfoCap - 1
    <3>1. infoRead + k \in Nat
      BY RingAssumption DEF RingTypeOK
    <3>2. QED
      BY <1>2, <3>1, RingFacts DEF InfoSlots
  <2>2. info'[(infoRead' + k) % InfoCap] = NoInfo
    BY <2>1 DEF ClearQueue
  <2>3. QED
    BY <2>2 DEF Lengths, InfoAt, NoInfo
<1>4. ASSUME NEW k \in Nat PROVE Contents'[k] = <<>>
  <2>1. Contents'[k] \in Seq(Bytes) /\ Len(Contents'[k]) = 0
    BY <1>1, <1>3 DEF Facts
  <2>2. QED
    BY <2>1
<1>5. \A k \in Nat : ReadPosAfter'[k] = 0
  <2> DEFINE S == {k \in Nat : ReadPosAfter'[k] = 0}
  <2>1. 0 \in S
    BY <1>1, <1>2 DEF Facts
  <2>2. ASSUME NEW k \in S PROVE k + 1 \in S
    <3>1. ReadPosAfter'[k + 1] = Place(ReadPosAfter'[k], Lengths'[k]) + Lengths'[k]
      BY <1>1 DEF Facts, Place
    <3>2. ReadPosAfter'[k] = 0 /\ Lengths'[k] = 0
      BY <1>3
    <3>3. QED
      BY <3>1, <3>2, RingAssumption DEF Place
  <2>3. S \in SUBSET Nat
    OBVIOUS
  <2>4. S = Nat
    <3> HIDE DEF S
    <3>1. QED
      BY <2>1, <2>2, <2>3, AllNaturals
  <2>5. QED
    BY <2>4
<1>6. \A k \in Nat : Oldest'[k] = <<>>
  <2> DEFINE S == {k \in Nat : Oldest'[k] = <<>>}
  <2>1. 0 \in S
    BY <1>1 DEF Facts
  <2>2. ASSUME NEW k \in S PROVE k + 1 \in S
    <3>1. Oldest'[k + 1] = Played(Oldest'[k], Contents'[k])
      BY <1>1 DEF Facts, Played
    <3>2. QED
      BY <1>4, <3>1 DEF Played
  <2>3. S \in SUBSET Nat
    OBVIOUS
  <2>4. S = Nat
    <3> HIDE DEF S
    <3>1. QED
      BY <2>1, <2>2, <2>3, AllNaturals
  <2>5. QED
    BY <2>4
<1>7. Shape(ReadPosAfter', Lengths', qbCount')
  <2>1. Ascends(ReadPosAfter', 0, qbCount')
    BY <1>0, <1>2, <1>5 DEF Ascends
  <2>2. \A k \in 0..qbCount' - 1 : ReadPosAfter'[k] + Lengths'[k] <= QbSize
    BY <1>0, <1>2, <1>3, <1>5, RingAssumption
  <2>3. QED
    BY <2>1, <2>2 DEF Shape, Straight
<1>8. Laid'
  BY <1>0, <1>2, <1>5, <1>7 DEF Laid, Agreed
<1>9. QED
  BY <1>0, <1>2, <1>6, <1>8 DEF Queued

\* At the beginning.
LEMMA InitLays == Init => Laid /\ Queued = <<>>
<1> SUFFICES ASSUME Init PROVE Laid /\ Queued = <<>>
  OBVIOUS
<1>1. Facts
  BY InitTypes, FactsHold
<1>2. qbCount = 0 /\ infoRead = 0 /\ infoWrite = 0 /\ readPos = 0 /\ writePos = 0
  BY DEF Init, RingInit
<1>3. ReadPosAfter[0] = 0 /\ Oldest[0] = <<>>
  BY <1>1, <1>2 DEF Facts
<1>4. Agreed
  BY <1>2, <1>3, RingAssumption DEF Agreed
<1>5. Shape(ReadPosAfter, Lengths, qbCount)
  BY <1>2, <1>3 DEF Shape, Straight, Ascends
<1>6. QED
  BY <1>2, <1>3, <1>4, <1>5 DEF Laid, Queued

----------------------------------------------------------------------------
(***************************************************************************)
(* The users of the ring, and the PacketQueue.                             *)
(***************************************************************************)
\* A packet that is on its way is within the bound.
PutLeft == \A t \in Threads : at[t] \in {"check", "put"} => written < MaxPackets

\* Until it is spoilt.
RefInv == ~spoilt => PutLeft /\ Laid

\* Nothing mends a spoilt ring.
LEMMA SpoiltStays == UserTypes /\ [Next]_vars => (spoilt => spoilt')
<1> SUFFICES ASSUME UserTypes, [Next]_vars, spoilt PROVE spoilt'
  OBVIOUS
<1>1. \/ spoilt' = spoilt
      \/ spoilt' = (spoilt \/ AtRing # {})
      \/ spoilt' = (spoilt \/ qbCount' > InfoCap)
  BY Zenon DEF Next, Prompt, TalkEvent, Playing, OpenFile, Refuse, Admit, PutChunk, CloseFile,
     Called, Recv, TakeOver, PutTalk, HangUp, StartRead, ReadNothing, Play, vars, users,
     Enter, Written
<1>2. QED
  BY <1>1, Zenon

\* Sequences of which the first part goes.
LEMMA Behind ==
    ASSUME NEW A, NEW s \in Seq(A), NEW t \in Seq(A)
    PROVE  /\ Len(s) \in 0..Len(s \o t)
           /\ SubSeq(s \o t, Len(s) + 1, Len(s \o t)) = t
<1>1. s \o t \in Seq(A) /\ Len(s \o t) = Len(s) + Len(t)
  BY ConcatProperties
<1>2. \A i \in 1..Len(t) : (s \o t)[Len(s) + i] = t[i]
  BY ConcatProperties
<1>3. SubSeq(s \o t, Len(s) + 1, Len(s \o t)) = t
  BY <1>1, <1>2
<1>4. QED
  BY <1>1, <1>3

\* The first of a sequence.
LEMMA FirstGoes ==
    ASSUME NEW A, NEW x \in A, NEW t \in Seq(A)
    PROVE  Head(<<x>> \o t) = x /\ Tail(<<x>> \o t) = t /\ <<x>> \o t # <<>>
<1>1. <<x>> \in Seq(A)
  OBVIOUS
<1>2. QED
  BY <1>1, ConcatProperties

\* The empty sequence adds nothing.
LEMMA Nothing ==
    ASSUME NEW A, NEW t \in Seq(A)
    PROVE  t \o <<>> = t /\ <<>> \o t = t
BY ConcatEmptySeq
\* What a step does to the ring.
Writes == \E size \in Nat, type \in Types : WriteQueue(written + 1, size, type)
Plays ==
    /\ ReadQueue
    /\ out' = IF PacketAt(0) = <<>> \/ InfoAt(0).len > PlayBufSize THEN out ELSE PacketAt(0)
RingStepIs ==
    \/ UNCHANGED ring /\ out' = out
    \/ Writes /\ qbCount' <= InfoCap /\ written < MaxPackets /\ out' = out
    \/ ClearQueue /\ out' = out
    \/ Plays

\* Every step of a thread that leaves the ring unspoilt is one of these.
LEMMA StepKinds ==
    ASSUME RingTypeOK', UserTypes, PutLeft, ~spoilt', [Next]_vars
    PROVE  RingStepIs
<1>0. qbCount' \in Nat /\ InfoCap \in Nat
  BY RingAssumption DEF RingTypeOK
<1>1. Written => qbCount' <= InfoCap
  <2>1. Written => ~(qbCount' > InfoCap)
    BY Zenon DEF Written
  <2>2. QED
    BY <1>0, <2>1
<1>2. ASSUME NEW p \in Prompts, Prompt(p) PROVE RingStepIs
  <2>1. CASE PutChunk(p)
    <3>1. ChunkSize \in Nat /\ "WAV_FILE" \in Types
      BY UsersAssumption DEF Types
    <3>2. /\ WriteQueue(written + 1, ChunkSize, "WAV_FILE")
          /\ Written /\ out' = out /\ at[p] = "put"
      BY <2>1 DEF PutChunk
    <3>3. p \in Threads
      BY Apart
    <3>4. written < MaxPackets
      BY <3>2, <3>3 DEF PutLeft
    <3>5. QED
      BY <1>1, <3>1, <3>2, <3>4 DEF RingStepIs, Writes
  <2>2. CASE OpenFile(p) \/ Refuse(p) \/ Admit(p) \/ CloseFile(p)
    BY <2>2 DEF OpenFile, Refuse, Admit, CloseFile, RingStepIs
  <2>3. QED
    BY <1>2, <2>1, <2>2 DEF Prompt
<1>3. CASE PutTalk
  <2>1. PICK size \in TalkSizes : WriteQueue(written + 1, size, "P2P_G711A")
    BY <1>3 DEF PutTalk
  <2>2. size \in Nat /\ "P2P_G711A" \in Types
    BY UsersAssumption DEF Types
  <2>3. Written /\ out' = out /\ at[Talk] = "put" /\ Talk \in Threads
    BY <1>3, Apart DEF PutTalk
  <2>4. written < MaxPackets
    BY <2>3 DEF PutLeft
  <2>5. QED
    BY <1>1, <2>1, <2>2, <2>3, <2>4 DEF RingStepIs, Writes
<1>4. CASE TakeOver
  BY <1>4 DEF TakeOver, RingStepIs
<1>5. CASE Play
  BY <1>5 DEF Play, Plays, RingStepIs
<1>6. CASE Called \/ Recv \/ HangUp \/ StartRead \/ ReadNothing \/ UNCHANGED vars
  BY <1>6 DEF Called, Recv, HangUp, StartRead, ReadNothing, vars, users, RingStepIs
<1>7. QED
  BY <1>2, <1>3, <1>4, <1>5, <1>6 DEF Next, TalkEvent, Playing

\* The layout is kept.
LEMMA LaidStep ==
    ASSUME RingTypeOK, RingTypeOK', UserTypes, Laid, RingStepIs
    PROVE  Laid'
<1>1. CASE UNCHANGED ring
  BY <1>1, SameRing
<1>2. CASE Writes /\ qbCount' <= InfoCap
  <2>1. PICK size \in Nat, type \in Types : WriteQueue(written + 1, size, type)
    BY <1>2 DEF Writes
  <2>2. written + 1 \in Nat
    BY DEF UserTypes
  <2>3. QED
    BY <1>2, <2>1, <2>2, WriteLays
<1>3. CASE ClearQueue
  BY <1>3, ClearLays
<1>4. CASE Plays
  BY <1>4, ReadLays DEF Plays
<1>5. QED
  BY <1>1, <1>2, <1>3, <1>4 DEF RingStepIs

\* A packet is announced while there is room for one more, and written by the only
\* thread at the ring.
LEMMA PutLeftStep ==
    ASSUME SoundInv, UserTypes, PutLeft, ~spoilt, ~spoilt', [Next]_vars
    PROVE  PutLeft'
<1> USE Apart DEF UserTypes
<1>0. \A t, u \in AtRing : t = u
  BY DEF SoundInv, OneAtRing
<1>1. CASE /\ written' = written /\ written < MaxPackets
           /\ \E t \in Threads, x \in {"check", "put"} : Go(t, x)
  BY <1>1 DEF PutLeft, Go
<1>2. CASE /\ written' = written
           /\ \E t \in Threads, x \in {"idle", "file", "talking", "read"} : Go(t, x)
  BY <1>2 DEF PutLeft, Go
<1>3. CASE \E t \in Threads, x \in {"file", "talking"} : at[t] = "put" /\ Go(t, x)
  BY <1>0, <1>3 DEF PutLeft, Go, AtRing
<1>4. CASE written' = written /\ at' = at
  BY <1>4 DEF PutLeft
<1>5. ASSUME NEW p \in Prompts, Prompt(p) PROVE PutLeft'
  <2>1. CASE OpenFile(p) \/ CloseFile(p)
    BY <2>1, <1>2 DEF OpenFile, CloseFile
  <2>2. CASE Refuse(p)
    BY <2>2, <1>4 DEF Refuse
  <2>3. CASE Admit(p)
    BY <2>3, <1>1 DEF Admit
  <2>4. CASE PutChunk(p)
    BY <2>4, <1>3 DEF PutChunk
  <2> QED
    BY <1>5, <2>1, <2>2, <2>3, <2>4 DEF Prompt
<1>6. CASE TalkEvent
  <2>1. CASE Called \/ HangUp
    BY <2>1, <1>2 DEF Called, HangUp
  <2>2. CASE Recv
    BY <2>2, <1>1 DEF Recv
  <2>3. CASE TakeOver
    BY <2>3, <1>1 DEF TakeOver, PutLeft
  <2>4. CASE PutTalk
    BY <2>4, <1>3 DEF PutTalk
  <2> QED
    BY <1>6, <2>1, <2>2, <2>3, <2>4 DEF TalkEvent
<1>7. CASE Playing
  <2>1. CASE StartRead \/ ReadNothing
    BY <2>1, <1>2 DEF StartRead, ReadNothing
  <2>2. CASE Play
    BY <2>2, <1>2 DEF Play
  <2> QED
    BY <1>7, <2>1, <2>2 DEF Playing
<1>8. CASE UNCHANGED vars
  BY <1>8, <1>4 DEF vars, users
<1> QED
  BY <1>5, <1>6, <1>7, <1>8 DEF Next

\* What is queued is a sequence of packets.
LEMMA QueuedIs ==
    ASSUME Facts, RingTypeOK
    PROVE  Queued \in Seq(Seq(Bytes))
BY DEF Queued, Facts, RingTypeOK

\* The first packets go and one comes.
LEMMA PutMaps ==
    ASSUME ~spoilt, ~spoilt', spoilt \in BOOLEAN, spoilt' \in BOOLEAN, out' = out,
           NEW s \in Seq(Seq(Bytes)), NEW t \in Seq(Seq(Bytes)), NEW p \in Sendable,
           Queued = s \o t, Queued' = t \o (IF p = <<>> THEN <<>> ELSE <<p>>)
    PROVE  Service!Put
<1> DEFINE k == Len(s)
<1>1. PICK A : A = Seq(Bytes)
  OBVIOUS
<1>2. s \in Seq(A) /\ t \in Seq(A)
  BY <1>1
<1>3. k \in 0..Len(s \o t) /\ SubSeq(s \o t, k + 1, Len(s \o t)) = t
  BY <1>2, Behind
<1>4. ToPlay = s \o t /\ ToPlay' = t \o (IF p = <<>> THEN <<>> ELSE <<p>>)
  BY Zenon DEF ToPlay
<1>5. UNCHANGED <<PlayedLast, spoilt>>
  <2>1. PlayedLast' = PlayedLast
    BY Zenon DEF PlayedLast
  <2>2. spoilt' = spoilt
    BY Zenon
  <2>3. QED
    BY <2>1, <2>2, Zenon
<1> HIDE DEF k
<1>6. \E i \in 0..Len(ToPlay), q \in Sendable :
         ToPlay' = SubSeq(ToPlay, i + 1, Len(ToPlay)) \o (IF q = <<>> THEN <<>> ELSE <<q>>)
  BY <1>3, <1>4, Zenon
<1>7. QED
  BY <1>5, <1>6, Zenon DEF Service!Put

\* Steps that the PacketQueue does not see.
Stutters == UNCHANGED <<ToPlay, PlayedLast, spoilt>>

\* Nothing of it changes, or the ring is spoilt already.
LEMMA StutterIs ==
    ASSUME spoilt \in BOOLEAN, spoilt' \in BOOLEAN, spoilt' = spoilt,
           spoilt \/ (out' = out /\ Queued' = Queued)
    PROVE  Stutters
<1>1. CASE spoilt
  <2>1. ToPlay' = ToPlay /\ PlayedLast' = PlayedLast
    BY <1>1, Zenon DEF ToPlay, PlayedLast
  <2>2. QED
    BY <2>1, Zenon DEF Stutters
<1>2. CASE ~spoilt
  <2>1. ToPlay' = ToPlay /\ PlayedLast' = PlayedLast
    BY <1>2, Zenon DEF ToPlay, PlayedLast
  <2>2. QED
    BY <2>1, Zenon DEF Stutters
<1>3. QED
  BY <1>1, <1>2, Zenon

\* Writing a packet is putting it.
LEMMA WriteMaps ==
    ASSUME RingTypeOK, RingTypeOK', Laid, spoilt \in BOOLEAN, spoilt' \in BOOLEAN,
           ~spoilt, ~spoilt', out' = out, written \in Nat, written < MaxPackets,
           Writes, qbCount' <= InfoCap
    PROVE  Service!Put \/ Stutters
<1>1. PICK size \in Nat, type \in Types : WriteQueue(written + 1, size, type)
  BY DEF Writes
<1>2. CASE UNCHANGED ring
  <2>1. Queued' = Queued
    BY <1>2, SameRing DEF Queued
  <2>2. QED
    BY <2>1, StutterIs, Zenon
<1>3. ASSUME size < QbSize, NEW n \in Nat, NEW c \in Nat, Moved(n, c, Packet(written + 1, size))
      PROVE  Service!Put
  <2>1. Facts /\ Facts'
    BY WalksOf
  <2>2. PICK p : p = Packet(written + 1, size)
    OBVIOUS
  <2>3. /\ qbCount = n + c /\ qbCount' = c + 1
        /\ \A k \in 0..c - 1 : Contents'[k] = Contents[n + k]
        /\ Contents'[c] = p
    BY <1>3, <2>2 DEF Moved
  <2>4. PICK s \in Seq(Seq(Bytes)) : s = Oldest[n]
    BY <2>1 DEF Facts
  <2>5. PICK t \in Seq(Seq(Bytes)) : t = Oldest'[c]
    BY <2>1 DEF Facts
  <2>6. Queued = s \o t
    <3>0. \A k \in 0..c - 1 : Contents'[k] = Contents[n + k]
      BY <2>3
    <3>a. \A k \in 0..c : Splits(n, k)
      BY <2>1, <3>0, Split
    <3>1. Splits(n, c)
      BY <3>a
    <3>2. QED
      BY <2>3, <2>4, <2>5, <3>1 DEF Splits, Queued
  <2>7. Queued' = t \o (IF p = <<>> THEN <<>> ELSE <<p>>)
    <3>1. Oldest'[c + 1] = Played(Oldest'[c], Contents'[c])
      BY <2>1 DEF Facts, Played
    <3>2. Queued' = Played(t, p)
      BY <2>3, <2>5, <3>1 DEF Queued
    <3>3. p \in Seq(Bytes)
      BY <2>1, <2>3 DEF Facts
    <3>4. PICK A : A = Seq(Bytes)
      OBVIOUS
    <3>5. t \in Seq(A) /\ p \in A
      BY <3>3, <3>4
    <3>6. CASE p = <<>>
      BY <3>2, <3>5, <3>6, Nothing DEF Played
    <3>7. CASE p # <<>>
      BY <3>2, <3>5, <3>7, AppendIsConcat DEF Played
    <3>8. QED
      BY <3>6, <3>7
  <2>8. p \in Sendable
    <3>1. CASE size = 0
      BY <2>2, <3>1 DEF Sendable, Packet
    <3>2. CASE size # 0
      <4>1. size \in 1..QbSize /\ written + 1 \in 1..MaxPackets
        BY <1>3, <3>2, RingAssumption, UsersAssumption
      <4>2. QED
        BY <2>2, <4>1 DEF Sendable
    <3>3. QED
      BY <3>1, <3>2
  <2>9. QED
    BY <2>6, <2>7, <2>8, PutMaps
<1>4. QED
  <2>1. written + 1 \in Nat
    OBVIOUS
  <2>2. \/ UNCHANGED ring
        \/ size < QbSize /\ \E n, c \in Nat : Moved(n, c, Packet(written + 1, size))
    BY <1>1, <2>1, WriteLays
  <2>3. QED
    BY <1>2, <1>3, <2>2

\* Reading one is taking it, unless it is empty or is dropped for being too long.
LEMMA ReadMaps ==
    ASSUME RingTypeOK, RingTypeOK', Laid, spoilt \in BOOLEAN, spoilt' \in BOOLEAN,
           ~spoilt, ~spoilt', Plays
    PROVE  Service!Put \/ Service!Take \/ Stutters
<1>1. Facts /\ Facts'
  BY WalksOf
<1>2. PICK c \in Nat : Gone(c)
  BY ReadLays DEF Plays
<1>3. PICK n \in Nat : n = 1
  OBVIOUS
<1>4. PICK x \in Seq(Bytes) : x = Contents[0] /\ x = PacketAt(0)
  BY <1>1 DEF Facts, Contents
<1>5. PICK t \in Seq(Seq(Bytes)) : t = Oldest'[c]
  BY <1>1 DEF Facts
<1>6. Queued' = t
  BY <1>2, <1>5 DEF Gone, Queued
<1>7. Oldest[1] = IF x = <<>> THEN <<>> ELSE <<x>>
  <2>1. Oldest[0 + 1] = Played(Oldest[0], Contents[0]) /\ Oldest[0] = <<>>
    BY <1>1 DEF Facts
  <2>2. QED
    BY <1>4, <2>1 DEF Played
<1>8. Queued = Oldest[1] \o t
  <2>1. Splits(n, c)
    <3>1. \A k \in 0..c - 1 : Contents'[k] = Contents[n + k]
      BY <1>2, <1>3 DEF Gone
    <3>2. \A k \in 0..c : Splits(n, k)
      BY <1>1, <3>1, Split
    <3>3. QED
      BY <3>2
  <2>2. QED
    BY <1>2, <1>3, <1>5, <2>1 DEF Splits, Queued, Gone
<1>9. PICK A : A = Seq(Bytes)
  OBVIOUS
<1>10. x \in A /\ t \in Seq(A) /\ <<>> \in Seq(A) /\ <<x>> \in Seq(A)
  BY <1>9
<1>11. CASE x = <<>>
  <2>1. out' = out
    BY <1>4, <1>11 DEF Plays
  <2>2. Queued = t
    BY <1>7, <1>8, <1>10, <1>11, Nothing
  <2>3. QED
    BY <1>6, <2>1, <2>2, StutterIs, Zenon
<1>12. CASE x # <<>> /\ InfoAt(0).len > PlayBufSize
  <2>1. out' = out
    BY <1>12 DEF Plays
  <2>2. Queued = <<x>> \o t
    BY <1>7, <1>8, <1>12
  <2>3. PICK s \in Seq(Seq(Bytes)) : s = <<x>>
    BY <1>9, <1>10
  <2>4. PICK p \in Sendable : p = <<>>
    BY DEF Sendable
  <2>5. Queued = s \o t /\ Queued' = t \o (IF p = <<>> THEN <<>> ELSE <<p>>)
    BY <1>6, <1>10, <2>2, <2>3, <2>4, Nothing
  <2>6. QED
    BY <2>1, <2>5, PutMaps
<1>13. CASE x # <<>> /\ ~(InfoAt(0).len > PlayBufSize)
  <2>1. out' = x
    BY <1>4, <1>13 DEF Plays
  <2>2. Queued = <<x>> \o t
    BY <1>7, <1>8, <1>13
  <2>3. Head(Queued) = x /\ Tail(Queued) = t /\ Queued # <<>>
    BY <1>10, <2>2, FirstGoes
  <2>4. ToPlay = Queued /\ ToPlay' = t /\ PlayedLast' = x /\ spoilt' = spoilt
    <3>1. spoilt' = spoilt
      BY Zenon
    <3>2. ToPlay = Queued /\ ToPlay' = t /\ PlayedLast' = x
      BY <1>6, <2>1, Zenon DEF ToPlay, PlayedLast
    <3>3. QED
      BY <3>1, <3>2
  <2>5. ToPlay # <<>> /\ PlayedLast' = Head(ToPlay) /\ ToPlay' = Tail(ToPlay)
    BY <2>3, <2>4
  <2>6. Service!Take
    BY <2>4, <2>5, Zenon DEF Service!Take
  <2>7. QED
    BY <2>6
<1>14. QED
  BY <1>11, <1>12, <1>13

\* A clearing that leaves empty packets is one that leaves none.
LEMMA ClearMaps ==
    ASSUME RingTypeOK, RingTypeOK', Laid, spoilt \in BOOLEAN, spoilt' \in BOOLEAN,
           ~spoilt, ~spoilt', out' = out, ClearQueue
    PROVE  Service!Clear
<1>1. Queued' = <<>>
  BY ClearLays
<1>2. ToPlay' = <<>> /\ PlayedLast' = PlayedLast
  BY <1>1, Zenon DEF ToPlay, PlayedLast
<1>3. spoilt' = spoilt
  BY Zenon
<1>4. UNCHANGED <<PlayedLast, spoilt>>
  BY <1>2, <1>3, Zenon
<1>5. QED
  BY <1>2, <1>4, Zenon DEF Service!Clear

\* What the ring is used by and what its state is.
ServiceInv == RingTypeOK /\ UserTypes /\ SoundInv /\ RefInv

\* Every step is one of the PacketQueue or is not seen there.
LEMMA StepMaps ==
    ASSUME ServiceInv, RingTypeOK', UserTypes', [Next]_vars
    PROVE  Service!Next \/ Stutters
<1>1. /\ RingTypeOK /\ UserTypes /\ RefInv
      /\ spoilt \in BOOLEAN /\ spoilt' \in BOOLEAN /\ written \in Nat
  BY Zenon DEF ServiceInv, UserTypes
<1>2. CASE spoilt
  <2>1. spoilt' = spoilt
    BY <1>1, <1>2, SpoiltStays, Zenon
  <2>2. QED
    BY <1>1, <1>2, <2>1, StutterIs, Zenon
<1>3. CASE ~spoilt /\ spoilt'
  <2>1. spoilt' = TRUE
    BY <1>1, <1>3, Zenon
  <2>2. ToPlay' = <<>> /\ PlayedLast' = <<>>
    BY <1>3, Zenon DEF ToPlay, PlayedLast
  <2>3. Service!Spoil
    BY <2>1, <2>2, Zenon DEF Service!Spoil
  <2>4. QED
    BY <1>3, <2>3, Zenon DEF Service!Next
<1>4. CASE ~spoilt /\ ~spoilt'
  <2>1. PutLeft /\ Laid
    BY <1>1, <1>4 DEF RefInv
  <2>2. RingStepIs
    BY <1>1, <1>4, <2>1, StepKinds
  <2>3. CASE UNCHANGED ring /\ out' = out
    <3>1. Queued' = Queued
      BY <2>3, SameRing DEF Queued
    <3>2. spoilt' = spoilt
      BY <1>1, <1>4, Zenon
    <3>3. QED
      BY <1>1, <2>3, <3>1, <3>2, StutterIs, Zenon
  <2>4. CASE Writes /\ qbCount' <= InfoCap /\ written < MaxPackets /\ out' = out
    <3>1. Service!Put \/ Stutters
      BY <1>1, <1>4, <2>1, <2>4, WriteMaps
    <3>2. QED
      BY <1>4, <3>1, Zenon DEF Service!Next
  <2>5. CASE ClearQueue /\ out' = out
    <3>1. Service!Clear
      BY <1>1, <1>4, <2>1, <2>5, ClearMaps
    <3>2. QED
      BY <1>4, <3>1, Zenon DEF Service!Next
  <2>6. CASE Plays
    <3>1. Service!Put \/ Service!Take \/ Stutters
      BY <1>1, <1>4, <2>1, <2>6, ReadMaps
    <3>2. QED
      BY <1>4, <3>1, Zenon DEF Service!Next
  <2>7. QED
    BY <2>2, <2>3, <2>4, <2>5, <2>6, Zenon DEF RingStepIs
<1>5. QED
  BY <1>1, <1>2, <1>3, <1>4, Zenon

\* While one thread at a time is at the ring and its lengths fit into theirs, reader and
\* writer agree on where every packet begins: what is played is what was queued, whole and
\* in its order, except for the oldest packets that a new one pushes out, what a talk
\* clears, and packets longer than the player's buffer (sound_queue.c:150-244, 296-332).
THEOREM RingIsPacketQueue == Spec => Implements
<1>1. Init => ServiceInv /\ Service!Init
  <2> SUFFICES ASSUME Init PROVE ServiceInv /\ Service!Init
    OBVIOUS
  <2>1. RingTypeOK /\ UserTypes /\ SoundInv
    BY InitTypes, SoundInitInv
  <2>2. Laid /\ Queued = <<>>
    BY InitLays
  <2>3. PutLeft
    BY DEF Init, PutLeft
  <2>4. spoilt = FALSE /\ out = <<>>
    BY DEF Init
  <2>5. ToPlay = <<>> /\ PlayedLast = <<>>
    BY <2>2, <2>4, Zenon DEF ToPlay, PlayedLast
  <2>6. Service!Init
    BY <2>4, <2>5, Zenon DEF Service!Init
  <2>7. QED
    BY <2>1, <2>2, <2>3, <2>6 DEF ServiceInv, RefInv
<1>2. ServiceInv /\ [Next]_vars => ServiceInv' /\ [Service!Next]_<<ToPlay, PlayedLast, spoilt>>
  <2> SUFFICES ASSUME ServiceInv, [Next]_vars
               PROVE  ServiceInv' /\ [Service!Next]_<<ToPlay, PlayedLast, spoilt>>
    OBVIOUS
  <2>1. RingTypeOK /\ UserTypes /\ SoundInv /\ RefInv
    BY DEF ServiceInv
  <2>2. RingTypeOK'
    BY <2>1, RingTypesStep
  <2>3. UserTypes'
    BY <2>1, PlacesStep, FlagsStep, HistoryStep, Zenon DEF UserTypes
  <2>4. SoundInv'
    BY <2>1, ShapeStep, ExclusiveStep, RingStep, SilentStep DEF SoundInv
  <2>5. RefInv'
    <3> SUFFICES ASSUME ~spoilt' PROVE PutLeft' /\ Laid'
      BY DEF RefInv
    <3>1. ~spoilt
      BY <2>1, SpoiltStays
    <3>2. PutLeft /\ Laid
      BY <2>1, <3>1 DEF RefInv
    <3>3. PutLeft'
      BY <2>1, <3>1, <3>2, PutLeftStep
    <3>4. RingStepIs
      BY <2>1, <2>2, <3>2, StepKinds
    <3>5. Laid'
      BY <2>1, <2>2, <3>2, <3>4, LaidStep
    <3>6. QED
      BY <3>3, <3>5
  <2>6. Service!Next \/ Stutters
    BY <2>2, <2>3, StepMaps
  <2>7. QED
    BY <2>2, <2>3, <2>4, <2>5, <2>6, Zenon DEF ServiceInv, Stutters
<1>3. QED
  BY <1>1, <1>2, PTL DEF Spec, Implements, Service!Spec
============================================================================
