------------------------- MODULE RudpListenerProofs -------------------------
(***************************************************************************)
(* What RudpListener promises of its three lists, for every number of      *)
(* nodes, clients and datagrams.  A chain is the least set of nodes that a *)
(* walk does not leave, so that what an assignment to a next pointer makes *)
(* of it is shown by giving such a set: no induction is needed.            *)
(***************************************************************************)
EXTENDS RudpListener, Integers, TLAPS

----------------------------------------------------------------------------
(***************************************************************************)
(* Chains.                                                                 *)
(***************************************************************************)
\* A chain holds its first node, and the next of each of its nodes.
LEMMA ChainHolds ==
    ASSUME NEW N, NULL \notin N, NEW next \in [N -> N \cup {NULL}], NEW x \in N \cup {NULL}
    PROVE  /\ Chain(next, x) \subseteq N
           /\ x \in N => x \in Chain(next, x)
           /\ \A m \in Chain(next, x) : next[m] \in Chain(next, x) \cup {NULL}
<1>1. DOMAIN next = N
  OBVIOUS
<1>2. Chain(next, x) \subseteq N
  BY <1>1 DEF Chain
<1>3. ASSUME x \in N PROVE x \in Chain(next, x)
  BY <1>1, <1>3 DEF Chain, Covers
<1>4. ASSUME NEW m \in Chain(next, x) PROVE next[m] \in Chain(next, x) \cup {NULL}
  <2>1. m \in N
    BY <1>2, <1>4
  <2>2. ASSUME NEW S \in SUBSET N, Covers(S, next, x), next[m] # NULL PROVE next[m] \in S
    <3>1. m \in S
      BY <1>1, <1>4, <2>2 DEF Chain
    <3>2. QED
      BY <2>2, <3>1 DEF Covers
  <2>3. QED
    BY <1>1, <2>1, <2>2 DEF Chain
<1>5. QED
  BY <1>2, <1>3, <1>4

\* It is in every set that a walk from its first node does not leave.
LEMMA ChainLeast ==
    ASSUME NEW N, NEW next \in [N -> N \cup {NULL}], NEW x,
           NEW S \in SUBSET N, Covers(S, next, x)
    PROVE  Chain(next, x) \subseteq S
<1>1. DOMAIN next = N
  OBVIOUS
<1>2. QED
  BY <1>1 DEF Chain

\* From NULL nothing is reached, and from a node, itself and what its next reaches.
LEMMA ChainStep ==
    ASSUME NEW N, NULL \notin N, NEW next \in [N -> N \cup {NULL}]
    PROVE  /\ Chain(next, NULL) = {}
           /\ \A x \in N : Chain(next, x) = {x} \cup Chain(next, next[x])
<1>1. Chain(next, NULL) \subseteq {}
  <2>1. Covers({}, next, NULL)
    BY DEF Covers
  <2>2. QED
    BY <2>1, ChainLeast, Zenon
<1>2. ASSUME NEW x \in N PROVE Chain(next, x) = {x} \cup Chain(next, next[x])
  <2>1. next[x] \in N \cup {NULL}
    OBVIOUS
  <2>2. /\ Chain(next, next[x]) \subseteq N
        /\ next[x] \in N => next[x] \in Chain(next, next[x])
        /\ \A m \in Chain(next, next[x]) : next[m] \in Chain(next, next[x]) \cup {NULL}
    BY <2>1, ChainHolds
  <2>3. /\ Chain(next, x) \subseteq N
        /\ x \in Chain(next, x)
        /\ \A m \in Chain(next, x) : next[m] \in Chain(next, x) \cup {NULL}
    BY ChainHolds
  <2>4. Chain(next, x) \subseteq {x} \cup Chain(next, next[x])
    <3>1. {x} \cup Chain(next, next[x]) \in SUBSET N
      BY <2>2
    <3>2. Covers({x} \cup Chain(next, next[x]), next, x)
      BY <2>1, <2>2 DEF Covers
    <3>3. QED
      BY <3>1, <3>2, ChainLeast
  <2>5. Chain(next, next[x]) \subseteq Chain(next, x)
    <3>1. Covers(Chain(next, x), next, next[x])
      BY <2>3 DEF Covers
    <3>2. QED
      BY <2>3, <3>1, ChainLeast
  <2>6. QED
    BY <2>3, <2>4, <2>5
<1>3. QED
  BY <1>1, <1>2

\* A walk that starts within a chain stays in it.
LEMMA ChainWithin ==
    ASSUME NEW N, NULL \notin N, NEW next \in [N -> N \cup {NULL}], NEW x \in N \cup {NULL},
           NEW y \in Chain(next, x) \cup {NULL}
    PROVE  Chain(next, y) \subseteq Chain(next, x)
<1>1. /\ Chain(next, x) \subseteq N
      /\ \A m \in Chain(next, x) : next[m] \in Chain(next, x) \cup {NULL}
  BY ChainHolds
<1>2. Covers(Chain(next, x), next, y)
  BY <1>1 DEF Covers
<1>3. QED
  BY <1>1, <1>2, ChainLeast

\* A node that no node leads to is in no chain but its own.
LEMMA ChainAvoids ==
    ASSUME NEW N, NULL \notin N, NEW next \in [N -> N \cup {NULL}], NEW x \in N \cup {NULL},
           NEW c, x # c, \A m \in N : m # c => next[m] # c
    PROVE  c \notin Chain(next, x)
<1>1. Covers(N \ {c}, next, x)
  BY DEF Covers
<1>2. QED
  BY <1>1, ChainLeast

\* The node n is put in behind p, which had no next.
LEMMA ChainExtended ==
    ASSUME NEW N, NULL \notin N, NEW next \in [N -> N \cup {NULL}], NEW x \in N \cup {NULL},
           NEW p \in N, next[p] = NULL, NEW n \in N, next[n] = NULL,
           NEW now \in [N -> N \cup {NULL}],
           now[p] = n, \A m \in N \ {p} : now[m] = next[m]
    PROVE  /\ Chain(next, x) \subseteq Chain(now, x)
           /\ Chain(now, x) \subseteq Chain(next, x) \cup {n}
           /\ p \in Chain(next, x) => n \in Chain(now, x)
<1>2. /\ Chain(now, x) \subseteq N
      /\ x \in N => x \in Chain(now, x)
      /\ \A m \in Chain(now, x) : now[m] \in Chain(now, x) \cup {NULL}
  BY ChainHolds
<1>3. /\ Chain(next, x) \subseteq N
      /\ x \in N => x \in Chain(next, x)
      /\ \A m \in Chain(next, x) : next[m] \in Chain(next, x) \cup {NULL}
  BY ChainHolds
<1>4. Chain(next, x) \subseteq Chain(now, x)
  <2>1. Covers(Chain(now, x), next, x)
    BY <1>2 DEF Covers
  <2>2. QED
    BY <1>2, <2>1, ChainLeast
<1>5. Chain(now, x) \subseteq Chain(next, x) \cup {n}
  <2>1. Chain(next, x) \cup {n} \in SUBSET N
    BY <1>3
  <2>2. Covers(Chain(next, x) \cup {n}, now, x)
    BY <1>3 DEF Covers
  <2>3. QED
    BY <2>1, <2>2, ChainLeast, Zenon
<1>6. ASSUME p \in Chain(next, x) PROVE n \in Chain(now, x)
  <2>1. p \in Chain(now, x)
    BY <1>4, <1>6
  <2>2. now[p] = n
    OBVIOUS
  <2>3. QED
    BY <1>2, <2>1, <2>2
<1>7. QED
  BY <1>4, <1>5, <1>6

\* The node c is taken out from behind p; it keeps its next.
LEMMA ChainShortened ==
    ASSUME NEW N, NULL \notin N, NEW next \in [N -> N \cup {NULL}], NEW x \in N \cup {NULL},
           NEW p \in N, NEW c \in N, next[p] = c, x # c,
           NEW now \in [N -> N \cup {NULL}],
           now[p] = next[c], \A m \in N \ {p} : now[m] = next[m]
    PROVE  /\ Chain(next, x) \ {c} \subseteq Chain(now, x)
           /\ Chain(now, x) \subseteq Chain(next, x)
<1>2. /\ Chain(now, x) \subseteq N
      /\ x \in N => x \in Chain(now, x)
      /\ \A m \in Chain(now, x) : now[m] \in Chain(now, x) \cup {NULL}
  BY ChainHolds
<1>3. /\ Chain(next, x) \subseteq N
      /\ x \in N => x \in Chain(next, x)
      /\ \A m \in Chain(next, x) : next[m] \in Chain(next, x) \cup {NULL}
  BY ChainHolds
<1>4. Chain(next, x) \subseteq Chain(now, x) \cup {c}
  <2>1. CASE p \in Chain(now, x)
    <3>1. next[c] \in Chain(now, x) \cup {NULL}
      BY <1>2, <2>1
    <3>2. Chain(now, x) \cup {c} \in SUBSET N
      BY <1>2
    <3>3. \A m \in Chain(now, x) \cup {c} : next[m] \in Chain(now, x) \cup {c} \cup {NULL}
      <4>1. ASSUME NEW m \in Chain(now, x), m # p PROVE next[m] \in Chain(now, x) \cup {NULL}
        <5>1. m \in N /\ now[m] = next[m]
          BY <1>2, <4>1
        <5>2. QED
          BY <1>2, <4>1, <5>1
      <4>2. QED
        BY <3>1, <4>1
    <3>4. Covers(Chain(now, x) \cup {c}, next, x)
      BY <1>2, <3>3 DEF Covers
    <3>5. QED
      BY <3>2, <3>4, ChainLeast, Zenon
  <2>2. CASE p \notin Chain(now, x)
    <3>1. Covers(Chain(now, x), next, x)
      <4>1. ASSUME NEW m \in Chain(now, x) PROVE next[m] \in Chain(now, x) \cup {NULL}
        <5>1. m \in N /\ now[m] = next[m]
          BY <1>2, <2>2, <4>1
        <5>2. QED
          BY <1>2, <4>1, <5>1
      <4>2. QED
        BY <1>2, <4>1 DEF Covers
    <3>2. QED
      BY <1>2, <3>1, ChainLeast
  <2>3. QED
    BY <2>1, <2>2
<1>5. Chain(now, x) \subseteq Chain(next, x)
  <2>1. Covers(Chain(next, x), now, x)
    BY <1>3 DEF Covers
  <2>2. QED
    BY <1>3, <2>1, ChainLeast
<1>6. QED
  BY <1>4, <1>5

\* The next of a node that is in no chain is forgotten.
LEMMA ChainCleared ==
    ASSUME NEW N, NULL \notin N, NEW next \in [N -> N \cup {NULL}], NEW x \in N \cup {NULL},
           NEW c \in N, x # c, \A m \in N : m # c => next[m] # c,
           NEW now \in [N -> N \cup {NULL}],
           now[c] = NULL, \A m \in N \ {c} : now[m] = next[m]
    PROVE  Chain(now, x) = Chain(next, x)
<1>2. /\ Chain(now, x) \subseteq N
      /\ x \in N => x \in Chain(now, x)
      /\ \A m \in Chain(now, x) : now[m] \in Chain(now, x) \cup {NULL}
  BY ChainHolds
<1>3. /\ Chain(next, x) \subseteq N
      /\ x \in N => x \in Chain(next, x)
      /\ \A m \in Chain(next, x) : next[m] \in Chain(next, x) \cup {NULL}
  BY ChainHolds
<1>4. c \notin Chain(next, x)
  BY ChainAvoids
<1>5. c \notin Chain(now, x)
  <2>1. \A m \in N : m # c => now[m] # c
    OBVIOUS
  <2>2. QED
    BY <2>1, ChainAvoids
<1>6. Chain(next, x) \subseteq Chain(now, x)
  <2>1. Covers(Chain(now, x), next, x)
    BY <1>2, <1>5 DEF Covers
  <2>2. QED
    BY <1>2, <2>1, ChainLeast
<1>7. Chain(now, x) \subseteq Chain(next, x)
  <2>1. Covers(Chain(next, x), now, x)
    BY <1>3, <1>4 DEF Covers
  <2>2. QED
    BY <1>3, <2>1, ChainLeast
<1>8. QED
  BY <1>6, <1>7

\* The node c of a chain that no two nodes lead to is taken out from behind p, and
\* its next forgotten.
LEMMA ChainWithout ==
    ASSUME NEW N, NULL \notin N, NEW next \in [N -> N \cup {NULL}], NEW x \in N \cup {NULL},
           NEW p \in N, NEW c \in Chain(next, x), next[p] = c, x # c,
           \A m, n \in N : next[m] = next[n] /\ next[m] # NULL => m = n,
           NEW now \in [N -> N \cup {NULL}],
           now[p] = next[c] \/ p = c, now[c] = NULL, \A m \in N \ {p, c} : now[m] = next[m]
    PROVE  /\ c # p
           /\ next[c] # c
           /\ Chain(now, x) = Chain(next, x) \ {c}
<1>1. c \in N
  BY ChainHolds
<1>2. c # p
  <2>1. SUFFICES ASSUME c = p PROVE FALSE
    OBVIOUS
  <2>2. \A m \in N : m # c => next[m] # c
    BY <1>1, <2>1
  <2>3. QED
    BY <2>2, ChainAvoids
<1>0. PICK mid : mid = [next EXCEPT ![p] = next[c]]
  OBVIOUS
<1>3. mid \in [N -> N \cup {NULL}]
  <2>1. next[c] \in N \cup {NULL}
    BY <1>1
  <2>2. QED
    BY <1>0, <2>1
<1>4. \A m \in N : m # c => mid[m] # c
  BY <1>0, <1>1, <1>2
<1>5. \A m \in N \ {c} : now[m] = mid[m]
  BY <1>0, <1>1, <1>2
<1>6. /\ mid[p] = next[c]
      /\ \A m \in N \ {p} : mid[m] = next[m]
  BY <1>0
<1>7. /\ Chain(next, x) \ {c} \subseteq Chain(mid, x)
      /\ Chain(mid, x) \subseteq Chain(next, x)
  BY <1>1, <1>3, <1>6, ChainShortened
<1>8. c \notin Chain(mid, x)
  BY <1>3, <1>4, ChainAvoids
<1>9. Chain(now, x) = Chain(mid, x)
  BY <1>1, <1>3, <1>4, <1>5, ChainCleared
<1>10. next[c] # c
  BY <1>1, <1>2
<1>11. QED
  BY <1>2, <1>7, <1>8, <1>9, <1>10

----------------------------------------------------------------------------
(***************************************************************************)
(* The inductive invariant.                                                *)
(***************************************************************************)
AtSession == {"query", "named", "get", "close", "last", "link", "answer"}
AtRelay == {"relay", "turnPop", "turnPopTail", "turnPopUnlink", "holePop"}
AtCreate == {"first", "last", "link"}
AtTurnPop == {"turnPop", "turnPopTail", "turnPopUnlink"}
AtTurnPut == {"turnLast", "turnLink", "turnCur"}
AtMove == {"movePop", "moveInsert", "moved"}

TurnCells == TurnNodes \cup {Head}
HoleCells == HoleNodes \cup {Head}

\* What the variables hold, whether or not two threads have met.
SessionTypes ==
    /\ sessionl \in Sessions \cup {NULL}
    /\ sessionNext \in [Sessions -> Sessions \cup {NULL}]
    /\ radom \in [Sessions -> Radoms \cup {NULL}]
    /\ quit \subseteq Sessions
    /\ sessions \subseteq Sessions
    /\ timer \in {"asleep", "scan", "unlink", "free"}
    /\ before \in Sessions \cup {NULL} /\ current \in Sessions \cup {NULL}
    /\ after \in Sessions \cup {NULL}
    /\ timer # "asleep" => before \in Sessions /\ current \in Sessions

TurnTypes ==
    /\ turnNext \in [TurnCells -> TurnNodes \cup {NULL}]
    /\ turnReqCur \in TurnCells
    /\ turnReqs \subseteq TurnNodes
    /\ turnRadom \in [TurnNodes -> Radoms \cup {NULL}]
    /\ turnLeft \in [TurnNodes -> Int]
    /\ flush \in {"asleep", "visit", "tail", "unlink"}
    /\ flush # "asleep" => flushPre \in TurnCells /\ flushAt \in TurnNodes

HoleTypes ==
    /\ holeNext \in [HoleCells -> HoleNodes \cup {NULL}]
    /\ holeReqCur \in HoleCells
    /\ holes \subseteq HoleNodes
    /\ holeRadom \in [HoleNodes -> Radoms \cup {NULL}]
    /\ holeAddr \in [HoleNodes -> Addresses \cup {NULL}]
    /\ holeLeft \in [HoleNodes -> Int]
    /\ holesLocked \in BOOLEAN
    /\ punch \in {"asleep", "lock", "send"}
    /\ punch # "asleep" => punchPre \in HoleCells /\ punchAt \in HoleNodes

LocalTypes ==
    /\ at \in {"idle", "create"} \cup AtSession \cup AtRelay \cup AtCreate \cup AtTurnPut \cup AtMove
    /\ asked \in Radoms \cup {NULL}
    /\ sid \in Sessions \cup {NULL}
    /\ here \in Sessions \cup {NULL}
    /\ at \in AtCreate => new \in Sessions
    /\ at \in AtTurnPop => pre \in TurnCells /\ new \in TurnNodes \cup {NULL}
    /\ at \in {"turnPopTail", "turnPopUnlink"} => new \in TurnNodes
    /\ at \in AtTurnPut => new \in TurnNodes
    /\ at \in {"turnLink", "turnCur"} => pre \in TurnCells
    /\ at \in {"holePop", "movePop"} => pre \in HoleNodes \cup {NULL}
    /\ at \in {"query", "create", "named", "answer"} \cup AtCreate \cup AtRelay \cup AtMove => asked \in Radoms
    /\ at \in AtMove => addr \in Addresses
    /\ at = "named" => sid \in Sessions
    /\ messages \in Nat
    /\ again \subseteq Radoms
    /\ raced \subseteq {"sessions", "turn", "holes"}

TypeOK == SessionTypes /\ TurnTypes /\ HoleTypes /\ LocalTypes

\* raced tells of every meeting there has been.
MetIsKnown == Met \subseteq raced

\* The sessions: a node that is not allocated is clean; the next of one that is, is
\* allocated, and is the next of no other, but of the one that is being freed.
Hidden == IF at \in AtCreate THEN {new} ELSE {}
Freeing == IF timer = "free" THEN {current} ELSE {}

Unused ==
    \A s \in Sessions \ sessions : sessionNext[s] = NULL /\ radom[s] = NULL /\ s \notin quit

Linked ==
    /\ sessionl \in sessions \cup {NULL}
    /\ \A s \in sessions : sessionNext[s] \in sessions \cup {NULL}
    /\ \A s \in sessions : sessionNext[s] # NULL => sessionNext[s] # sessionl \/ s \in Freeing
    /\ \A s, t \in sessions \ Freeing :
          sessionNext[s] = sessionNext[t] /\ sessionNext[s] # NULL => s = t

\* Every session is in the list, but the one that the listener has allocated and the
\* one that the timer frees, which are not, and no session leads to.
Reached == sessions \subseteq Listed \cup Hidden \cup Freeing

Apart ==
    /\ sessionl \notin Hidden \cup Freeing
    /\ \A s \in Sessions : sessionNext[s] \notin Hidden \cup Freeing

NewSession ==
    at \in AtCreate =>
        new \in sessions \ quit /\ sessionNext[new] = NULL /\ radom[new] = NULL

TimerStands ==
    /\ timer # "asleep" => before \in sessions \ Hidden /\ current \in sessions \ Hidden
    /\ timer \in {"scan", "unlink"} /\ before # current => sessionNext[before] = current
    /\ timer \in {"scan", "unlink"} /\ before = current => sessionl = current
    /\ timer \in {"unlink", "free"} => current \in quit
    /\ timer = "unlink" => after = sessionNext[current]

ListenerStands ==
    /\ at \in AtSession => here \in (sessions \ (Hidden \cup Freeing)) \cup {NULL}
    /\ at \in {"last", "link", "answer"} => here # NULL
    /\ at = "first" => sessionl # NULL
    /\ at = "link" => sessionNext[here] = NULL
    /\ at \in AtRelay => here \in sessions \ quit

SessionsInv ==
    /\ Unused /\ Linked /\ Reached /\ Apart
    /\ NewSession /\ TimerStands /\ ListenerStands

\* A client's session is the only one in the list; the session of the client that is
\* looked up is still ahead, or there is none.
Single == \A s, t \in Listed : radom[s] = radom[t] /\ radom[s] # NULL => s = t

LookedUp ==
    /\ at = "query" => \A s \in Listed : radom[s] = asked => s \in Chain(sessionNext, here)
    /\ at \in {"create", "named"} \cup AtCreate \cup AtRelay => \A s \in Listed : radom[s] # asked
    /\ at = "answer" => \A s \in Listed : radom[s] = asked => s = here

ClientsInv == Single /\ LookedUp

\* The clients of the turn server.
TurnHidden == IF at \in {"turnLast", "turnLink"} THEN {new} ELSE {}

TurnLinked ==
    /\ \A n \in TurnNodes \ turnReqs : turnNext[n] = NULL
    /\ \A n \in TurnCells : turnNext[n] \in (turnReqs \ TurnHidden) \cup {NULL}
    /\ \A m, n \in TurnCells : turnNext[m] = turnNext[n] /\ turnNext[m] # NULL => m = n
    /\ TurnHidden \subseteq turnReqs
    /\ \A n \in TurnHidden : turnNext[n] = NULL

TurnReached == turnReqs \subseteq TurnQueued \cup TurnHidden

FlushStands ==
    /\ flush # "asleep" => /\ flushPre \in (turnReqs \ TurnHidden) \cup {Head}
                           /\ turnNext[flushPre] = flushAt
    /\ flush = "tail" => turnReqCur = flushAt
    /\ flush = "unlink" => turnReqCur # flushAt

PopStands ==
    /\ at \in AtTurnPop => pre \in turnReqs \cup {Head} /\ turnNext[pre] = new
    /\ at = "turnPopTail" => turnReqCur = new
    /\ at = "turnPopUnlink" => turnReqCur # new
    /\ at = "turnLink" => turnReqCur = pre
    /\ at = "turnCur" => turnReqCur = pre /\ turnNext[pre] = new /\ turnNext[new] = NULL

\* m_pReqCur is the last request, or the one before it while that is put in or removed.
TurnTail ==
    /\ turnReqCur \in (turnReqs \ TurnHidden) \cup {Head}
    /\ \/ turnNext[turnReqCur] = NULL
       \/ at = "turnCur"
       \/ flush = "unlink" /\ turnReqCur = flushPre /\ turnNext[flushAt] = NULL
       \/ at = "turnPopUnlink" /\ turnReqCur = pre /\ turnNext[new] = NULL

TurnInv == TurnLinked /\ TurnReached /\ FlushStands /\ PopStands /\ TurnTail

\* The clients of the platform.
HoleLinked ==
    /\ \A n \in HoleNodes \ holes : holeNext[n] = NULL
    /\ \A n \in HoleCells : holeNext[n] \in holes \cup {NULL}
    /\ \A m, n \in HoleCells : holeNext[m] = holeNext[n] /\ holeNext[m] # NULL => m = n
    /\ holeReqCur \in holes \cup {Head} /\ holeNext[holeReqCur] = NULL

HoleReached == holes \subseteq HolesQueued

PunchStands ==
    /\ punch = "lock" => punchPre = Head /\ punchAt = holeNext[Head]
    /\ punch = "send" => /\ holesLocked
                         /\ punchPre \in holes \cup {Head} /\ holeNext[punchPre] = punchAt
    /\ at \in {"holePop", "movePop"} => pre = holeNext[Head]

\* A client has one request, and none once it is served, unless it was announced again.
HoleRequests ==
    /\ \A n \in holes : holeRadom[n] \in Radoms
    /\ \A m, n \in holes : holeRadom[m] = holeRadom[n] /\ holeRadom[m] \notin again => m = n
    /\ \A n \in holes : holeRadom[n] \in Served => holeRadom[n] \in again

\* Nor has it one while its handshake is answered, or while it moves.
HoleTaken ==
    /\ at \in {"answer", "moveInsert"} => \A n \in holes : holeRadom[n] = asked => asked \in again
    /\ at \in AtMove /\ asked \in Served => asked \in again

HolesInv == HoleLinked /\ HoleReached /\ PunchStands /\ HoleRequests /\ HoleTaken

\* A session that is not allocated has no client, even when two threads have met.
Blank == \A s \in Sessions \ sessions : radom[s] = NULL

IInv ==
    /\ TypeOK
    /\ MetIsKnown
    /\ Blank
    /\ "sessions" \notin raced => SessionsInv /\ ClientsInv
    /\ "turn" \notin raced => TurnInv
    /\ "holes" \notin raced => HolesInv
----------------------------------------------------------------------------
(***************************************************************************)
(* Types.                                                                  *)
(***************************************************************************)
LEMMA InitTypes == Init => TypeOK
<1> SUFFICES ASSUME Init PROVE TypeOK
  OBVIOUS
<1> USE DEF Init
<1>1. SessionTypes
  BY DEF SessionInit, SessionTypes
<1>2. TurnTypes
  BY HeadAssumption, TurnNodesAssumption DEF TurnQueueInit, TurnTypes, TurnCells
<1>3. HoleTypes
  <2>1. holesLocked \in BOOLEAN
    BY Zenon DEF TraversalInit
  <2>2. QED
    BY <2>1 DEF TraversalInit, HoleTypes, HoleCells
<1>4. LocalTypes
  BY DEF LocalTypes, AtSession, AtRelay, AtCreate, AtTurnPop, AtTurnPut, AtMove
<1>5. QED
  BY <1>1, <1>2, <1>3, <1>4 DEF TypeOK

\* The steps that change the sessions.
LEMMA SessionSteps ==
    Next => \/ UNCHANGED sessionVars
            \/ CreateFirst \/ CreateNext \/ LinkSession \/ Answer \/ Close
            \/ Timer(Created)
<1> SUFFICES ASSUME Next, ~UNCHANGED sessionVars
             PROVE  \/ CreateFirst \/ CreateNext \/ LinkSession \/ Answer \/ Close
                    \/ Timer(Created)
  OBVIOUS
<1>1. CASE Arrival
  BY <1>1 DEF Arrival, Handshake, SessionData, CloseSession, TurnClient, ClientAnnounced, ClientSeen
<1>2. CASE Handler
  BY <1>2 DEF Handler, Query, First, Last, CreateNamed, GetSession, Relay, TurnPop, TurnPopTail,
     TurnPopUnlink, HolePop, TurnLast, TurnLink, TurnCur, MovePop, MoveInsert, Moved, OnTurn, OnHoles
<1>3. CASE Threads
  BY <1>3 DEF Threads
<1>4. QED
  BY <1>1, <1>2, <1>3 DEF Next

\* The steps that change the clients of the turn server.
LEMMA TurnSteps ==
    Next => \/ UNCHANGED turnQueueVars
            \/ TurnPopTail \/ TurnPopUnlink \/ TurnClient \/ TurnLink \/ TurnCur
            \/ Flush
<1> SUFFICES ASSUME Next, ~UNCHANGED turnQueueVars
             PROVE  TurnPopTail \/ TurnPopUnlink \/ TurnClient \/ TurnLink \/ TurnCur \/ Flush
  OBVIOUS
<1>1. CASE Arrival
  BY <1>1 DEF Arrival, Handshake, SessionData, CloseSession, ClientAnnounced, ClientSeen
<1>2. CASE Handler
  BY <1>2 DEF Handler, Query, CreateFirst, CreateNext, First, Last, LinkSession, CreateNamed,
     GetSession, Relay, TurnPop, HolePop, Answer, Close, TurnLast, MovePop, MoveInsert, Moved,
     OnSessions, OnHoles
<1>3. CASE Threads
  BY <1>3 DEF Threads
<1>4. QED
  BY <1>1, <1>2, <1>3 DEF Next

\* The steps that change the clients of the platform.
LEMMA HoleSteps ==
    Next => \/ UNCHANGED holeVars
            \/ HolePop \/ ClientAnnounced \/ MovePop \/ MoveInsert \/ Moved
            \/ Punch
<1> SUFFICES ASSUME Next, ~UNCHANGED holeVars
             PROVE  HolePop \/ ClientAnnounced \/ MovePop \/ MoveInsert \/ Moved \/ Punch
  OBVIOUS
<1>1. CASE Arrival
  BY <1>1 DEF Arrival, Handshake, SessionData, CloseSession, TurnClient, ClientSeen
<1>2. CASE Handler
  BY <1>2 DEF Handler, Query, CreateFirst, CreateNext, First, Last, LinkSession, CreateNamed,
     GetSession, Relay, TurnPop, TurnPopTail, TurnPopUnlink, Answer, Close, TurnLast, TurnLink,
     TurnCur, OnSessions, OnTurn
<1>3. CASE Threads
  BY <1>3 DEF Threads
<1>4. QED
  BY <1>1, <1>2, <1>3 DEF Next

\* The sessions keep their types when the timer takes a step.
LEMMA SessionTypesTimer == SessionTypes /\ Timer(Created) => SessionTypes'
<1> SUFFICES ASSUME SessionTypes, Timer(Created) PROVE SessionTypes'
  OBVIOUS
<1> USE DEF SessionTypes
<1>1. CASE Wake
  BY <1>1 DEF Wake
<1>2. CASE Pass
  BY <1>2 DEF Pass, Advance
<1>3. CASE Overdue(Created)
  BY <1>3 DEF Overdue, Advance
<1>4. CASE Remove
  BY <1>4 DEF Remove
<1>5. CASE Unlink
  BY <1>5 DEF Unlink
<1>6. CASE Free
  BY <1>6 DEF Free
<1>7. QED
  BY <1>1, <1>2, <1>3, <1>4, <1>5, <1>6 DEF Timer

LEMMA SessionTypesStep == TypeOK /\ Next => SessionTypes'
<1> SUFFICES ASSUME TypeOK, Next PROVE SessionTypes'
  OBVIOUS
<1>0. SessionTypes /\ LocalTypes
  BY DEF TypeOK
<1> USE DEF SessionTypes
<1>1. CASE UNCHANGED sessionVars
  BY <1>0, <1>1 DEF sessionVars, scan
<1>2. CASE CreateFirst
  BY <1>0, <1>2 DEF CreateFirst, AddFirst, scan, LocalTypes, AtSession, AtRelay, AtCreate, AtTurnPop, AtTurnPut, AtMove
<1>3. CASE CreateNext
  BY <1>0, <1>3 DEF CreateNext, Allocate, scan, LocalTypes, AtSession, AtRelay, AtCreate, AtTurnPop, AtTurnPut, AtMove
<1>4. CASE LinkSession
  BY <1>0, <1>4 DEF LinkSession, LinkAfter, scan, LocalTypes, AtSession, AtRelay, AtCreate, AtTurnPop, AtTurnPut, AtMove
<1>5. CASE Answer
  BY <1>0, <1>5 DEF Answer, SetRadom, Return, scan, LocalTypes, AtSession, AtRelay, AtCreate, AtTurnPop, AtTurnPut, AtMove
<1>6. CASE Close
  BY <1>0, <1>6 DEF Close, Quit, Return, scan, sessionVars, LocalTypes, AtSession, AtRelay, AtCreate, AtTurnPop, AtTurnPut, AtMove
<1>7. QED
  BY <1>0, <1>1, <1>2, <1>3, <1>4, <1>5, <1>6, SessionSteps, SessionTypesTimer DEF SessionTypes

LEMMA TurnTypesStep == TypeOK /\ Next => TurnTypes'
<1> SUFFICES ASSUME TypeOK, Next PROVE TurnTypes'
  OBVIOUS
<1>0. TurnTypes /\ LocalTypes
  BY DEF TypeOK
<1> USE DEF TurnTypes, TurnCells
<1>1. CASE UNCHANGED turnQueueVars
  BY <1>0, <1>1 DEF turnQueueVars, flushVars
<1>2. CASE TurnPopTail
  BY <1>0, <1>2, TurnTTLAssumption DEF TurnPopTail, SetReqCur, flushVars, LocalTypes, AtSession, AtRelay, AtCreate, AtTurnPop, AtTurnPut, AtMove
<1>3. CASE TurnPopUnlink
  BY <1>0, <1>3, TurnTTLAssumption DEF TurnPopUnlink, UnlinkTurnReq, TurnForgotten, flushVars, LocalTypes, AtSession, AtRelay, AtCreate, AtTurnPop, AtTurnPut, AtMove
<1>4. CASE TurnClient
  BY <1>0, <1>4, TurnTTLAssumption DEF TurnClient, NewTurnReq, flushVars, LocalTypes, AtSession, AtRelay, AtCreate, AtTurnPop, AtTurnPut, AtMove
<1>5. CASE TurnLink
  BY <1>0, <1>5, TurnTTLAssumption DEF TurnLink, LinkTurnReq, flushVars, LocalTypes, AtSession, AtRelay, AtCreate, AtTurnPop, AtTurnPut, AtMove
<1>6. CASE TurnCur
  BY <1>0, <1>6, TurnTTLAssumption DEF TurnCur, SetReqCur, Return, flushVars, LocalTypes, AtSession, AtRelay, AtCreate, AtTurnPop, AtTurnPut, AtMove
<1>7. CASE FlushStart
  BY <1>0, <1>7, TurnTTLAssumption DEF FlushStart
<1>8. CASE FlushVisit
  BY <1>0, <1>8, TurnTTLAssumption DEF FlushVisit, FlushOn
<1>9. CASE FlushTail
  BY <1>0, <1>9, TurnTTLAssumption DEF FlushTail
<1>10. CASE FlushUnlink
  BY <1>0, <1>10, TurnTTLAssumption DEF FlushUnlink, FlushOn, TurnForgotten
<1>11. QED
  BY <1>0, <1>1, <1>2, <1>3, <1>4, <1>5, <1>6, <1>7, <1>8, <1>9, <1>10, TurnSteps DEF Flush

LEMMA HoleTypesStep == TypeOK /\ Next => HoleTypes'
<1> SUFFICES ASSUME TypeOK, Next PROVE HoleTypes'
  OBVIOUS
<1>0. HoleTypes /\ LocalTypes
  BY DEF TypeOK
<1> USE DEF HoleTypes, HoleCells
<1>1. CASE UNCHANGED holeVars
  BY <1>0, <1>1 DEF holeVars, punchVars
<1>2. CASE HolePop
  BY <1>0, <1>2, HoleTTLAssumption DEF HolePop, PopHole, HoleRemoved, punchVars, LocalTypes, AtSession, AtRelay, AtCreate, AtTurnPop, AtTurnPut, AtMove
<1>3. CASE ClientAnnounced
  BY <1>0, <1>3, HoleTTLAssumption DEF ClientAnnounced, InsertHole, punchVars, LocalTypes, AtSession, AtRelay, AtCreate, AtTurnPop, AtTurnPut, AtMove
<1>4. CASE MovePop
  BY <1>0, <1>4, HoleTTLAssumption DEF MovePop, PopHole, HoleRemoved, punchVars, LocalTypes, AtSession, AtRelay, AtCreate, AtTurnPop, AtTurnPut, AtMove
<1>5. CASE MoveInsert
  BY <1>0, <1>5, HoleTTLAssumption DEF MoveInsert, InsertHole, punchVars, LocalTypes, AtSession, AtRelay, AtCreate, AtTurnPop, AtTurnPut, AtMove
<1>6. CASE Moved
  BY <1>0, <1>6, HoleTTLAssumption DEF Moved, UnlockAgain, Return, punchVars, LocalTypes, AtSession, AtRelay, AtCreate, AtTurnPop, AtTurnPut, AtMove
<1>7. CASE PunchStart
  BY <1>0, <1>7, HoleTTLAssumption DEF PunchStart
<1>8. CASE PunchLock
  BY <1>0, <1>8, HoleTTLAssumption DEF PunchLock
<1>9. CASE PunchSend
  <2>1. holesLocked' \in BOOLEAN
    BY <1>0, <1>9, Zenon DEF PunchSend, PunchOn
  <2>2. CASE holeLeft[punchAt] > 1
    BY <1>0, <1>9, <2>1, <2>2 DEF PunchSend, PunchOn
  <2>3. CASE ~(holeLeft[punchAt] > 1)
    <3>1. /\ holeNext' \in [HoleCells -> HoleNodes \cup {NULL}]
          /\ holeReqCur' \in HoleCells
      BY <1>0, <1>9, <2>3 DEF PunchSend, HoleRemoved
    <3>2. /\ holes' \subseteq HoleNodes
          /\ holeRadom' \in [HoleNodes -> Radoms \cup {NULL}]
          /\ holeAddr' \in [HoleNodes -> Addresses \cup {NULL}]
          /\ holeLeft' \in [HoleNodes -> Int]
      BY <1>0, <1>9, <2>3 DEF PunchSend, HoleRemoved
    <3>3. /\ punch' \in {"asleep", "lock", "send"}
          /\ punch' # "asleep" => punchPre' \in HoleCells /\ punchAt' \in HoleNodes
      BY <1>0, <1>9, <2>3 DEF PunchSend, PunchOn
    <3>4. QED
      BY <2>1, <3>1, <3>2, <3>3
  <2>4. QED
    BY <2>2, <2>3
<1>10. QED
  BY <1>0, <1>1, <1>2, <1>3, <1>4, <1>5, <1>6, <1>7, <1>8, <1>9, HoleSteps DEF Punch

LEMMA LocalTypesStep == TypeOK /\ Next => LocalTypes'
<1> SUFFICES ASSUME TypeOK, Next PROVE LocalTypes'
  OBVIOUS
<1>0. SessionTypes /\ TurnTypes /\ HoleTypes /\ LocalTypes
  BY DEF TypeOK
<1>r. raced' \subseteq {"sessions", "turn", "holes"}
  <2>1. Met' \subseteq {"sessions", "turn", "holes"}
    BY DEF Met
  <2>2. QED
    BY <1>0, <2>1 DEF LocalTypes, Next
<1> USE <1>0, <1>r DEF LocalTypes, AtSession, AtRelay, AtCreate, AtTurnPop, AtTurnPut, AtMove, localVars
<1>1. CASE Handshake
  BY <1>1 DEF Handshake, Message, SessionTypes
<1>2. CASE SessionData
  BY <1>2 DEF SessionData, Message, SessionTypes
<1>3. CASE CloseSession
  BY <1>3 DEF CloseSession, Message, SessionTypes
<1>4. CASE TurnClient
  BY <1>4 DEF TurnClient, Message, TurnTypes, TurnCells
<1>5. CASE ClientAnnounced
  BY <1>5 DEF ClientAnnounced, Message
<1>6. CASE ClientSeen
  BY <1>6 DEF ClientSeen, Message, HoleTypes, HoleCells
<1>7. CASE Query
  BY <1>7 DEF Query, OnSessions, SessionTypes
<1>8. CASE CreateFirst
  BY <1>8 DEF CreateFirst, OnSessions, SessionTypes
<1>9. CASE CreateNext
  BY <1>9 DEF CreateNext, OnSessions, SessionTypes
<1>10. CASE First
  BY <1>10 DEF First, OnSessions, SessionTypes
<1>11. CASE Last
  BY <1>11 DEF Last, OnSessions, SessionTypes
<1>12. CASE LinkSession
  BY <1>12 DEF LinkSession, OnSessions, SessionTypes
<1>13. CASE CreateNamed
  BY <1>13 DEF CreateNamed, OnSessions, SessionTypes
<1>14. CASE GetSession
  <2>1. CASE here = NULL /\ Return
    BY <1>14, <2>1 DEF GetSession, OnSessions, Return
  <2>2. CASE here \in sessions /\ here # sid
    BY <1>14, <2>2 DEF GetSession, OnSessions, Return, SessionTypes
  <2>3. CASE here \in sessions /\ here = sid
    BY <1>14, <2>3 DEF GetSession, OnSessions, Return, SessionTypes
  <2>4. QED
    BY <1>14, <2>1, <2>2, <2>3 DEF GetSession
<1>15. CASE Relay
  BY <1>15 DEF Relay, OnTurn, TurnTypes, TurnCells
<1>16. CASE TurnPop
  BY <1>16 DEF TurnPop, OnTurn, TurnTypes, TurnCells, HoleTypes, HoleCells
<1>17. CASE TurnPopTail
  BY <1>17 DEF TurnPopTail, OnTurn, TurnTypes, TurnCells
<1>18. CASE TurnPopUnlink
  BY <1>18 DEF TurnPopUnlink, OnTurn, TurnTypes, TurnCells, HoleTypes, HoleCells
<1>19. CASE HolePop
  BY <1>19 DEF HolePop, OnHoles
<1>20. CASE Answer
  BY <1>20 DEF Answer, OnSessions, Return, SessionTypes
<1>21. CASE Close
  BY <1>21 DEF Close, OnSessions, Return, SessionTypes
<1>22. CASE TurnLast
  BY <1>22 DEF TurnLast, OnTurn, TurnTypes, TurnCells
<1>23. CASE TurnLink
  BY <1>23 DEF TurnLink, OnTurn, TurnTypes, TurnCells
<1>24. CASE TurnCur
  BY <1>24 DEF TurnCur, OnTurn, Return, TurnTypes, TurnCells
<1>25. CASE MovePop
  BY <1>25 DEF MovePop, OnHoles
<1>26. CASE MoveInsert
  BY <1>26 DEF MoveInsert, OnHoles
<1>27. CASE Moved
  BY <1>27 DEF Moved, OnHoles, Return
<1>28. CASE Threads
  BY <1>28 DEF Threads, listenerVars
<1>29. QED
  BY <1>1, <1>2, <1>3, <1>4, <1>5, <1>6, <1>7, <1>8, <1>9, <1>10, <1>11, <1>12, <1>13, <1>14, <1>15, <1>16, <1>17, <1>18, <1>19, <1>20, <1>21, <1>22, <1>23, <1>24, <1>25, <1>26, <1>27, <1>28 DEF Next, Arrival, Handler

LEMMA TypesStep == TypeOK /\ [Next]_vars => TypeOK'
<1>1. ASSUME TypeOK, Next PROVE TypeOK'
  BY <1>1, SessionTypesStep, TurnTypesStep, HoleTypesStep, LocalTypesStep DEF TypeOK
<1>2. ASSUME TypeOK, UNCHANGED vars PROVE TypeOK'
  <2>1. /\ UNCHANGED <<sessionVars, turnQueueVars, holeVars>>
        /\ UNCHANGED <<listenerVars, raced>>
    BY <1>2 DEF vars
  <2>2. SessionTypes'
    BY <1>2, <2>1 DEF TypeOK, SessionTypes, sessionVars
  <2>3. TurnTypes'
    BY <1>2, <2>1 DEF TypeOK, TurnTypes, turnQueueVars, TurnCells
  <2>4. HoleTypes'
    BY <1>2, <2>1 DEF TypeOK, HoleTypes, holeVars, HoleCells
  <2>5. LocalTypes'
    BY <1>2, <2>1 DEF TypeOK, LocalTypes, listenerVars, localVars
  <2>6. QED
    BY <2>2, <2>3, <2>4, <2>5 DEF TypeOK
<1>3. QED
  BY <1>1, <1>2

\* The variables keep the types of the code's, whatever the threads do.
THEOREM TypeCorrect == Spec => []TypeOK
<1>1. QED
  BY InitTypes, TypesStep, PTL DEF Spec

----------------------------------------------------------------------------
(***************************************************************************)
(* The list of sessions.                                                   *)
(***************************************************************************)
\* No session follows itself: it would be the only one to lead to itself, and so
\* out of the list.
LEMMA NoLoop ==
    ASSUME SessionTypes, SessionsInv, timer # "free", NEW c \in sessions
    PROVE  sessionNext[c] # c
<1> SUFFICES ASSUME sessionNext[c] = c PROVE FALSE
  OBVIOUS
<1>1. c \in Sessions /\ c # NULL /\ Freeing = {}
  BY SessionsAssumption DEF SessionTypes, Freeing
<1>2. c # sessionl
  BY <1>1 DEF SessionsInv, Linked
<1>3. c \notin Hidden
  BY <1>1 DEF SessionsInv, Apart
<1>4. \A m \in Sessions : m # c => sessionNext[m] # c
  BY <1>1 DEF SessionsInv, Linked, Unused
<1>5. c \notin Listed
  BY <1>2, <1>4, ChainAvoids, SessionsAssumption DEF SessionTypes, Listed
<1>6. QED
  BY <1>1, <1>3, <1>5 DEF SessionsInv, Reached

\* A step that changes no session, and no session that the listener hides, leaves the
\* list as it is.
LEMMA SessionsStill ==
    ASSUME SessionsInv, UNCHANGED sessionVars, Hidden' = Hidden
    PROVE  Unused' /\ Linked' /\ Reached' /\ Apart' /\ TimerStands'
<1>1. Freeing' = Freeing
  BY DEF Freeing, sessionVars
<1>2. Unused' /\ Linked'
  BY <1>1 DEF SessionsInv, Unused, Linked, sessionVars
<1>3. Reached' /\ Apart'
  BY <1>1 DEF SessionsInv, Reached, Apart, Listed, sessionVars
<1>4. TimerStands'
  BY DEF SessionsInv, TimerStands, sessionVars
<1>5. QED
  BY <1>2, <1>3, <1>4

\* The sessions, when the timer takes one out of the list.
LEMMA SessionUnlinked ==
    ASSUME TypeOK, SessionsInv, Unlink, UNCHANGED <<at, asked, here, new>>, ~MeetOnSessions
    PROVE  SessionsInv' /\ Listed' \subseteq Listed /\ Listed \ {current} \subseteq Listed'
<1> USE DEF Unlink
<1>t. SessionTypes /\ timer = "unlink" /\ timer' = "free"
  BY DEF TypeOK
<1>0. /\ Freeing = {} /\ Freeing' = {current} /\ Hidden' = Hidden
      /\ before \in sessions \ Hidden /\ current \in sessions \ Hidden
      /\ before \in Sessions /\ current \in Sessions
      /\ current \in quit /\ after = sessionNext[current]
      /\ current # NULL
  BY <1>t, SessionsAssumption DEF Freeing, Hidden, SessionsInv, TimerStands, SessionTypes
<1>1. sessionNext[current] # current
  BY <1>t, <1>0, NoLoop
<1>2. CASE before = current
  <2>1. sessionl = current /\ sessionl' = sessionNext[current] /\ sessionNext' = sessionNext
    BY <1>t, <1>0, <1>2 DEF SessionsInv, TimerStands
  <2>2. Unused'
    BY <2>1 DEF SessionsInv, Unused
  <2>3. Linked'
    BY <1>0, <2>1 DEF SessionsInv, Linked
  <2>4. Listed = {current} \cup Listed'
    BY <1>t, <1>0, <2>1, ChainStep, SessionsAssumption DEF Listed, SessionTypes
  <2>5. Reached'
    BY <1>0, <2>4 DEF SessionsInv, Reached
  <2>6. \A s \in Sessions : sessionNext[s] # current
    BY <1>0, <2>1 DEF SessionsInv, Linked, Unused
  <2>7. Apart'
    BY <1>0, <1>1, <2>1, <2>6 DEF SessionsInv, Apart
  <2>8. NewSession' /\ ListenerStands'
    <3>1. (at \in AtSession => here # current) /\ at # "first"
      BY <1>t, <2>1 DEF MeetOnSessions, AtSession
    <3>2. QED
      BY <1>0, <2>1, <3>1 DEF SessionsInv, NewSession, ListenerStands
  <2>9. TimerStands'
    BY <1>0, <1>t DEF TimerStands
  <2>10. QED
    BY <2>2, <2>3, <2>4, <2>5, <2>7, <2>8, <2>9 DEF SessionsInv
<1>3. CASE before # current
  <2>1. /\ sessionNext[before] = current /\ sessionl' = sessionl
    BY <1>t, <1>0, <1>3 DEF SessionsInv, TimerStands
  <2>2. sessionl # current
    BY <1>0, <2>1 DEF SessionsInv, Linked
  <2>a. /\ sessionNext' \in [Sessions -> Sessions \cup {NULL}]
        /\ sessionNext'[before] = sessionNext[current]
        /\ \A s \in Sessions \ {before} : sessionNext'[s] = sessionNext[s]
    <3>1. sessionNext[current] \in Sessions \cup {NULL}
      BY <1>t, <1>0 DEF SessionTypes
    <3>2. QED
      BY <1>t, <1>0, <1>3, <3>1 DEF SessionTypes
  <2>3. Unused'
    BY <1>0, <2>a DEF SessionsInv, Unused
  <2>4. Linked'
    <3>1. sessionl' \in sessions' \cup {NULL}
      BY <2>1 DEF SessionsInv, Linked
    <3>2. ASSUME NEW s \in sessions' PROVE sessionNext'[s] \in sessions' \cup {NULL}
      BY <1>0, <1>t, <2>a, <3>2 DEF SessionsInv, Linked, SessionTypes
    <3>3. ASSUME NEW s \in sessions', sessionNext'[s] # NULL
          PROVE  sessionNext'[s] # sessionl' \/ s \in Freeing'
      BY <1>0, <1>t, <2>1, <2>a, <3>3 DEF SessionsInv, Linked, SessionTypes
    <3>4. ASSUME NEW s \in sessions' \ Freeing', NEW t \in sessions' \ Freeing',
                 sessionNext'[s] = sessionNext'[t], sessionNext'[s] # NULL
          PROVE  s = t
      BY <1>0, <1>t, <2>1, <2>a, <3>4 DEF SessionsInv, Linked, SessionTypes
    <3>5. QED
      BY <3>1, <3>2, <3>3, <3>4 DEF Linked
  <2>5. /\ Listed \ {current} \subseteq Listed'
        /\ Listed' \subseteq Listed
    <3>1. /\ NULL \notin Sessions /\ sessionNext \in [Sessions -> Sessions \cup {NULL}]
          /\ sessionl \in Sessions \cup {NULL}
      BY <1>t, SessionsAssumption DEF SessionTypes
    <3>2. /\ Chain(sessionNext, sessionl) \ {current} \subseteq Chain(sessionNext', sessionl)
          /\ Chain(sessionNext', sessionl) \subseteq Chain(sessionNext, sessionl)
      <4> HIDE DEF Unlink
      <4>1. QED
        BY <1>0, <2>1, <2>2, <2>a, <3>1, ChainShortened
    <3>3. QED
      BY <2>1, <3>2 DEF Listed
  <2>6. Reached'
    BY <1>0, <2>5 DEF SessionsInv, Reached
  <2>7. \A s \in Sessions : sessionNext'[s] # current
    <3>1. \A s \in Sessions : sessionNext[s] = current => s = before
      BY <1>0, <1>t, <2>1 DEF SessionsInv, Linked, Unused, SessionTypes
    <3>2. QED
      BY <1>1, <2>a, <3>1
  <2>8. Apart'
    <3>1. \A s \in Sessions : sessionNext'[s] \notin Hidden
      BY <1>0, <2>a DEF SessionsInv, Apart
    <3>2. QED
      BY <1>0, <2>1, <2>2, <2>7, <3>1 DEF SessionsInv, Apart
  <2>9. NewSession'
    BY <1>0, <1>t, <2>a DEF SessionsInv, NewSession, Hidden, TypeOK, LocalTypes
  <2>10. ListenerStands'
    <3>1. at \in AtSession => here # current
      BY <1>t DEF MeetOnSessions, AtSession
    <3>2. at = "link" => here \in Sessions /\ here # before
      BY <1>0, <1>t, <2>1 DEF SessionsInv, ListenerStands, TypeOK, SessionTypes, AtSession
    <3>3. QED
      BY <1>0, <2>1, <2>a, <3>1, <3>2 DEF SessionsInv, ListenerStands
  <2>11. TimerStands'
    BY <1>0, <1>t DEF TimerStands
  <2>12. QED
    BY <2>3, <2>4, <2>5, <2>6, <2>8, <2>9, <2>10, <2>11 DEF SessionsInv
<1>4. QED
  BY <1>2, <1>3

\* The sessions, when the timer frees the one it has taken out.
LEMMA SessionFreed ==
    ASSUME TypeOK, SessionsInv, Free, UNCHANGED <<at, asked, here, new>>
    PROVE  SessionsInv' /\ Listed' = Listed /\ current \notin Listed
<1> USE DEF Free
<1>t. SessionTypes /\ timer = "free" /\ timer' = "asleep"
  BY DEF TypeOK
<1>0. /\ Freeing = {current} /\ Freeing' = {} /\ Hidden' = Hidden
      /\ current \in sessions \ Hidden /\ current \in Sessions /\ current \in quit
      /\ current # NULL
  BY <1>t, SessionsAssumption DEF Freeing, Hidden, SessionsInv, TimerStands, SessionTypes
<1>1. sessionl # current /\ \A s \in Sessions : sessionNext[s] # current
  BY <1>0 DEF SessionsInv, Apart
<1>2. /\ sessionNext' \in [Sessions -> Sessions \cup {NULL}]
      /\ sessionNext'[current] = NULL
      /\ \A s \in Sessions \ {current} : sessionNext'[s] = sessionNext[s]
      /\ radom'[current] = NULL
      /\ \A s \in Sessions \ {current} : radom'[s] = radom[s]
  BY <1>t, <1>0 DEF SessionTypes
<1>3. Unused'
  BY <1>0, <1>2 DEF SessionsInv, Unused
<1>4. Linked'
  <2>1. sessionl' \in sessions' \cup {NULL}
    BY <1>1 DEF SessionsInv, Linked
  <2>2. ASSUME NEW s \in sessions' PROVE s \in sessions \ Freeing /\ sessionNext'[s] = sessionNext[s]
    BY <1>t, <1>0, <1>2 DEF SessionTypes
  <2>3. QED
    BY <1>t, <1>0, <1>1, <2>1, <2>2 DEF SessionsInv, Linked, SessionTypes
<1>5. Listed' = Listed
  <2>1. /\ NULL \notin Sessions /\ sessionNext \in [Sessions -> Sessions \cup {NULL}]
        /\ sessionl \in Sessions \cup {NULL}
    BY <1>t, SessionsAssumption DEF SessionTypes
  <2>2. Chain(sessionNext', sessionl) = Chain(sessionNext, sessionl)
    <3> HIDE DEF Free
    <3>1. QED
      BY <1>0, <1>1, <1>2, <2>1, ChainCleared
  <2>3. QED
    BY <2>2 DEF Listed
<1>6. current \notin Listed
  BY <1>t, <1>1, ChainAvoids, SessionsAssumption DEF Listed, SessionTypes
<1>7. Reached'
  BY <1>0, <1>5 DEF SessionsInv, Reached
<1>8. Apart'
  <2>1. \A s \in Sessions : sessionNext'[s] \in {NULL, sessionNext[s]}
    BY <1>0, <1>2
  <2>2. NULL \notin Hidden
    BY <1>t, SessionsAssumption DEF Hidden, TypeOK, LocalTypes
  <2>3. QED
    BY <1>0, <2>1, <2>2 DEF SessionsInv, Apart
<1>9. NewSession'
  BY <1>0, <1>2, <1>t DEF SessionsInv, NewSession, Hidden, TypeOK, LocalTypes
<1>10. ListenerStands'
  <2>1. at \in AtSession => here # current
    BY <1>0 DEF SessionsInv, ListenerStands
  <2>2. at \in AtRelay => here # current
    BY <1>0 DEF SessionsInv, ListenerStands
  <2>3. at = "link" => here \in Sessions /\ here # current
    BY <1>0, <1>t, <2>1 DEF SessionsInv, ListenerStands, SessionTypes, AtSession
  <2>4. QED
    BY <1>0, <1>2, <2>1, <2>2, <2>3 DEF SessionsInv, ListenerStands
<1>11. TimerStands'
  BY <1>t DEF TimerStands
<1>12. QED
  BY <1>3, <1>4, <1>5, <1>6, <1>7, <1>8, <1>9, <1>10, <1>11 DEF SessionsInv

\* The sessions, when the timer goes on to the next.
LEMMA SessionAdvanced ==
    ASSUME TypeOK, SessionsInv, timer = "scan", Advance, UNCHANGED <<at, asked, here, new>>,
           quit' \in {quit, quit \cup {current}}, quit' # quit => current # Created
    PROVE  SessionsInv' /\ Listed' = Listed
<1> USE DEF Advance
<1>t. SessionTypes /\ timer' \in {"asleep", "scan"}
  BY DEF TypeOK
<1>0. /\ Freeing = {} /\ Freeing' = {} /\ Hidden' = Hidden
      /\ before \in sessions \ Hidden /\ current \in sessions \ Hidden
      /\ current \in Sessions /\ current # NULL
  BY <1>t, SessionsAssumption DEF Freeing, Hidden, SessionsInv, TimerStands, SessionTypes
<1>1. sessionNext[current] # current
  BY <1>0, <1>t, NoLoop
<1>2. Unused' /\ Linked'
  BY <1>0 DEF SessionsInv, Unused, Linked
<1>3. Reached' /\ Apart' /\ Listed' = Listed
  BY <1>0 DEF SessionsInv, Reached, Apart, Listed
<1>4. NewSession'
  BY <1>0 DEF SessionsInv, NewSession, Hidden
<1>5. ListenerStands'
  <2>1. at \in AtRelay => here = Created
    BY DEF Created, AtRelay
  <2>2. at \in AtRelay => here \in sessions \ quit'
    BY <2>1 DEF SessionsInv, ListenerStands
  <2>3. QED
    BY <1>0, <2>2 DEF SessionsInv, ListenerStands
<1>6. TimerStands'
  <2>1. CASE sessionNext[current] = NULL
    BY <2>1, <1>t DEF TimerStands
  <2>2. CASE sessionNext[current] # NULL
    <3>1. sessionNext[current] \in sessions \ Hidden
      BY <1>0, <2>2 DEF SessionsInv, Linked, Apart
    <3>2. QED
      BY <1>0, <1>1, <1>t, <2>2, <3>1 DEF TimerStands
  <2>3. QED
    BY <2>1, <2>2
<1>7. QED
  BY <1>2, <1>3, <1>4, <1>5, <1>6 DEF SessionsInv

\* The sessions, at every step of the timer.
LEMMA SessionsTimer ==
    ASSUME TypeOK, SessionsInv, Timer(Created), UNCHANGED <<at, asked, here, new>>, ~MeetOnSessions
    PROVE  /\ SessionsInv'
           /\ Listed' \subseteq Listed
           /\ Listed \ {current} \subseteq Listed'
           /\ timer # "unlink" => Listed' = Listed
<1>1. CASE Wake
  <2>1. /\ Freeing = {} /\ Freeing' = {} /\ Hidden' = Hidden
        /\ UNCHANGED <<sessionl, sessionNext, radom, quit, sessions>>
    BY <1>1 DEF Wake, Freeing, Hidden
  <2>2. Unused' /\ Linked' /\ Reached' /\ Apart' /\ NewSession' /\ ListenerStands' /\ Listed' = Listed
    <3>1. Unused' /\ Linked'
      BY <2>1 DEF SessionsInv, Unused, Linked
    <3>2. Reached' /\ Apart' /\ Listed' = Listed
      BY <2>1 DEF SessionsInv, Reached, Apart, Listed
    <3>3. NewSession' /\ ListenerStands'
      BY <2>1 DEF SessionsInv, NewSession, ListenerStands
    <3>4. QED
      BY <3>1, <3>2, <3>3
  <2>3. TimerStands'
    BY <1>1, <2>1 DEF Wake, SessionsInv, Linked, Apart, TimerStands
  <2>4. QED
    BY <2>2, <2>3 DEF SessionsInv
<1>2. CASE Pass
  BY <1>2, SessionAdvanced DEF Pass
<1>3. CASE Overdue(Created)
  BY <1>3, SessionAdvanced DEF Overdue
<1>4. CASE Remove
  <2>1. /\ Freeing = {} /\ Freeing' = {} /\ Hidden' = Hidden
        /\ UNCHANGED <<sessionl, sessionNext, radom, quit, sessions, before, current>>
    BY <1>4 DEF Remove, Freeing, Hidden
  <2>2. Unused' /\ Linked'
    BY <2>1 DEF SessionsInv, Unused, Linked
  <2>3. Reached' /\ Apart' /\ Listed' = Listed
    BY <2>1 DEF SessionsInv, Reached, Apart, Listed
  <2>4. NewSession' /\ ListenerStands'
    BY <2>1 DEF SessionsInv, NewSession, ListenerStands
  <2>5. TimerStands'
    BY <1>4, <2>1 DEF Remove, SessionsInv, TimerStands
  <2>6. QED
    BY <2>2, <2>3, <2>4, <2>5 DEF SessionsInv
<1>5. CASE Unlink
  BY <1>5, SessionUnlinked DEF Unlink
<1>6. CASE Free
  BY <1>6, SessionFreed DEF Free
<1>7. QED
  BY <1>1, <1>2, <1>3, <1>4, <1>5, <1>6 DEF Timer

\* The sessions, at every step of the listener that changes none.
LEMMA SessionsListened ==
    ASSUME TypeOK, SessionsInv, ~MeetOnSessions,
           \/ Handshake \/ SessionData \/ CloseSession \/ TurnClient \/ ClientAnnounced \/ ClientSeen
           \/ Query \/ First \/ Last \/ CreateNamed \/ GetSession \/ Relay
           \/ TurnPop \/ TurnPopTail \/ TurnPopUnlink \/ HolePop
           \/ TurnLast \/ TurnLink \/ TurnCur \/ MovePop \/ MoveInsert \/ Moved
    PROVE  SessionsInv' /\ Listed' = Listed
<1> USE DEF AtSession, AtCreate, AtRelay, localVars, sessionVars
<1>t. SessionTypes /\ LocalTypes
  BY DEF TypeOK
<1>l. /\ sessionl \in (sessions \ (Hidden \cup Freeing)) \cup {NULL}
      /\ NULL \notin Sessions /\ NULL \notin sessions
      /\ \A s \in sessions : sessionNext[s] \in (sessions \ (Hidden \cup Freeing)) \cup {NULL}
  <2>1. sessions \subseteq Sessions
    BY <1>t DEF SessionTypes
  <2>2. QED
    BY <2>1, SessionsAssumption DEF SessionsInv, Linked, Apart
<1>s. UNCHANGED sessionVars
  <2>1. CASE Handshake \/ SessionData \/ CloseSession \/ TurnClient \/ ClientAnnounced \/ ClientSeen
    BY <2>1 DEF Handshake, SessionData, CloseSession, TurnClient, ClientAnnounced, ClientSeen
  <2>2. CASE Query \/ First \/ Last \/ CreateNamed \/ GetSession
    BY <2>2 DEF Query, First, Last, CreateNamed, GetSession
  <2>3. CASE Relay \/ TurnPop \/ TurnPopTail \/ TurnPopUnlink \/ HolePop
    BY <2>3 DEF Relay, TurnPop, TurnPopTail, TurnPopUnlink, HolePop, OnTurn, OnHoles
  <2>4. CASE TurnLast \/ TurnLink \/ TurnCur \/ MovePop \/ MoveInsert \/ Moved
    BY <2>4 DEF TurnLast, TurnLink, TurnCur, MovePop, MoveInsert, Moved, OnTurn, OnHoles
  <2>5. QED
    BY <2>1, <2>2, <2>3, <2>4
<1>f. Freeing' = Freeing /\ sessions' = sessions /\ quit' = quit /\ sessionNext' = sessionNext
  BY <1>s DEF Freeing
<1>1. CASE Handshake
  <2>1. Hidden' = Hidden
    BY <1>1 DEF Handshake, Message, Hidden
  <2>2. NewSession'
    BY <1>1, <1>f DEF Handshake, Message, SessionsInv, NewSession
  <2>3. ListenerStands'
    BY <1>1, <1>f, <1>l, <1>t, <2>1 DEF Handshake, Message, SessionsInv, ListenerStands
  <2>4. QED
    BY <1>s, <2>1, <2>2, <2>3, SessionsStill DEF SessionsInv, Listed
<1>2. CASE SessionData
  <2>1. Hidden' = Hidden
    BY <1>2 DEF SessionData, Message, Hidden
  <2>2. NewSession'
    BY <1>2, <1>f DEF SessionData, Message, SessionsInv, NewSession
  <2>3. ListenerStands'
    BY <1>2, <1>f, <1>l, <1>t, <2>1 DEF SessionData, Message, SessionsInv, ListenerStands
  <2>4. QED
    BY <1>s, <2>1, <2>2, <2>3, SessionsStill DEF SessionsInv, Listed
<1>3. CASE CloseSession
  <2>1. Hidden' = Hidden
    BY <1>3 DEF CloseSession, Message, Hidden
  <2>2. NewSession'
    BY <1>3, <1>f DEF CloseSession, Message, SessionsInv, NewSession
  <2>3. ListenerStands'
    BY <1>3, <1>f, <1>l, <1>t, <2>1 DEF CloseSession, Message, SessionsInv, ListenerStands
  <2>4. QED
    BY <1>s, <2>1, <2>2, <2>3, SessionsStill DEF SessionsInv, Listed
<1>4. CASE TurnClient
  <2>1. Hidden' = Hidden
    BY <1>4 DEF TurnClient, Message, Hidden
  <2>2. NewSession'
    BY <1>4, <1>f DEF TurnClient, Message, SessionsInv, NewSession
  <2>3. ListenerStands'
    BY <1>4, <1>f, <1>l, <1>t, <2>1 DEF TurnClient, Message, SessionsInv, ListenerStands
  <2>4. QED
    BY <1>s, <2>1, <2>2, <2>3, SessionsStill DEF SessionsInv, Listed
<1>5. CASE ClientAnnounced
  <2>1. Hidden' = Hidden
    BY <1>5 DEF ClientAnnounced, Message, Hidden
  <2>2. NewSession'
    BY <1>5, <1>f DEF ClientAnnounced, Message, SessionsInv, NewSession
  <2>3. ListenerStands'
    BY <1>5, <1>f, <1>l, <1>t, <2>1 DEF ClientAnnounced, Message, SessionsInv, ListenerStands
  <2>4. QED
    BY <1>s, <2>1, <2>2, <2>3, SessionsStill DEF SessionsInv, Listed
<1>6. CASE ClientSeen
  <2>1. Hidden' = Hidden
    BY <1>6 DEF ClientSeen, Message, Hidden
  <2>2. NewSession'
    BY <1>6, <1>f DEF ClientSeen, Message, SessionsInv, NewSession
  <2>3. ListenerStands'
    BY <1>6, <1>f, <1>l, <1>t, <2>1 DEF ClientSeen, Message, SessionsInv, ListenerStands
  <2>4. QED
    BY <1>s, <2>1, <2>2, <2>3, SessionsStill DEF SessionsInv, Listed
<1>7. CASE Query
  <2>1. Hidden' = Hidden
    BY <1>7 DEF Query, Hidden
  <2>2. NewSession'
    BY <1>7, <1>f DEF Query, SessionsInv, NewSession
  <2>3. ListenerStands'
    <3>1. here \in (sessions \ (Hidden \cup Freeing)) \cup {NULL}
      BY <1>7 DEF Query, SessionsInv, ListenerStands
    <3>2. CASE here = NULL
      BY <1>7, <1>l, <3>2 DEF Query, ListenerStands
    <3>3. CASE here \in sessions /\ radom[here] = asked
      BY <1>7, <1>f, <1>l, <2>1, <3>1, <3>3 DEF Query, ListenerStands
    <3>4. CASE here \in sessions /\ radom[here] # asked
      <4>1. at' = "query" /\ here' = sessionNext[here]
        BY <1>7, <1>l, <3>4 DEF Query
      <4>2. QED
        BY <1>f, <1>l, <2>1, <3>4, <4>1 DEF ListenerStands
    <3>5. QED
      BY <1>7, <3>1, <3>2, <3>3, <3>4 DEF Query
  <2>4. QED
    BY <1>s, <2>1, <2>2, <2>3, SessionsStill DEF SessionsInv, Listed
<1>8. CASE First
  <2>1. Hidden' = Hidden
    BY <1>8 DEF First, Hidden
  <2>2. NewSession'
    BY <1>8, <1>f DEF First, SessionsInv, NewSession
  <2>3. ListenerStands'
    <3>1. here' = sessionl /\ sessionl # NULL /\ at' = "last"
      BY <1>8 DEF First, SessionsInv, ListenerStands
    <3>2. QED
      BY <1>f, <1>l, <2>1, <3>1 DEF ListenerStands
  <2>4. QED
    BY <1>s, <2>1, <2>2, <2>3, SessionsStill DEF SessionsInv, Listed
<1>9. CASE Last
  <2>1. Hidden' = Hidden
    BY <1>9 DEF Last, Hidden
  <2>2. NewSession'
    BY <1>9, <1>f DEF Last, SessionsInv, NewSession
  <2>3. ListenerStands'
    BY <1>9, <1>f, <1>l, <1>t, <2>1 DEF Last, SessionsInv, ListenerStands
  <2>4. QED
    BY <1>s, <2>1, <2>2, <2>3, SessionsStill DEF SessionsInv, Listed
<1>10. CASE CreateNamed
  <2>1. Hidden' = Hidden
    BY <1>10 DEF CreateNamed, Hidden
  <2>2. NewSession'
    BY <1>10, <1>f DEF CreateNamed, SessionsInv, NewSession
  <2>3. ListenerStands'
    BY <1>10, <1>f, <1>l, <1>t, <2>1 DEF CreateNamed, SessionsInv, ListenerStands
  <2>4. QED
    BY <1>s, <2>1, <2>2, <2>3, SessionsStill DEF SessionsInv, Listed
<1>11. CASE GetSession
  <2>1. Hidden' = Hidden
    BY <1>11 DEF GetSession, Return, Hidden
  <2>2. NewSession'
    BY <1>11, <1>f DEF GetSession, Return, SessionsInv, NewSession
  <2>3. ListenerStands'
    <3>1. CASE here = NULL /\ Return
      BY <3>1, <1>f, <2>1 DEF Return, ListenerStands
    <3>2. CASE here \in sessions /\ here # sid
      <4>1. at' \in {"named", "get"} /\ here' = sessionNext[here]
        BY <1>11, <1>l, <3>2 DEF GetSession
      <4>2. QED
        BY <1>f, <1>l, <2>1, <3>2, <4>1 DEF ListenerStands
    <3>3. CASE here \in sessions /\ here = sid /\ here \notin quit /\ at = "named"
      BY <1>11, <3>3, <1>f, <2>1 DEF GetSession, Return, ListenerStands, SessionsInv
    <3>4. CASE here = sid /\ (here \in quit \/ at = "get") /\ Return
      BY <3>4, <1>f, <2>1 DEF Return, ListenerStands
    <3>5. QED
      BY <1>11, <3>1, <3>2, <3>3, <3>4 DEF GetSession
  <2>4. QED
    BY <1>s, <2>1, <2>2, <2>3, SessionsStill DEF SessionsInv, Listed
<1>12. CASE Relay
  <2>1. Hidden' = Hidden
    BY <1>12 DEF Relay, Hidden
  <2>2. NewSession'
    BY <1>12, <1>f DEF Relay, SessionsInv, NewSession
  <2>3. ListenerStands'
    BY <1>12, <1>f, <1>l, <1>t, <2>1 DEF Relay, SessionsInv, ListenerStands
  <2>4. QED
    BY <1>s, <2>1, <2>2, <2>3, SessionsStill DEF SessionsInv, Listed
<1>13. CASE TurnPop
  <2>1. Hidden' = Hidden
    BY <1>13 DEF TurnPop, Hidden
  <2>2. NewSession'
    BY <1>13, <1>f DEF TurnPop, SessionsInv, NewSession
  <2>3. ListenerStands'
    BY <1>13, <1>f, <1>l, <1>t, <2>1 DEF TurnPop, SessionsInv, ListenerStands
  <2>4. QED
    BY <1>s, <2>1, <2>2, <2>3, SessionsStill DEF SessionsInv, Listed
<1>14. CASE TurnPopTail
  <2>1. Hidden' = Hidden
    BY <1>14 DEF TurnPopTail, Hidden
  <2>2. NewSession'
    BY <1>14, <1>f DEF TurnPopTail, SessionsInv, NewSession
  <2>3. ListenerStands'
    BY <1>14, <1>f, <1>l, <1>t, <2>1 DEF TurnPopTail, SessionsInv, ListenerStands
  <2>4. QED
    BY <1>s, <2>1, <2>2, <2>3, SessionsStill DEF SessionsInv, Listed
<1>15. CASE TurnPopUnlink
  <2>1. Hidden' = Hidden
    BY <1>15 DEF TurnPopUnlink, Hidden
  <2>2. NewSession'
    BY <1>15, <1>f DEF TurnPopUnlink, SessionsInv, NewSession
  <2>3. ListenerStands'
    BY <1>15, <1>f, <1>l, <1>t, <2>1 DEF TurnPopUnlink, SessionsInv, ListenerStands
  <2>4. QED
    BY <1>s, <2>1, <2>2, <2>3, SessionsStill DEF SessionsInv, Listed
<1>16. CASE HolePop
  <2>1. Hidden' = Hidden
    BY <1>16 DEF HolePop, Hidden
  <2>2. NewSession'
    BY <1>16, <1>f DEF HolePop, SessionsInv, NewSession
  <2>3. ListenerStands'
    <3>1. here \in sessions /\ here \notin quit
      BY <1>16 DEF HolePop, SessionsInv, ListenerStands
    <3>2. here \notin Hidden \cup Freeing
      BY <1>16, <3>1 DEF HolePop, Hidden, Freeing, SessionsInv, TimerStands
    <3>3. QED
      BY <1>16, <1>f, <1>l, <1>t, <2>1, <3>1, <3>2 DEF HolePop, ListenerStands, SessionTypes
  <2>4. QED
    BY <1>s, <2>1, <2>2, <2>3, SessionsStill DEF SessionsInv, Listed
<1>17. CASE TurnLast
  <2>1. Hidden' = Hidden
    BY <1>17 DEF TurnLast, Hidden
  <2>2. NewSession'
    BY <1>17, <1>f DEF TurnLast, SessionsInv, NewSession
  <2>3. ListenerStands'
    BY <1>17, <1>f, <1>l, <1>t, <2>1 DEF TurnLast, SessionsInv, ListenerStands
  <2>4. QED
    BY <1>s, <2>1, <2>2, <2>3, SessionsStill DEF SessionsInv, Listed
<1>18. CASE TurnLink
  <2>1. Hidden' = Hidden
    BY <1>18 DEF TurnLink, Hidden
  <2>2. NewSession'
    BY <1>18, <1>f DEF TurnLink, SessionsInv, NewSession
  <2>3. ListenerStands'
    BY <1>18, <1>f, <1>l, <1>t, <2>1 DEF TurnLink, SessionsInv, ListenerStands
  <2>4. QED
    BY <1>s, <2>1, <2>2, <2>3, SessionsStill DEF SessionsInv, Listed
<1>19. CASE TurnCur
  <2>1. Hidden' = Hidden
    BY <1>19 DEF TurnCur, Return, Hidden
  <2>2. NewSession'
    BY <1>19, <1>f DEF TurnCur, Return, SessionsInv, NewSession
  <2>3. ListenerStands'
    BY <1>19, <1>f, <1>l, <1>t, <2>1 DEF TurnCur, Return, SessionsInv, ListenerStands
  <2>4. QED
    BY <1>s, <2>1, <2>2, <2>3, SessionsStill DEF SessionsInv, Listed
<1>20. CASE MovePop
  <2>1. Hidden' = Hidden
    BY <1>20 DEF MovePop, Hidden
  <2>2. NewSession'
    BY <1>20, <1>f DEF MovePop, SessionsInv, NewSession
  <2>3. ListenerStands'
    BY <1>20, <1>f, <1>l, <1>t, <2>1 DEF MovePop, SessionsInv, ListenerStands
  <2>4. QED
    BY <1>s, <2>1, <2>2, <2>3, SessionsStill DEF SessionsInv, Listed
<1>21. CASE MoveInsert
  <2>1. Hidden' = Hidden
    BY <1>21 DEF MoveInsert, Hidden
  <2>2. NewSession'
    BY <1>21, <1>f DEF MoveInsert, SessionsInv, NewSession
  <2>3. ListenerStands'
    BY <1>21, <1>f, <1>l, <1>t, <2>1 DEF MoveInsert, SessionsInv, ListenerStands
  <2>4. QED
    BY <1>s, <2>1, <2>2, <2>3, SessionsStill DEF SessionsInv, Listed
<1>22. CASE Moved
  <2>1. Hidden' = Hidden
    BY <1>22 DEF Moved, Return, Hidden
  <2>2. NewSession'
    BY <1>22, <1>f DEF Moved, Return, SessionsInv, NewSession
  <2>3. ListenerStands'
    BY <1>22, <1>f, <1>l, <1>t, <2>1 DEF Moved, Return, SessionsInv, ListenerStands
  <2>4. QED
    BY <1>s, <2>1, <2>2, <2>3, SessionsStill DEF SessionsInv, Listed
<1>23. QED
  BY <1>1, <1>2, <1>3, <1>4, <1>5, <1>6, <1>7, <1>8, <1>9, <1>10, <1>11, <1>12, <1>13, <1>14, <1>15, <1>16, <1>17, <1>18, <1>19, <1>20, <1>21, <1>22

\* The sessions, when the listener puts a new one in the list, which nothing leads to.
LEMMA SessionFirst ==
    ASSUME TypeOK, SessionsInv, CreateFirst
    PROVE  SessionsInv' /\ Listed' = {here'} /\ radom'[here'] = NULL
<1>t. SessionTypes /\ NULL \notin Sessions /\ NULL \notin sessions
  BY SessionsAssumption DEF TypeOK, SessionTypes
<1>1. PICK s \in Sessions \ sessions : AddFirst(s) /\ here' = s /\ new' = s
  BY DEF CreateFirst
<1>2. /\ at = "create" /\ sessionl = NULL /\ at' = "relay"
      /\ sessionl' = s /\ sessions' = sessions \cup {s} /\ here' = s
      /\ UNCHANGED <<sessionNext, radom, quit, timer, before, current, after>>
  BY <1>1 DEF CreateFirst, AddFirst, scan
<1>3. /\ Hidden = {} /\ Hidden' = {} /\ Freeing' = Freeing
      /\ sessions \subseteq Freeing
  <2>1. Listed = {}
    BY <1>t, <1>2, ChainStep DEF Listed, SessionTypes
  <2>2. QED
    BY <1>2, <2>1 DEF Hidden, Freeing, AtCreate, SessionsInv, Reached
<1>4. s # NULL /\ sessionNext[s] = NULL /\ radom[s] = NULL /\ s \notin quit
  BY <1>t DEF SessionsInv, Unused
<1>5. s \notin Freeing
  BY DEF Freeing, SessionsInv, TimerStands
<1>6. Unused'
  BY <1>2 DEF SessionsInv, Unused
<1>7. Linked'
  BY <1>t, <1>2, <1>3, <1>4 DEF SessionsInv, Linked
<1>8. Listed' = {s}
  <2>1. Chain(sessionNext, s) = {s} \cup Chain(sessionNext, NULL)
    BY <1>t, <1>4, ChainStep DEF SessionTypes
  <2>2. Chain(sessionNext, NULL) = {}
    BY <1>t, ChainStep DEF SessionTypes
  <2>3. QED
    BY <1>2, <2>1, <2>2 DEF Listed
<1>9. Reached'
  BY <1>2, <1>3, <1>8 DEF Reached
<1>10. Apart'
  BY <1>2, <1>3, <1>5 DEF SessionsInv, Apart
<1>11. NewSession' /\ ListenerStands'
  BY <1>2, <1>4 DEF NewSession, ListenerStands, AtCreate, AtSession, AtRelay
<1>12. TimerStands'
  BY <1>2, <1>3 DEF SessionsInv, TimerStands, Freeing
<1>13. QED
  BY <1>2, <1>4, <1>6, <1>7, <1>8, <1>9, <1>10, <1>11, <1>12 DEF SessionsInv

LEMMA SessionAllocated ==
    ASSUME TypeOK, SessionsInv, CreateNext
    PROVE  SessionsInv' /\ Listed' = Listed
<1>t. SessionTypes /\ NULL \notin Sessions /\ NULL \notin sessions
  BY SessionsAssumption DEF TypeOK, SessionTypes
<1>1. PICK s \in Sessions \ sessions : Allocate(s) /\ new' = s
  BY DEF CreateNext
<1>2. /\ at = "create" /\ at' = "first" /\ sessions' = sessions \cup {s} /\ new' = s
      /\ sessionl # NULL
      /\ UNCHANGED <<sessionl, sessionNext, radom, quit, timer, before, current, after>>
  BY <1>1 DEF CreateNext, Allocate, scan
<1>3. Hidden = {} /\ Hidden' = {s} /\ Freeing' = Freeing /\ s \notin Freeing
  BY <1>2 DEF Hidden, Freeing, AtCreate, SessionsInv, TimerStands
<1>4. s # NULL /\ sessionNext[s] = NULL /\ radom[s] = NULL /\ s \notin quit
  BY <1>t DEF SessionsInv, Unused
<1>5. Unused'
  BY <1>2 DEF SessionsInv, Unused
<1>6. Linked'
  BY <1>t, <1>2, <1>3, <1>4 DEF SessionsInv, Linked
<1>7. Listed' = Listed
  BY <1>2 DEF Listed
<1>8. Reached'
  BY <1>2, <1>3, <1>7 DEF SessionsInv, Reached
<1>9. Apart'
  <2>1. \A m \in Sessions : sessionNext[m] # s
    BY <1>4 DEF SessionsInv, Linked, Unused
  <2>2. sessionl # s
    BY <1>4 DEF SessionsInv, Linked
  <2>3. QED
    BY <1>2, <1>3, <2>1, <2>2 DEF SessionsInv, Apart
<1>10. NewSession' /\ ListenerStands'
  BY <1>2, <1>4 DEF NewSession, ListenerStands, AtCreate, AtSession, AtRelay
<1>11. TimerStands'
  BY <1>2, <1>3 DEF SessionsInv, TimerStands, Freeing
<1>12. QED
  BY <1>5, <1>6, <1>7, <1>8, <1>9, <1>10, <1>11 DEF SessionsInv

LEMMA SessionLinked ==
    ASSUME TypeOK, SessionsInv, LinkSession, ~MeetOnSessions
    PROVE  /\ SessionsInv' /\ Listed' = Listed \cup {new}
           /\ radom' = radom /\ radom[new] = NULL
<1>t. SessionTypes /\ NULL \notin Sessions /\ NULL \notin sessions
  BY SessionsAssumption DEF TypeOK, SessionTypes
<1>1. /\ at = "link" /\ at' = "relay" /\ here' = new
      /\ sessionNext' = [sessionNext EXCEPT ![here] = new]
      /\ UNCHANGED <<sessionl, radom, quit, sessions, timer, before, current, after>>
  BY DEF LinkSession, LinkAfter, scan
<1>2. Hidden = {new} /\ Hidden' = {} /\ Freeing' = Freeing
  BY <1>1 DEF Hidden, Freeing, AtCreate
<1>3. /\ new \in sessions \ quit /\ new \in Sessions /\ sessionNext[new] = NULL /\ radom[new] = NULL
      /\ here \in sessions \ Freeing /\ here \in Sessions /\ here # new /\ sessionNext[here] = NULL
  BY <1>t, <1>1, <1>2 DEF SessionsInv, NewSession, ListenerStands, AtCreate, AtSession, SessionTypes
<1>4. here \in Listed
  BY <1>2, <1>3 DEF SessionsInv, Reached
<1>5. /\ sessionNext' \in [Sessions -> Sessions \cup {NULL}]
      /\ sessionNext'[here] = new
      /\ \A s \in Sessions \ {here} : sessionNext'[s] = sessionNext[s]
  BY <1>t, <1>1, <1>3 DEF SessionTypes
<1>6. Listed' = Listed \cup {new}
  <2>1. sessionNext \in [Sessions -> Sessions \cup {NULL}] /\ sessionl \in Sessions \cup {NULL}
    BY <1>t DEF SessionTypes
  <2>2. /\ Chain(sessionNext, sessionl) \subseteq Chain(sessionNext', sessionl)
        /\ Chain(sessionNext', sessionl) \subseteq Chain(sessionNext, sessionl) \cup {new}
        /\ here \in Chain(sessionNext, sessionl) => new \in Chain(sessionNext', sessionl)
    <3>1. NULL \notin Sessions
      BY <1>t
    <3>2. QED
      BY <1>3, <1>5, <2>1, <3>1, ChainExtended
  <2>3. sessionl' = sessionl
    BY <1>1
  <2>4. QED
    BY <1>4, <2>2, <2>3 DEF Listed
<1>7. Unused'
  BY <1>1, <1>3, <1>5 DEF SessionsInv, Unused
<1>8. Linked'
  <2>1. \A s \in Sessions : sessionNext[s] # new
    BY <1>2 DEF SessionsInv, Apart
  <2>2. sessions \subseteq Sessions /\ sessionl # new
    BY <1>t, <1>2 DEF SessionTypes, SessionsInv, Apart
  <2>3. QED
    BY <1>1, <1>2, <1>3, <1>5, <2>1, <2>2 DEF SessionsInv, Linked
<1>9. Reached'
  BY <1>1, <1>2, <1>6 DEF SessionsInv, Reached
<1>10. Apart'
  <2>1. new \notin Freeing
    BY <1>2 DEF Freeing, SessionsInv, TimerStands
  <2>2. QED
    BY <1>1, <1>2, <1>5, <2>1 DEF SessionsInv, Apart
<1>11. NewSession' /\ ListenerStands'
  BY <1>1, <1>3 DEF NewSession, ListenerStands, AtCreate, AtSession, AtRelay
<1>12. TimerStands'
  <2>1. timer # "asleep" => before \in sessions /\ current \in sessions /\ before \in Sessions
    BY <1>t DEF SessionsInv, TimerStands, SessionTypes
  <2>2. timer \in {"scan", "unlink"} /\ before # current => sessionNext'[before] = current
    BY <1>t, <1>3, <1>5, <2>1 DEF SessionsInv, TimerStands
  <2>3. timer = "unlink" => after = sessionNext'[current]
    <3>1. timer = "unlink" => here # current
      BY <1>1 DEF MeetOnSessions
    <3>2. QED
      BY <1>t, <1>5, <2>1, <3>1 DEF SessionsInv, TimerStands, SessionTypes
  <2>4. QED
    BY <1>1, <1>2, <2>1, <2>2, <2>3 DEF SessionsInv, TimerStands
<1>13. QED
  BY <1>1, <1>3, <1>6, <1>7, <1>8, <1>9, <1>10, <1>11, <1>12 DEF SessionsInv

LEMMA SessionAnswered ==
    ASSUME TypeOK, SessionsInv, Answer
    PROVE  SessionsInv' /\ Listed' = Listed
<1>1. /\ at = "answer" /\ at' = "idle" /\ here \in sessions
      /\ radom' = [radom EXCEPT ![here] = asked]
      /\ UNCHANGED <<sessionl, sessionNext, quit, sessions, timer, before, current, after>>
  BY DEF Answer, SetRadom, Return, scan
<1>2. Hidden' = Hidden /\ Freeing' = Freeing
  BY <1>1 DEF Hidden, Freeing, AtCreate
<1>3. Unused'
  BY <1>1 DEF SessionsInv, Unused, TypeOK, SessionTypes
<1>4. Linked' /\ Listed' = Listed
  BY <1>1, <1>2 DEF SessionsInv, Linked, Listed
<1>5. Reached' /\ Apart'
  BY <1>1, <1>2, <1>4 DEF SessionsInv, Reached, Apart
<1>6. NewSession' /\ ListenerStands'
  BY <1>1 DEF NewSession, ListenerStands, AtCreate, AtSession, AtRelay
<1>7. TimerStands'
  BY <1>1, <1>2 DEF SessionsInv, TimerStands
<1>8. QED
  BY <1>3, <1>4, <1>5, <1>6, <1>7 DEF SessionsInv

LEMMA SessionClosed ==
    ASSUME TypeOK, SessionsInv, Close
    PROVE  SessionsInv' /\ Listed' = Listed
<1>t. SessionTypes /\ NULL \notin sessions
  BY SessionsAssumption DEF TypeOK, SessionTypes
<1>1. /\ at = "close" /\ at' \in {"close", "idle"}
      /\ quit' \in {quit, quit \cup {here}} /\ (quit' # quit => here \in sessions)
      /\ at' = "close" => here \in sessions /\ here' = sessionNext[here]
      /\ UNCHANGED <<sessionl, sessionNext, radom, sessions, timer, before, current, after>>
  BY <1>t DEF Close, Quit, Return, scan, sessionVars
<1>2. Hidden' = {} /\ Hidden = {} /\ Freeing' = Freeing
  BY <1>1 DEF Hidden, Freeing, AtCreate
<1>3. Unused'
  BY <1>1 DEF SessionsInv, Unused
<1>4. Linked' /\ Listed' = Listed
  BY <1>1, <1>2 DEF SessionsInv, Linked, Listed
<1>5. Reached' /\ Apart'
  BY <1>1, <1>2, <1>4 DEF SessionsInv, Reached, Apart
<1>6. NewSession'
  BY <1>1 DEF NewSession, AtCreate
<1>7. ListenerStands'
  <2>1. at' = "close" => here' \in (sessions \ Freeing) \cup {NULL}
    BY <1>t, <1>1, <1>2 DEF SessionsInv, Linked, Apart, SessionTypes
  <2>2. QED
    BY <1>1, <1>2, <2>1 DEF ListenerStands, AtSession, AtRelay
<1>8. TimerStands'
  BY <1>1, <1>2 DEF SessionsInv, TimerStands
<1>9. QED
  BY <1>3, <1>4, <1>5, <1>6, <1>7, <1>8 DEF SessionsInv

\* Steps on the other lists only.
LEMMA SessionsElsewhere ==
    ASSUME SessionsInv, UNCHANGED <<sessionVars, at, asked, here, new>>
    PROVE  SessionsInv' /\ Listed' = Listed
<1>1. Hidden' = Hidden /\ Freeing' = Freeing
  BY DEF Hidden, Freeing, sessionVars
<1>2. Unused' /\ Linked' /\ Reached' /\ Apart' /\ TimerStands'
  BY <1>1, SessionsStill
<1>3. NewSession' /\ ListenerStands' /\ Listed' = Listed
  BY <1>1 DEF SessionsInv, NewSession, ListenerStands, Listed, sessionVars
<1>4. QED
  BY <1>2, <1>3 DEF SessionsInv

LEMMA SessionsStep ==
    ASSUME TypeOK, SessionsInv, Next, ~MeetOnSessions
    PROVE  SessionsInv'
<1>1. CASE Arrival
  BY <1>1, SessionsListened DEF Arrival
<1>2. CASE Handler
  BY <1>2, SessionsListened, SessionFirst, SessionAllocated, SessionLinked, SessionAnswered,
     SessionClosed DEF Handler
<1>3. CASE Timer(Created) /\ UNCHANGED <<turnQueueVars, holeVars, listenerVars>>
  BY <1>3, SessionsTimer DEF listenerVars, localVars
<1>4. CASE \/ Flush /\ UNCHANGED <<sessionVars, holeVars, listenerVars>>
           \/ Punch /\ UNCHANGED <<sessionVars, turnQueueVars, listenerVars>>
  BY <1>4, SessionsElsewhere DEF listenerVars, localVars
<1>5. QED
  BY <1>1, <1>2, <1>3, <1>4 DEF Next, Threads

----------------------------------------------------------------------------
(***************************************************************************)
(* Sessions and clients.                                                   *)
(***************************************************************************)
LEMMA ClientsTimer ==
    ASSUME TypeOK, SessionsInv, ClientsInv, Timer(Created), UNCHANGED <<at, asked, here, new>>,
           ~MeetOnSessions
    PROVE  ClientsInv'
<1>t. SessionTypes /\ NULL \notin Sessions
  BY SessionsAssumption DEF TypeOK
<1>0. Listed \subseteq Sessions
  <2>1. sessionNext \in [Sessions -> Sessions \cup {NULL}]
    BY <1>t DEF SessionTypes
  <2>2. QED
    BY <2>1 DEF Listed, Chain
<1>1. SessionsInv' /\ Listed' \subseteq Listed
  BY SessionsTimer
<1>2. \A s \in Listed' : radom'[s] = radom[s]
  <2>1. CASE Free
    <3>1. current \notin Listed
      BY <2>1, SessionFreed DEF Free
    <3>2. radom \in [Sessions -> Radoms \cup {NULL}] /\ radom' = [radom EXCEPT ![current] = NULL]
      BY <1>t, <2>1 DEF SessionTypes, Free
    <3>3. QED
      BY <1>0, <1>1, <3>1, <3>2
  <2>2. CASE ~Free
    BY <2>2 DEF Timer, Wake, Pass, Overdue, Remove, Unlink, Advance
  <2>3. QED
    BY <2>1, <2>2
<1>3. Single'
  BY <1>1, <1>2 DEF ClientsInv, Single
<1>4. at = "query" => \A s \in Listed' : s \in Chain(sessionNext, here) => s \in Chain(sessionNext', here)
  <2> SUFFICES ASSUME at = "query", NEW s \in Listed', s \in Chain(sessionNext, here)
               PROVE  s \in Chain(sessionNext', here)
    OBVIOUS
  <2>0. /\ sessionNext \in [Sessions -> Sessions \cup {NULL}]
        /\ sessionNext' \in [Sessions -> Sessions \cup {NULL}]
        /\ here \in Sessions \cup {NULL}
    BY <1>t, SessionTypesTimer DEF SessionTypes, TypeOK, LocalTypes
  <2>1. CASE Unlink
    <3>1. here # current
      BY <2>1 DEF Unlink, MeetOnSessions
    <3>2. s # current
      <4>1. sessionl' # current /\ \A m \in Sessions : sessionNext'[m] # current
        BY <1>1, <2>1 DEF Unlink, SessionsInv, Apart, Freeing
      <4>2. sessionl' \in Sessions \cup {NULL}
        BY <1>t, <2>1 DEF Unlink, SessionTypes
      <4>3. current \notin Chain(sessionNext', sessionl')
        BY <1>t, <2>0, <4>1, <4>2, ChainAvoids
      <4>4. QED
        BY <4>3 DEF Listed
    <3>3. CASE before = current
      BY <2>1, <3>3 DEF Unlink
    <3>4. CASE before # current
      <4>1. /\ before \in Sessions /\ current \in Sessions /\ sessionNext[before] = current
            /\ after = sessionNext[current] /\ sessionNext' = [sessionNext EXCEPT ![before] = after]
        BY <1>t, <2>1, <3>4 DEF Unlink, SessionTypes, SessionsInv, TimerStands
      <4>2. /\ sessionNext'[before] = sessionNext[current]
            /\ \A m \in Sessions \ {before} : sessionNext'[m] = sessionNext[m]
        BY <2>0, <4>1
      <4>3. Chain(sessionNext, here) \ {current} \subseteq Chain(sessionNext', here)
        <5>1. before \in Sessions /\ current \in Sessions /\ sessionNext[before] = current
          BY <4>1
        <5>2. QED
          BY <1>t, <2>0, <3>1, <4>2, <5>1, ChainShortened
      <4>4. QED
        BY <3>2, <4>3
    <3>5. QED
      BY <3>3, <3>4
  <2>2. CASE Free
    <3>1. /\ here # current /\ current \in Sessions
          /\ \A m \in Sessions : sessionNext[m] # current
      BY <1>t, <2>2 DEF Free, SessionsInv, ListenerStands, Apart, Freeing, AtSession, SessionTypes
    <3>2. /\ sessionNext'[current] = NULL
          /\ \A m \in Sessions \ {current} : sessionNext'[m] = sessionNext[m]
      BY <2>0, <2>2, <3>1 DEF Free
    <3>3. Chain(sessionNext', here) = Chain(sessionNext, here)
      BY <1>t, <2>0, <3>1, <3>2, ChainCleared
    <3>4. QED
      BY <3>3
  <2>3. CASE ~Unlink /\ ~Free
    BY <2>3 DEF Timer, Wake, Pass, Overdue, Remove, Advance
  <2>4. QED
    BY <2>1, <2>2, <2>3
<1>5. LookedUp'
  <2>1. at = "query" => \A s \in Listed' : radom'[s] = asked => s \in Chain(sessionNext', here)
    BY <1>1, <1>2, <1>4 DEF ClientsInv, LookedUp
  <2>2. at \in {"create", "named"} \cup AtCreate \cup AtRelay => \A s \in Listed' : radom'[s] # asked
    BY <1>1, <1>2 DEF ClientsInv, LookedUp
  <2>3. at = "answer" => \A s \in Listed' : radom'[s] = asked => s = here
    BY <1>1, <1>2 DEF ClientsInv, LookedUp
  <2>4. QED
    BY <2>1, <2>2, <2>3 DEF LookedUp
<1>6. QED
  BY <1>3, <1>5 DEF ClientsInv

\* The walk over the sessions that looks for a client, one step on.
LEMMA ClientsQuery ==
    ASSUME TypeOK, SessionsInv, ClientsInv, Query
    PROVE  LookedUp'
<1>t. /\ SessionTypes /\ NULL \notin Sessions /\ NULL \notin sessions /\ NULL \notin Radoms
      /\ here \in Sessions \cup {NULL} /\ asked \in Radoms
      /\ sessionNext \in [Sessions -> Sessions \cup {NULL}]
  BY SessionsAssumption DEF TypeOK, SessionTypes, LocalTypes, Query
<1>u. at = "query" /\ UNCHANGED <<sessionl, sessionNext, radom, sessions, asked>> /\ Listed' = Listed
  BY DEF Query, sessionVars, Listed
<1>q. \A s \in Listed : radom[s] = asked => s \in Chain(sessionNext, here)
  BY <1>u DEF ClientsInv, LookedUp
<1>1. CASE here = NULL
  <2>1. at' = "create"
    BY <1>t, <1>1 DEF Query
  <2>2. Chain(sessionNext, NULL) = {}
    <3>1. NULL \notin Sessions /\ sessionNext \in [Sessions -> Sessions \cup {NULL}]
      BY <1>t
    <3>2. QED
      BY <3>1, ChainStep, Zenon
  <2>3. QED
    BY <1>u, <1>q, <1>1, <2>1, <2>2 DEF LookedUp, AtCreate, AtRelay
<1>2. CASE here \in sessions /\ radom[here] = asked
  <2>1. at' = "answer" /\ here' = here
    BY <1>t, <1>2 DEF Query
  <2>2. here \in Listed
    BY <1>t, <1>u, <1>2 DEF SessionsInv, ListenerStands, Reached, AtSession
  <2>3. \A s \in Listed : radom[s] = asked => s = here
    BY <1>t, <1>2, <2>2 DEF ClientsInv, Single
  <2>4. QED
    BY <1>u, <2>1, <2>3 DEF LookedUp, AtCreate, AtRelay
<1>3. CASE here \in sessions /\ radom[here] # asked
  <2>1. at' = "query" /\ here' = sessionNext[here]
    BY <1>t, <1>3 DEF Query
  <2>2. here \in Sessions
    BY <1>3, <1>t
  <2>3. Chain(sessionNext, here) = {here} \cup Chain(sessionNext, sessionNext[here])
    BY <1>t, <2>2, ChainStep
  <2>4. \A s \in Listed : radom[s] = asked => s \in Chain(sessionNext, sessionNext[here])
    BY <1>q, <1>3, <2>3
  <2>5. QED
    BY <1>u, <2>1, <2>4 DEF LookedUp, AtCreate, AtRelay
<1>4. QED
  BY <1>1, <1>2, <1>3 DEF Query

LEMMA ClientsListened ==
    ASSUME TypeOK, SessionsInv, ClientsInv, ~MeetOnSessions,
           \/ Handshake \/ SessionData \/ CloseSession \/ TurnClient \/ ClientAnnounced \/ ClientSeen
           \/ Query \/ First \/ Last \/ CreateNamed \/ GetSession \/ Relay
           \/ TurnPop \/ TurnPopTail \/ TurnPopUnlink \/ HolePop
           \/ TurnLast \/ TurnLink \/ TurnCur \/ MovePop \/ MoveInsert \/ Moved
    PROVE  ClientsInv'
<1> USE DEF AtCreate, AtRelay, localVars
<1>s. radom' = radom /\ sessionNext' = sessionNext /\ sessionl' = sessionl
  <2>1. CASE Handshake \/ SessionData \/ CloseSession \/ TurnClient \/ ClientAnnounced \/ ClientSeen
    BY <2>1 DEF Handshake, SessionData, CloseSession, TurnClient, ClientAnnounced, ClientSeen,
       sessionVars
  <2>2. CASE Query \/ First \/ Last \/ CreateNamed \/ GetSession
    BY <2>2 DEF Query, First, Last, CreateNamed, GetSession, sessionVars
  <2>3. CASE Relay \/ TurnPop \/ TurnPopTail \/ TurnPopUnlink \/ HolePop
    BY <2>3 DEF Relay, TurnPop, TurnPopTail, TurnPopUnlink, HolePop, OnTurn, OnHoles, sessionVars
  <2>4. CASE TurnLast \/ TurnLink \/ TurnCur \/ MovePop \/ MoveInsert \/ Moved
    BY <2>4 DEF TurnLast, TurnLink, TurnCur, MovePop, MoveInsert, Moved, OnTurn, OnHoles,
       sessionVars
  <2>5. QED
    BY <2>1, <2>2, <2>3, <2>4
<1>f. Listed' = Listed
  BY <1>s DEF Listed
<1>q. Single'
  BY <1>s, <1>f DEF ClientsInv, Single
<1> SUFFICES LookedUp'
  BY <1>q DEF ClientsInv
<1>1. CASE Handshake
  <2>1. at' = "query" /\ here' = sessionl
    BY <1>1 DEF Handshake
  <2>2. QED
    BY <1>s, <1>f, <2>1 DEF LookedUp, Listed
<1>2. CASE SessionData
  BY <1>2, <1>s, <1>f DEF SessionData, Message, ClientsInv, LookedUp
<1>3. CASE CloseSession
  BY <1>3, <1>s, <1>f DEF CloseSession, Message, ClientsInv, LookedUp
<1>4. CASE TurnClient
  BY <1>4, <1>s, <1>f DEF TurnClient, Message, ClientsInv, LookedUp
<1>5. CASE ClientAnnounced
  BY <1>5, <1>s, <1>f DEF ClientAnnounced, Message, ClientsInv, LookedUp
<1>6. CASE ClientSeen
  BY <1>6, <1>s, <1>f DEF ClientSeen, Message, ClientsInv, LookedUp
<1>7. CASE Query
  BY <1>7, ClientsQuery
<1>8. CASE First
  BY <1>8, <1>s, <1>f DEF First, ClientsInv, LookedUp
<1>9. CASE Last
  BY <1>9, <1>s, <1>f DEF Last, ClientsInv, LookedUp
<1>10. CASE CreateNamed
  BY <1>10, <1>s, <1>f DEF CreateNamed, ClientsInv, LookedUp
<1>11. CASE GetSession
  BY <1>11, <1>s, <1>f DEF GetSession, Return, ClientsInv, LookedUp
<1>12. CASE Relay
  BY <1>12, <1>s, <1>f DEF Relay, ClientsInv, LookedUp
<1>13. CASE TurnPop
  BY <1>13, <1>s, <1>f DEF TurnPop, ClientsInv, LookedUp
<1>14. CASE TurnPopTail
  BY <1>14, <1>s, <1>f DEF TurnPopTail, ClientsInv, LookedUp
<1>15. CASE TurnPopUnlink
  BY <1>15, <1>s, <1>f DEF TurnPopUnlink, ClientsInv, LookedUp
<1>16. CASE HolePop
  BY <1>16, <1>s, <1>f DEF HolePop, ClientsInv, LookedUp
<1>17. CASE TurnLast
  BY <1>17, <1>s, <1>f DEF TurnLast, ClientsInv, LookedUp
<1>18. CASE TurnLink
  BY <1>18, <1>s, <1>f DEF TurnLink, ClientsInv, LookedUp
<1>19. CASE TurnCur
  BY <1>19, <1>s, <1>f DEF TurnCur, Return, ClientsInv, LookedUp
<1>20. CASE MovePop
  BY <1>20, <1>s, <1>f DEF MovePop, ClientsInv, LookedUp
<1>21. CASE MoveInsert
  BY <1>21, <1>s, <1>f DEF MoveInsert, ClientsInv, LookedUp
<1>22. CASE Moved
  BY <1>22, <1>s, <1>f DEF Moved, Return, ClientsInv, LookedUp
<1>23. QED
  BY <1>1, <1>2, <1>3, <1>4, <1>5, <1>6, <1>7, <1>8, <1>9, <1>10, <1>11, <1>12, <1>13, <1>14, <1>15, <1>16, <1>17, <1>18, <1>19, <1>20, <1>21, <1>22

LEMMA ClientsStep ==
    ASSUME TypeOK, SessionsInv, ClientsInv, Next, ~MeetOnSessions
    PROVE  ClientsInv'
<1>t. SessionTypes /\ NULL \notin Sessions /\ NULL \notin Radoms
  BY SessionsAssumption DEF TypeOK
<1>0. Listed \subseteq Sessions
  <2>1. sessionNext \in [Sessions -> Sessions \cup {NULL}]
    BY <1>t DEF SessionTypes
  <2>2. QED
    BY <2>1 DEF Listed, Chain
<1>1. CASE CreateFirst
  <2>1. Listed' = {here'} /\ radom'[here'] = NULL
    BY <1>1, SessionFirst
  <2>2. at' = "relay" /\ asked' \in Radoms
    BY <1>1 DEF CreateFirst, TypeOK, LocalTypes
  <2>3. QED
    BY <1>t, <2>1, <2>2 DEF ClientsInv, Single, LookedUp
<1>2. CASE CreateNext
  <2>1. Listed' = Listed
    BY <1>2, SessionAllocated
  <2>2. at = "create" /\ at' = "first" /\ radom' = radom /\ asked' = asked
    BY <1>2 DEF CreateNext, Allocate
  <2>3. QED
    BY <2>1, <2>2 DEF ClientsInv, Single, LookedUp
<1>3. CASE LinkSession
  <2>1. Listed' = Listed \cup {new} /\ radom' = radom /\ radom[new] = NULL
    BY <1>3, SessionLinked
  <2>2. at = "link" /\ at' = "relay" /\ asked' = asked /\ asked \in Radoms
    BY <1>3 DEF LinkSession, TypeOK, LocalTypes, AtCreate
  <2>3. QED
    BY <1>t, <2>1, <2>2 DEF ClientsInv, Single, LookedUp, AtCreate
<1>4. CASE Answer
  <2>1. Listed' = Listed
    BY <1>4, SessionAnswered
  <2>2. at = "answer" /\ at' = "idle" /\ radom' = [radom EXCEPT ![here] = asked]
    BY <1>4 DEF Answer, SetRadom, Return
  <2>3. \A s \in Listed : radom[s] = asked => s = here
    BY <2>2 DEF ClientsInv, LookedUp
  <2>4. \A s \in Listed : radom'[s] = IF s = here THEN asked ELSE radom[s]
    BY <1>t, <1>0, <2>2 DEF SessionTypes
  <2>5. Single'
    BY <2>1, <2>3, <2>4 DEF ClientsInv, Single
  <2>6. LookedUp'
    BY <2>2 DEF LookedUp, AtCreate, AtRelay
  <2>7. QED
    BY <2>5, <2>6 DEF ClientsInv
<1>5. CASE Close
  <2>1. Listed' = Listed
    BY <1>5, SessionClosed
  <2>2. at' \in {"close", "idle"} /\ radom' = radom
    BY <1>5 DEF Close, Quit, Return, sessionVars
  <2>3. QED
    BY <2>1, <2>2 DEF ClientsInv, Single, LookedUp, AtCreate, AtRelay
<1>6. CASE Arrival
  BY <1>6, ClientsListened DEF Arrival
<1>7. CASE Handler
  BY <1>1, <1>2, <1>3, <1>4, <1>5, <1>7, ClientsListened DEF Handler
<1>8. CASE Timer(Created) /\ UNCHANGED <<turnQueueVars, holeVars, listenerVars>>
  BY <1>8, ClientsTimer DEF listenerVars, localVars
<1>9. CASE \/ Flush /\ UNCHANGED <<sessionVars, holeVars, listenerVars>>
           \/ Punch /\ UNCHANGED <<sessionVars, turnQueueVars, listenerVars>>
  <2>1. UNCHANGED <<sessionVars, at, asked, here, new>>
    BY <1>9 DEF listenerVars, localVars
  <2>2. QED
    BY <2>1 DEF ClientsInv, Single, LookedUp, Listed, sessionVars
<1>10. QED
  BY <1>6, <1>7, <1>8, <1>9 DEF Next, Threads

----------------------------------------------------------------------------
(***************************************************************************)
(* The clients of the turn server.                                         *)
(***************************************************************************)
\* The nodes of the queue, with the stub it starts with.
LEMMA TurnNodesFacts ==
    ASSUME TypeOK
    PROVE  /\ NULL \notin TurnCells /\ Head \in TurnCells /\ Head \notin TurnNodes
           /\ TurnNodes \subseteq TurnCells /\ TurnCells = TurnNodes \cup {Head}
           /\ turnNext \in [TurnCells -> TurnCells \cup {NULL}]
           /\ turnNext \in [TurnCells -> TurnNodes \cup {NULL}]
           /\ turnReqs \subseteq TurnNodes
<1>1. NULL \notin TurnNodes /\ Head \notin TurnNodes /\ Head # NULL
  BY TurnNodesAssumption, HeadAssumption
<1>2. turnNext \in [TurnCells -> TurnNodes \cup {NULL}] /\ turnReqs \subseteq TurnNodes
  BY DEF TypeOK, TurnTypes
<1>3. TurnCells = TurnNodes \cup {Head}
  BY DEF TurnCells
<1>4. turnNext \in [TurnCells -> TurnCells \cup {NULL}]
  BY <1>2, <1>3
<1>5. QED
  BY <1>1, <1>2, <1>3, <1>4

\* A request is taken out from behind the one before it.
LEMMA TurnRemoved ==
    ASSUME TypeOK, TurnInv, NEW p, NEW c \in turnReqs \ TurnHidden,
           p \in (turnReqs \ TurnHidden) \cup {Head}, turnNext[p] = c,
           turnNext' \in [TurnCells -> TurnCells \cup {NULL}],
           turnNext'[c] = NULL, turnNext'[p] = turnNext[c] \/ p = c,
           \A n \in TurnCells \ {p, c} : turnNext'[n] = turnNext[n],
           turnReqs' = turnReqs \ {c}, TurnHidden' = TurnHidden
    PROVE  /\ TurnLinked' /\ TurnReached'
           /\ c # p /\ turnNext[c] # c
           /\ turnNext'[c] = NULL /\ turnNext'[p] = turnNext[c]
           /\ \A n \in TurnCells \ {p, c} : turnNext'[n] = turnNext[n]
<1>0. /\ NULL \notin TurnCells /\ Head \in TurnCells /\ Head \notin TurnNodes
      /\ TurnNodes \subseteq TurnCells /\ TurnCells = TurnNodes \cup {Head}
      /\ turnNext \in [TurnCells -> TurnCells \cup {NULL}]
      /\ turnNext \in [TurnCells -> TurnNodes \cup {NULL}]
      /\ turnReqs \subseteq TurnNodes
  BY TurnNodesFacts
<1>1. /\ p \in TurnCells /\ c \in TurnCells /\ c # NULL /\ Head # c
  BY <1>0
<1>2. \A m, n \in TurnCells : turnNext[m] = turnNext[n] /\ turnNext[m] # NULL => m = n
  BY DEF TurnInv, TurnLinked
<1>3. c \in Chain(turnNext, Head)
  BY DEF TurnInv, TurnReached, TurnQueued
<1>5. /\ c # p /\ turnNext[c] # c
      /\ Chain(turnNext', Head) = Chain(turnNext, Head) \ {c}
  <2>1. /\ NULL \notin TurnCells /\ turnNext \in [TurnCells -> TurnCells \cup {NULL}]
        /\ Head \in TurnCells \cup {NULL}
    BY <1>0
  <2>2. QED
    BY <1>1, <1>2, <1>3, <2>1, ChainWithout
<1>6. \A n \in TurnCells : turnNext'[n] = IF n = c THEN NULL ELSE IF n = p THEN turnNext[c] ELSE turnNext[n]
  BY <1>5
<1>7. \A n \in TurnCells : n # p => turnNext[n] # c
  BY <1>1, <1>2
<1>8. /\ \A n \in TurnNodes \ turnReqs : turnNext[n] = NULL
      /\ \A n \in TurnCells : turnNext[n] \in (turnReqs \ TurnHidden) \cup {NULL}
      /\ TurnHidden \subseteq turnReqs /\ \A n \in TurnHidden : turnNext[n] = NULL
  BY DEF TurnInv, TurnLinked
<1>9. TurnLinked'
  <2>1. ASSUME NEW n \in TurnNodes \ turnReqs' PROVE turnNext'[n] = NULL
    <3>1. n \in TurnCells /\ (n = c \/ n \notin turnReqs) /\ (n = c \/ n # p)
      BY <1>0, <2>1
    <3>2. QED
      BY <1>6, <1>8, <2>1, <3>1
  <2>2. ASSUME NEW n \in TurnCells PROVE turnNext'[n] \in (turnReqs' \ TurnHidden') \cup {NULL}
    BY <1>1, <1>5, <1>6, <1>7, <1>8
  <2>3. ASSUME NEW m \in TurnCells, NEW n \in TurnCells,
               turnNext'[m] = turnNext'[n], turnNext'[m] # NULL
        PROVE  m = n
    <3>1. m # c /\ n # c
      BY <1>6, <2>3
    <3>2. turnNext'[m] = turnNext[IF m = p THEN c ELSE m]
      BY <1>6, <3>1
    <3>3. turnNext'[n] = turnNext[IF n = p THEN c ELSE n]
      BY <1>6, <3>1
    <3>4. (IF m = p THEN c ELSE m) \in TurnCells /\ (IF n = p THEN c ELSE n) \in TurnCells
      BY <1>1
    <3>5. (IF m = p THEN c ELSE m) = (IF n = p THEN c ELSE n)
      BY <1>2, <2>3, <3>2, <3>3, <3>4
    <3>6. QED
      BY <3>1, <3>5
  <2>4. TurnHidden' \subseteq turnReqs'
    BY <1>8
  <2>5. ASSUME NEW n \in TurnHidden' PROVE turnNext'[n] = NULL
    <3>1. n \in TurnCells /\ n # p
      BY <1>0, <1>8
    <3>2. QED
      BY <1>6, <1>8, <3>1
  <2>6. QED
    BY <2>1, <2>2, <2>3, <2>4, <2>5 DEF TurnLinked
<1>10. TurnReached'
  BY <1>5 DEF TurnInv, TurnReached, TurnQueued
<1>11. QED
  BY <1>5, <1>9, <1>10

\* Where the listener does not stand on the queue, before and after.
LEMMA TurnElsewhere ==
    ASSUME TurnInv, UNCHANGED turnQueueVars,
           \/ UNCHANGED <<at, pre, new>>
           \/ at \notin AtTurnPop \cup AtTurnPut /\ at' \notin AtTurnPop \cup AtTurnPut
    PROVE  TurnInv'
<1> USE DEF AtTurnPop, AtTurnPut, turnQueueVars
<1>1. TurnHidden' = TurnHidden
  BY DEF TurnHidden
<1>2. TurnLinked' /\ TurnReached'
  BY <1>1 DEF TurnInv, TurnLinked, TurnReached, TurnQueued
<1>3. FlushStands' /\ TurnTail'
  BY <1>1 DEF TurnInv, FlushStands, TurnTail
<1>4. PopStands'
  BY DEF TurnInv, PopStands
<1>5. QED
  BY <1>2, <1>3, <1>4 DEF TurnInv

\* The listener looks for a client in the queue.
LEMMA TurnLooked ==
    ASSUME TypeOK, TurnInv, Relay \/ TurnPop
    PROVE  TurnInv'
<1> USE DEF AtTurnPop, AtTurnPut, turnQueueVars
<1>0. /\ NULL \notin TurnCells /\ Head \in TurnCells /\ TurnNodes \subseteq TurnCells
      /\ turnReqs \subseteq TurnNodes
  BY TurnNodesFacts
<1>u. UNCHANGED turnQueueVars /\ TurnHidden' = {} /\ TurnHidden = {}
  BY DEF Relay, TurnPop, TurnHidden
<1>1. TurnLinked' /\ TurnReached'
  BY <1>u DEF TurnInv, TurnLinked, TurnReached, TurnQueued
<1>2. FlushStands'
  BY <1>u DEF TurnInv, FlushStands
<1>3. TurnTail'
  BY <1>u DEF Relay, TurnPop, TurnInv, TurnTail
<1>4. PopStands'
  <2>1. CASE Relay
    BY <1>0, <1>u, <2>1 DEF Relay, TurnInv, TurnLinked, PopStands
  <2>2. CASE TurnPop /\ new = NULL
    <3>1. at' = "holePop"
      BY <1>0, <2>2 DEF TurnPop
    <3>2. QED
      BY <3>1 DEF PopStands
  <2>3. CASE TurnPop /\ new \in turnReqs /\ turnRadom[new] = asked
    <3>1. /\ at = "turnPop" /\ at' = IF turnReqCur = new THEN "turnPopTail" ELSE "turnPopUnlink"
          /\ pre' = pre /\ new' = new
      BY <1>0, <2>3 DEF TurnPop
    <3>2. QED
      BY <1>u, <3>1 DEF TurnInv, PopStands
  <2>4. CASE TurnPop /\ new \in turnReqs /\ turnRadom[new] # asked
    <3>1. at' = "turnPop" /\ pre' = new /\ new' = turnNext[new]
      BY <1>0, <2>4 DEF TurnPop
    <3>2. QED
      BY <1>u, <2>4, <3>1 DEF PopStands
  <2>5. QED
    BY <2>1, <2>2, <2>3, <2>4 DEF TurnPop
<1>5. QED
  BY <1>1, <1>2, <1>3, <1>4 DEF TurnInv

\* The listener takes a client out.
LEMMA TurnPopped ==
    ASSUME TypeOK, TurnInv, TurnPopTail \/ TurnPopUnlink, ~MeetOnTurn
    PROVE  TurnInv'
<1> USE DEF AtTurnPop, AtTurnPut
<1>0. /\ NULL \notin TurnCells /\ Head \in TurnCells /\ Head \notin TurnNodes
      /\ TurnNodes \subseteq TurnCells /\ TurnCells = TurnNodes \cup {Head}
      /\ turnReqs \subseteq TurnNodes
      /\ pre \in TurnCells /\ new \in TurnNodes
      /\ flush # "asleep" => flushPre \in TurnCells /\ flushAt \in TurnNodes
  BY TurnNodesFacts DEF TypeOK, TurnTypes, LocalTypes, TurnPopTail, TurnPopUnlink
<1>a. /\ at \in {"turnPopTail", "turnPopUnlink"}
      /\ pre \in turnReqs \cup {Head} /\ turnNext[pre] = new
      /\ TurnHidden = {} /\ TurnHidden' = {}
      /\ flush' = flush /\ flushPre' = flushPre /\ flushAt' = flushAt
  BY DEF TurnPopTail, TurnPopUnlink, TurnHidden, TurnInv, PopStands, SetReqCur, UnlinkTurnReq, flushVars
<1>b. flush # "asleep" => flushPre # new /\ flushAt # new /\ flushAt # pre /\ (flushPre = pre => pre = Head)
  <2>1. flush \in {"asleep", "visit", "tail", "unlink"}
    BY DEF TypeOK, TurnTypes
  <2>2. flush # "asleep" => {pre, new} \cap {flushPre, flushAt} \cap TurnNodes = {}
    BY <1>a, <2>1 DEF MeetOnTurn
  <2>3. QED
    BY <1>0, <2>2
<1>c. flush # "asleep" => flushPre # pre /\ turnNext[flushPre] = flushAt
  BY <1>a, <1>b DEF TurnInv, FlushStands
<1>1. CASE TurnPopTail
  <2>1. /\ at = "turnPopTail" /\ at' = "turnPopUnlink" /\ pre' = pre /\ new' = new
        /\ turnReqCur' = pre /\ UNCHANGED <<turnNext, turnReqs>>
    BY <1>1 DEF TurnPopTail, SetReqCur, localVars
  <2>2. turnReqCur = new
    BY <2>1 DEF TurnInv, PopStands
  <2>3. turnNext[new] = NULL
    BY <1>b, <2>1, <2>2 DEF TurnInv, TurnTail
  <2>4. pre # new
    BY <1>0, <1>a, <2>3
  <2>5. TurnLinked' /\ TurnReached'
    BY <1>a, <2>1 DEF TurnInv, TurnLinked, TurnReached, TurnQueued
  <2>6. FlushStands'
    BY <1>a, <1>b, <2>1, <2>2 DEF TurnInv, FlushStands
  <2>7. PopStands'
    BY <1>a, <2>1, <2>4 DEF PopStands
  <2>8. TurnTail'
    BY <1>a, <2>1, <2>3 DEF TurnTail
  <2>9. QED
    BY <2>5, <2>6, <2>7, <2>8 DEF TurnInv
<1>2. CASE TurnPopUnlink
  <2>1. /\ at = "turnPopUnlink" /\ at' = "holePop" /\ new \in turnReqs
        /\ turnNext' = [turnNext EXCEPT ![pre] = turnNext[new], ![new] = NULL]
        /\ turnReqs' = turnReqs \ {new} /\ turnReqCur' = turnReqCur
    BY <1>2 DEF TurnPopUnlink, UnlinkTurnReq, TurnForgotten
  <2>2. /\ TurnLinked' /\ TurnReached'
        /\ new # pre /\ turnNext[new] # new
        /\ turnNext'[new] = NULL /\ turnNext'[pre] = turnNext[new]
        /\ \A n \in TurnCells \ {pre, new} : turnNext'[n] = turnNext[n]
    <3>1. /\ turnNext' \in [TurnCells -> TurnCells \cup {NULL}]
          /\ turnNext'[new] = NULL /\ (turnNext'[pre] = turnNext[new] \/ pre = new)
          /\ \A n \in TurnCells \ {pre, new} : turnNext'[n] = turnNext[n]
      <4>1. turnNext \in [TurnCells -> TurnCells \cup {NULL}]
        BY TurnNodesFacts
      <4>2. turnNext[new] \in TurnCells \cup {NULL}
        BY <1>0, <4>1
      <4>3. QED
        BY <1>0, <2>1, <4>1, <4>2
    <3>2. /\ new \in turnReqs \ TurnHidden /\ pre \in (turnReqs \ TurnHidden) \cup {Head}
          /\ turnNext[pre] = new /\ turnReqs' = turnReqs \ {new} /\ TurnHidden' = TurnHidden
      BY <1>a, <2>1
    <3>3. QED
      BY <3>1, <3>2, TurnRemoved
  <2>3. turnReqCur # new /\ turnReqCur \in turnReqs \cup {Head}
    BY <1>a, <2>1 DEF TurnInv, PopStands, TurnTail
  <2>4. FlushStands'
    <3>1. flush # "asleep" => turnNext'[flushPre] = flushAt
      BY <1>0, <1>b, <1>c, <2>2
    <3>2. flush # "asleep" => flushPre \in turnReqs' \cup {Head}
      BY <1>a, <1>b, <2>1 DEF TurnInv, FlushStands
    <3>3. QED
      BY <1>a, <2>1, <3>1, <3>2 DEF TurnInv, FlushStands
  <2>5. PopStands'
    BY <2>1 DEF PopStands
  <2>6. TurnTail'
    <3>1. turnReqCur' \in (turnReqs' \ TurnHidden') \cup {Head}
      BY <1>a, <2>1, <2>3
    <3>2. \/ turnNext[turnReqCur] = NULL
          \/ flush = "unlink" /\ turnReqCur = flushPre /\ turnNext[flushAt] = NULL
          \/ turnReqCur = pre /\ turnNext[new] = NULL
      BY <2>1 DEF TurnInv, TurnTail
    <3>3. CASE turnNext[turnReqCur] = NULL
      <4>1. turnReqCur # pre /\ turnReqCur \in TurnCells
        BY <1>0, <1>a, <2>3, <3>3
      <4>2. turnNext'[turnReqCur] = NULL
        BY <2>2, <2>3, <3>3, <4>1
      <4>3. QED
        BY <2>1, <3>1, <4>2 DEF TurnTail
    <3>4. CASE flush = "unlink" /\ turnReqCur = flushPre /\ turnNext[flushAt] = NULL
      <4>1. turnNext'[flushAt] = NULL
        BY <1>0, <1>b, <2>2, <3>4
      <4>2. QED
        BY <1>a, <2>1, <3>1, <3>4, <4>1 DEF TurnTail
    <3>5. CASE turnReqCur = pre /\ turnNext[new] = NULL
      BY <2>1, <2>2, <3>1, <3>5 DEF TurnTail
    <3>6. QED
      BY <3>2, <3>3, <3>4, <3>5
  <2>7. QED
    BY <2>2, <2>4, <2>5, <2>6 DEF TurnInv
<1>3. QED
  BY <1>1, <1>2

\* The listener puts a client in: the request, and the last one before it.
LEMMA TurnAllocated ==
    ASSUME TypeOK, TurnInv, TurnClient \/ TurnLast
    PROVE  TurnInv'
<1> USE DEF AtTurnPop, AtTurnPut
<1>0. /\ NULL \notin TurnCells /\ Head \in TurnCells /\ Head \notin TurnNodes
      /\ TurnNodes \subseteq TurnCells /\ TurnCells = TurnNodes \cup {Head}
      /\ turnNext \in [TurnCells -> TurnCells \cup {NULL}]
      /\ turnReqs \subseteq TurnNodes
  BY TurnNodesFacts
<1>1. CASE TurnClient
  <2>1. PICK n \in TurnNodes \ turnReqs : \E r \in Radoms : NewTurnReq(n, r) /\ new' = n
    BY <1>1 DEF TurnClient
  <2>2. /\ at = "idle" /\ at' = "turnLast" /\ new' = n /\ turnReqs' = turnReqs \cup {n}
        /\ UNCHANGED <<turnNext, turnReqCur, flush, flushPre, flushAt>>
    BY <1>1, <2>1 DEF TurnClient, Message, NewTurnReq, flushVars
  <2>3. TurnHidden = {} /\ TurnHidden' = {n}
    BY <2>2 DEF TurnHidden
  <2>4. \A m \in TurnCells : turnNext[m] \in turnReqs \cup {NULL}
    BY DEF TurnInv, TurnLinked
  <2>5. n \in TurnCells /\ n # NULL /\ turnNext[n] = NULL /\ n # Head
    BY <1>0 DEF TurnInv, TurnLinked
  <2>6. TurnLinked'
    BY <2>2, <2>3, <2>4, <2>5 DEF TurnInv, TurnLinked
  <2>7. TurnReached'
    BY <2>2, <2>3 DEF TurnInv, TurnReached, TurnQueued
  <2>8. FlushStands' /\ TurnTail'
    BY <2>2, <2>3, <2>5 DEF TurnInv, FlushStands, TurnTail
  <2>9. PopStands'
    BY <2>2 DEF PopStands
  <2>10. QED
    BY <2>6, <2>7, <2>8, <2>9 DEF TurnInv
<1>2. CASE TurnLast
  <2>1. /\ at = "turnLast" /\ at' = "turnLink" /\ pre' = turnReqCur /\ new' = new
        /\ UNCHANGED turnQueueVars
    BY <1>2 DEF TurnLast
  <2>2. TurnHidden' = TurnHidden
    BY <2>1 DEF TurnHidden
  <2>3. TurnLinked' /\ TurnReached'
    BY <2>1, <2>2 DEF TurnInv, TurnLinked, TurnReached, TurnQueued, turnQueueVars
  <2>4. FlushStands' /\ TurnTail'
    BY <2>1, <2>2 DEF TurnInv, FlushStands, TurnTail, turnQueueVars
  <2>5. PopStands'
    BY <2>1 DEF PopStands, turnQueueVars
  <2>6. QED
    BY <2>3, <2>4, <2>5 DEF TurnInv
<1>3. QED
  BY <1>1, <1>2

\* The listener puts a client in: the two assignments.
LEMMA TurnPut ==
    ASSUME TypeOK, TurnInv, TurnLink \/ TurnCur, ~MeetOnTurn
    PROVE  TurnInv'
<1> USE DEF AtTurnPop, AtTurnPut
<1>0. /\ NULL \notin TurnCells /\ Head \in TurnCells /\ Head \notin TurnNodes
      /\ TurnNodes \subseteq TurnCells /\ TurnCells = TurnNodes \cup {Head}
      /\ turnNext \in [TurnCells -> TurnCells \cup {NULL}]
      /\ turnReqs \subseteq TurnNodes
  BY TurnNodesFacts
<1>a. /\ at \in {"turnLink", "turnCur"} /\ pre \in TurnCells /\ new \in TurnNodes
      /\ turnReqCur = pre
      /\ flush' = flush /\ flushPre' = flushPre /\ flushAt' = flushAt
      /\ flush # "asleep" => flushPre \in TurnCells /\ flushAt \in TurnNodes
  BY DEF TurnLink, TurnCur, TypeOK, LocalTypes, TurnTypes, TurnInv, PopStands, LinkTurnReq,
     SetReqCur, flushVars
<1>b. flush \in {"tail", "unlink"} => pre # flushPre /\ pre # flushAt
  BY <1>a DEF MeetOnTurn
<1>1. CASE TurnLink
  <2>1. /\ at = "turnLink" /\ at' = "turnCur" /\ pre' = pre /\ new' = new
        /\ turnNext' = [turnNext EXCEPT ![pre] = new]
        /\ UNCHANGED <<turnReqCur, turnReqs>>
    BY <1>1 DEF TurnLink, LinkTurnReq, localVars
  <2>2. TurnHidden = {new} /\ TurnHidden' = {}
    BY <2>1 DEF TurnHidden
  <2>3. /\ turnNext[pre] = NULL /\ turnNext[new] = NULL /\ pre # new
        /\ new \in turnReqs /\ pre \in (turnReqs \ {new}) \cup {Head}
    BY <1>0, <1>a, <1>b, <2>1, <2>2 DEF TurnInv, TurnTail, TurnLinked
  <2>4. /\ turnNext' \in [TurnCells -> TurnCells \cup {NULL}]
        /\ turnNext'[pre] = new
        /\ \A n \in TurnCells \ {pre} : turnNext'[n] = turnNext[n]
    BY <1>0, <1>a, <2>1
  <2>5. \A n \in TurnCells : turnNext[n] \in (turnReqs \ {new}) \cup {NULL}
    BY <2>2 DEF TurnInv, TurnLinked
  <2>6. TurnLinked'
    <3>1. ASSUME NEW n \in TurnNodes \ turnReqs' PROVE turnNext'[n] = NULL
      <4>1. n \in TurnCells /\ n # pre
        BY <1>0, <2>1, <2>3
      <4>2. QED
        BY <2>1, <2>4, <4>1 DEF TurnInv, TurnLinked
    <3>2. ASSUME NEW n \in TurnCells PROVE turnNext'[n] \in (turnReqs' \ TurnHidden') \cup {NULL}
      <4>1. turnReqs' = turnReqs
        BY <2>1
      <4>2. QED
        BY <2>2, <2>3, <2>4, <2>5, <4>1
    <3>3. ASSUME NEW m \in TurnCells, NEW n \in TurnCells,
                 turnNext'[m] = turnNext'[n], turnNext'[m] # NULL
          PROVE  m = n
      <4>1. \A k \in TurnCells : turnNext[k] # new
        BY <1>0, <1>a, <2>5
      <4>2. \A i, j \in TurnCells : turnNext[i] = turnNext[j] /\ turnNext[i] # NULL => i = j
        BY DEF TurnInv, TurnLinked
      <4>3. QED
        BY <2>4, <3>3, <4>1, <4>2
    <3>4. QED
      BY <2>2, <3>1, <3>2, <3>3 DEF TurnLinked
  <2>7. TurnReached'
    <3>1. Head \in Chain(turnNext, Head) /\ Head \in TurnCells \cup {NULL}
      BY <1>0, ChainHolds
    <3>2. pre \in Chain(turnNext, Head)
      BY <2>2, <2>3, <3>1 DEF TurnInv, TurnReached, TurnQueued
    <3>3. new \in TurnCells
      BY <1>0, <1>a
    <3>4. /\ Chain(turnNext, Head) \subseteq Chain(turnNext', Head)
          /\ pre \in Chain(turnNext, Head) => new \in Chain(turnNext', Head)
      BY <1>0, <1>a, <2>3, <2>4, <3>1, <3>3, ChainExtended
    <3>5. turnReqs' = turnReqs
      BY <2>1
    <3>6. QED
      BY <2>2, <3>2, <3>4, <3>5 DEF TurnInv, TurnReached, TurnQueued
  <2>8. FlushStands'
    <3>1. flush # "asleep" => flushPre # pre /\ flushPre \in TurnCells
      BY <1>0, <1>a, <2>3 DEF TurnInv, FlushStands
    <3>2. flush # "asleep" => turnNext'[flushPre] = flushAt
      BY <2>4, <3>1 DEF TurnInv, FlushStands
    <3>3. turnReqs' = turnReqs /\ turnReqCur' = turnReqCur
      BY <2>1
    <3>4. QED
      BY <1>a, <2>2, <3>2, <3>3 DEF TurnInv, FlushStands
  <2>9. PopStands'
    <3>1. turnNext'[new] = NULL
      BY <1>0, <1>a, <2>3, <2>4
    <3>2. QED
      BY <1>a, <2>1, <2>4, <3>1 DEF PopStands
  <2>10. TurnTail'
    BY <1>a, <2>1, <2>2, <2>3 DEF TurnTail
  <2>11. QED
    BY <2>6, <2>7, <2>8, <2>9, <2>10 DEF TurnInv
<1>2. CASE TurnCur
  <2>1. /\ at = "turnCur" /\ at' = "idle" /\ turnReqCur' = new
        /\ UNCHANGED <<turnNext, turnReqs>>
    BY <1>2 DEF TurnCur, SetReqCur, Return
  <2>2. TurnHidden = {} /\ TurnHidden' = {}
    BY <2>1 DEF TurnHidden
  <2>3. turnNext[pre] = new /\ turnNext[new] = NULL
    BY <2>1 DEF TurnInv, PopStands
  <2>4. new \in turnReqs
    BY <1>0, <1>a, <2>2, <2>3 DEF TurnInv, TurnLinked
  <2>5. TurnLinked' /\ TurnReached'
    BY <2>1, <2>2 DEF TurnInv, TurnLinked, TurnReached, TurnQueued
  <2>6. flush # "asleep" => /\ flushPre \in turnReqs \cup {Head} /\ turnNext[flushPre] = flushAt
    BY <2>2 DEF TurnInv, FlushStands
  <2>7. flush # "tail"
    BY <1>a, <1>b DEF TurnInv, FlushStands
  <2>8. flush = "unlink" => new # flushAt
    <3>1. SUFFICES ASSUME flush = "unlink", new = flushAt PROVE FALSE
      OBVIOUS
    <3>2. flushPre = pre
      BY <1>0, <1>a, <2>3, <2>6, <3>1 DEF TurnInv, TurnLinked
    <3>3. QED
      BY <1>b, <3>1, <3>2
  <2>9. FlushStands'
    BY <1>a, <2>1, <2>2, <2>6, <2>7, <2>8 DEF FlushStands
  <2>10. PopStands' /\ TurnTail'
    BY <2>1, <2>2, <2>3, <2>4 DEF PopStands, TurnTail
  <2>11. QED
    BY <2>5, <2>9, <2>10 DEF TurnInv
<1>3. QED
  BY <1>1, <1>2

\* The steps of TurnThread.
LEMMA TurnFlushed ==
    ASSUME TypeOK, TurnInv, Flush, UNCHANGED <<at, pre, new>>, ~MeetOnTurn
    PROVE  TurnInv'
<1> USE DEF AtTurnPop, AtTurnPut
<1>0. /\ NULL \notin TurnCells /\ Head \in TurnCells /\ Head \notin TurnNodes
      /\ TurnNodes \subseteq TurnCells /\ TurnCells = TurnNodes \cup {Head}
      /\ turnNext \in [TurnCells -> TurnCells \cup {NULL}]
      /\ turnReqs \subseteq TurnNodes
  BY TurnNodesFacts
<1>h. TurnHidden' = TurnHidden
  BY DEF TurnHidden
<1>t. /\ flush # "asleep" => flushPre \in TurnCells /\ flushAt \in TurnNodes
      /\ at \in AtTurnPop => pre \in TurnCells /\ new \in TurnNodes \cup {NULL}
      /\ at \in AtTurnPut => new \in TurnNodes
      /\ at \in {"turnLink", "turnCur"} => pre \in TurnCells
  BY DEF TypeOK, TurnTypes, LocalTypes
<1>f. flush # "asleep" => /\ flushPre \in (turnReqs \ TurnHidden) \cup {Head}
                          /\ turnNext[flushPre] = flushAt
                          /\ flushAt \in turnReqs \ TurnHidden
  BY <1>0, <1>t DEF TurnInv, FlushStands, TurnLinked
<1>m. flush \in {"tail", "unlink"} =>
        /\ at \in {"turnLink", "turnCur"} => pre # flushPre /\ pre # flushAt
        /\ at \in AtTurnPop => {pre, new} \cap {flushPre, flushAt} \cap TurnNodes = {}
  BY DEF MeetOnTurn
<1>1. CASE FlushStart
  <2>1. /\ UNCHANGED <<turnNext, turnReqCur, turnReqs>> /\ flush = "asleep" /\ flush' = "visit"
        /\ flushPre' = Head /\ flushAt' = turnNext[Head]
    BY <1>1 DEF FlushStart
  <2>2. TurnLinked' /\ TurnReached' /\ PopStands'
    <3>1. TurnLinked' /\ TurnReached'
      BY <1>h, <2>1 DEF TurnInv, TurnLinked, TurnReached, TurnQueued
    <3>2. PopStands'
      BY <2>1 DEF TurnInv, PopStands
    <3>3. QED
      BY <3>1, <3>2
  <2>3. FlushStands' /\ TurnTail'
    BY <1>h, <2>1 DEF TurnInv, FlushStands, TurnTail
  <2>4. QED
    BY <2>2, <2>3 DEF TurnInv
<1>2. CASE FlushVisit
  <2>1. UNCHANGED <<turnNext, turnReqCur, turnReqs>> /\ flush = "visit"
    BY <1>2 DEF FlushVisit
  <2>2. TurnLinked' /\ TurnReached' /\ PopStands'
    <3>1. TurnLinked' /\ TurnReached'
      BY <1>h, <2>1 DEF TurnInv, TurnLinked, TurnReached, TurnQueued
    <3>2. PopStands'
      BY <2>1 DEF TurnInv, PopStands
    <3>3. QED
      BY <3>1, <3>2
  <2>3. FlushStands'
    <3>1. CASE turnLeft[flushAt] > 1
      BY <1>2, <1>f, <1>h, <2>1, <3>1 DEF FlushVisit, FlushOn, FlushStands
    <3>2. CASE ~(turnLeft[flushAt] > 1)
      BY <1>2, <1>f, <1>h, <2>1, <3>2 DEF FlushVisit, FlushStands
    <3>3. QED
      BY <3>1, <3>2
  <2>4. TurnTail'
    BY <1>h, <2>1 DEF TurnInv, TurnTail
  <2>5. QED
    BY <2>2, <2>3, <2>4 DEF TurnInv
<1>3. CASE FlushTail
  <2>1. /\ UNCHANGED <<turnNext, turnReqs, flushPre, flushAt>>
        /\ flush = "tail" /\ flush' = "unlink" /\ turnReqCur' = flushPre
    BY <1>3 DEF FlushTail
  <2>2. turnReqCur = flushAt
    BY <2>1 DEF TurnInv, FlushStands
  <2>3. turnNext[flushAt] = NULL
    <3>1. at # "turnCur"
      BY <1>m, <2>1, <2>2 DEF TurnInv, PopStands
    <3>2. ~(at = "turnPopUnlink" /\ turnReqCur = pre)
      BY <1>m, <1>t, <2>1, <2>2
    <3>3. QED
      BY <2>1, <2>2, <3>1, <3>2 DEF TurnInv, TurnTail
  <2>4. flushPre # flushAt
    BY <1>0, <1>f, <1>t, <2>1, <2>3
  <2>5. TurnLinked' /\ TurnReached'
    BY <1>h, <2>1 DEF TurnInv, TurnLinked, TurnReached, TurnQueued
  <2>6. FlushStands' /\ TurnTail'
    BY <1>f, <1>h, <2>1, <2>3, <2>4 DEF FlushStands, TurnTail
  <2>7. PopStands'
    <3>1. at \notin {"turnLink", "turnCur"}
      BY <1>m, <2>1, <2>2 DEF TurnInv, PopStands
    <3>2. at # "turnPopTail"
      BY <1>m, <1>t, <2>1, <2>2 DEF TurnInv, PopStands
    <3>3. at = "turnPopUnlink" => flushPre # new
      <4>1. at = "turnPopUnlink" => new \in TurnNodes
        BY DEF TypeOK, LocalTypes
      <4>2. QED
        BY <1>m, <2>1, <4>1
    <3>4. QED
      BY <2>1, <3>1, <3>2, <3>3 DEF TurnInv, PopStands
  <2>8. QED
    BY <2>5, <2>6, <2>7 DEF TurnInv
<1>4. CASE FlushUnlink
  <2>1. /\ flush = "unlink" /\ flushAt \in turnReqs
        /\ turnNext' = [turnNext EXCEPT ![flushPre] = turnNext[flushAt], ![flushAt] = NULL]
        /\ turnReqs' = turnReqs \ {flushAt} /\ turnReqCur' = turnReqCur
        /\ FlushOn(flushPre, turnNext[flushAt])
    BY <1>4 DEF FlushUnlink, TurnForgotten
  <2>2. /\ TurnLinked' /\ TurnReached'
        /\ flushAt # flushPre /\ turnNext[flushAt] # flushAt
        /\ turnNext'[flushAt] = NULL /\ turnNext'[flushPre] = turnNext[flushAt]
        /\ \A n \in TurnCells \ {flushPre, flushAt} : turnNext'[n] = turnNext[n]
    <3>1. /\ turnNext' \in [TurnCells -> TurnCells \cup {NULL}]
          /\ turnNext'[flushAt] = NULL /\ (turnNext'[flushPre] = turnNext[flushAt] \/ flushPre = flushAt)
          /\ \A n \in TurnCells \ {flushPre, flushAt} : turnNext'[n] = turnNext[n]
      <4>1. turnNext[flushAt] \in TurnCells \cup {NULL} /\ flushPre \in TurnCells /\ flushAt \in TurnCells
        BY <1>0, <1>t, <2>1
      <4>2. QED
        BY <1>0, <2>1, <4>1
    <3>2. /\ flushAt \in turnReqs \ TurnHidden /\ flushPre \in (turnReqs \ TurnHidden) \cup {Head}
          /\ turnNext[flushPre] = flushAt /\ turnReqs' = turnReqs \ {flushAt}
      BY <1>f, <2>1
    <3>3. QED
      BY <1>h, <3>1, <3>2, TurnRemoved
  <2>3. turnReqCur # flushAt /\ turnReqCur \in (turnReqs \ TurnHidden) \cup {Head}
    BY <2>1 DEF TurnInv, FlushStands, TurnTail
  <2>4. FlushStands'
    <3>1. CASE turnNext[flushAt] = NULL
      BY <2>1, <3>1 DEF FlushOn, FlushStands
    <3>2. CASE turnNext[flushAt] # NULL
      <4>1. flush' = "visit" /\ flushPre' = flushPre /\ flushAt' = turnNext[flushAt]
        BY <2>1, <3>2 DEF FlushOn
      <4>2. flushPre \in (turnReqs' \ TurnHidden') \cup {Head}
        BY <1>f, <1>h, <2>1, <2>2
      <4>3. QED
        BY <2>2, <4>1, <4>2 DEF FlushStands
    <3>3. QED
      BY <3>1, <3>2
  <2>5. PopStands'
    <3>1. ASSUME at \in AtTurnPop PROVE pre \in turnReqs' \cup {Head} /\ turnNext'[pre] = new
      <4>1. pre \in turnReqs \cup {Head} /\ turnNext[pre] = new /\ pre \in TurnCells
        BY <1>t, <3>1 DEF TurnInv, PopStands
      <4>2. pre # flushAt
        BY <1>m, <1>t, <2>1, <3>1
      <4>3. pre # flushPre
        BY <1>f, <1>m, <1>t, <2>1, <3>1, <4>1
      <4>4. turnNext'[pre] = turnNext[pre]
        BY <2>2, <4>1, <4>2, <4>3
      <4>5. QED
        BY <2>1, <4>1, <4>2, <4>4
    <3>2. ASSUME at = "turnCur" PROVE turnNext'[pre] = new /\ turnNext'[new] = NULL
      <4>1. /\ turnNext[pre] = new /\ turnNext[new] = NULL
            /\ pre \in TurnCells /\ new \in TurnCells
        BY <1>0, <1>t, <3>2 DEF TurnInv, PopStands
      <4>2. pre # flushPre /\ pre # flushAt
        BY <1>m, <2>1, <3>2
      <4>3. turnNext'[pre] = turnNext[pre]
        BY <2>2, <4>1, <4>2
      <4>4. new # flushPre
        BY <1>0, <1>f, <1>t, <2>1, <4>1
      <4>5. turnNext'[new] = NULL
        BY <2>2, <4>1, <4>4
      <4>6. QED
        BY <4>1, <4>3, <4>5
    <3>3. turnReqCur' = turnReqCur
      BY <2>1
    <3>4. QED
      BY <3>1, <3>2, <3>3 DEF TurnInv, PopStands
  <2>6. TurnTail'
    <3>1. turnReqCur' \in (turnReqs' \ TurnHidden') \cup {Head}
      BY <1>h, <2>1, <2>3
    <3>2. \/ turnNext[turnReqCur] = NULL
          \/ at = "turnCur"
          \/ turnReqCur = flushPre /\ turnNext[flushAt] = NULL
          \/ at = "turnPopUnlink" /\ turnReqCur = pre /\ turnNext[new] = NULL
      BY <2>1 DEF TurnInv, TurnTail
    <3>3. CASE turnNext[turnReqCur] = NULL
      <4>1. turnReqCur # flushPre /\ turnReqCur \in TurnCells
        BY <1>0, <1>f, <1>t, <2>1, <2>3, <3>3
      <4>2. turnNext'[turnReqCur] = NULL
        BY <2>2, <2>3, <3>3, <4>1
      <4>3. QED
        BY <2>1, <3>1, <4>2 DEF TurnTail
    <3>4. CASE at = "turnCur"
      BY <3>1, <3>4 DEF TurnTail
    <3>5. CASE turnReqCur = flushPre /\ turnNext[flushAt] = NULL
      BY <2>1, <2>2, <3>1, <3>5 DEF TurnTail
    <3>6. CASE at = "turnPopUnlink" /\ turnReqCur = pre /\ turnNext[new] = NULL
      <4>1. new \in TurnNodes
        BY <3>6 DEF TypeOK, LocalTypes
      <4>2. new # flushPre /\ new # flushAt /\ new \in TurnCells
        BY <1>0, <1>m, <2>1, <3>6, <4>1
      <4>3. turnNext'[new] = NULL
        BY <2>2, <3>6, <4>2
      <4>4. QED
        BY <2>1, <3>1, <3>6, <4>3 DEF TurnTail
    <3>7. QED
      BY <3>2, <3>3, <3>4, <3>5, <3>6
  <2>7. QED
    BY <2>2, <2>4, <2>5, <2>6 DEF TurnInv
<1>5. QED
  BY <1>1, <1>2, <1>3, <1>4 DEF Flush

LEMMA TurnStep ==
    ASSUME TypeOK, TurnInv, Next, ~MeetOnTurn
    PROVE  TurnInv'
<1> USE DEF AtTurnPop, AtTurnPut
<1>1. CASE Handshake \/ SessionData \/ CloseSession \/ ClientAnnounced \/ ClientSeen
  <2>1. /\ UNCHANGED turnQueueVars
        /\ at \notin AtTurnPop \cup AtTurnPut /\ at' \notin AtTurnPop \cup AtTurnPut
    BY <1>1 DEF Handshake, SessionData, CloseSession, ClientAnnounced, ClientSeen, Message
  <2>2. QED
    BY <2>1, TurnElsewhere
<1>2. CASE Query \/ CreateFirst \/ CreateNext \/ First \/ Last \/ LinkSession \/ CreateNamed
  <2>1. /\ UNCHANGED turnQueueVars
        /\ at \notin AtTurnPop \cup AtTurnPut /\ at' \notin AtTurnPop \cup AtTurnPut
    BY <1>2 DEF Query, CreateFirst, CreateNext, First, Last, LinkSession, CreateNamed, OnSessions
  <2>2. QED
    BY <2>1, TurnElsewhere
<1>3. CASE GetSession \/ HolePop \/ Answer \/ Close \/ MovePop \/ MoveInsert \/ Moved
  <2>1. /\ UNCHANGED turnQueueVars
        /\ at \notin AtTurnPop \cup AtTurnPut /\ at' \notin AtTurnPop \cup AtTurnPut
    BY <1>3 DEF GetSession, HolePop, Answer, Close, MovePop, MoveInsert, Moved, OnSessions,
       OnHoles, Return
  <2>2. QED
    BY <2>1, TurnElsewhere
<1>4. CASE Arrival
  BY <1>1, <1>4, TurnAllocated DEF Arrival
<1>5. CASE Handler
  BY <1>2, <1>3, <1>5, TurnAllocated, TurnLooked, TurnPopped, TurnPut DEF Handler
<1>6. CASE Flush /\ UNCHANGED <<sessionVars, holeVars, listenerVars>>
  BY <1>6, TurnFlushed DEF listenerVars, localVars
<1>7. CASE \/ Timer(Created) /\ UNCHANGED <<turnQueueVars, holeVars, listenerVars>>
           \/ Punch /\ UNCHANGED <<sessionVars, turnQueueVars, listenerVars>>
  BY <1>7, TurnElsewhere DEF listenerVars, localVars
<1>8. QED
  BY <1>4, <1>5, <1>6, <1>7 DEF Next, Threads

----------------------------------------------------------------------------
(***************************************************************************)
(* The clients of the platform.                                            *)
(***************************************************************************)
LEMMA HoleNodesFacts ==
    ASSUME TypeOK
    PROVE  /\ NULL \notin HoleCells /\ Head \in HoleCells /\ Head \notin HoleNodes
           /\ HoleNodes \subseteq HoleCells /\ HoleCells = HoleNodes \cup {Head}
           /\ holeNext \in [HoleCells -> HoleCells \cup {NULL}]
           /\ holeNext \in [HoleCells -> HoleNodes \cup {NULL}]
           /\ holes \subseteq HoleNodes
<1>1. NULL \notin HoleNodes /\ Head \notin HoleNodes /\ Head # NULL
  BY HoleNodesAssumption, HeadAssumption
<1>2. holeNext \in [HoleCells -> HoleNodes \cup {NULL}] /\ holes \subseteq HoleNodes
  BY DEF TypeOK, HoleTypes
<1>3. HoleCells = HoleNodes \cup {Head}
  BY DEF HoleCells
<1>4. holeNext \in [HoleCells -> HoleCells \cup {NULL}]
  BY <1>2, <1>3
<1>5. QED
  BY <1>1, <1>2, <1>3, <1>4

\* The queue is the head and the requests behind it, and no other node.
LEMMA HolesBehindHead ==
    ASSUME TypeOK, HoleLinked
    PROVE  /\ HolesQueued \subseteq holes \cup {Head}
           /\ HolesQueued = {Head} \cup Chain(holeNext, holeNext[Head])
           /\ Chain(holeNext, holeNext[Head]) \subseteq holes
<1>0. /\ NULL \notin HoleCells /\ Head \in HoleCells /\ Head \notin HoleNodes
      /\ HoleNodes \subseteq HoleCells /\ HoleCells = HoleNodes \cup {Head}
      /\ holeNext \in [HoleCells -> HoleCells \cup {NULL}]
      /\ holes \subseteq HoleNodes
  BY HoleNodesFacts
<1>1. \A n \in HoleCells : holeNext[n] \in holes \cup {NULL}
  BY DEF HoleLinked
<1>2. Covers(holes, holeNext, holeNext[Head])
  BY <1>0, <1>1 DEF Covers
<1>3. Chain(holeNext, holeNext[Head]) \subseteq holes
  <2>1. holes \in SUBSET HoleCells
    BY <1>0
  <2>2. QED
    BY <1>0, <1>2, <2>1, ChainLeast
<1>4. HolesQueued = {Head} \cup Chain(holeNext, holeNext[Head])
  BY <1>0, ChainStep DEF HolesQueued
<1>5. QED
  BY <1>3, <1>4

\* A request is taken out from behind the one before it.
LEMMA HoleOut ==
    ASSUME TypeOK, HoleLinked, HoleReached, NEW p \in holes \cup {Head}, NEW c \in holes,
           holeNext[p] = c, HoleRemoved(p, c)
    PROVE  /\ HoleLinked' /\ HoleReached'
           /\ c # p /\ holeNext'[p] = holeNext[c]
<1>0. /\ NULL \notin HoleCells /\ Head \in HoleCells /\ Head \notin HoleNodes
      /\ HoleNodes \subseteq HoleCells /\ HoleCells = HoleNodes \cup {Head}
      /\ holeNext \in [HoleCells -> HoleCells \cup {NULL}]
      /\ holes \subseteq HoleNodes
  BY HoleNodesFacts
<1>1. /\ p \in HoleCells /\ c \in HoleCells /\ c # NULL /\ Head # c
  BY <1>0
<1>2. /\ holeNext' = [holeNext EXCEPT ![p] = holeNext[c], ![c] = NULL]
      /\ holeReqCur' = IF holeReqCur = c THEN p ELSE holeReqCur
      /\ holes' = holes \ {c}
  BY DEF HoleRemoved
<1>3. /\ holeNext' \in [HoleCells -> HoleCells \cup {NULL}]
      /\ holeNext'[c] = NULL /\ (holeNext'[p] = holeNext[c] \/ p = c)
      /\ \A n \in HoleCells \ {p, c} : holeNext'[n] = holeNext[n]
  <2>1. holeNext[c] \in HoleCells \cup {NULL}
    BY <1>0, <1>1
  <2>2. QED
    BY <1>0, <1>1, <1>2, <2>1
<1> HIDE DEF HoleRemoved
<1>4. \A m, n \in HoleCells : holeNext[m] = holeNext[n] /\ holeNext[m] # NULL => m = n
  BY DEF HoleLinked
<1>5. c \in Chain(holeNext, Head)
  BY DEF HoleReached, HolesQueued
<1>6. /\ c # p /\ holeNext[c] # c
      /\ Chain(holeNext', Head) = Chain(holeNext, Head) \ {c}
  <2>1. /\ NULL \notin HoleCells /\ holeNext \in [HoleCells -> HoleCells \cup {NULL}]
        /\ Head \in HoleCells \cup {NULL}
    BY <1>0
  <2>2. QED
    BY <1>1, <1>3, <1>4, <1>5, <2>1, ChainWithout
<1>7. \A n \in HoleCells : holeNext'[n] = IF n = c THEN NULL ELSE IF n = p THEN holeNext[c] ELSE holeNext[n]
  BY <1>3, <1>6
<1>8. \A n \in HoleCells : n # p => holeNext[n] # c
  BY <1>1, <1>4
<1>9. /\ \A n \in HoleNodes \ holes : holeNext[n] = NULL
      /\ \A n \in HoleCells : holeNext[n] \in holes \cup {NULL}
      /\ holeReqCur \in holes \cup {Head} /\ holeNext[holeReqCur] = NULL
  BY DEF HoleLinked
<1>10. HoleLinked'
  <2>1. ASSUME NEW n \in HoleNodes \ holes' PROVE holeNext'[n] = NULL
    <3>1. n \in HoleCells /\ (n = c \/ n \notin holes) /\ (n = c \/ n # p)
      BY <1>0, <1>2, <2>1
    <3>2. QED
      BY <1>7, <1>9, <2>1, <3>1
  <2>2. ASSUME NEW n \in HoleCells PROVE holeNext'[n] \in holes' \cup {NULL}
    <3>1. holes' = holes \ {c}
      BY <1>2
    <3>2. QED
      BY <1>1, <1>6, <1>7, <1>8, <1>9, <3>1
  <2>3. ASSUME NEW m \in HoleCells, NEW n \in HoleCells,
               holeNext'[m] = holeNext'[n], holeNext'[m] # NULL
        PROVE  m = n
    <3>1. m # c /\ n # c
      BY <1>7, <2>3
    <3>2. holeNext'[m] = holeNext[IF m = p THEN c ELSE m]
      BY <1>7, <3>1
    <3>3. holeNext'[n] = holeNext[IF n = p THEN c ELSE n]
      BY <1>7, <3>1
    <3>4. (IF m = p THEN c ELSE m) \in HoleCells /\ (IF n = p THEN c ELSE n) \in HoleCells
      BY <1>1
    <3>5. (IF m = p THEN c ELSE m) = (IF n = p THEN c ELSE n)
      BY <1>4, <2>3, <3>2, <3>3, <3>4
    <3>6. QED
      BY <3>1, <3>5
  <2>4. holeReqCur' \in holes' \cup {Head} /\ holeNext'[holeReqCur'] = NULL
    <3>1. CASE holeReqCur = c
      <4>1. holeReqCur' = p /\ holeNext[c] = NULL
        BY <1>2, <1>9, <3>1
      <4>2. QED
        BY <1>1, <1>2, <1>6, <1>7, <4>1
    <3>2. CASE holeReqCur # c
      <4>1. holeReqCur' = holeReqCur /\ holeReqCur \in HoleCells /\ holeReqCur # p
        BY <1>0, <1>1, <1>2, <1>9, <3>2
      <4>2. QED
        BY <1>2, <1>7, <1>9, <3>2, <4>1
    <3>3. QED
      BY <3>1, <3>2
  <2>5. QED
    BY <2>1, <2>2, <2>3, <2>4 DEF HoleLinked
<1>11. HoleReached'
  BY <1>2, <1>6 DEF HoleReached, HolesQueued
<1>12. QED
  BY <1>6, <1>7, <1>1, <1>10, <1>11

\* A request is put in behind the last one.
LEMMA HoleIn ==
    ASSUME TypeOK, HoleLinked, HoleReached, NEW n \in HoleNodes \ holes, NEW r, NEW a,
           InsertHole(n, r, a)
    PROVE  HoleLinked' /\ HoleReached'
<1>0. /\ NULL \notin HoleCells /\ Head \in HoleCells /\ Head \notin HoleNodes
      /\ HoleNodes \subseteq HoleCells /\ HoleCells = HoleNodes \cup {Head}
      /\ holeNext \in [HoleCells -> HoleCells \cup {NULL}]
      /\ holes \subseteq HoleNodes
  BY HoleNodesFacts
<1>1. /\ holeNext' = [holeNext EXCEPT ![holeReqCur] = n]
      /\ holeReqCur' = n /\ holes' = holes \cup {n}
  BY DEF InsertHole
<1> HIDE DEF InsertHole
<1>2. /\ \A m \in HoleNodes \ holes : holeNext[m] = NULL
      /\ \A m \in HoleCells : holeNext[m] \in holes \cup {NULL}
      /\ \A i, j \in HoleCells : holeNext[i] = holeNext[j] /\ holeNext[i] # NULL => i = j
      /\ holeReqCur \in holes \cup {Head} /\ holeNext[holeReqCur] = NULL
  BY DEF HoleLinked
<1>3. /\ n \in HoleCells /\ n # NULL /\ holeNext[n] = NULL /\ n # holeReqCur
      /\ holeReqCur \in HoleCells
  BY <1>0, <1>2
<1>4. /\ holeNext' \in [HoleCells -> HoleCells \cup {NULL}]
      /\ holeNext'[holeReqCur] = n
      /\ \A m \in HoleCells \ {holeReqCur} : holeNext'[m] = holeNext[m]
  BY <1>0, <1>1, <1>3
<1>5. HoleLinked'
  <2>1. ASSUME NEW m \in HoleNodes \ holes' PROVE holeNext'[m] = NULL
    <3>1. m \in HoleCells /\ m # holeReqCur /\ m \in HoleNodes \ holes
      BY <1>0, <1>1, <1>2, <2>1
    <3>2. QED
      BY <1>2, <1>4, <3>1
  <2>2. ASSUME NEW m \in HoleCells PROVE holeNext'[m] \in holes' \cup {NULL}
    <3>1. holes' = holes \cup {n}
      BY <1>1
    <3>2. QED
      BY <1>2, <1>4, <3>1
  <2>3. ASSUME NEW i \in HoleCells, NEW j \in HoleCells,
               holeNext'[i] = holeNext'[j], holeNext'[i] # NULL
        PROVE  i = j
    <3>1. \A k \in HoleCells : holeNext[k] # n
      BY <1>2, <1>3
    <3>2. QED
      BY <1>2, <1>4, <2>3, <3>1
  <2>4. holeReqCur' \in holes' \cup {Head} /\ holeNext'[holeReqCur'] = NULL
    <3>1. holeReqCur' = n /\ n \in holes'
      BY <1>1
    <3>2. holeNext'[n] = NULL
      BY <1>3, <1>4
    <3>3. QED
      BY <3>1, <3>2
  <2>5. QED
    BY <2>1, <2>2, <2>3, <2>4 DEF HoleLinked
<1>6. HoleReached'
  <2>1. Head \in Chain(holeNext, Head) /\ Head \in HoleCells \cup {NULL}
    BY <1>0, ChainHolds
  <2>2. holeReqCur \in Chain(holeNext, Head)
    BY <1>2, <2>1 DEF HoleReached, HolesQueued
  <2>3. /\ Chain(holeNext, Head) \subseteq Chain(holeNext', Head)
        /\ holeReqCur \in Chain(holeNext, Head) => n \in Chain(holeNext', Head)
    BY <1>0, <1>2, <1>3, <1>4, <2>1, ChainExtended
  <2>4. holes' = holes \cup {n}
    BY <1>1
  <2>5. QED
    BY <2>2, <2>3, <2>4 DEF HoleReached, HolesQueued
<1>7. QED
  BY <1>5, <1>6
\* A session that is allocated has no client yet, even when two threads have met.
LEMMA BlankStep ==
    ASSUME TypeOK, Blank, Next
    PROVE  Blank'
<1>1. CASE UNCHANGED sessionVars
  BY <1>1 DEF sessionVars, Blank
<1>2. CASE CreateFirst \/ CreateNext
  <2>1. radom' = radom /\ sessions \subseteq sessions'
    BY <1>2 DEF CreateFirst, CreateNext, AddFirst, Allocate
  <2>2. QED
    BY <2>1 DEF Blank
<1>3. CASE LinkSession \/ Close
  <2>1. radom' = radom /\ sessions' = sessions
    BY <1>3 DEF LinkSession, LinkAfter, Close, Quit, sessionVars
  <2>2. QED
    BY <2>1 DEF Blank
<1>4. CASE Answer
  <2>1. here \in sessions /\ radom' = [radom EXCEPT ![here] = asked] /\ sessions' = sessions
    BY <1>4 DEF Answer, SetRadom
  <2>2. QED
    BY <2>1 DEF Blank, TypeOK, SessionTypes
<1>5. CASE Timer(Created)
  <2>1. CASE Free
    <3>1. sessions' = sessions \ {current} /\ radom' = [radom EXCEPT ![current] = NULL]
      BY <2>1 DEF Free
    <3>2. QED
      BY <3>1 DEF Blank, TypeOK, SessionTypes
  <2>2. CASE ~Free
    <3>1. radom' = radom /\ sessions' = sessions
      BY <1>5, <2>2 DEF Timer, Wake, Pass, Overdue, Advance, Remove, Unlink
    <3>2. QED
      BY <3>1 DEF Blank
  <2>3. QED
    BY <2>1, <2>2
<1>6. QED
  BY <1>1, <1>2, <1>3, <1>4, <1>5, SessionSteps

\* Only the answer to its handshake makes a client one that is served.
LEMMA ServedStep ==
    ASSUME TypeOK, Blank, Next
    PROVE  /\ Answer => Served' \subseteq Served \cup {asked}
           /\ ~Answer => Served' \subseteq Served \cup {NULL}
<1>1. CASE UNCHANGED sessionVars /\ ~Answer
  BY <1>1 DEF sessionVars, Served
<1>2. CASE (CreateFirst \/ CreateNext) /\ ~Answer
  <2>1. PICK s \in Sessions \ sessions : radom' = radom /\ sessions' = sessions \cup {s}
    BY <1>2 DEF CreateFirst, CreateNext, AddFirst, Allocate
  <2>2. QED
    BY <1>2, <2>1 DEF Blank, Served
<1>3. CASE (LinkSession \/ Close) /\ ~Answer
  <2>1. radom' = radom /\ sessions' = sessions
    BY <1>3 DEF LinkSession, LinkAfter, Close, Quit, sessionVars
  <2>2. QED
    BY <1>3, <2>1 DEF Served
<1>4. CASE Answer
  <2>1. here \in sessions /\ radom' = [radom EXCEPT ![here] = asked] /\ sessions' = sessions
    BY <1>4 DEF Answer, SetRadom
  <2>2. QED
    BY <1>4, <2>1 DEF Served, TypeOK, SessionTypes
<1>5. CASE Timer(Created) /\ ~Answer
  <2>1. CASE Free
    <3>1. sessions' = sessions \ {current} /\ radom' = [radom EXCEPT ![current] = NULL]
      BY <2>1 DEF Free
    <3>2. QED
      BY <1>5, <3>1 DEF Served, TypeOK, SessionTypes
  <2>2. CASE ~Free
    <3>1. radom' = radom /\ sessions' = sessions
      BY <1>5, <2>2 DEF Timer, Wake, Pass, Overdue, Advance, Remove, Unlink
    <3>2. QED
      BY <1>5, <3>1 DEF Served
  <2>3. QED
    BY <2>1, <2>2
<1>6. QED
  BY <1>1, <1>2, <1>3, <1>4, <1>5, SessionSteps

\* A client's requests, when a step leaves them alone or takes some of them away.
LEMMA ClientsFewer ==
    ASSUME HoleRequests, NULL \notin Radoms,
           holes' \subseteq holes, \A n \in holes' : holeRadom'[n] = holeRadom[n],
           Served' \subseteq Served \cup {NULL}, again' = again
    PROVE  HoleRequests'
BY DEF HoleRequests

\* What TraversalPopReq takes away is all the requests of the client, unless it was
\* announced again.
LEMMA HolePopped ==
    ASSUME TypeOK, HoleLinked, HoleReached, HoleRequests,
           NEW r, PopHole(holeNext[Head], r)
    PROVE  /\ HoleLinked' /\ HoleReached'
           /\ holes' \subseteq holes /\ \A n \in holes' : holeRadom'[n] = holeRadom[n]
           /\ \A n \in holes' : holeRadom'[n] = r => r \in again
<1>0. /\ NULL \notin HoleCells /\ Head \in HoleCells /\ Head \notin HoleNodes
      /\ HoleNodes \subseteq HoleCells /\ HoleCells = HoleNodes \cup {Head}
      /\ holeNext \in [HoleCells -> HoleCells \cup {NULL}]
      /\ holes \subseteq HoleNodes
  BY HoleNodesFacts
<1>1. holeRadom \in [HoleNodes -> Radoms \cup {NULL}]
  BY DEF TypeOK, HoleTypes
<1>2. \A m, n \in holes : holeRadom[m] = holeRadom[n] /\ holeRadom[m] \notin again => m = n
  BY DEF HoleRequests
<1>3. CASE \E n \in holes, p \in holes \cup {Head} :
              FirstOf(n, holeNext[Head], r) /\ holeNext[p] = n /\ HoleRemoved(p, n)
  <2>1. PICK n \in holes, p \in holes \cup {Head} :
              FirstOf(n, holeNext[Head], r) /\ holeNext[p] = n /\ HoleRemoved(p, n)
    BY <1>3
  <2>2. HoleLinked' /\ HoleReached'
    BY <2>1, HoleOut
  <2>3. /\ holes' = holes \ {n} /\ \A m \in HoleNodes \ {n} : holeRadom'[m] = holeRadom[m]
        /\ holeRadom[n] = r
    BY <1>1, <2>1 DEF HoleRemoved, FirstOf
  <2>4. \A m \in holes' : m \in holes /\ m \in HoleNodes \ {n}
    BY <1>0, <2>3
  <2>5. QED
    BY <1>2, <2>2, <2>3, <2>4
<1>4. CASE /\ \A n \in holes : ~FirstOf(n, holeNext[Head], r)
           /\ UNCHANGED <<holeNext, holeReqCur, holes, holeRadom>>
  <2>1. HoleLinked' /\ HoleReached'
    BY <1>4 DEF HoleLinked, HoleReached, HolesQueued
  <2>2. ASSUME NEW m \in holes, holeRadom[m] = r, r \notin again PROVE FALSE
    <3>1. /\ Chain(holeNext, holeNext[Head]) \subseteq holes
          /\ m \in Chain(holeNext, holeNext[Head])
      BY <1>0, HolesBehindHead DEF HoleReached
    <3>2. \A k \in Chain(holeNext, holeNext[Head]) : k = m \/ holeRadom[k] # r
      BY <1>2, <2>2, <3>1
    <3>3. FirstOf(m, holeNext[Head], r)
      BY <2>2, <3>1, <3>2 DEF FirstOf
    <3>4. QED
      BY <1>4, <3>3
  <2>3. QED
    BY <1>4, <2>1, <2>2
<1>5. QED
  BY <1>3, <1>4 DEF PopHole

\* TraversalThread and what it has locked.
LEMMA HolesPunched ==
    ASSUME TypeOK, HolesInv, Punch, UNCHANGED at, ~MeetOnHoles'
    PROVE  /\ HoleLinked' /\ HoleReached' /\ PunchStands'
           /\ holes' \subseteq holes /\ \A n \in holes' : holeRadom'[n] = holeRadom[n]
<1>0. /\ NULL \notin HoleCells /\ Head \in HoleCells /\ Head \notin HoleNodes
      /\ HoleNodes \subseteq HoleCells /\ HoleCells = HoleNodes \cup {Head}
      /\ holeNext \in [HoleCells -> HoleCells \cup {NULL}]
      /\ holes \subseteq HoleNodes
  BY HoleNodesFacts
<1>1. holeRadom \in [HoleNodes -> Radoms \cup {NULL}]
  BY DEF TypeOK, HoleTypes
<1>2. at' \in {"holePop", "movePop"} => pre' = holeNext'[Head]
  BY DEF MeetOnHoles
<1>3. HoleLinked /\ HoleReached /\ PunchStands
  BY DEF HolesInv
<1>4. CASE PunchStart \/ PunchLock
  <2>1. UNCHANGED <<holeNext, holeReqCur, holes, holeRadom>>
    BY <1>4 DEF PunchStart, PunchLock
  <2>2. HoleLinked' /\ HoleReached'
    BY <1>3, <2>1 DEF HoleLinked, HoleReached, HolesQueued
  <2>3. CASE PunchStart
    <3>1. punch' = "lock" /\ punchPre' = Head /\ punchAt' = holeNext[Head]
      BY <2>3 DEF PunchStart
    <3>2. punchAt' = holeNext'[Head]
      BY <2>1, <3>1
    <3>3. QED
      BY <1>2, <2>1, <2>2, <3>1, <3>2 DEF PunchStands
  <2>4. CASE PunchLock
    <3>1. punch' = "send" /\ punchPre' = Head /\ punchAt' = holeNext[Head]
      BY <1>3, <2>4 DEF PunchLock, PunchStands
    <3>2. holesLocked'
      BY <2>4 DEF PunchLock
    <3>3. holeNext'[punchPre'] = punchAt' /\ punchPre' \in holes' \cup {Head}
      BY <2>1, <3>1
    <3>4. QED
      BY <1>2, <2>1, <2>2, <3>1, <3>2, <3>3 DEF PunchStands
  <2>5. QED
    BY <1>4, <2>1, <2>2, <2>3, <2>4
<1>5. CASE PunchSend
  <2>1. /\ punch = "send" /\ punchAt \in holes
        /\ punchPre \in holes \cup {Head} /\ holeNext[punchPre] = punchAt
    BY <1>3, <1>5 DEF PunchSend, PunchStands
  <2>2. holesLocked
    BY <1>3, <2>1 DEF PunchStands
  <2>3. ASSUME NEW p, NEW n, PunchOn(p, n), n # NULL
        PROVE  punch' = "send" /\ punchPre' = p /\ punchAt' = n /\ holesLocked'
    <3>1. punch' = "send" /\ punchPre' = p /\ punchAt' = n /\ holesLocked' = holesLocked
      BY <2>3, Zenon DEF PunchOn
    <3>2. holesLocked'
      BY <2>2, <3>1, Zenon
    <3>3. QED
      BY <3>1, <3>2
  <2>4. ASSUME NEW p, NEW n, PunchOn(p, n), n = NULL
        PROVE  punch' = "asleep"
    BY <2>4, Zenon DEF PunchOn
  <2>5. CASE holeLeft[punchAt] > 1
    <3>1. /\ UNCHANGED <<holeNext, holeReqCur, holes, holeRadom>>
          /\ PunchOn(punchAt, holeNext[punchAt])
      BY <1>5, <2>5, Zenon DEF PunchSend
    <3>2. HoleLinked' /\ HoleReached'
      BY <1>3, <3>1 DEF HoleLinked, HoleReached, HolesQueued
    <3>3. PunchStands'
      <4>1. CASE holeNext[punchAt] = NULL
        BY <1>2, <2>4, <3>1, <4>1 DEF PunchStands
      <4>2. CASE holeNext[punchAt] # NULL
        <5>1. /\ punch' = "send" /\ punchPre' = punchAt /\ punchAt' = holeNext[punchAt]
              /\ holesLocked'
          BY <2>3, <3>1, <4>2
        <5>2. QED
          BY <1>2, <2>1, <3>1, <5>1 DEF PunchStands
      <4>3. QED
        BY <4>1, <4>2
    <3>4. QED
      BY <3>1, <3>2, <3>3
  <2>6. CASE ~(holeLeft[punchAt] > 1)
    <3>1. HoleRemoved(punchPre, punchAt) /\ PunchOn(punchPre, holeNext[punchAt])
      BY <1>5, <2>6, Zenon DEF PunchSend
    <3>2. /\ HoleLinked' /\ HoleReached'
          /\ punchAt # punchPre /\ holeNext'[punchPre] = holeNext[punchAt]
      BY <1>3, <2>1, <3>1, HoleOut
    <3>3. /\ holes' = holes \ {punchAt}
          /\ \A m \in HoleNodes \ {punchAt} : holeRadom'[m] = holeRadom[m]
      BY <1>1, <3>1 DEF HoleRemoved
    <3>4. \A m \in holes' : m \in HoleNodes \ {punchAt}
      BY <1>0, <3>3
    <3>5. PunchStands'
      <4>1. CASE holeNext[punchAt] = NULL
        BY <1>2, <2>4, <3>1, <4>1 DEF PunchStands
      <4>2. CASE holeNext[punchAt] # NULL
        <5>1. /\ punch' = "send" /\ punchPre' = punchPre /\ punchAt' = holeNext[punchAt]
              /\ holesLocked'
          BY <2>3, <3>1, <4>2
        <5>2. punchPre' \in holes' \cup {Head}
          BY <2>1, <3>2, <3>3, <5>1
        <5>3. QED
          BY <1>2, <3>2, <5>1, <5>2 DEF PunchStands
      <4>3. QED
        BY <4>1, <4>2
    <3>6. QED
      BY <3>2, <3>3, <3>4, <3>5
  <2>7. QED
    BY <2>5, <2>6
<1>6. QED
  BY <1>4, <1>5 DEF Punch
\* The listener's steps under the mutex.
LEMMA HolesListened ==
    ASSUME TypeOK, HolesInv, HolePop \/ MovePop \/ ClientAnnounced \/ MoveInsert \/ Moved,
           Served' \subseteq Served \cup {NULL}, ~MeetOnHoles, ~MeetOnHoles'
    PROVE  HolesInv'
<1> USE DEF AtMove
<1>0. NULL \notin Radoms /\ holes \subseteq HoleNodes /\ asked \in Radoms \cup {NULL}
  BY SessionsAssumption DEF TypeOK, HoleTypes, LocalTypes
<1>1. holeRadom \in [HoleNodes -> Radoms \cup {NULL}]
  BY DEF TypeOK, HoleTypes
<1>2. HoleLinked /\ HoleReached /\ PunchStands /\ HoleRequests /\ HoleTaken
  BY DEF HolesInv
<1>3. at' \in {"holePop", "movePop"} => pre' = holeNext'[Head]
  BY DEF MeetOnHoles
<1>4. punch = "lock" => punchPre = Head
  BY <1>2 DEF PunchStands
<1>5. punch \in {"lock", "send"} /\ UNCHANGED punchVars =>
         /\ punch' = "lock" => punchPre' = Head /\ punchAt' = holeNext'[Head]
  BY <1>4 DEF MeetOnHoles, punchVars
<1>6. ASSUME ~holesLocked, UNCHANGED punchVars PROVE PunchStands'
  <2>1. punch # "send"
    <3>1. punch = "send" => holesLocked
      BY <1>2, Zenon DEF PunchStands
    <3>2. QED
      BY <1>6, <3>1, Zenon
  <2>2. punch' # "send" /\ (punch' = "lock" => punchPre' = Head /\ punchAt' = holeNext'[Head])
    BY <1>5, <1>6, <2>1 DEF punchVars
  <2>3. QED
    BY <1>3, <2>2 DEF PunchStands
<1>7. CASE HolePop \/ MovePop
  <2>1. /\ \/ at = "holePop" /\ at' = "answer"
           \/ at = "movePop" /\ at' = "moveInsert"
        /\ asked' = asked /\ again' = again /\ PopHole(pre, asked)
    BY <1>7 DEF HolePop, MovePop
  <2>2. pre = holeNext[Head]
    BY <1>2, <2>1 DEF PunchStands
  <2>3. /\ HoleLinked' /\ HoleReached'
        /\ holes' \subseteq holes /\ \A n \in holes' : holeRadom'[n] = holeRadom[n]
        /\ \A n \in holes' : holeRadom'[n] = asked => asked \in again
    BY <1>2, <2>1, <2>2, HolePopped
  <2>4. HoleRequests'
    BY <1>0, <1>2, <2>1, <2>3, ClientsFewer
  <2>5. ~holesLocked /\ UNCHANGED punchVars
    BY <2>1, Zenon DEF PopHole
  <2>6. PunchStands'
    BY <1>6, <2>5
  <2>7. at' = "moveInsert" => asked \in Radoms
    BY <2>1 DEF TypeOK, LocalTypes
  <2>8. at' = "moveInsert" /\ asked \in Served' => asked \in again
    BY <1>0, <1>2, <2>1, <2>7 DEF HoleTaken
  <2>9. HoleTaken'
    BY <2>1, <2>3, <2>8 DEF HoleTaken
  <2>10. QED
    BY <2>3, <2>4, <2>6, <2>9 DEF HolesInv
<1>8. CASE ClientAnnounced
  <2>1. PICK n \in HoleNodes \ holes, r \in Radoms, a \in Addresses :
           /\ InsertHole(n, r, a)
           /\ again' = IF r \in Served \cup {holeRadom[m] : m \in holes}
                       THEN again \cup {r} ELSE again
    BY <1>8 DEF ClientAnnounced
  <2>2. HoleLinked' /\ HoleReached'
    BY <1>2, <2>1, HoleIn
  <2>3. /\ holes' = holes \cup {n} /\ holeRadom'[n] = r
        /\ \A m \in HoleNodes \ {n} : holeRadom'[m] = holeRadom[m]
    BY <1>1, <2>1 DEF InsertHole
  <2>4. \A m \in holes : m \in HoleNodes \ {n}
    BY <1>0
  <2>5. /\ again \subseteq again'
        /\ r \in Served => r \in again'
        /\ \A m \in holes : holeRadom[m] = r => r \in again'
    BY <2>1
  <2>6. ~holesLocked /\ UNCHANGED punchVars
    BY <2>1, Zenon DEF InsertHole
  <2>7. PunchStands'
    BY <1>6, <2>6
  <2>8. HoleRequests'
    <3>1. \A m \in holes' : holeRadom'[m] \in Radoms
      BY <1>2, <2>3, <2>4 DEF HoleRequests
    <3>2. ASSUME NEW l \in holes', NEW m \in holes', holeRadom'[l] = holeRadom'[m],
                 holeRadom'[l] \notin again'
          PROVE  l = m
      BY <1>2, <2>3, <2>4, <2>5, <3>2 DEF HoleRequests
    <3>3. ASSUME NEW m \in holes', holeRadom'[m] \in Served' PROVE holeRadom'[m] \in again'
      <4>1. holeRadom'[m] \in Served
        BY <1>0, <3>1, <3>3
      <4>2. QED
        BY <1>2, <2>3, <2>4, <2>5, <4>1 DEF HoleRequests
    <3>4. QED
      BY <3>1, <3>2, <3>3 DEF HoleRequests
  <2>9. HoleTaken'
    BY <1>8 DEF ClientAnnounced, Message, HoleTaken
  <2>10. QED
    BY <2>2, <2>7, <2>8, <2>9 DEF HolesInv
<1>9. CASE MoveInsert
  <2>1. /\ at = "moveInsert" /\ at' = "moved" /\ asked' = asked /\ again' = again
        /\ \E n \in HoleNodes \ holes : InsertHole(n, asked, addr)
    BY <1>9 DEF MoveInsert, localVars
  <2>2. PICK n \in HoleNodes \ holes : InsertHole(n, asked, addr)
    BY <2>1
  <2>3. HoleLinked' /\ HoleReached'
    BY <1>2, <2>2, HoleIn
  <2>4. /\ holes' = holes \cup {n} /\ holeRadom'[n] = asked
        /\ \A m \in HoleNodes \ {n} : holeRadom'[m] = holeRadom[m]
    BY <1>1, <2>2 DEF InsertHole
  <2>5. \A m \in holes : m \in HoleNodes \ {n}
    BY <1>0
  <2>6. asked \in Radoms
    BY <2>1 DEF TypeOK, LocalTypes
  <2>7. /\ \A m \in holes : holeRadom[m] = asked => asked \in again
        /\ asked \in Served' => asked \in again
    BY <1>0, <1>2, <2>1, <2>6 DEF HoleTaken
  <2>8. ~holesLocked /\ UNCHANGED punchVars
    BY <2>2, Zenon DEF InsertHole
  <2>9. PunchStands'
    BY <1>6, <2>8
  <2>10. HoleRequests'
    <3>1. \A m \in holes' : holeRadom'[m] \in Radoms
      BY <1>2, <2>4, <2>5, <2>6 DEF HoleRequests
    <3>2. ASSUME NEW l \in holes', NEW m \in holes', holeRadom'[l] = holeRadom'[m],
                 holeRadom'[l] \notin again'
          PROVE  l = m
      BY <1>2, <2>1, <2>4, <2>5, <2>7, <3>2 DEF HoleRequests
    <3>3. ASSUME NEW m \in holes', holeRadom'[m] \in Served' PROVE holeRadom'[m] \in again'
      <4>1. holeRadom'[m] \in Served
        BY <1>0, <3>1, <3>3
      <4>2. QED
        BY <1>2, <2>1, <2>4, <2>5, <2>7, <3>3, <4>1 DEF HoleRequests
    <3>4. QED
      BY <3>1, <3>2, <3>3 DEF HoleRequests
  <2>11. HoleTaken'
    BY <2>1, <2>7 DEF HoleTaken
  <2>12. QED
    BY <2>3, <2>9, <2>10, <2>11 DEF HolesInv
<1>10. CASE Moved
  <2>1. /\ at = "moved" /\ at' = "idle" /\ again' = again
        /\ UNCHANGED <<holeNext, holeReqCur, holes, holeRadom, punchVars>>
    BY <1>10, Zenon DEF Moved, UnlockAgain, Return
  <2>2. HoleLinked' /\ HoleReached'
    BY <1>2, <2>1 DEF HoleLinked, HoleReached, HolesQueued
  <2>3. punch # "send"
    BY <2>1 DEF MeetOnHoles
  <2>4. punch' # "send" /\ (punch' = "lock" => punchPre' = Head /\ punchAt' = holeNext'[Head])
    BY <1>2, <2>1, <2>3 DEF punchVars, PunchStands
  <2>5. PunchStands'
    BY <1>3, <2>4 DEF PunchStands
  <2>6. HoleRequests'
    BY <1>0, <1>2, <2>1, ClientsFewer
  <2>7. HoleTaken'
    BY <2>1 DEF HoleTaken
  <2>8. QED
    BY <2>2, <2>5, <2>6, <2>7 DEF HolesInv
<1>11. QED
  BY <1>7, <1>8, <1>9, <1>10

\* The steps that leave the queue alone: that a client may be asked for, answered or
\* heard of in them takes nothing from what its requests promise.
LEMMA HolesElsewhere ==
    ASSUME TypeOK, Blank, HolesInv, Next, UNCHANGED holeVars, ~MeetOnHoles',
           ~(HolePop \/ MovePop \/ ClientAnnounced \/ MoveInsert \/ Moved)
    PROVE  HolesInv'
<1> USE DEF AtMove
<1>0. NULL \notin Radoms /\ holes \subseteq HoleNodes
  BY SessionsAssumption DEF TypeOK, HoleTypes
<1>1. UNCHANGED <<holeNext, holeReqCur, holes, holeRadom, holesLocked, punchVars>>
  BY DEF holeVars, punchVars
<1>2. HoleLinked /\ HoleReached /\ PunchStands /\ HoleRequests /\ HoleTaken
  BY DEF HolesInv
<1>3. HoleLinked' /\ HoleReached'
  BY <1>1, <1>2 DEF HoleLinked, HoleReached, HolesQueued
<1>4. PunchStands'
  <2>1. at' \in {"holePop", "movePop"} => pre' = holeNext'[Head]
    BY DEF MeetOnHoles
  <2>2. punch' = "lock" => punchPre' = Head /\ punchAt' = holeNext'[Head]
    BY <1>1, <1>2 DEF PunchStands, punchVars
  <2>3. punch' = "send" => punchPre' \in holes' \cup {Head} /\ holeNext'[punchPre'] = punchAt'
    BY <1>1, <1>2 DEF PunchStands, punchVars
  <2>4. punch' = "send" => holesLocked'
    <3>1. punch = "send" => holesLocked
      BY <1>2, Zenon DEF PunchStands
    <3>2. punch' = punch /\ holesLocked' = holesLocked
      BY <1>1, Zenon DEF punchVars
    <3>3. QED
      BY <3>1, <3>2, Zenon
  <2>5. QED
    BY <2>1, <2>2, <2>3, <2>4, Zenon DEF PunchStands
<1>5. CASE Answer
  <2>1. at = "answer" /\ at' = "idle" /\ again' = again
    BY <1>5 DEF Answer, Return, OnSessions
  <2>2. Served' \subseteq Served \cup {asked}
    BY <1>5, ServedStep
  <2>3. \A n \in holes : holeRadom[n] = asked => asked \in again
    BY <1>2, <2>1 DEF HoleTaken
  <2>4. HoleRequests'
    BY <1>1, <1>2, <2>1, <2>2, <2>3 DEF HoleRequests
  <2>5. HoleTaken'
    BY <2>1 DEF HoleTaken
  <2>6. QED
    BY <1>3, <1>4, <2>4, <2>5 DEF HolesInv
<1>6. CASE ~Answer
  <2>1. Served' \subseteq Served \cup {NULL}
    BY <1>6, ServedStep
  <2>2. again' = again
    <3>1. CASE Arrival
      BY <3>1 DEF Arrival, Handshake, SessionData, CloseSession, TurnClient, ClientSeen
    <3>2. CASE Handler
      BY <3>2 DEF Handler, Query, CreateFirst, CreateNext, First, Last, LinkSession, CreateNamed,
         GetSession, Relay, TurnPop, TurnPopTail, TurnPopUnlink, Answer, Close, TurnLast, TurnLink,
         TurnCur, OnSessions, OnTurn
    <3>3. CASE Threads
      BY <3>3 DEF Threads, listenerVars
    <3>4. QED
      BY <3>1, <3>2, <3>3 DEF Next
  <2>3. HoleRequests'
    BY <1>0, <1>1, <1>2, <2>1, <2>2, ClientsFewer
  <2>4. \A n \in holes : holeRadom[n] \in Served => holeRadom[n] \in again
    BY <1>2 DEF HoleRequests
  <2>5. CASE Query
    <3>1. at = "query" /\ asked' = asked
      BY <2>5 DEF Query
    <3>2. CASE at' = "answer"
      <4>1. asked \in Served
        BY <2>5, <3>1, <3>2 DEF Query, Served
      <4>2. \A n \in holes : holeRadom[n] = asked => asked \in again
        BY <2>4, <4>1
      <4>3. HoleTaken'
        BY <1>1, <2>2, <3>1, <3>2, <4>2 DEF HoleTaken
      <4>4. QED
        BY <1>3, <1>4, <2>3, <4>3 DEF HolesInv
    <3>3. CASE at' # "answer"
      <4>1. at' \in {"query", "create"}
        BY <2>5, <3>3 DEF Query
      <4>2. HoleTaken'
        BY <4>1 DEF HoleTaken
      <4>3. QED
        BY <1>3, <1>4, <2>3, <4>2 DEF HolesInv
    <3>4. QED
      BY <3>2, <3>3
  <2>6. CASE ClientSeen
    <3>1. at = "idle"
      BY <2>6 DEF ClientSeen, Message
    <3>2. CASE at' = "movePop"
      <4>1. PICK r \in Radoms, a \in Addresses :
                   \/ HoleMoved(r, a) /\ asked' = r
                   \/ ~HoleMoved(r, a) /\ UNCHANGED at
        BY <2>6 DEF ClientSeen
      <4>2. HoleMoved(r, a) /\ asked' = r
        BY <3>1, <3>2, <4>1
      <4>3. PICK n \in HolesQueued \ {Head} : holeRadom[n] = r
        BY <4>2 DEF HoleMoved
      <4>4. n \in holes
        BY <1>2, <4>3, HolesBehindHead
      <4>5. r \in Served' => r \in again
        BY <1>0, <2>1, <2>4, <4>3, <4>4
      <4>6. HoleTaken'
        BY <2>2, <3>2, <4>2, <4>5 DEF HoleTaken
      <4>7. QED
        BY <1>3, <1>4, <2>3, <4>6 DEF HolesInv
    <3>3. CASE at' # "movePop"
      <4>1. at' = "idle"
        BY <2>6, <3>1, <3>3 DEF ClientSeen
      <4>2. HoleTaken'
        BY <4>1 DEF HoleTaken
      <4>3. QED
        BY <1>3, <1>4, <2>3, <4>2 DEF HolesInv
    <3>4. QED
      BY <3>2, <3>3
  <2>7. CASE ~Query /\ ~ClientSeen
    <3>1. \/ at' \notin AtMove \cup {"answer"}
          \/ at' = at /\ asked' = asked
      <4>1. CASE Arrival
        BY <2>7, <4>1 DEF Arrival, Handshake, SessionData, CloseSession, TurnClient
      <4>2. CASE Handler
        <5>1. CASE CreateFirst \/ CreateNext \/ First \/ Last \/ LinkSession \/ CreateNamed
          BY <5>1 DEF CreateFirst, CreateNext, First, Last, LinkSession, CreateNamed
        <5>2. CASE GetSession \/ Close
          BY <5>2 DEF GetSession, Close, Return
        <5>3. CASE Relay \/ TurnPop \/ TurnPopTail \/ TurnPopUnlink
          BY <5>3 DEF Relay, TurnPop, TurnPopTail, TurnPopUnlink
        <5>4. CASE TurnLast \/ TurnLink \/ TurnCur
          BY <5>4 DEF TurnLast, TurnLink, TurnCur, Return
        <5>5. QED
          BY <1>6, <2>7, <4>2, <5>1, <5>2, <5>3, <5>4 DEF Handler
      <4>3. CASE Threads
        BY <4>3 DEF Threads, listenerVars, localVars
      <4>4. QED
        BY <4>1, <4>2, <4>3 DEF Next
    <3>2. HoleTaken'
      <4>1. CASE at' \notin AtMove \cup {"answer"}
        BY <4>1 DEF HoleTaken
      <4>2. CASE at' = at /\ asked' = asked
        <5>1. at \in AtMove => asked \in Radoms
          BY DEF TypeOK, LocalTypes
        <5>2. QED
          BY <1>0, <1>1, <1>2, <2>1, <2>2, <4>2, <5>1 DEF HoleTaken
      <4>3. QED
        BY <3>1, <4>1, <4>2
    <3>3. QED
      BY <1>3, <1>4, <2>3, <3>2 DEF HolesInv
  <2>8. QED
    BY <2>5, <2>6, <2>7
<1>7. QED
  BY <1>5, <1>6

LEMMA HolesStep ==
    ASSUME TypeOK, Blank, HolesInv, Next, ~MeetOnHoles, ~MeetOnHoles'
    PROVE  HolesInv'
<1>1. CASE HolePop \/ MovePop \/ ClientAnnounced \/ MoveInsert \/ Moved
  <2>0. at # "answer"
    BY <1>1 DEF HolePop, MovePop, ClientAnnounced, MoveInsert, Moved, Message
  <2>1. ~Answer
    BY <2>0 DEF Answer
  <2>2. /\ Answer => Served' \subseteq Served \cup {asked}
        /\ ~Answer => Served' \subseteq Served \cup {NULL}
    BY ServedStep
  <2>3. Served' \subseteq Served \cup {NULL}
    BY <2>1, <2>2, Zenon
  <2>4. QED
    BY <1>1, <2>3, HolesListened
<1>2. CASE Punch /\ UNCHANGED <<sessionVars, turnQueueVars, listenerVars>>
  <2>1. /\ at' = at /\ asked' = asked /\ again' = again
        /\ Served' = Served /\ NULL \notin Radoms
    BY <1>2, SessionsAssumption DEF listenerVars, localVars, sessionVars, Served
  <2>2. /\ HoleLinked' /\ HoleReached' /\ PunchStands'
        /\ holes' \subseteq holes /\ \A n \in holes' : holeRadom'[n] = holeRadom[n]
    BY <1>2, <2>1, HolesPunched
  <2>3. HoleRequests'
    BY <2>1, <2>2, ClientsFewer DEF HolesInv
  <2>4. HoleTaken'
    BY <2>1, <2>2 DEF HolesInv, HoleTaken
  <2>5. QED
    BY <2>2, <2>3, <2>4 DEF HolesInv
<1>3. CASE /\ UNCHANGED holeVars
           /\ ~(HolePop \/ MovePop \/ ClientAnnounced \/ MoveInsert \/ Moved)
  BY <1>3, HolesElsewhere
<1>4. CASE Punch
  <2>1. CASE Arrival \/ Handler
    <3>1. UNCHANGED holeVars \/ HolePop \/ MovePop \/ ClientAnnounced \/ MoveInsert \/ Moved
      BY <2>1 DEF Arrival, Handshake, SessionData, CloseSession, TurnClient, ClientSeen,
         Handler, Query, CreateFirst, CreateNext, First, Last, LinkSession, CreateNamed,
         GetSession, Relay, TurnPop, TurnPopTail, TurnPopUnlink, Answer, Close, TurnLast, TurnLink,
         TurnCur, OnSessions, OnTurn
    <3>2. QED
      BY <1>1, <1>3, <3>1
  <2>2. QED
    BY <1>1, <1>2, <1>3, <2>1 DEF Next, Threads
<1>5. QED
  BY <1>1, <1>3, <1>4, HoleSteps
----------------------------------------------------------------------------
(***************************************************************************)
(* The invariant of the specification.                                     *)
(***************************************************************************)
LEMMA InitInv == Init => IInv
<1> SUFFICES ASSUME Init PROVE IInv
  OBVIOUS
<1> USE DEF AtSession, AtRelay, AtCreate, AtTurnPop, AtTurnPut, AtMove
<1>1. TypeOK
  BY InitTypes
<1>2. /\ at = "idle" /\ timer = "asleep" /\ flush = "asleep" /\ punch = "asleep"
      /\ raced = {} /\ again = {} /\ sessions = {} /\ turnReqs = {} /\ holes = {}
      /\ quit = {} /\ sessionl = NULL /\ turnReqCur = Head /\ holeReqCur = Head
      /\ sessionNext = [s \in Sessions |-> NULL] /\ radom = [s \in Sessions |-> NULL]
      /\ turnNext = [n \in TurnNodes \cup {Head} |-> NULL]
      /\ holeNext = [n \in HoleNodes \cup {Head} |-> NULL]
  <2>1. /\ flush = "asleep" /\ turnReqs = {} /\ turnReqCur = Head
        /\ turnNext = [n \in TurnNodes \cup {Head} |-> NULL]
    BY Zenon DEF Init, TurnQueueInit
  <2>2. /\ punch = "asleep" /\ holes = {} /\ holeReqCur = Head
        /\ holeNext = [n \in HoleNodes \cup {Head} |-> NULL]
    BY Zenon DEF Init, TraversalInit
  <2>3. /\ timer = "asleep" /\ sessions = {} /\ quit = {} /\ sessionl = NULL
        /\ sessionNext = [s \in Sessions |-> NULL] /\ radom = [s \in Sessions |-> NULL]
    BY Zenon DEF Init, SessionInit
  <2>4. at = "idle" /\ raced = {} /\ again = {}
    BY Zenon DEF Init
  <2>5. QED
    BY <2>1, <2>2, <2>3, <2>4
<1>3. MetIsKnown
  BY <1>2 DEF MetIsKnown, Met, MeetOnSessions, MeetOnTurn, MeetOnHoles
<1>4. Listed = {}
  <2>1. sessionNext \in [Sessions -> Sessions \cup {NULL}] /\ NULL \notin Sessions
    BY <1>2, SessionsAssumption
  <2>2. QED
    BY <1>2, <2>1, ChainStep DEF Listed
<1>5. SessionsInv
  <2>1. Unused /\ Linked /\ Reached /\ Apart
    BY <1>2, <1>4, SessionsAssumption DEF Unused, Linked, Reached, Apart, Hidden, Freeing
  <2>2. NewSession /\ TimerStands /\ ListenerStands
    BY <1>2 DEF NewSession, TimerStands, ListenerStands
  <2>3. QED
    BY <2>1, <2>2 DEF SessionsInv
<1>6. ClientsInv /\ Blank
  BY <1>2, <1>4 DEF ClientsInv, Single, LookedUp, Blank
<1>7. TurnInv
  <2>1. TurnLinked /\ TurnReached
    BY <1>2 DEF TurnLinked, TurnReached, TurnHidden, TurnCells
  <2>2. FlushStands /\ PopStands /\ TurnTail
    BY <1>2 DEF FlushStands, PopStands, TurnTail, TurnHidden
  <2>3. QED
    BY <2>1, <2>2 DEF TurnInv
<1>8. HolesInv
  <2>1. HoleLinked /\ HoleReached
    BY <1>2 DEF HoleLinked, HoleReached, HoleCells
  <2>2. PunchStands /\ HoleRequests /\ HoleTaken
    BY <1>2 DEF PunchStands, HoleRequests, HoleTaken
  <2>3. QED
    BY <2>1, <2>2 DEF HolesInv
<1>9. QED
  BY <1>1, <1>3, <1>5, <1>6, <1>7, <1>8 DEF IInv

LEMMA InvStep == IInv /\ [Next]_vars => IInv'
<1>1. ASSUME IInv, Next PROVE IInv'
  <2>1. TypeOK /\ TypeOK' /\ Blank /\ Blank'
    BY <1>1, TypesStep, BlankStep DEF IInv
  <2>2. raced' = raced \cup Met'
    BY <1>1 DEF Next
  <2>3. MetIsKnown'
    BY <2>2 DEF MetIsKnown
  <2>4. ASSUME "sessions" \notin raced' PROVE SessionsInv' /\ ClientsInv'
    <3>1. "sessions" \notin raced /\ "sessions" \notin Met
      BY <1>1, <2>2, <2>4 DEF IInv, MetIsKnown
    <3>2. ~MeetOnSessions
      BY <3>1 DEF Met
    <3>3. SessionsInv /\ ClientsInv
      BY <1>1, <3>1 DEF IInv
    <3>4. QED
      BY <1>1, <2>1, <3>2, <3>3, SessionsStep, ClientsStep
  <2>5. ASSUME "turn" \notin raced' PROVE TurnInv'
    <3>1. "turn" \notin raced /\ "turn" \notin Met
      BY <1>1, <2>2, <2>5 DEF IInv, MetIsKnown
    <3>2. ~MeetOnTurn
      BY <3>1 DEF Met
    <3>3. TurnInv
      BY <1>1, <3>1 DEF IInv
    <3>4. QED
      BY <1>1, <2>1, <3>2, <3>3, TurnStep
  <2>6. ASSUME "holes" \notin raced' PROVE HolesInv'
    <3>1. "holes" \notin raced /\ "holes" \notin Met /\ "holes" \notin Met'
      BY <1>1, <2>2, <2>6 DEF IInv, MetIsKnown
    <3>2. ~MeetOnHoles /\ ~MeetOnHoles'
      BY <3>1 DEF Met
    <3>3. HolesInv
      BY <1>1, <3>1 DEF IInv
    <3>4. QED
      BY <1>1, <2>1, <3>2, <3>3, HolesStep
  <2>7. QED
    BY <2>1, <2>3, <2>4, <2>5, <2>6 DEF IInv
<1>2. ASSUME IInv, UNCHANGED vars PROVE IInv'
  <2>1. /\ UNCHANGED <<sessionVars, turnQueueVars, holeVars>>
        /\ UNCHANGED <<listenerVars, raced>>
    BY <1>2 DEF vars
  <2>2. TypeOK'
    BY <1>2, TypesStep DEF IInv
  <2>3. UNCHANGED <<sessionl, sessionNext, radom, quit, sessions, scan>>
    BY <2>1 DEF sessionVars, scan
  <2>4. UNCHANGED <<at, asked, sid, here, pre, new, addr, messages, again>>
    BY <2>1 DEF listenerVars, localVars
  <2>5. MetIsKnown' /\ Blank'
    <3>1. MeetOnSessions' = MeetOnSessions
      BY <2>3, <2>4, Zenon DEF MeetOnSessions, scan
    <3>2. MeetOnTurn' = MeetOnTurn
      BY <2>1, <2>4, Zenon DEF MeetOnTurn, turnQueueVars
    <3>3. MeetOnHoles' = MeetOnHoles
      BY <2>1, <2>4, Zenon DEF MeetOnHoles, holeVars
    <3>4. Met' = Met
      BY <3>1, <3>2, <3>3, Zenon DEF Met
    <3>5. QED
      BY <1>2, <2>1, <2>3, <3>4 DEF IInv, MetIsKnown, Blank
  <2>6. SessionsInv /\ ClientsInv => SessionsInv' /\ ClientsInv'
    <3>1. ASSUME SessionsInv PROVE SessionsInv'
      BY <2>3, <2>4, <3>1 DEF scan, SessionsInv, Unused, Linked, Reached, Apart, NewSession,
         TimerStands, ListenerStands, Listed, Hidden, Freeing
    <3>2. ASSUME ClientsInv PROVE ClientsInv'
      BY <2>3, <2>4, <3>2 DEF ClientsInv, Single, LookedUp, Listed
    <3>3. QED
      BY <3>1, <3>2
  <2>7. TurnInv => TurnInv'
    BY <2>1, <2>4 DEF turnQueueVars, TurnInv, TurnLinked, TurnReached, FlushStands, PopStands,
       TurnTail, TurnQueued, TurnHidden
  <2>8. HolesInv => HolesInv'
    <3>1. ASSUME HolesInv PROVE HoleLinked' /\ HoleReached' /\ HoleRequests' /\ HoleTaken'
      BY <2>1, <2>3, <2>4, <3>1 DEF holeVars, HolesInv, HoleLinked, HoleReached, HoleRequests,
         HoleTaken, HolesQueued, Served
    <3>2. PunchStands => PunchStands'
      BY <2>1, <2>4, Zenon DEF holeVars, PunchStands
    <3>3. QED
      BY <3>1, <3>2 DEF HolesInv
  <2>9. raced' = raced
    BY <2>1
  <2>10. QED
    BY <1>2, <2>2, <2>5, <2>6, <2>7, <2>8, <2>9 DEF IInv
<1>3. QED
  BY <1>1, <1>2

LEMMA AlwaysInv == Spec => []IInv
<1>1. QED
  BY InitInv, InvStep, PTL DEF Spec

\* While the threads have not met on a list, none of them is about to use a session or
\* a request that another has freed, however the three interleave.
THEOREM Untouched == Spec => []FreedIsUntouched
<1>1. IInv => FreedIsUntouched
  <2> SUFFICES ASSUME IInv PROVE FreedIsUntouched
    OBVIOUS
  <2> USE DEF AtSession, AtRelay, AtCreate, AtTurnPop, AtTurnPut, AtMove
  <2>1. "sessions" \notin raced =>
          /\ at \in {"query", "named", "get", "close"} => here \in sessions \cup {NULL}
          /\ at \in {"last", "link", "answer"} => here \in sessions
          /\ timer # "asleep" => {before, current} \subseteq sessions
    BY DEF IInv, SessionsInv, TimerStands, ListenerStands
  <2>2. ASSUME "turn" \notin raced
        PROVE  /\ at = "turnPop" => new \in turnReqs \cup {NULL}
               /\ at \in {"turnPopTail", "turnPopUnlink"} => new \in turnReqs
               /\ at \in {"turnPopUnlink", "turnLink"} => pre \in turnReqs \cup {Head}
               /\ flush # "asleep" => {flushPre, flushAt} \subseteq turnReqs \cup {Head}
    <3>1. /\ NULL \notin TurnCells /\ Head \in TurnCells /\ TurnNodes \subseteq TurnCells
          /\ turnReqs \subseteq TurnNodes
      BY TurnNodesFacts DEF IInv
    <3>2. TurnLinked /\ FlushStands /\ PopStands /\ TurnTail
      BY <2>2 DEF IInv, TurnInv
    <3>3. \A n \in TurnCells : turnNext[n] \in turnReqs \cup {NULL}
      BY <3>2 DEF TurnLinked
    <3>4. /\ at \in AtTurnPop => pre \in turnReqs \cup {Head} /\ new \in turnReqs \cup {NULL}
      BY <3>1, <3>2, <3>3 DEF PopStands
    <3>5. /\ at \in {"turnPopTail", "turnPopUnlink"} => new \in TurnNodes
          /\ flush # "asleep" => flushAt \in TurnNodes
      BY DEF IInv, TypeOK, TurnTypes, LocalTypes
    <3>6. at = "turnLink" => pre \in turnReqs \cup {Head}
      BY <3>2 DEF PopStands, TurnTail
    <3>7. flush # "asleep" => flushPre \in turnReqs \cup {Head} /\ flushAt \in turnReqs
      BY <3>1, <3>2, <3>3, <3>5 DEF FlushStands
    <3>8. QED
      BY <3>1, <3>4, <3>5, <3>6, <3>7
  <2>3. ASSUME "holes" \notin raced
        PROVE  /\ at \in {"holePop", "movePop"} => pre \in holes \cup {NULL}
               /\ punch # "asleep" => {punchPre, punchAt} \subseteq holes \cup {Head}
    <3>1. /\ NULL \notin HoleCells /\ Head \in HoleCells /\ HoleNodes \subseteq HoleCells
          /\ holes \subseteq HoleNodes
      BY HoleNodesFacts DEF IInv
    <3>2. HoleLinked /\ PunchStands
      BY <2>3 DEF IInv, HolesInv
    <3>3. \A n \in HoleCells : holeNext[n] \in holes \cup {NULL}
      BY <3>2 DEF HoleLinked
    <3>4. punch # "asleep" => punch \in {"lock", "send"} /\ punchAt \in HoleNodes
      BY DEF IInv, TypeOK, HoleTypes
    <3>5. punch # "asleep" => punchPre \in holes \cup {Head} /\ punchAt = holeNext[punchPre]
      BY <3>2, <3>4 DEF PunchStands
    <3>6. at \in {"holePop", "movePop"} => pre = holeNext[Head]
      BY <3>2 DEF PunchStands
    <3>7. QED
      BY <3>1, <3>3, <3>4, <3>5, <3>6
  <2>4. QED
    BY <2>1, <2>2, <2>3 DEF FreedIsUntouched
<1>2. QED
  BY <1>1, AlwaysInv, PTL

\* While the threads have not met on a list, what is put in it stays in it until it is
\* taken out: no assignment to a next pointer cuts off the rest of the list.
THEOREM NothingLost == Spec => []NothingIsLost
<1>1. IInv => NothingIsLost
  <2> SUFFICES ASSUME IInv PROVE NothingIsLost
    OBVIOUS
  <2> USE DEF AtSession, AtRelay, AtCreate, AtTurnPop, AtTurnPut, AtMove
  <2>1. "sessions" \notin raced => SessionsKept(Created)
    BY DEF IInv, SessionsInv, Reached, Hidden, Freeing, Created, SessionsKept
  <2>2. ASSUME "turn" \notin raced
        PROVE  TurnReqsKept(IF at \in {"turnLast", "turnLink"} THEN new ELSE NULL,
                            at \in {"turnCur", "turnPopUnlink"})
    <3>1. TurnLinked /\ TurnReached /\ TurnTail
      BY <2>2 DEF IInv, TurnInv
    <3>2. turnReqs \subseteq TurnQueued \cup {IF at \in {"turnLast", "turnLink"} THEN new ELSE NULL}
      BY <3>1 DEF TurnReached, TurnHidden
    <3>3. Head \in TurnQueued
      <4>1. /\ NULL \notin TurnCells /\ Head \in TurnCells
            /\ turnNext \in [TurnCells -> TurnCells \cup {NULL}]
        BY TurnNodesFacts DEF IInv
      <4>2. QED
        BY <4>1, ChainHolds DEF TurnQueued
    <3>4. turnReqCur \in TurnQueued
      BY <3>1, <3>3 DEF TurnTail, TurnReached
    <3>5. at \notin {"turnCur", "turnPopUnlink"} /\ flush \notin {"tail", "unlink"} =>
            turnNext[turnReqCur] = NULL
      BY <3>1 DEF TurnTail
    <3>6. QED
      BY <3>2, <3>4, <3>5 DEF TurnReqsKept
  <2>3. ASSUME "holes" \notin raced PROVE HolesKept
    <3>1. HoleLinked /\ HoleReached
      BY <2>3 DEF IInv, HolesInv
    <3>2. Head \in HolesQueued
      BY <3>1, HolesBehindHead DEF IInv
    <3>3. QED
      BY <3>1, <3>2 DEF HoleLinked, HoleReached, HolesKept
  <2>4. QED
    BY <2>1, <2>2, <2>3 DEF NothingIsLost
<1>2. QED
  BY <1>1, AlwaysInv, PTL

\* However often its handshake comes, and whatever the timer removes meanwhile, a client
\* has one session in the list.
THEOREM OneEach == Spec => []OneSessionEach
<1>1. IInv => OneSessionEach
  BY DEF IInv, ClientsInv, Single, OneSessionEach
<1>2. QED
  BY <1>1, AlwaysInv, PTL

\* A client that has its session is in the platform's queue no more, unless the platform
\* announced it twice or late: the camera does not go on opening holes for it.
THEOREM Stops == Spec => []HolesStop
<1>1. IInv => HolesStop
  <2>1. ASSUME IInv, raced = {} PROVE \A n \in holes : holeRadom[n] \notin Served \ again
    BY <2>1 DEF IInv, HolesInv, HoleRequests
  <2>2. QED
    BY <2>1 DEF HolesStop
<1>2. QED
  BY <1>1, AlwaysInv, PTL
============================================================================
