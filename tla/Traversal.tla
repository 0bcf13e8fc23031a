----------------------------- MODULE Traversal -----------------------------
(***************************************************************************)
(* The queue of clients that wait for the camera to open a hole in its     *)
(* router (src/rudpa/traversal.c).  TraversalThread sends to each again    *)
(* and again until its handshake comes or its time is up; the listener     *)
(* puts clients in and takes them out, under a mutex.                      *)
(*                                                                         *)
(* The listener's sections under the mutex are a step each.  The mutex is  *)
(* a normal one: unlocking it releases it, whoever holds it.               *)
(***************************************************************************)
EXTENDS Chains

CONSTANTS
    HoleNodes,      \* bound: the requests that can be allocated at a time
    Addresses,      \* the addresses a client can be seen to have
    HoleTTL         \* the rounds a client is sent to: 10 in the code

ASSUME HoleNodesAssumption == HoleNodes \cap {NULL, Head} = {}
ASSUME HoleTTLAssumption == HoleTTL \in Nat \ {0}

VARIABLES
    holeNext,       \* pNext
    holeReqCur,     \* m_pReqCur
    holes,          \* the allocated ones
    holeRadom,      \* random
    holeAddr,       \* clientIp and clientPort
    holeLeft,       \* TTL
    holesLocked,    \* TraversalThread holds m_Traversal_Reqs_mutex
    punch,          \* where TraversalThread is
    punchPre,       \* pPre
    punchAt         \* pTra

holeVars == <<holeNext, holeReqCur, holes, holeRadom, holeAddr, holeLeft, holesLocked,
              punch, punchPre, punchAt>>
punchVars == <<punch, punchPre, punchAt>>

TraversalInit ==
    /\ holeNext = [n \in HoleNodes \cup {Head} |-> NULL]
    /\ holeReqCur = Head
    /\ holes = {}
    /\ holeRadom = [n \in HoleNodes |-> NULL]
    /\ holeAddr = [n \in HoleNodes |-> NULL]
    /\ holeLeft = [n \in HoleNodes |-> 0]
    /\ holesLocked = FALSE
    /\ punch = "asleep" /\ punchPre = NULL /\ punchAt = NULL

\* Request n is unlinked from the one before it and freed.
HoleRemoved(pre, n) ==
    /\ holeNext' = [holeNext EXCEPT ![pre] = holeNext[n], ![n] = NULL]
    /\ holeReqCur' = IF holeReqCur = n THEN pre ELSE holeReqCur
    /\ holes' = holes \ {n}
    /\ holeRadom' = [holeRadom EXCEPT ![n] = NULL]
    /\ holeAddr' = [holeAddr EXCEPT ![n] = NULL]
    /\ holeLeft' = [holeLeft EXCEPT ![n] = 0]

HolesQueued == Chain(holeNext, Head)

----------------------------------------------------------------------------
\* TraversalThread.  The first request is read before the mutex is locked.
PunchStart ==
    /\ punch = "asleep" /\ holeNext[Head] # NULL
    /\ punchPre' = Head /\ punchAt' = holeNext[Head]
    /\ punch' = "lock"
    /\ UNCHANGED <<holeNext, holeReqCur, holes, holeRadom, holeAddr, holeLeft, holesLocked>>

PunchLock ==
    /\ punch = "lock" /\ ~holesLocked
    /\ holesLocked' = TRUE
    /\ punch' = "send"
    /\ UNCHANGED <<holeNext, holeReqCur, holes, holeRadom, holeAddr, holeLeft,
                   punchPre, punchAt>>

PunchOn(pre, n) ==
    IF n = NULL
    THEN punch' = "asleep" /\ holesLocked' = FALSE /\ punchPre' = NULL /\ punchAt' = NULL
    ELSE punch' = "send" /\ UNCHANGED holesLocked /\ punchPre' = pre /\ punchAt' = n

PunchSend ==
    /\ punch = "send" /\ punchAt \in holes
    /\ IF holeLeft[punchAt] > 1
       THEN /\ holeLeft' = [holeLeft EXCEPT ![punchAt] = @ - 1]
            /\ PunchOn(punchAt, holeNext[punchAt])
            /\ UNCHANGED <<holeNext, holeReqCur, holes, holeRadom, holeAddr>>
       ELSE /\ HoleRemoved(punchPre, punchAt)
            /\ PunchOn(punchPre, holeNext[punchAt])

Punch == PunchStart \/ PunchLock \/ PunchSend

----------------------------------------------------------------------------
\* TraversalInsertReq.
InsertHole(n, r, a) ==
    /\ ~holesLocked
    /\ holeNext' = [holeNext EXCEPT ![holeReqCur] = n]
    /\ holeReqCur' = n
    /\ holes' = holes \cup {n}
    /\ holeRadom' = [holeRadom EXCEPT ![n] = r]
    /\ holeAddr' = [holeAddr EXCEPT ![n] = a]
    /\ holeLeft' = [holeLeft EXCEPT ![n] = HoleTTL]
    /\ UNCHANGED <<holesLocked, punchVars>>

\* A request is the first of its client that a walk from node first comes to.
FirstOf(n, first, r) ==
    /\ n \in Chain(holeNext, first) \cap holes /\ holeRadom[n] = r
    /\ \A m \in Chain(holeNext, first) : n \in Chain(holeNext, m) => m = n \/ holeRadom[m] # r

\* A mistake for comparison: the first request is taken for the client's.
PopFirstHole(first, r) ==
    /\ ~holesLocked
    /\ \/ first \in holes /\ HoleRemoved(Head, first)
       \/ /\ first = NULL
          /\ UNCHANGED <<holeNext, holeReqCur, holes, holeRadom, holeAddr, holeLeft>>
    /\ UNCHANGED <<holesLocked, punchVars>>

\* TraversalPopReq, from the request it read first before it locked the mutex.
PopHole(first, r) ==
    /\ ~holesLocked
    /\ first \in holes \cup {NULL}
    /\ \/ \E n \in holes, pre \in holes \cup {Head} :
              FirstOf(n, first, r) /\ holeNext[pre] = n /\ HoleRemoved(pre, n)
       \/ /\ \A n \in holes : ~FirstOf(n, first, r)
          /\ UNCHANGED <<holeNext, holeReqCur, holes, holeRadom, holeAddr, holeLeft>>
    /\ UNCHANGED <<holesLocked, punchVars>>

\* The client has a request with another address than a.
HoleMoved(r, a) == \E n \in HolesQueued \ {Head} : holeRadom[n] = r /\ holeAddr[n] # a

\* pthread_mutex_unlock, of a mutex the listener has unlocked already.
UnlockAgain ==
    /\ holesLocked' = FALSE
    /\ UNCHANGED <<holeNext, holeReqCur, holes, holeRadom, holeAddr, holeLeft, punchVars>>

HolesKept ==
    /\ holes \subseteq HolesQueued
    /\ holeReqCur \in HolesQueued /\ holeNext[holeReqCur] = NULL
============================================================================
