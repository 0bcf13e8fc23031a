----------------------------- MODULE TurnQueue -----------------------------
(***************************************************************************)
(* The queue of clients that the turn server has announced (src/rudpa/     *)
(* turn.c): the listener puts them in and takes them out, and TurnThread   *)
(* removes those that have been in it for too long.  No lock.              *)
(***************************************************************************)
EXTENDS Chains

CONSTANTS
    TurnNodes,      \* bound: the requests that can be allocated at a time
    TurnTTL         \* the passes a request survives: 30 in the code

ASSUME TurnNodesAssumption == TurnNodes \cap {NULL, Head} = {}
ASSUME TurnTTLAssumption == TurnTTL \in Nat \ {0}

VARIABLES
    turnNext,       \* pNext
    turnReqCur,     \* m_pReqCur
    turnReqs,       \* the allocated ones
    turnRadom,      \* uiRadom
    turnLeft,       \* uiTTL
    flush,          \* where TurnThread is in TurnFlushReqs
    flushPre,       \* pPre
    flushAt         \* pTraval

turnQueueVars ==
    <<turnNext, turnReqCur, turnReqs, turnRadom, turnLeft, flush, flushPre, flushAt>>
flushVars == <<flush, flushPre, flushAt>>

TurnQueueInit ==
    /\ turnNext = [n \in TurnNodes \cup {Head} |-> NULL]
    /\ turnReqCur = Head
    /\ turnReqs = {}
    /\ turnRadom = [n \in TurnNodes |-> NULL]
    /\ turnLeft = [n \in TurnNodes |-> 0]
    /\ flush = "asleep" /\ flushPre = NULL /\ flushAt = NULL

\* What malloc returned is given back.
TurnForgotten(n) ==
    /\ turnReqs' = turnReqs \ {n}
    /\ turnRadom' = [turnRadom EXCEPT ![n] = NULL]
    /\ turnLeft' = [turnLeft EXCEPT ![n] = 0]

----------------------------------------------------------------------------
\* TurnFlushReqs, once a second.
FlushStart ==
    /\ flush = "asleep" /\ turnNext[Head] # NULL
    /\ flushPre' = Head /\ flushAt' = turnNext[Head]
    /\ flush' = "visit"
    /\ UNCHANGED <<turnNext, turnReqCur, turnReqs, turnRadom, turnLeft>>

FlushOn(pre, n) ==
    IF n = NULL THEN flush' = "asleep" /\ flushPre' = NULL /\ flushAt' = NULL
                ELSE flush' = "visit" /\ flushPre' = pre /\ flushAt' = n

FlushVisit ==
    /\ flush = "visit" /\ flushAt \in turnReqs
    /\ turnLeft' = [turnLeft EXCEPT ![flushAt] = @ - 1]
    /\ IF turnLeft[flushAt] > 1
       THEN FlushOn(flushAt, turnNext[flushAt])
       ELSE /\ flush' = IF turnReqCur = flushAt THEN "tail" ELSE "unlink"
            /\ UNCHANGED <<flushPre, flushAt>>
    /\ UNCHANGED <<turnNext, turnReqCur, turnReqs, turnRadom>>

\* A mistake for comparison: the last request is removed and m_pReqCur still
\* points to it.
FlushTailKept ==
    /\ flush = "tail"
    /\ flush' = "unlink"
    /\ UNCHANGED <<turnNext, turnReqCur, turnReqs, turnRadom, turnLeft, flushPre, flushAt>>

FlushTail ==
    /\ flush = "tail"
    /\ turnReqCur' = flushPre
    /\ flush' = "unlink"
    /\ UNCHANGED <<turnNext, turnReqs, turnRadom, turnLeft, flushPre, flushAt>>

FlushUnlink ==
    /\ flush = "unlink" /\ flushAt \in turnReqs
    /\ turnNext' = [turnNext EXCEPT ![flushPre] = turnNext[flushAt], ![flushAt] = NULL]
    /\ TurnForgotten(flushAt)
    /\ FlushOn(flushPre, turnNext[flushAt])
    /\ UNCHANGED turnReqCur

Flush == FlushStart \/ FlushVisit \/ FlushTail \/ FlushUnlink

----------------------------------------------------------------------------
\* TurnInsertReq: the request, then the two assignments.
NewTurnReq(n, r) ==
    /\ turnReqs' = turnReqs \cup {n}
    /\ turnRadom' = [turnRadom EXCEPT ![n] = r]
    /\ turnLeft' = [turnLeft EXCEPT ![n] = TurnTTL]
    /\ UNCHANGED <<turnNext, turnReqCur, flushVars>>

LinkTurnReq(last, n) ==
    /\ turnNext' = [turnNext EXCEPT ![last] = n]
    /\ UNCHANGED <<turnReqCur, turnReqs, turnRadom, turnLeft, flushVars>>

SetReqCur(n) ==
    /\ turnReqCur' = n
    /\ UNCHANGED <<turnNext, turnReqs, turnRadom, turnLeft, flushVars>>

\* TurnPopReq, once it has found the request and corrected m_pReqCur.
UnlinkTurnReq(pre, n) ==
    /\ turnNext' = [turnNext EXCEPT ![pre] = turnNext[n], ![n] = NULL]
    /\ TurnForgotten(n)
    /\ UNCHANGED <<turnReqCur, flushVars>>

TurnQueued == Chain(turnNext, Head)

\* Every request is in the queue, but the one being put in, and when none is being
\* put in or removed, m_pReqCur is the last.
TurnReqsKept(created, busy) ==
    /\ turnReqs \subseteq TurnQueued \cup {created}
    /\ (~busy /\ flush \notin {"tail", "unlink"}) =>
          turnReqCur \in TurnQueued /\ turnNext[turnReqCur] = NULL
============================================================================
