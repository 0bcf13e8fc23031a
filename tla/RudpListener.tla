---------------------------- MODULE RudpListener ----------------------------
(***************************************************************************)
(* The listener thread of the camera's rudp library (session_listen), with *)
(* the three lists it shares with other threads: the sessions with         *)
(* session_timeout_thread, the clients announced by the turn server with   *)
(* TurnThread, and the clients to open a hole for with TraversalThread.    *)
(*                                                                         *)
(* It handles one datagram after the other: a handshake (session_begin and *)
(* new_session_proc), a datagram of a session or the end of one, a client  *)
(* announced by the turn server, a client announced by the platform        *)
(* (STraversalReq) and one heard of itself (CHoleDevice).  What they carry *)
(* is any; UDP may repeat them, and so may whoever sends them.             *)
(*                                                                         *)
(* A session is named by its node: an identifier that no session has any   *)
(* longer, and the node of a freed one, are both found nowhere.  A step    *)
(* that would read or write freed memory, or NULL, is not taken: its       *)
(* thread stops where it would.                                            *)
(***************************************************************************)
EXTENDS SessionList, TurnQueue, Traversal

CONSTANT MaxMessages    \* bound: the datagrams handled

VARIABLES
    at,             \* where the listener is
    asked,          \* the random number of the message it handles
    sid,            \* the session a message names; NULL is 0xffffffff, a new one
    here,           \* the node it stands on
    pre,            \* the one before it, in a queue of requests
    new,            \* the node it has allocated
    addr,           \* the address of the client, in CHoleDevice
    messages,       \* how many datagrams there were
    again,          \* history: clients announced by the platform a second time, or late
    raced           \* history: the lists two threads have met on

localVars == <<asked, sid, here, pre, new, addr>>
listenerVars == <<at, localVars, messages, again>>
vars == <<sessionVars, turnQueueVars, holeVars, listenerVars, raced>>

Init ==
    /\ SessionInit /\ TurnQueueInit /\ TraversalInit
    /\ at = "idle"
    /\ asked = NULL /\ sid = NULL /\ here = NULL /\ pre = NULL /\ new = NULL /\ addr = NULL
    /\ messages = 0 /\ again = {} /\ raced = {}

----------------------------------------------------------------------------
\* The listener is back in select.
Return ==
    /\ at' = "idle"
    /\ asked' = NULL /\ sid' = NULL /\ here' = NULL /\ pre' = NULL /\ new' = NULL
    /\ addr' = NULL

Message ==
    /\ at = "idle" /\ messages < MaxMessages
    /\ messages' = messages + 1

\* Within a handler, on the sessions only, or on one queue only.
OnSessions == UNCHANGED <<turnQueueVars, holeVars, messages, again>>
OnTurn == UNCHANGED <<sessionVars, holeVars, messages, again>>
OnHoles == UNCHANGED <<sessionVars, turnQueueVars, messages>>

----------------------------------------------------------------------------
\* CMD_CREATE_SESSION: query_old_session.
Handshake ==
    /\ Message
    /\ asked' \in Radoms
    /\ sid' \in sessions \cup {NULL}
    /\ here' = sessionl
    /\ at' = "query"
    /\ UNCHANGED <<sessionVars, turnQueueVars, holeVars, pre, new, addr, again>>

\* A mistake for comparison: a session that has been quit is not found.
QueryLive ==
    /\ at = "query"
    /\ \/ here = NULL /\ at' = "create" /\ UNCHANGED here
       \/ /\ here \in sessions
          /\ IF radom[here] = asked /\ here \notin quit
             THEN at' = "answer" /\ UNCHANGED here
             ELSE here' = sessionNext[here] /\ UNCHANGED at
    /\ UNCHANGED <<sessionVars, asked, sid, pre, new, addr>>
    /\ OnSessions

Query ==
    /\ at = "query"
    /\ \/ here = NULL /\ at' = "create" /\ UNCHANGED here
       \/ /\ here \in sessions
          /\ IF radom[here] = asked
             THEN at' = "answer" /\ UNCHANGED here
             ELSE here' = sessionNext[here] /\ UNCHANGED at
    /\ UNCHANGED <<sessionVars, asked, sid, pre, new, addr>>
    /\ OnSessions

\* create_session.
CreateFirst ==
    /\ at = "create" /\ sessionl = NULL
    /\ \E s \in Sessions \ sessions : AddFirst(s) /\ here' = s /\ new' = s
    /\ at' = "relay"
    /\ UNCHANGED <<asked, sid, pre, addr>>
    /\ OnSessions

CreateNext ==
    /\ at = "create" /\ sessionl # NULL /\ sid = NULL
    /\ \E s \in Sessions \ sessions : Allocate(s) /\ new' = s
    /\ at' = "first"
    /\ UNCHANGED <<asked, sid, here, pre, addr>>
    /\ OnSessions

\* sessionl is read a second time.
First ==
    /\ at = "first"
    /\ here' = sessionl
    /\ at' = "last"
    /\ UNCHANGED <<sessionVars, asked, sid, pre, new, addr>>
    /\ OnSessions

Last ==
    /\ at = "last" /\ here \in sessions
    /\ IF sessionNext[here] = NULL THEN at' = "link" /\ UNCHANGED here
                                   ELSE here' = sessionNext[here] /\ UNCHANGED at
    /\ UNCHANGED <<sessionVars, asked, sid, pre, new, addr>>
    /\ OnSessions

LinkSession ==
    /\ at = "link" /\ here \in sessions
    /\ LinkAfter(here, new)
    /\ here' = new
    /\ at' = "relay"
    /\ UNCHANGED <<asked, sid, pre, new, addr>>
    /\ OnSessions

\* The session the client has named.
CreateNamed ==
    /\ at = "create" /\ sessionl # NULL /\ sid # NULL
    /\ here' = sessionl
    /\ at' = "named"
    /\ UNCHANGED <<sessionVars, asked, sid, pre, new, addr>>
    /\ OnSessions

\* get_session, for a handshake or for a datagram of the session.  A session that
\* has been quit is not found.
GetSession ==
    /\ at \in {"named", "get"}
    /\ \/ here = NULL /\ Return
       \/ /\ here \in sessions
          /\ \/ /\ here # sid
                /\ here' = sessionNext[here]
                /\ UNCHANGED <<at, asked, sid, pre, new, addr>>
             \/ /\ here = sid /\ here \notin quit /\ at = "named"
                /\ at' = "relay"
                /\ UNCHANGED localVars
             \/ here = sid /\ (here \in quit \/ at = "get") /\ Return
    /\ UNCHANGED sessionVars
    /\ OnSessions

----------------------------------------------------------------------------
\* new_session_proc: TurnPopReq.
Relay ==
    /\ at = "relay"
    /\ pre' = Head /\ new' = turnNext[Head]
    /\ at' = "turnPop"
    /\ UNCHANGED <<turnQueueVars, asked, sid, here, addr>>
    /\ OnTurn

TurnPop ==
    /\ at = "turnPop"
    /\ \/ new = NULL /\ at' = "holePop" /\ pre' = holeNext[Head] /\ UNCHANGED new
       \/ /\ new \in turnReqs
          /\ IF turnRadom[new] = asked
             THEN /\ at' = IF turnReqCur = new THEN "turnPopTail" ELSE "turnPopUnlink"
                  /\ UNCHANGED <<pre, new>>
             ELSE pre' = new /\ new' = turnNext[new] /\ UNCHANGED at
    /\ UNCHANGED <<turnQueueVars, asked, sid, here, addr>>
    /\ OnTurn

TurnPopTail ==
    /\ at = "turnPopTail"
    /\ SetReqCur(pre)
    /\ at' = "turnPopUnlink"
    /\ UNCHANGED localVars
    /\ OnTurn

\* TraversalPopReq then reads its first request before it locks the mutex.
TurnPopUnlink ==
    /\ at = "turnPopUnlink" /\ new \in turnReqs /\ pre \in turnReqs \cup {Head}
    /\ UnlinkTurnReq(pre, new)
    /\ at' = "holePop"
    /\ pre' = holeNext[Head] /\ new' = NULL
    /\ UNCHANGED <<asked, sid, here, addr>>
    /\ OnTurn

HolePop ==
    /\ at = "holePop"
    /\ PopHole(pre, asked)
    /\ at' = "answer"
    /\ pre' = NULL
    /\ UNCHANGED <<asked, sid, here, new, addr, again>>
    /\ OnHoles

\* The session's fields, and the answer.
Answer ==
    /\ at = "answer" /\ here \in sessions
    /\ SetRadom(here, asked)
    /\ Return
    /\ OnSessions

----------------------------------------------------------------------------
\* A datagram of a session: get_session, and nothing more here.
SessionData ==
    /\ Message
    /\ sid' \in sessions
    /\ here' = sessionl
    /\ at' = "get"
    /\ UNCHANGED <<sessionVars, turnQueueVars, holeVars, asked, pre, new, addr, again>>

\* CMD_CLOSE_SESSION: _session_close, which also finds one that has been quit.
CloseSession ==
    /\ Message
    /\ sid' \in sessions
    /\ here' = sessionl
    /\ at' = "close"
    /\ UNCHANGED <<sessionVars, turnQueueVars, holeVars, asked, pre, new, addr, again>>

Close ==
    /\ at = "close"
    /\ \/ here = NULL /\ Return /\ UNCHANGED sessionVars
       \/ here \in sessions /\ here = sid /\ Quit(here) /\ Return
       \/ /\ here \in sessions /\ here # sid
          /\ here' = sessionNext[here]
          /\ UNCHANGED <<sessionVars, at, asked, sid, pre, new, addr>>
    /\ OnSessions

----------------------------------------------------------------------------
\* SD_Client_Cs, with a client that the server has confirmed: TurnInsertReq.
TurnClient ==
    /\ Message
    /\ \E n \in TurnNodes \ turnReqs, r \in Radoms : NewTurnReq(n, r) /\ new' = n
    /\ at' = "turnLast"
    /\ UNCHANGED <<sessionVars, holeVars, asked, sid, here, pre, addr, again>>

TurnLast ==
    /\ at = "turnLast"
    /\ pre' = turnReqCur
    /\ at' = "turnLink"
    /\ UNCHANGED <<turnQueueVars, asked, sid, here, new, addr>>
    /\ OnTurn

TurnLink ==
    /\ at = "turnLink" /\ pre \in turnReqs \cup {Head}
    /\ LinkTurnReq(pre, new)
    /\ at' = "turnCur"
    /\ UNCHANGED localVars
    /\ OnTurn

TurnCur ==
    /\ at = "turnCur"
    /\ SetReqCur(new)
    /\ Return
    /\ OnTurn

----------------------------------------------------------------------------
\* The clients that have a session.
Served == {radom[s] : s \in sessions}

\* STraversalReq: a request, whether or not the client has one.
ClientAnnounced ==
    /\ Message
    /\ \E n \in HoleNodes \ holes, r \in Radoms, a \in Addresses :
          /\ InsertHole(n, r, a)
          /\ again' = IF r \in Served \cup {holeRadom[m] : m \in holes}
                      THEN again \cup {r} ELSE again
    /\ UNCHANGED <<sessionVars, turnQueueVars, at, localVars>>

\* CHoleDevice: a client is heard of from another address than the platform gave.
ClientSeen ==
    /\ Message
    /\ ~holesLocked
    /\ \E r \in Radoms, a \in Addresses :
          IF HoleMoved(r, a)
          THEN /\ asked' = r /\ addr' = a
               /\ pre' = holeNext[Head]
               /\ at' = "movePop"
          ELSE UNCHANGED <<asked, addr, pre, at>>
    /\ UNCHANGED <<sessionVars, turnQueueVars, holeVars, sid, here, new, again>>

MovePop ==
    /\ at = "movePop"
    /\ PopHole(pre, asked)
    /\ at' = "moveInsert"
    /\ pre' = NULL
    /\ UNCHANGED <<asked, sid, here, new, addr, again>>
    /\ OnHoles

MoveInsert ==
    /\ at = "moveInsert"
    /\ \E n \in HoleNodes \ holes : InsertHole(n, asked, addr)
    /\ at' = "moved"
    /\ UNCHANGED <<localVars, again>>
    /\ OnHoles

\* The mutex is unlocked a second time.
Moved ==
    /\ at = "moved"
    /\ UnlockAgain
    /\ Return
    /\ UNCHANGED again
    /\ OnHoles

----------------------------------------------------------------------------
Arrival ==
    \/ Handshake \/ SessionData \/ CloseSession \/ TurnClient \/ ClientAnnounced \/ ClientSeen

Handler ==
    \/ Query \/ CreateFirst \/ CreateNext \/ First \/ Last \/ LinkSession \/ CreateNamed
    \/ GetSession \/ Relay \/ TurnPop \/ TurnPopTail \/ TurnPopUnlink \/ HolePop \/ Answer
    \/ Close \/ TurnLast \/ TurnLink \/ TurnCur \/ MovePop \/ MoveInsert \/ Moved

\* The session that the listener has allocated and not yet answered with.
Created ==
    IF at \in {"first", "last", "link"} THEN new
    ELSE IF at \in {"relay", "turnPop", "turnPopTail", "turnPopUnlink", "holePop", "answer"}
         THEN here ELSE NULL

Threads ==
    \/ Timer(Created) /\ UNCHANGED <<turnQueueVars, holeVars, listenerVars>>
    \/ Flush /\ UNCHANGED <<sessionVars, holeVars, listenerVars>>
    \/ Punch /\ UNCHANGED <<sessionVars, turnQueueVars, listenerVars>>

----------------------------------------------------------------------------
(***************************************************************************)
(* When two threads meet on a list.  On the sessions: the listener stands  *)
(* on the session that the timer is removing, or is about to start at it.  *)
(* On the clients of the turn server: one of the two is removing a request *)
(* and they have a request in common, or one is put in behind the one that *)
(* is being removed or that will be the last.  On the clients of the       *)
(* platform: the first request was read before the mutex was locked and is *)
(* the first no longer, or the mutex is unlocked over TraversalThread.     *)
(***************************************************************************)
MeetOnSessions ==
    /\ timer \in {"unlink", "free"}
    /\ \/ at \in {"query", "last", "link", "named", "get", "close", "answer"} /\ here = current
       \/ at \in {"create", "first"} /\ sessionl = current

MeetOnTurn ==
    \/ /\ flush \in {"visit", "tail", "unlink"}
       /\ at \in {"turnPop", "turnPopTail", "turnPopUnlink"}
       /\ flush # "visit" \/ at # "turnPop"
       /\ {pre, new} \cap {flushPre, flushAt} \cap TurnNodes # {}
    \/ /\ flush \in {"tail", "unlink"}
       /\ at \in {"turnLink", "turnCur"}
       /\ pre \in {flushPre, flushAt}

MeetOnHoles ==
    \/ punch = "lock" /\ punchAt # holeNext[Head]
    \/ at \in {"holePop", "movePop"} /\ pre # holeNext[Head]
    \/ at = "moved" /\ punch = "send"

Met ==
    {l \in {"sessions", "turn", "holes"} :
        \/ l = "sessions" /\ MeetOnSessions
        \/ l = "turn" /\ MeetOnTurn
        \/ l = "holes" /\ MeetOnHoles}

Next ==
    /\ Arrival \/ Handler \/ Threads
    /\ raced' = raced \cup Met'

Spec == Init /\ [][Next]_vars

----------------------------------------------------------------------------
\* No thread is about to use a freed session or request, or to walk from NULL,
\* unless two threads have met on that list.
FreedIsUntouched ==
    /\ "sessions" \notin raced =>
          /\ at \in {"query", "named", "get", "close"} => here \in sessions \cup {NULL}
          /\ at \in {"last", "link", "answer"} => here \in sessions
          /\ timer # "asleep" => {before, current} \subseteq sessions
    /\ "turn" \notin raced =>
          /\ at = "turnPop" => new \in turnReqs \cup {NULL}
          /\ at \in {"turnPopTail", "turnPopUnlink"} => new \in turnReqs
          /\ at \in {"turnPopUnlink", "turnLink"} => pre \in turnReqs \cup {Head}
          /\ flush # "asleep" => {flushPre, flushAt} \subseteq turnReqs \cup {Head}
    /\ "holes" \notin raced =>
          /\ at \in {"holePop", "movePop"} => pre \in holes \cup {NULL}
          /\ punch # "asleep" => {punchPre, punchAt} \subseteq holes \cup {Head}

\* A session, a client of the turn server and a client of the platform stay in
\* their lists until they are taken out, unless two threads have met there.
NothingIsLost ==
    /\ "sessions" \notin raced => SessionsKept(Created)
    /\ "turn" \notin raced =>
          TurnReqsKept(IF at \in {"turnLast", "turnLink"} THEN new ELSE NULL,
                       at \in {"turnCur", "turnPopUnlink"})
    /\ "holes" \notin raced => HolesKept

\* However often its handshake comes, a client has one session, which the timer may
\* have quit; a session that no one can find any more does not count.
OneSessionEach ==
    "sessions" \notin raced =>
        \A s, t \in Listed : radom[s] = radom[t] /\ radom[s] # NULL => s = t

\* The camera opens no more holes for a client that has its session, unless the
\* platform announced it twice, or after the handshake, or two threads have met.
HolesStop ==
    at = "idle" /\ raced = {} =>
        \A n \in holes : holeRadom[n] \notin Served \ again
============================================================================
