---------------------------- MODULE SessionList ----------------------------
(***************************************************************************)
(* The list of rudp sessions (src/rudpa/session.c) and the thread that     *)
(* quits and frees them (session_timeout_thread).  It has no lock: the     *)
(* listener reads and extends it as the timer scans it.                    *)
(*                                                                         *)
(* What makes a session finished, and how the timer waits for that, is     *)
(* RudpSession's; here it is a choice.                                     *)
(***************************************************************************)
EXTENDS Chains

CONSTANT Sessions   \* the nodes; bound: the sessions that can be allocated at a time

ASSUME SessionsAssumption == NULL \notin Sessions /\ NULL \notin Radoms

VARIABLES
    sessionl,
    sessionNext,    \* s->next
    radom,          \* s->radom; NULL where it is not set yet
    quit,           \* the sessions with s->timeout set
    sessions,       \* the allocated ones
    timer,          \* where session_timeout_thread is
    before,         \* its b
    current,        \* its s
    after           \* s->next, read to be written where s was linked

sessionVars ==
    <<sessionl, sessionNext, radom, quit, sessions, timer, before, current, after>>
scan == <<timer, before, current, after>>

SessionInit ==
    /\ sessionl = NULL
    /\ sessionNext = [s \in Sessions |-> NULL]
    /\ radom = [s \in Sessions |-> NULL]
    /\ quit = {} /\ sessions = {}
    /\ timer = "asleep"
    /\ before = NULL /\ current = NULL /\ after = NULL

----------------------------------------------------------------------------
\* Every two seconds.
Wake ==
    /\ timer = "asleep" /\ sessionl # NULL
    /\ before' = sessionl /\ current' = sessionl
    /\ timer' = "scan"
    /\ UNCHANGED <<sessionl, sessionNext, radom, quit, sessions, after>>

Advance ==
    /\ IF sessionNext[current] = NULL
       THEN timer' = "asleep" /\ before' = NULL /\ current' = NULL
       ELSE timer' = "scan" /\ before' = current /\ current' = sessionNext[current]
    /\ UNCHANGED <<sessionl, sessionNext, radom, sessions, after>>

\* Heard of lately, or quit with a reassembly still open.
Pass == timer = "scan" /\ Advance /\ UNCHANGED quit

\* Silent for STIMEOUT; a session that is being created cannot be.
Overdue(created) ==
    /\ timer = "scan"
    /\ current \notin quit /\ current # created
    /\ quit' = quit \cup {current}
    /\ Advance

\* Quit, no reassembly, and finished.
Remove ==
    /\ timer = "scan"
    /\ current \in quit
    /\ after' = sessionNext[current]
    /\ timer' = "unlink"
    /\ UNCHANGED <<sessionl, sessionNext, radom, quit, sessions, before, current>>

\* A mistake for comparison: the first session is taken out like the others.
UnlinkBehind ==
    /\ timer = "unlink"
    /\ sessionNext' = [sessionNext EXCEPT ![before] = after]
    /\ timer' = "free"
    /\ UNCHANGED <<sessionl, radom, quit, sessions, before, current, after>>

Unlink ==
    /\ timer = "unlink"
    /\ IF before = current
       THEN sessionl' = after /\ UNCHANGED sessionNext
       ELSE sessionNext' = [sessionNext EXCEPT ![before] = after] /\ UNCHANGED sessionl
    /\ timer' = "free"
    /\ UNCHANGED <<radom, quit, sessions, before, current, after>>

\* That ends the scan.
Free ==
    /\ timer = "free"
    /\ sessions' = sessions \ {current}
    /\ quit' = quit \ {current}
    /\ radom' = [radom EXCEPT ![current] = NULL]
    /\ sessionNext' = [sessionNext EXCEPT ![current] = NULL]
    /\ timer' = "asleep"
    /\ before' = NULL /\ current' = NULL /\ after' = NULL
    /\ UNCHANGED sessionl

Timer(created) == Wake \/ Pass \/ Overdue(created) \/ Remove \/ Unlink \/ Free

----------------------------------------------------------------------------
\* The first session of an empty list.
AddFirst(s) ==
    /\ sessionl' = s
    /\ sessions' = sessions \cup {s}
    /\ UNCHANGED <<sessionNext, radom, quit, scan>>

Allocate(s) ==
    /\ sessions' = sessions \cup {s}
    /\ UNCHANGED <<sessionl, sessionNext, radom, quit, scan>>

LinkAfter(p, s) ==
    /\ sessionNext' = [sessionNext EXCEPT ![p] = s]
    /\ UNCHANGED <<sessionl, radom, quit, sessions, scan>>

\* The last that session_begin does.
SetRadom(s, r) ==
    /\ radom' = [radom EXCEPT ![s] = r]
    /\ UNCHANGED <<sessionl, sessionNext, quit, sessions, scan>>

\* session_quit.
Quit(s) ==
    /\ quit' = quit \cup {s}
    /\ UNCHANGED <<sessionl, sessionNext, radom, sessions, scan>>

Listed == Chain(sessionNext, sessionl)

\* No session is allocated and out of the list, but the one that is being put in
\* it and the one that is being freed.
SessionsKept(created) ==
    \A s \in sessions : s \in Listed \cup {created} \/ (timer = "free" /\ s = current)
============================================================================
