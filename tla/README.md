# Verification of the camera's rudp library, bluetooth receiver, sound queue and user table

The repository is the application of an IP camera (`src/app_rebulid`). Most of its files are
prebuilt libraries, kernel modules, firmware images and adapters to closed libraries. The code with
logic of its own, shared state and timing is in `src/rudpa` (a reliable-datagram transport, the
sessions on it and the clients of the relay servers), `src/bluetooth` and `src/device_binding`, the
sound queue (`src/sound_queue.c`) and the table of users (`src/usrm`).
This project models that code in TLA+, checks it with TLC on small instances and proves the most
important invariants with TLAPS for all instances. Paths below are relative to
`src/app_rebulid/src`.

Contents: [inventory](#1-inventory), [plan](#2-plan), [models](#3-the-models-and-the-code),
[runs](#4-what-the-runs-show), [bounds](#5-bounds), [fairness](#6-fairness),
[proofs](#7-what-is-proved), [disagreements](#8-disagreements-with-the-code),
[what is left out](#9-what-is-not-modelled).

## 1. Inventory

| component | state | operations | interacts with |
|---|---|---|---|
| rudp receiver (`rudpa/rudp.c`) | `s->recv` (one reassembly: packet id, count, linked list of sub-packets), `s->cur_pktid`, a static counter shared by all sessions | `rdpkt_data`, `receive_data_add`, `sub_pkt_add`, `rdpk_ack`, `rdpk_ack_all`, `rdpkt_recv_all_pkts` | datagrams from the listener; acknowledgements to the peer; payloads to `event_proc`; freed by the timer |
| rudp sender (`send.c`, `check.c`) | `s->sendflag`, `s->data`, `s->ack[100]`, `s->pkt_id`, the global packet id | `send_data`, `session_send_data`, `send_go`, `get_send_stauts`, `aside_send`, `check_ack_pkt` | stream threads and aside threads call it; the listener writes `ack` |
| session life cycle (`session.c`, `rudpa.c`) | `s->timeout`, `s->time`, `m_uiSessionStatus`, `m_uiSessionCanBeFree`, `m_DataThreadStart_If` | `new_session_proc`, `event_proc`, `ld_packet_proc`, `test_send_data`, `session_quit`, `session_timeout_thread` | listener, timer and stream threads, no common lock |
| session list and handshake (`session.c`) | a singly linked list without a lock | `create_session`, `query_old_session`, `get_session` | listener adds, timer removes |
| listener (`listen.c`) | socket, list of listeners | receive loop, `udp_pkt_parse` | calls every handler above |
| turn client (`turn.c`) | registration status, retry count, queue of client requests | `TurnThread`, `TurnDataProc`, `TurnInsertReq`, `TurnPopReq`, `TurnFlushReqs` | listener and `TurnThread`, no lock |
| esee client (`esee.c`) | platform status, counters | `EseeThread`, `EseeDataProc`, `EseeEventProc` | listener and `EseeThread`, turn, traversal |
| traversal (`traversal.c`) | queue of hole-punching requests, a mutex | insert, pop, find, `TraversalThread` | listener and its thread |
| virtual connections (`rudpa_vcon.c`) | queue of tunnels, a status each | `vcon_create`, `vcon_destroy`, `vcon_send`, `vcon_recv_thread` | listener and one thread per tunnel |
| cycle buffer (`bluetooth/cycle_buffer.c`) | ring of bytes, two pointers, a length, a mutex | write, read, peek, skip, clear | bluetooth receiver and binding thread |
| bluetooth receiver (`bluetooth/bluetooth.c`) | `recv_thr.trigger`, `recv_thr.running`, the buffer | `BT_init`, `BT_open_hotspot`, `bt_thr_recv`, `BT_peek`, `BT_skip`, `BT_deinit` | serial port; binding thread |
| device binding (`device_binding/`) | `work_thr.triger`, `work_thr.running`, its own buffer | `bt_work_thr`, `DEV_BIND_BT_start`, `DEV_BIND_BT_interrupt`, JSON requests | bluetooth, WiFi set-up, the thread that interrupts it |
| sound queue (`sound_queue.c`) | ring of packets, ring of their lengths, a count, a priority, a mutex | `SOUND_writeQueue`, `SOUND_writeQueue2` under `SOUND_writeQueue_lock`, `sound_readQueue`, `sound_clearQueue`, `SOUND_releasePriority` | `playWavFile` in threads that give a prompt; callbacks of a two-way talk; the playing thread |
| user management (`usrm/usrm.c`) | table of users, count, a file in memory, the flash | `USRM_init`, log in and out, add, delete, edit, password, `storage_reset`, `USRM_store` | a thread per web or p2p connection, the reset key |
| everything else | | | listed with its reason in PROJECT.json, "components" |

What is hard, and what makes each component right:

- **Receiver.** Datagrams are lost, repeated, delayed and reordered; the list of sub-packets, the
  count of insertions and the packet opened last must agree although each is updated on its own.
  Right means: nothing is acknowledged that did not arrive, payloads are made of one packet's
  sub-packets, nothing that arrived whole is swallowed, and the array of 2048 bytes a payload is copied
  into is overrun by nothing but a packet longer than it.
- **Sender.** Two threads may be in `send_data`, kept apart by a flag that is tested and set without
  a lock, while the listener writes the array they poll. Right means: SUCCESS stands for
  acknowledgements of *this* packet, the flag is never lost, every call returns.
- **Session.** Five flags, three kinds of threads, no lock. Right means: memory is freed under
  nobody, a session that was quit is freed, a peer that asked for the stream is served.
- **Ring and its two threads.** Wrap-around at every position; a length read outside the lock; a
  receiver that is stopped with a timeout, by a thread that is itself waited for without one. Right means:
  the ring is a queue, the length still stands when used, the buffer is freed under nobody, an interruption
  of the binding comes to an end.
- **Platform and turn clients.** Two state machines, each run by a thread of its own, whose status
  the listener overwrites in the middle of a case, and which the case overwrites in turn; counters
  compared by equality and partly never set. Right means: the camera logs in again and again, a
  client's request is passed on, an order to register with a server is acted upon and comes to an
  end, and the camera is registered where it sends.
- **Shared lists.** The sessions and the turn server's clients hang in lists without a lock, the
  clients to open a hole for in one whose mutex is unlocked once too often. Right means: nothing freed is
  used, nothing drops out of a list unnoticed, a repeated handshake gets its one session, and the
  camera stops sending to a client that has its session.
- **Sound queue.** Where a packet begins is stored nowhere and inferred at both ends from lengths; one
  way out of a function unlocks a mutex that its caller still counts on. Right means: packets come out
  whole and in order or are dropped from the front, a talk has the loudspeaker to itself, nobody waits
  for ever.
- **User table.** Every connection has a thread of its own, which checks, changes and stores one table
  without a lock; the store is not atomic and the power may fail. Right means: there is always an administrator, a failure brings back one whole
  table, no change is forgotten.

The hazards behind these, each at the line where it bites, are in PROJECT.json, "hazards".

## 2. Plan

Done, in this order:

1. `RudpPackets`, `RudpReassembly` (receiver), `RudpSender`; `RudpTransport` composes them over an
   arbitrary network; `RudpTransportProofs`.
2. `SubPktList` refining `SubPktSet` (the list inside the receiver), `SubPktListProofs`.
3. `MessageService` (abstract) and `RudpOrdered`, which implements it on a path that keeps order; its proofs
   are in `RudpTransportProofs`, since they build on those of the two ends.
4. `RudpSession`, `RudpSessionProofs`.
5. `ByteQueue` (abstract), `CycleBuffer` implementing it; `BtReceiver` composes the ring with its two
   threads; `BtReceiverProofs` over both.
6. `Esee`, `Turn`, composed in `RelayClients`; `RelayClientsProofs`.
7. `Lists`, `Chains`, `SessionList`, `TurnQueue`, `Traversal`, composed in `RudpListener`;
   `RudpListenerProofs`.
8. `PacketQueue` (abstract), `SoundRing` implementing it, `SoundQueue` with its threads;
   `SoundQueueProofs`.
9. `UserTable`, `UserTableProofs`.

What could follow: that a session in `RudpListener` ends as
`RudpSession` says, where it is now the timer's choice; what remains of a tunnel in `rudpa_vcon.c`.

## 3. The models and the code

| module | models | extends |
|---|---|---|
| `RudpPackets` | packets, sub-packets, what an insertion leaves of the list | |
| `RudpReassembly` | receiving end of a session | `RudpPackets` |
| `Lists` | singly linked lists: a function from a node to the next, and the chain that starts with a node | |
| `SubPktList`, `SubPktSet` | the list inside the receiver, node by node; the set it stands for | `RudpPackets`, `Lists` |
| `RudpSender` | sending end: threads in `send_data`, the listener's acknowledgements | `RudpPackets` |
| `RudpTransport` | both ends, network that loses, duplicates, delays, reorders | `RudpSender`, `RudpReassembly` |
| `RudpOrdered`, `MessageService` | both ends, path that keeps order; what it promises | `RudpSender`, `RudpReassembly` |
| `RudpSession` | life of one session | |
| `CycleBuffer`, `ByteQueue` | the ring; the queue it stands for | |
| `BtReceiver` | the two threads around the ring, and the one that interrupts them | `CycleBuffer` |
| `Esee` | the platform client: its thread, and what the listener does to it | |
| `Turn` | the turn client: its thread, orders and answers | |
| `RelayClients` | both, with the one listener that serves them | `Esee`, `Turn` |
| `Chains` | what the shared lists have in common: a head, clients told apart by a number | `Lists` |
| `SessionList` | the list of sessions and the timer's thread | `Chains` |
| `TurnQueue` | the clients the turn server announced, and `TurnFlushReqs` | `Chains` |
| `Traversal` | the clients to open a hole for, and `TraversalThread` | `Chains` |
| `RudpListener` | the listener's handlers on the three lists | the three |
| `SoundRing`, `PacketQueue` | the ring of the sound queue; the queue it stands for | |
| `SoundQueue` | prompts, a talk and the player on the ring | `SoundRing` |
| `UserTable` | the table of users, its storage and its clients | |

A module `MC<name>` extends `<name>` and gives TLC its packets; each `.cfg` belongs to one of them. A
module `<name>Proofs` extends `<name>` and proves theorems about it; `RudpTransportProofs` also covers the two
ends by themselves and `RudpOrdered`, and `BtReceiverProofs` also covers `CycleBuffer`.

Each variable is commented with the field it stands for, and keeps its name where TLA+ allows it.
Variables marked *history* record what properties need and the code does not keep; no guard reads
them. Operators marked "A mistake for comparison" are used by no specification: PROJECT.json,
"mutants", says which definition each replaces and which property then fails.

**Granularity.** Where threads share state without a lock, each read or write of shared state is a
step: `Begin`, `Fill`, `Hold`, `SetPktId`, `SendSlot` of the sender; `Datagram`, `StillThere`,
`RequestIsWhole`, `IsWanted`, `StartReq`, `ResetCanBeFree`, `CreateThread`, `SetStarted` of the session;
`CheckAdmin` and `DelUser` of the users; `AcceptAck` and `WriteAck` of `check_ack_pkt`. Where a
single thread or a mutex makes a handler indivisible, it is one step: `Rdpkt` (the listener is the
only one to touch `s->recv` of a session that has not been quit), and each operation of the ring.

**RudpReassembly.** `Rdpkt(p, i)` is `rdpkt_data` on one datagram, split by the code's returns:
`ReAck` (`receive_data_new` refuses: the packet is the one opened last, and its id is not 0),
`AckHeld` (`sub_pkt_add` returns 3), `StoreSub`, `CompletePkt`. An unfinished reassembly of another
packet is acknowledged and handed up first (`Flushed...`). `OtherSessionAdd` is what other sessions
do to the shared static counter. `FreeRecv` is the timer. Sub-packets have `FullLen` bytes, the last one of a
packet `LastLen`; `rdpk_ack_all` copies them into an array of `CbSize` and counts nothing, so a datagram that
makes it copy more than that is an `Overrun`: `smashed`, after which the model says no more of this end,
as the stack of the listener is gone. The shared constants of the runs are the code's: sub-packets of 1320 bytes,
an array of 2048, so that two full sub-packets overrun it and one with a short one does not.

**RudpSender.** A thread goes through `Begin`, `Fill`\*, `Hold`, `SetPktId`, then the loop of
`session_send_data` (`SendSlot`\*, `Extend` or `GiveUp`, `KeepOn` or `AllAcked`), then `Release`. `Tick` is
`sub_pkt_interval` of the clock. The two history variables `outcome` and `excused` say what a call
returned and for which packets others have meddled with the acknowledgements.

**RudpSession.** A datagram goes through `Datagram` (`get_session` finds the session), `StillThere` (the
second look at `timeout`, rudp.c:378, and the last one), `Assemble` or, if it completes a packet that asks
for something, `RequestIsWhole` (the acknowledgement, which takes a millisecond), and then `IsWanted`,
`StartReq`, `ResetCanBeFree`, `CreateThread`, `SetStarted`, or `StopReq`; `after` is where the listener goes on if
the packet was ended by the first datagram of the next one. The timer, which sleeps between two scans, may quit the
session between any two of these. `late` records that it did under a datagram, `overlap` that a stream was asked
for while another was still ending, `revived` that `m_uiSessionStatus` was set to 1 on a session already
quit: nothing sets it back, the stream thread goes on, and the timer never gets to free the session.

**CycleBuffer and BtReceiver.** Pointers are offsets and may stand one past the last byte, as in
the code. `Refused` is the error path that returns with the mutex held. The binding thread of
`BtReceiver` has three phases: it asks the device this and that and opens the hotspot
(`ClearOld`, then the loop of `bt_uart_cmd_recv_res`: `GetSize`, `PeekAll`, `Take`, or `NoAnswer` when
`TimePasses`), it serves requests (`GetSize`, `PeekAll`, `Discard`, `Take`), and it closes all: `CloseHotspot`, which
empties the buffer like every request, `Stop` to `StopTimeout` of `bt_stop_thr_recv`, `FreeBuffer`, `EndWork`. A third
thread (`Interrupt`, `Interrupted`) is `bt_stop_work_thr`, which waits without a limit until the binding thread has
gone. Each call on the ring blocks while the mutex is locked. A next `BT_init` is modelled only once the receiver has
gone. `ByteQueue` tells the operations apart by a tag in
`out`, so that a write cannot pass for a peek; a refused call changes nothing and returns no bytes.

**Esee.** A turn of `EseeThread`'s loop is two steps, `Poll` (the switch on `m_Status`) and the case,
which writes `m_Status` last; between them the listener may write it. There is one action per way
through a case: `AuthAcked`, `AuthMissed`, `HeartbeatMoved` (the camera's external address has changed:
the `break` skips the look at `reloginTime`), `HeartbeatAcked`, `HeartbeatMissed`, and so on. The three
timeouts are one flag `eseeDue`, as all are counted from one `curTime`; `relogin` says how
ESEE_RELOGIN_TIME stands, `"never"` being a `reloginTime` that no login has set. Two counters start at 0 or
past their limit, as `malloc` leaves them. Of `TagTable` the model keeps what is read later: the online
status, the external address compared with the one before, and the client of the last message.

**Turn.** The case of TS_WAIT_TURNREQ reads and writes shared fields several times, so it is five steps
from `TurnTimedOut` to `CheckTries`, with `m_retry++` as a read and a write; `TurnEventProc` is three:
`NameServer`, `OrderReq`, `ClearRetry`. Servers are numbered by the orders that name them.

**RelayClients.** The listener is one thread, so nothing else is taken from the socket while it is
inside `TurnEventProc`; the two other threads run on. `SResponseTurn` names a client in the platform
client's table and gives the turn client its order; requests of clients may come without end; a client that the turn server announces without an
address goes the other way (`ClientUnknown`).

**SessionList, TurnQueue, Traversal and RudpListener.** A node of a list is a model value; `next` is a
function, and a heap says which nodes are allocated. The listener handles one message at a time, and `at`
says where it is in the handler: each read of a link and each write of one is a step, as the timer and
`TurnThread` do the same without a lock. The traversal's sections under its mutex are a step each
(`InsertHole`, `PopHole`), with the read of the first request before the lock, and the unlock after the
sections are over (`UnlockAgain`), as steps of their own. The head of a queue of requests is a node too (`Head`), as `m_Reqs` is. A
handshake runs through all three lists: `Query`, `Create...`, `GetSession`, `TurnPop...`,
`HolePop`, `Answer`, the last of which sets `s->radom`. A step that would use freed memory or NULL is not
taken: the thread stops there, and `FreedIsUntouched` says that it does not come to that. When a
session has finished is `RudpSession`'s subject and here a choice of the timer.

`raced` is the history variable of the lists on which two threads have *met*: the section in
`RudpListener` defines when, list by list (the listener stands on the session being removed; both have one
request in their hands and one of them is removing it; the head was read before the lock and is the head no
more). `again` holds the clients that the platform announced a second time or after their handshake.

**SoundRing and SoundQueue.** `WriteQueue`, `ReadQueue` and `ClearQueue` are the three functions on the
ring; the loop that drops the oldest packets until there is room is one choice of how many. Places in the
buffer come from `ReadPosAfter`, which walks the lengths as the code does. `SoundQueue` gives every entry to
and exit from the ring a step of its own, since the mutex may be free with a thread inside: `Refuse` is
`sound_queue.c:274`, which unlocks the mutex although `sound_queue.h` has its caller lock and unlock
around it, and `HangUp` writes the priority without it. `spoilt` is the history that two threads were at the ring
at once, or that there are more packets than entries for lengths; after either the code promises nothing.

**UserTable.** The web server runs a loop per socket (`do_loop` of `spook.h`, with a trigger, a socket and a
time stamp of its own), so `Webs` and `P2ps` are sets of connections; `Main` is the thread of `USRM_init` and
of the reset key. A call that changes the table is two steps, what it checks of its caller and the change: `CheckAdmin`
and then `AddUser`, `DelUser` or `EditUser`; `CheckPassword` and `SetPassword`; `StartReset` and `ResetTable`. Of a
deletion or an edit `what` keeps the name it is about. A store is four steps more, as nothing locks it: the file in
memory is emptied and the count read, the sections are written, the file is read back, the flash is written. `Crash`
may come at each, and in the middle of the last it leaves `Torn` contents, which the MD5 sum gives away.
A handle points to a house of
the table (`who`), not to a user, and `Me` is whoever lives there by now. `Loaded` does what the reader
of the file does with a count that disagrees with the sections, including users without a name (`Ghost`).
The super user's handle has no house; what he asks beyond a reset ends the program, which is a `Crash`, and so is
the `exit` of a reset page that was refused. `clashed` records that two calls that change or store the table have
overlapped, from the check of the first to the end of its store: then two administrators, or one and the reset key, may
have deleted the last administrator between them, and two stores may have mixed their files.

## 4. What the runs show

| run | shows |
|---|---|
| `sub_pkt_list` | the list is well formed, is copied in ascending order, leaks only after an overtaking insertion, and implements the set |
| `rudp_sender` | stream thread and aside thread in `send_data`: what SUCCESS is worth, the flag is released, every call returns |
| `rudp_transport` | any loss, repetition, delay and reordering, of a packet longer than the receiver's array and of one that fits: SUCCESS means that the peer received every sub-packet; payloads are of one packet, nothing received is swallowed, a payload handed up by count is whole exactly if its sub-packets were stored in ascending order; only the long packet overruns the array |
| `rudp_ordered` | on an ordered lossy path: `MessageService` |
| `rudp_lossless` | without loss: of packets that fit the array: no payload is truncated, and every packet is handed up, through the relay too |
| `rudp_session` | freed under nobody, wanted is served; a session that has been quit is freed, unless a start request found it before and was carried out after |
| `cycle_buffer` | the ring is a queue, at every position of its pointers |
| `bt_receiver` | the buffer is freed under nobody; only an overflow jams the mutex, never the length read without it; an interruption ends, unless the jammed mutex has caught the binding thread, and then it never does |
| `relay_clients` | the camera logs in again and again, unless requests never stop; requests are passed on; orders are acted upon and registration ends; it is registered where it sends |
| `rudp_listener` | on sessions, turn clients and traversal clients: nothing freed is used, nothing is lost, one session per client, no more holes for a client that has its session |
| `sound_queue` | the lock works until a prompt is refused; a talk is alone; the ring is a packet queue; what is queued is played or dropped |
| `user_table` | as long as no two calls overlap: an administrator is left, a power failure brings back one whole table, no change is forgotten |

Each passing run has one mutant per property in PROJECT.json: a definition of the model changed as a
plausible mistake in its code would change it, under which the run finds the property violated.

What `excused`, `smashed`, `overlap`, `late`, `revived`, `orderRaced`, the fate "raced", `raced`, `again`, `refused`, `spoilt` and
`clashed` exclude is not excluded from the behaviour: these steps happen in every run, and the properties say what still
holds. Each was added because TLC showed the property to fail without it, and each names a race the code
does not prevent (PROJECT.json, "hazards").

What `clashed` excludes of `TableSound` and `Stuck` of `StopEnds` is likewise what the code does: TLC finds the last
administrator lost when a reset comes between another's check and edit, and `StuckForGood` shows that whoever waits on
`Stuck` waits for ever: each request empties the buffer first, so the five seconds' limit of `bt_stop_thr_recv` is
reached only by a binding thread that is past `bt_req_close_hotspot`.

The disjuncts of `LogsInAgain` and `TurnSettles` are the ways in which requests without end, memory that is never
set, or a count that two threads change, takes a promise away: each request overwrites the status in which
`reloginTime` is looked at, `reloginTime` never set while heartbeats are
answered, `m_ReadyTurnReCnt` beyond the 5 it must equal, `m_retry` beyond the 3 it must equal.

`CHECK_DEADLOCK FALSE` stands where the system may stop: packets run out (`PktIds` is finite), a
session ends by being freed, a mutex stays locked for ever, messages, changes and crashes are used up.
`sound_queue` is checked for deadlock.

## 5. Bounds

- Two packets suffice for the sender: the properties relate one packet and the one before it, whose
  acknowledgements may still come. The first has two sub-packets, for an order between them. With both
  ends both have two: packet 0, whose copies are not recognised, is two full ones and overruns the array, and
  packet 1 fits to the byte; each overtakes the other at any time. `rudp_ordered` has packet 0 and two more; `rudp_lossless`
  three, two of them of two sub-packets that fit to the byte. Packets of more sub-packets, where one that never
  came is made up for by another counted twice, are left to the proofs, which are for packets of
  any number and length.
- One resend and two ticks per packet time let a timeout fall before, between and after retransmissions;
  two attempts let an aside thread be refused once and retry once.
- Two stream threads: one ending, one starting. The listener is one thread, and creates no third
  before the second is there; a third alive would behave as the first, and the proofs are for any set.
- A ring of four bytes and requests of up to five: every position of both pointers, wrapped or not,
  requests equal to, below and above the ring. The ring's proof is for every size. The two threads
  around it get a ring of three bytes, chunks and peeks of up to two: a chunk fits, does not fit, and
  meets a length taken before it.
- The list of sub-packets: one packet of three, in every order, in a heap of four nodes, so that a
  node is used again after it was freed.
- The clients: two attempts where the code has five or three, so that an attempt is neither the first
  nor the last; two orders, one on top of another; requests without a bound; one client, as a second message naming
  the same client disturbs as much. `busy` keeps one of the clients quiet in each behaviour (the platform
  is not found, or there are no orders): they meet only in the table and in a client announced without an
  address, which the platform's busy client sees; all of both at once is beyond TLC. A count past its limit stays at limit + 1, since the code compares by equality only. Answers
  that no one awaits are left out for the platform: the flag they set is cleared by the next request.
- The listener: four messages, two clients, three sessions and three requests of the turn server, so that
  a node is removed at the front, in the middle and at the end while another is put in behind it, and a
  freed one is used again; lives of two rounds, one that a request survives and one that it does not. Two
  requests of the traversal make a first and a last. Nodes and clients are symmetric; no property has
  an order of them. The run is all safety, for which symmetry is sound.
- The sound ring: six bytes, chunks of two, packets of a talk of three, five and six (half of it, the most
  there may be, too long), four entries for lengths and five packets, so that both rings wrap and the
  ring of lengths laps itself (then it is `spoilt`). A player's buffer of four is shorter than some packets.
- The table: two houses, two names, two passwords, two connections to the web pages and the main thread: two callers
  of the same kind and one of another kind. A p2p connection asks for what a web page asks for. Three changes and two
  power failures: a change on top of another under way, a restart, and a change after it. The two connections are
  symmetric, which is sound since the run is all safety.
- The queue of the ordered path holds two datagrams, so that a retransmission is in flight with the
  next packet.

## 6. Fairness

- `TxFairness`: a thread inside `send_data` runs, and the clock moves. No network, peer or listener.
- `RudpOrdered!FairPathSpec`: moreover the receiving listener takes datagrams from its queue.
- `RudpSession!Fairness`: listener's handlers, timer and stream threads run, and `RECV_TIMEOUT`
  passes. Peers need send nothing, and need not fall silent.
- `RelayClients!FairSpec`: both threads run, the listener finishes an order it has begun, and the
  three clocks reach their times. Neither the platform nor a turn server nor a client need say
  anything, and the platform need never be found. Clients may ask for ever, too.
- `BtFairSpec`: the threads run and time passes. Nothing need come from the serial port, and nobody need interrupt the
  binding. Locking is a weakly fair step: nobody can starve a waiter but a mutex left locked. Strong fairness of
  `Opened \/ OpenFails` stands for the number of questions: `bt_ensure_right_name` asks at most ten times, so
  `BT_open_hotspot` does not ask for ever.
- `SoundQueue!FairSpec`: a file comes to its end, callbacks return, and the playing thread runs. A mutex that
  prompts and a talk take and release again and again is had by the player in the end: this one is
  strong fairness, of `StartRead`. A writer leaves the mutex free for as long as it waits for the
  network or opens the next file, and the player asks for it every 20 ms.

All others are weak fairness of steps that a scheduler of Linux threads eventually runs, none of them
contended. `rudp_listener` and `user_table` are safety only: nothing makes a peer or a client go on.

## 7. What is proved

With TLAPS, for every value of the constants that satisfies the named assumptions:

| module | theorems | inductive invariant |
|---|---|---|
| `RudpTransportProofs`, receiver | `RxTypeCorrect`, `NoFalseAck`, `PayloadsArrived`, `CompleteIsWhole`, `OverrunsAreLong`, `NothingSwallowed` | `RxInv` |
| `RudpTransportProofs`, sender | `TxTypeCorrect`, `SuccessIsWorth`, `FlagReleased` | `TxInv`, `AckInv`, `SuccessIn` |
| `RudpTransportProofs`, both | `ReceiverEnd`, `SenderEnd`, `SuccessMeansReceived`, `SuccessMeansHanded` | `SessionInv` |
| `RudpTransportProofs`, ordered path | `OrderedImplements`, `LosslessIsWhole`, `OneSender` | `PathInv`, `WholeInv` |
| `SubPktListProofs` | `ListTypeCorrect`, `PayloadAscends`, `FreedInOrder`, `ListIsSet` | `Inv` |
| `RudpSessionProofs` | `TypeCorrect`, `FreedUnderNobody`, `StreamIsServed`, `QuitIsSilenced` | `FreeInv`, `ServedInv` |
| `BtReceiverProofs`, ring | `TypeCorrect`, `LengthAndPointers`, `RingIsQueue` | `RingInv` |
| `BtReceiverProofs`, threads | `BtTypeCorrect`, `SizeStands`, `FreedUnderNobody`, `JammedByOverflow`, `JamIsForGood` | `BtInv`, `StopInv` |
| `RelayClientsProofs` | `TypeCorrect`, `RegisteredWhereItSends` | `OrderInv` |
| `RudpListenerProofs` | `TypeCorrect`, `Untouched`, `NothingLost`, `OneEach`, `Stops` | `IInv` |
| `SoundQueueProofs` | `SoundTypeCorrect`, `LockWorks`, `TalkHasItsOwn`, `RingIsPacketQueue` | `TypeOK`, `SoundInv`, `RefInv` |
| `UserTableProofs` | `TableIsSound`, `OldOrNew`, `FilesCurrent` | `TableInv` |

The assumptions are those named in the modules: numbers are naturals, limits are positive, the values
that stand for "none" (`NULL`, `Head`, `NoRecv`, `NoData`) are none of the others, and the heap of the
list of sub-packets is finite. Nothing is assumed of the number of threads, nodes, clients or packets.

- `RxInv` adds to the types what a reassembly knows: what it holds arrived, its count is at least
  the size of its set and equal exactly if nothing was overtaken (`Sound`); a packet the application has
  nothing of is the open one and each arrival has been counted, or the session is over (`Pending`);
  the packet opened last, if closed, was handed up (`SeenInv`). `NothingSwallowed` needs all three: a
  sub-packet can be swallowed as a duplicate only after the packet was handed up. The pivot is
  `InsertCard`, on the size of the set after an insertion. All of it is said of a receiver that has not overrun its
  array (`~smashed`); `OverrunsAreLong` says which packets may bring that about: those of which more bytes arrived than
  the array holds.
- `FreeInv` says that without `overlap` and `late` at most one stream thread is past its creation,
  and that the two flags hold the values the timer reads as "no" while it is in its loop.
  `ServedInv` needs only the stages a start request goes through.
- `RingInv` is types and `PointersAgree`. That a write appends, a peek looks and a skip drops are
  lemmas about `Oldest`, byte by byte over the two halves of the ring; `RingIsQueue` is the
  refinement, step by step.
- `BtInv` reuses these lemmas: the reader's length stands because only the reader removes bytes, so
  that none of its calls takes an error path: `JammedByOverflow`.
  `StopInv` says that the receiver has ended whenever `running` is false, unless the mutex jams it.
- `OrderInv` says what an order that did not race has brought about: its status is still to be taken
  up, or its request has been sent. The types of the clients say more than types: a counter never rests
  at the limit it is compared with, which is why comparing by equality suffices unless it starts beyond.
- `TxInv` has, beside types, that a thread in `send_data` is at a sub-packet of a packet and that the flag
  is set only while one is there. `AckInv(G)` says that a packet which is not `excused` has `send_data` to
  itself, that no entry of `ack` is left from before when its id is installed, and that each entry
  since, written or about to be, is of a sub-packet in `G`. It is proved for any growing set `G` that
  acknowledgements come out of: with `G` what was sent it gives `SuccessWasSent` of the sending end alone, with
  `G` what was received it gives `SuccessIsReceived` of the two ends, for any number of threads
  (those of the tunnels in `rudpa_vcon.c` included), packets and attempts.
- `SessionInv` puts `TxInv` and `RxInv` together; that the peer acknowledges only what it received
  is `NoFalseAck`, which is what makes `received` such a `G`. `ReceiverEnd` and `SenderEnd` say that the
  composition takes nothing away: each end, seen by itself, behaves as it was modelled by itself, the
  sender as long as its peer has not overrun its array.
- `PathInv` is what a path that keeps order adds to the two ends. `Filled` and `Latest` say that the slots of
  `s->data` are those of the packet with the last id. `InFlight` says that what is in the queue was sent, in the order of its packets,
  and is not older than what the receiver opened last, so the receiver never goes back to a packet it
  has left. `Given` says that what was handed up is in order, and that a packet
  being reassembled has not been handed up yet. The refinement of `MessageService` follows step by step.
- `WholeInv` says of a path without loss that everything sent is in flight or has arrived (`Kept`),
  that what was sent of a packet is as far as its thread has come (`SentSoFar`), that no datagram gets ahead of one first
  sent before it (`InOrder`), and that a reassembly therefore holds what arrived, stored in ascending
  order (`OpenedInOrder`). So it is whole before the next packet begins.
- Both theorems have the hypothesis `[]OneInSend`: never two threads in `send_data` at once. The code tests and
  sets `sendflag` without a lock, so that it does not guarantee this; without it sub-packets of two packets
  interleave and one packet may be handed up twice. `OneSender` shows the hypothesis to hold, and both properties
  without it, when one thread sends, as in the two runs.
- `Inv` of `SubPktListProofs` has the list (`ListInv`: it ascends, and none of its nodes ahead of the walk
  that frees them is free) and the scan for the place of a new node (`ScanInv`: all that it has passed is smaller, and
  only `bp` leads on to `sp`). A chain is defined as the *least* set
  that a walk does not leave (`Lists`), so that facts about it need no induction: to show that a node is
  not in a chain one names a set that does without it, to show that it is one follows a link. `ListIsSet`
  is the refinement of `SubPktSet`.
- `IInv` has a part for each list of `RudpListener`, guarded by that list not being `raced`: allocated nodes are linked,
  hidden in the hands of the one who will link them, or about to be freed (`Linked`, `Reached`, `TurnLinked`,
  `TurnReached`, `HoleLinked`, `HoleReached`); each thread inside a list stands on a node of it, and what it has
  read of a link is still so (`TimerStands`, `ListenerStands`, `FlushStands`, `PopStands`, `PunchStands`). `Single` and
  `LookedUp` carry `OneSessionEach` across the steps of a handshake; `HoleRequests` and `HoleTaken` carry
  `HolesStop` from the pop to the answer. `MetIsKnown` says that whoever is about to break this has been
  recorded in `raced`.
- `TableInv`: as long as no two calls that change or store the table have overlapped (`clashed`), the flash,
  if its sums are right, holds a whole good table (`FlashSound`); a client that stores carries what it has read of the table (`Carried`), and with nobody
  storing both files hold the table (`Sound`). The file numbers the users it stores; that the reader gets back the same table
  from the numbers is proved by counting (`Rank`, `Nth`) instead of by a recursion over houses.
- `SoundInv`: until a prompt is refused whoever believes to hold the mutex does, alone; an unspoilt ring is used
  by one thread; a prompt on its way into it has not been overtaken by a talk; and during a talk no entry of the ring
  of lengths, used or unused, is of a prompt. The last covers more than `TalkIsAlone` asks, since
  the entries beyond the count come back into use. The types need that `ReadPosAfter`, which walks the lengths
  recursively, stays inside the ring.
- `RefInv` says that of an unspoilt ring `Laid` holds: reader and writer agree on where the next packet and its
  length go (`Agreed`), and the packets lie side by side or are folded once over the end of the buffer, where
  the last one ends ahead of the first (`Shape`). The three ways in which `sound_writeQueue` finds room
  are shown to be room in such a layout (`StoreBehind`, `WriteLays`), and a packet put where there is room has no byte in
  common with any that stays (`Added`). So each of these is where it was, with the bytes it had, after every write and
  read, and `RingIsPacketQueue`, the refinement of `PacketQueue`, follows step by step. It
  promises nothing once two threads have been at the ring at once or there were more packets in it than
  `QUEUE_MAX_COUNT` lengths (`spoilt`): the code prevents neither.

`ReadPosAfter` and `Oldest` in `SoundRing` and `SoundQueue` are recursive functions. The library's rules for
induction cannot be instantiated, so the proofs put a solution of the recursion together from its first parts (`Recursion`)
and take the least number for which a claim would fail (`LeastOf`, `AllNaturals`).

Only model-checked: everything under fairness (`SendReturns`, `SentIsHanded`, `QuitIsReclaimed`,
`StopEnds`, `LogsInAgain`, `RequestIsPassedOn`, `OrderIsTried`, `TurnSettles`, `SoundEnds`), which TLAPS cannot
prove since it has no rule for ENABLED. Every safety property of the runs is also a theorem, the two of the
ordered path under the hypothesis named above.

## 8. Disagreements with the code

Met while modelling; each is what a model does, not a run of its own.

- `rudpa.c:64` says that `m_DataThreadStart_If` is the "flag of data thread whether create?". It is
  set after the thread is created (`SetStarted` after `CreateThread`) and cleared by whichever thread
  ends, so it can be set with no thread and clear with one.
- `dev_bind_bluetooth.c:606` says that a peek blocks "if no data". It blocks for ever with data once
  a write did not fit, since `cycle_buffer.c:379` returns with the mutex locked (`Refused`).
- `rudpa.c:477` pops a client's request "so the device not send hole to client any more". It goes on, for
  the life of a request, if the platform announced the client twice, as one of the two is popped, or
  after the handshake (`HolesStop` states exactly that exception).
- `sound_queue.h` declares `SOUND_writeQueue2` with "lock outside"; a refused call unlocks inside.

Not a disagreement with any doc, but with what a reader would expect: a packet whose datagrams are
reordered is truncated and reported complete (`WholeIffAscending` states exactly when).

## 9. What is not modelled

- Allocation failures, and what freed memory holds: the models say *when* something is freed under
  a user, and stop there.
- What follows an overrun of `cbdata`: `smashed` records that the listener's stack is gone, and every property of the
  receiver ends there. The other array, in which `rdpk_ack` puts the acknowledgements, has room for the 100
  ids a packet may have; the overrun of the sender's `ack[100]` by frames of more sub-packets is left out. A
  payload of no bytes, for which no event is raised, does not occur, as no sub-packet is empty.
- Contents of datagrams.
- Two `packet_id++` at the same instant: the id is drawn in the step that tests the flag, and two sends at
  once are `excused` whatever their ids.
- Of the turn client the header of relayed data and what `TurnThread` sees before its creator has set the
  fields it reads; of the platform client a second address of the platform and what it encrypts.
  A text of `TagTable` that is freed while the thread reads it is out of the models' sight.
- Of the sound queue the amplifier and its silence timer, the conversion of samples, and
  `SOUND_releaseQueue`, which runs when the program ends.
- Of the bluetooth receiver one that is slow without being stuck: `bt_stop_thr_recv` gives up after five seconds
  only on a stuck one here, so the buffer freed under a receiver that the serial port has kept (`bluetooth.c:599`) is
  not caught. Nor is a `BT_init` that fails, or one while a stuck receiver is still there.
- Of the users what two overlapping calls leave beyond their steps (`clashed`), the permit flags, which are copied with the other fields, and the limits on lengths of names.
- Virtual connections (`rudpa_vcon.c`): three values of a status that two threads write; `vcon_destroy` hangs
  when the tunnel closes over it, and no weaker promise is left to state.
- Authentication of soup requests: the ones that `IsWanted`, `StartReq` and `StopReq` act on have passed it.
- The components listed in PROJECT.json as not modelled, each with its reason.

The repository has some 558,000 lines in its C files and headers. The largest of them are tables (`gb2312utf8.c`), vendored
headers (`sqlite3.h`, ffmpeg's, HiSilicon's SDK), register settings of image sensors, and adapters that turn
one library's calls into another's: straight-line code without state that a model would tell apart. The
logic that is the camera's own is a few thousand lines, of which the models cover the transport, its
sessions and relays, the two ring buffers and the users. Covering a large share of the whole
in a faithful way is not possible.
