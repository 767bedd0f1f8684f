# Verification of game_service_system

TLA+ modules of the framework's concurrent core and of the libraries around it, TLC configurations that check them on small
instances, and TLAPS proofs of what holds for every instance. File and line references are to
`src/`. Part 1 is the inventory of the system, part 2 the modules, part 3 the runs, part 4 the
proofs, part 5 what the code does wrong, part 6 what is left out, and part 7 the plan.

## 1. The system

game_service_system is a C++ framework for game services. On each node a *message middleware*
process owns a shared memory with package queues, and the TCP connections to the middlewares of
other nodes. *Service* processes register in that memory, exchange messages through the queues,
and may keep client connections of their own. An HTTP library lets a service call outside servers.

### Components, their state and their operations

| component | files | state | operations |
|---|---|---|---|
| CMultiW_SingleR_Queue | common/base_lib | ring of pointers, two indices, two mutexes, a condition, a flag | put (many threads), get with optional wait (one thread) |
| CMessageQueue | common/base_lib | ring of bytes and two indices in shared memory | write, read and their begin/end halves, one process on each side |
| CAddressQueue | common/base_lib/CMessageQueue.cpp | ring of pointers | put, get, check, clear |
| CSingleW_SingleR_Buffer | common/base_lib | block of bytes, two indices, a link, a "taker is here" byte in front | begin/end write, begin/end read, write, read, sizes |
| CConnectManager | common/connect_lib | connections by id, list of message connections, list of connections being opened, turn status, pools | accept, open, read, write, sweep, close, destroy, waitConnecter, stop |
| CDataHandler, CDataTransmit | common/connect_lib | the connection the walk stands on; how much of a package is still to be read | recv, send, close; or a thread of its own |
| CTimer, CService timers | common/base_lib, frame/SrvFrame | heap of entries, kill notes; timer blocks, the map of online timers, a queue of expiries | setTimer, killTimer, OnTimer, handleTimerMessage |
| CMemPool, CMemManager | common/base_lib | free lists of equal blocks, a list of such pools | get, put, free |
| CService and its connection thread | frame/SrvFrame | modules, proxies and connections by name, queues of opened, closed and requested connections, data kept between messages, lists of addresses | start, main loop, update, stop; sends, proxies, connections it opens, asynchronous data, dispatch to modules, checkPeerIp |
| CMsgComm | frame/messageComm | table of nodes, handlers and queues in shared memory, under a mutex between processes | init, send, recv, look-up and allocation of queues |
| CNetMsgHandler | frame/SrvMsgComm | node id to connection, queue position per node | forward packages between queues and connections |
| CSrvMsgComm | frame/SrvMsgComm | shared memory, key file and its lock, list of nodes | set up, attach again, update, stop |
| CHttpConnectMgr | http_base | requests by block, epoll, queue of finished requests | doHttpConnect, read, write, TLS handshake, dispatch |
| CHttpDataHandler, CHttpData | http_base | buffers by connection, texts | collect and hand on requests, build and parse parameters |
| CRedis, CMySql, CMemcache | common/db_lib | a connection to a server, sets of results | synchronous calls |
| CLogger, CCfg | common/base_lib | log files and a descriptor; sections, keys and values, a current section | write, open again; read, read again, look up |
| base utilities | common/base_lib | - | XML, MD5, processes, threads |

### How they interact

* The *connection thread* (CConnectManager::run) and the *user*, the thread that handles the data
  (CService's loop through CDataHandler::recv, or the thread CDataHandler::run in the middleware),
  share every struct Connect. They take turns only for the sweep over all connections
  (waitConnecter / waitDataHandler); otherwise they run in parallel, and the comments of NetType.h
  say which of them writes which field.
* Bytes travel between the two in rings of blocks, one ring per direction and connection.
* The *timer thread* queues expiries in a CAddressQueue that the service thread empties; the
  blocks the queue points to stay shared.
* The connection thread reports ends of connections through a second CAddressQueue, by the user
  data that the service attached to the connection.
* The service hands requests for connections, and HTTP requests, to a thread through a queue of pool blocks, and
  gets the same blocks back through another.
* Processes share memory only through CMessageQueue and the table of CMsgComm.

### What is hard, and what correctness means

* *Lock-free rings* (three of them): nothing lost, overwritten, doubled, reordered; full and empty
  told apart at every position of the indices.
* *Sleep and wake-up* over two mutexes and unordered accesses: nobody sleeps over work.
* *Turn taking*: the sweep never runs beside the user; both get their turn; the program stops.
* *A list walked by one thread and cut by another*, over blocks that are used again: the walk never
  leaves the list, and the list stays whole.
* *Release by the right side, once*: connections, write buffers and timer blocks are given back
  when, and only when, nobody uses them any more.
* *A question asked early and used late*: a size, a state or a slot tested by one thread while the
  other changes it.

* *Requests that must be answered once*: a connection asked for, an HTTP request, a change of the
  configuration, an order to stop; each passes through queues between threads and may fail anywhere.
* *Two sides that may end something at the same time*: a proxy, a connection, a service; with call backs
  that begin the next closing inside the last one.
* *Faults*: processes that die in the middle of a table they share, connections that break inside a
  package, replies that are lost and commands sent again, disks that fail.

`PROJECT.json` lists these hazards line by line with the properties that would catch them.

## 2. The modules

| module | models | checked in | refines or uses |
|---|---|---|---|
| BoundedFifo | what a queue of the base library promises | - | - |
| MultiWriterQueue | CMultiW_SingleR_Queue.cpp | queue | BoundedFifo |
| MessageQueue | CMessageQueue.cpp | message_queue | BoundedFifo |
| SynNotify | the turn taking in CConnectManager.cpp | threads | - |
| ConnectLife, MCConnectLife | connections: CConnectManager.cpp, CDataHandler.cpp, CService.cpp | connect_life, node | relies on SynNotify |
| ServiceTimer | CService timers, CTimer.cpp, CMemPool.cpp, CAddressQueue | service_timer | - |
| StreamBuffers | CSingleW_SingleR_Buffer.h and its users in CDataHandler.cpp, CConnectManager.cpp | threads | - |
| MemManager | CMemManager.cpp, CMemPool.cpp | parts | - |
| Agenda | what a set of timers promises | - | - |
| TimerHeap | CTimer.cpp | parts | Agenda |
| LogFiles | CLogger.cpp | parts | - |
| Config | CCfg.cpp, service numbers of CMsgComm.cpp | parts | - |
| RedisClient | CRedis.cpp | parts | - |
| MySql | CMySql.cpp | parts | - |
| ServiceProxy | proxies: CService.cpp, CConnectMgr.cpp, CLogicHandler.cpp | parts | - |
| AsyncData | CDataContent.cpp, CModule.cpp | parts | - |
| HttpParams | texts of CHttpData.cpp | parts | - |
| IpCheck | lists of CNetMsgComm.cpp | parts | - |
| NodeStart | CSrvMsgComm.cpp, CShm.cpp, CMsgComm::init | node | - |
| ActiveConnect | connections a service opens: CService.cpp, CConnectManager.cpp | service | - |
| ServiceLife | start to exit: CService.cpp, CNetMsgComm.cpp, CConnectManager::run, CTimer::run | service | relies on SynNotify |
| HttpConnect | CHttpConnectMgr.cpp | service | - |
| HttpRequests | CHttpSrv.cpp, CHttpData.cpp | service | - |
| MessageComm | CMsgComm.cpp, getNodeMsgQueue of CNetMsgHandler.cpp, initShm of CSrvMsgComm.cpp | message_comm | queues as counters: relies on MessageQueue |
| NodeForwarding | CNetMsgHandler.cpp with the parts of CConnectManager.cpp and CDataHandler.cpp that call it | node | connections as in ConnectLife, reduced |
| PackageFlow | packages: CDataHandler.cpp, CNetMsgHandler.cpp | node | bytes in order: relies on StreamBuffers |
| MCThreads, MCParts, MCService, MCNode | small instances of several modules, side by side | threads, parts, service, node | - |
| MultiWriterQueue_proofs, MessageQueue_proofs, ConnectLife_proofs, ServiceTimer_proofs, MessageComm_proofs | theorems | - | the modules they name |
| MCThreads_proofs | theorems about SynNotify, StreamBuffers | - | MCThreads |
| MCNode_proofs | theorems about NodeForwarding, PackageFlow, NodeStart | - | MCNode |
| MCService_proofs | theorems about ActiveConnect, ServiceLife, HttpConnect | - | MCService |

Conventions: variables carry the source's names where they stand for one; thread positions are
`pc` fields, and one action is one access to what another thread can see at that moment, together
with all that the thread does privately up to the next one. `map` in PROJECT.json gives the lines
of each definition. Definitions under "MUTANT of" (and, in the older modules, the ones that
directly precede the definition they change) are faulty variants kept to show that a property can
fail; no specification uses them.

**MultiWriterQueue.** put() takes m_writeMutex, tests the slot at m_write, probes whether the ring
looked empty, stores, and notifies if it was empty or the reader's flag is up. get() looks at its
slot without a lock; if it is empty it raises the flag under m_notifyMutex, looks again and sleeps,
with an optional time limit. `tso` is chosen once: when TRUE, the flag's plain store may stay in
the reader's store buffer past its next load, until the reader's next mutex operation (`Drain`).

**MessageQueue.** Two processes on a ring of cells. A package is a header and a body; a cell holds
the kind of what begins there, and body cells carry the package's number. The writer reserves a
place (`Places`: behind the write index, or at the head of the ring behind an end mark, or without
room for a mark), fills it, and publishes it by moving the index; the reader locates the head of the
oldest package (`Heads`), copies and releases it. Both read the other's index only once per call.

**StreamBuffers.** The ring of blocks between a socket and the user, in the direction `dir`:
"in" is readFromConnect filling and CDataHandler::read taking, "out" is CDataHandler::write filling
(or writing to the socket directly while nothing waits) and writeToConnect taking. Bytes are
numbered; every block keeps its two indices, its mark and its cells. Size tests that read two
blocks read them in two steps when their order matters. The reads of headers and bodies are reads of
a length in `Lens` that is asked for until it is there.

**SynNotify.** One action per step of waitConnecter, waitDataHandler, notifyDataHandler and stop()
up to the next access of the status word, the conditions with spurious wake-ups. `stopper` says
who calls stop() in this program: the user (CNetMsgComm), another thread, or a signal handler on
top of the connection thread (CSrvMsgComm), during which that thread takes no step.

**ConnectLife.** The connection thread accepts, reads (queue the connection, then commit the
bytes), writes, closes, and sweeps; the user walks the list of message connections, handles or
rejects packages, sends, hangs up, releases and gives up closed connections, and takes the notices
of ends. Outside a sweep, closeConnect and addToMsgQueue are several steps each, between which the
user acts; in a sweep, which runs while the user stands in waitConnecter, a connection is handled in
one step. That the sweep excludes the user is SynNotify's theorem SweepExcludesUser; the action
`Grant` stands for the hand-over. A connection is a block that is used again: `conn[c]` is the block,
its id tells the uses apart, and a service that never heard of an end keeps a stale pointer
(`held`). Time (heartbeats due, idle too long, address banned) is a free choice of the sweep; buffers
are "none", "empty" or "data", which StreamBuffers refines.

**ServiceTimer.** The service thread's setTimer, killTimer and handleTimerMessage, in and outside
callbacks, and the timer thread's handling of one due entry (it holds CTimer's mutex throughout). A
timer block is in the pool, registered, or waiting for the messages that still point to it.

**MessageComm.** The lists of the shared memory are sequences of block numbers. A process that lacks a block takes
the mutex and reads the head of the free list (`Lock`), takes it off (`Unlink`), puts it in front of the other list
(`Link`), and gives the mutex back (`Unlock`); only then are the ids written, one step each (`SetHandlerReader`,
`SetWriter`, `SetReader`). The searches along the lists are one step, because blocks are only ever put in front. A crash
may come before any step; it loses the process's memory and leaves the table, and a mutex that was held is `Dead` for
ever, since it is not of the robust kind. The middleware (`Net`) writes what comes from other nodes; its id is the 0
that a queue without an id has, too.

**NodeForwarding.** `slot` is m_netMsgHandlers, `handler` the status and connection id of a node in shared memory. The
connection thread requests, opens, loses and closes connections (`Request` to `Destroy`); the data thread walks the
slots and queues (`WalkQueue`, `NextSlot`), sends, or drops the slot of a connection it finds unusable, access by access
(`Invalid`, `ClearSlot`, `ResetNode`). Connection ids are never used again in the code; in the model a block's number
stands for the id, and `Destroy` turns what refers to it into NULL, the id of no connection.

**ActiveConnect.** The service writes a request into a block of its pool and queues it (`Request`); the connection
thread chains what is queued (`TakeEnds`), goes along the chain (`Busy`, `Waits`, `Fails`, `Succeeds`, `Connecting`,
`NoConnect`), and queues each block back (`Opened`, `OpenFails`) for the service to call its requester (`Answer`) and
return it (`Release`). The chain runs through the blocks, also through one that has just been queued back, so `Advance`
reads the link of a block the service may have written anew.

**ServiceLife.** Four threads' worth of flags: the service (`sv`), the connection thread (`ct`, with the manager and
the handler object it owns), the timer thread, and whoever notifies an update or stops the service. Every start may fail.

**HttpConnect, HttpRequests.** The HTTP library in the two roles. HttpConnect follows one block from
`Connect` through the thread's events (`Listen` picks what is true of the socket, edge triggered, and `Handles` the code for
it) to `OnHandle`. HttpRequests cuts a stream of requests into units: `Deliver` adds units to the buffer and looks once
for a request, `Closed` and `OnClosedConnect` bring the end through a queue.

**PackageFlow.** Two nodes and a wire of units. `Send` writes a package as a whole, in part, or not; `ReadHeader` and
`ReadBody` take packages and heartbeats off, with the state (`mode`, `need`) that readPkgHeader leaves for readPkgBody. A header
that gives more than `MaxMsgSize` (MsgPkgMaxSize) sets `failed`, and the connection is closed (`Cut`, here without a bound).

**NodeStart.** Middlewares, services, the key file's lock and the shared memory, with one action per part of initShm, so
that a death may leave it half made; and the file of nodes, edited while they run.

**ServiceProxy.** Gateway and service with a queue each way. `closing` is the stack of closeProxy calls that have begun:
the user's callback may close others, or the same one, inside. The gateway is external, modelled by what the service
expects of it.

**AsyncData.** A flag is the text that travels with a message; `Note` adds a service's id and index, `Find` searches it
as strstr does, so that ids that occur inside others, and indices that come round, are found as the code finds them.

**MemManager, TimerHeap, LogFiles, Config, RedisClient, MySql, HttpParams, IpCheck.** One caller each (two where a constant says
so), one action per method or, where another thread or a fault can come between, per access. TimerHeap refines Agenda,
in which a timer that is served is simply one that is due first. What an ideal program would do is kept in the
history variables: `given` (what the file ever said), `want` (what one execution would do and answer), `mine`
(the results of the caller's own call).

**MCThreads, MCParts, MCService, MCNode.** Each contains an instance of several modules and a variable `part`, the one
whose behaviour this is; the others keep their initial states. Their properties are those of the modules, each under
`part = ...`: one run then checks many small components. MCThreads extends SynNotify, MCService ActiveConnect and
MCNode NodeForwarding instead of containing an instance, so that the property that is checked is the one that is
proved; it holds in the initial states in which these modules rest as well. The constants of StreamBuffers,
PackageFlow, NodeStart, ServiceLife and HttpConnect are constants of these modules, given values in the cfg only, so that what is
proved of these parts there is proved for every value. The liveness of ConnectLife is checked in MCNode, in an
instance small enough for it. Behaviours of different parts are not combined.

## 3. The runs

| run | instance | states | what it shows |
|---|---|---|---|
| queue | 2 writers, 2 slots, 2 puts each, both memory models | 10^5 | NoOverwrite, ReadIsStable, RefusedOnlyWhenFull, refinement of BoundedFifo; NoLostWakeup and Delivered without the delayed store |
| message_queue | 10 cells, header 2, bodies 1 and 3 | 10^4 | RingSound, refinement of BoundedFifo, Delivered |
| threads | the turn: user, one other thread or handler, all kinds of stop; the bytes: see below | 4 * 10^5 | MutualExclusion and NoLostSignal through the inductive TurnInv; Turns; StreamSound |
| connect_life | 2 blocks, 2 connections, every use | 4 * 10^6 | ListSound, DataIsQueued, EndsClean |
| service_timer | 3 blocks, queue of 2, at most 2 online, 3 timers, counts 2 and endless | 5 * 10^5 | BlocksSound, KillIsFinal, Fires |
| message_comm | 2 services, 1 of them a receiver, the middleware, 2 blocks of each kind, 1 package, 1 death, fair | 5 * 10^4 | MessagesSound, NobodyWaits |
| parts | ten modules, see below | 8 * 10^5 | one invariant or action property for each of them |
| service | four modules, fair | 1.6 * 10^5 | one invariant for each, and EachIsDone |
| node | four modules, three of them fair | 1.3 * 10^5 | one invariant for three of them, and EachIsServed |
| timer_freed_while_queued, send_out_of_order, two_writers | ServiceTimer, StreamBuffers, MessageComm | - | a statement of the code's comments that does not hold (part 5) |

The properties with names in -Sound and the like are conjunctions of named parts, each stated with its comment in its module:

| property | parts |
|---|---|
| RingSound | EmptyMeansEmpty, NoOverwrite, ReadsWhole, AcceptsWhenDrained |
| BlocksSound | PoolSound, NoLeak |
| ListSound, EndsClean | QueueSound, WalkStays; BuffersReturned, ToldOnce |
| StreamSound | NoneLost, ReceivedInOrder, NeverShort, TwoBlocksSuffice |
| MemorySound | EachBlockOnce, NoNeedlessGrowth |
| TimersSound | NoneMissing, OncePerScan, ImplementsAgenda |
| LogsSound | OwnDescriptors, InOrder, Bounded |
| ConfigSound | ReadsFile, NothingElse, RightSection |
| RedisSound | TwiceAsOnce, DeletesAll, OneLossIsMadeGood, RepliesReleased |
| MySqlSound | NeverRefused, OwnResults, AllResults |
| ProxiesSound | ReleasedOnce, NamesLive, ToldOnce, Agree |
| AsyncSound | FindsOwn, NothingKept |
| InputsRead | UrlRoundTrip, BodyRoundTrip (HttpParams), AsListed (IpCheck) |
| StartSound | UsesWhole, OneAtWork, SlotsInOrder |
| ActiveSound, LifeSound | OnePlace, OneAttempt; ModulesPaired, NoneLeftBehind |
| ClientSound, ServerSound | OnePlace, ThreadGone; HandledAsSent, KnownWhileOpen |
| EachIsDone | Answered (ActiveConnect), Ends (HttpConnect), Served (HttpRequests), UpdateSeen and Exits (ServiceLife) |
| MessagesSound, NobodyWaits | BlocksOwnedOnce, FoundAgain, ServicesWriteAlone; Served, MutexReleased |
| ForwardingSound, PackagesSound | NoSecondAttempt, SlotHeld; Framed, InOrderOnce |
| EachIsServed | EndsDestroyed and Visited (ConnectLife), Forwarded (NodeForwarding), HandedOver (PackageFlow) |

The type invariant of a module is the first conjunct of one of them; that of MultiWriterQueue is proved.

Instances of *parts*: *memory* 3 pools of 2 or 3 blocks;
*timers* 4 timers, intervals 0 and 3, 1 kill; *logs* a ring of 3 files of 3 units, 7 lines, 2 faults; *config* every file of up to
3 lines over 2 sections, read twice, 2 lookups; *redis* 2 keys, 2 lengths, 2 losses of the connection; *mysql* 4 calls, 1 loss;
*proxies* 2 clients of 1 gateway that restarts once; *async* 3 services, 2 conversations, indices that come round after 3;
*texts* up to 3 parameters, values empty, plain and with each separator; *ips* addresses of 2 bits, every list of up to 2 networks. Of *service*: *active* 3 requests to one
address by two users and to a bad address, queues of 2; *life* 3 registered modules of which 2 are the same object, 2 updates; *client*
1 block, used again; *server* 2 clients, 7 kinds of requests, one or two in a row, a buffer of 4 units. Of *node*:
*connects* 1 block, 2 connections one after the other, every use; *forwarding* 2 nodes and
1 service, or 1 node and 2 services, 3 connections, 1 failure, 1 restart; *packages* 5 packages one way, 1 cut, 1 heartbeat;
*start* 2 middlewares, 1 service, 3 versions of the file, 2 deaths. Of *threads*:
*streams* blocks of 3 bytes, 3 blocks, 8 bytes, reads and messages of 1, 2 and 4, both directions.

Why the bounds are enough. *queue*: four messages through two slots wrap the ring twice and fill it;
two writers are what the probe of a stale m_read needs; larger rings and more writers are proved.
*message_queue*: with 10 cells and footprints of 3 and 5, the three ways in which a ring can be wrapped
(mark, tail shorter than a header, exact fit) and the full ring all occur, in all positions of both
indices. *threads*: the turn is proved for any set of callers. *connect_life*: two connections are the fewest that make the list's
links matter, the walk change its connection and one connection's block be cut out beside another; a block is reused when a
second connection follows a destroyed first. CheckTimes = 1 gives all three cases of the counter (0, within, beyond).
*service_timer*: three timers on three blocks with a limit of two let a callback's new timer get the block of
the killed one, and a queue of two lets an expiry be refused behind two messages of one timer.
*streams*: with blocks of 3 every combination of wrapped and unwrapped indices and both
pieces occur, and a third block is what lies beyond the two that the size test looks at; wider instances
(4 blocks and 10 bytes, and blocks of 2) were checked once and take minutes; the invariant is proved for all of them. *memory*: three pools are the fewest of
which one in the middle of the list can be taken out or moved. *timers*: four entries give a heap of three levels, with
a last entry that has to go down past two. *logs*: with three files the ring goes round and a file in the middle can be missing.
*redis*: the second attempt and its own loss need two losses. *proxies*: two clients are what a nested closing needs.
*async*: three services make a flag with notes of two others, and indices have to come round to be mistaken. *ips*: with two bits
networks of every length overlap. *start*: two middlewares and two deaths give a death in initShm, one after it and the race for
the lock. *active*: three blocks are the fewest with a chain that is cut behind its middle. *server*: 4 units hold the
longest request exactly and none of the too long ones. *message_comm*: one receiver that also sends to itself, another sender and
the middleware are three writers for two queues, so that blocks run out; two services for two handlers. A third block, or
a second crash, or two receivers, were checked once (minutes). *forwarding*: the slot array has two places, so that slots change owner; one
failure is what a race of the two threads over a slot needs. With two failures the connections that the race of part 5.9
leaks use up the three blocks, and Forwarded fails for lack of connections. *packages*: one package each has nothing but
the user's header, finds the queue free or full, has no receiver, and is one unit too long, others having exactly the length allowed;
a cut may come inside any.

Fairness. Weak fairness of a thread's own steps: a thread that is not blocked is scheduled. MultiWriterQueue and
SynNotify assume no fairness of spurious wake-ups or of callers' decisions; MessageQueue assumes that the reader
does not for ever bring a buffer that is too small (SF on the outcome "copy"; beginReadBuff needs no buffer);
SynNotify uses SF for UserEnds because each round of CDataHandler::run tests whether to finish; ConnectLife uses SF
for Ask because run() returns to the sweep after every batch of events, however many events there are, and owes
nothing to the world: no arrival, hang-up or use by the service is assumed. MessageComm lets a live process end what it
began, with SF for the receiver's lock, because the free mutex is offered again and again (glibc's mutex does not starve a
waiter in practice, though POSIX does not promise it), and SF for a receiver's next call of recv; no send is owed.
NodeForwarding has WF for both threads' steps and SF for the sweep's destruction, because waitConnecter lets the sweep in
only at certain points of the data thread; connections that are requested are opened and
arrive unless they fail, which is bounded. PackageFlow: both handlers loop (WF), and what is on the wire arrives unless the
connection is cut, which happens as often as the bound and packages that are too long allow. ActiveConnect: both threads loop, and the kernel ends every attempt to connect.
ServiceLife: the threads' own steps. HttpConnect: SF for Listen, because epoll lets no connection wait for
ever behind the events of others; nothing is assumed of the server. HttpRequests: what a client has sent arrives
(SF for Deliver, which the service's queue of notices may interrupt), and no client is assumed to send or hang up. Deadlock
checking is off where the system really may come to rest: all bounded inputs used up, all threads ended, or nothing to do.

The passing runs include the faulty situations found in part 5 wherever no constant keeps them apart: `EndsDestroyed`
exempts exactly the zombies of part 5.1, `Forwarded` the nodes that the race of part 5.9 leaves behind, `Answered` the requests of
a cut chain (5.13), `Exits` a stop before the loop (5.14), `ReceivedInOrder` speaks of the direction in which the order
holds, and `NeverShort` needs no exemption although a connection may be closed by an empty second read.

## 4. The proofs

| theorem | module | statement | checked as |
|---|---|---|---|
| TurnTaking | MCThreads_proofs | Spec => []TurnInv | TurnInv |
| SweepExcludesUser | MCThreads_proofs | Spec => []MutualExclusion | MutualExclusion |
| SignalsArrive | MCThreads_proofs | Spec => []NoLostSignal | NoLostSignal |
| StreamsAreSound | MCThreads_proofs | PartsSpec => []StreamSound | StreamSound |
| TypesOK | MultiWriterQueue_proofs | Spec => []TypeOK | - |
| NothingOverwritten | MultiWriterQueue_proofs | Spec => []NoOverwrite | NoOverwrite |
| ReadsAreStable | MultiWriterQueue_proofs | Spec => []ReadIsStable | ReadIsStable |
| RingContiguous | MultiWriterQueue_proofs | Spec => []Ring | - |
| RefusalsJustified | MultiWriterQueue_proofs | Spec => RefusedOnlyWhenFull | RefusedOnlyWhenFull |
| WakeupsArrive | MultiWriterQueue_proofs | Spec => []NoLostWakeup | NoLostWakeup |
| MessagesCounted | MultiWriterQueue_proofs | Spec => []Counted | - |
| QueueImplementsFifo | MultiWriterQueue_proofs | Spec => ImplementsFifo | ImplementsFifo |
| RingIsInvariant | MessageQueue_proofs | Spec => []RingInv | - |
| RingIsSound | MessageQueue_proofs | Spec => []RingSound | RingSound |
| RingImplementsFifo | MessageQueue_proofs | Spec => ImplementsFifo | ImplementsFifo |
| TimersInvariant | ServiceTimer_proofs | Spec => []TimerInv | - |
| BlocksAreSound | ServiceTimer_proofs | Spec => []BlocksSound | BlocksSound |
| KillsAreFinal | ServiceTimer_proofs | Spec => KillIsFinal | KillIsFinal |
| LifeIsInvariant | ConnectLife_proofs | Spec => []LifeInv | - |
| ListIsSound | ConnectLife_proofs | Spec => []ListSound | ListSound |
| DataAreQueued | ConnectLife_proofs | Spec => []DataIsQueued | DataIsQueued |
| EndsAreClean | ConnectLife_proofs | Spec => []EndsClean | EndsClean |
| ForwardingIsInvariant | MCNode_proofs | Spec => []ForwardingInv | - |
| ForwardingIsSound | MCNode_proofs | Spec => []ForwardingSound | ForwardingSound |
| PackagesAreSound | MCNode_proofs | ~ OutOfMemory: PartsSpec => []PackagesSound | PackagesSound |
| StartIsSound | MCNode_proofs | PartsSpec => []StartSound | StartSound |
| ActiveIsInvariant | MCService_proofs | Spec => []ActiveInv | - |
| ActiveIsSound | MCService_proofs | Spec => []ActiveSound | ActiveSound |
| LifeIsSound | MCService_proofs | PartsSpec => []LifeSound | LifeSound |
| ClientIsSound | MCService_proofs | Unusual = {}, no more blocks than the queue holds: PartsSpec => []ClientSound | ClientSound |
| MessagesIsInvariant | MessageComm_proofs | Spec => []MessagesInv | - |
| MessagesAreSound | MessageComm_proofs | Spec => []MessagesSound | MessagesSound |

Assumptions are the ASSUMEs of the modules: ring size at least 2, bounds natural numbers, NULL and NoOne outside the
sets they are kept apart from, the user not among the other threads, at least one other node and finitely many, header and bodies
of packages not empty, services' ids positive, as in the code, and none of them the middleware's, blocks of more than one byte, reads
and messages not empty, what is given to be sent and what is registered finite sequences,
and an address with one line in the list of nodes, and one port whenever it is in it. TLC evaluates them in the runs of the same modules. Each inductive invariant was
first checked by TLC as an invariant of the module, on the instance of its run or a larger one.

Two theorems have hypotheses, and both are there because the statement is false without them, which is what part 5 says of the code:
PackagesAreSound needs memory for a package (5.25), and ClientIsSound that none of the three unusual ends of a request happens
(5.17) and that the queue back to the service holds as many requests as there are blocks, since otherwise the thread would drop one
that is finished. The runs check the same instances of the hypotheses.

*SynNotify* (MCThreads_proofs). Mutual exclusion alone is not inductive: that the user stands still during a sweep follows from how the
status word got its value. TurnInv adds that waitConn was set only while the connection thread was offering its
turn, that it holds from then until the sweep has ended, and that a caller which tested the status early is still
inside the same offer. The proof has one lemma for the steps of callers, one for those of the connection thread and one
for outside callers, each with one step per action.

*MultiWriterQueue.* `Safe` (who may store where, with the type invariant) is inductive by itself and does not depend on
the memory model. `Ring` builds on it: put() and get() each test only one slot, so that a refusal means "full" only
because the occupied slots are always one run from the oldest message to m_write; the step from one slot to all slots
is an argument about index arithmetic modulo the size (`AdvanceCases`). `Counted` says how long that run is; with it the
abstract queue is the occupied slots in their order, a store appends to it, a clear removes its head, and every other
step leaves it alone, which is the refinement. `Wake` is the classical argument for a flag
raised before the second look, and is proved for sequentially consistent memory (~tso) only: with the delayed store
it is false.

*MessageQueue.* `RingInv` describes the cells by the packages in flight: they lie one behind the other from the read index
to the write index, with at most one gap, at the end of the ring, which is an end mark or too short for a header
(`Chained`). From the reader's and the writer's side it adds what each has learnt from the other's index and may still
rely on after it has moved. That a drained ring takes every package of up to half its size is arithmetic about `Places`;
that the ring is a FIFO follows because the packages in flight are the abstract queue.

*ServiceTimer.* `TimerInv` relates heap, registered timers, pool and queue. An entry of the heap that isn't killed belongs
to a registered timer, therefore nothing is put into the queue for a block that waits for its last messages, and
the number it waits for is the number there is: that number can only fall. Counting what a queue holds of one block
(`TimesAppend`, `TimesTail`) is all the arithmetic.

*ConnectLife.* `LifeInv` has, besides the types and the three properties, what each thread knows of its connection between two
accesses: the connection thread that inserts, closes or forgets a connection, and the user that stands on one. The steps
that touch neither list nor ends are handled by a few lemmas (`MildStep`, `GentleStep`); the sweep, which handles a connection
in one step, by `SweepOne`. The walk stays on the list because the user is elsewhere during a sweep, which is
`Grant` here and SweepExcludesUser in MCThreads_proofs.

*NodeForwarding* (MCNode_proofs). `Held` is the strengthening: a slot in use is that of a connection of its node which is up or broken and
remembers the slot, so it will be freed. A slot found unusable by the data thread is cleared access by access, and the
invariant must hold between these accesses while the connection thread closes the same connection and another comes.

*PackageFlow* (MCNode_proofs). What a receiver has not read yet is one stream, `Stream(n)`: what has arrived, and behind it the wire.
`Framing` says how it is cut: it begins with what is missing of the package that is being read, and every header in it is followed
by as many units of a body as it says, with heartbeats only between packages. `Rising` says that the numbers of packages in it
rise, and `Within` that they are beyond all that has been dealt with and none that has not been given. Each action takes from the front
or adds behind, and there is one lemma for each of these on sequences; a cut empties the stream, which needs nothing. Without
memory for a whole package `Framing` fails, which is 5.25. A header that fails the connection is not taken, so the stream keeps its
form; `Failing` adds that it is one that gives too much, and `Limited` that none that does is waited for or handed over. The theorem
assumes nothing of the packages' lengths and of the limit.

*NodeStart* (MCNode_proofs). `StartInv` says how far each middleware is (`Stands`): who is beyond the lock holds it, and has done what comes
before its step, or found it done. As no step takes anything back, the size is there only when the rest is (`Whole`), and who has seen it once may go on
(`SizeSeen`), whoever has died since. That a node put in the first free slot has no other is because the search stops there
and used slots come first, so that it sees all of them. That a successor leaves the nodes where they are needs one
port for an address (`NodeStays`); in an edited list that gives an address another port a node appears twice (5.20).

*StreamBuffers* (MCThreads_proofs). `StreamInv` has four parts beside the types. `FillerInv`: what the filler has been told to fill lies where the bytes
end, is free, and stays so, since the taker only makes more room. `TakerInv`: what the taker has been told to take are the first bytes of its block, and
stay so. `Kept`: each byte is taken once, or stored once in one cell. For what is received there are `Ordered`, the blocks from the
taker's to the filler's hold consecutive bytes, the ones between are full, and the mark is on the block that the taker stands on,
and `Enough`, the bytes that the reader counted, by two looks at two blocks, are still there when it takes them, although the filler
has gone on. The arithmetic of one ring is in a few lemmas about `Room` and `Region` for the wrapped and the unwrapped case; the
rest of the proof sees only lengths. That NeverShort holds although two blocks are looked at, one after the other, is the point of `Enough`:
a block that is not the filler's is full or was, and only the reader itself takes from it. In the other direction `Ordered` is
false (5.2), and what is proved there is `Kept`.

*ActiveConnect* (MCService_proofs). The chain of requests runs through the blocks, and a block that has been sent back may be used again before
its link is read. `OneOwner` gives each block to the pool, a queue, the chain, the callback or a connection being opened;
`Linked` says that the links are the chain, except that of the block in hand behind its report, which is what it was or None.
That the chain is followed without ever reaching a block of somebody else rests on exactly this: whoever uses the block again
writes None into its link (Request). It also shows what is lost then, namely the rest of the chain (part 5.13).

*ServiceLife* (MCService_proofs). `LifeInv` ties the position of the service to what the connection and the timer thread have seen (`Threads`) and
to which modules have been called so far (`Loading`): at position i, those registered under the first i - 1 ids and no others, each
object under its first id, so that an object under two ids is loaded and unloaded once. The threads may start late or never;
what they may still use is deleted only behind the wait for their end.

*HttpConnect* (MCService_proofs). `ClientInv` gives each block one place (`Placed`): free, with the caller, connected, or in the queue back, and says
which of these a block is in by its status and socket (`Connected`); `AtWork` says the same of the block the thread has in hand, whose status
changes access by access, and `Stopping` of the end of the thread. A finished request fits into the queue because those in
it are different blocks and the one in hand is not among them (`RoomInQueue`), which is the only use of cardinalities.

*MessageComm.* `MessagesInv` says of each process that is getting itself a block how far it is (`GetsHandler`, `GetsQueue`):
its block is the head of the free list, in no list, in the right list without an id, or its own. `Accounted` ties what is in no
list to who holds the mutex, and to its death. Two things make the searches without the mutex safe: only service s ever writes
the id s, and a block that is nobody's carries nobody's id (`Fresh`); so s finds nothing before it asks and its own ever after,
also after a death. A death between the link and the id leaves a block in the list that no service will find: it is not lost in the sense of
BlocksOwnedOnce, but the middleware, whose id is the 0 that such a queue carries, may write into it (part 5.8).

Only model-checked: the parts of MCParts, HttpRequests in MCService, and all liveness (Delivered, Turns, Fires, NobodyWaits,
EachIsDone, EachIsServed), which is outside what TLAPS proves. Of the former, TimerHeap's refinement of Agenda and
CCfg's reading of a file need an induction over data (the levels of the heap, the lines of the file), as do the texts of HttpParams and
AsyncData and the searches along lists of MemManager and IpCheck; ServerSound compares what is handled with what
was sent as flattened sequences, a fold over data too. LogFiles, RedisClient, MySql and ServiceProxy are within reach and not
proved yet.

## 5. Where the code and its comments part

Numbers 2, 4 and 8 have a run that ends in the counterexample. For the others the name in parentheses is the statement that
fails, or the constant to change; TLC shows it as follows.

* ClosedIsQueued (1) and StopStops (5): named in place of the properties of ConnectLife.cfg and Threads.cfg.
* A statement of a part, written `Streams!ClosedByPeerOnly`: in the one of MCThreads, MCParts, MCService and MCNode with that instance
  define a formula `part = "streams" => Streams!ClosedByPeerOnly` and check it, with Parts = {"streams"} in the cfg.
* A constant, written `Stray = TRUE`: changed in Parts.cfg, Service.cfg or Node.cfg, whose property of that part then fails.

1. *A connection nobody destroys* (CConnectManager.cpp:872). A service sends on an idle connection while the connection thread
   closes it. closeConnect finds no write buffer and declares the connection deleted; send(), already past its test,
   creates the buffer. The connection is in no queue, so nobody releases the buffer, and the sweep never destroys it.
2. *send_out_of_order* (CConnectManager.cpp:1036). "This block is empty" and "the next one is not" are two
   looks; in between the user can fill the first and go on to the second, and the first is skipped.
3. *An empty second read* (CConnectManager.cpp:989). A second piece without cells is passed to ::read, whose result 0 is
   taken for the end of the stream or, with a stale EAGAIN, for an empty socket.
4. *timer_freed_while_queued* (CService.cpp:198). The last expiry of a counted timer writes its count into a block
   that an earlier, still queued message shares; that message then frees the block under the later one.
5. *A stop that does not stop* (CConnectManager.cpp:769). stop() between the connection thread's test of isRunning() and its wait
   leaves it waiting; the same holds for the signal handler of CSrvMsgComm.cpp:43 on top of the waiting thread.
6. With the delayed flag store, CMultiW_SingleR_Queue::get(0) may sleep over a message until the next
   put (line 115; the flag and the slots are ordered by nothing). `NoLostWakeup` therefore excludes `tso`.
7. An end that comes between recv()'s return and addConnect() is never reported, and the service keeps a
   pointer to a block that will be used again. ConnectLife contains this behaviour (`held` may be stale) and its
   invariants hold in spite of it.
8. *two_writers* (CMsgComm.cpp:495). A service's new queue is in the receiver's list before its writerId is set, and a
   queue without an id is the network's: the middleware may adopt it, and two processes then write into one ring.
   A service that dies between lines 495 and 496 leaves readerId 0, and its successor writes a network header in front
   of local messages.
9. *A node left behind* (CNetMsgHandler.cpp:436). onRemoveConnect on the data thread reads a slot, clears it and resets
   the node; when the connection thread closes the connection and a new one arrives in between, the new one loses its
   slot, or the node counts as connected without being so, and nothing is forwarded to it any more (`SomeNodeStuck`).
10. *A package for another node* (CNetMsgHandler.cpp:135). The walk goes on along the queues of the node it is at and
   asks the slot for the connection; the slot may by then belong to another node.
11. doCreateConnect blanks the request before it uses its argument peerIp, which is the request's own text when
   connect() succeeds at once (CNetMsgHandler.cpp:358, CConnectManager.cpp:475): it finds no node of that address and
   closes the connection. NodeForwarding contains this (`OpenAtOnce`).
12. recv() reads only connections in normal state, so what a peer sent right before closing may be dropped,
   although CConnectManager.cpp:740 takes care to read it.
13. *A chain that is cut* (CConnectManager.cpp:492). doActiveConnect goes on to `activeConns->next` after it has sent the block
    back. When the service has already used it for another request, the rest of the chain is neither tried, nor answered,
    nor returned to the pool. The loop that ends for lack of memory (443-449) leaves the rest behind in the same way.
14. *A stop before the loop* (`Life!StopsAtAnyPoint`, `Life!InitMeansReady`, `Life!UnloadsLoaded`). CService.cpp:324 says
    that stopService may be called at any point, but run() sets m_runFlag = 0 after onInit and onLoad may have called it,
    and CConnectManager.cpp:195 sets m_status = 1 over a stop() that came first, so that the thread never ends.
    CNetMsgComm::init may return before the thread has created its handler object ("must be initialised before messages are
    sent", CNetMsgComm.cpp:113, with m_isRunning set at line 82), and onUnLoad is called for modules that never were loaded.
15. *A proxy released twice* (RemoveCloses = TRUE; CConnectMgr.cpp:97-109). A callback of closeProxy that calls
    removeConnectProxy with its default doClose begins the closing of a proxy that is being closed.
16. *createData refuses* (`Async!RefusedRightly`; CDataContent.cpp:51). strstr finds the service's id also as the end of
    another's (5 in "15|"), and then reports data that the service does not have; an index that comes round is found likewise.
17. *Ends of HTTP requests* (Unusual = {"early_answer"}, {"tls_fails_at_once"}, {"early_stop"}; `Client!LateEnds`,
    `Client!ClosedEnds`). A write that fails and a read in the same event queue the block twice (CHttpConnectMgr.cpp:268-269); a
    TLS handshake that fails inside doHttpConnect (109) queues a block that the caller gives back; a stop before the thread
    runs finds a status nobody has set. The time limit (HttpBaseDefine.h:38) is looked at only when events come, and an end of
    the connection that arrives together with data is not seen again, because events are edge triggered (256).
18. *HTTP requests received* (`Server!PipedServed`; SameAddress = TRUE). A second request in the same delivery waits
    for the next one. A connection's entry is found by the peer's address (CHttpSrv.cpp:425-432), so that the end of an old connection
    removes the entry of a new one. A method that is neither GET nor POST is never taken out of the buffer, and a POST that is
    longer than the buffer waits for ever.
19. *Lists of addresses* (ReadWhileUsed = TRUE; CNetMsgComm.cpp:182, 381). reLoadCfg empties and fills the lists in the service's
    thread while the connection thread searches them, without a lock. An entry with bits beyond its mask never matches, and
    a mask of 0 shifts by 32 (268).
20. *Start of a node* (`Starting!Finished`, `Starting!NodesKnown`). A middleware that dies in initShm leaves a memory that
    its successor takes for complete (CMsgComm.cpp:184), and for which services wait without end. A middleware started again over an
    existing memory does not add the nodes that are new in the file, and updateConfig (CSrvMsgComm.cpp:526-552) only when
    there are more nodes than before; a changed port makes a node appear twice.
21. *Redis commands that are repeated* (`Redis!DeleteTold`, `Redis!DoneOnce`, `Redis!TakenIsGiven`, `Redis!NoReplyKept`). When the reply is lost,
    the command is sent again: a delete then reports "was not there" (CRedis.cpp:525), an append or a push happens twice. A
    value that is popped into too small a buffer is gone; setList keeps its reply (906-913). Outside the model: incrHByFloat takes its
    result by value (703), and EXPIRE passes an int for %b's size (375).
22. *MySql* (ResultObjects = {"r1", "r2"}, NoMemory = TRUE; `Sql!WholeTransaction`). Unread results are dropped only through the object
    that fetched them (CMySql.cpp:47), so with two objects, or after a failed fetch, calls are refused. The second attempt
    after a lost connection (351-363) goes on outside the transaction that was lost with it.
23. *Log files* (LogThreads = {"t1", "t2"}; `Logs!ResumesLatest`). Two threads in one logger close and use each other's descriptor.
    After a restart the search for the file written last (CLogger.cpp:146) finds the first or the last, wherever
    the lines ended. When opening has failed TryTimes times, the logger never tries again.
24. *Configuration* (Reloading = TRUE, Stray = TRUE). Reading and lookups share m_curCfgData, so a lookup during a reading leads
    items into another section. "Items without a section are not supported" (CCfg.cpp:160) holds for the first reading
    only: at the next one they go to the section looked up last.
25. *Half a package* (OutOfMemory = TRUE; CDataHandler.cpp:513). When the buffers run out after the header or a part of the
    body, what has been written stays, and the retry writes the header again: the receiver loses the boundaries.
26. *A package that is too long* (`Packages!NeverFails`; CDataHandler.cpp:295). "A single package of more than this length closes the
    connection" (CSrvMsgComm.cpp:139) is what the receiver does; no sender asks for MsgPkgMaxSize. The package has been submitted
    as read by then, so it is lost without a notice, and so are the packages behind it that are already on the wire.
    A package of a user's header only is received by a service and silently dropped by a middleware (381).
27. *Values with separators* (`Texts!AnyValue`; CHttpData.cpp:335). setParamValue escapes nothing: "&" in a value begins another
    parameter for both parsers (74-97, 250), and in the first line a space ends all parameters (76, 82).

Seen and not modelled: a clock set back delays all timers, and a kill note left after a timer's last call
stays for ever (CTimer.cpp:61-70, by its comment); main() asks for three arguments and uses four (CService.cpp:1499);
CMemcache::get keeps the value when the caller's vector is not empty (148); a mutex between processes is lost with
the process that held it (MessageComm contains this as `Dead`).

## 6. What is not modelled

* ConnectLife: a full queue of closing notices, exhausted memory, and the release of a write buffer by the service's
  close() while the connection thread stands in writeToConnect (CDataHandler.cpp:645), which needs the positions of
  StreamBuffers and the owners of ConnectLife in one state.
* PackageFlow: a body longer than the caller's buffer is read in pieces there, without the choice of the buffer's size.
* CDataTransmit hands over bytes as they come: the steps of ConnectLife without heartbeats and malformed packages.
* CService: cleanUpProxy (1251), a loop of stop messages before clearProxy; the packing of messages; dispatch by protocol number,
  a look-up in a table; main() and the registration of modules before it; the statistics.
* MessageComm's queues to other nodes are in NodeForwarding, and its wait for the shared memory in NodeStart. A node has one address.
* NodeStart writes the address and the port of a node (CSrvMsgComm.cpp:554-555) in one step; a service that sends between the
  two would look for the new address with the old port, find no such node and fail, as before the first.
* JSON and XML bodies (CHttpData), prepared statements and conversions (CMySql): computation on values.
* CMemcache: single calls of a client library, with no state and no second attempt.
* CAddressQueue's clear() and resetSize(), which nobody calls beside a reader or writer; the statistics of CMessageQueue.
* The wrap-around of ids after 2^32 calls, which the code accepts in a comment (CTimer.cpp:61-70).
* Sockets, epoll, XML, MD5, processes, threads: wrappers and computation. Their outcomes are free choices, and
  mutexes and conditions guards, of the modules that use them.

## 7. Plan

Done, in this order: the lock-free queues (MultiWriterQueue, MessageQueue), the turn taking (SynNotify) and its
use (ConnectLife), the timers (ServiceTimer), the byte rings (StreamBuffers), the shared table of the middleware
(MessageComm) and its forwarding (NodeForwarding); then what surrounds this core: packages, connections opened by a service,
its life, proxies and kept data, the start of a node, HTTP in both roles, and the base and database libraries.

Next: a module that joins ConnectLife's release of write buffers with the position of writeToConnect inside the ring.
CMemcache and the computations of part 6 are not planned.

Proved: what part 4 lists, of thirteen modules. To prove next, in this order: LogFiles' OwnDescriptors;
ServiceProxy's ReleasedOnce and NamesLive.
