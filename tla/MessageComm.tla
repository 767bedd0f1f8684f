------------------------------ MODULE MessageComm ------------------------------
(***************************************************************************)
(* The table of message handlers and queues that the service processes of  *)
(* a node and its message middleware share (CMsgComm, and getNodeMsgQueue  *)
(* of CNetMsgHandler).  A service finds or allocates a handler when it     *)
(* starts, and every sender finds or allocates one queue per receiver.     *)
(* Blocks are taken under a mutex between processes, but the lists are     *)
(* searched without it, and ids are written after a block has been linked. *)
(* A process may die anywhere and start again; the table outlives it.      *)
(*                                                                         *)
(* A queue is abstracted to how many packages it holds (module             *)
(* MessageQueue has the ring), the middleware to the sender it is for the  *)
(* services of its own node.                                               *)
(***************************************************************************)
EXTENDS Integers, FiniteSets, SequencesExt

CONSTANTS Services,       \* the services of the node, by their ids
          Receivers,      \* those of them that messages are sent to
          Net,            \* the middleware; as an id, 0: not a service of this node
          ShmCount,       \* blocks of each kind, by number
          Cap,            \* packages that fill a queue
          MaxCrashes      \* bound on the deaths of processes

Processes == Services \union {Net}
Blocks == 1..ShmCount
None == 0                 \* no block, no process
Dead == -1                \* the holder of a mutex whose holder died

ASSUME NamesAssumption == Receivers \subseteq Services /\ Net \notin Services /\ {None, Dead} \cap Processes = {}
ASSUME BoundsAssumption == ShmCount \in Nat \ {0} /\ Cap \in Nat \ {0} /\ MaxCrashes \in Nat

VARIABLES nodeMsgHandlers,   \* list of the handlers in use
          msgHandlerList,    \* list of free handlers
          msgQueueList,      \* list of free queues
          handler,           \* MsgHandlerList, by block
          queue,             \* MsgQueueList, by block
          sharedMutex,       \* the process that holds it, or None, or Dead
          proc,              \* the processes
          crashes

table == <<nodeMsgHandlers, msgHandlerList, msgQueueList, handler, queue, sharedMutex>>
vars == <<table, proc, crashes>>

Off == [pc |-> "off", kind |-> "none", to |-> Net, idx |-> None, msgHandler |-> None,
        msgQueue |-> [r \in Receivers |-> None], curQueueIdx |-> None, begin |-> None]

Init == /\ nodeMsgHandlers = <<>> /\ msgHandlerList = [i \in Blocks |-> i]
        /\ msgQueueList = [i \in Blocks |-> i]
        /\ handler = [h \in Blocks |-> [readerId |-> Net, readMsg |-> <<>>]]
        /\ queue = [q \in Blocks |-> [writerId |-> Net, readerId |-> Net, len |-> 0]]
        /\ sharedMutex = None
        /\ proc = [a \in Processes |-> Off]
        /\ crashes = 0

\* The part of a list behind a block.
Behind(list, b) == LET i == SelectInSeq(list, LAMBDA x : x = b) IN SubSeq(list, i + 1, Len(list))
FirstOf(list) == IF list = <<>> THEN None ELSE Head(list)
\* The first block of a list that passes a test, or None: the searches along "next".
Find(list, Test(_)) == LET i == SelectInSeq(list, Test) IN IF i = 0 THEN None ELSE list[i]
HandlerOf(r) == Find(nodeMsgHandlers, LAMBDA h : handler[h].readerId = r)
\* MUTANT of QueueFrom: a queue without an id counts as free.
QueueFromFree(h, a) == Find(handler[h].readMsg, LAMBDA q : queue[q].writerId \in {a, Net})
QueueFrom(h, a) == Find(handler[h].readMsg, LAMBDA q : queue[q].writerId = a)

At(a, pc) == proc[a].pc = pc
GoTo(a, pc) == proc' = [proc EXCEPT ![a].pc = pc]
\* Go and get a block: a handler of one's own, or a queue to a receiver.
AskFor(a, kind, to) == proc' = [proc EXCEPT ![a].pc = "lock", ![a].kind = kind, ![a].to = to]

-----------------------------------------------------------------------------
(* Starting and dying.                                                     *)

\* MUTANT of Start: a restarted service asks for a new handler.
StartAnew(a) == /\ At(a, "off")
                /\ IF a = Net THEN GoTo(a, "idle") ELSE AskFor(a, "handler", Net)
                /\ UNCHANGED <<table, crashes>>

\* CMsgComm::init looks for the handler of the service's former life before it asks for a block.
\* The key file's lock admits one process for each service.
Start(a) ==
  /\ At(a, "off")
  /\ IF a # Net /\ HandlerOf(a) = None THEN AskFor(a, "handler", Net)
       ELSE proc' = [proc EXCEPT ![a].pc = "idle", ![a].msgHandler = IF a = Net THEN None ELSE HandlerOf(a)]
  /\ UNCHANGED <<table, crashes>>

\* A held mutex stays held: it is not of the robust kind.
Crash(a) == /\ ~At(a, "off") /\ crashes < MaxCrashes
            /\ crashes' = crashes + 1
            /\ proc' = [proc EXCEPT ![a] = Off]
            /\ sharedMutex' = IF sharedMutex = a THEN Dead ELSE sharedMutex
            /\ UNCHANGED <<nodeMsgHandlers, msgHandlerList, msgQueueList, handler, queue>>

-----------------------------------------------------------------------------
(* addHandlerToNode and addQueueToHandler: the mutex is taken and the head *)
(* of the free list read; the block is taken off that list, put in front   *)
(* of the other one, and the mutex released.                               *)

LockFor(a, kind, list) ==
  /\ At(a, "lock") /\ proc[a].kind = kind
  /\ proc' = [proc EXCEPT ![a].pc = IF list = <<>> THEN "unlock" ELSE "unlink", ![a].idx = FirstOf(list)]
  /\ sharedMutex' = a
  /\ UNCHANGED <<nodeMsgHandlers, msgHandlerList, msgQueueList, handler, queue, crashes>>

\* MUTANT of Lock: the shared mutex keeps only threads of one process apart.
LockLocally(a) == LockFor(a, "handler", msgHandlerList) \/ LockFor(a, "queue", msgQueueList)

Lock(a) == /\ sharedMutex = None
           /\ LockFor(a, "handler", msgHandlerList) \/ LockFor(a, "queue", msgQueueList)

Unlink(a) ==
  /\ At(a, "unlink") /\ GoTo(a, "link")
  /\ IF proc[a].kind = "handler"
       THEN msgHandlerList' = Behind(msgHandlerList, proc[a].idx) /\ UNCHANGED msgQueueList
       ELSE msgQueueList' = Behind(msgQueueList, proc[a].idx) /\ UNCHANGED msgHandlerList
  /\ UNCHANGED <<nodeMsgHandlers, handler, queue, sharedMutex, crashes>>

Link(a) ==
  /\ At(a, "link") /\ GoTo(a, "unlock")
  /\ IF proc[a].kind = "handler"
       THEN nodeMsgHandlers' = <<proc[a].idx>> \o nodeMsgHandlers /\ UNCHANGED handler
       ELSE /\ handler' = [handler EXCEPT ![HandlerOf(proc[a].to)].readMsg = <<proc[a].idx>> \o @]
            /\ UNCHANGED nodeMsgHandlers
  /\ UNCHANGED <<msgHandlerList, msgQueueList, queue, sharedMutex, crashes>>

\* A service that gets no handler does not start; a sender that gets no queue reports an error,
\* and may try again.
After(a) == IF proc[a].idx # None THEN [proc[a] EXCEPT !.pc = "setIds"]
              ELSE IF proc[a].kind = "handler" THEN Off
              ELSE [proc[a] EXCEPT !.pc = "idle", !.kind = "none", !.to = Net]

\* MUTANT of Unlock: the early return without a free block keeps the mutex.
UnlockOnlyWithBlock(a) ==
  /\ At(a, "unlock")
  /\ sharedMutex' = IF proc[a].idx = None THEN sharedMutex ELSE None
  /\ proc' = [proc EXCEPT ![a] = After(a)]
  /\ UNCHANGED <<nodeMsgHandlers, msgHandlerList, msgQueueList, handler, queue, crashes>>

Unlock(a) ==
  /\ At(a, "unlock")
  /\ sharedMutex' = None
  /\ proc' = [proc EXCEPT ![a] = After(a)]
  /\ UNCHANGED <<nodeMsgHandlers, msgHandlerList, msgQueueList, handler, queue, crashes>>

SetHandlerReader(s) ==
  /\ At(s, "setIds") /\ proc[s].kind = "handler"
  /\ handler' = [handler EXCEPT ![proc[s].idx].readerId = s]
  /\ proc' = [proc EXCEPT ![s].pc = "idle", ![s].kind = "none", ![s].idx = None, ![s].msgHandler = proc[s].idx]
  /\ UNCHANGED <<nodeMsgHandlers, msgHandlerList, msgQueueList, queue, sharedMutex, crashes>>

-----------------------------------------------------------------------------
(* Sending.                                                                *)

\* MUTANT of Write: the room is not looked at.
WriteBlindly(a, r, q, ids) ==
  /\ queue' = [queue EXCEPT ![q] = [ids EXCEPT !.len = @ + 1]]
  /\ proc' = [proc EXCEPT ![a].pc = "idle", ![a].kind = "none", ![a].to = Net, ![a].idx = None, ![a].msgQueue[r] = q]
  /\ UNCHANGED <<nodeMsgHandlers, msgHandlerList, msgQueueList, handler, sharedMutex, crashes>>

\* The queue is remembered and the package written; a full queue refuses it.
Write(a, r, q, ids) ==
  /\ queue' = [queue EXCEPT ![q] = [ids EXCEPT !.len = IF @ < Cap THEN @ + 1 ELSE @]]
  /\ proc' = [proc EXCEPT ![a].pc = "idle", ![a].kind = "none", ![a].to = Net, ![a].idx = None, ![a].msgQueue[r] = q]
  /\ UNCHANGED <<nodeMsgHandlers, msgHandlerList, msgQueueList, handler, sharedMutex, crashes>>

SendCached(a, r) ==
  /\ At(a, "idle") /\ proc[a].msgQueue[r] # None
  /\ Write(a, r, proc[a].msgQueue[r], queue[proc[a].msgQueue[r]])

Allocate(a, r) ==
  /\ AskFor(a, "queue", r)
  /\ UNCHANGED <<table, crashes>>

\* MUTANT of SendFirst: a sender that does not remember a queue asks for a new one.
SendFirstAnew(a, r) ==
  /\ At(a, "idle") /\ proc[a].msgQueue[r] = None /\ HandlerOf(r) # None
  /\ Allocate(a, r)

\* getReceiverMsgQueue and, for the middleware, getNodeMsgQueue: look for the queue first.
SendFirst(a, r) ==
  /\ At(a, "idle") /\ proc[a].msgQueue[r] = None /\ HandlerOf(r) # None
  /\ LET q == QueueFrom(HandlerOf(r), a)
     IN  IF q = None THEN Allocate(a, r) ELSE Write(a, r, q, queue[q])

\* The ids of a new queue are written when it is already in the receiver's list.
SetWriter(a) ==
  /\ At(a, "setIds") /\ proc[a].kind = "queue"
  /\ queue' = [queue EXCEPT ![proc[a].idx].writerId = a]
  /\ GoTo(a, "setReader")
  /\ UNCHANGED <<nodeMsgHandlers, msgHandlerList, msgQueueList, handler, sharedMutex, crashes>>

SetReader(a) ==
  /\ At(a, "setReader")
  /\ Write(a, proc[a].to, proc[a].idx, [queue[proc[a].idx] EXCEPT !.readerId = proc[a].to])

-----------------------------------------------------------------------------
(* Receiving: the walk around the receiver's queues, one queue a step.     *)

ReadMsg(s) == handler[proc[s].msgHandler].readMsg
Successor(s, q) == FirstOf(Behind(ReadMsg(s), q))

\* MUTANT of BeginRecv: every walk starts with the newest queue.
BeginRecvFront(s) ==
  /\ At(s, "idle") /\ s \in Services /\ ReadMsg(s) # <<>>
  /\ proc' = [proc EXCEPT ![s].pc = "recv", ![s].curQueueIdx = Head(ReadMsg(s)), ![s].begin = Head(ReadMsg(s))]
  /\ UNCHANGED <<table, crashes>>

\* It goes on where the last one stopped, or with the newest queue after the last of the list.
BeginRecv(s) ==
  /\ At(s, "idle") /\ s \in Services /\ ReadMsg(s) # <<>>
  /\ LET q == IF proc[s].curQueueIdx = None THEN Head(ReadMsg(s)) ELSE proc[s].curQueueIdx
     IN  proc' = [proc EXCEPT ![s].pc = "recv", ![s].curQueueIdx = q, ![s].begin = q]
  /\ UNCHANGED <<table, crashes>>

\* A package is found: read it and step to the next queue.
Take(s) ==
  /\ At(s, "recv")
  /\ LET q == proc[s].curQueueIdx
     IN  /\ queue[q].len > 0
         /\ queue' = [queue EXCEPT ![q].len = @ - 1]
         /\ proc' = [proc EXCEPT ![s].pc = "idle", ![s].begin = None, ![s].curQueueIdx = Successor(s, q)]
  /\ UNCHANGED <<nodeMsgHandlers, msgHandlerList, msgQueueList, handler, sharedMutex, crashes>>

\* No package: go round, and give up where the walk began.
Skip(s) ==
  /\ At(s, "recv")
  /\ LET q == proc[s].curQueueIdx
         next == IF Successor(s, q) = None THEN Head(ReadMsg(s)) ELSE Successor(s, q)
     IN  /\ queue[q].len = 0
         /\ proc' = [proc EXCEPT ![s].curQueueIdx = next,
                                 ![s].pc = IF next = proc[s].begin THEN "idle" ELSE "recv",
                                 ![s].begin = IF next = @ THEN None ELSE @]
  /\ UNCHANGED <<table, crashes>>

-----------------------------------------------------------------------------
Step(a) == Unlink(a) \/ Link(a) \/ Unlock(a) \/ SetHandlerReader(a) \/ SetWriter(a) \/ SetReader(a)
             \/ Take(a) \/ Skip(a)

Next == \E a \in Processes :
          \/ Start(a) \/ Crash(a) \/ Lock(a) \/ Step(a) \/ BeginRecv(a)
          \/ \E r \in Receivers : SendCached(a, r) \/ SendFirst(a, r)

\* A live process goes on with what it began; a receiver gets the mutex if it is free again and again,
\* and its main loop keeps calling recv.
Fairness == /\ \A a \in Processes : WF_vars(Step(a))
            /\ \A r \in Receivers : SF_vars(Lock(r)) /\ SF_vars(BeginRecv(r))
Spec == Init /\ [][Next]_vars /\ Fairness

-----------------------------------------------------------------------------
TypeOK ==
  /\ {nodeMsgHandlers, msgHandlerList, msgQueueList} \subseteq Seq(Blocks)
  /\ handler \in [Blocks -> [readerId : Processes, readMsg : Seq(Blocks)]]
  /\ queue \in [Blocks -> [writerId : Processes, readerId : Processes, len : 0..Cap]]
  /\ sharedMutex \in Processes \union {None, Dead}
  /\ proc \in [Processes -> [pc : {"off", "idle", "lock", "unlink", "link", "unlock", "setIds", "setReader", "recv"},
                           kind : {"none", "handler", "queue"}, to : Processes,
                           idx : Blocks \union {None}, msgHandler : Blocks \union {None},
                           msgQueue : [Receivers -> Blocks \union {None}],
                           curQueueIdx : Blocks \union {None}, begin : Blocks \union {None}]]
  /\ crashes \in 0..MaxCrashes

handlerLists == [free |-> msgHandlerList, used |-> nodeMsgHandlers]
queueLists == [h \in Blocks \union {None} |-> IF h = None THEN msgQueueList ELSE handler[h].readMsg]
\* No block is twice in these lists; the blocks that are in none of them.
OnceIn(lists) == /\ \A l \in DOMAIN lists : IsInjective(lists[l])
                 /\ \A l, m \in DOMAIN lists : l # m => Range(lists[l]) \intersect Range(lists[m]) = {}
NotIn(lists) == {b \in Blocks : \A l \in DOMAIN lists : b \notin Range(lists[l])}

(* However the processes interleave and wherever they die, no block is in two lists, and none   *)
(* is lost but one that is just being moved, or was when the holder of the mutex died          *)
(* (addHandlerToNode, addQueueToHandler): every other handler is free or in the node's list,   *)
(* every other queue is free or with one handler.                                              *)
BlocksOwnedOnce ==
  LET moving == {<<proc[a].kind, proc[a].idx>> : a \in {p \in Processes : At(p, "link")}}
      missing == ({"handler"} \X NotIn(handlerLists)) \union ({"queue"} \X NotIn(queueLists))
  IN  /\ OnceIn(handlerLists) /\ OnceIn(queueLists)
      /\ IF sharedMutex = Dead THEN moving = {} /\ \A x, y \in missing : x = y ELSE missing = moving

(* A service that comes back finds what it had: there are never two handlers for one service,  *)
(* nor two queues from one service to another (the searches of init and getReceiverMsgQueue).  *)
FoundAgain ==
  /\ \A h, k \in Range(nodeMsgHandlers) :
       handler[h].readerId = handler[k].readerId /\ handler[h].readerId # Net => h = k
  /\ \A h \in Range(nodeMsgHandlers) : \A q, p \in Range(handler[h].readMsg) :
       queue[q].writerId = queue[p].writerId /\ queue[q].writerId # Net => q = p

Writers(q) == {a \in Processes : \E r \in Receivers : proc[a].msgQueue[r] = q}

(* A queue has one writer at a time, as its unlocked indices require; here among the services, *)
(* and with the reader that the writer means (getReceiverMsgQueue).                            *)
ServicesWriteAlone ==
  /\ \A q \in Blocks : Cardinality(Writers(q) \ {Net}) <= 1
  /\ \A a \in Services, r \in Receivers :
       proc[a].msgQueue[r] # None => /\ queue[proc[a].msgQueue[r]].writerId = a
                                     /\ Contains(handler[HandlerOf(r)].readMsg, proc[a].msgQueue[r])

(* The blocks of shared memory stay whole, a process that comes back finds its own, and no two  *)
(* services write into one queue, wherever processes die (CMsgComm).                           *)
MessagesSound == TypeOK /\ BlocksOwnedOnce /\ FoundAgain /\ ServicesWriteAlone

(* MsgCommType.h:37: a queue's writer is the middleware or one service of the node, and        *)
(* writerId says which.  The code links a queue, with writerId 0, before it writes the id.     *)
OneWriter == \A q \in Blocks : Cardinality(Writers(q)) <= 1

(* The walk around the queues serves them all: while its service runs, no full queue stays     *)
(* full, however busy the others are (getSrvMsgQueue, recv).                                   *)
Crowded(s, q) == /\ queue[q].len = Cap
                 /\ proc[s].pc # "off" /\ proc[s].msgHandler # None /\ Contains(ReadMsg(s), q)
Served ==
  \A s \in Receivers, q \in Blocks :
    Crowded(s, q) ~> (queue[q].len < Cap \/ At(s, "off") \/ sharedMutex = Dead)

(* Who has the mutex gives it back on every way out, or died with it (addQueueToHandler's      *)
(* returns).                                                                                   *)
MutexReleased == sharedMutex \in Processes ~> sharedMutex \notin Processes

(* Nobody waits for ever, for room in a queue or for the mutex (CMsgComm).                     *)
NobodyWaits == Served /\ MutexReleased
===============================================================================
