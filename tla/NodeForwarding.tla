----------------------------- MODULE NodeForwarding -----------------------------
(***************************************************************************)
(* The message middleware forwards packages from the queues of its node's  *)
(* services to the connections of other nodes (CNetMsgHandler).  It opens  *)
(* one connection to every node for which a queue exists, and keeps the    *)
(* nodes with a connection in an array of slots.  Two threads use slots    *)
(* and handlers without a lock: the connection thread opens and closes     *)
(* connections, the data thread walks the queues and sends, and drops a    *)
(* slot on its own when it finds the connection unusable.                  *)
(*                                                                         *)
(* Connections are as in ConnectLife, reduced to what decides here; queues *)
(* are reduced to how many packages they hold.                             *)
(***************************************************************************)
EXTENDS Naturals, FiniteSets, SequencesExt

CONSTANTS Nodes,         \* the other nodes, each with an address of its own
          Services,      \* services of this node
          Traffic,       \* choices of who sends to which nodes: sets of pairs of node and service
          MaxConns,      \* blocks of connections, by number
          NULL,
          Cap,           \* packages that fill a queue
          MaxBreaks,     \* bound on the connections, and attempts at one, that fail
          MaxRestarts    \* bound on the restarts of the middleware

ASSUME NodesAssumption == IsFiniteSet(Nodes) /\ Nodes # {}
ASSUME NullAssumption == NULL \notin Nodes \union Services \union Nat
ASSUME BoundsAssumption == Cap \in Nat \ {0} /\ {MaxConns, MaxBreaks, MaxRestarts} \subseteq Nat
ASSUME TrafficAssumption == Traffic \subseteq SUBSET (Nodes \X Services)

Conns == 1..MaxConns

NetNodeCount == Cardinality(Nodes)
Slots == 0..(NetNodeCount - 1)

VARIABLES routes,     \* the choice made
          readMsg,    \* readMsg[n]: the services with a queue for node n, the newest in front
          len,        \* len[n][s]: packages in the queue from s for n
          handler,    \* the nodes' NetMsgHandlers
          slot,       \* m_netMsgHandlers
          active,     \* m_activeConnects: the nodes to connect to
          conn,       \* the connections opened from this node
          dh,         \* the data thread, with m_curNetHandlerIdx and m_curNetQueueIdx
          breaks, restarts

vars == <<routes, readMsg, len, handler, slot, active, conn, dh, breaks, restarts>>
queues == <<routes, readMsg, len>>

NoConn == [node |-> NULL, st |-> "free", cb |-> NULL]
NotConnected == [status |-> "init", connId |-> NULL]
AtRest == [pc |-> "rest", curHandler |-> 0, curQueue |-> NULL, tries |-> 0, conn |-> NULL, node |-> NULL]

Init == /\ routes \in Traffic
        /\ readMsg = [n \in Nodes |-> <<>>]
        /\ len = [n \in Nodes |-> [s \in Services |-> 0]]
        /\ handler = [n \in Nodes |-> NotConnected]
        /\ slot = [i \in Slots |-> NULL]
        /\ active = {}
        /\ conn = [c \in Conns |-> NoConn]
        /\ dh = AtRest
        /\ breaks = 0 /\ restarts = 0

-----------------------------------------------------------------------------
(* The services of the node.                                               *)

\* CMsgComm::send: the first package for a node links a queue in front.
Put(n, s) ==
  /\ len[n][s] < Cap
  /\ len' = [len EXCEPT ![n][s] = @ + 1]
  /\ readMsg' = [readMsg EXCEPT ![n] = IF Contains(@, s) THEN @ ELSE <<s>> \o @]
  /\ UNCHANGED <<routes, handler, slot, active, conn, dh, breaks, restarts>>

-----------------------------------------------------------------------------
(* The connection thread.                                                  *)

\* MUTANT of Request: a node is asked for whether or not it is connected.
RequestAlways(n) ==
  /\ readMsg[n] # <<>> /\ n \notin active
  /\ active' = active \union {n}
  /\ UNCHANGED <<queues, handler, slot, conn, dh, breaks, restarts>>

\* getConnectData: ask for a connection to every node that is sent to and has none.
Request(n) ==
  /\ readMsg[n] # <<>> /\ handler[n].status = "init" /\ n \notin active
  /\ active' = active \union {n}
  /\ UNCHANGED <<queues, handler, slot, conn, dh, breaks, restarts>>

FreeConns == {c \in Conns : conn[c].st = "free"}
\* doActiveConnect passes over a node that is being connected to already.
Attempt(n, st) == /\ n \in active /\ FreeConns # {}
                  /\ \A c \in Conns : ~(conn[c].st = "login" /\ conn[c].node = n)
                  /\ conn' = [conn EXCEPT ![Min(FreeConns)] = [node |-> n, st |-> st, cb |-> NULL]]

Open(n) ==
  /\ Attempt(n, "login")
  /\ UNCHANGED <<queues, handler, slot, active, dh, breaks, restarts>>

\* connect() succeeds at once: doCreateConnect blanks the request, whose text is also its own
\* argument peerIp, finds no node of that address, and has the connection closed.
OpenAtOnce(n) ==
  /\ Attempt(n, "broken") /\ breaks < MaxBreaks
  /\ breaks' = breaks + 1
  /\ active' = active \ {n}
  /\ UNCHANGED <<queues, handler, slot, dh, restarts>>

\* The attempt fails, at once or later, or it times out.
OpenFails(n) ==
  /\ n \in active /\ breaks < MaxBreaks
  /\ breaks' = breaks + 1
  /\ active' = active \ {n}
  /\ conn' = [c \in Conns |-> IF conn[c].st = "login" /\ conn[c].node = n THEN NoConn ELSE conn[c]]
  /\ UNCHANGED <<queues, handler, slot, dh, restarts>>

FreeSlots == {i \in Slots : slot[i] = NULL}
FirstFree == IF FreeSlots = {} THEN NULL ELSE Min(FreeSlots)

\* doCreateConnect: the node is connected and gets a slot, whose number goes with the connection.
Connected(c) ==
  /\ conn[c].st = "login"
  /\ LET n == conn[c].node
         i == FirstFree
     IN  /\ conn' = [conn EXCEPT ![c].st = "up", ![c].cb = i]
         /\ handler' = [handler EXCEPT ![n] = [status |-> "normal", connId |-> c]]
         /\ slot' = IF i = NULL THEN slot ELSE [slot EXCEPT ![i] = n]
         /\ active' = active \ {n}
  /\ UNCHANGED <<queues, dh, breaks, restarts>>

\* The peer hangs up, a heartbeat is missed, a package is malformed: by either thread.
Break(c) ==
  /\ conn[c].st = "up" /\ breaks < MaxBreaks
  /\ breaks' = breaks + 1
  /\ conn' = [conn EXCEPT ![c].st = "broken"]
  /\ UNCHANGED <<queues, handler, slot, active, dh, restarts>>

\* What onRemoveConnect leaves of the node in a slot.
Removed(n) == [m \in Nodes |-> IF m = n THEN NotConnected ELSE handler[m]]

\* MUTANT of Close: the service's part in closing is forgotten when the data thread was first.
CloseQuietly(c) ==
  /\ conn[c].st = "broken"
  /\ conn' = [conn EXCEPT ![c].st = "shut"]
  /\ UNCHANGED <<queues, handler, slot, active, dh, breaks, restarts>>

\* closeConnect and onClosedConnect, in an event or in the sweep.
Close(c) ==
  /\ conn[c].st = "broken"
  /\ conn' = [conn EXCEPT ![c].st = "shut"]
  /\ IF conn[c].cb = NULL THEN UNCHANGED <<slot, handler>>
       ELSE /\ slot' = [slot EXCEPT ![conn[c].cb] = NULL]
            /\ handler' = Removed(slot[conn[c].cb])
  /\ UNCHANGED <<queues, active, dh, breaks, restarts>>

\* Only the sweep destroys, and the data thread then stands in waitConnecter.  Ids are not used
\* again: one that a handler may still hold is that of no connection from now on.
Destroy(c) ==
  /\ conn[c].st = "shut" /\ dh.pc = "rest"
  /\ conn' = [conn EXCEPT ![c] = NoConn]
  /\ handler' = [n \in Nodes |-> IF handler[n].connId = c THEN [handler[n] EXCEPT !.connId = NULL] ELSE handler[n]]
  /\ UNCHANGED <<queues, slot, active, dh, breaks, restarts>>

-----------------------------------------------------------------------------
(* The data thread: CDataHandler::readFromLogic.  A queue is a pair of     *)
(* node and service.                                                       *)

KeepAll == UNCHANGED <<queues, handler, slot, active, conn, breaks, restarts>>
Rest == [dh EXCEPT !.pc = "rest", !.tries = 0, !.conn = NULL, !.node = NULL]

FirstQueue(n) == IF readMsg[n] = <<>> THEN NULL ELSE <<n, Head(readMsg[n])>>
NextQueue(q) == LET list == readMsg[q[1]]
                    i == SelectInSeq(list, LAMBDA s : s = q[2])
                IN  IF i = Len(list) THEN NULL ELSE <<q[1], list[i + 1]>>

\* getNetHandlerMsgQueue: the walk goes on along the queues of the node it is at, and asks the
\* slot at each package which connection is the node's.
WalkQueue ==
  /\ dh.pc \in {"rest", "walk"} /\ dh.curQueue # NULL
  /\ LET q == dh.curQueue
         n == slot[dh.curHandler]
     IN  dh' = IF len[q[1]][q[2]] > 0 /\ n # NULL
                 THEN [dh EXCEPT !.pc = "send", !.conn = handler[n].connId]
                 ELSE [dh EXCEPT !.pc = "walk", !.curQueue = NextQueue(q)]
  /\ KeepAll

\* MUTANT of NextSlot: the slots are tried from the first one every time.
NextSlotFirst ==
  /\ dh.pc \in {"rest", "walk"} /\ dh.curQueue = NULL
  /\ LET i == dh.tries
     IN  dh' = IF dh.tries = NetNodeCount THEN Rest
                 ELSE [dh EXCEPT !.pc = "walk", !.tries = @ + 1, !.curHandler = i,
                                 !.curQueue = IF slot[i] = NULL THEN NULL ELSE FirstQueue(slot[i])]
  /\ KeepAll

\* getNetMsgQueue: on to the next slot, once round.
NextSlot ==
  /\ dh.pc \in {"rest", "walk"} /\ dh.curQueue = NULL
  /\ LET i == (dh.curHandler + 1) % NetNodeCount
     IN  dh' = IF dh.tries = NetNodeCount THEN Rest
                 ELSE [dh EXCEPT !.pc = "walk", !.tries = @ + 1, !.curHandler = i,
                                 !.curQueue = IF slot[i] = NULL THEN NULL ELSE FirstQueue(slot[i])]
  /\ KeepAll

Usable(c) == c # NULL /\ conn[c].st = "up"

\* The package is in the connection's hands; submitReadBuffer takes it from the queue.
Send ==
  /\ dh.pc = "send" /\ Usable(dh.conn)
  /\ len' = [len EXCEPT ![dh.curQueue[1]][dh.curQueue[2]] = @ - 1]
  /\ dh' = [Rest EXCEPT !.curQueue = NextQueue(@)]
  /\ UNCHANGED <<routes, readMsg, handler, slot, active, conn, breaks, restarts>>

\* The write to the socket fails: the package stays, and the connection is given up.
SendFails ==
  /\ dh.pc = "send" /\ Usable(dh.conn) /\ breaks < MaxBreaks
  /\ breaks' = breaks + 1
  /\ conn' = [conn EXCEPT ![dh.conn].st = "broken"]
  /\ dh' = Rest
  /\ UNCHANGED <<queues, handler, slot, active, restarts>>

\* onInvalidConnect and onRemoveConnect, access by access; without a connection or a slot
\* number there is nothing to do.
Invalid ==
  /\ dh.pc = "send" /\ ~Usable(dh.conn)
  /\ dh' = IF dh.conn # NULL /\ conn[dh.conn].cb # NULL
             THEN [dh EXCEPT !.pc = "clear", !.node = slot[conn[dh.conn].cb]]
             ELSE Rest
  /\ KeepAll

ClearSlot == /\ dh.pc = "clear"
             /\ slot' = [slot EXCEPT ![conn[dh.conn].cb] = NULL]
             /\ dh' = IF dh.node = NULL THEN Rest ELSE [dh EXCEPT !.pc = "reset"]
             /\ UNCHANGED <<queues, handler, active, conn, breaks, restarts>>

ResetNode == /\ dh.pc = "reset"
             /\ handler' = Removed(dh.node)
             /\ dh' = Rest
             /\ UNCHANGED <<queues, slot, active, conn, breaks, restarts>>

-----------------------------------------------------------------------------
\* The middleware dies and comes back to the same shared memory (initNetHandler).
Restart ==
  /\ restarts < MaxRestarts /\ restarts' = restarts + 1
  /\ handler' = [n \in Nodes |-> NotConnected]
  /\ slot' = [i \in Slots |-> NULL] /\ active' = {} /\ conn' = [c \in Conns |-> NoConn] /\ dh' = AtRest
  /\ UNCHANGED <<queues, breaks>>

DataThread == WalkQueue \/ NextSlot \/ Send \/ Invalid \/ ClearSlot \/ ResetNode
Arriving(n) == \E c \in Conns : conn[c].node = n /\ Connected(c)
Closing == \E c \in Conns : Close(c)
Sweeping == \E c \in Conns : Destroy(c)

Next == \/ \E r \in routes : Put(r[1], r[2])
        \/ \E n \in Nodes : Request(n) \/ Open(n) \/ OpenAtOnce(n) \/ OpenFails(n)
        \/ \E c \in Conns : Connected(c) \/ Break(c) \/ Close(c) \/ Destroy(c)
        \/ DataThread \/ SendFails \/ Restart

\* Both threads run; a node that is connected to again and again is reached in the end.
Fairness == /\ WF_vars(DataThread) /\ WF_vars(Closing) /\ SF_vars(Sweeping)
            /\ \A n \in Nodes : WF_vars(Request(n)) /\ WF_vars(Open(n)) /\ WF_vars(Arriving(n))
Spec == Init /\ [][Next]_vars /\ Fairness

-----------------------------------------------------------------------------
TypeOK ==
  /\ routes \in Traffic
  /\ readMsg \in [Nodes -> Seq(Services)]
  /\ len \in [Nodes -> [Services -> 0..Cap]]
  /\ handler \in [Nodes -> [status : {"init", "normal"}, connId : Conns \union {NULL}]]
  /\ slot \in [Slots -> Nodes \union {NULL}]
  /\ active \subseteq Nodes
  /\ conn \in [Conns -> [node : Nodes \union {NULL}, st : {"free", "login", "up", "broken", "shut"},
                         cb : Slots \union {NULL}]]
  /\ dh.pc \in {"rest", "walk", "send", "clear", "reset"}
  /\ dh.curHandler \in Slots /\ dh.tries \in 0..NetNodeCount
  /\ dh.curQueue \in (Nodes \X Services) \union {NULL}
  /\ dh.conn \in Conns \union {NULL} /\ dh.node \in Nodes \union {NULL}
  /\ breaks \in 0..MaxBreaks /\ restarts \in 0..MaxRestarts

(* No node has two attempts at a connection, and none while it counts as connected, although   *)
(* the data thread may take the state back at any time (getConnectData, doActiveConnect).      *)
NoSecondAttempt ==
  /\ \A n \in Nodes : n \in active => handler[n].status = "init"
  /\ \A c, d \in Conns : conn[c].st = "login" /\ conn[d].st = "login" /\ conn[c].node = conn[d].node => c = d
  /\ \A c \in Conns : conn[c].st = "login" => conn[c].node \in active

(* A slot in use belongs to a connection of its node that will free it, so that no slot is     *)
(* lost (doCreateConnect, onRemoveConnect).                                                    *)
SlotHeld ==
  /\ TypeOK
  /\ \A i \in Slots : slot[i] # NULL =>
       \E c \in Conns : conn[c].st \in {"up", "broken"} /\ conn[c].node = slot[i] /\ conn[c].cb = i

(* A node is connected to once, and its slot is held by its connection (CSrvMsgComm,           *)
(* CNetMsgHandler, CConnectManager::doActiveConnect).                                          *)
ForwardingSound == NoSecondAttempt /\ SlotHeld

(* MsgCommType.h:52: connId is the id of the node's connection; a package goes to its node.    *)
(* Does not hold: README, part 5.                                                              *)
RightNode == dh.pc = "send" /\ Usable(dh.conn) => conn[dh.conn].node = dh.curQueue[1]

\* A node that counts as connected, but is in no slot or has lost its connection: onRemoveConnect
\* on the data thread read a slot before it cleared it or reset the node, and a new connection
\* came in between.  The walk may stay at such a node's queues for ever.
SomeNodeStuck == \E n \in Nodes : handler[n].status = "normal" /\ (n \notin Range(slot) \/ handler[n].connId = NULL)

(* What is sent to a node leaves the queue, once connections last: neither other nodes nor     *)
(* other services starve it, and, but for the race of SomeNodeStuck, no end of a connection    *)
(* or restart leaves it unconnected (getConnectData, getNetMsgQueue, onRemoveConnect).         *)
Forwarded == \A r \in UNION Traffic :
               len[r[1]][r[2]] = Cap ~> len[r[1]][r[2]] < Cap \/ SomeNodeStuck
===============================================================================
