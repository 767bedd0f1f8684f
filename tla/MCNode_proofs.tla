----------------------------- MODULE MCNode_proofs -----------------------------
(***************************************************************************)
(* The middleware between its two threads, packages between two nodes, and *)
(* the start of middleware and services.                                   *)
(* A node is connected to once and no slot is lost, for any number of      *)
(* nodes, services, blocks of connections and slots, and wherever          *)
(* connections break and the middleware restarts.  Packages are framed,    *)
(* and handed over once and in their order, whatever packages are given,   *)
(* however the stream is cut into pieces and wherever the connection ends. *)
(* Services use memory that is whole, and nodes have one slot, whichever   *)
(* processes die and whatever the list of nodes becomes.                   *)
(***************************************************************************)
EXTENDS MCNode, FiniteSetTheorems, SequenceTheorems, WellFoundedInduction, TLAPS

Pairs == Nodes \X Services
\* The data thread as a record of its fields; what it is to send is in a queue.
Typed ==
  /\ TypeOK
  /\ dh = [pc |-> dh.pc, curHandler |-> dh.curHandler, curQueue |-> dh.curQueue, tries |-> dh.tries,
           conn |-> dh.conn, node |-> dh.node]
  /\ dh.pc = "send" => dh.curQueue \in Pairs /\ len[dh.curQueue[1]][dh.curQueue[2]] > 0

\* A slot in use belongs to a connection of its node that will free it.
Held == \A i \in Slots : slot[i] # NULL =>
          \E c \in Conns : conn[c].st \in {"up", "broken"} /\ conn[c].node = slot[i] /\ conn[c].cb = i

ForwardingInv == Typed /\ NoSecondAttempt /\ Held
-------------------------------------------------------------------------------
\* A set of numbers has a least one.
LEMMA LeastNumber == ASSUME NEW T, T \subseteq Nat, T # {} PROVE Min(T) \in T /\ \A y \in T : Min(T) =< y
<1>1. IsWellFoundedOn(OpToRel(<, Nat), Nat)
    BY NatLessThanWellFounded
<1>2. PICK x \in T : \A y \in T : <<y, x>> \notin OpToRel(<, Nat)
    BY <1>1, WFMin
<1>3. \A y \in T : ~ (y < x)
    BY <1>2, Zenon DEF OpToRel
<1>4. \A y \in T : x =< y
    BY <1>3
<1> QED
    BY <1>4 DEF Min

\* What the walk and the slots are typed by.
LEMMA Sizes ==
  /\ NetNodeCount \in Nat \ {0} /\ 0 \in Slots /\ Slots \subseteq Nat /\ Conns \subseteq Nat
  /\ \A i \in Slots : (i + 1) % NetNodeCount \in Slots
  /\ NULL \notin Nodes /\ NULL \notin Slots /\ NULL \notin Conns
<1>1. NetNodeCount \in Nat
    BY NodesAssumption, FS_CardinalityType DEF NetNodeCount
<1>2. NetNodeCount # 0
    BY NodesAssumption, FS_EmptySet DEF NetNodeCount
<1>3. 0 \in Slots /\ Slots \subseteq Nat /\ Conns \subseteq Nat
    BY <1>1, <1>2, BoundsAssumption DEF Slots, Conns
<1>4. ASSUME NEW i \in Slots PROVE (i + 1) % NetNodeCount \in Slots
    BY <1>1, <1>2 DEF Slots
<1> QED
    BY <1>1, <1>2, <1>3, <1>4, NullAssumption

\* The successor of a queue in its node's list is a queue of that node's, or none.
LEMMA NextQueueTyped ==
  ASSUME readMsg \in [Nodes -> Seq(Services)], NEW q \in Pairs
  PROVE  NextQueue(q) \in Pairs \cup {NULL}
<1> DEFINE list == readMsg[q[1]]
           I == {j \in 1 .. Len(list) : list[j] = q[2]}
           i == IF I # {} THEN Min(I) ELSE 0
<1>1. q[1] \in Nodes /\ q[2] \in Services /\ list \in Seq(Services)
    BY DEF Pairs
<1> PICK n \in Nat : n = Len(list)
    BY <1>1, LenProperties
<1>2. i \in 0 .. n
    <2>1. I \subseteq Nat /\ I \subseteq 1 .. n
        OBVIOUS
    <2>2. I # {} => Min(I) \in I
        BY <2>1, LeastNumber
    <2>3. 0 \in 0 .. n /\ 1 .. n \subseteq 0 .. n
        OBVIOUS
    <2> HIDE DEF I
    <2> QED
        BY <2>1, <2>2, <2>3
<1>3. NextQueue(q) = IF i = n THEN NULL ELSE <<q[1], list[i + 1]>>
    BY DEF NextQueue, SelectInSeq
<1> HIDE DEF i
<1>4. i # n => list[i + 1] \in Services
    <2> SUFFICES ASSUME i # n PROVE list[i + 1] \in Services
        OBVIOUS
    <2>1. i + 1 \in 1 .. n
        BY <1>2
    <2> HIDE DEF list
    <2> QED
        BY <1>1, <2>1, LenProperties
<1> QED
    BY <1>1, <1>3, <1>4 DEF Pairs

\* So is the first queue of a node.
LEMMA FirstQueueTyped ==
  ASSUME readMsg \in [Nodes -> Seq(Services)], NEW n \in Nodes
  PROVE  FirstQueue(n) \in Pairs \cup {NULL}
<1>1. readMsg[n] # <<>> => Head(readMsg[n]) \in Services
    BY HeadTailProperties
<1> QED
    BY <1>1 DEF FirstQueue, Pairs

ConnRec == [node : Nodes \cup {NULL}, st : {"free", "login", "up", "broken", "shut"}, cb : Slots \cup {NULL}]
HandlerRec == [status : {"init", "normal"}, connId : Conns \cup {NULL}]

\* The data thread's record.
DhRec(d) == /\ d = [pc |-> d.pc, curHandler |-> d.curHandler, curQueue |-> d.curQueue, tries |-> d.tries,
                    conn |-> d.conn, node |-> d.node]
            /\ d.pc \in {"rest", "walk", "send", "clear", "reset"}
            /\ d.curHandler \in Slots /\ d.tries \in 0 .. NetNodeCount
            /\ d.curQueue \in Pairs \cup {NULL} /\ d.conn \in Conns \cup {NULL} /\ d.node \in Nodes \cup {NULL}

\* What the types say.
LEMMA Vars ==
  ASSUME ForwardingInv
  PROVE  /\ readMsg \in [Nodes -> Seq(Services)] /\ len \in [Nodes -> [Services -> 0 .. Cap]]
         /\ handler \in [Nodes -> HandlerRec] /\ slot \in [Slots -> Nodes \cup {NULL}] /\ active \subseteq Nodes
         /\ conn \in [Conns -> ConnRec] /\ \A c \in Conns : conn[c] \in ConnRec
         /\ \A n \in Nodes : handler[n] \in HandlerRec
         /\ DhRec(dh) /\ breaks \in 0 .. MaxBreaks /\ restarts \in 0 .. MaxRestarts
         /\ MaxBreaks \in Nat /\ MaxRestarts \in Nat /\ Cap \in Nat /\ routes \subseteq Pairs /\ routes \in Traffic
<1>1. /\ readMsg \in [Nodes -> Seq(Services)] /\ len \in [Nodes -> [Services -> 0 .. Cap]]
      /\ handler \in [Nodes -> HandlerRec] /\ slot \in [Slots -> Nodes \cup {NULL}] /\ active \subseteq Nodes
      /\ conn \in [Conns -> ConnRec]
      /\ breaks \in 0 .. MaxBreaks /\ restarts \in 0 .. MaxRestarts /\ routes \in Traffic
    BY DEF ForwardingInv, Typed, TypeOK, ConnRec, HandlerRec
<1>2. DhRec(dh)
    BY DEF ForwardingInv, Typed, TypeOK, DhRec, Pairs
<1>3. routes \subseteq Pairs
    BY <1>1, TrafficAssumption DEF Pairs
<1> QED
    BY <1>1, <1>2, <1>3, BoundsAssumption

\* What the types need.
LEMMA TypedAgain ==
  ASSUME routes' \in Traffic, readMsg' \in [Nodes -> Seq(Services)], len' \in [Nodes -> [Services -> 0 .. Cap]],
         handler' \in [Nodes -> HandlerRec], slot' \in [Slots -> Nodes \cup {NULL}], active' \subseteq Nodes,
         conn' \in [Conns -> ConnRec], DhRec(dh'), breaks' \in 0 .. MaxBreaks, restarts' \in 0 .. MaxRestarts,
         dh'.pc = "send" => dh'.curQueue \in Pairs /\ len'[dh'.curQueue[1]][dh'.curQueue[2]] > 0
  PROVE  Typed'
<1>1. TypeOK'
    BY DEF TypeOK, ConnRec, HandlerRec, DhRec, Pairs
<1> QED
    BY <1>1 DEF Typed, DhRec

-------------------------------------------------------------------------------
\* A service puts a package into a queue.
LEMMA PutStep == ASSUME ForwardingInv, NEW r \in routes, Put(r[1], r[2]) PROVE ForwardingInv'
<1>1. r[1] \in Nodes /\ r[2] \in Services
    BY Vars DEF Pairs
<1> DEFINE n == r[1]
           s == r[2]
<1>2. /\ len[n][s] < Cap /\ len' = [len EXCEPT ![n][s] = @ + 1]
      /\ readMsg' = [readMsg EXCEPT ![n] = IF Contains(@, s) THEN @ ELSE <<s>> \o @]
      /\ UNCHANGED <<routes, handler, slot, active, conn, dh, breaks, restarts>>
    BY DEF Put
<1> HIDE DEF n, s
<1>3. n \in Nodes /\ s \in Services
    BY <1>1 DEF n, s
<1>4. len' \in [Nodes -> [Services -> 0 .. Cap]] /\ \A p \in Pairs : len[p[1]][p[2]] > 0 => len'[p[1]][p[2]] > 0
    <2>1. len[n] \in [Services -> 0 .. Cap] /\ len[n][s] + 1 \in 0 .. Cap /\ len[n][s] \in Nat
        BY <1>2, <1>3, Vars
    <2>2. len' = [len EXCEPT ![n] = [len[n] EXCEPT ![s] = len[n][s] + 1]]
        BY <1>2, <1>3, Vars
    <2>3. [len[n] EXCEPT ![s] = len[n][s] + 1] \in [Services -> 0 .. Cap]
        BY <2>1
    <2>4. len' \in [Nodes -> [Services -> 0 .. Cap]]
        BY <1>3, <2>2, <2>3, Vars
    <2>5. ASSUME NEW p \in Pairs, len[p[1]][p[2]] > 0 PROVE len'[p[1]][p[2]] > 0
        <3>1. p[1] \in Nodes /\ p[2] \in Services
            BY DEF Pairs
        <3>2. CASE p[1] = n /\ p[2] = s
            BY <1>3, <2>1, <2>2, <3>2, Vars
        <3>3. CASE ~(p[1] = n /\ p[2] = s)
            BY <1>3, <2>1, <2>2, <2>5, <3>1, <3>3, Vars
        <3> QED
            BY <3>2, <3>3
    <2> QED
        BY <2>4, <2>5
<1>5. readMsg' \in [Nodes -> Seq(Services)]
    <2>1. readMsg[n] \in Seq(Services) /\ <<s>> \in Seq(Services)
        BY <1>3, Vars
    <2>2. <<s>> \o readMsg[n] \in Seq(Services)
        BY <2>1, ConcatProperties
    <2> QED
        BY <1>2, <1>3, <2>1, <2>2, Vars
<1>6. dh.pc = "send" => dh.curQueue \in Pairs /\ len'[dh.curQueue[1]][dh.curQueue[2]] > 0
    BY <1>4 DEF ForwardingInv, Typed
<1>7. Typed'
    BY <1>2, <1>4, <1>5, <1>6, Vars, TypedAgain
<1> QED
    BY <1>2, <1>7 DEF ForwardingInv, NoSecondAttempt, Held

\* A step of the data thread's that only moves it on.
LEMMA MovesOn ==
  ASSUME ForwardingInv, KeepAll, DhRec(dh'),
         dh'.pc = "send" => dh'.curQueue \in Pairs /\ len[dh'.curQueue[1]][dh'.curQueue[2]] > 0
  PROVE  ForwardingInv'
<1>1. Typed'
    BY Vars, TypedAgain DEF KeepAll, queues
<1> QED
    BY <1>1 DEF ForwardingInv, NoSecondAttempt, Held, KeepAll

\* The data thread rests.
LEMMA RestTyped == ASSUME ForwardingInv PROVE DhRec(Rest) /\ Rest.pc = "rest" /\ Rest.curQueue = dh.curQueue
<1>1. 0 \in 0 .. NetNodeCount
    BY Sizes
<1>2. DhRec(dh)
    BY Vars
<1>3. ASSUME NEW d, d = [dh EXCEPT !.pc = "rest", !.tries = 0, !.conn = NULL, !.node = NULL]
      PROVE  DhRec(d) /\ d.pc = "rest" /\ d.curQueue = dh.curQueue
    BY <1>1, <1>2, <1>3 DEF DhRec
<1> QED
    BY <1>3 DEF Rest

\* The walk finds a package, or goes on along the queues.
LEMMA WalkQueueStep == ASSUME ForwardingInv, WalkQueue PROVE ForwardingInv'
<1> DEFINE q == dh.curQueue
           n == slot[dh.curHandler]
<1>1. q \in Pairs /\ dh.curHandler \in Slots /\ n \in Nodes \cup {NULL}
    BY Vars, SMTT(60) DEF WalkQueue, DhRec
<1>2. CASE len[q[1]][q[2]] > 0 /\ n # NULL /\ dh' = [dh EXCEPT !.pc = "send", !.conn = handler[n].connId]
    <2>1. handler[n].connId \in Conns \cup {NULL}
        <3>1. handler[n] \in HandlerRec
            BY <1>1, <1>2, Vars
        <3> QED
            BY <3>1 DEF HandlerRec
    <2>2. DhRec(dh') /\ dh'.curQueue = q
        BY <1>2, <2>1, Vars DEF DhRec
    <2> QED
        BY <1>1, <1>2, <2>2, MovesOn DEF WalkQueue
<1>3. CASE dh' = [dh EXCEPT !.pc = "walk", !.curQueue = NextQueue(q)]
    <2>1. NextQueue(q) \in Pairs \cup {NULL}
        BY <1>1, Vars, NextQueueTyped
    <2>2. DhRec(dh') /\ dh'.pc = "walk"
        BY <1>3, <2>1, Vars DEF DhRec
    <2> QED
        BY <2>2, MovesOn DEF WalkQueue
<1> QED
    BY <1>2, <1>3 DEF WalkQueue

\* The walk goes on to the next slot, or ends.
LEMMA NextSlotStep == ASSUME ForwardingInv, NextSlot PROVE ForwardingInv'
<1> DEFINE i == (dh.curHandler + 1) % NetNodeCount
           q == IF slot[i] = NULL THEN NULL ELSE FirstQueue(slot[i])
<1>1. CASE dh' = Rest
    BY <1>1, RestTyped, MovesOn, ZenonT(60) DEF NextSlot
<1>2. CASE /\ dh.tries # NetNodeCount
           /\ dh' = [dh EXCEPT !.pc = "walk", !.tries = @ + 1, !.curHandler = i, !.curQueue = q]
    <2>1. i \in Slots
        BY Vars, Sizes DEF DhRec
    <2>2. q \in Pairs \cup {NULL}
        BY <2>1, Vars, FirstQueueTyped
    <2>3. dh.tries + 1 \in 0 .. NetNodeCount
        BY <1>2, Vars, Sizes, SMTT(60) DEF DhRec
    <2> HIDE DEF i, q
    <2>4. DhRec(dh') /\ dh'.pc = "walk"
        BY <1>2, <2>1, <2>2, <2>3, Vars DEF DhRec
    <2> QED
        BY <2>4, MovesOn DEF NextSlot
<1> QED
    BY <1>1, <1>2 DEF NextSlot

\* The data thread finds the connection of a package unusable.
LEMMA InvalidStep == ASSUME ForwardingInv, Invalid PROVE ForwardingInv'
<1>1. CASE dh' = Rest
    <2>1. KeepAll
        BY DEF Invalid
    <2>2. DhRec(dh') /\ dh'.pc = "rest"
        BY <1>1, RestTyped, Zenon
    <2> QED
        BY <2>1, <2>2, MovesOn
<1>2. CASE /\ dh.conn # NULL /\ conn[dh.conn].cb # NULL
           /\ dh' = [dh EXCEPT !.pc = "clear", !.node = slot[conn[dh.conn].cb]]
    <2>1. dh.conn \in Conns
        BY <1>2, Vars DEF DhRec
    <2>2. conn[dh.conn] \in ConnRec
        BY <2>1, Vars
    <2>3. conn[dh.conn].cb \in Slots
        BY <1>2, <2>2 DEF ConnRec
    <2>4. slot[conn[dh.conn].cb] \in Nodes \cup {NULL}
        BY <2>3, Vars
    <2>5. DhRec(dh') /\ dh'.pc = "clear"
        BY <1>2, <2>4, Vars DEF DhRec
    <2> QED
        BY <2>5, MovesOn DEF Invalid
<1> QED
    BY <1>1, <1>2, SMTT(60) DEF Invalid

\* A package is sent and leaves its queue.
LEMMA SendStep == ASSUME ForwardingInv, Send PROVE ForwardingInv'
<1> DEFINE n == dh.curQueue[1]
           s == dh.curQueue[2]
<1>1. /\ dh.pc = "send" /\ len' = [len EXCEPT ![n][s] = @ - 1] /\ dh' = [Rest EXCEPT !.curQueue = NextQueue(@)]
      /\ UNCHANGED <<routes, readMsg, handler, slot, active, conn, breaks, restarts>>
    BY DEF Send
<1>2. dh.curQueue \in Pairs /\ len[n][s] > 0
    BY <1>1 DEF ForwardingInv, Typed
<1>3. n \in Nodes /\ s \in Services
    BY <1>2 DEF Pairs
<1> HIDE DEF n, s
<1>4. len' \in [Nodes -> [Services -> 0 .. Cap]]
    <2>1. len[n] \in [Services -> 0 .. Cap] /\ len[n][s] - 1 \in 0 .. Cap
        BY <1>2, <1>3, Vars
    <2>2. len' = [len EXCEPT ![n] = [len[n] EXCEPT ![s] = len[n][s] - 1]]
        BY <1>1, <1>3, Vars
    <2>3. [len[n] EXCEPT ![s] = len[n][s] - 1] \in [Services -> 0 .. Cap]
        BY <2>1
    <2> QED
        BY <1>3, <2>2, <2>3, Vars
<1>5. NextQueue(dh.curQueue) \in Pairs \cup {NULL}
    BY <1>2, Vars, NextQueueTyped
<1>6. DhRec(dh') /\ dh'.pc = "rest"
    BY <1>1, <1>5, RestTyped DEF DhRec
<1>7. Typed'
    BY <1>1, <1>4, <1>6, Vars, TypedAgain
<1> QED
    BY <1>1, <1>7 DEF ForwardingInv, NoSecondAttempt, Held

-------------------------------------------------------------------------------
\* The connection thread asks for a connection to a node that isn't connected.
LEMMA RequestStep == ASSUME ForwardingInv, NEW n \in Nodes, Request(n) PROVE ForwardingInv'
<1>1. Typed'
    BY Vars, TypedAgain DEF Request, queues, ForwardingInv, Typed
<1> QED
    BY <1>1 DEF Request, ForwardingInv, NoSecondAttempt, Held

\* An attempt at a connection takes a free block.
LEMMA Attempting ==
  ASSUME ForwardingInv, NEW n \in Nodes, NEW st \in {"login", "broken"}, Attempt(n, st)
  PROVE  /\ conn' \in [Conns -> ConnRec]
         /\ \E c \in Conns : /\ conn[c].st = "free" /\ conn'[c].st = st /\ conn'[c].node = n
                             /\ \A d \in Conns \ {c} : conn'[d] = conn[d]
<1> DEFINE c == Min(FreeConns)
           r == [node |-> n, st |-> st, cb |-> NULL]
<1>1. c \in Conns /\ conn[c].st = "free"
    <2>1. FreeConns \subseteq Nat /\ FreeConns # {}
        BY Sizes DEF FreeConns, Attempt
    <2>2. c \in FreeConns
        BY <2>1, LeastNumber
    <2> QED
        BY <2>2 DEF FreeConns
<1>2. conn' = [conn EXCEPT ![c] = r]
    BY DEF Attempt
<1> HIDE DEF c
<1>3. r \in ConnRec
    BY DEF ConnRec
<1> QED
    BY <1>1, <1>2, <1>3, Vars

\* An attempt at a connection begins.
LEMMA OpenStep == ASSUME ForwardingInv, NEW n \in Nodes, Open(n) PROVE ForwardingInv'
<1>1. /\ n \in active /\ UNCHANGED <<queues, handler, slot, active, dh, breaks, restarts>>
      /\ \A c \in Conns : ~(conn[c].st = "login" /\ conn[c].node = n)
    BY DEF Open, Attempt
<1>2. conn' \in [Conns -> ConnRec]
    BY Attempting DEF Open
<1> PICK c \in Conns : /\ conn[c].st = "free" /\ conn'[c].st = "login" /\ conn'[c].node = n
                       /\ \A d \in Conns \ {c} : conn'[d] = conn[d]
    BY Attempting DEF Open
<1>3. Typed'
    BY <1>1, <1>2, Vars, TypedAgain DEF queues, ForwardingInv, Typed
<1>4. NoSecondAttempt'
    BY <1>1 DEF ForwardingInv, NoSecondAttempt
<1>5. Held'
    BY <1>1 DEF ForwardingInv, Held
<1> QED
    BY <1>3, <1>4, <1>5 DEF ForwardingInv

\* A connection is there at once, and finds no node.
LEMMA OpenAtOnceStep == ASSUME ForwardingInv, NEW n \in Nodes, OpenAtOnce(n) PROVE ForwardingInv'
<1>1. /\ active' = active \ {n} /\ UNCHANGED <<queues, handler, slot, dh, restarts>>
      /\ breaks < MaxBreaks /\ breaks' = breaks + 1
      /\ \A c \in Conns : ~(conn[c].st = "login" /\ conn[c].node = n)
    BY DEF OpenAtOnce, Attempt
<1>2. conn' \in [Conns -> ConnRec]
    BY Attempting DEF OpenAtOnce
<1> PICK c \in Conns : /\ conn[c].st = "free" /\ conn'[c].st = "broken" /\ conn'[c].node = n
                       /\ \A d \in Conns \ {c} : conn'[d] = conn[d]
    BY Attempting DEF OpenAtOnce
<1>3. Typed'
    <2>1. breaks' \in 0 .. MaxBreaks
        BY <1>1, Vars
    <2> QED
        BY <1>1, <1>2, <2>1, Vars, TypedAgain DEF queues, ForwardingInv, Typed
<1>4. NoSecondAttempt'
    BY <1>1 DEF ForwardingInv, NoSecondAttempt
<1>5. Held'
    BY <1>1 DEF ForwardingInv, Held
<1> QED
    BY <1>3, <1>4, <1>5 DEF ForwardingInv

\* The attempt at a node ends without a connection.
LEMMA OpenFailsStep == ASSUME ForwardingInv, NEW n \in Nodes, OpenFails(n) PROVE ForwardingInv'
<1>1. /\ active' = active \ {n} /\ UNCHANGED <<queues, handler, slot, dh, restarts>>
      /\ breaks < MaxBreaks /\ breaks' = breaks + 1
      /\ conn' = [c \in Conns |-> IF conn[c].st = "login" /\ conn[c].node = n THEN NoConn ELSE conn[c]]
    BY DEF OpenFails
<1>2. NoConn \in ConnRec /\ NoConn.st = "free"
    BY DEF NoConn, ConnRec
<1>3. conn' \in [Conns -> ConnRec]
    BY <1>1, <1>2, Vars
<1>4. \A c \in Conns : /\ conn'[c].st = "login" => conn'[c] = conn[c] /\ conn[c].node # n
                       /\ conn[c].st \in {"up", "broken"} => conn'[c] = conn[c]
    BY <1>1, <1>2
<1>5. Typed'
    <2>1. breaks' \in 0 .. MaxBreaks
        BY <1>1, Vars
    <2> QED
        BY <1>1, <1>3, <2>1, Vars, TypedAgain DEF queues, ForwardingInv, Typed
<1>6. NoSecondAttempt'
    BY <1>1, <1>4 DEF ForwardingInv, NoSecondAttempt
<1>7. Held'
    BY <1>1, <1>4 DEF ForwardingInv, Held
<1> QED
    BY <1>5, <1>6, <1>7 DEF ForwardingInv

\* One block of a connection is changed.
LEMMA OneConn ==
  ASSUME ForwardingInv, NEW c \in Conns, NEW r \in ConnRec, conn' = [conn EXCEPT ![c] = r]
  PROVE  conn' \in [Conns -> ConnRec] /\ conn'[c] = r /\ \A d \in Conns \ {c} : conn'[d] = conn[d]
BY Vars

\* A node is connected: the attempt at it was the only one.
LEMMA ConnectedStep == ASSUME ForwardingInv, NEW c \in Conns, Connected(c) PROVE ForwardingInv'
<1> DEFINE n == conn[c].node
           i == FirstFree
           r == [conn[c] EXCEPT !.st = "up", !.cb = i]
<1>1. /\ conn[c].st = "login" /\ conn' = [conn EXCEPT ![c].st = "up", ![c].cb = i]
      /\ handler' = [handler EXCEPT ![n] = [status |-> "normal", connId |-> c]]
      /\ slot' = IF i = NULL THEN slot ELSE [slot EXCEPT ![i] = n]
      /\ active' = active \ {n} /\ UNCHANGED <<queues, dh, breaks, restarts>>
    BY DEF Connected
<1>2. n \in active /\ n \in Nodes /\ conn[c] \in ConnRec
    BY <1>1, Vars DEF ForwardingInv, NoSecondAttempt
<1>3. i = NULL \/ (i \in Slots /\ slot[i] = NULL)
    <2>1. FreeSlots \subseteq Nat
        BY Sizes DEF FreeSlots
    <2>2. FreeSlots # {} => Min(FreeSlots) \in FreeSlots
        BY <2>1, LeastNumber
    <2> QED
        BY <2>2 DEF FirstFree, FreeSlots
<1> HIDE DEF i
<1>4. conn' = [conn EXCEPT ![c] = r]
    BY <1>1, Vars
<1>5. r \in ConnRec /\ r.st = "up" /\ r.node = n /\ r.cb = i
    BY <1>2, <1>3 DEF ConnRec
<1> HIDE DEF r, n
<1>6. conn' \in [Conns -> ConnRec] /\ conn'[c] = r /\ \A d \in Conns \ {c} : conn'[d] = conn[d]
    BY <1>4, <1>5, OneConn
<1>7. handler' \in [Nodes -> HandlerRec] /\ slot' \in [Slots -> Nodes \cup {NULL}]
    <2>1. [status |-> "normal", connId |-> c] \in HandlerRec
        BY DEF HandlerRec
    <2> QED
        BY <1>1, <1>2, <1>3, <2>1, Vars
<1>8. Typed'
    BY <1>1, <1>6, <1>7, Vars, TypedAgain DEF queues, ForwardingInv, Typed
<1>9. NoSecondAttempt'
    <2>1. \A m \in Nodes : m \in active' => handler'[m].status = "init"
        BY <1>1, <1>2, Vars DEF ForwardingInv, NoSecondAttempt
    <2>2. \A d \in Conns : conn'[d].st = "login" => d # c /\ conn'[d] = conn[d]
        BY <1>5, <1>6
    <2>3. \A d \in Conns : conn'[d].st = "login" => conn[d].node # n
        BY <1>1, <2>2 DEF ForwardingInv, NoSecondAttempt, n
    <2>4. \A d, e \in Conns : conn'[d].st = "login" /\ conn'[e].st = "login" /\ conn'[d].node = conn'[e].node => d = e
        BY <2>2 DEF ForwardingInv, NoSecondAttempt
    <2>5. ASSUME NEW d \in Conns, conn'[d].st = "login" PROVE conn'[d].node \in active'
        <3>1. conn'[d] = conn[d] /\ conn[d].node # n /\ conn[d].st = "login"
            BY <2>2, <2>3, <2>5
        <3>2. conn[d].node \in active
            BY <3>1 DEF ForwardingInv, NoSecondAttempt
        <3> QED
            BY <1>1, <3>1, <3>2
    <2> QED
        BY <2>1, <2>4, <2>5 DEF NoSecondAttempt
<1>10. Held'
    <2> SUFFICES ASSUME NEW j \in Slots, slot'[j] # NULL
                 PROVE  \E d \in Conns : conn'[d].st \in {"up", "broken"} /\ conn'[d].node = slot'[j] /\ conn'[d].cb = j
        BY DEF Held
    <2>1. CASE i # NULL /\ j = i
        <3>1. slot'[j] = n
            BY <1>1, <1>3, <2>1, Vars
        <3> QED
            BY <1>5, <1>6, <2>1, <3>1
    <2>2. CASE ~(i # NULL /\ j = i)
        <3>1. slot'[j] = slot[j]
            BY <1>1, <1>3, <2>2, Vars
        <3>2. PICK d \in Conns : conn[d].st \in {"up", "broken"} /\ conn[d].node = slot[j] /\ conn[d].cb = j
            BY <3>1 DEF ForwardingInv, Held
        <3>3. d # c
            BY <1>1, <3>2
        <3> QED
            BY <1>6, <3>1, <3>2, <3>3
    <2> QED
        BY <2>1, <2>2
<1> QED
    BY <1>8, <1>9, <1>10 DEF ForwardingInv

\* A connection breaks, and keeps its slot until it is closed.
LEMMA Breaking ==
  ASSUME ForwardingInv, NEW c \in Conns, conn[c].st = "up", breaks < MaxBreaks, breaks' = breaks + 1,
         conn' = [conn EXCEPT ![c].st = "broken"], UNCHANGED <<queues, handler, slot, active, restarts>>,
         DhRec(dh'), dh'.pc = "send" => dh' = dh
  PROVE  ForwardingInv'
<1> DEFINE r == [conn[c] EXCEPT !.st = "broken"]
<1>1. conn' = [conn EXCEPT ![c] = r]
    BY Vars
<1>2. r \in ConnRec /\ r.st = "broken" /\ r.node = conn[c].node /\ r.cb = conn[c].cb
    <2>1. conn[c] \in ConnRec
        BY Vars
    <2> QED
        BY <2>1 DEF ConnRec
<1> HIDE DEF r
<1>3. conn' \in [Conns -> ConnRec] /\ conn'[c] = r /\ \A d \in Conns \ {c} : conn'[d] = conn[d]
    BY <1>1, <1>2, OneConn
<1>4. Typed'
    <2>1. breaks' \in 0 .. MaxBreaks
        BY Vars
    <2> QED
        BY <1>3, <2>1, Vars, TypedAgain DEF queues, ForwardingInv, Typed
<1>5. NoSecondAttempt'
    <2>1. \A d \in Conns : conn'[d].st = "login" => conn'[d] = conn[d]
        BY <1>2, <1>3
    <2> QED
        BY <2>1 DEF ForwardingInv, NoSecondAttempt
<1>6. Held'
    <2>1. ASSUME NEW d \in Conns, conn[d].st \in {"up", "broken"}
          PROVE  conn'[d].st \in {"up", "broken"} /\ conn'[d].node = conn[d].node /\ conn'[d].cb = conn[d].cb
        BY <1>2, <1>3, <2>1
    <2> QED
        BY <2>1 DEF ForwardingInv, Held
<1> QED
    BY <1>4, <1>5, <1>6 DEF ForwardingInv

\* The peer or the connection thread breaks a connection.
LEMMA BreakStep == ASSUME ForwardingInv, NEW c \in Conns, Break(c) PROVE ForwardingInv'
BY Breaking, Vars DEF Break

\* A write fails: the data thread breaks the connection itself.
LEMMA SendFailsStep == ASSUME ForwardingInv, SendFails PROVE ForwardingInv'
<1>1. dh.conn \in Conns /\ conn[dh.conn].st = "up"
    BY Vars DEF SendFails, Usable, DhRec
<1>2. DhRec(dh') /\ dh'.pc = "rest"
    BY RestTyped DEF SendFails
<1> QED
    BY <1>1, <1>2, Breaking DEF SendFails

\* What onRemoveConnect leaves of the nodes: nodes that may be asked for again.
LEMMA Removing ==
  ASSUME ForwardingInv, NEW m
  PROVE  Removed(m) \in [Nodes -> HandlerRec] /\ \A n \in Nodes : handler[n].status = "init" => Removed(m)[n].status = "init"
<1>1. NotConnected \in HandlerRec /\ NotConnected.status = "init"
    BY DEF NotConnected, HandlerRec
<1> QED
    BY <1>1, Vars DEF Removed

\* A connection is closed, and its slot is free.
LEMMA CloseStep == ASSUME ForwardingInv, NEW c \in Conns, Close(c) PROVE ForwardingInv'
<1> DEFINE r == [conn[c] EXCEPT !.st = "shut"]
<1>1. conn[c].st = "broken" /\ conn' = [conn EXCEPT ![c] = r] /\ UNCHANGED <<queues, active, dh, breaks, restarts>>
    BY DEF Close
<1>2. r \in ConnRec /\ r.st = "shut"
    <2>1. conn[c] \in ConnRec
        BY Vars
    <2> QED
        BY <2>1 DEF ConnRec
<1> HIDE DEF r
<1>3. conn' \in [Conns -> ConnRec] /\ conn'[c] = r /\ \A d \in Conns \ {c} : conn'[d] = conn[d]
    BY <1>1, <1>2, OneConn
<1>4. /\ handler' \in [Nodes -> HandlerRec] /\ slot' \in [Slots -> Nodes \cup {NULL}]
      /\ \A n \in Nodes : handler[n].status = "init" => handler'[n].status = "init"
      /\ \A i \in Slots : slot'[i] # NULL => slot'[i] = slot[i] /\ conn[c].cb # i
    <2>1. CASE conn[c].cb = NULL
        BY <2>1, Vars, Sizes DEF Close
    <2>2. CASE conn[c].cb # NULL
        <3>1. slot' = [slot EXCEPT ![conn[c].cb] = NULL] /\ handler' = Removed(slot[conn[c].cb])
            BY <2>2 DEF Close
        <3> QED
            BY <3>1, Vars, Removing
    <2> QED
        BY <2>1, <2>2
<1>5. Typed'
    BY <1>1, <1>3, <1>4, Vars, TypedAgain DEF queues, ForwardingInv, Typed
<1>6. NoSecondAttempt'
    <2>1. \A d \in Conns : conn'[d].st = "login" => conn'[d] = conn[d]
        BY <1>2, <1>3
    <2>2. \A n \in Nodes : n \in active' => handler'[n].status = "init"
        BY <1>1, <1>4 DEF ForwardingInv, NoSecondAttempt
    <2> QED
        BY <1>1, <2>1, <2>2 DEF ForwardingInv, NoSecondAttempt
<1>7. Held'
    <2> SUFFICES ASSUME NEW i \in Slots, slot'[i] # NULL
                 PROVE  \E d \in Conns : conn'[d].st \in {"up", "broken"} /\ conn'[d].node = slot'[i] /\ conn'[d].cb = i
        BY DEF Held
    <2>1. slot'[i] = slot[i] /\ conn[c].cb # i
        BY <1>4
    <2>2. PICK d \in Conns : conn[d].st \in {"up", "broken"} /\ conn[d].node = slot[i] /\ conn[d].cb = i
        BY <2>1 DEF ForwardingInv, Held
    <2> QED
        BY <1>3, <2>1, <2>2
<1> QED
    BY <1>5, <1>6, <1>7 DEF ForwardingInv

\* A closed connection is destroyed in a sweep, where the data thread rests.
LEMMA DestroyStep == ASSUME ForwardingInv, NEW c \in Conns, Destroy(c) PROVE ForwardingInv'
<1>1. /\ conn[c].st = "shut" /\ conn' = [conn EXCEPT ![c] = NoConn] /\ UNCHANGED <<queues, slot, active, dh, breaks, restarts>>
      /\ handler' = [n \in Nodes |-> IF handler[n].connId = c THEN [handler[n] EXCEPT !.connId = NULL] ELSE handler[n]]
    BY DEF Destroy
<1>2. NoConn \in ConnRec /\ NoConn.st = "free"
    BY DEF NoConn, ConnRec
<1>3. conn' \in [Conns -> ConnRec] /\ conn'[c] = NoConn /\ \A d \in Conns \ {c} : conn'[d] = conn[d]
    BY <1>1, <1>2, OneConn
<1>4. handler' \in [Nodes -> HandlerRec] /\ \A n \in Nodes : handler'[n].status = handler[n].status
    <2>1. ASSUME NEW n \in Nodes PROVE handler'[n] \in HandlerRec /\ handler'[n].status = handler[n].status
        <3>1. handler[n] \in HandlerRec
            BY Vars
        <3> QED
            BY <1>1, <3>1 DEF HandlerRec
    <2> QED
        BY <1>1, <2>1
<1>5. Typed'
    BY <1>1, <1>3, <1>4, Vars, TypedAgain DEF queues, ForwardingInv, Typed
<1>6. NoSecondAttempt'
    <2>1. \A d \in Conns : conn'[d].st = "login" => conn'[d] = conn[d]
        BY <1>2, <1>3
    <2>2. \A n \in Nodes : n \in active' => handler'[n].status = "init"
        BY <1>1, <1>4 DEF ForwardingInv, NoSecondAttempt
    <2> QED
        BY <1>1, <2>1, <2>2 DEF ForwardingInv, NoSecondAttempt
<1>7. Held'
    BY <1>1, <1>3 DEF ForwardingInv, Held
<1> QED
    BY <1>5, <1>6, <1>7 DEF ForwardingInv

\* The data thread clears the slot of a connection it found unusable.
LEMMA ClearSlotStep == ASSUME ForwardingInv, ClearSlot PROVE ForwardingInv'
<1>1. slot' = [slot EXCEPT ![conn[dh.conn].cb] = NULL] /\ UNCHANGED <<queues, handler, active, conn, breaks, restarts>>
    BY DEF ClearSlot
<1>2. DhRec(dh') /\ dh'.pc \in {"rest", "reset"}
    <2>1. DhRec(dh)
        BY Vars
    <2>2. CASE dh' = Rest
        BY <2>2, RestTyped
    <2>3. CASE dh' = [dh EXCEPT !.pc = "reset"]
        BY <2>1, <2>3 DEF DhRec
    <2> QED
        BY <2>2, <2>3 DEF ClearSlot
<1>3. slot' \in [Slots -> Nodes \cup {NULL}] /\ \A i \in Slots : slot'[i] # NULL => slot'[i] = slot[i]
    BY <1>1, Vars
<1>4. Typed'
    BY <1>1, <1>2, <1>3, Vars, TypedAgain DEF queues
<1>5. NoSecondAttempt'
    BY <1>1 DEF ForwardingInv, NoSecondAttempt
<1>6. Held'
    BY <1>1, <1>3 DEF ForwardingInv, Held
<1> QED
    BY <1>4, <1>5, <1>6 DEF ForwardingInv

\* And the node that was in it.
LEMMA ResetNodeStep == ASSUME ForwardingInv, ResetNode PROVE ForwardingInv'
<1>1. handler' = Removed(dh.node) /\ dh' = Rest /\ UNCHANGED <<queues, slot, active, conn, breaks, restarts>>
    BY DEF ResetNode
<1>2. Typed'
    BY <1>1, Removing, RestTyped, Vars, TypedAgain DEF queues
<1>3. NoSecondAttempt'
    <2>1. \A n \in Nodes : n \in active' => handler'[n].status = "init"
        BY <1>1, Removing, Vars DEF ForwardingInv, NoSecondAttempt
    <2> QED
        BY <1>1, <2>1 DEF ForwardingInv, NoSecondAttempt
<1>4. Held'
    BY <1>1 DEF ForwardingInv, Held
<1> QED
    BY <1>2, <1>3, <1>4 DEF ForwardingInv

\* The middleware begins, at first or again: nothing is connected.
LEMMA Beginning ==
  /\ [n \in Nodes |-> NotConnected] \in [Nodes -> HandlerRec] /\ [i \in Slots |-> NULL] \in [Slots -> Nodes \cup {NULL}]
  /\ [c \in Conns |-> NoConn] \in [Conns -> ConnRec] /\ NoConn.st = "free" /\ DhRec(AtRest) /\ AtRest.pc = "rest"
<1>1. NotConnected \in HandlerRec /\ NoConn \in ConnRec /\ NoConn.st = "free"
    BY DEF NotConnected, HandlerRec, NoConn, ConnRec
<1>2. DhRec(AtRest) /\ AtRest.pc = "rest"
    BY Sizes DEF DhRec, AtRest
<1> QED
    BY <1>1, <1>2

\* The middleware dies and comes back.
LEMMA RestartStep == ASSUME ForwardingInv, Restart PROVE ForwardingInv'
<1>1. /\ restarts < MaxRestarts /\ restarts' = restarts + 1
      /\ handler' = [n \in Nodes |-> NotConnected] /\ slot' = [i \in Slots |-> NULL] /\ active' = {}
      /\ conn' = [c \in Conns |-> NoConn] /\ dh' = AtRest /\ UNCHANGED <<queues, breaks>>
    BY DEF Restart
<1>2. Typed'
    <2>1. restarts' \in 0 .. MaxRestarts
        BY <1>1, Vars
    <2> QED
        BY <1>1, <2>1, Beginning, Vars, TypedAgain DEF queues
<1>3. NoSecondAttempt' /\ Held'
    BY <1>1, Beginning DEF NoSecondAttempt, Held
<1> QED
    BY <1>2, <1>3 DEF ForwardingInv

-------------------------------------------------------------------------------
\* The middleware starts without connections, the services without packages.
LEMMA ForwardingInit == Init => ForwardingInv
<1> SUFFICES ASSUME Init PROVE ForwardingInv
    OBVIOUS
<1>1. /\ routes \in Traffic /\ readMsg = [n \in Nodes |-> <<>>] /\ len = [n \in Nodes |-> [s \in Services |-> 0]]
      /\ handler = [n \in Nodes |-> NotConnected] /\ slot = [i \in Slots |-> NULL] /\ active = {}
      /\ conn = [c \in Conns |-> NoConn] /\ dh = AtRest /\ breaks = 0 /\ restarts = 0
    BY DEF Init
<1>2. <<>> \in Seq(Services) /\ 0 \in 0 .. Cap /\ 0 \in 0 .. MaxBreaks /\ 0 \in 0 .. MaxRestarts
    BY BoundsAssumption
<1>3. readMsg \in [Nodes -> Seq(Services)] /\ len \in [Nodes -> [Services -> 0 .. Cap]]
    BY <1>1, <1>2
<1>4. Typed
    BY <1>1, <1>2, <1>3, Beginning DEF Typed, TypeOK, DhRec, HandlerRec, ConnRec, Pairs
<1>5. NoSecondAttempt /\ Held
    BY <1>1, Beginning DEF NoSecondAttempt, Held
<1> QED
    BY <1>4, <1>5 DEF ForwardingInv

\* Every step of the services, the two threads and the world keeps it.
LEMMA ForwardingNext == ForwardingInv /\ [Next]_vars => ForwardingInv'
<1> SUFFICES ASSUME ForwardingInv, [Next]_vars PROVE ForwardingInv'
    OBVIOUS
<1>1. ASSUME NEW r \in routes, Put(r[1], r[2]) PROVE ForwardingInv'
    BY <1>1, PutStep
<1>2. ASSUME NEW n \in Nodes, Request(n) \/ Open(n) \/ OpenAtOnce(n) \/ OpenFails(n) PROVE ForwardingInv'
    BY <1>2, RequestStep, OpenStep, OpenAtOnceStep, OpenFailsStep
<1>3. ASSUME NEW c \in Conns, Connected(c) \/ Break(c) \/ Close(c) \/ Destroy(c) PROVE ForwardingInv'
    BY <1>3, ConnectedStep, BreakStep, CloseStep, DestroyStep
<1>4. CASE DataThread
    BY <1>4, WalkQueueStep, NextSlotStep, SendStep, InvalidStep, ClearSlotStep, ResetNodeStep DEF DataThread
<1>5. CASE SendFails \/ Restart
    BY <1>5, SendFailsStep, RestartStep
<1>6. CASE UNCHANGED vars
    BY <1>6 DEF vars, ForwardingInv, Typed, TypeOK, NoSecondAttempt, Held
<1> QED
    BY <1>1, <1>2, <1>3, <1>4, <1>5, <1>6 DEF Next

\* The invariant of the middleware's two threads.
THEOREM ForwardingIsInvariant == Spec => []ForwardingInv
BY ForwardingInit, ForwardingNext, PTL DEF Spec

\* No node has two attempts at a connection, none is asked for while it counts as connected, and
\* every slot in use belongs to a connection of its node that will free it, although the data thread
\* clears slots and resets nodes on its own and the middleware restarts (getConnectData,
\* doCreateConnect, onRemoveConnect).
THEOREM ForwardingIsSound == Spec => []ForwardingSound
<1>1. ForwardingInv => ForwardingSound
    BY DEF ForwardingInv, Typed, Held, ForwardingSound, SlotHeld
<1> QED
    BY <1>1, ForwardingIsInvariant, PTL

-------------------------------------------------------------------------------
(* The packages of a connection.                                             *)

Units == [part : {"h1", "h2", "u", "b"}, cmd : {"MSG", "RQ", "RP"}, of : Nat]

\* A frame begins here, or the stream ends.
Begins(s, i) == i = Len(s) + 1 \/ (i \in 1..Len(s) /\ s[i].part = "h1")
\* The body of p, a package that o gives, stands at i.
BodyAt(s, i, o, p) ==
  /\ p \in DOMAIN Given[o] /\ i + Packages!Size(o, p) - 1 <= Len(s)
  /\ s[i] = Packages!Unit("u", "MSG", p)
  /\ \A j \in (i + 1)..(i + Packages!Size(o, p) - 1) : s[j] = Packages!Unit("b", "MSG", p)
  /\ Begins(s, i + Packages!Size(o, p))
\* Behind its first half, at i, stand the rest of a header and its body.
FrameAt(s, i, o) ==
  /\ i + 1 <= Len(s) /\ s[i + 1] = Packages!Unit("h2", s[i].cmd, s[i].of)
  /\ IF s[i].cmd = "MSG" THEN BodyAt(s, i + 2, o, s[i].of) ELSE Begins(s, i + 2)
\* A stream of whole frames, the first without its header when its reader has had that.
Framing(s, k, o) ==
  /\ \A i \in 1..Len(s) : s[i].part = "h1" => FrameAt(s, i, o)
  /\ IF k = 0 THEN Begins(s, 1) ELSE s # <<>> /\ k = Packages!Size(o, s[1].of) /\ BodyAt(s, 1, o, s[1].of)

\* The units of packages, which have rising numbers above `low` and up to `high`.
Rising(s) == \A i, j \in 1..Len(s) : i < j /\ s[i].cmd = "MSG" /\ s[j].cmd = "MSG" =>
               /\ s[i].of <= s[j].of
               /\ s[i].of = s[j].of => \A k \in (i + 1)..j : s[k].part # "h1"
Within(s, low, high) == \A i \in 1..Len(s) : s[i].cmd = "MSG" => s[i].of <= high /\ \A p \in low : p < s[i].of

Sent(o) == Len(Given[o]) - Len(todo[o])
Dealt(n) == ToSet(got[n]) \cup refused[n]
Stream(n) == in[n] \o wire[Packages!Other(n)]

PackagesTyped ==
  /\ mode \in [Ends -> {"middleware", "service"}]
  /\ todo \in [Ends -> Seq(Nat)] /\ wire \in [Ends -> Seq(Units)] /\ in \in [Ends -> Seq(Units)]
  /\ need \in [Ends -> Nat] /\ queue \in [Ends -> Nat] /\ got \in [Ends -> Seq(Nat)]
  /\ refused \in [Ends -> SUBSET Nat] /\ failed \in [Ends -> BOOLEAN]

\* What was given is sent in its order; what is handed over or refused was sent.
Submitting(n) == /\ Len(todo[n]) <= Len(Given[n])
                 /\ \A i \in 1..Len(todo[n]) : todo[n][i] = Sent(n) + i
Dealing(n) == /\ queue[n] <= Len(got[n])
              /\ \A i \in 1..Len(got[n]) : got[n][i] >= i /\ got[n][i] <= Sent(Packages!Other(n))
              /\ \A p \in refused[n] : p >= 1 /\ p <= Sent(Packages!Other(n))
              /\ \A i, j \in 1..Len(got[n]) : i < j => got[n][i] < got[n][j]
              /\ \A i \in 1..Len(got[n]) : got[n][i] \notin refused[n]
Flowing(n) == /\ Framing(Stream(n), need[n], Packages!Other(n)) /\ Rising(Stream(n))
              /\ Within(Stream(n), Dealt(n), Sent(Packages!Other(n)))

PackagesInv == PackagesTyped /\ \A n \in Ends : Submitting(n) /\ Dealing(n) /\ Flowing(n)
-------------------------------------------------------------------------------
\* There are two ends.
LEMMA TwoEnds ==
  ASSUME NEW n \in Ends
  PROVE  Packages!Other(n) \in Ends /\ Packages!Other(n) # n /\ Packages!Other(Packages!Other(n)) = n
         /\ Ends = {n, Packages!Other(n)}
<1>1. Packages!Other("A") = "B"
    BY Zenon DEF Packages!Other, Ends
<1>2. Packages!Other("B") = "A"
    BY Zenon DEF Packages!Other, Ends
<1> QED
    BY <1>1, <1>2 DEF Ends

\* Bodies have a length.
LEMMA Sized == ASSUME NEW o \in Ends, NEW p \in DOMAIN Given[o] PROVE Packages!Size(o, p) \in Nat \ {0} /\ p \in Nat \ {0}
BY GivenAssumption DEF Packages!Size

\* Two sequences are the same if their units are.
LEMMA UnitsEqual ==
  ASSUME NEW s \in Seq(Units), NEW t \in Seq(Units), Len(s) = Len(t), \A i \in 1..Len(s) : s[i] = t[i]
  PROVE  s = t
BY SeqDef

\* The units of a sequence joined from two.
LEMMA JoinedUnits ==
  ASSUME NEW s \in Seq(Units), NEW t \in Seq(Units)
  PROVE  /\ s \o t \in Seq(Units) /\ Len(s \o t) = Len(s) + Len(t)
         /\ \A i \in 1..Len(s) : (s \o t)[i] = s[i]
         /\ \A i \in 1..Len(t) : (s \o t)[Len(s) + i] = t[i]
BY ConcatProperties

\* What is left of a sequence.
LEMMA LeftUnits ==
  ASSUME NEW s \in Seq(Units), NEW k \in 0..Len(s), NEW t, t = SubSeq(s, k + 1, Len(s))
  PROVE  t \in Seq(Units) /\ Len(t) = Len(s) - k /\ \A i \in 1..Len(t) : t[i] = s[i + k]
BY SMTT(60)

LEMMA Onwards ==
  ASSUME NEW s \in Seq(Units), NEW t \in Seq(Units), NEW u \in Seq(Units)
  PROVE  s \o (t \o u) = (s \o t) \o u
BY SMTT(60), ConcatAssociative

\* A heartbeat, and the frame of a package.
LEMMA Beats ==
  ASSUME NEW c \in {"RQ", "RP"}
  PROVE  /\ Packages!Header(c, 0) \in Seq(Units) /\ Len(Packages!Header(c, 0)) = 2
         /\ Packages!Header(c, 0)[1] = Packages!Unit("h1", c, 0) /\ Packages!Header(c, 0)[2] = Packages!Unit("h2", c, 0)
BY DEF Packages!Header, Packages!Unit, Units

LEMMA Frames ==
  ASSUME NEW o \in Ends, NEW p \in DOMAIN Given[o]
  PROVE  /\ Packages!Frame(o, p) \in Seq(Units) /\ Len(Packages!Frame(o, p)) = 2 + Packages!Size(o, p)
         /\ Packages!Frame(o, p)[1] = Packages!Unit("h1", "MSG", p) /\ Packages!Frame(o, p)[2] = Packages!Unit("h2", "MSG", p)
         /\ Packages!Frame(o, p)[3] = Packages!Unit("u", "MSG", p)
         /\ \A i \in 4..(2 + Packages!Size(o, p)) : Packages!Frame(o, p)[i] = Packages!Unit("b", "MSG", p)
<1> DEFINE h == Packages!Header("MSG", p)
           u == <<Packages!Unit("u", "MSG", p)>>
           l == Given[o][p].len
           b == [i \in 1..l |-> Packages!Unit("b", "MSG", p)]
<1>1. p \in Nat /\ l \in Nat /\ Packages!Size(o, p) = 1 + l
    BY Sized, GivenAssumption DEF Packages!Size
<1>2. \A x \in {"h1", "h2", "u", "b"} : Packages!Unit(x, "MSG", p) \in Units
    BY <1>1 DEF Packages!Unit, Units
<1>3. h \in Seq(Units) /\ Len(h) = 2 /\ h[1] = Packages!Unit("h1", "MSG", p) /\ h[2] = Packages!Unit("h2", "MSG", p)
    BY <1>2 DEF Packages!Header
<1>4. u \in Seq(Units) /\ Len(u) = 1 /\ u[1] = Packages!Unit("u", "MSG", p)
    BY <1>2
<1>5. b \in Seq(Units) /\ Len(b) = l /\ \A i \in 1..l : b[i] = Packages!Unit("b", "MSG", p)
    <2>1. b \in [1..l -> Units]
        BY <1>2
    <2> QED
        BY <2>1, <1>1, SeqDef, LenProperties
<1> HIDE DEF h, u, b, l
<1>6. h \o u \in Seq(Units) /\ Len(h \o u) = 3 /\ (h \o u)[1] = h[1] /\ (h \o u)[2] = h[2] /\ (h \o u)[3] = u[1]
    <2>1. /\ h \o u \in Seq(Units) /\ Len(h \o u) = Len(h) + Len(u)
          /\ \A i \in 1..Len(h) : (h \o u)[i] = h[i]
          /\ \A i \in 1..Len(u) : (h \o u)[Len(h) + i] = u[i]
        BY <1>3, <1>4, JoinedUnits, Zenon
    <2>2. 1 \in 1..Len(u) /\ Len(h) + 1 = 3 /\ 1 \in 1..Len(h) /\ 2 \in 1..Len(h)
        BY <1>3, <1>4
    <2> QED
        BY <2>1, <2>2, <1>3, <1>4
<1>7. (h \o u) \o b \in Seq(Units) /\ Len((h \o u) \o b) = 3 + l
      /\ \A i \in 1..3 : ((h \o u) \o b)[i] = (h \o u)[i]
    BY <1>1, <1>5, <1>6, JoinedUnits, SMTT(60)
<1>8. \A i \in 1..l : ((h \o u) \o b)[3 + i] = b[i]
    BY <1>1, <1>5, <1>6, JoinedUnits, SMTT(60)
<1>9. ASSUME NEW i \in 4..(3 + l) PROVE ((h \o u) \o b)[i] = Packages!Unit("b", "MSG", p)
    <2>1. i - 3 \in 1..l /\ 3 + (i - 3) = i
        BY <1>1
    <2> QED
        BY <2>1, <1>8, <1>5
<1>10. Packages!Frame(o, p) = (h \o u) \o b
    BY DEF Packages!Frame, h, u, b, l
<1> QED
    BY <1>1, <1>3, <1>4, <1>6, <1>7, <1>9, <1>10, SMTT(60)

-------------------------------------------------------------------------------
(* Streams that grow and shrink.                                             *)

\* A stream goes on with another that begins with a header: what stood in it stands.
LEMMA Grown ==
  ASSUME NEW s \in Seq(Units), NEW t \in Seq(Units), NEW o \in Ends, Len(t) >= 1, t[1].part = "h1"
  PROVE  /\ \A i \in 1..(Len(s) + 1) : Begins(s, i) => Begins(s \o t, i)
         /\ \A i \in 1..Len(s), p \in DOMAIN Given[o] : BodyAt(s, i, o, p) => BodyAt(s \o t, i, o, p)
         /\ \A i \in 1..Len(s) : s[i].part = "h1" /\ FrameAt(s, i, o) => FrameAt(s \o t, i, o)
<1> DEFINE r == s \o t
<1>1. r \in Seq(Units) /\ Len(r) = Len(s) + Len(t) /\ \A i \in 1..Len(s) : r[i] = s[i]
    BY JoinedUnits
<1>2. r[Len(s) + 1] = t[1]
    BY JoinedUnits
<1>3. Len(s) \in Nat /\ Len(t) \in Nat
    OBVIOUS
<1> HIDE DEF r
<1>4. ASSUME NEW i \in 1..(Len(s) + 1), Begins(s, i) PROVE Begins(r, i)
    BY <1>1, <1>2, <1>3, <1>4 DEF Begins
<1>5. ASSUME NEW i \in 1..Len(s), NEW p \in DOMAIN Given[o], BodyAt(s, i, o, p) PROVE BodyAt(r, i, o, p)
    <2>1. Packages!Size(o, p) \in Nat \ {0}
        BY Sized
    <2>2. i + Packages!Size(o, p) \in 1..(Len(s) + 1)
        BY <1>3, <1>5, <2>1, SMTT(60) DEF BodyAt
    <2>3. Begins(r, i + Packages!Size(o, p))
        BY <1>4, <1>5, <2>2 DEF BodyAt
    <2>4. ASSUME NEW j \in (i + 1)..(i + Packages!Size(o, p) - 1) PROVE r[j] = s[j]
        <3>1. j \in 1..Len(s)
            BY <1>3, <1>5, <2>1 DEF BodyAt
        <3> QED
            BY <1>1, <3>1
    <2>5. r[i] = s[i] /\ i + Packages!Size(o, p) - 1 <= Len(r)
        BY <1>1, <1>3, <1>5, <2>1 DEF BodyAt
    <2> QED
        BY <1>5, <2>3, <2>4, <2>5 DEF BodyAt
<1>6. ASSUME NEW i \in 1..Len(s), s[i].part = "h1", FrameAt(s, i, o) PROVE FrameAt(r, i, o)
    <2>1. r[i] = s[i] /\ r[i + 1] = s[i + 1] /\ i + 1 <= Len(r)
        BY <1>1, <1>3, <1>6 DEF FrameAt
    <2>2. CASE s[i].cmd = "MSG"
        <3>1. BodyAt(s, i + 2, o, s[i].of) /\ s[i].of \in DOMAIN Given[o]
            BY <1>6, <2>2 DEF FrameAt, BodyAt
        <3>2. i + 2 \in 1..Len(s)
            BY <1>3, <3>1, Sized, SMTT(60) DEF BodyAt
        <3> QED
            BY <1>5, <1>6, <2>1, <2>2, <3>1, <3>2 DEF FrameAt
    <2>3. CASE s[i].cmd # "MSG"
        BY <1>3, <1>4, <1>6, <2>1, <2>3 DEF FrameAt
    <2> QED
        BY <2>2, <2>3
<1> QED
    BY <1>4, <1>5, <1>6 DEF r

\* A stream goes on with one whole frame.
LEMMA GrownFraming ==
  ASSUME NEW s \in Seq(Units), NEW t \in Seq(Units), NEW o \in Ends, NEW k \in Nat, Framing(s, k, o),
         Len(t) >= 1, t[1].part = "h1", FrameAt(t, 1, o), \A i \in 2..Len(t) : t[i].part # "h1"
  PROVE  Framing(s \o t, k, o)
<1> DEFINE r == s \o t
           l == Len(s)
<1>1. r \in Seq(Units) /\ Len(r) = l + Len(t) /\ l \in Nat /\ Len(t) \in Nat
      /\ (\A i \in 1..l : r[i] = s[i]) /\ \A i \in 1..Len(t) : r[l + i] = t[i]
    BY JoinedUnits
<1> HIDE DEF r, l
<1>2. ASSUME NEW i \in Nat \ {0}, Begins(t, i) PROVE Begins(r, l + i)
    <2>1. CASE i = Len(t) + 1
        BY <1>1, <2>1 DEF Begins
    <2>2. CASE i \in 1..Len(t) /\ t[i].part = "h1"
        <3>1. l + i \in 1..Len(r) /\ r[l + i] = t[i]
            BY <1>1, <2>2, SMTT(60)
        <3> QED
            BY <2>2, <3>1 DEF Begins
    <2> QED
        BY <1>2, <2>1, <2>2 DEF Begins
<1>3. FrameAt(r, l + 1, o)
    <2>1. r[l + 1] = t[1] /\ r[l + 1 + 1] = t[1 + 1] /\ l + 1 + 1 <= Len(r)
        BY <1>1 DEF FrameAt
    <2>2. CASE t[1].cmd = "MSG"
        <3> DEFINE p == t[1].of
                   z == Packages!Size(o, p)
        <3>1. BodyAt(t, 3, o, p)
            BY <2>2 DEF FrameAt
        <3>2. p \in DOMAIN Given[o] /\ z \in Nat \ {0}
            BY <3>1, Sized DEF BodyAt
        <3> HIDE DEF p, z
        <3>3. Begins(r, l + (3 + z))
            BY <1>2, <3>1, <3>2 DEF BodyAt, z
        <3>4. ASSUME NEW j \in (l + 3 + 1)..(l + 3 + z - 1) PROVE r[j] = Packages!Unit("b", "MSG", p)
            <4>1. 3 + z - 1 <= Len(t) /\ \A m \in (3 + 1)..(3 + z - 1) : t[m] = Packages!Unit("b", "MSG", p)
                BY <3>1 DEF BodyAt, z
            <4>2. j - l \in (3 + 1)..(3 + z - 1) /\ j - l \in 1..Len(t) /\ l + (j - l) = j
                BY <1>1, <3>2, <4>1
            <4>3. r[l + (j - l)] = t[j - l]
                BY <1>1, <4>2
            <4> QED
                BY <4>1, <4>2, <4>3
        <3>5. r[l + 3] = t[3] /\ l + 3 + z - 1 <= Len(r) /\ l + (3 + z) = l + 3 + z /\ l + 1 + 2 = l + 3
            <4>1. 3 + z - 1 <= Len(t)
                BY <3>1 DEF BodyAt, z
            <4>2. 3 \in 1..Len(t) /\ l + 3 + z - 1 <= Len(r) /\ l + (3 + z) = l + 3 + z /\ l + 1 + 2 = l + 3
                BY <1>1, <3>2, <4>1
            <4> QED
                BY <1>1, <4>2
        <3>6. BodyAt(r, l + 3, o, p)
            BY <3>1, <3>2, <3>3, <3>4, <3>5 DEF BodyAt, z
        <3> QED
            BY <2>1, <2>2, <3>5, <3>6 DEF FrameAt, p
    <2>3. CASE t[1].cmd # "MSG"
        <3>1. Begins(r, l + (1 + 2)) /\ l + (1 + 2) = l + 1 + 2
            BY <1>1, <1>2, <2>3 DEF FrameAt
        <3> QED
            BY <2>1, <2>3, <3>1 DEF FrameAt
    <2> QED
        BY <2>2, <2>3
<1>4. ASSUME NEW i \in 1..Len(r), r[i].part = "h1" PROVE FrameAt(r, i, o)
    <2>1. CASE i \in 1..l
        BY <1>1, <1>4, <2>1, Grown DEF Framing, r, l
    <2>2. CASE i = l + 1
        BY <1>3, <2>2
    <2>3. CASE i > l + 1
        <3>1. i - l \in 2..Len(t) /\ l + (i - l) = i
            BY <1>1, <2>3
        <3>2. r[l + (i - l)] = t[i - l]
            BY <1>1, <3>1
        <3> QED
            BY <1>4, <3>1, <3>2
    <2> QED
        BY <1>1, <2>1, <2>2, <2>3
<1>5. CASE k = 0
    <2>1. Begins(s, 1) /\ 1 \in 1..(Len(s) + 1)
        BY <1>1, <1>5 DEF Framing, l
    <2>2. Begins(r, 1)
        BY <2>1, Grown DEF r
    <2> QED
        BY <1>4, <1>5, <2>2, Zenon DEF Framing, r
<1>6. CASE k # 0
    <2>1. s # <<>> /\ k = Packages!Size(o, s[1].of) /\ BodyAt(s, 1, o, s[1].of)
        BY <1>6 DEF Framing
    <2>2. s[1].of \in DOMAIN Given[o]
        BY <2>1 DEF BodyAt
    <2>5. l # 0
        BY <2>1, <1>1 DEF l
    <2>6. 1 \in 1..Len(s) /\ r[1] = s[1] /\ r # <<>>
        BY SMTT(60), <1>1, <2>5 DEF l
    <2>3. BodyAt(r, 1, o, s[1].of)
        BY <2>1, <2>2, <2>6, Grown DEF r
    <2> QED
        BY <1>4, <1>6, <2>1, <2>3, <2>6, Zenon DEF Framing, r
<1> QED
    BY <1>5, <1>6 DEF r

\* It grows by a heartbeat.
LEMMA GrownByBeat ==
  ASSUME NEW s \in Seq(Units), NEW o \in Ends, NEW k \in Nat, NEW low, NEW high, NEW c \in {"RQ", "RP"},
         Framing(s, k, o), Rising(s), Within(s, low, high)
  PROVE  LET r == s \o Packages!Header(c, 0) IN Framing(r, k, o) /\ Rising(r) /\ Within(r, low, high)
<1> DEFINE t == Packages!Header(c, 0)
           r == s \o t
<1>1. t \in Seq(Units) /\ Len(t) = 2 /\ t[1] = Packages!Unit("h1", c, 0) /\ t[2] = Packages!Unit("h2", c, 0)
    BY Beats
<1> HIDE DEF t
<1>2. t[1].part = "h1" /\ t[1].cmd = c /\ t[1].of = 0 /\ t[2].part = "h2" /\ t[2].cmd = c
    BY <1>1 DEF Packages!Unit
<1>3. FrameAt(t, 1, o)
    BY <1>1, <1>2 DEF FrameAt, Begins
<1>4. Framing(r, k, o)
    <2>1. Len(t) >= 1 /\ \A i \in 2..Len(t) : t[i].part # "h1"
        BY <1>1, <1>2
    <2> QED
        BY <1>1, <1>2, <1>3, <2>1, GrownFraming
<1>5. /\ Len(r) = Len(s) + 2 /\ Len(s) \in Nat /\ \A i \in 1..Len(s) : r[i] = s[i]
      /\ \A i \in 1..2 : r[Len(s) + i] = t[i]
    <2>1. Len(r) = Len(s) + Len(t) /\ (\A i \in 1..Len(s) : r[i] = s[i])
          /\ \A i \in 1..Len(t) : r[Len(s) + i] = t[i]
        BY <1>1, JoinedUnits, Zenon
    <2>2. Len(s) \in Nat
        OBVIOUS
    <2> QED
        BY <2>1, <2>2, <1>1, Zenon
<1> HIDE DEF r
<1>6. ASSUME NEW i \in 1..Len(r), r[i].cmd = "MSG" PROVE i \in 1..Len(s) /\ r[i] = s[i]
    BY <1>2, <1>5, <1>6
<1>7. Rising(r)
    BY <1>5, <1>6, SMTT(60) DEF Rising
<1>8. Within(r, low, high)
    BY <1>5, <1>6 DEF Within
<1> QED
    BY <1>4, <1>7, <1>8 DEF r, t

\* It grows by the next package.
LEMMA GrownByFrame ==
  ASSUME NEW s \in Seq(Units), NEW o \in Ends, NEW k \in Nat, NEW low, NEW p \in DOMAIN Given[o],
         Framing(s, k, o), Rising(s), Within(s, low, p - 1), \A q \in low : q < p
  PROVE  LET r == s \o Packages!Frame(o, p) IN Framing(r, k, o) /\ Rising(r) /\ Within(r, low, p)
<1> DEFINE t == Packages!Frame(o, p)
           r == s \o t
           z == Packages!Size(o, p)
<1>1. /\ t \in Seq(Units) /\ Len(t) = 2 + z
      /\ t[1] = Packages!Unit("h1", "MSG", p) /\ t[2] = Packages!Unit("h2", "MSG", p)
      /\ t[3] = Packages!Unit("u", "MSG", p) /\ \A i \in 4..(2 + z) : t[i] = Packages!Unit("b", "MSG", p)
    BY Frames
<1>2. z \in Nat \ {0} /\ p \in Nat
    BY Sized
<1> HIDE DEF t, z
<1>3. t[1].part = "h1" /\ \A i \in 2..Len(t) : t[i].part # "h1"
    BY <1>1, <1>2 DEF Packages!Unit
<1>4. \A i \in 1..Len(t) : t[i].cmd = "MSG" /\ t[i].of = p
    BY <1>1, <1>2, SMTT(60) DEF Packages!Unit
<1>5. BodyAt(t, 3, o, p)
    BY <1>1, <1>2, SMTT(60) DEF BodyAt, Begins, z
<1>6. FrameAt(t, 1, o)
    BY <1>1, <1>2, <1>4, <1>5 DEF FrameAt
<1>7. Framing(r, k, o)
    BY <1>1, <1>2, <1>3, <1>6, GrownFraming
<1>8. /\ Len(r) = Len(s) + Len(t) /\ Len(s) \in Nat /\ Len(t) \in Nat /\ \A i \in 1..Len(s) : r[i] = s[i]
      /\ \A i \in 1..Len(t) : r[Len(s) + i] = t[i]
    <2>1. Len(s) \in Nat /\ Len(t) \in Nat
        BY <1>1
    <2> QED
        BY <2>1, <1>1, JoinedUnits, Zenon
<1> HIDE DEF r
<1>9. ASSUME NEW i \in 1..Len(r), i > Len(s)
      PROVE  r[i].cmd = "MSG" /\ r[i].of = p /\ (i > Len(s) + 1 => r[i].part # "h1")
    <2>1. PICK m \in 1..Len(t) : i = Len(s) + m
        <3>1. i - Len(s) \in 1..Len(t) /\ i = Len(s) + (i - Len(s))
            BY <1>8, <1>9
        <3> QED
            BY <3>1
    <2>2. r[i] = t[m]
        BY <1>8, <2>1, Zenon
    <2>3. i > Len(s) + 1 => m \in 2..Len(t)
        BY <1>8, <2>1
    <2> QED
        BY <1>3, <1>4, <2>2, <2>3, Zenon
<1>10. ASSUME NEW i \in 1..Len(s), s[i].cmd = "MSG" PROVE s[i].of < p /\ s[i].of \in Nat
    <2>1. s[i] \in Units
        OBVIOUS
    <2> QED
        BY <1>2, <1>10, <2>1 DEF Within, Units
<1>11. Rising(r)
    <2> SUFFICES ASSUME NEW i \in 1..Len(r), NEW j \in 1..Len(r), i < j, r[i].cmd = "MSG", r[j].cmd = "MSG"
                 PROVE  r[i].of <= r[j].of /\ (r[i].of = r[j].of => \A m \in (i + 1)..j : r[m].part # "h1")
        BY DEF Rising
    <2>1. CASE j <= Len(s)
        BY SMTT(60), <1>8, <2>1 DEF Rising
    <2>2. CASE i <= Len(s) /\ j > Len(s)
        BY <1>2, <1>8, <1>9, <1>10, <2>2, SMTT(60)
    <2>3. CASE i > Len(s)
        <3>1. j > Len(s) /\ Len(r) \in Nat
            BY <1>8, <2>3
        <3>2. r[i].of = p /\ r[j].of = p
            BY <1>9, <2>3, <3>1
        <3>3. ASSUME NEW m \in (i + 1)..j PROVE r[m].part # "h1"
            <4>1. m \in 1..Len(r) /\ m > Len(s) /\ m > Len(s) + 1
                BY <1>8, <2>3, <3>1
            <4> QED
                BY <1>9, <4>1
        <3>4. p <= p
            BY <1>2
        <3> QED
            BY <3>2, <3>3, <3>4
    <2> QED
        BY <1>8, <2>1, <2>2, <2>3
<1>12. Within(r, low, p)
    <2> SUFFICES ASSUME NEW i \in 1..Len(r), r[i].cmd = "MSG" PROVE r[i].of <= p /\ \A q \in low : q < r[i].of
        BY DEF Within
    <2>1. CASE i <= Len(s)
        BY <1>2, <1>8, <1>10, <2>1, SMTT(60) DEF Within
    <2>2. CASE i > Len(s)
        BY <1>2, <1>9, <2>2
    <2> QED
        BY <1>8, <2>1, <2>2
<1> QED
    BY <1>7, <1>11, <1>12 DEF r, t

\* t is what is left of s without its first d units.
LEMMA Shrunk ==
  ASSUME NEW s \in Seq(Units), NEW t \in Seq(Units), NEW d \in Nat, NEW o \in Ends, NEW low, NEW high,
         Len(s) = Len(t) + d, \A i \in 1..Len(t) : t[i] = s[i + d]
  PROVE  /\ Rising(s) => Rising(t)
         /\ Within(s, low, high) => Within(t, low, high)
         /\ \A i \in Nat \ {0} : Begins(s, i + d) => Begins(t, i)
         /\ \A i \in Nat \ {0}, p \in DOMAIN Given[o] : BodyAt(s, i + d, o, p) => BodyAt(t, i, o, p)
         /\ (\A i \in 1..Len(s) : s[i].part = "h1" => FrameAt(s, i, o)) =>
               \A i \in 1..Len(t) : t[i].part = "h1" => FrameAt(t, i, o)
<1>1. Len(t) \in Nat /\ Len(s) \in Nat
    OBVIOUS
<1>2. Rising(s) => Rising(t)
    <2> SUFFICES ASSUME Rising(s), NEW i \in 1..Len(t), NEW j \in 1..Len(t), i < j, t[i].cmd = "MSG", t[j].cmd = "MSG"
                 PROVE  t[i].of <= t[j].of /\ (t[i].of = t[j].of => \A m \in (i + 1)..j : t[m].part # "h1")
        BY DEF Rising
    <2>1. i + d \in 1..Len(s) /\ j + d \in 1..Len(s) /\ i + d < j + d /\ t[i] = s[i + d] /\ t[j] = s[j + d]
        BY <1>1, SMTT(60)
    <2>2. s[i + d].of <= s[j + d].of /\ (s[i + d].of = s[j + d].of => \A m \in (i + d + 1)..(j + d) : s[m].part # "h1")
        BY <2>1 DEF Rising
    <2>3. ASSUME NEW m \in (i + 1)..j PROVE m + d \in (i + d + 1)..(j + d) /\ t[m] = s[m + d]
        <3>1. m \in 1..Len(t) /\ m + d \in (i + d + 1)..(j + d)
            BY <1>1, SMTT(60)
        <3> QED
            BY <3>1
    <2> QED
        BY <2>1, <2>2, <2>3
<1>3. Within(s, low, high) => Within(t, low, high)
    BY <1>1 DEF Within
<1>4. ASSUME NEW i \in Nat \ {0}, Begins(s, i + d) PROVE Begins(t, i)
    BY <1>1, <1>4 DEF Begins
<1>5. ASSUME NEW i \in Nat \ {0}, NEW p \in DOMAIN Given[o], BodyAt(s, i + d, o, p) PROVE BodyAt(t, i, o, p)
    <2> DEFINE z == Packages!Size(o, p)
    <2>1. z \in Nat \ {0}
        BY Sized
    <2>2. /\ i + d + z - 1 <= Len(s) /\ s[i + d] = Packages!Unit("u", "MSG", p) /\ Begins(s, i + d + z)
          /\ \A j \in (i + d + 1)..(i + d + z - 1) : s[j] = Packages!Unit("b", "MSG", p)
        BY <1>5 DEF BodyAt
    <2> HIDE DEF z
    <2>3. i + z - 1 <= Len(t) /\ i \in 1..Len(t) /\ i + d + z = (i + z) + d /\ i + z \in Nat \ {0}
        BY <1>1, <2>1, <2>2, SMTT(60)
    <2>4. Begins(t, i + z)
        BY <1>4, <2>2, <2>3
    <2>5. ASSUME NEW j \in (i + 1)..(i + z - 1) PROVE t[j] = Packages!Unit("b", "MSG", p)
        <3>1. j + d \in (i + d + 1)..(i + d + z - 1) /\ j \in 1..Len(t)
            BY <1>1, <2>1, <2>3
        <3> QED
            BY <2>2, <3>1
    <2> QED
        BY <2>2, <2>3, <2>4, <2>5 DEF BodyAt, z
<1>6. ASSUME \A i \in 1..Len(s) : s[i].part = "h1" => FrameAt(s, i, o), NEW i \in 1..Len(t), t[i].part = "h1"
      PROVE  FrameAt(t, i, o)
    <2>1. i + d \in 1..Len(s) /\ t[i] = s[i + d] /\ FrameAt(s, i + d, o)
        BY <1>1, <1>6
    <2>2. i + 1 <= Len(t) /\ t[i + 1] = s[i + d + 1] /\ i + 1 + d = i + d + 1 /\ i + d + 2 = (i + 2) + d
        BY <1>1, <2>1 DEF FrameAt
    <2>3. CASE t[i].cmd = "MSG"
        BY SMTT(60), <1>5, <2>1, <2>2, <2>3 DEF FrameAt, BodyAt
    <2>4. CASE t[i].cmd # "MSG"
        BY <1>4, <2>1, <2>2, <2>4, SMTT(60) DEF FrameAt
    <2> QED
        BY <2>3, <2>4
<1> QED
    BY <1>2, <1>3, <1>4, <1>5, <1>6
-------------------------------------------------------------------------------
(* Reading.                                                                  *)

\* The header of a frame is taken: it was whole, and the rest is framed.
LEMMA HeaderTaken ==
  ASSUME NEW s \in Seq(Units), NEW t \in Seq(Units), NEW o \in Ends, NEW low, NEW high,
         Framing(s, 0, o), Rising(s), Within(s, low, high), Len(s) = Len(t) + 2, \A i \in 1..Len(t) : t[i] = s[i + 2]
  PROVE  /\ s[1].part = "h1" /\ s[2] = Packages!Unit("h2", s[1].cmd, s[1].of)
         /\ s[1].cmd # "MSG" => Framing(t, 0, o)
         /\ s[1].cmd = "MSG" => s[1].of \in DOMAIN Given[o] /\ Framing(t, Packages!Size(o, s[1].of), o)
         /\ Rising(t) /\ Within(t, low, high)
<1>1. Len(s) \in Nat /\ Len(t) \in Nat
    OBVIOUS
<1>2. s[1].part = "h1" /\ FrameAt(s, 1, o)
    BY <1>1 DEF Framing, Begins
<1>3. /\ Rising(t) /\ Within(t, low, high)
      /\ \A i \in 1..Len(t) : t[i].part = "h1" => FrameAt(t, i, o)
      /\ Begins(s, 1 + 2) => Begins(t, 1)
      /\ \A p \in DOMAIN Given[o] : BodyAt(s, 1 + 2, o, p) => BodyAt(t, 1, o, p)
    <2>1. \A i \in 1..Len(s) : s[i].part = "h1" => FrameAt(s, i, o)
        BY DEF Framing
    <2>2. 1 \in Nat \ {0} /\ 2 \in Nat
        OBVIOUS
    <2> QED
        BY <2>1, <2>2, Shrunk, Zenon
<1>4. CASE s[1].cmd # "MSG"
    BY <1>2, <1>3, <1>4 DEF FrameAt, Framing
<1>5. CASE s[1].cmd = "MSG"
    <2> DEFINE p == s[1].of
    <2>1. BodyAt(s, 1 + 2, o, p) /\ p \in DOMAIN Given[o]
        BY <1>2, <1>5 DEF FrameAt, BodyAt
    <2>2. BodyAt(t, 1, o, p)
        BY <1>3, <2>1
    <2>3. t[1].of = p
        BY <2>2 DEF BodyAt, Packages!Unit
    <2>4. Packages!Size(o, p) \in Nat \ {0}
        BY <2>1, Sized
    <2>5. t # <<>>
        BY <1>1, <2>2, <2>4 DEF BodyAt
    <2> HIDE DEF p
    <2>6. Framing(t, Packages!Size(o, p), o)
        BY <1>3, <2>2, <2>3, <2>4, <2>5 DEF Framing
    <2> QED
        BY <1>2, <1>3, <1>5, <2>1, <2>6 DEF FrameAt, p
<1> QED
    BY <1>2, <1>3, <1>4, <1>5 DEF FrameAt

\* The body of p is taken: what is left begins with a header, and its packages come after p.
LEMMA BodyTaken ==
  ASSUME NEW s \in Seq(Units), NEW t \in Seq(Units), NEW o \in Ends, NEW k \in Nat \ {0}, NEW low, NEW high,
         Framing(s, k, o), Rising(s), Within(s, low, high), Len(s) = Len(t) + k, \A i \in 1..Len(t) : t[i] = s[i + k]
  PROVE  /\ s[1].cmd = "MSG" /\ s[1].part = "u" /\ s[1].of \in DOMAIN Given[o] /\ k = Packages!Size(o, s[1].of)
         /\ Framing(t, 0, o) /\ Rising(t) /\ Within(t, low \cup {s[1].of}, high)
<1>1. Len(s) \in Nat /\ Len(t) \in Nat
    OBVIOUS
<1> DEFINE p == s[1].of
<1>2. k = Packages!Size(o, p) /\ BodyAt(s, 1, o, p)
    BY DEF Framing
<1>3. s[1] = Packages!Unit("u", "MSG", p) /\ p \in DOMAIN Given[o] /\ Begins(s, 1 + k)
    BY <1>2 DEF BodyAt
<1>4. s[1].cmd = "MSG" /\ s[1].part = "u"
    BY <1>3 DEF Packages!Unit
<1> HIDE DEF p
<1>5. /\ Rising(t) /\ Within(t, low, high)
      /\ \A i \in 1..Len(t) : t[i].part = "h1" => FrameAt(t, i, o)
      /\ Begins(t, 1)
    <2>1. \A i \in 1..Len(s) : s[i].part = "h1" => FrameAt(s, i, o)
        BY DEF Framing
    <2>2. 1 \in Nat \ {0} /\ k \in Nat
        OBVIOUS
    <2> QED
        BY <2>1, <2>2, <1>3, Shrunk, Zenon
<1>6. ASSUME NEW i \in 1..Len(t), t[i].cmd = "MSG" PROVE p < t[i].of
    <2>1. 1 \in 1..Len(s) /\ i + k \in 1..Len(s) /\ 1 < i + k /\ t[i] = s[i + k]
        BY <1>1
    <2>2. s[1 + k].part = "h1" /\ 1 + k \in (1 + 1)..(i + k)
        BY <1>1, <1>3, <2>1 DEF Begins
    <2>3. p <= t[i].of /\ p # t[i].of
        BY <1>4, <1>6, <2>1, <2>2 DEF Rising, p
    <2>4. p \in Nat /\ t[i] \in Units
        BY <1>3, Sized
    <2>5. t[i].of \in Nat
        BY <2>4 DEF Units
    <2> QED
        BY <2>3, <2>4, <2>5
<1>7. Within(t, low \cup {p}, high)
    BY <1>5, <1>6 DEF Within
<1> QED
    BY <1>2, <1>3, <1>4, <1>5, <1>7 DEF Framing, p
-------------------------------------------------------------------------------
\* What is on its way to n, unit by unit.
LEMMA WireTyped ==
  ASSUME PackagesTyped, NEW n \in Ends
  PROVE  /\ Stream(n) \in Seq(Units) /\ Len(Stream(n)) = Len(in[n]) + Len(wire[Packages!Other(n)])
         /\ in[n] \in Seq(Units) /\ wire[n] \in Seq(Units) /\ wire[Packages!Other(n)] \in Seq(Units)
         /\ \A i \in 1..Len(in[n]) : Stream(n)[i] = in[n][i]
         /\ \A i \in 1..Len(wire[Packages!Other(n)]) : Stream(n)[Len(in[n]) + i] = wire[Packages!Other(n)][i]
<1>1. in[n] \in Seq(Units) /\ wire[n] \in Seq(Units) /\ wire[Packages!Other(n)] \in Seq(Units)
    BY TwoEnds DEF PackagesTyped
<1> QED
    BY <1>1, JoinedUnits, Zenon DEF Stream

\* What concerns the packages for n.
SameFor(n) == /\ in'[n] = in[n] /\ wire'[Packages!Other(n)] = wire[Packages!Other(n)] /\ need'[n] = need[n]
              /\ got'[n] = got[n] /\ refused'[n] = refused[n] /\ todo'[Packages!Other(n)] = todo[Packages!Other(n)]

LEMMA SameFlow ==
  ASSUME PackagesInv, NEW n \in Ends, SameFor(n), queue'[n] <= queue[n], queue'[n] \in Nat
  PROVE  Dealing(n)' /\ Flowing(n)'
<1>1. Stream(n)' = Stream(n) /\ Dealt(n)' = Dealt(n) /\ Sent(Packages!Other(n))' = Sent(Packages!Other(n)) /\ need'[n] = need[n]
    BY DEF SameFor, Stream, Dealt, Sent
<1>2. Flowing(n)'
    BY <1>1 DEF PackagesInv, Flowing
<1>3. queue[n] \in Nat /\ got[n] \in Seq(Nat)
    BY DEF PackagesInv, PackagesTyped
<1>4. queue'[n] <= Len(got[n])
    BY <1>3 DEF PackagesInv, Dealing
<1>5. Dealing(n)'
    BY <1>1, <1>4 DEF PackagesInv, Dealing, SameFor
<1> QED
    BY <1>2, <1>5

LEMMA PackagesStill == PackagesInv /\ UNCHANGED packageVars => PackagesInv'
<1> SUFFICES ASSUME PackagesInv, UNCHANGED packageVars PROVE PackagesInv'
    OBVIOUS
<1>1. UNCHANGED <<mode, up, todo, wire, in, need, queue, got, refused, failed, cuts, beats>>
    BY DEF packageVars
<1> QED
    BY <1>1, ZenonT(60) DEF PackagesInv, PackagesTyped, Submitting, Dealing, Flowing, Dealt, Sent, Stream
-------------------------------------------------------------------------------
(* The steps.                                                                *)

\* What there is to know of the two ends.
LEMMA Ended ==
  ASSUME PackagesInv, NEW n \in Ends
  PROVE  /\ PackagesTyped /\ Submitting(n) /\ Dealing(n) /\ Flowing(n)
         /\ todo[n] \in Seq(Nat) /\ wire[n] \in Seq(Units) /\ in[n] \in Seq(Units) /\ got[n] \in Seq(Nat)
         /\ need[n] \in Nat /\ queue[n] \in Nat /\ refused[n] \in SUBSET Nat
         /\ Len(Given[n]) \in Nat /\ DOMAIN Given[n] = 1..Len(Given[n]) /\ Sent(n) \in Nat /\ Sent(n) <= Len(Given[n])
<1>1. todo[n] \in Seq(Nat) /\ Len(todo[n]) <= Len(Given[n]) /\ Len(Given[n]) \in Nat /\ DOMAIN Given[n] = 1..Len(Given[n])
    BY GivenAssumption DEF PackagesInv, PackagesTyped, Submitting
<1>2. Sent(n) \in Nat /\ Sent(n) <= Len(Given[n])
    <2>1. Len(todo[n]) \in Nat
        BY <1>1
    <2>2. \A a, b \in Nat : b <= a => a - b \in Nat /\ a - b <= a
        OBVIOUS
    <2> QED
        BY <2>1, <2>2, <1>1, Zenon DEF Sent
<1> QED
    BY <1>1, <1>2 DEF PackagesInv, PackagesTyped

\* The next package is written as a whole.
LEMMA PackageSendStep == ASSUME ~ OutOfMemory, PackagesInv, NEW n \in Ends, Packages!Send(n) PROVE PackagesInv'
<1> DEFINE r == Packages!Other(n)
           p == Head(todo[n])
<1>1. /\ todo[n] # <<>> /\ wire' = [wire EXCEPT ![n] = @ \o Packages!Frame(n, p)]
      /\ todo' = [todo EXCEPT ![n] = Tail(@)]
      /\ UNCHANGED <<mode, in, need, queue, got, refused, failed>>
    BY DEF Packages!Send, Packages!Submit, Packages!ends
<1>2. r \in Ends /\ r # n /\ Packages!Other(r) = n /\ Ends = {n, r}
    BY TwoEnds
<1>3. Submitting(n) /\ todo[n] \in Seq(Nat) /\ Sent(n) \in Nat /\ Sent(n) <= Len(Given[n])
      /\ DOMAIN Given[n] = 1..Len(Given[n]) /\ Len(Given[n]) \in Nat
    BY Ended
<1>4. Len(todo[n]) \in Nat \ {0} /\ Tail(todo[n]) \in Seq(Nat) /\ Len(Tail(todo[n])) = Len(todo[n]) - 1
      /\ \A i \in 1..Len(Tail(todo[n])) : Tail(todo[n])[i] = todo[n][i + 1]
    BY <1>1, <1>3
<1>5. p = Sent(n) + 1 /\ p \in DOMAIN Given[n]
    <2>1. 1 \in 1..Len(todo[n]) /\ p = todo[n][1]
        BY <1>1, <1>3, <1>4
    <2>2. p = Sent(n) + 1
        BY <1>3, <2>1, Zenon DEF Submitting
    <2>3. \A a \in Nat, b \in Nat \ {0} : a - b \in Nat => (a - b) + 1 \in 1..a
        OBVIOUS
    <2>4. Sent(n) + 1 \in 1..Len(Given[n])
        BY <1>3, <1>4, <2>3, Zenon DEF Sent
    <2> QED
        BY <1>3, <2>2, <2>4
<1> HIDE DEF r, p
<1>6. Packages!Frame(n, p) \in Seq(Units)
    BY <1>5, Frames
<1>7. todo'[n] = Tail(todo[n]) /\ todo'[r] = todo[r] /\ wire'[n] = wire[n] \o Packages!Frame(n, p) /\ wire'[r] = wire[r]
      /\ todo' \in [Ends -> Seq(Nat)] /\ wire' \in [Ends -> Seq(Units)]
    <2>1. wire[n] \o Packages!Frame(n, p) \in Seq(Units)
        BY <1>6, Ended, JoinedUnits
    <2> QED
        BY <1>1, <1>2, <1>4, <2>1 DEF PackagesInv, PackagesTyped
<1>8. PackagesTyped'
    BY <1>1, <1>7 DEF PackagesInv, PackagesTyped
<1>9. Sent(n)' = p /\ Sent(r)' = Sent(r)
    <2>1. \A a \in Nat, b \in Nat \ {0} : a - (b - 1) = (a - b) + 1
        OBVIOUS
    <2>2. Len(Given[n]) - Len(todo'[n]) = (Len(Given[n]) - Len(todo[n])) + 1
        <3>1. Len(todo'[n]) = Len(todo[n]) - 1
            BY <1>4, <1>7, Zenon
        <3> QED
            BY <1>3, <1>4, <2>1, <3>1, Zenon
    <2> QED
        BY <1>5, <1>7, <2>2, Zenon DEF Sent
<1>10. Submitting(n)'
    <2>1. Len(todo'[n]) <= Len(Given[n])
        <3>1. Len(todo'[n]) = Len(todo[n]) - 1 /\ Len(todo[n]) <= Len(Given[n])
            BY <1>3, <1>4, <1>7, Zenon DEF Submitting
        <3>2. \A a, b \in Nat : b <= a => b - 1 <= a
            OBVIOUS
        <3> QED
            BY <1>3, <1>4, <3>1, <3>2, Zenon
    <2>2. ASSUME NEW i \in 1..Len(todo'[n]) PROVE todo'[n][i] = p + i
        <3>1. i + 1 \in 1..Len(todo[n]) /\ todo'[n][i] = todo[n][i + 1]
            BY SMTT(60), <1>4, <1>7
        <3>2. todo[n][i + 1] = Sent(n) + (i + 1)
            BY <1>3, <3>1, Zenon DEF Submitting
        <3> QED
            BY <1>3, <1>5, <3>1, <3>2
    <2> QED
        BY <1>9, <2>1, <2>2 DEF Submitting
<1>11. Submitting(r)'
    BY <1>2, <1>7, <1>9, Ended DEF Submitting
<1>12. Dealing(n)' /\ Flowing(n)'
    <2>1. SameFor(n)
        BY <1>1, <1>2, <1>7 DEF SameFor, r
    <2>2. queue'[n] = queue[n] /\ queue[n] \in Nat
        BY <1>1, Ended
    <2>3. queue'[n] <= queue[n]
        BY <2>2
    <2> QED
        BY <2>1, <2>2, <2>3, SameFlow
<1>13. Dealing(r)'
    <2>1. Dealing(r) /\ got[r] \in Seq(Nat) /\ refused[r] \in SUBSET Nat
        BY <1>2, Ended
    <2> QED
        BY SMTT(60), <1>1, <1>2, <1>3, <1>5, <1>9, <2>1 DEF Dealing
<1>14. Flowing(r)'
    <2>1. Flowing(r) /\ Dealing(r) /\ need[r] \in Nat /\ got[r] \in Seq(Nat) /\ refused[r] \in SUBSET Nat
        BY <1>2, Ended
    <2>2. Stream(r) \in Seq(Units) /\ in[r] \in Seq(Units) /\ wire[n] \in Seq(Units) /\ Stream(r) = in[r] \o wire[n]
        BY <1>2, WireTyped DEF PackagesInv, Stream
    <2>3. Stream(r)' = Stream(r) \o Packages!Frame(n, p)
        <3>1. Stream(r)' = in[r] \o (wire[n] \o Packages!Frame(n, p))
            BY <1>1, <1>2, <1>7 DEF Stream
        <3> QED
            <4>1. in[r] \o (wire[n] \o Packages!Frame(n, p)) = (in[r] \o wire[n]) \o Packages!Frame(n, p)
                BY <1>6, <2>2, Onwards, ZenonT(60)
            <4> QED
                BY <2>2, <3>1, <4>1
    <2>4. Framing(Stream(r), need[r], n) /\ Rising(Stream(r)) /\ Within(Stream(r), Dealt(r), p - 1)
        BY <1>2, <1>3, <1>5, <2>1 DEF Flowing
    <2>5. \A q \in Dealt(r) : q < p
        <3>1. \A i \in 1..Len(got[r]) : got[r][i] <= Sent(n) /\ got[r][i] \in Nat
            BY <1>2, <2>1 DEF Dealing
        <3>2. \A q \in refused[r] : q <= Sent(n) /\ q \in Nat
            BY <1>2, <2>1 DEF Dealing
        <3>3. ASSUME NEW q \in Dealt(r) PROVE q <= Sent(n) /\ q \in Nat
            <4>1. q \in ToSet(got[r]) \/ q \in refused[r]
                BY DEF Dealt
            <4>2. CASE q \in ToSet(got[r])
                <5>1. DOMAIN got[r] = 1..Len(got[r])
                    BY <2>1
                <5> QED
                    BY <3>1, <4>2, <5>1, Zenon DEF ToSet
            <4> QED
                BY <3>2, <4>1, <4>2
        <3> QED
            BY <1>3, <1>5, <3>3
    <2>6. LET x == Stream(r) \o Packages!Frame(n, p) IN Framing(x, need[r], n) /\ Rising(x) /\ Within(x, Dealt(r), p)
        BY <1>5, <2>1, <2>2, <2>4, <2>5, GrownByFrame
    <2>7. need'[r] = need[r] /\ Dealt(r)' = Dealt(r)
        BY <1>1 DEF Dealt
    <2> QED
        BY <1>2, <1>9, <2>3, <2>6, <2>7 DEF Flowing
<1> QED
    BY <1>2, <1>8, <1>10, <1>11, <1>12, <1>13, <1>14 DEF PackagesInv

\* A heartbeat is written behind what is on its way.
LEMMA BeatWritten ==
  ASSUME PackagesInv, NEW n \in Ends, NEW c \in {"RQ", "RP"},
         wire'[n] = wire[n] \o Packages!Header(c, 0), PackagesTyped',
         LET r == Packages!Other(n)
         IN in'[r] = in[r] /\ need'[r] = need[r] /\ got'[r] = got[r] /\ refused'[r] = refused[r] /\ queue'[r] = queue[r],
         todo' = todo
  PROVE  Submitting(n)' /\ Dealing(Packages!Other(n))' /\ Flowing(Packages!Other(n))'
<1> DEFINE r == Packages!Other(n)
<1>1. r \in Ends /\ r # n /\ Packages!Other(r) = n
    BY TwoEnds
<1>2. in'[r] = in[r] /\ need'[r] = need[r] /\ got'[r] = got[r] /\ refused'[r] = refused[r] /\ queue'[r] = queue[r]
    OBVIOUS
<1> HIDE DEF r
<1>3. Submitting(n) /\ Dealing(r) /\ Flowing(r) /\ need[r] \in Nat
    BY <1>1, Ended
<1>4. Sent(n)' = Sent(n) /\ Dealt(r)' = Dealt(r)
    BY <1>2 DEF Sent, Dealt
<1>5. Submitting(n)' /\ Dealing(r)'
    BY <1>1, <1>2, <1>3, <1>4 DEF Submitting, Dealing
<1>6. Stream(r) \in Seq(Units) /\ in[r] \in Seq(Units) /\ wire[n] \in Seq(Units) /\ Stream(r) = in[r] \o wire[n]
    BY <1>1, WireTyped DEF PackagesInv, Stream
<1>7. Stream(r)' = Stream(r) \o Packages!Header(c, 0)
    <2>1. Stream(r)' = in[r] \o (wire[n] \o Packages!Header(c, 0))
        BY <1>1, <1>2 DEF Stream
    <2> QED
        <3>1. Packages!Header(c, 0) \in Seq(Units)
            BY Beats
        <3>2. in[r] \o (wire[n] \o Packages!Header(c, 0)) = (in[r] \o wire[n]) \o Packages!Header(c, 0)
            BY <1>6, <3>1, Onwards, ZenonT(60)
        <3> QED
            BY <1>6, <2>1, <3>2
<1>8. LET x == Stream(r) \o Packages!Header(c, 0)
      IN Framing(x, need[r], n) /\ Rising(x) /\ Within(x, Dealt(r), Sent(n))
    BY <1>1, <1>3, <1>6, GrownByBeat DEF Flowing
<1>9. Flowing(r)'
    BY <1>1, <1>2, <1>4, <1>7, <1>8 DEF Flowing
<1> QED
    BY <1>5, <1>9 DEF r

LEMMA BeatRequestStep == ASSUME PackagesInv, NEW n \in Ends, Packages!BeatRequest(n) PROVE PackagesInv'
<1> DEFINE r == Packages!Other(n)
<1>1. wire' = [wire EXCEPT ![n] = @ \o Packages!Header("RQ", 0)]
      /\ UNCHANGED <<mode, todo, in, need, queue, got, refused, failed>>
    BY DEF Packages!BeatRequest, Packages!ends
<1>2. r \in Ends /\ r # n /\ Packages!Other(r) = n /\ Ends = {n, r}
    BY TwoEnds
<1> HIDE DEF r
<1>3. wire'[n] = wire[n] \o Packages!Header("RQ", 0) /\ wire'[r] = wire[r] /\ wire' \in [Ends -> Seq(Units)]
    <2>1. wire[n] \o Packages!Header("RQ", 0) \in Seq(Units)
        BY Beats, Ended, JoinedUnits
    <2> QED
        BY <1>1, <1>2, <2>1 DEF PackagesInv, PackagesTyped
<1>4. PackagesTyped'
    BY <1>1, <1>3 DEF PackagesInv, PackagesTyped
<1>5. Submitting(n)' /\ Dealing(r)' /\ Flowing(r)'
    BY <1>1, <1>3, <1>4, BeatWritten DEF r
<1>6. Dealing(n)' /\ Flowing(n)'
    <2>1. SameFor(n)
        BY <1>1, <1>2, <1>3 DEF SameFor, r
    <2>2. queue'[n] = queue[n] /\ queue[n] \in Nat
        BY <1>1, Ended
    <2>3. queue'[n] <= queue[n]
        BY <2>2
    <2> QED
        BY <2>1, <2>2, <2>3, SameFlow
<1>7. Submitting(r)'
    BY <1>1, <1>2, Ended DEF Submitting, Sent
<1> QED
    BY <1>2, <1>4, <1>5, <1>6, <1>7 DEF PackagesInv

\* Some of what is on its way comes.
LEMMA ArriveStep == ASSUME PackagesInv, NEW n \in Ends, Packages!Arrive(n) PROVE PackagesInv'
<1> DEFINE r == Packages!Other(n)
<1>1. PICK k \in 1..Len(wire[n]) : /\ wire' = [wire EXCEPT ![n] = SubSeq(@, k + 1, Len(@))]
                                   /\ in' = [in EXCEPT ![r] = @ \o SubSeq(wire[n], 1, k)]
    BY DEF Packages!Arrive
<1>2. UNCHANGED <<mode, todo, need, queue, got, refused, failed>>
    BY DEF Packages!Arrive, Packages!ends
<1>3. r \in Ends /\ r # n /\ Packages!Other(r) = n /\ Ends = {n, r}
    BY TwoEnds
<1> HIDE DEF r
<1> DEFINE w == wire[n]
           gone == SubSeq(w, 1, k)
           left == SubSeq(w, k + 1, Len(w))
<1>4. w \in Seq(Units) /\ in[r] \in Seq(Units) /\ Len(w) \in Nat /\ k \in Nat
    BY <1>3, Ended, SMTT(60)
<1>5. gone \in Seq(Units) /\ Len(gone) = k /\ \A i \in 1..k : gone[i] = w[i]
    BY <1>4
<1>6. left \in Seq(Units) /\ Len(left) = Len(w) - k /\ \A i \in 1..Len(left) : left[i] = w[k + i]
    BY <1>4
<1>7. in[r] \o gone \in Seq(Units)
    BY <1>4, <1>5, JoinedUnits
<1>8. /\ wire' \in [Ends -> Seq(Units)] /\ in' \in [Ends -> Seq(Units)]
      /\ wire'[n] = left /\ wire'[r] = wire[r] /\ in'[r] = in[r] \o gone /\ in'[n] = in[n]
    BY <1>1, <1>3, <1>6, <1>7 DEF PackagesInv, PackagesTyped
<1> HIDE DEF w, gone, left
<1>9. PackagesTyped'
    BY <1>2, <1>8 DEF PackagesInv, PackagesTyped
<1>10. Submitting(n)' /\ Submitting(r)'
    BY <1>2, <1>3, Ended DEF Submitting, Sent
<1>11. Dealing(n)' /\ Flowing(n)'
    <2>1. SameFor(n)
        BY <1>2, <1>3, <1>8 DEF SameFor, r
    <2>2. queue'[n] = queue[n] /\ queue[n] \in Nat
        BY <1>2, Ended
    <2>3. queue'[n] <= queue[n]
        BY <2>2
    <2> QED
        BY <2>1, <2>2, <2>3, SameFlow
<1>12. Dealing(r)'
    BY <1>2, <1>3, Ended DEF Dealing, Sent
<1>13. Flowing(r)'
    <2>1. Flowing(r) /\ need[r] \in Nat
        BY <1>3, Ended
    <2>2. Stream(r) = in[r] \o w /\ Stream(r)' = (in[r] \o gone) \o left
        BY <1>3, <1>8 DEF Stream, w
    <2>3. Stream(r)' = in[r] \o (gone \o left)
        BY <1>4, <1>5, <1>6, <2>2, Onwards
    <2>4. gone \o left = w
        <3>1. gone \o left \in Seq(Units) /\ Len(gone \o left) = Len(w)
            <4>1. gone \o left \in Seq(Units) /\ Len(gone \o left) = Len(gone) + Len(left)
                BY <1>5, <1>6, JoinedUnits, Zenon
            <4> QED
                BY <1>4, <1>5, <1>6, <4>1
        <3>2. \A i \in 1..Len(gone) : (gone \o left)[i] = gone[i]
            BY <1>5, <1>6, JoinedUnits, Zenon
        <3>3. \A i \in 1..Len(left) : (gone \o left)[Len(gone) + i] = left[i]
            BY <1>5, <1>6, JoinedUnits, Zenon
        <3>4. ASSUME NEW i \in 1..Len(w) PROVE (gone \o left)[i] = w[i]
            <4>1. CASE i <= k
                BY <1>4, <1>5, <3>2, <4>1
            <4>2. CASE ~ (i <= k)
                <5>1. PICK j \in 1..Len(left) : i = k + j
                    <6>1. i - k \in 1..Len(left) /\ i = k + (i - k)
                        BY <1>4, <1>6, <4>2
                    <6> QED
                        BY <6>1
                <5> QED
                    BY SMTT(60), <1>5, <1>6, <3>3, <5>1
            <4> QED
                BY <4>1, <4>2
        <3> QED
            BY <1>4, <3>1, <3>4, UnitsEqual
    <2>5. Stream(r)' = Stream(r) /\ Dealt(r)' = Dealt(r) /\ Sent(n)' = Sent(n) /\ need'[r] = need[r]
        BY <1>2, <2>2, <2>3, <2>4 DEF Dealt, Sent
    <2> QED
        BY <1>3, <2>1, <2>5 DEF Flowing
<1> QED
    BY <1>3, <1>9, <1>10, <1>11, <1>12, <1>13 DEF PackagesInv

\* The connection is cut and made: nothing is on its way.
LEMMA NothingFlows ==
  ASSUME PackagesInv, PackagesTyped', UNCHANGED <<mode, todo, queue, got, refused>>,
         \A n \in Ends : wire'[n] = <<>> /\ in'[n] = <<>> /\ need'[n] = 0
  PROVE  PackagesInv'
<1> SUFFICES ASSUME NEW n \in Ends PROVE Submitting(n)' /\ Dealing(n)' /\ Flowing(n)'
    BY DEF PackagesInv
<1> DEFINE r == Packages!Other(n)
<1>1. r \in Ends
    BY TwoEnds
<1>2. Submitting(n)' /\ Dealing(n)'
    BY Ended DEF Submitting, Dealing, Sent
<1>3. Stream(n)' = <<>> /\ Len(<<>>) = 0
    BY <1>1 DEF Stream
<1>4. Framing(<<>>, 0, r) /\ Rising(<<>>)
    BY <1>3 DEF Framing, Begins, Rising
<1>5. \A low, high : Within(<<>>, low, high)
    BY <1>3 DEF Within
<1>6. need'[n] = 0
    OBVIOUS
<1> HIDE DEF r
<1>7. Flowing(n)'
    BY <1>3, <1>4, <1>5, <1>6 DEF Flowing, r
<1> QED
    BY <1>2, <1>7

LEMMA CutStep == PackagesInv /\ Packages!Cut => PackagesInv'
<1> SUFFICES ASSUME PackagesInv, Packages!Cut PROVE PackagesInv'
    OBVIOUS
<1>1. /\ wire' = [n \in Ends |-> <<>>] /\ in' = [n \in Ends |-> <<>>] /\ need' = [n \in Ends |-> 0]
      /\ failed' = [n \in Ends |-> FALSE] /\ UNCHANGED <<mode, todo, queue, got, refused>>
    BY DEF Packages!Cut, Packages!Submit, Packages!ends
<1>2. <<>> \in Seq(Units)
    OBVIOUS
<1>3. PackagesTyped'
    BY <1>1, <1>2 DEF PackagesInv, PackagesTyped
<1> QED
    BY <1>1, <1>3, NothingFlows

LEMMA ConnectStep == PackagesInv /\ Packages!Connect => PackagesInv'
<1> SUFFICES ASSUME PackagesInv, Packages!Connect PROVE PackagesInv'
    OBVIOUS
<1>1. UNCHANGED <<mode, todo, wire, in, need, queue, got, refused, failed>>
    BY DEF Packages!Connect, Packages!ends
<1> QED
    BY <1>1, ZenonT(60) DEF PackagesInv, PackagesTyped, Submitting, Dealing, Flowing, Dealt, Sent, Stream

\* A receiver takes a package from its queue.
LEMMA TakeStep == ASSUME PackagesInv, NEW n \in Ends, Packages!Take(n) PROVE PackagesInv'
<1>1. queue[n] > 0 /\ queue' = [queue EXCEPT ![n] = @ - 1]
      /\ UNCHANGED <<mode, todo, wire, in, need, got, refused, failed>>
    BY DEF Packages!Take
<1>2. \A m \in Ends : queue[m] \in Nat /\ queue'[m] \in Nat /\ queue'[m] <= queue[m]
    <2>1. \A m \in Ends : queue[m] \in Nat /\ queue'[m] = IF m = n THEN queue[m] - 1 ELSE queue[m]
        BY <1>1 DEF PackagesInv, PackagesTyped
    <2> QED
        BY <1>1, <2>1
<1>3. PackagesTyped'
    BY <1>1, <1>2 DEF PackagesInv, PackagesTyped
<1>4. ASSUME NEW m \in Ends PROVE Submitting(m)' /\ Dealing(m)' /\ Flowing(m)'
    <2>1. SameFor(m)
        BY <1>1 DEF SameFor
    <2>2. Submitting(m)'
        BY <1>1, Ended DEF Submitting, Sent
    <2> QED
        BY <1>2, <2>1, <2>2, SameFlow
<1> QED
    BY <1>3, <1>4 DEF PackagesInv

\* A body is there, with `rest` what has come and `size` what it takes: it is thrown away, left, or handed over.
LEMMA BodyStep ==
  ASSUME PackagesInv, NEW n \in Ends, NEW rest \in Seq(Units), NEW size \in Nat \ {0}, size <= Len(rest),
         LET s == rest \o wire[Packages!Other(n)]
         IN Framing(s, size, Packages!Other(n)) /\ Rising(s) /\ Within(s, Dealt(n), Sent(Packages!Other(n))),
         Packages!Body(n, rest, size), UNCHANGED <<mode, todo, wire, failed>>
  PROVE  PackagesInv'
<1> DEFINE o == Packages!Other(n)
           w == wire[o]
           s == rest \o w
           p == Head(rest).of
           left == SubSeq(rest, size + 1, Len(rest))
<1>1. o \in Ends /\ o # n /\ Packages!Other(o) = n /\ Ends = {n, o}
    BY TwoEnds
<1>2. w \in Seq(Units) /\ s \in Seq(Units) /\ Len(s) = Len(rest) + Len(w) /\ Len(w) \in Nat /\ Len(rest) \in Nat
      /\ (\A i \in 1..Len(rest) : s[i] = rest[i]) /\ \A i \in 1..Len(w) : s[Len(rest) + i] = w[i]
    <2>1. w \in Seq(Units)
        BY <1>1, Ended
    <2>2. s \in Seq(Units) /\ Len(s) = Len(rest) + Len(w)
          /\ (\A i \in 1..Len(rest) : s[i] = rest[i]) /\ \A i \in 1..Len(w) : s[Len(rest) + i] = w[i]
        BY <2>1, JoinedUnits, ZenonT(60)
    <2> QED
        BY <2>1, <2>2
<1>3. Framing(s, size, o) /\ Rising(s) /\ Within(s, Dealt(n), Sent(o))
    OBVIOUS
<1>4. \/ /\ in' = [in EXCEPT ![n] = left] /\ need' = [need EXCEPT ![n] = 0]
         /\ refused' = [refused EXCEPT ![n] = @ \cup {p}] /\ UNCHANGED <<queue, got>>
      \/ /\ in' = [in EXCEPT ![n] = rest] /\ need' = [need EXCEPT ![n] = size] /\ UNCHANGED <<queue, got, refused>>
      \/ /\ in' = [in EXCEPT ![n] = left] /\ need' = [need EXCEPT ![n] = 0]
         /\ queue' = [queue EXCEPT ![n] = @ + 1] /\ got' = [got EXCEPT ![n] = Append(@, p)] /\ UNCHANGED refused
    BY DEF Packages!Body, Packages!Drop, Packages!ends
<1>5. left \in Seq(Units) /\ Len(left) = Len(rest) - size /\ \A i \in 1..Len(left) : left[i] = rest[size + i]
    BY SMTT(60), <1>2
<1>6. rest[1] = s[1] /\ p = s[1].of
    BY <1>2
<1> HIDE DEF o, w, s, p, left
<1> DEFINE t == left \o w
<1>7. t \in Seq(Units) /\ Len(t) = Len(left) + Len(w)
      /\ (\A i \in 1..Len(left) : t[i] = left[i]) /\ \A i \in 1..Len(w) : t[Len(left) + i] = w[i]
    BY <1>2, <1>5, JoinedUnits, ZenonT(60)
<1> HIDE DEF t
<1>8. Len(s) = Len(t) + size
    BY <1>2, <1>5, <1>7
<1>9. ASSUME NEW i \in 1..Len(t) PROVE t[i] = s[i + size]
    <2>1. CASE i <= Len(left)
        <3>1. i \in 1..Len(left) /\ size + i \in 1..Len(rest) /\ size + i = i + size
            BY <1>2, <1>5, <1>7, <2>1
        <3> QED
            BY <1>2, <1>5, <1>7, <3>1
    <2>2. CASE ~ (i <= Len(left))
        <3>1. PICK j \in 1..Len(w) : Len(left) + j = i /\ Len(rest) + j = i + size
            <4>1. i - Len(left) \in 1..Len(w) /\ Len(left) + (i - Len(left)) = i /\ Len(rest) + (i - Len(left)) = i + size
                BY <1>2, <1>5, <1>7, <2>2
            <4> QED
                BY <4>1
        <3> QED
            BY <1>2, <1>7, <3>1, Zenon
    <2> QED
        BY <2>1, <2>2
<1>10. /\ s[1].cmd = "MSG" /\ p \in DOMAIN Given[o] /\ Framing(t, 0, o) /\ Rising(t)
       /\ Within(t, Dealt(n) \cup {p}, Sent(o))
    BY <1>1, <1>2, <1>3, <1>6, <1>7, <1>8, <1>9, BodyTaken, ZenonT(60)
\* p is new, and was sent
<1>11. p \in Nat \ {0} /\ p <= Sent(o) /\ \A q \in Dealt(n) : q < p
    <2>1. 1 \in 1..Len(s)
        BY <1>2
    <2> QED
        BY <1>1, <1>3, <1>6, <1>10, <2>1, Sized DEF Within
<1>12. \A m \in Ends : Sent(m)' = Sent(m)
    BY DEF Sent
<1>13. \A m \in Ends : Submitting(m)'
    BY <1>12, Ended DEF Submitting
<1>14. in' \in [Ends -> Seq(Units)] /\ need' \in [Ends -> Nat]
    <2>1. \E x \in {left, rest}, k \in {0, size} : in' = [in EXCEPT ![n] = x] /\ need' = [need EXCEPT ![n] = k]
        BY <1>4, Zenon
    <2>2. in \in [Ends -> Seq(Units)] /\ need \in [Ends -> Nat]
        BY DEF PackagesInv, PackagesTyped
    <2>3. {left, rest} \subseteq Seq(Units) /\ {0, size} \subseteq Nat
        BY <1>5
    <2> QED
        BY <2>1, <2>2, <2>3, ZenonT(60)
<1>15. Dealing(n) /\ got[n] \in Seq(Nat) /\ refused[n] \in SUBSET Nat /\ queue[n] \in Nat /\ Len(got[n]) \in Nat
    <2>1. Dealing(n) /\ got[n] \in Seq(Nat) /\ refused[n] \in SUBSET Nat /\ queue[n] \in Nat
        BY Ended, Zenon
    <2> QED
        BY <2>1
<1>16. \A q \in refused[n] : q < p /\ q \in Nat
    BY <1>11, <1>15 DEF Dealt
<1>17. \A i \in 1..Len(got[n]) : got[n][i] < p /\ got[n][i] \in Nat
    BY <1>11, <1>15, SMTT(60) DEF Dealt, ToSet
<1>18. CASE in'[n] = left /\ need'[n] = 0 /\ refused' = [refused EXCEPT ![n] = @ \cup {p}] /\ UNCHANGED <<queue, got>>
    <2>1. refused' \in [Ends -> SUBSET Nat] /\ refused'[n] = refused[n] \cup {p}
        BY <1>11, <1>18 DEF PackagesInv, PackagesTyped
    <2>2. PackagesTyped'
        BY <1>14, <1>18, <2>1 DEF PackagesInv, PackagesTyped
    <2>3. Dealt(n)' = Dealt(n) \cup {p}
        BY <1>18, <2>1 DEF Dealt
    <2>4. Stream(n)' = t
        BY <1>18 DEF Stream, t, w, o
    <2>5. Flowing(n)'
        BY <1>1, <1>10, <1>12, <1>18, <2>3, <2>4 DEF Flowing, o
    <2>6. \A i \in 1..Len(got[n]) : got[n][i] # p
        BY <1>11, <1>17
    <2>7. Dealing(n)'
        BY <1>1, <1>11, <1>12, <1>15, <1>18, <2>1, <2>6, SMTT(60) DEF Dealing, o
    <2>8. Dealing(o)' /\ Flowing(o)'
        <3>1. SameFor(o)
            BY <1>1, <1>4, <1>18 DEF SameFor, PackagesInv, PackagesTyped
        <3>2. queue'[o] = queue[o] /\ queue[o] \in Nat
            BY <1>1, <1>18, Ended
        <3> QED
            BY <1>1, <3>1, <3>2, SameFlow
    <2> QED
        BY <1>1, <1>13, <2>2, <2>5, <2>7, <2>8 DEF PackagesInv
<1>19. CASE in'[n] = rest /\ need'[n] = size /\ UNCHANGED <<queue, got, refused>>
    <2>1. PackagesTyped'
        BY <1>14, <1>19 DEF PackagesInv, PackagesTyped
    <2>2. Stream(n)' = s /\ Dealt(n)' = Dealt(n)
        BY <1>19 DEF Stream, s, w, o, Dealt
    <2>3. Flowing(n)'
        BY <1>1, <1>3, <1>12, <1>19, <2>2 DEF Flowing, o
    <2>4. Dealing(n)'
        BY <1>1, <1>12, <1>15, <1>19 DEF Dealing, o
    <2>5. Dealing(o)' /\ Flowing(o)'
        <3>1. SameFor(o)
            BY <1>1, <1>4, <1>19 DEF SameFor, PackagesInv, PackagesTyped
        <3>2. queue'[o] = queue[o] /\ queue[o] \in Nat
            BY <1>1, <1>19, Ended
        <3> QED
            BY <1>1, <3>1, <3>2, SameFlow
    <2> QED
        BY <1>1, <1>13, <2>1, <2>3, <2>4, <2>5 DEF PackagesInv
<1>20. CASE /\ in'[n] = left /\ need'[n] = 0 /\ queue' = [queue EXCEPT ![n] = @ + 1]
            /\ got' = [got EXCEPT ![n] = Append(@, p)] /\ UNCHANGED refused
    <2> DEFINE g == got[n]
               h == Append(g, p)
    <2>1. got'[n] = h /\ h \in Seq(Nat) /\ Len(h) = Len(g) + 1 /\ h[Len(g) + 1] = p /\ \A i \in 1..Len(g) : h[i] = g[i]
        BY <1>11, <1>15, <1>20 DEF PackagesInv, PackagesTyped
    <2>2. got' \in [Ends -> Seq(Nat)] /\ queue' \in [Ends -> Nat] /\ queue'[n] = queue[n] + 1
        <3>1. queue \in [Ends -> Nat] /\ got \in [Ends -> Seq(Nat)]
            BY DEF PackagesInv, PackagesTyped
        <3>2. queue[n] + 1 \in Nat
            BY <1>15
        <3> QED
            BY <1>20, <2>1, <3>1, <3>2, Zenon
    <2>3. PackagesTyped'
        BY <1>14, <1>20, <2>2 DEF PackagesInv, PackagesTyped
    <2>4. Dealing(n) /\ g \in Seq(Nat) /\ Len(g) \in Nat /\ \A i \in 1..Len(g) : g[i] < p /\ g[i] \in Nat
        BY <1>15, <1>17
    <2> HIDE DEF g, h
    <2>5. \A i \in 1..Len(h) : i \in 1..Len(g) \/ (i = Len(g) + 1 /\ h[i] = p)
        BY <2>1, <2>4
    <2>6. Dealt(n)' = Dealt(n) \cup {p}
        <3>1. ToSet(h) = ToSet(g) \cup {p}
            <4>1. DOMAIN h = 1..Len(h) /\ DOMAIN g = 1..Len(g)
                BY <2>1, <2>4
            <4>2. Len(g) + 1 \in 1..Len(h) /\ 1..Len(g) \subseteq 1..Len(h)
                BY <2>1, <2>4
            <4> QED
                BY <2>1, <2>5, <4>1, <4>2, ZenonT(60) DEF ToSet
        <3> QED
            BY <1>20, <2>1, <3>1 DEF Dealt, g
    <2>7. Stream(n)' = t
        BY <1>20 DEF Stream, t, w, o
    <2>8. Flowing(n)'
        BY <1>1, <1>10, <1>12, <1>20, <2>6, <2>7 DEF Flowing, o
    \* p is at least as large as its place
    <2>9. p >= Len(g) + 1
        <3>1. CASE Len(g) = 0
            BY <1>11, <3>1
        <3>2. CASE Len(g) > 0
            BY <1>11, <2>4, <3>2, SMTT(60) DEF Dealing, g
        <3> QED
            BY <2>4, <3>1, <3>2
    <2>10. \A i \in 1..Len(h) : h[i] >= i /\ h[i] <= Sent(o) /\ h[i] \notin refused[n]
        <3>1. \A i \in 1..Len(g) : g[i] >= i /\ g[i] <= Sent(o) /\ g[i] \notin refused[n]
            BY <2>4 DEF Dealing, g, o
        <3>2. p \notin refused[n]
            BY <1>11, <1>16
        <3> QED
            BY <1>11, <2>1, <2>5, <2>9, <3>1, <3>2
    <2>11. \A i, j \in 1..Len(h) : i < j => h[i] < h[j]
        <3>1. \A i, j \in 1..Len(g) : i < j => g[i] < g[j]
            BY <2>4 DEF Dealing, g
        <3> SUFFICES ASSUME NEW i \in 1..Len(h), NEW j \in 1..Len(h), i < j PROVE h[i] < h[j]
            OBVIOUS
        <3>2. i \in 1..Len(g) /\ h[i] = g[i]
            BY <2>1, <2>4, SMTT(60)
        <3>3. CASE j \in 1..Len(g)
            BY <2>1, <3>1, <3>2, <3>3
        <3>4. CASE h[j] = p
            BY <2>4, <3>2, <3>4
        <3> QED
            BY <2>5, <3>3, <3>4
    <2>12. queue[n] <= Len(g) /\ \A q \in refused[n] : q >= 1 /\ q <= Sent(o)
        BY <2>4 DEF Dealing, g, o
    <2>13. Dealing(n)'
        <3>1. queue'[n] <= Len(got'[n])
            BY <1>15, <2>1, <2>2, <2>4, <2>12
        <3>2. Sent(Packages!Other(n))' = Sent(o) /\ refused'[n] = refused[n]
            BY <1>1, <1>12, <1>20 DEF o
        <3> QED
            BY <2>1, <2>10, <2>11, <2>12, <3>1, <3>2 DEF Dealing
    <2>14. Dealing(o)' /\ Flowing(o)'
        <3>1. SameFor(o)
            BY <1>1, <1>4, <1>20 DEF SameFor, PackagesInv, PackagesTyped
        <3>2. queue'[o] = queue[o] /\ queue[o] \in Nat
            BY <1>1, <1>20, Ended
        <3> QED
            BY <1>1, <3>1, <3>2, SameFlow
    <2> QED
        BY <1>1, <1>13, <2>3, <2>8, <2>13, <2>14 DEF PackagesInv
<1> QED
    <2>1. in'[n] = left \/ in'[n] = rest
        BY <1>4 DEF PackagesInv, PackagesTyped
    <2> QED
        BY <1>4, <1>18, <1>19, <1>20 DEF PackagesInv, PackagesTyped

\* The body that the reader waited for.
LEMMA ReadBodyStep == ASSUME PackagesInv, NEW n \in Ends, Packages!ReadBody(n) PROVE PackagesInv'
<1>1. need[n] > 0 /\ need[n] <= Len(in[n]) /\ Packages!Body(n, in[n], need[n]) /\ UNCHANGED <<mode, todo, wire, failed>>
    <2>1. need[n] \in Nat /\ in[n] \in Seq(Units)
        BY Ended
    <2> QED
        BY <2>1 DEF Packages!ReadBody
<1>2. in[n] \in Seq(Units) /\ need[n] \in Nat \ {0} /\ Flowing(n)
    <2>1. in[n] \in Seq(Units) /\ need[n] \in Nat /\ Flowing(n)
        BY Ended, Zenon
    <2> QED
        BY <1>1, <2>1
<1>3. LET s == in[n] \o wire[Packages!Other(n)]
      IN Framing(s, need[n], Packages!Other(n)) /\ Rising(s) /\ Within(s, Dealt(n), Sent(Packages!Other(n)))
    BY <1>2 DEF Flowing, Stream
<1> QED
    BY <1>1, <1>2, <1>3, BodyStep

\* What stands where a header is looked for is one.
LEMMA HeaderStands ==
  ASSUME PackagesInv, NEW n \in Ends, need[n] = 0, Len(in[n]) >= 2
  PROVE  LET o == Packages!Other(n)
             h == in[n][1]
             rest == SubSeq(in[n], 3, Len(in[n]))
             t == rest \o wire[o]
         IN /\ h.part = "h1" /\ in[n][2] = Packages!Unit("h2", h.cmd, h.of)
            /\ h \in Units /\ rest \in Seq(Units) /\ Len(rest) = Len(in[n]) - 2
            /\ h.cmd # "MSG" => Framing(t, 0, o)
            /\ h.cmd = "MSG" => h.of \in DOMAIN Given[o] /\ Framing(t, Packages!Size(o, h.of), o)
            /\ Rising(t) /\ Within(t, Dealt(n), Sent(o))
<1> DEFINE o == Packages!Other(n)
           b == in[n]
           w == wire[o]
           s == Stream(n)
           rest == SubSeq(b, 3, Len(b))
           t == rest \o w
<1>1. o \in Ends
    BY TwoEnds
<1>2. /\ s \in Seq(Units) /\ Len(s) = Len(b) + Len(w) /\ b \in Seq(Units) /\ w \in Seq(Units)
      /\ (\A i \in 1..Len(b) : s[i] = b[i]) /\ \A i \in 1..Len(w) : s[Len(b) + i] = w[i]
    BY WireTyped, Zenon DEF PackagesInv
<1>3. Len(b) >= 2 /\ Len(b) \in Nat /\ Len(w) \in Nat
    BY <1>2
<1>4. Framing(s, 0, o) /\ Rising(s) /\ Within(s, Dealt(n), Sent(o))
    BY Ended DEF Flowing
<1> HIDE DEF o, b, w, s
<1>5. rest \in Seq(Units) /\ Len(rest) = Len(b) - 2 /\ \A i \in 1..Len(rest) : rest[i] = b[i + 2]
    <2>1. PICK k \in 0..Len(b) : k = 2
        BY <1>3
    <2>2. rest = SubSeq(b, k + 1, Len(b))
        BY <2>1
    <2> HIDE DEF rest
    <2>3. rest \in Seq(Units) /\ Len(rest) = Len(b) - k /\ \A i \in 1..Len(rest) : rest[i] = b[i + k]
        BY <1>2, <2>2, LeftUnits, SMTT(60)
    <2> QED
        BY <2>1, <2>3
<1> HIDE DEF rest
<1>6. t \in Seq(Units) /\ Len(t) = Len(rest) + Len(w)
      /\ (\A i \in 1..Len(rest) : t[i] = rest[i]) /\ \A i \in 1..Len(w) : t[Len(rest) + i] = w[i]
    BY <1>2, <1>5, JoinedUnits, ZenonT(60)
<1> HIDE DEF t
<1>7. Len(s) = Len(t) + 2
    BY <1>2, <1>3, <1>5, <1>6
<1>8. ASSUME NEW i \in 1..Len(t) PROVE t[i] = s[i + 2]
    <2>1. CASE i <= Len(rest)
        <3>1. i \in 1..Len(rest) /\ i + 2 \in 1..Len(b)
            BY <1>3, <1>5, <1>6, <2>1
        <3> QED
            BY <1>2, <1>5, <1>6, <3>1
    <2>2. CASE ~ (i <= Len(rest))
        <3>1. i - Len(rest) \in 1..Len(w) /\ Len(rest) + (i - Len(rest)) = i /\ Len(b) + (i - Len(rest)) = i + 2
            BY <1>3, <1>5, <1>6, <2>2
        <3>2. t[Len(rest) + (i - Len(rest))] = w[i - Len(rest)]
            BY <1>6, <3>1, Zenon
        <3>3. s[Len(b) + (i - Len(rest))] = w[i - Len(rest)]
            BY <1>2, <3>1, Zenon
        <3> QED
            BY <3>1, <3>2, <3>3
    <2> QED
        BY <2>1, <2>2
<1>9. /\ s[1].part = "h1" /\ s[2] = Packages!Unit("h2", s[1].cmd, s[1].of)
      /\ s[1].cmd # "MSG" => Framing(t, 0, o)
      /\ s[1].cmd = "MSG" => s[1].of \in DOMAIN Given[o] /\ Framing(t, Packages!Size(o, s[1].of), o)
      /\ Rising(t) /\ Within(t, Dealt(n), Sent(o))
    BY <1>1, <1>2, <1>4, <1>6, <1>7, <1>8, HeaderTaken
<1>10. s[1] = b[1] /\ s[2] = b[2] /\ b[1] \in Units
    BY <1>2, <1>3
<1> QED
    BY <1>5, <1>9, <1>10 DEF t, rest, w, b, o

\* A header is taken, and its body with it if that is there; a heartbeat is answered; one that gives too
\* much is left.
LEMMA ReadHeaderStep == ASSUME PackagesInv, NEW n \in Ends, Packages!ReadHeader(n) PROVE PackagesInv'
<1> DEFINE o == Packages!Other(n)
           h == in[n][1]
           rest == SubSeq(in[n], 3, Len(in[n]))
           t == rest \o wire[o]
           size == Packages!Size(o, h.of)
<1>1. o \in Ends /\ o # n /\ Packages!Other(o) = n /\ Ends = {n, o}
    BY TwoEnds
<1>2. need[n] = 0 /\ Len(in[n]) >= 2 /\ UNCHANGED <<mode, todo>>
    BY DEF Packages!ReadHeader
<1>3. /\ h \in Units /\ rest \in Seq(Units) /\ Len(rest) = Len(in[n]) - 2
      /\ h.cmd # "MSG" => Framing(t, 0, o)
      /\ h.cmd = "MSG" => h.of \in DOMAIN Given[o] /\ Framing(t, size, o)
      /\ Rising(t) /\ Within(t, Dealt(n), Sent(o))
    BY <1>2, HeaderStands
<1>4. 2 + 1 = 3
    OBVIOUS
<1>5. \/ /\ h.cmd # "MSG" /\ in' = [in EXCEPT ![n] = rest]
         /\ wire' = IF h.cmd = "RQ" THEN [wire EXCEPT ![n] = @ \o Packages!Header("RP", 0)] ELSE wire
         /\ UNCHANGED <<need, queue, got, refused, failed>>
      \/ failed' = [failed EXCEPT ![n] = TRUE] /\ UNCHANGED <<wire, in, need, queue, got, refused>>
      \/ /\ h.cmd = "MSG" /\ UNCHANGED <<wire, failed>>
         /\ IF Len(rest) >= size THEN Packages!Body(n, rest, size)
            ELSE in' = [in EXCEPT ![n] = rest] /\ need' = [need EXCEPT ![n] = size] /\ UNCHANGED <<queue, got, refused>>
    BY <1>4 DEF Packages!ReadHeader, Packages!Drop, Packages!ends
<1>6. in[n] \in Seq(Units) /\ wire[n] \in Seq(Units) /\ wire[o] \in Seq(Units)
      /\ in \in [Ends -> Seq(Units)] /\ wire \in [Ends -> Seq(Units)] /\ need \in [Ends -> Nat]
    BY <1>1, Ended DEF PackagesTyped
<1> HIDE DEF o, rest, t, size
<1>7. CASE failed' = [failed EXCEPT ![n] = TRUE] /\ UNCHANGED <<wire, in, need, queue, got, refused>>
    <2>1. PackagesTyped'
        BY <1>2, <1>7 DEF PackagesInv, PackagesTyped
    <2> QED
        BY <1>2, <1>7, <2>1, ZenonT(60) DEF PackagesInv, Submitting, Dealing, Flowing, Dealt, Sent, Stream
<1>8. CASE /\ h.cmd # "MSG" /\ in' = [in EXCEPT ![n] = rest] /\ UNCHANGED <<need, queue, got, refused, failed>>
           /\ wire' = IF h.cmd = "RQ" THEN [wire EXCEPT ![n] = @ \o Packages!Header("RP", 0)] ELSE wire
    <2>1. in' = [in EXCEPT ![n] = rest] /\ UNCHANGED <<need, queue, got, refused, failed>>
          /\ wire' = IF h.cmd = "RQ" THEN [wire EXCEPT ![n] = @ \o Packages!Header("RP", 0)] ELSE wire
        BY <1>8
    <2>2. wire[n] \o Packages!Header("RP", 0) \in Seq(Units)
        <3>1. Packages!Header("RP", 0) \in Seq(Units)
            BY Beats
        <3> QED
            BY <1>6, <3>1, JoinedUnits
    <2>3. in'[n] = rest /\ in'[o] = in[o] /\ in' \in [Ends -> Seq(Units)]
        BY <1>1, <1>3, <1>6, <2>1
    <2>4. /\ wire' \in [Ends -> Seq(Units)] /\ wire'[o] = wire[o]
          /\ wire'[n] = IF h.cmd = "RQ" THEN wire[n] \o Packages!Header("RP", 0) ELSE wire[n]
        BY <1>1, <1>6, <2>1, <2>2
    <2>5. PackagesTyped'
        BY <1>2, <2>1, <2>3, <2>4 DEF PackagesInv, PackagesTyped
    <2>6. Submitting(n)' /\ Submitting(o)' /\ Dealing(n)'
        <3>1. Sent(n)' = Sent(n) /\ Sent(o)' = Sent(o) /\ Submitting(n) /\ Submitting(o) /\ Dealing(n)
            BY <1>1, <1>2, Ended DEF Sent
        <3>2. Submitting(n)' /\ Submitting(o)'
            BY <1>2, <3>1 DEF Submitting
        <3>3. Dealing(n)'
            BY <2>1, <3>1 DEF Dealing, o
        <3> QED
            BY <3>2, <3>3
    <2>7. Flowing(n)'
        <3>1. Stream(n)' = t /\ Dealt(n)' = Dealt(n) /\ Sent(o)' = Sent(o) /\ need'[n] = 0
            BY <1>1, <1>2, <2>1, <2>3, <2>4 DEF Stream, t, o, Dealt, Sent
        <3> QED
            BY <1>3, <1>8, <3>1 DEF Flowing, o
    <2>8. Dealing(o)' /\ Flowing(o)'
        <3>1. CASE h.cmd = "RQ"
            <4>1. in'[o] = in[o] /\ need'[o] = need[o] /\ got'[o] = got[o] /\ refused'[o] = refused[o] /\ queue'[o] = queue[o]
                BY <2>1, <2>3
            <4>2. wire'[n] = wire[n] \o Packages!Header("RP", 0) /\ todo' = todo
                BY <1>2, <2>4, <3>1
            <4> QED
                BY <2>5, <4>1, <4>2, BeatWritten DEF o
        <3>2. CASE h.cmd # "RQ"
            <4>1. SameFor(o)
                BY <1>1, <1>2, <2>1, <2>3, <2>4, <3>2 DEF SameFor
            <4>2. queue'[o] = queue[o] /\ queue[o] \in Nat
                BY <1>1, <2>1, Ended
            <4>3. queue'[o] <= queue[o]
                BY <4>2
            <4> QED
                BY <1>1, <4>1, <4>2, <4>3, SameFlow
        <3> QED
            BY <3>1, <3>2
    <2> QED
        BY <1>1, <2>5, <2>6, <2>7, <2>8 DEF PackagesInv
<1>9. CASE h.cmd = "MSG" /\ Len(rest) >= size /\ Packages!Body(n, rest, size) /\ UNCHANGED <<wire, failed>>
    <2>1. Packages!Body(n, rest, size) /\ UNCHANGED <<wire, failed>>
        BY <1>9
    <2>2. size \in Nat \ {0}
        BY <1>1, <1>3, <1>9, Sized DEF size
    <2>3. size <= Len(rest)
        BY <1>3, <1>9, <2>2
    <2> QED
        BY <1>2, <1>3, <1>9, <2>1, <2>2, <2>3, BodyStep DEF t, o
<1>10. CASE /\ h.cmd = "MSG" /\ in' = [in EXCEPT ![n] = rest] /\ need' = [need EXCEPT ![n] = size]
            /\ UNCHANGED <<queue, got, refused, wire, failed>>
    <2>1. in' = [in EXCEPT ![n] = rest] /\ need' = [need EXCEPT ![n] = size] /\ UNCHANGED <<queue, got, refused, wire, failed>>
        BY <1>10
    <2>2. size \in Nat \ {0}
        BY <1>1, <1>3, <1>10, Sized DEF size
    <2>3. in'[n] = rest /\ in'[o] = in[o] /\ in' \in [Ends -> Seq(Units)]
          /\ need'[n] = size /\ need'[o] = need[o] /\ need' \in [Ends -> Nat]
        BY <1>1, <1>3, <1>6, <2>1, <2>2
    <2>4. PackagesTyped'
        BY <1>2, <2>1, <2>3 DEF PackagesInv, PackagesTyped
    <2>5. Submitting(n)' /\ Submitting(o)' /\ Dealing(n)'
        <3>1. Sent(n)' = Sent(n) /\ Sent(o)' = Sent(o) /\ Submitting(n) /\ Submitting(o) /\ Dealing(n)
            BY <1>1, <1>2, Ended DEF Sent
        <3>2. Submitting(n)' /\ Submitting(o)'
            BY <1>2, <3>1 DEF Submitting
        <3>3. Dealing(n)'
            BY <2>1, <3>1 DEF Dealing, o
        <3> QED
            BY <3>2, <3>3
    <2>6. Flowing(n)'
        <3>1. Stream(n)' = t /\ Dealt(n)' = Dealt(n) /\ Sent(o)' = Sent(o)
            BY <1>1, <1>2, <2>1, <2>3 DEF Stream, t, o, Dealt, Sent
        <3> QED
            BY <1>3, <1>10, <2>3, <3>1 DEF Flowing, o
    <2>7. Dealing(o)' /\ Flowing(o)'
        <3>1. SameFor(o)
            BY <1>1, <1>2, <2>1, <2>3 DEF SameFor
        <3>2. queue'[o] = queue[o] /\ queue[o] \in Nat
            BY <1>1, <2>1, Ended
        <3>3. queue'[o] <= queue[o]
            BY <3>2
        <3> QED
            BY <1>1, <3>1, <3>2, <3>3, SameFlow
    <2> QED
        BY <1>1, <2>4, <2>5, <2>6, <2>7 DEF PackagesInv
<1> QED
    BY <1>5, <1>7, <1>8, <1>9, <1>10
-------------------------------------------------------------------------------
(* The limit on the length of packages.                                      *)

\* A connection is given up where the header of a package that is too long stands.
Failing(n) == failed[n] => /\ need[n] = 0 /\ Len(in[n]) >= 2
                           /\ Packages!PkgLen(Packages!Other(n), in[n][1]) > MaxMsgSize
\* No other is waited for or handed over.
Limited(n) == /\ need[n] # 0 => 2 + need[n] <= MaxMsgSize
              /\ \A i \in 1..Len(got[n]) : 2 + Packages!Size(Packages!Other(n), got[n][i]) <= MaxMsgSize

\* What a body changes, at the one end where it is read.
LEMMA BodyHere ==
  ASSUME PackagesInv, NEW n \in Ends, NEW rest, NEW size \in Nat, Packages!Body(n, rest, size)
  PROVE  /\ need'[n] \in {0, size}
         /\ got'[n] = got[n] \/ got'[n] = Append(got[n], Head(rest).of)
         /\ \A m \in Ends \ {n} : in'[m] = in[m] /\ need'[m] = need[m] /\ got'[m] = got[m]
<1>1. in \in [Ends -> Seq(Units)] /\ need \in [Ends -> Nat] /\ got \in [Ends -> Seq(Nat)]
    BY DEF PackagesInv, PackagesTyped
<1>2. /\ \E k \in {0, size} : \E x : need' = [need EXCEPT ![n] = k] /\ in' = [in EXCEPT ![n] = x]
      /\ got' = got \/ got' = [got EXCEPT ![n] = Append(@, Head(rest).of)]
    <2> DEFINE left == Packages!Drop(rest, size)
    <2>1. \/ need' = [need EXCEPT ![n] = 0] /\ in' = [in EXCEPT ![n] = left]
          \/ need' = [need EXCEPT ![n] = size] /\ in' = [in EXCEPT ![n] = rest]
        BY Zenon DEF Packages!Body
    <2>2. got' = got \/ got' = [got EXCEPT ![n] = Append(@, Head(rest).of)]
        BY DEF Packages!Body, Packages!ends
    <2> QED
        BY <2>1, <2>2, Zenon
<1> QED
    BY <1>1, <1>2

\* A body that keeps to the limit.
LEMMA BodyLimited ==
  ASSUME PackagesInv, NEW n \in Ends, NEW rest, NEW size \in Nat, Packages!Body(n, rest, size),
         size = Packages!Size(Packages!Other(n), Head(rest).of), 2 + size <= MaxMsgSize, Limited(n)
  PROVE  Limited(n)'
<1> DEFINE g == got[n]
           p == Head(rest).of
<1>1. g \in Seq(Nat) /\ Len(g) \in Nat
    BY Ended
<1>2. need'[n] \in {0, size} /\ (got'[n] = g \/ got'[n] = Append(g, p))
    BY BodyHere
<1>3. \A i \in 1..Len(g) : 2 + Packages!Size(Packages!Other(n), g[i]) <= MaxMsgSize
    BY DEF Limited
<1>4. 2 + Packages!Size(Packages!Other(n), p) <= MaxMsgSize
    OBVIOUS
<1> HIDE DEF g, p
<1>5. \A i \in 1..Len(Append(g, p)) : (i \in 1..Len(g) /\ Append(g, p)[i] = g[i]) \/ Append(g, p)[i] = p
    BY <1>1
<1>6. \A i \in 1..Len(got'[n]) : 2 + Packages!Size(Packages!Other(n), got'[n][i]) <= MaxMsgSize
    BY <1>2, <1>3, <1>4, <1>5
<1> QED
    BY <1>2, <1>6 DEF Limited

\* What a reader waits for is the body of the package at which it stands.
LEMMA BodyAwaited ==
  ASSUME PackagesInv, NEW n \in Ends, need[n] > 0, Len(in[n]) >= need[n]
  PROVE  need[n] = Packages!Size(Packages!Other(n), Head(in[n]).of)
<1>1. in[n] \in Seq(Units) /\ need[n] \in Nat \ {0} /\ 1 \in 1..Len(in[n]) /\ Head(in[n]) = in[n][1]
    BY Ended
<1>2. Stream(n)[1] = in[n][1]
    BY <1>1, WireTyped DEF PackagesInv
<1>3. need[n] = Packages!Size(Packages!Other(n), Stream(n)[1].of)
    BY <1>1, Ended DEF Flowing, Framing
<1> QED
    BY <1>1, <1>2, <1>3

LEMMA ReadBodyLimited ==
  ASSUME PackagesInv, NEW n \in Ends, Packages!ReadBody(n), NEW m \in Ends, Failing(m), Limited(m)
  PROVE  Failing(m)' /\ Limited(m)'
<1>1. need[n] > 0 /\ Len(in[n]) >= need[n] /\ Packages!Body(n, in[n], need[n]) /\ failed' = failed /\ ~ failed[n] /\ need[n] \in Nat
    BY Ended DEF Packages!ReadBody, Packages!Live
<1>2. CASE m = n
    BY <1>1, <1>2, BodyAwaited, BodyLimited DEF Failing, Limited
<1>3. CASE m # n
    <2>1. in'[m] = in[m] /\ need'[m] = need[m] /\ got'[m] = got[m]
        BY <1>1, <1>3, BodyHere
    <2> QED
        BY <1>1, <2>1 DEF Failing, Limited
<1> QED
    BY <1>2, <1>3

LEMMA ReadHeaderLimited ==
  ASSUME PackagesInv, NEW n \in Ends, Packages!ReadHeader(n), NEW m \in Ends, Failing(m), Limited(m)
  PROVE  Failing(m)' /\ Limited(m)'
<1> DEFINE o == Packages!Other(n)
           h == in[n][1]
           rest == SubSeq(in[n], 3, Len(in[n]))
           size == Packages!Size(o, h.of)
           Fails == ~ Packages!IsHeader(o, in[n]) /\ failed' = [failed EXCEPT ![n] = TRUE] /\ UNCHANGED <<in, need, got>>
           Beaten == in' = [in EXCEPT ![n] = rest] /\ UNCHANGED <<need, got, failed>>
           Bodies == /\ Packages!IsHeader(o, in[n]) /\ h.cmd = "MSG" /\ UNCHANGED failed
                     /\ Len(rest) >= size /\ Packages!Body(n, rest, size)
           Awaits == /\ Packages!IsHeader(o, in[n]) /\ h.cmd = "MSG" /\ UNCHANGED <<failed, got>>
                     /\ in' = [in EXCEPT ![n] = rest] /\ need' = [need EXCEPT ![n] = size]
<1>1. need[n] = 0 /\ Len(in[n]) >= 2 /\ ~ failed[n] /\ o \in Ends
    BY TwoEnds DEF Packages!ReadHeader, Packages!Live
<1>2. in \in [Ends -> Seq(Units)] /\ need \in [Ends -> Nat] /\ got \in [Ends -> Seq(Nat)] /\ failed \in [Ends -> BOOLEAN]
    BY DEF PackagesInv, PackagesTyped
<1>3. /\ h.part = "h1" /\ in[n][2] = Packages!Unit("h2", h.cmd, h.of)
      /\ rest \in Seq(Units) /\ Len(rest) \in Nat
      /\ h.cmd = "MSG" => h.of \in DOMAIN Given[o] /\ Framing(rest \o wire[o], size, o)
    BY <1>1, HeaderStands
<1>4. /\ MaxMsgSize \in Nat /\ Packages!PkgLen(o, h) \in Nat
      /\ h.cmd = "MSG" => size \in Nat \ {0} /\ Packages!PkgLen(o, h) = 2 + size
    <2>1. h.cmd = "MSG" => size \in Nat \ {0}
        BY <1>1, <1>3, Sized
    <2>2. Packages!PkgLen(o, h) = 2 + IF h.cmd = "MSG" THEN size ELSE 0
        BY DEF Packages!PkgLen
    <2> HIDE DEF o, h, size
    <2> QED
        BY <2>1, <2>2, GivenAssumption
<1>5. Fails \/ Beaten \/ Bodies \/ Awaits
    <2>1. 2 + 1 = 3
        OBVIOUS
    <2> QED
        BY <2>1 DEF Packages!ReadHeader, Packages!Drop, Packages!ends
<1>6. Packages!IsHeader(o, in[n]) <=> Packages!PkgLen(o, h) <= MaxMsgSize
    BY <1>3, Zenon DEF Packages!IsHeader
<1> HIDE DEF rest, size
<1>7. CASE Fails
    <2>1. Packages!PkgLen(o, h) > MaxMsgSize
        <3> DEFINE l == Packages!PkgLen(o, h)
        <3>1. l \in Nat /\ MaxMsgSize \in Nat /\ ~ (l <= MaxMsgSize)
            BY <1>4, <1>6, <1>7
        <3> HIDE DEF l
        <3>2. l > MaxMsgSize
            BY <3>1
        <3> QED
            BY <3>2 DEF l
    <2>2. failed'[m] => failed[m] \/ m = n
        BY <1>2, <1>7
    <2> QED
        BY <1>1, <1>7, <2>1, <2>2 DEF Failing, Limited
<1>8. CASE Beaten
    <2>1. m # n => in'[m] = in[m]
        BY <1>2, <1>8
    <2> QED
        BY <1>1, <1>8, <2>1 DEF Failing, Limited
<1>9. CASE Bodies
    <2>1. 2 + size <= MaxMsgSize /\ size \in Nat \ {0} /\ size <= Len(rest)
        <3>1. size \in Nat \ {0} /\ 2 + size <= MaxMsgSize
            BY <1>4, <1>6, <1>9, Zenon
        <3> QED
            BY <1>3, <1>9, <3>1
    <2>2. CASE m = n
        <3>1. size = Packages!Size(o, Head(rest).of)
            <4>1. wire[o] \in Seq(Units) /\ Len(rest) \in Nat \ {0}
                BY <1>1, <1>3, <2>1, Ended
            <4>2. (rest \o wire[o])[1] = Head(rest)
                BY <1>3, <4>1
            <4>3. size = Packages!Size(o, (rest \o wire[o])[1].of)
                <5>1. Framing(rest \o wire[o], size, o) /\ size # 0
                    BY <1>3, <1>9, <2>1
                <5> QED
                    BY <5>1, Zenon DEF Framing
            <4> QED
                BY <4>2, <4>3
        <3>2. Limited(n)'
            BY <1>9, <2>1, <2>2, <3>1, BodyLimited
        <3> QED
            BY <1>1, <1>9, <2>2, <3>2 DEF Failing
    <2>3. CASE m # n
        <3>1. in'[m] = in[m] /\ need'[m] = need[m] /\ got'[m] = got[m]
            BY <1>9, <2>1, <2>3, BodyHere
        <3> QED
            BY <1>9, <3>1 DEF Failing, Limited
    <2> QED
        BY <2>2, <2>3
<1>10. CASE Awaits
    <2>1. 2 + size <= MaxMsgSize
        BY <1>4, <1>6, <1>10, Zenon
    <2>2. (need'[m] = need[m] /\ in'[m] = in[m]) \/ (m = n /\ need'[m] = size)
        <3>1. size \in Nat
            BY <1>4, <1>10
        <3> QED
            BY <1>2, <1>10, <3>1
    <2> QED
        BY <1>1, <1>10, <2>1, <2>2 DEF Failing, Limited
<1> QED
    BY <1>5, <1>7, <1>8, <1>9, <1>10

\* A header stays where it stands while more comes.
LEMMA ArriveLimited ==
  ASSUME PackagesInv, NEW n \in Ends, Packages!Arrive(n), NEW m \in Ends, Failing(m), Limited(m)
  PROVE  Failing(m)' /\ Limited(m)'
<1> DEFINE r == Packages!Other(n)
<1>1. PICK k \in 1..Len(wire[n]) : in' = [in EXCEPT ![r] = @ \o SubSeq(wire[n], 1, k)]
    BY DEF Packages!Arrive
<1>2. UNCHANGED <<need, got, failed>>
    BY DEF Packages!Arrive, Packages!ends
<1>3. wire[n] \in Seq(Units) /\ in[m] \in Seq(Units) /\ in \in [Ends -> Seq(Units)] /\ r \in Ends
    BY Ended, TwoEnds DEF PackagesTyped
<1> HIDE DEF r
<1>4. SubSeq(wire[n], 1, k) \in Seq(Units)
    BY <1>3
<1>5. ASSUME Len(in[m]) >= 2 PROVE Len(in'[m]) >= 2 /\ in'[m][1] = in[m][1]
    BY <1>1, <1>3, <1>4, <1>5
<1> QED
    BY <1>2, <1>5 DEF Failing, Limited

LEMMA LimitedNext ==
  ASSUME PackagesInv, Packages!Next, NEW m \in Ends, Failing(m), Limited(m)
  PROVE  Failing(m)' /\ Limited(m)'
<1>1. CASE Packages!Cut
    <2>1. failed' = [n \in Ends |-> FALSE] /\ need' = [n \in Ends |-> 0] /\ got' = got
        BY <1>1 DEF Packages!Cut, Packages!ends
    <2> QED
        BY <2>1 DEF Failing, Limited
<1>2. ASSUME NEW n \in Ends, Packages!Connect \/ Packages!Send(n) \/ Packages!BeatRequest(n) \/ Packages!Take(n)
      PROVE  Failing(m)' /\ Limited(m)'
    <2>1. UNCHANGED <<in, need, got, failed>>
        BY <1>2 DEF Packages!Connect, Packages!Send, Packages!BeatRequest, Packages!Take, Packages!ends
    <2> QED
        BY <2>1 DEF Failing, Limited
<1>3. ASSUME NEW n \in Ends, Packages!Arrive(n) \/ Packages!ReadHeader(n) \/ Packages!ReadBody(n)
      PROVE  Failing(m)' /\ Limited(m)'
    BY <1>3, ArriveLimited, ReadHeaderLimited, ReadBodyLimited
<1> QED
    BY <1>1, <1>2, <1>3, TwoEnds DEF Packages!Next
-------------------------------------------------------------------------------
\* Nothing has been sent at first.
LEMMA PackagesInit == Packages!Init => PackagesInv
<1> SUFFICES ASSUME Packages!Init PROVE PackagesInv
    OBVIOUS
<1>1. /\ todo = [n \in Ends |-> [i \in DOMAIN Given[n] |-> i]]
      /\ mode \in [Ends -> {"middleware", "service"}]
      /\ wire = [n \in Ends |-> <<>>] /\ in = [n \in Ends |-> <<>>] /\ need = [n \in Ends |-> 0]
      /\ queue = [n \in Ends |-> 0] /\ got = [n \in Ends |-> <<>>] /\ refused = [n \in Ends |-> {}]
      /\ failed = [n \in Ends |-> FALSE]
    BY DEF Packages!Init
<1>2. ASSUME NEW n \in Ends
      PROVE  /\ todo[n] \in Seq(Nat) /\ Len(todo[n]) = Len(Given[n]) /\ Len(Given[n]) \in Nat
             /\ \A i \in 1..Len(todo[n]) : todo[n][i] = i
    <2> DEFINE l == Len(Given[n])
    <2>1. l \in Nat /\ todo[n] = [i \in 1..l |-> i]
        BY <1>1, GivenAssumption
    <2> HIDE DEF l
    <2>2. todo[n] \in [1..l -> Nat]
        BY <2>1
    <2>3. todo[n] \in Seq(Nat) /\ Len(todo[n]) = l
        BY <2>1, <2>2, SeqDef, LenProperties
    <2> QED
        BY <2>1, <2>3 DEF l
<1>3. <<>> \in Seq(Units) /\ <<>> \in Seq(Nat) /\ Len(<<>>) = 0
    OBVIOUS
<1>4. PackagesTyped
    <2>1. todo \in [Ends -> Seq(Nat)]
        BY <1>1, <1>2
    <2> QED
        BY <1>1, <1>3, <2>1 DEF PackagesTyped
<1>5. ASSUME NEW n \in Ends PROVE Submitting(n) /\ Dealing(n) /\ Flowing(n)
    <2> DEFINE o == Packages!Other(n)
    <2>1. o \in Ends
        BY TwoEnds
    <2>2. Sent(n) = 0 /\ Sent(o) = 0
        BY <1>2, <2>1 DEF Sent
    <2>3. Submitting(n)
        BY <1>2, <2>2 DEF Submitting
    <2>4. got[n] = <<>> /\ refused[n] = {} /\ queue[n] = 0 /\ need[n] = 0
        BY <1>1
    <2>5. Dealing(n)
        BY <1>3, <2>4 DEF Dealing
    <2>6. Stream(n) = <<>>
        BY <1>1, <2>1 DEF Stream
    <2> HIDE DEF o
    <2>7. Framing(<<>>, 0, o) /\ Rising(<<>>) /\ \A low, high : Within(<<>>, low, high)
        BY <1>3 DEF Framing, Begins, Rising, Within
    <2>8. Flowing(n)
        BY <2>4, <2>6, <2>7 DEF Flowing, o
    <2> QED
        BY <2>3, <2>5, <2>8
<1> QED
    BY <1>4, <1>5 DEF PackagesInv

LEMMA PackagesNext ==
  ASSUME ~ OutOfMemory, PackagesInv, Packages!Next PROVE PackagesInv'
<1>1. CASE Packages!Cut
    BY <1>1, CutStep
<1>2. CASE Packages!Connect
    BY <1>2, ConnectStep
<1>3. ASSUME NEW n \in Ends, Packages!Send(n) \/ Packages!BeatRequest(n) \/ Packages!Arrive(n) PROVE PackagesInv'
    BY <1>3, PackageSendStep, BeatRequestStep, ArriveStep
<1>4. ASSUME NEW n \in Ends, Packages!ReadHeader(n) \/ Packages!ReadBody(n) \/ Packages!Take(n) PROVE PackagesInv'
    BY <1>4, ReadHeaderStep, ReadBodyStep, TakeStep
<1> QED
    BY <1>1, <1>2, <1>3, <1>4 DEF Packages!Next

\* PackagesInv and the limit say what is checked.
LEMMA PackagesMeant ==
  PackagesInv /\ (\A n \in Ends : Failing(n) /\ Limited(n)) => Packages!TypeOK /\ Packages!Framed /\ Packages!InOrderOnce
<1> SUFFICES ASSUME PackagesInv, \A n \in Ends : Failing(n) /\ Limited(n)
             PROVE Packages!TypeOK /\ Packages!Framed /\ Packages!InOrderOnce
    OBVIOUS
<1> DEFINE Meant(n) ==
             /\ need[n] \in {0} \cup {Packages!Size(Packages!Other(n), p) : p \in DOMAIN Given[Packages!Other(n)]}
             /\ queue[n] \in 0..Len(Given[Packages!Other(n)])
             /\ refused[n] \subseteq DOMAIN Given[Packages!Other(n)]
             /\ failed[n] => /\ need[n] = 0 /\ Len(in[n]) >= 2
                             /\ Packages!PkgLen(Packages!Other(n), in[n][1]) > MaxMsgSize
             /\ in[n] # <<>> => in[n][1].part = IF need[n] = 0 THEN "h1" ELSE "u"
             /\ \A i, j \in DOMAIN got[n] : i < j => got[n][i] < got[n][j]
             /\ \A i \in DOMAIN got[n] : 2 + Packages!Size(Packages!Other(n), got[n][i]) <= MaxMsgSize
             /\ ToSet(got[n]) \cap refused[n] = {}
<1> SUFFICES ASSUME NEW n \in Ends PROVE Meant(n)
    <2>1. (\A n \in Ends : Meant(n)) => Packages!TypeOK
        BY DEF Packages!TypeOK
    <2>2. (\A n \in Ends : Meant(n)) => Packages!Framed
        BY DEF Packages!Framed
    <2>3. (\A n \in Ends : Meant(n)) => Packages!InOrderOnce
        <3> SUFFICES ASSUME \A n \in Ends : Meant(n), NEW n \in Ends
                     PROVE /\ \A i, j \in DOMAIN got[n] : i < j => got[n][i] < got[n][j]
                           /\ \A i \in DOMAIN got[n] : 2 + Packages!Size(Packages!Other(n), got[n][i]) <= MaxMsgSize
                           /\ ToSet(got[n]) \cap refused[n] = {}
            BY Zenon DEF Packages!InOrderOnce, Packages!ToSet, ToSet
        <3> Meant(n)
            OBVIOUS
        <3> QED
            BY Zenon
    <2> QED
        BY <2>1, <2>2, <2>3
<1> DEFINE o == Packages!Other(n)
           g == got[n]
<1>1. o \in Ends /\ Len(Given[o]) \in Nat /\ DOMAIN Given[o] = 1..Len(Given[o]) /\ Sent(o) \in Nat /\ Sent(o) <= Len(Given[o])
    BY TwoEnds, Ended
<1>2. /\ Dealing(n) /\ Flowing(n) /\ in[n] \in Seq(Units) /\ g \in Seq(Nat) /\ need[n] \in Nat /\ queue[n] \in Nat
      /\ refused[n] \in SUBSET Nat /\ Failing(n) /\ Limited(n)
    BY Ended
<1>3. Stream(n) \in Seq(Units) /\ Len(Stream(n)) >= Len(in[n]) /\ \A i \in 1..Len(in[n]) : Stream(n)[i] = in[n][i]
    <2>1. wire[o] \in Seq(Units) /\ Stream(n) \in Seq(Units) /\ Len(Stream(n)) = Len(in[n]) + Len(wire[o])
          /\ \A i \in 1..Len(in[n]) : Stream(n)[i] = in[n][i]
        BY WireTyped, Zenon DEF PackagesInv
    <2>2. Len(in[n]) \in Nat /\ Len(wire[o]) \in Nat
        BY <1>2, <2>1
    <2>3. \A a, b \in Nat : a + b >= a
        OBVIOUS
    <2> QED
        BY <2>1, <2>2, <2>3, Zenon
<1> HIDE DEF o, g
<1>4. Framing(Stream(n), need[n], o)
    BY <1>2 DEF Flowing, o
<1>5. need[n] \in {0} \cup {Packages!Size(o, p) : p \in DOMAIN Given[o]}
    BY <1>4 DEF Framing, BodyAt
<1>6. refused[n] \subseteq DOMAIN Given[o]
    BY <1>1, <1>2 DEF Dealing, o
\* got rises, so it is no longer than the largest number in it
<1>7. queue[n] \in 0..Len(Given[o])
    <2>1. Len(g) \in Nat /\ queue[n] <= Len(g)
        BY <1>2 DEF Dealing, g
    <2>2. Len(g) <= Sent(o)
        <3>1. CASE Len(g) = 0
            BY <1>1, <3>1
        <3>2. CASE Len(g) # 0
            <4>1. Len(g) \in 1..Len(g)
                BY <2>1, <3>2
            <4>2. g[Len(g)] >= Len(g) /\ g[Len(g)] <= Sent(o) /\ g[Len(g)] \in Nat
                BY <1>2, <4>1 DEF Dealing, g, o
            <4> QED
                BY <1>1, <2>1, <4>2
        <3> QED
            BY <3>1, <3>2
    <2> QED
        BY <1>1, <1>2, <2>1, <2>2
<1>8. ASSUME in[n] # <<>> PROVE in[n][1].part = IF need[n] = 0 THEN "h1" ELSE "u"
    <2>1. Len(in[n]) \in Nat \ {0}
        BY <1>2, <1>8
    <2>2. 1 \in 1..Len(Stream(n)) /\ 1 \in 1..Len(in[n]) /\ Len(Stream(n)) \in Nat
        BY <1>3, <2>1
    <2>3. Stream(n)[1] = in[n][1]
        BY <1>3, <2>2
    <2>4. CASE need[n] = 0
        <3>1. Begins(Stream(n), 1)
            BY <1>4, <2>4 DEF Framing
        <3> QED
            BY <2>2, <2>3, <2>4, <3>1 DEF Begins
    <2>5. CASE need[n] # 0
        <3>1. Stream(n)[1] = Packages!Unit("u", "MSG", Stream(n)[1].of)
            BY <1>4, <2>5 DEF Framing, BodyAt
        <3> QED
            BY <2>3, <2>5, <3>1 DEF Packages!Unit
    <2> QED
        BY <2>4, <2>5
<1>9. /\ \A i, j \in DOMAIN g : i < j => g[i] < g[j]
      /\ \A i \in DOMAIN g : 2 + Packages!Size(o, g[i]) <= MaxMsgSize
      /\ ToSet(g) \cap refused[n] = {}
    <2>1. DOMAIN g = 1..Len(g)
        BY <1>2
    <2> QED
        BY <1>2, <2>1 DEF Dealing, Limited, ToSet, g, o
<1> QED
    BY <1>2, <1>5, <1>6, <1>7, <1>8, <1>9 DEF Failing, o, g

PackagesInvariant == part = "packages" => PackagesInv /\ \A n \in Ends : Failing(n) /\ Limited(n)

\* While there is memory to write whole packages, a reader that is between two packages stands at the
\* header of one and one that waits for a body stands at it, the connection is given up over the header of
\* a package that is longer than MaxMsgSize and over nothing else, no such package is handed over, the
\* others at most once and in the order in which they were given, and none that is refused: whatever
\* packages both ends give, whatever the limit, and however they are cut into pieces, mixed with
\* heartbeats, and the connection is lost.
THEOREM PackagesAreSound == ASSUME ~ OutOfMemory PROVE PartsSpec => []PackagesSound
<1>1. PartsInit => PackagesInvariant
    <2>1. Packages!Init => \A n \in Ends : Failing(n) /\ Limited(n)
        BY DEF Packages!Init, Failing, Limited
    <2> QED
        BY <2>1, PackagesInit DEF PartsInit, PackagesInvariant
<1>2. PackagesInvariant /\ [PartsNext]_partVars => PackagesInvariant'
    <2> SUFFICES ASSUME PackagesInvariant, [PartsNext]_partVars, part' = "packages"
                 PROVE  PackagesInv' /\ \A n \in Ends : Failing(n)' /\ Limited(n)'
        BY DEF PackagesInvariant
    <2>1. CASE PartsNext
        <3>1. part = part'
            BY <2>1 DEF PartsNext, Alone
        <3>2. PackagesInv /\ \A n \in Ends : Failing(n) /\ Limited(n)
            BY <3>1 DEF PackagesInvariant
        <3>3. CASE Alone("packages") /\ Packages!Next
            BY <3>2, <3>3, PackagesNext, LimitedNext
        <3>4. CASE ~ Alone("packages")
            BY <2>1, <3>1, <3>4 DEF PartsNext, Alone
        <3> QED
            BY <2>1, <3>1, <3>3, <3>4 DEF PartsNext, Alone
    <2>2. CASE UNCHANGED partVars
        <3>1. part' = part /\ UNCHANGED packageVars
            BY <2>2 DEF partVars
        <3>2. UNCHANGED <<in, need, got, failed>>
            BY <3>1 DEF packageVars
        <3>3. PackagesInv /\ \A n \in Ends : Failing(n) /\ Limited(n)
            BY <3>1 DEF PackagesInvariant
        <3>4. \A n \in Ends : Failing(n)' /\ Limited(n)'
            BY <3>2, <3>3 DEF Failing, Limited
        <3> QED
            BY <3>1, <3>3, <3>4, PackagesStill
    <2> QED
        BY <2>1, <2>2
<1>3. PackagesInvariant => PackagesSound
    BY PackagesMeant DEF PackagesInvariant, PackagesSound
<1> QED
    BY <1>1, <1>2, <1>3, PTL DEF PartsSpec

-------------------------------------------------------------------------------
(* The start of middleware and services.                                     *)

Versions == {Files[v] : v \in DOMAIN Files}
FileNodes == UNION {{Files[v][k] : k \in DOMAIN Files[v]} : v \in DOMAIN Files}
Slot == [node : FileNodes \cup {Starting!NoNode}, queue : BOOLEAN]
Working == {"create", "mutex", "lists", "nodes", "size", "net", "run", "running", "update"}
Process == [pc : {"down", "lock"} \cup Working, nodes : Versions \cup {<<>>}, count : 0 .. ShmCount, at : Nat]
Memory == [exists : BOOLEAN, mutex : BOOLEAN, lists : BOOLEAN, named : BOOLEAN, size : BOOLEAN, slot : [Starting!Slots -> Slot]]

StartTyped == /\ mw \in [Middlewares -> Process]
              /\ sv \in [Attaching -> {"down", "check", "slept", "uses"}]
              /\ owner \in Middlewares \cup {Starting!Nobody}
              /\ shm \in Memory
              /\ file \in DOMAIN Files
\* Who works on the memory has the lock, and has done what comes before its step.
Stands(m) == /\ mw[m].pc \in Working => owner = m
             /\ mw[m].pc \in {"lists", "nodes", "size"} => shm.mutex
             /\ mw[m].pc \in {"nodes", "size"} => shm.lists
             /\ mw[m].pc = "size" => shm.named
             /\ mw[m].pc = "update" => mw[m].at \in DOMAIN mw[m].nodes
\* The size is there when all the rest is.
Whole == shm.size => shm.mutex /\ shm.lists /\ shm.named
SizeSeen == \A s \in Attaching : sv[s] = "uses" => shm.size

StartInv == StartTyped /\ (\A m \in Middlewares : Stands(m)) /\ Whole /\ SizeSeen /\ Starting!SlotsInOrder
-------------------------------------------------------------------------------
\* The versions of the file, as assumed.
LEMMA VersionsAre ==
  /\ Len(Files) \in Nat \ {0} /\ DOMAIN Files = 1..Len(Files) /\ ShmCount \in Nat
  /\ Starting!Slots = 1..ShmCount /\ Starting!Nobody \notin Middlewares
  /\ \A f \in Versions \cup {<<>>} : Len(f) \in Nat /\ DOMAIN f = 1..Len(f)
  /\ \A f \in Versions \cup {<<>>}, k \in Nat : k \in DOMAIN f => f[k] \in FileNodes /\ f[k] # Starting!NoNode
  /\ \A v \in DOMAIN Files : Files[v] \in Versions
<1>1. /\ Len(Files) \in Nat \ {0} /\ DOMAIN Files = 1..Len(Files) /\ ShmCount \in Nat
      /\ Starting!Slots = 1..ShmCount /\ Starting!Nobody \notin Middlewares
    BY StartAssumption DEF Starting!BoundsAssumption, Starting!FilesAssumption, Starting!Slots
<1>2. \A v \in DOMAIN Files : Len(Files[v]) \in Nat /\ DOMAIN Files[v] = 1..Len(Files[v])
                             /\ \A k \in DOMAIN Files[v] : Files[v][k] # Starting!NoNode
    BY StartAssumption DEF Starting!FilesAssumption
<1>3. Len(<<>>) = 0 /\ DOMAIN <<>> = 1..0
    OBVIOUS
<1>4. \A f \in Versions \cup {<<>>} : Len(f) \in Nat /\ DOMAIN f = 1..Len(f)
    BY <1>2, <1>3 DEF Versions
<1>5. ASSUME NEW v \in DOMAIN Files, NEW k \in DOMAIN Files[v] PROVE Files[v][k] \in FileNodes
    <2>1. Files[v][k] \in {Files[v][l] : l \in DOMAIN Files[v]}
        OBVIOUS
    <2> QED
        BY <2>1, Zenon DEF FileNodes
<1>6. \A v \in DOMAIN Files : Files[v] \in Versions
    BY DEF Versions
<1>7. ASSUME NEW f \in Versions \cup {<<>>}, NEW k \in Nat, k \in DOMAIN f PROVE f[k] \in FileNodes /\ f[k] # Starting!NoNode
    <2>1. CASE f = <<>>
        BY <1>3, <1>7, <2>1
    <2>2. CASE f # <<>>
        <3>1. PICK v \in DOMAIN Files : f = Files[v]
            BY <2>2 DEF Versions
        <3> QED
            BY <1>2, <1>5, <1>7, <3>1
    <2> QED
        BY <2>1, <2>2
<1> QED
    BY <1>1, <1>4, <1>6, <1>7

\* An address has one line in a file, and one node in all of them.
LEMMA OnePort ==
  /\ \A f \in Versions, n \in FileNodes : \A k \in DOMAIN f : f[k][1] = n[1] => f[k] = n
  /\ \A f \in Versions \cup {<<>>} : \A k, l \in DOMAIN f : f[k] = f[l] => k = l
<1>1. ASSUME NEW f \in Versions, NEW n \in FileNodes, NEW k \in DOMAIN f, f[k][1] = n[1] PROVE f[k] = n
    <2>1. PICK v \in DOMAIN Files : f = Files[v]
        BY DEF Versions
    <2>2. PICK w \in DOMAIN Files : \E l \in DOMAIN Files[w] : n = Files[w][l]
        BY Zenon DEF FileNodes
    <2> QED
        BY <1>1, <2>1, <2>2, StartAssumption DEF Starting!AddressesAssumption
<1>2. ASSUME NEW f \in Versions \cup {<<>>}, NEW k \in DOMAIN f, NEW l \in DOMAIN f, f[k] = f[l] PROVE k = l
    <2>1. f # <<>>
        OBVIOUS
    <2>2. PICK v \in DOMAIN Files : f = Files[v]
        BY <2>1 DEF Versions
    <2> QED
        BY <1>2, <2>2, StartAssumption DEF Starting!AddressesAssumption
<1> QED
    BY <1>1, <1>2

\* So a slot keeps its node when a middleware goes through the slots of its predecessor.
LEMMA NodeStays ==
  ASSUME NEW s \in Slot, s.node # Starting!NoNode, NEW f \in Versions \cup {<<>>}
  PROVE  Starting!Revised(s, f) \in Slot /\ Starting!Revised(s, f).node = s.node
<1> DEFINE entries == Starting!Entries(f, s.node[1])
           first == CHOOSE k \in entries : \A l \in entries : k <= l
           silent == [s EXCEPT !.queue = FALSE]
<1>1. s.node \in FileNodes
    BY DEF Slot
<1>2. silent \in Slot /\ silent.node = s.node
    BY DEF Slot
<1>3. CASE entries = {}
    BY <1>2, <1>3 DEF Starting!Revised
<1>4. CASE entries # {}
    <2>1. DOMAIN f = 1..Len(f) /\ Len(f) \in Nat
        BY VersionsAre
    <2>2. entries \subseteq Nat /\ entries \subseteq DOMAIN f
        BY <2>1 DEF Starting!Entries
    <2>3. first \in entries
        <3>1. Min(entries) \in entries
            BY <1>4, <2>2, LeastNumber
        <3> HIDE DEF entries
        <3> QED
            BY <3>1 DEF Min
    <2>4. first \in DOMAIN f /\ f[first][1] = s.node[1]
        BY <2>3 DEF Starting!Entries
    <2>5. f \in Versions
        <3>1. DOMAIN <<>> = {}
            OBVIOUS
        <3> QED
            BY <2>4, <3>1
    <2> HIDE DEF first
    <2>6. s.node = f[first]
        BY <1>1, <2>4, <2>5, OnePort
    <2>7. Starting!Revised(s, f) = IF entries = {} THEN silent ELSE IF s.node = f[first] THEN s ELSE [node |-> f[first], queue |-> FALSE]
        BY DEF Starting!Revised, first
    <2> QED
        BY <1>4, <2>6, <2>7
<1> QED
    BY <1>3, <1>4

\* The parts of the invariant that a step of one middleware leaves as they are.
LEMMA Stepped ==
  ASSUME StartInv, NEW m \in Middlewares, NEW r \in Process, mw' = [mw EXCEPT ![m] = r],
         owner' \in Middlewares \cup {Starting!Nobody}, shm' \in Memory, file' = file, sv' = sv,
         r.pc \in Working => owner' = m,
         \A n \in Middlewares \ {m} : mw[n].pc \in Working => owner' = n,
         shm.mutex => shm'.mutex, shm.lists => shm'.lists, shm.named => shm'.named, shm.size => shm'.size,
         r.pc \in {"lists", "nodes", "size"} => shm'.mutex,
         r.pc \in {"nodes", "size"} => shm'.lists,
         r.pc = "size" => shm'.named,
         r.pc = "update" => r.at \in DOMAIN r.nodes,
         shm'.size => shm.size \/ (shm'.mutex /\ shm'.lists /\ shm'.named),
         Starting!SlotsInOrder'
  PROVE  StartInv'
<1>1. StartTyped'
    BY DEF StartInv, StartTyped
<1>2. ASSUME NEW n \in Middlewares PROVE Stands(n)'
    <2>1. CASE n = m
        <3>1. mw'[n] = r
            BY <2>1 DEF StartInv, StartTyped
        <3> QED
            BY <2>1, <3>1 DEF Stands
    <2>2. CASE n # m
        <3>1. mw'[n] = mw[n]
            BY <2>2 DEF StartInv, StartTyped
        <3> QED
            BY <2>2, <3>1 DEF Stands, StartInv
    <2> QED
        BY <2>1, <2>2
<1>3. Whole' /\ SizeSeen'
    BY DEF Whole, SizeSeen, StartInv
<1> QED
    BY <1>1, <1>2, <1>3 DEF StartInv

\* Steps that leave the nodes of the slots, leave them in order.
LEMMA SameOrder ==
  ASSUME StartInv, \A i \in Starting!Slots : shm'.slot[i].node = shm.slot[i].node
  PROVE  Starting!SlotsInOrder'
BY DEF StartInv, Starting!SlotsInOrder, Starting!Slots, Starting!NoNode

\* A process that goes on keeps the rest of its record.
LEMMA Going ==
  ASSUME StartInv, NEW m \in Middlewares, NEW pc \in {"down", "lock"} \cup Working, Starting!Go(m, pc)
  PROVE  /\ mw' = [mw EXCEPT ![m] = [mw[m] EXCEPT !.pc = pc]]
         /\ [mw[m] EXCEPT !.pc = pc] \in Process /\ [mw[m] EXCEPT !.pc = pc].pc = pc
         /\ [mw[m] EXCEPT !.pc = pc].at = mw[m].at /\ [mw[m] EXCEPT !.pc = pc].nodes = mw[m].nodes
BY DEF StartInv, StartTyped, Process, Starting!Go

\* What the types say.
LEMMA StartVars ==
  ASSUME StartInv
  PROVE  /\ mw \in [Middlewares -> Process] /\ owner \in Middlewares \cup {Starting!Nobody}
         /\ shm \in Memory /\ shm.slot \in [Starting!Slots -> Slot] /\ Starting!SlotsInOrder
         /\ file \in DOMAIN Files /\ Files[file] \in Versions
         /\ \A m \in Middlewares : mw[m] \in Process /\ Stands(m)
         /\ \A i \in Starting!Slots : shm.slot[i] \in Slot
         /\ Starting!Dead \in Process /\ Starting!Dead.pc = "down" /\ Starting!Free \in Slot /\ Starting!Free.node = Starting!NoNode
<1>1. Starting!Dead \in Process /\ Starting!Dead.pc = "down"
    BY VersionsAre DEF Starting!Dead, Process
<1>2. Starting!Free \in Slot /\ Starting!Free.node = Starting!NoNode
    BY DEF Starting!Free, Slot
<1> QED
    BY <1>1, <1>2, VersionsAre DEF StartInv, StartTyped, Memory

\* Nobody else works while one has the lock.
LEMMA OthersRest ==
  ASSUME StartInv, NEW m \in Middlewares, mw[m].pc \in Working
  PROVE  owner = m /\ \A n \in Middlewares \ {m} : mw[n].pc \notin Working
BY DEF StartInv, Stands

LEMMA StartStep == ASSUME StartInv, NEW m \in Middlewares, Starting!Start(m) PROVE StartInv'
<1> DEFINE r == [pc |-> "lock", nodes |-> Files[file], count |-> Len(Files[file]), at |-> 0]
<1>1. r \in Process
    BY StartVars, VersionsAre DEF Process, Starting!Start
<1>2. mw' = [mw EXCEPT ![m] = r] /\ sv' = sv /\ owner' = owner /\ shm' = shm /\ file' = file
    BY DEF Starting!Start
<1>3. Starting!SlotsInOrder'
    BY <1>2, SameOrder
<1>4. r.pc = "lock" /\ r.pc \notin Working
    BY DEF Working
<1> HIDE DEF r
<1> QED
    BY <1>1, <1>2, <1>3, <1>4, StartVars, Stepped DEF Stands, StartInv, Whole

LEMMA LockFileStep == ASSUME StartInv, NEW m \in Middlewares, Starting!LockFile(m) PROVE StartInv'
<1>1. sv' = sv /\ shm' = shm /\ file' = file /\ Starting!SlotsInOrder' /\ mw[m].pc = "lock"
    BY SameOrder DEF Starting!LockFile, Starting!At
<1>2. CASE owner = Starting!Nobody /\ owner' = m /\ Starting!Go(m, "create")
    <2>1. \A n \in Middlewares : mw[n].pc \notin Working
        BY <1>2, VersionsAre DEF StartInv, Stands
    <2> DEFINE r == [mw[m] EXCEPT !.pc = "create"]
    <2>2. mw' = [mw EXCEPT ![m] = r] /\ r \in Process /\ r.pc = "create"
        BY <1>2, Going DEF Working
    <2> HIDE DEF r
    <2> QED
        BY <1>1, <1>2, <2>1, <2>2, StartVars, Stepped DEF StartInv, Whole
<1>3. CASE mw' = [mw EXCEPT ![m] = Starting!Dead] /\ UNCHANGED owner
    BY <1>1, <1>3, StartVars, Stepped DEF StartInv, Whole, Stands, Working
<1> QED
    BY <1>2, <1>3 DEF Starting!LockFile

\* The memory is made, and filled in one part after the other.
LEMMA FillStep ==
  ASSUME StartInv, NEW m \in Middlewares,
         Starting!Create(m) \/ Starting!InitMutex(m) \/ Starting!InitLists(m) \/ Starting!Publish(m)
  PROVE  StartInv'
<1>1. PICK pc \in {"net", "mutex", "lists", "nodes", "run"} : Starting!Go(m, pc)
    BY DEF Starting!Create, Starting!InitMutex, Starting!InitLists, Starting!Publish
<1> DEFINE r == [mw[m] EXCEPT !.pc = pc]
<1>2. mw' = [mw EXCEPT ![m] = r] /\ r \in Process /\ r.pc = pc
    <2>1. pc \in {"down", "lock"} \cup Working
        BY DEF Working
    <2> QED
        BY <1>1, <2>1, Going, Zenon
<1>3. mw[m].pc \in Working /\ sv' = sv /\ owner' = owner /\ file' = file
    BY DEF Starting!Create, Starting!InitMutex, Starting!InitLists, Starting!Publish, Starting!At, Working
<1>4. owner' = m /\ \A n \in Middlewares \ {m} : mw[n].pc \in Working => owner' = n
    BY <1>3, OthersRest
<1>5. shm' \in Memory /\ shm'.slot = shm.slot
    BY StartVars DEF Memory, Starting!Create, Starting!InitMutex, Starting!InitLists, Starting!Publish
<1>6. Starting!SlotsInOrder'
    BY <1>5, SameOrder
<1>7. /\ shm.mutex => shm'.mutex
      /\ shm.lists => shm'.lists
      /\ shm.named => shm'.named
      /\ shm.size => shm'.size
      /\ r.pc \in {"lists", "nodes", "size"} => shm'.mutex
      /\ r.pc \in {"nodes", "size"} => shm'.lists
      /\ r.pc # "size" /\ r.pc # "update"
      /\ shm'.size => shm.size \/ (shm'.mutex /\ shm'.lists /\ shm'.named)
    <2>1. CASE Starting!Create(m)
        <3>1. r.pc \in {"net", "mutex"}
            BY <1>2, <2>1, StartVars DEF Starting!Create, Starting!Go, Process
        <3> QED
            BY <2>1, <3>1, StartVars DEF Starting!Create, Memory
    <2>2. CASE Starting!InitMutex(m)
        <3>1. r.pc = "lists"
            BY <1>2, <2>2, StartVars DEF Starting!InitMutex, Starting!Go, Process
        <3> QED
            BY <2>2, <3>1, StartVars DEF Starting!InitMutex, Memory
    <2>3. CASE Starting!InitLists(m)
        <3>1. r.pc = "nodes"
            BY <1>2, <2>3, StartVars DEF Starting!InitLists, Starting!Go, Process
        <3>2. shm.mutex
            BY <2>3, StartVars DEF Stands, Starting!InitLists, Starting!At
        <3> QED
            BY <2>3, <3>1, <3>2, StartVars DEF Starting!InitLists, Memory
    <2>4. CASE Starting!Publish(m)
        <3>1. r.pc = "run"
            BY <1>2, <2>4, StartVars DEF Starting!Publish, Starting!Go, Process
        <3>2. shm.mutex /\ shm.lists /\ shm.named
            BY <2>4, StartVars DEF Stands, Starting!Publish, Starting!At
        <3> QED
            BY <2>4, <3>1, <3>2, StartVars DEF Starting!Publish, Memory
    <2> QED
        BY <2>1, <2>2, <2>3, <2>4
<1> HIDE DEF r
<1> QED
    BY <1>2, <1>3, <1>4, <1>5, <1>6, <1>7, StartVars, Stepped

\* The nodes of the file are different, and follow each other.
LEMMA InitNodesStep == ASSUME StartInv, NEW m \in Middlewares, Starting!InitNodes(m) PROVE StartInv'
<1> DEFINE r == [mw[m] EXCEPT !.pc = "size"]
           f == mw[m].nodes
<1>1. mw' = [mw EXCEPT ![m] = r] /\ r \in Process /\ r.pc = "size"
    BY Going DEF Starting!InitNodes, Working
<1>2. mw[m].pc = "nodes" /\ sv' = sv /\ owner' = owner /\ file' = file
    BY DEF Starting!InitNodes, Starting!At
<1>3. owner' = m /\ \A n \in Middlewares \ {m} : mw[n].pc \in Working => owner' = n
    BY <1>2, OthersRest DEF Working
<1>4. shm.mutex /\ shm.lists
    BY <1>2, StartVars DEF Stands
<1>5. f \in Versions \cup {<<>>} /\ Len(f) \in Nat /\ DOMAIN f = 1..Len(f)
    BY StartVars, VersionsAre DEF Process
<1> DEFINE named(i) == IF i <= Len(f) THEN [Starting!Free EXCEPT !.node = f[i]] ELSE Starting!Free
<1>6. ASSUME NEW i \in Starting!Slots
      PROVE  named(i) \in Slot /\ named(i).node = IF i <= Len(f) THEN f[i] ELSE Starting!NoNode
    <2>1. i \in Nat \ {0}
        BY VersionsAre
    <2>2. i <= Len(f) => f[i] \in FileNodes
        BY <1>5, <2>1, VersionsAre
    <2> HIDE DEF f
    <2> QED
        BY <2>2 DEF Slot, Starting!Free
<1>7. shm' = [shm EXCEPT !.named = TRUE, !.slot = [i \in Starting!Slots |-> named(i)]]
    BY DEF Starting!InitNodes
<1>8. [i \in Starting!Slots |-> named(i)] \in [Starting!Slots -> Slot]
    BY <1>6
<1>9. /\ shm' \in Memory /\ shm'.named /\ shm'.mutex = shm.mutex /\ shm'.lists = shm.lists /\ shm'.size = shm.size
      /\ \A i \in Starting!Slots : shm'.slot[i] = named(i)
    <2> HIDE DEF named
    <2> QED
        BY <1>7, <1>8, StartVars DEF Memory
<1> HIDE DEF named
<1>10. Starting!SlotsInOrder'
    <2> SUFFICES ASSUME NEW i \in Starting!Slots, NEW j \in Starting!Slots, i < j
                 PROVE  /\ shm'.slot[i].node = shm'.slot[j].node => shm'.slot[i].node = Starting!NoNode
                        /\ shm'.slot[i].node = Starting!NoNode => shm'.slot[j].node = Starting!NoNode
        BY DEF Starting!SlotsInOrder, Starting!Slots, Starting!NoNode
    <2>1. i \in Nat \ {0} /\ j \in Nat \ {0}
        BY VersionsAre
    <2>2. /\ shm'.slot[i].node = IF i <= Len(f) THEN f[i] ELSE Starting!NoNode
          /\ shm'.slot[j].node = IF j <= Len(f) THEN f[j] ELSE Starting!NoNode
        BY <1>6, <1>9
    <2>3. i <= Len(f) => i \in DOMAIN f /\ f[i] # Starting!NoNode
        BY <1>5, <2>1, VersionsAre
    <2>4. j <= Len(f) => j \in DOMAIN f /\ i <= Len(f) /\ f[j] # Starting!NoNode
        BY <1>5, <2>1, VersionsAre
    <2>5. j <= Len(f) => f[i] # f[j]
        BY <1>5, <2>1, <2>3, <2>4, OnePort
    <2> HIDE DEF f
    <2> QED
        BY <2>2, <2>3, <2>4, <2>5
<1> HIDE DEF r
<1> QED
    BY <1>1, <1>2, <1>3, <1>4, <1>9, <1>10, StartVars, Stepped DEF StartInv, Whole

LEMMA InitNetHandlerStep == ASSUME StartInv, NEW m \in Middlewares, Starting!InitNetHandler(m) PROVE StartInv'
<1> DEFINE r == [mw[m] EXCEPT !.pc = "run"]
           f == mw[m].nodes
           slot2 == [i \in Starting!Slots |-> IF shm.lists /\ Starting!Used(i) THEN Starting!Revised(shm.slot[i], f) ELSE shm.slot[i]]
<1>1. mw' = [mw EXCEPT ![m] = r] /\ r \in Process /\ r.pc = "run"
    BY Going DEF Starting!InitNetHandler, Working
<1>2. mw[m].pc = "net" /\ sv' = sv /\ owner' = owner /\ file' = file
    BY DEF Starting!InitNetHandler, Starting!At
<1>3. owner' = m /\ \A n \in Middlewares \ {m} : mw[n].pc \in Working => owner' = n
    BY <1>2, OthersRest DEF Working
<1>4. shm' = [shm EXCEPT !.slot = slot2]
    BY DEF Starting!InitNetHandler
<1>5. ASSUME NEW i \in Starting!Slots PROVE slot2[i] \in Slot /\ slot2[i].node = shm.slot[i].node
    <2>1. shm.slot[i] \in Slot /\ f \in Versions \cup {<<>>}
        BY StartVars DEF Process
    <2>2. Starting!Used(i) => shm.slot[i].node # Starting!NoNode
        BY VersionsAre DEF Starting!Used
    <2> HIDE DEF f
    <2>3. Starting!Used(i) => Starting!Revised(shm.slot[i], f) \in Slot /\ Starting!Revised(shm.slot[i], f).node = shm.slot[i].node
        BY <2>1, <2>2, NodeStays
    <2> QED
        BY <2>1, <2>3
<1>6. slot2 = [i \in Starting!Slots |-> slot2[i]]
    OBVIOUS
<1> HIDE DEF slot2
<1>7. slot2 \in [Starting!Slots -> Slot]
    BY <1>5, <1>6
<1>8. /\ shm' \in Memory /\ shm'.mutex = shm.mutex /\ shm'.lists = shm.lists /\ shm'.named = shm.named /\ shm'.size = shm.size
      /\ shm'.slot = slot2
    BY <1>4, <1>7, StartVars DEF Memory
<1>9. Starting!SlotsInOrder'
    BY <1>5, <1>8, SameOrder
<1> HIDE DEF r
<1> QED
    BY <1>1, <1>2, <1>3, <1>8, <1>9, StartVars, Stepped

LEMMA RunStep == ASSUME StartInv, NEW m \in Middlewares, Starting!Run(m) PROVE StartInv'
<1>1. sv' = sv /\ shm' = shm /\ file' = file /\ Starting!SlotsInOrder' /\ mw[m].pc \in Working
    BY SameOrder DEF Starting!Run, Starting!At, Working
<1>2. owner = m /\ \A n \in Middlewares \ {m} : mw[n].pc \notin Working
    BY <1>1, OthersRest
<1>3. CASE Starting!Go(m, "running") /\ UNCHANGED owner
    <2> DEFINE r == [mw[m] EXCEPT !.pc = "running"]
    <2>1. mw' = [mw EXCEPT ![m] = r] /\ r \in Process /\ r.pc = "running"
        BY <1>3, Going DEF Working
    <2> HIDE DEF r
    <2> QED
        BY <1>1, <1>2, <1>3, <2>1, StartVars, Stepped DEF StartInv, Whole
<1>4. CASE mw' = [mw EXCEPT ![m] = Starting!Dead] /\ owner' = Starting!Nobody
    BY <1>1, <1>2, <1>4, StartVars, Stepped DEF StartInv, Whole, Working
<1> QED
    BY <1>3, <1>4 DEF Starting!Run

\* Only a file that has grown is gone through, so it has a first line.
LEMMA NotifiedStep == ASSUME StartInv, NEW m \in Middlewares, Starting!Notified(m) PROVE StartInv'
<1> DEFINE n == Len(Files[file])
           grows == n <= ShmCount /\ mw[m].count < n
           r == [pc |-> IF grows THEN "update" ELSE "running", nodes |-> Files[file],
                 count |-> IF grows THEN n ELSE mw[m].count, at |-> IF grows THEN 1 ELSE 0]
<1>1. mw' = [mw EXCEPT ![m] = r] /\ mw[m].pc = "running" /\ sv' = sv /\ owner' = owner /\ shm' = shm /\ file' = file
    BY DEF Starting!Notified, Starting!At
<1>2. n \in Nat /\ mw[m].count \in 0..ShmCount /\ ShmCount \in Nat /\ Files[file] \in Versions /\ DOMAIN Files[file] = 1..n
    BY StartVars, VersionsAre DEF Process
<1>3. r \in Process /\ r.pc \in {"update", "running"} /\ (r.pc = "update" => r.at \in DOMAIN r.nodes)
    <2> HIDE DEF n
    <2>1. grows => n \in 0..ShmCount /\ 1 \in 1..n
        BY <1>2
    <2> QED
        BY <1>2, <2>1 DEF Process, Working
<1>4. owner' = m /\ \A l \in Middlewares \ {m} : mw[l].pc \in Working => owner' = l
    BY <1>1, OthersRest DEF Working
<1>5. Starting!SlotsInOrder'
    BY <1>1, SameOrder
<1> HIDE DEF r
<1> QED
    BY <1>1, <1>3, <1>4, <1>5, StartVars, Stepped DEF StartInv, Whole

\* What is put in the first free slot is in no other: all that are used come before it.
LEMMA UpdateNodeStep == ASSUME StartInv, NEW m \in Middlewares, Starting!UpdateNode(m) PROVE StartInv'
<1> DEFINE f == mw[m].nodes
           at == mw[m].at
           node == f[at]
           free == {i \in Starting!Slots : shm.slot[i].node = Starting!NoNode}
           first == CHOOSE i \in free : \A j \in free : i <= j
<1>1. mw[m].pc = "update" /\ sv' = sv /\ owner' = owner /\ file' = file
    BY DEF Starting!UpdateNode, Starting!At
<1>2. owner' = m /\ \A n \in Middlewares \ {m} : mw[n].pc \in Working => owner' = n
    BY <1>1, OthersRest DEF Working
<1>3. f \in Versions \cup {<<>>} /\ at \in DOMAIN f /\ Len(f) \in Nat /\ DOMAIN f = 1..Len(f) /\ node \in FileNodes /\ node # Starting!NoNode
    <2>1. f \in Versions \cup {<<>>} /\ at \in DOMAIN f /\ at \in Nat
        BY <1>1, StartVars DEF Process, Stands
    <2>2. Len(f) \in Nat /\ DOMAIN f = 1..Len(f)
        BY <2>1, VersionsAre
    <2>3. f[at] \in FileNodes /\ f[at] # Starting!NoNode
        BY <2>1, VersionsAre, Zenon
    <2> QED
        BY <2>1, <2>2, <2>3, Zenon
<1>4. PICK r \in Process : mw' = [mw EXCEPT ![m] = r] /\ r.pc \in {"running", "update"} /\ (r.pc = "update" => r.at \in DOMAIN r.nodes)
    <2>1. CASE at = Len(f)
        <3> DEFINE r == [mw[m] EXCEPT !.pc = "running"]
        <3>1. Starting!Go(m, "running")
            BY <2>1 DEF Starting!UpdateNode
        <3>2. mw' = [mw EXCEPT ![m] = r] /\ r \in Process /\ r.pc = "running"
            BY <3>1, Going DEF Working
        <3> QED
            BY <3>2
    <2>2. CASE at # Len(f)
        <3> DEFINE r == [mw[m] EXCEPT !.at = at + 1]
        <3>1. mw' = [mw EXCEPT ![m] = r]
            BY <2>2, StartVars DEF Starting!UpdateNode
        <3>2. at + 1 \in 1..Len(f) /\ at + 1 \in Nat
            BY <1>3, <2>2
        <3>3. r \in Process /\ r.pc = "update" /\ r.at = at + 1 /\ r.nodes = f
            BY <1>1, <3>2, StartVars DEF Process
        <3> QED
            BY <1>3, <3>1, <3>2, <3>3
    <2> QED
        BY <2>1, <2>2
<1>5. CASE shm' = shm
    <2>1. Starting!SlotsInOrder'
        BY <1>5, SameOrder
    <2> QED
        BY <1>1, <1>2, <1>4, <1>5, <2>1, StartVars, Stepped DEF StartInv, Whole
<1>6. CASE ~ Starting!Known(node) /\ free # {} /\ shm' = [shm EXCEPT !.slot[first] = [Starting!Free EXCEPT !.node = node]]
    <2>1. first \in free /\ \A j \in free : first <= j
        <3>1. free \subseteq Nat
            BY VersionsAre
        <3>2. Min(free) \in free /\ \A j \in free : Min(free) <= j
            BY <1>6, <3>1, LeastNumber
        <3> HIDE DEF free
        <3> QED
            BY <3>2
    <2>2. first \in Starting!Slots /\ shm.slot[first].node = Starting!NoNode
        BY <2>1
    <2> HIDE DEF first
    <2> DEFINE new == [Starting!Free EXCEPT !.node = node]
    <2>3. new \in Slot /\ new.node = node
        BY <1>3 DEF Slot, Starting!Free
    <2> HIDE DEF new
    <2>4. /\ shm' \in Memory /\ shm'.mutex = shm.mutex /\ shm'.lists = shm.lists /\ shm'.named = shm.named /\ shm'.size = shm.size
          /\ shm'.slot = [shm.slot EXCEPT ![first] = new]
        BY <1>6, <2>3, StartVars DEF Memory, new
    <2>5. ASSUME NEW i \in Starting!Slots PROVE shm'.slot[i].node = IF i = first THEN node ELSE shm.slot[i].node
        BY <2>2, <2>3, <2>4, StartVars
    \* used slots come before free ones, so a node that is not known has none
    <2>6. ASSUME NEW i \in Starting!Slots, shm.slot[i].node # Starting!NoNode
          PROVE  i < first /\ shm.slot[i].node # node
        <3>1. \A j \in 1..i : j \in Starting!Slots /\ (j < i \/ j = i)
            BY VersionsAre
        <3>2. \A j \in 1..i : shm.slot[j].node # Starting!NoNode
            BY <2>6, <3>1, StartVars DEF Starting!SlotsInOrder
        <3>3. Starting!Used(i)
            BY <3>2 DEF Starting!Used
        <3>4. shm.slot[i].node # node
            BY <1>6, <3>3 DEF Starting!Known
        <3>5. first \notin 1..i
            BY <2>2, <3>2
        <3> QED
            BY <2>2, <3>4, <3>5, VersionsAre
    <2>7. ASSUME NEW i \in Starting!Slots, i < first PROVE shm.slot[i].node # Starting!NoNode
        BY <2>1, <2>2, <2>7, VersionsAre
    <2>8. Starting!SlotsInOrder'
        <3> SUFFICES ASSUME NEW i \in Starting!Slots, NEW j \in Starting!Slots, i < j
                     PROVE  /\ shm'.slot[i].node = shm'.slot[j].node => shm'.slot[i].node = Starting!NoNode
                            /\ shm'.slot[i].node = Starting!NoNode => shm'.slot[j].node = Starting!NoNode
            BY DEF Starting!SlotsInOrder, Starting!Slots, Starting!NoNode
        <3>1. i \in Nat /\ j \in Nat /\ first \in Nat
            BY <2>2, VersionsAre
        <3>2. /\ shm.slot[i].node = shm.slot[j].node => shm.slot[i].node = Starting!NoNode
              /\ shm.slot[i].node = Starting!NoNode => shm.slot[j].node = Starting!NoNode
            BY StartVars DEF Starting!SlotsInOrder
        <3>3. CASE i = first
            <4>1. shm'.slot[j].node = shm.slot[j].node /\ shm.slot[j].node = Starting!NoNode /\ shm'.slot[i].node = node
                BY <2>5, <2>6, <3>1, <3>3
            <4> QED
                BY <1>3, <4>1
        <3>4. CASE j = first
            <4>1. shm'.slot[i].node = shm.slot[i].node /\ shm.slot[i].node # Starting!NoNode /\ shm'.slot[j].node = node
                BY <2>5, <2>7, <3>1, <3>4
            <4> QED
                BY <1>3, <2>6, <4>1
        <3>5. CASE i # first /\ j # first
            BY <2>5, <3>2, <3>5
        <3> QED
            BY <3>3, <3>4, <3>5
    <2> QED
        BY <1>1, <1>2, <1>4, <2>4, <2>8, StartVars, Stepped DEF StartInv, Whole
<1> QED
    BY <1>5, <1>6 DEF Starting!UpdateNode

LEMMA MiddlewareDiesStep == ASSUME StartInv, NEW m \in Middlewares, Starting!MiddlewareDies(m) PROVE StartInv'
<1>1. sv' = sv /\ shm' = shm /\ file' = file /\ mw' = [mw EXCEPT ![m] = Starting!Dead]
      /\ owner' = IF owner = m THEN Starting!Nobody ELSE owner
    BY DEF Starting!MiddlewareDies
<1>2. Starting!SlotsInOrder'
    BY <1>1, SameOrder
<1>3. \A n \in Middlewares \ {m} : mw[n].pc \in Working => owner' = n
    BY <1>1 DEF StartInv, Stands
<1> QED
    BY <1>1, <1>2, <1>3, StartVars, Stepped DEF StartInv, Whole, Working

\* Services look at the size before they use the memory, and only give slots their queues.
LEMMA ServiceStep ==
  ASSUME StartInv, NEW s \in Attaching,
         Starting!Attach(s) \/ Starting!Check(s) \/ Starting!ServiceDies(s) \/ \E i \in Starting!Slots : Starting!SendTo(s, i)
  PROVE  StartInv'
<1>1. CASE \E i \in Starting!Slots : Starting!SendTo(s, i)
    <2>1. PICK i \in Starting!Slots : shm' = [shm EXCEPT !.slot[i].queue = TRUE]
        BY <1>1 DEF Starting!SendTo
    <2>2. mw' = mw /\ sv' = sv /\ owner' = owner /\ file' = file
        BY <1>1 DEF Starting!SendTo
    <2>3. [shm.slot[i] EXCEPT !.queue = TRUE] \in Slot /\ [shm.slot[i] EXCEPT !.queue = TRUE].node = shm.slot[i].node
        BY StartVars DEF Slot
    <2>4. /\ shm' \in Memory /\ shm'.mutex = shm.mutex /\ shm'.lists = shm.lists /\ shm'.named = shm.named /\ shm'.size = shm.size
          /\ shm'.slot = [shm.slot EXCEPT ![i] = [shm.slot[i] EXCEPT !.queue = TRUE]]
        BY <2>1, <2>3, StartVars DEF Memory
    <2>5. \A j \in Starting!Slots : shm'.slot[j].node = shm.slot[j].node
        BY <2>3, <2>4, StartVars
    <2>6. Starting!SlotsInOrder'
        BY <2>5, SameOrder
    <2> QED
        BY <2>2, <2>4, <2>6 DEF StartInv, StartTyped, Stands, Whole, SizeSeen
<1>2. CASE Starting!Attach(s) \/ Starting!Check(s) \/ Starting!ServiceDies(s)
    <2>1. mw' = mw /\ shm' = shm /\ owner' = owner /\ file' = file
        BY <1>2 DEF Starting!Attach, Starting!Check, Starting!ServiceDies
    <2>2. Starting!SlotsInOrder'
        BY <2>1, SameOrder
    <2>3. PICK pc \in {"down", "check", "slept", "uses"} : sv' = [sv EXCEPT ![s] = pc] /\ (pc = "uses" => shm.size)
        BY <1>2 DEF Starting!Attach, Starting!Check, Starting!ServiceDies
    <2>4. sv' \in [Attaching -> {"down", "check", "slept", "uses"}] /\ SizeSeen'
        BY <2>1, <2>3 DEF StartInv, StartTyped, SizeSeen
    <2> QED
        BY <2>1, <2>2, <2>4 DEF StartInv, StartTyped, Stands, Whole
<1> QED
    BY <1>1, <1>2

LEMMA EditStep == ASSUME StartInv, Starting!Edit PROVE StartInv'
<1>1. mw' = mw /\ sv' = sv /\ shm' = shm /\ owner' = owner /\ file' \in DOMAIN Files
    BY StartVars, VersionsAre DEF Starting!Edit
<1>2. Starting!SlotsInOrder'
    BY <1>1, SameOrder
<1> QED
    BY <1>1, <1>2 DEF StartInv, StartTyped, Stands, Whole, SizeSeen

LEMMA StartStill == StartInv /\ UNCHANGED startVars => StartInv'
<1> SUFFICES ASSUME StartInv, UNCHANGED startVars PROVE StartInv'
    OBVIOUS
<1>1. mw' = mw /\ sv' = sv /\ shm' = shm /\ owner' = owner /\ file' = file
    BY DEF startVars
<1>2. Starting!SlotsInOrder'
    BY <1>1, SameOrder
<1> QED
    BY <1>1, <1>2 DEF StartInv, StartTyped, Stands, Whole, SizeSeen

LEMMA StartInit == Starting!Init => StartInv
<1> SUFFICES ASSUME Starting!Init PROVE StartInv
    OBVIOUS
<1>1. Starting!Free \in Slot /\ Starting!Free.node = Starting!NoNode
    BY DEF Starting!Free, Slot
<1>2. Starting!Dead \in Process /\ Starting!Dead.pc = "down" /\ "down" \notin Working
    BY VersionsAre DEF Starting!Dead, Process, Working
<1>3. StartTyped
    BY <1>1, <1>2, VersionsAre DEF StartTyped, Starting!Init, Memory
<1>4. \A i \in Starting!Slots : shm.slot[i] = Starting!Free
    BY DEF Starting!Init
<1>5. Starting!SlotsInOrder
    BY <1>1, <1>4 DEF Starting!SlotsInOrder
<1>6. \A m \in Middlewares : Stands(m)
    BY <1>2 DEF Stands, Starting!Init
<1> QED
    BY <1>3, <1>5, <1>6 DEF StartInv, Whole, SizeSeen, Starting!Init

LEMMA StartNext == ASSUME StartInv, Starting!Next PROVE StartInv'
<1>1. ASSUME NEW m \in Middlewares, Starting!Start(m) \/ Starting!Notified(m) \/ Starting!MiddlewareDies(m) PROVE StartInv'
    BY <1>1, StartStep, NotifiedStep, MiddlewareDiesStep
<1>2. ASSUME NEW m \in Middlewares, Starting!Middleware(m) PROVE StartInv'
    BY <1>2, LockFileStep, FillStep, InitNodesStep, InitNetHandlerStep, RunStep, UpdateNodeStep DEF Starting!Middleware
<1>3. CASE Starting!Edit
    BY <1>3, EditStep
<1> QED
    BY <1>1, <1>2, <1>3, ServiceStep DEF Starting!Next

\* StartInv says what is checked.
LEMMA StartMeant == StartInv => Starting!TypeOK /\ Starting!UsesWhole /\ Starting!OneAtWork /\ Starting!SlotsInOrder
<1> SUFFICES ASSUME StartInv PROVE Starting!TypeOK /\ Starting!UsesWhole /\ Starting!OneAtWork
    BY DEF StartInv
<1>1. Starting!TypeOK
    BY StartVars, VersionsAre DEF Starting!TypeOK, Process
<1>2. Starting!UsesWhole
    BY DEF Starting!UsesWhole, StartInv, Whole, SizeSeen
<1>3. Starting!OneAtWork
    <2> DEFINE working == {m \in Middlewares : ~ Starting!At(m, "down") /\ ~ Starting!At(m, "lock")}
    <2>1. \A m \in working : m = owner
        BY StartVars DEF Starting!At, Process, Stands
    <2>2. working = {} \/ working = {owner}
        BY <2>1
    <2>3. Cardinality(working) \in {0, 1}
        BY <2>2, FS_EmptySet, FS_Singleton
    <2> QED
        BY <2>3 DEF Starting!OneAtWork, Starting!Cardinality, Cardinality
<1> QED
    BY <1>1, <1>2, <1>3

StartInvariant == part = "start" => StartInv

\* A service that goes on to use the memory finds all of it initialised, one middleware at a time works on
\* it, and nodes have one slot each, without a gap before them: for any number of middlewares and services
\* that die and come back anywhere, and any versions of the file in which an address has one port.
THEOREM StartIsSound == PartsSpec => []StartSound
<1>1. PartsInit => StartInvariant
    BY StartInit DEF PartsInit, StartInvariant
<1>2. StartInvariant /\ [PartsNext]_partVars => StartInvariant'
    <2> SUFFICES ASSUME StartInvariant, [PartsNext]_partVars, part' = "start" PROVE StartInv'
        BY DEF StartInvariant
    <2>1. CASE PartsNext
        <3>1. part = part'
            BY <2>1 DEF PartsNext, Alone
        <3>2. StartInv
            BY <3>1 DEF StartInvariant
        <3>3. CASE Alone("start") /\ Starting!Next
            BY <3>2, <3>3, StartNext
        <3>4. CASE ~ Alone("start")
            BY <2>1, <3>1, <3>4 DEF PartsNext, Alone
        <3> QED
            BY <2>1, <3>1, <3>3, <3>4 DEF PartsNext, Alone
    <2>2. CASE UNCHANGED partVars
        BY <2>2, StartStill DEF partVars, StartInvariant
    <2> QED
        BY <2>1, <2>2
<1>3. StartInvariant => StartSound
    BY StartMeant DEF StartInvariant, StartSound
<1> QED
    BY <1>1, <1>2, <1>3, PTL DEF PartsSpec
===================================================================================
