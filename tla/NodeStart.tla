-------------------------------- MODULE NodeStart --------------------------------
(***************************************************************************)
(* How the shared memory of a node comes up and what it knows of the other *)
(* nodes (CSrvMsgComm::createShm, initShm, initNetHandler, updateConfig),  *)
(* and how services attach to it (CMsgComm::init).  A middleware locks its *)
(* key file, makes the memory or finds it, fills it in step by step and    *)
(* publishes its size last; services wait for the size.  Processes die at  *)
(* any step, the memory outlives them, and the lock does not.  The other   *)
(* nodes are listed in a file that may be edited at any time, and is read  *)
(* when a middleware starts and when it is notified.                       *)
(***************************************************************************)
EXTENDS Naturals, FiniteSets, SequencesExt

CONSTANTS Middlewares, \* the middleware processes that are started
          Services,
          Files,       \* the versions of [NodeIP] and [NodePort]: sequences of pairs <<ip, port>>
          ShmCount,    \* slots for other nodes
          MaxDeaths    \* bound on the deaths of processes

NoNode == <<0, 0>>
Free == [node |-> NoNode, queue |-> FALSE]               \* queue: whether readMsg is set
Slots == 1..ShmCount
Nobody == "nobody"

\* The bounds, and who holds no lock is no process.
BoundsAssumption == ShmCount \in Nat /\ MaxDeaths \in Nat /\ Nobody \notin Middlewares
\* A version is a list of nodes that have a port (getNetNodes).
FilesAssumption == /\ Len(Files) \in Nat \ {0} /\ DOMAIN Files = 1..Len(Files)
                   /\ \A v \in DOMAIN Files : /\ Len(Files[v]) \in Nat /\ DOMAIN Files[v] = 1..Len(Files[v])
                                             /\ \A k \in DOMAIN Files[v] : Files[v][k] # NoNode
\* An address has one line in a version of the file, and keeps its port: the code presumes as much where it
\* says which nodes it knows.
AddressesAssumption ==
  \A v, w \in DOMAIN Files : \A k \in DOMAIN Files[v], l \in DOMAIN Files[w] :
    Files[v][k][1] = Files[w][l][1] => Files[v][k] = Files[w][l] /\ (v = w => k = l)

VARIABLES mw,          \* each middleware: pc, the file it has read, NetNodeCount, and updateConfig's place
          sv,          \* each service
          owner,       \* who holds the lock of the key file
          shm,         \* the shared memory
          file,        \* the version of the file
          deaths

vars == <<mw, sv, owner, shm, file, deaths>>

Dead == [pc |-> "down", nodes |-> <<>>, count |-> 0, at |-> 0]

Init == /\ mw = [m \in Middlewares |-> Dead]
        /\ sv = [s \in Services |-> "down"]
        /\ owner = Nobody
        /\ shm = [exists |-> FALSE, mutex |-> FALSE, lists |-> FALSE, named |-> FALSE, size |-> FALSE,
                  slot |-> [i \in Slots |-> Free]]
        /\ file = 1
        /\ deaths = 0

At(m, pc) == mw[m].pc = pc
Go(m, pc) == mw' = [mw EXCEPT ![m].pc = pc]

-----------------------------------------------------------------------------
(* createShm.                                                              *)

\* initCfgFile: more nodes than slots are refused.
Start(m) ==
  /\ At(m, "down")
  /\ Len(Files[file]) <= ShmCount
  /\ mw' = [mw EXCEPT ![m] = [pc |-> "lock", nodes |-> Files[file], count |-> Len(Files[file]), at |-> 0]]
  /\ UNCHANGED <<sv, owner, shm, file, deaths>>

\* MUTANT of LockFile: the lock of another process is taken over.
LockFileAnyhow(m) == /\ At(m, "lock")
                     /\ owner' = m /\ Go(m, "create")
                     /\ UNCHANGED <<sv, shm, file, deaths>>

LockFile(m) == /\ At(m, "lock")
               /\ \/ owner = Nobody /\ owner' = m /\ Go(m, "create")
                  \/ owner # Nobody /\ mw' = [mw EXCEPT ![m] = Dead] /\ UNCHANGED owner
               /\ UNCHANGED <<sv, shm, file, deaths>>

\* shmget, whose new memory is zero.
Create(m) == /\ At(m, "create")
             /\ shm' = [shm EXCEPT !.exists = TRUE]
             /\ Go(m, IF shm.exists THEN "net" ELSE "mutex")
             /\ UNCHANGED <<sv, owner, file, deaths>>

\* initShm: the mutex, the lists of blocks, the nodes of the file one slot each, and the size.
InitMutex(m) == /\ At(m, "mutex")
                /\ shm' = [shm EXCEPT !.mutex = TRUE]
                /\ Go(m, "lists")
                /\ UNCHANGED <<sv, owner, file, deaths>>

InitLists(m) == /\ At(m, "lists")
                /\ shm' = [shm EXCEPT !.lists = TRUE]
                /\ Go(m, "nodes")
                /\ UNCHANGED <<sv, owner, file, deaths>>

\* MUTANT of InitNodes: the size is written before the nodes are.
InitNodesLast(m) == /\ At(m, "nodes")
                    /\ shm' = [shm EXCEPT !.size = TRUE]
                    /\ Go(m, "size")
                    /\ UNCHANGED <<sv, owner, file, deaths>>

InitNodes(m) ==
  /\ At(m, "nodes")
  /\ shm' = [shm EXCEPT !.named = TRUE,
                        !.slot = [i \in Slots |-> IF i <= Len(mw[m].nodes) THEN [Free EXCEPT !.node = mw[m].nodes[i]] ELSE Free]]
  /\ Go(m, "size")
  /\ UNCHANGED <<sv, owner, file, deaths>>

Publish(m) == /\ At(m, "size")
              /\ shm' = [shm EXCEPT !.size = TRUE]
              /\ Go(m, "run")
              /\ UNCHANGED <<sv, owner, file, deaths>>

-----------------------------------------------------------------------------
\* initNetHandler: of the slots before the first free one, a node whose port (that of the first line with
\* its address) has changed gets the new one and, like a node the file no longer has, loses its queue;
\* nodes that are new get no slot.
Used(i) == \A j \in 1..i : shm.slot[j].node # NoNode
Entries(nodes, ip) == {k \in DOMAIN nodes : nodes[k][1] = ip}
Revised(s, nodes) ==
  LET entries == Entries(nodes, s.node[1])
      first == CHOOSE k \in entries : \A l \in entries : k <= l
  IN IF entries = {} THEN [s EXCEPT !.queue = FALSE]
     ELSE IF s.node = nodes[first] THEN s
     ELSE [node |-> nodes[first], queue |-> FALSE]

InitNetHandler(m) ==
  /\ At(m, "net")
  /\ shm' = [shm EXCEPT !.slot = [i \in Slots |-> IF shm.lists /\ Used(i) THEN Revised(@[i], mw[m].nodes) ELSE @[i]]]
  /\ Go(m, "run")
  /\ UNCHANGED <<sv, owner, file, deaths>>

\* run: without the size the process ends, and whoever made the memory does not matter.
Run(m) == /\ At(m, "run")
          /\ \/ shm.size /\ Go(m, "running") /\ UNCHANGED owner
             \/ ~shm.size /\ mw' = [mw EXCEPT ![m] = Dead] /\ owner' = Nobody
          /\ UNCHANGED <<sv, shm, file, deaths>>

-----------------------------------------------------------------------------
(* updateConfig, in a signal handler.  Only a file with more nodes than    *)
(* before is gone through.                                                 *)

Notified(m) ==
  /\ At(m, "running")
  /\ LET n == Len(Files[file])
         grows == n <= ShmCount /\ mw[m].count < n
     IN mw' = [mw EXCEPT ![m] = [pc |-> IF grows THEN "update" ELSE "running", nodes |-> Files[file],
                                 count |-> IF grows THEN n ELSE @.count, at |-> IF grows THEN 1 ELSE 0]]
  /\ UNCHANGED <<sv, owner, shm, file, deaths>>

\* MUTANT of Known: a node is looked for behind the first free slot only, that is nowhere.
KnownNot(node) == FALSE

\* The slots are searched up to the first free one.
Known(node) == \E i \in Slots : Used(i) /\ shm.slot[i].node = node

\* The address and the port, two statements of updateConfig, are written in one step.
UpdateNode(m) ==
  /\ At(m, "update")
  /\ LET node == mw[m].nodes[mw[m].at]
         free == {i \in Slots : shm.slot[i].node = NoNode}
     IN IF Known(node) \/ free = {} THEN UNCHANGED shm
        ELSE LET first == CHOOSE i \in free : \A j \in free : i <= j
             IN shm' = [shm EXCEPT !.slot[first] = [Free EXCEPT !.node = node]]
  /\ IF mw[m].at = Len(mw[m].nodes) THEN Go(m, "running") ELSE mw' = [mw EXCEPT ![m].at = @ + 1]
  /\ UNCHANGED <<sv, owner, file, deaths>>

-----------------------------------------------------------------------------
(* CMsgComm::init, and what goes on around.                                *)

Attach(s) == /\ sv[s] = "down"
             /\ shm.exists
             /\ sv' = [sv EXCEPT ![s] = "check"]
             /\ UNCHANGED <<mw, owner, shm, file, deaths>>

\* MUTANT of Check: the size is not looked at.
CheckNot(s) == /\ sv[s] \in {"check", "slept"}
               /\ sv' = [sv EXCEPT ![s] = "uses"]
               /\ UNCHANGED <<mw, owner, shm, file, deaths>>

\* The size is looked at twice, a second apart.
Check(s) == /\ sv[s] \in {"check", "slept"}
            /\ sv' = [sv EXCEPT ![s] = IF shm.size THEN "uses" ELSE IF sv[s] = "check" THEN "slept" ELSE "down"]
            /\ UNCHANGED <<mw, owner, shm, file, deaths>>

\* A service that sends to a node gives its slot a queue.
SendTo(s, i) == /\ sv[s] = "uses"
                /\ shm.slot[i].node # NoNode /\ ~shm.slot[i].queue
                /\ shm' = [shm EXCEPT !.slot[i].queue = TRUE]
                /\ UNCHANGED <<mw, sv, owner, file, deaths>>

Edit == /\ file < Len(Files)
        /\ file' = file + 1
        /\ UNCHANGED <<mw, sv, owner, shm, deaths>>

MiddlewareDies(m) == /\ ~At(m, "down") /\ deaths < MaxDeaths
                     /\ mw' = [mw EXCEPT ![m] = Dead]
                     /\ owner' = IF owner = m THEN Nobody ELSE owner
                     /\ deaths' = deaths + 1
                     /\ UNCHANGED <<sv, shm, file>>

ServiceDies(s) == /\ sv[s] # "down" /\ deaths < MaxDeaths
                  /\ sv' = [sv EXCEPT ![s] = "down"]
                  /\ deaths' = deaths + 1
                  /\ UNCHANGED <<mw, owner, shm, file>>

Middleware(m) == \/ LockFile(m) \/ Create(m) \/ InitMutex(m) \/ InitLists(m) \/ InitNodes(m) \/ Publish(m)
                 \/ InitNetHandler(m) \/ Run(m) \/ UpdateNode(m)

Next == \/ \E m \in Middlewares : Start(m) \/ Middleware(m) \/ Notified(m) \/ MiddlewareDies(m)
        \/ \E s \in Services : Attach(s) \/ Check(s) \/ ServiceDies(s) \/ \E i \in Slots : SendTo(s, i)
        \/ Edit

Spec == Init /\ [][Next]_vars

-----------------------------------------------------------------------------
TypeOK == /\ owner \in Middlewares \cup {Nobody}
          /\ \A m \in Middlewares : mw[m].count <= ShmCount

\* A service that goes on to use the memory finds all of it initialised, whichever processes have died
\* in the meantime.
UsesWhole == (\E s \in Services : sv[s] = "uses") => shm.mutex /\ shm.lists /\ shm.named

\* One middleware at a time works on the memory.
OneAtWork == Cardinality({m \in Middlewares : ~At(m, "down") /\ ~At(m, "lock")}) <= 1

\* No node has two slots, and there is no free slot between those of nodes: the walks end at the first
\* free one.  (This presumes that no node changes its port.)
SlotsInOrder == \A i, j \in Slots : i < j =>
                  /\ shm.slot[i].node = shm.slot[j].node => shm.slot[i].node = NoNode
                  /\ shm.slot[i].node = NoNode => shm.slot[j].node = NoNode

\* "Wait for the middleware to finish initialising the shared memory" (CMsgComm.cpp:184): a middleware that
\* has been through createShm has a memory that is complete.  (Not after one that died in initShm: no other
\* goes on where it stopped, or begins again.)
Finished == \A m \in Middlewares : At(m, "run") => shm.size

\* "Not there before: added to the queue" (CSrvMsgComm.cpp:552): a middleware that runs knows the nodes
\* of the file it has read.
NodesKnown == \A m \in Middlewares : At(m, "running") =>
                \A k \in DOMAIN mw[m].nodes : \E i \in Slots : shm.slot[i].node = mw[m].nodes[k]
=============================================================================
