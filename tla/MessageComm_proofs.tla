--------------------------- MODULE MessageComm_proofs ---------------------------
(***************************************************************************)
(* The blocks of shared memory are in one list each, a process that comes  *)
(* back finds its own, and no two services write into one queue: for any   *)
(* services, receivers and numbers of blocks, and wherever processes die.  *)
(***************************************************************************)
EXTENDS MessageComm, FiniteSetTheorems, SequenceTheorems, WellFoundedInduction, TLAPS

ProcRec == [pc : {"off", "idle", "lock", "unlink", "link", "unlock", "setIds", "setReader", "recv"},
            kind : {"none", "handler", "queue"}, to : Processes,
            idx : Blocks \cup {None}, msgHandler : Blocks \cup {None},
            msgQueue : [Receivers -> Blocks \cup {None}],
            curQueueIdx : Blocks \cup {None}, begin : Blocks \cup {None}]

Used == Range(nodeMsgHandlers)
QueuesOf(h) == Range(handler[h].readMsg)
\* The handler h in the node's list is the one of service r.
Has(r, h) == h \in Used /\ handler[h].readerId = r

\* The lists as sets: a handler is free or used, a queue is free or with one handler.
Whole ==
  /\ IsInjective(msgHandlerList) /\ IsInjective(nodeMsgHandlers) /\ Range(msgHandlerList) \cap Used = {}
  /\ IsInjective(msgQueueList) /\ \A h \in Blocks : IsInjective(handler[h].readMsg)
  /\ \A h \in Blocks : Range(msgQueueList) \cap QueuesOf(h) = {}
  /\ \A h, k \in Blocks : h # k => QueuesOf(h) \cap QueuesOf(k) = {}
LostHandlers == Blocks \ (Range(msgHandlerList) \cup Used)
LostQueues == {q \in Blocks : q \notin Range(msgQueueList) /\ \A h \in Blocks : q \notin QueuesOf(h)}
Moving(k) == {proc[a].idx : a \in {p \in Processes : proc[p].pc = "link" /\ proc[p].kind = k}}
\* What is in no list is just being moved, or was when the holder of the mutex died.
Accounted ==
  IF sharedMutex = Dead
    THEN /\ \A x, y \in LostHandlers : x = y
         /\ \A x, y \in LostQueues : x = y
         /\ LostHandlers = {} \/ LostQueues = {}
    ELSE LostHandlers = Moving("handler") /\ LostQueues = Moving("queue")

\* The mutex is held where the code says so.
Mutex == \A a \in Processes : sharedMutex = a <=> proc[a].pc \in {"unlink", "link", "unlock"}

\* A block that is nobody's carries nobody's id.
Fresh == /\ \A h \in Blocks : h \notin Used => handler[h].readerId = Net /\ handler[h].readMsg = <<>>
         /\ \A q \in Blocks : (\A h \in Blocks : q \notin QueuesOf(h)) => queue[q].writerId = Net

\* One handler for a service, one queue from a service to a handler.
Found == /\ \A h, k \in Used : handler[h].readerId = handler[k].readerId /\ handler[h].readerId # Net => h = k
         /\ \A h \in Used : \A q, p \in QueuesOf(h) :
              queue[q].writerId = queue[p].writerId /\ queue[q].writerId # Net => q = p

Asking == {"lock", "unlink", "link", "unlock", "setIds"}
Linked == {"unlock", "setIds", "setReader"}
\* A process that gets itself a handler, and how far it is.
GetsHandler(a) == proc[a].pc \in Asking /\ proc[a].kind = "handler" =>
  /\ a # Net /\ \A h \in Blocks : ~ Has(a, h)
  /\ proc[a].pc = "unlink" => msgHandlerList # <<>> /\ proc[a].idx = Head(msgHandlerList)
  /\ proc[a].pc = "link" => proc[a].idx # None
  /\ proc[a].pc = "setIds" => proc[a].idx # None
  /\ proc[a].pc \in Linked /\ proc[a].idx # None => Has(Net, proc[a].idx)
\* A process that gets itself a queue, and how far it is.
GetsQueue(a) == proc[a].pc \in Asking \cup {"setReader"} /\ proc[a].kind = "queue" =>
  /\ proc[a].to \in Receivers /\ proc[a].msgQueue[proc[a].to] = None
  /\ \E h \in Blocks : /\ Has(proc[a].to, h)
                       /\ proc[a].pc \in Asking /\ a # Net => \A q \in QueuesOf(h) : queue[q].writerId # a
                       /\ proc[a].pc \in Linked /\ proc[a].idx # None => proc[a].idx \in QueuesOf(h)
  /\ proc[a].pc = "unlink" => msgQueueList # <<>> /\ proc[a].idx = Head(msgQueueList)
  /\ proc[a].pc \in {"link", "setIds", "setReader"} => proc[a].idx # None
  /\ proc[a].pc \in {"unlock", "setIds"} /\ proc[a].idx # None => queue[proc[a].idx].writerId = Net
  /\ proc[a].pc = "setReader" => queue[proc[a].idx].writerId = a
\* What a process is at, which handler it has, and where its walk stands.
AtWork(a) ==
  /\ proc[a].pc \in Asking => proc[a].kind \in {"handler", "queue"}
  /\ proc[a].pc = "setReader" => proc[a].kind = "queue"
  /\ a # Net /\ (proc[a].pc \in {"idle", "recv", "setReader"} \/ (proc[a].pc \in Asking /\ proc[a].kind = "queue"))
       => proc[a].msgHandler # None /\ Has(a, proc[a].msgHandler)
  /\ proc[a].pc = "recv" => a # Net /\ proc[a].curQueueIdx # None /\ proc[a].begin # None
                              /\ handler[proc[a].msgHandler].readMsg # <<>>
\* A service's remembered queue is the one it writes, with the reader it means.
Remembers(a) == \A r \in Receivers : a # Net /\ proc[a].msgQueue[r] # None =>
  queue[proc[a].msgQueue[r]].writerId = a /\ \E h \in Blocks : Has(r, h) /\ proc[a].msgQueue[r] \in QueuesOf(h)
Sane(a) == GetsHandler(a) /\ GetsQueue(a) /\ AtWork(a) /\ Remembers(a)

\* Nobody else is giving its ids to the same block.
Apart == \A a, b \in Processes : a # b /\ {proc[a].pc, proc[b].pc} \subseteq Linked /\ proc[a].kind = proc[b].kind
                                   /\ proc[a].idx # None => proc[a].idx # proc[b].idx

MessagesInv == /\ TypeOK /\ Whole /\ Accounted /\ Mutex /\ Fresh /\ Found
               /\ (\A a \in Processes : Sane(a)) /\ Apart

-------------------------------------------------------------------------------
\* What a list contains.
LEMMA Contents ==
  ASSUME NEW S, NEW s \in Seq(S)
  PROVE  /\ DOMAIN s = 1 .. Len(s) /\ Len(s) \in Nat /\ Range(s) \subseteq S
         /\ \A x : x \in Range(s) <=> \E i \in 1 .. Len(s) : s[i] = x
         /\ IsInjective(s) <=> \A i, j \in 1 .. Len(s) : s[i] = s[j] => i = j
         /\ s = <<>> <=> Len(s) = 0
<1>1. DOMAIN s = 1 .. Len(s) /\ Len(s) \in Nat /\ \A i \in 1 .. Len(s) : s[i] \in S
    BY LenProperties
<1> QED
    BY <1>1, EmptySeq DEF Range, IsInjective

\* A block that is put in front of a list.
LEMMA InFront ==
  ASSUME NEW S, NEW s \in Seq(S), NEW b \in S
  PROVE  /\ <<b>> \o s \in Seq(S) /\ Range(<<b>> \o s) = {b} \cup Range(s) /\ <<b>> \o s # <<>>
         /\ IsInjective(s) /\ b \notin Range(s) => IsInjective(<<b>> \o s)
<1> DEFINE t == <<b>>
           u == t \o s
<1> PICK n \in Nat : n = Len(s)
    BY LenProperties
<1>1. t \in Seq(S) /\ Len(t) = 1 /\ t[1] = b
    OBVIOUS
<1> HIDE DEF t
<1>2. u \in Seq(S) /\ Len(u) = n + 1 /\ u[1] = b /\ \A i \in 2 .. n + 1 : u[i] = s[i - 1]
    <2>1. /\ t \o s \in Seq(S) /\ Len(t \o s) = Len(t) + Len(s)
          /\ \A i \in 1 .. Len(t) + Len(s) : (t \o s)[i] = IF i <= Len(t) THEN t[i] ELSE s[i - Len(t)]
        BY <1>1, ConcatProperties
    <2> QED
        BY <1>1, <2>1
<1> HIDE DEF u
<1>3. ASSUME NEW i \in 1 .. n PROVE i + 1 \in 2 .. n + 1 /\ u[i + 1] = s[i]
    <2>1. i + 1 \in 2 .. n + 1 /\ (i + 1) - 1 = i
        OBVIOUS
    <2> QED
        BY <1>2, <2>1
<1>4. ASSUME NEW i \in 2 .. n + 1 PROVE i - 1 \in 1 .. n /\ u[i] = s[i - 1]
    BY <1>2
<1>5. ASSUME NEW i \in 1 .. n + 1 PROVE i = 1 \/ i \in 2 .. n + 1
    OBVIOUS
<1>6. Range(u) = {b} \cup Range(s)
    <2>1. ASSUME NEW x PROVE x \in Range(s) <=> \E i \in 1 .. n : s[i] = x
        BY Contents
    <2>2. ASSUME NEW x PROVE x \in Range(u) <=> \E i \in 1 .. n + 1 : u[i] = x
        BY <1>2, Contents
    <2>3. ASSUME NEW x \in Range(u) PROVE x \in {b} \cup Range(s)
        BY <1>2, <1>4, <1>5, <2>1, <2>2
    <2>4. ASSUME NEW x \in Range(s) PROVE x \in Range(u)
        <3>1. PICK i \in 1 .. n : s[i] = x
            BY <2>1
        <3>2. i + 1 \in 1 .. n + 1
            OBVIOUS
        <3> QED
            BY <1>3, <2>2, <3>1, <3>2
    <2>5. b \in Range(u)
        BY <1>2, <2>2
    <2> QED
        BY <2>3, <2>4, <2>5
<1>7. ASSUME IsInjective(s), b \notin Range(s) PROVE IsInjective(u)
    <2>1. \A i \in 1 .. n : s[i] # b
        BY <1>7, Contents
    <2>2. \A i, j \in 1 .. n : s[i] = s[j] => i = j
        BY <1>7, Contents
    <2>3. ASSUME NEW i \in 1 .. n + 1, NEW j \in 1 .. n + 1, u[i] = u[j] PROVE i = j
        <3>1. CASE i = 1 \/ j = 1
            BY <1>2, <1>4, <1>5, <2>1, <2>3, <3>1
        <3>2. CASE i \in 2 .. n + 1 /\ j \in 2 .. n + 1
            <4>1. i - 1 = j - 1
                BY <1>4, <2>2, <2>3, <3>2
            <4> QED
                BY <3>2, <4>1
        <3> QED
            BY <1>5, <3>1, <3>2
    <2> QED
        BY <1>2, <2>3, Contents
<1> QED
    BY <1>2, <1>6, <1>7, EmptySeq DEF t, u

\* What is left of a list behind its first block, and behind any.
LEMMA TakenOff ==
  ASSUME NEW S, NEW s \in Seq(S), s # <<>>
  PROVE  /\ Head(s) \in S /\ Head(s) \in Range(s) /\ Tail(s) \in Seq(S)
         /\ Range(s) = {Head(s)} \cup Range(Tail(s))
         /\ IsInjective(s) => IsInjective(Tail(s)) /\ Head(s) \notin Range(Tail(s))
<1> PICK n \in Nat : n = Len(s)
    BY LenProperties
<1> DEFINE t == Tail(s)
           b == Head(s)
<1>1. n # 0 /\ 1 \in 1 .. n /\ b = s[1] /\ b \in S
    BY EmptySeq, HeadTailProperties
<1>2. t \in Seq(S) /\ Len(t) = n - 1 /\ \A i \in 1 .. n - 1 : t[i] = s[i + 1]
    BY HeadTailProperties
<1> HIDE DEF t, b
<1>3. ASSUME NEW i \in 1 .. n - 1 PROVE i + 1 \in 1 .. n /\ i + 1 # 1 /\ t[i] = s[i + 1]
    BY <1>2
<1>4. ASSUME NEW i \in 1 .. n PROVE i = 1 \/ (i - 1 \in 1 .. n - 1 /\ t[i - 1] = s[i])
    <2>1. i # 1 => i - 1 \in 1 .. n - 1 /\ (i - 1) + 1 = i
        OBVIOUS
    <2> QED
        BY <1>2, <2>1
<1>5. ASSUME NEW x PROVE x \in Range(s) <=> \E i \in 1 .. n : s[i] = x
    BY Contents
<1>6. ASSUME NEW x PROVE x \in Range(t) <=> \E i \in 1 .. n - 1 : t[i] = x
    BY <1>2, Contents
<1>7. Range(s) = {b} \cup Range(t) /\ b \in Range(s)
    <2>1. ASSUME NEW x \in Range(s) PROVE x \in {b} \cup Range(t)
        BY <1>1, <1>4, <1>5, <1>6
    <2>2. ASSUME NEW x \in Range(t) PROVE x \in Range(s)
        BY <1>3, <1>5, <1>6
    <2>3. b \in Range(s)
        BY <1>1, <1>5
    <2> QED
        BY <2>1, <2>2, <2>3
<1>8. ASSUME IsInjective(s) PROVE IsInjective(t) /\ b \notin Range(t)
    <2>1. \A i, j \in 1 .. n : s[i] = s[j] => i = j
        BY <1>8, Contents
    <2>2. ASSUME NEW i \in 1 .. n - 1, NEW j \in 1 .. n - 1, t[i] = t[j] PROVE i = j
        <3>1. i + 1 = j + 1
            BY <1>3, <2>1, <2>2
        <3> QED
            BY <3>1
    <2>3. b \notin Range(t)
        BY <1>1, <1>3, <1>6, <2>1
    <2> QED
        BY <1>2, <2>2, <2>3, Contents
<1> QED
    BY <1>1, <1>2, <1>7, <1>8 DEF t, b

\* A set of numbers has a least one.
LEMMA LeastNumber == ASSUME NEW T, T \subseteq Nat, T # {} PROVE Min(T) \in T /\ \A y \in T : Min(T) =< y
<1>1. IsWellFoundedOn(OpToRel(<, Nat), Nat)
    BY NatLessThanWellFounded
<1>2. PICK x \in T : \A y \in T : <<y, x>> \notin OpToRel(<, Nat)
    BY <1>1, WFMin
<1>3. \A y \in T : ~ (y < x)
    BY <1>2, Zenon DEF OpToRel
<1>4. \A y \in T : x =< y
    BY <1>3
<1> QED
    BY <1>4 DEF Min

\* A search along a list ends at an element that passes the test, or at the end when none does.
LEMMA SearchEnds ==
  ASSUME NEW s \in Seq(Blocks), NEW I \in SUBSET (1 .. Len(s))
  PROVE  LET i == IF I # {} THEN Min(I) ELSE 0
             b == IF i = 0 THEN None ELSE s[i]
         IN  \/ I = {} /\ b = None
             \/ I # {} /\ b \in Range(s) /\ b \in Blocks /\ b # None /\ \E j \in I : b = s[j]
<1>1. I # {} => Min(I) \in I
    <2>1. I \subseteq Nat
        OBVIOUS
    <2> QED
        BY <2>1, LeastNumber
<1>2. \A j \in 1 .. Len(s) : s[j] \in Range(s) /\ s[j] \in Blocks /\ j # 0
    BY Contents
<1>3. None \notin Blocks
    BY DEF None, Blocks
<1> QED
    BY <1>1, <1>2, <1>3

\* HandlerOf finds the service's handler, if it has one.
LEMMA HandlerFound ==
  ASSUME nodeMsgHandlers \in Seq(Blocks), NEW r
  PROVE  \/ HandlerOf(r) = None /\ \A h \in Used : handler[h].readerId # r
         \/ HandlerOf(r) \in Blocks /\ HandlerOf(r) # None /\ Has(r, HandlerOf(r))
<1> DEFINE I == {i \in 1 .. Len(nodeMsgHandlers) : handler[nodeMsgHandlers[i]].readerId = r}
           i0 == IF I # {} THEN Min(I) ELSE 0
           b == IF i0 = 0 THEN None ELSE nodeMsgHandlers[i0]
<1>1. HandlerOf(r) = b
    BY DEF HandlerOf, Find, SelectInSeq
<1>2. \/ I = {} /\ b = None
      \/ I # {} /\ b \in Used /\ b \in Blocks /\ b # None /\ \E j \in I : b = nodeMsgHandlers[j]
    BY SearchEnds DEF Used
<1> HIDE DEF b
<1>3. CASE I = {} /\ b = None
    <2>1. ASSUME NEW h \in Used PROVE handler[h].readerId # r
        <3>1. PICK i \in 1 .. Len(nodeMsgHandlers) : nodeMsgHandlers[i] = h
            BY Contents DEF Used
        <3> QED
            BY <1>3, <3>1
    <2> QED
        BY <1>1, <1>3, <2>1
<1>4. CASE b \in Used /\ b \in Blocks /\ b # None /\ \E j \in I : b = nodeMsgHandlers[j]
    BY <1>1, <1>4 DEF Has
<1> QED
    BY <1>2, <1>3, <1>4

\* QueueFrom finds the queue with the sender's id, if the handler has one.
LEMMA QueueFound ==
  ASSUME NEW h \in Blocks, handler[h].readMsg \in Seq(Blocks), NEW a
  PROVE  \/ QueueFrom(h, a) = None /\ \A q \in QueuesOf(h) : queue[q].writerId # a
         \/ /\ QueueFrom(h, a) \in Blocks /\ QueueFrom(h, a) # None
            /\ QueueFrom(h, a) \in QueuesOf(h) /\ queue[QueueFrom(h, a)].writerId = a
<1> DEFINE s == handler[h].readMsg
           I == {i \in 1 .. Len(s) : queue[s[i]].writerId = a}
           i0 == IF I # {} THEN Min(I) ELSE 0
           b == IF i0 = 0 THEN None ELSE s[i0]
<1>1. QueueFrom(h, a) = b
    BY DEF QueueFrom, Find, SelectInSeq
<1>2. \/ I = {} /\ b = None
      \/ I # {} /\ b \in QueuesOf(h) /\ b \in Blocks /\ b # None /\ \E j \in I : b = s[j]
    BY SearchEnds DEF QueuesOf
<1> HIDE DEF b
<1>3. CASE I = {} /\ b = None
    <2>1. ASSUME NEW q \in QueuesOf(h) PROVE queue[q].writerId # a
        <3>1. PICK i \in 1 .. Len(s) : s[i] = q
            BY Contents DEF QueuesOf
        <3> QED
            BY <1>3, <3>1
    <2> QED
        BY <1>1, <1>3, <2>1
<1>4. CASE b \in QueuesOf(h) /\ b \in Blocks /\ b # None /\ \E j \in I : b = s[j]
    BY <1>1, <1>4
<1> QED
    BY <1>2, <1>3, <1>4

\* Behind the first block of a list is its tail; behind any block, blocks.
LEMMA BehindBlock ==
  ASSUME NEW s \in Seq(Blocks), NEW b
  PROVE  /\ Behind(s, b) \in Seq(Blocks) /\ FirstOf(Behind(s, b)) \in Blocks \cup {None}
         /\ s # <<>> /\ b = Head(s) => Behind(s, b) = Tail(s)
<1> DEFINE I == {i \in 1 .. Len(s) : s[i] = b}
           i0 == IF I # {} THEN Min(I) ELSE 0
<1> PICK n \in Nat : n = Len(s)
    BY LenProperties
<1>1. Behind(s, b) = SubSeq(s, i0 + 1, n)
    BY DEF Behind, SelectInSeq
<1>2. I \subseteq Nat
    OBVIOUS
<1>3. I # {} => Min(I) \in I /\ \A y \in I : Min(I) =< y
    BY <1>2, LeastNumber
<1>4. i0 \in 0 .. n
    BY <1>3
<1>5. Behind(s, b) \in Seq(Blocks)
    <2>1. \A i \in i0 + 1 .. n : s[i] \in Blocks
        <3> HIDE DEF i0
        <3>1. \A i \in 1 .. n : s[i] \in Blocks
            BY LenProperties
        <3>2. \A i \in i0 + 1 .. n : i \in 1 .. n
            BY <1>4
        <3> QED
            BY <3>1, <3>2
    <2>2. i0 + 1 \in Int /\ n \in Int
        BY <1>4
    <2> HIDE DEF i0
    <2> QED
        BY <1>1, <2>1, <2>2, SubSeqProperties
<1>6. ASSUME s # <<>>, b = Head(s) PROVE Behind(s, b) = Tail(s)
    <2>1. 1 \in I
        <3>1. n # 0 /\ Head(s) = s[1]
            BY <1>6, EmptySeq, HeadTailProperties
        <3> QED
            BY <1>6, <3>1
    <2>2. i0 = 1
        BY <1>3, <2>1
    <2> QED
        <3>1. SubSeq(s, 2, n) = Tail(s)
            BY <1>6, TailIsSubSeq
        <3>2. i0 + 1 = 2
            BY <2>2
        <3> HIDE DEF i0
        <3> QED
            BY <1>1, <3>1, <3>2
<1>7. FirstOf(Behind(s, b)) \in Blocks \cup {None}
    BY <1>5, HeadTailProperties DEF FirstOf
<1> QED
    BY <1>5, <1>6, <1>7

-------------------------------------------------------------------------------
HandlerRec == [readerId : Processes, readMsg : Seq(Blocks)]
QueueRec == [writerId : Processes, readerId : Processes, len : 0 .. Cap]

\* The blocks and processes, and the values that stand for none.
LEMMA Names ==
  /\ None \notin Blocks /\ Blocks \subseteq Nat /\ Net \in Processes /\ Net \notin Services
  /\ None \notin Processes /\ Dead \notin Processes /\ None # Dead
  /\ Receivers \subseteq Services /\ Services \subseteq Processes /\ Processes = Services \cup {Net}
BY NamesAssumption DEF Blocks, Processes, None, Dead

\* What the types say.
LEMMA Vars ==
  ASSUME TypeOK
  PROVE  /\ nodeMsgHandlers \in Seq(Blocks) /\ msgHandlerList \in Seq(Blocks) /\ msgQueueList \in Seq(Blocks)
         /\ handler \in [Blocks -> HandlerRec] /\ queue \in [Blocks -> QueueRec]
         /\ proc \in [Processes -> ProcRec] /\ \A a \in Processes : proc[a] \in ProcRec
         /\ \A h \in Blocks : handler[h] \in HandlerRec /\ handler[h].readMsg \in Seq(Blocks)
         /\ \A q \in Blocks : queue[q] \in QueueRec /\ queue[q].writerId \in Processes
         /\ Used \subseteq Blocks /\ Range(msgHandlerList) \subseteq Blocks /\ Range(msgQueueList) \subseteq Blocks
         /\ \A h \in Blocks : QueuesOf(h) \subseteq Blocks
         /\ sharedMutex \in Processes \cup {None, Dead} /\ crashes \in 0 .. MaxCrashes
<1>1. /\ nodeMsgHandlers \in Seq(Blocks) /\ msgHandlerList \in Seq(Blocks) /\ msgQueueList \in Seq(Blocks)
      /\ handler \in [Blocks -> HandlerRec] /\ queue \in [Blocks -> QueueRec]
      /\ proc \in [Processes -> ProcRec]
      /\ sharedMutex \in Processes \cup {None, Dead} /\ crashes \in 0 .. MaxCrashes
    BY DEF TypeOK, HandlerRec, QueueRec, ProcRec
<1>2. \A h \in Blocks : handler[h] \in HandlerRec /\ handler[h].readMsg \in Seq(Blocks)
    BY <1>1 DEF HandlerRec
<1>3. \A q \in Blocks : queue[q] \in QueueRec /\ queue[q].writerId \in Processes
    BY <1>1 DEF QueueRec
<1>4. Used \subseteq Blocks /\ Range(msgHandlerList) \subseteq Blocks /\ Range(msgQueueList) \subseteq Blocks
    BY <1>1, Contents DEF Used
<1>5. \A h \in Blocks : QueuesOf(h) \subseteq Blocks
    BY <1>2, Contents DEF QueuesOf
<1> QED
    BY <1>1, <1>2, <1>3, <1>4, <1>5

\* A service has one handler, which its record names once it is at work.
LEMMA OneHandler ==
  ASSUME MessagesInv, NEW r \in Services, NEW h \in Blocks, Has(r, h)
  PROVE  HandlerOf(r) = h
<1>1. Has(r, HandlerOf(r))
    BY HandlerFound, Vars DEF MessagesInv, Has
<1> QED
    BY <1>1, Names DEF MessagesInv, Found, Has

\* A step that leaves the lists and the writers' ids alone, and moves one process.
LEMMA TableSteady ==
  ASSUME MessagesInv, UNCHANGED <<nodeMsgHandlers, msgHandlerList, msgQueueList, handler>>, TypeOK',
         \A q \in Blocks : queue'[q].writerId = queue[q].writerId,
         NEW a \in Processes, \A b \in Processes \ {a} : proc'[b] = proc[b],
         Sane(a)', Mutex', Accounted',
         proc'[a].pc \in Linked /\ proc'[a].idx # None =>
           proc[a].pc \in Linked /\ proc'[a].kind = proc[a].kind /\ proc'[a].idx = proc[a].idx
  PROVE  MessagesInv'
<1>1. Used' = Used /\ \A h : QueuesOf(h)' = QueuesOf(h) /\ \A r : Has(r, h)' = Has(r, h)
    BY DEF Used, QueuesOf, Has
<1>2. TypeOK /\ Whole /\ Fresh /\ Found /\ (\A b \in Processes : Sane(b)) /\ Apart
    BY DEF MessagesInv
<1>3. Whole'
    BY <1>1, <1>2 DEF Whole
<1>4. Fresh'
    BY <1>1, <1>2 DEF Fresh
<1>5. Found'
    <2>1. Used \subseteq Blocks /\ \A h \in Used : QueuesOf(h) \subseteq Blocks
        BY <1>2, Vars
    <2> QED
        BY <1>1, <1>2, <2>1 DEF Found
<1>6. ASSUME NEW b \in Processes \ {a} PROVE Sane(b)'
    <2>1. Sane(b) /\ proc'[b] = proc[b] /\ proc[b] \in ProcRec
        BY <1>2, Vars
    <2>2. GetsHandler(b)'
        BY <1>1, <2>1 DEF Sane, GetsHandler
    <2>3. GetsQueue(b)'
        <3>1. \A h \in Blocks : QueuesOf(h) \subseteq Blocks
            BY <1>2, Vars
        <3>2. proc[b].idx # None => proc[b].idx \in Blocks
            BY <2>1 DEF ProcRec
        <3> QED
            BY <1>1, <2>1, <3>1, <3>2 DEF Sane, GetsQueue
    <2>4. AtWork(b)'
        BY <1>1, <2>1 DEF Sane, AtWork
    <2>5. Remembers(b)'
        <3>1. \A r \in Receivers : proc[b].msgQueue[r] # None => proc[b].msgQueue[r] \in Blocks
            BY <2>1 DEF ProcRec
        <3> QED
            BY <1>1, <2>1, <3>1 DEF Sane, Remembers
    <2> QED
        BY <2>2, <2>3, <2>4, <2>5 DEF Sane
<1>7. Apart'
    BY <1>2 DEF Apart
<1> QED
    BY <1>3, <1>4, <1>5, <1>6, <1>7 DEF MessagesInv

\* What the lists say depends on nothing else.
LEMMA SameTable ==
  ASSUME UNCHANGED <<nodeMsgHandlers, handler>>
  PROVE  Used' = Used /\ \A h : QueuesOf(h)' = QueuesOf(h) /\ \A r : Has(r, h)' = Has(r, h)
BY DEF Used, QueuesOf, Has

\* What is in no list stays accounted for when nothing moves.
LEMMA AccountSteady ==
  ASSUME MessagesInv, UNCHANGED <<nodeMsgHandlers, msgHandlerList, msgQueueList, handler>>,
         sharedMutex' = Dead <=> sharedMutex = Dead,
         NEW a \in Processes, \A b \in Processes \ {a} : proc'[b] = proc[b],
         proc[a].pc # "link", proc'[a].pc # "link"
  PROVE  Accounted'
<1>1. LostHandlers' = LostHandlers /\ LostQueues' = LostQueues
    BY SameTable DEF LostHandlers, LostQueues, QueuesOf, Used
<1>2. \A k : Moving(k)' = Moving(k)
    BY DEF Moving
<1> QED
    BY <1>1, <1>2 DEF MessagesInv, Accounted

\* A step of a process that neither has the mutex nor gets it, and that leaves the lists alone.
LEMMA FreeStep ==
  ASSUME MessagesInv, UNCHANGED <<nodeMsgHandlers, msgHandlerList, msgQueueList, handler, sharedMutex>>,
         queue' \in [Blocks -> QueueRec], \A q \in Blocks : queue'[q].writerId = queue[q].writerId,
         proc' \in [Processes -> ProcRec], crashes' \in 0 .. MaxCrashes,
         NEW a \in Processes, \A b \in Processes \ {a} : proc'[b] = proc[b],
         proc[a].pc \notin {"unlink", "link", "unlock"}, proc'[a].pc \notin {"unlink", "link", "unlock"},
         Sane(a)',
         proc'[a].pc \in Linked /\ proc'[a].idx # None =>
           proc[a].pc \in Linked /\ proc'[a].kind = proc[a].kind /\ proc'[a].idx = proc[a].idx
  PROVE  MessagesInv'
<1>1. TypeOK'
    BY Vars DEF MessagesInv, TypeOK, QueueRec, ProcRec
<1>2. Accounted'
    BY AccountSteady
<1>3. Mutex'
    BY DEF MessagesInv, Mutex
<1> QED
    BY <1>1, <1>2, <1>3, TableSteady

\* A process that is not getting itself a block owes only its handler, its walk and what it remembers.
LEMMA AtEase ==
  ASSUME NEW a \in Processes, proc[a].pc \in {"off", "idle", "recv"},
         proc[a].pc \in {"idle", "recv"} /\ a # Net => proc[a].msgHandler # None /\ Has(a, proc[a].msgHandler),
         proc[a].pc = "recv" => /\ a # Net /\ proc[a].curQueueIdx # None /\ proc[a].begin # None
                                /\ handler[proc[a].msgHandler].readMsg # <<>>,
         Remembers(a)
  PROVE  Sane(a)
BY DEF Sane, GetsHandler, GetsQueue, AtWork, Asking

\* A start changes its process only: a service that finds a handler finds its own.
LEMMA StartStep == ASSUME MessagesInv, NEW a \in Processes, Start(a) PROVE MessagesInv'
<1>1. /\ proc[a].pc = "off" /\ proc[a] \in ProcRec /\ proc \in [Processes -> ProcRec] /\ Sane(a)
      /\ queue \in [Blocks -> QueueRec] /\ crashes \in 0 .. MaxCrashes /\ nodeMsgHandlers \in Seq(Blocks)
      /\ UNCHANGED <<nodeMsgHandlers, msgHandlerList, msgQueueList, handler, sharedMutex, queue, crashes>>
      /\ Net \in Processes
    BY Vars, Names DEF MessagesInv, Start, At, table
<1>2. Remembers(a) /\ Used \subseteq Blocks
    BY <1>1, Vars DEF Sane, MessagesInv
<1>3. CASE a # Net /\ HandlerOf(a) = None
    <2>1. proc' = [proc EXCEPT ![a].pc = "lock", ![a].kind = "handler", ![a].to = Net]
        BY <1>3 DEF Start, AskFor
    <2>2. proc'[a] = [proc[a] EXCEPT !.pc = "lock", !.kind = "handler", !.to = Net]
          /\ \A b \in Processes \ {a} : proc'[b] = proc[b]
        BY <1>1, <2>1
    <2>3. proc'[a] \in ProcRec /\ proc' \in [Processes -> ProcRec]
        <3>1. proc'[a] \in ProcRec
            BY <1>1, <2>2 DEF ProcRec
        <3> QED
            BY <1>1, <2>1, <2>2, <3>1
    <2>4. proc'[a].pc = "lock" /\ proc'[a].kind = "handler" /\ proc'[a].msgQueue = proc[a].msgQueue
        BY <1>1, <2>2 DEF ProcRec
    <2>5. GetsHandler(a)'
        <3>1. \A h \in Blocks : ~ Has(a, h)
            BY <1>1, <1>3, HandlerFound DEF Has
        <3> QED
            BY <1>1, <1>3, <2>4, <3>1, SameTable DEF GetsHandler, Linked
    <2>6. GetsQueue(a)' /\ AtWork(a)'
        BY <2>4 DEF GetsQueue, AtWork
    <2>7. Remembers(a)'
        BY <1>1, <1>2, <2>4, SameTable DEF Remembers
    <2>8. Sane(a)'
        BY <2>5, <2>6, <2>7 DEF Sane
    <2> QED
        BY <1>1, <2>2, <2>3, <2>4, <2>8, FreeStep DEF Linked
<1>4. CASE ~ (a # Net /\ HandlerOf(a) = None)
    <2> DEFINE h == IF a = Net THEN None ELSE HandlerOf(a)
    <2>1. proc' = [proc EXCEPT ![a].pc = "idle", ![a].msgHandler = h]
        BY <1>4 DEF Start
    <2>2. h \in Blocks \cup {None} /\ (a # Net => h # None /\ Has(a, h))
        BY <1>1, <1>4, HandlerFound
    <2> HIDE DEF h
    <2>3. proc'[a] = [proc[a] EXCEPT !.pc = "idle", !.msgHandler = h]
          /\ \A b \in Processes \ {a} : proc'[b] = proc[b]
        BY <1>1, <2>1
    <2>4. proc'[a] \in ProcRec /\ proc' \in [Processes -> ProcRec]
        BY ZenonT(60), <1>1, <2>1, <2>2, <2>3 DEF ProcRec
    <2>5. proc'[a].pc = "idle" /\ proc'[a].msgHandler = h /\ proc'[a].msgQueue = proc[a].msgQueue
        BY <1>1, <2>3 DEF ProcRec
    <2>6. Remembers(a)'
        BY <1>1, <1>2, <2>5, SameTable DEF Remembers
    <2>7. a # Net => (proc[a].msgHandler # None /\ Has(a, proc[a].msgHandler))'
        BY <1>1, <2>2, <2>5, SameTable DEF Has
    <2>8. Sane(a)'
        BY <2>5, <2>6, <2>7 DEF Sane, GetsHandler, GetsQueue, AtWork, Asking
    <2> QED
        BY <1>1, <2>3, <2>4, <2>5, <2>8, FreeStep DEF Linked
<1> QED
    BY <1>3, <1>4

\* What a sender needs of the queue it writes into and remembers.
LEMMA WriteStep ==
  ASSUME MessagesInv, NEW a \in Processes, NEW r \in Receivers, NEW q \in Blocks, NEW ids \in QueueRec,
         Write(a, r, q, ids), ids.writerId = queue[q].writerId, proc[a].pc \in {"idle", "setReader"},
         a # Net => queue[q].writerId = a /\ \E h \in Blocks : Has(r, h) /\ q \in QueuesOf(h)
  PROVE  MessagesInv'
<1>1. /\ proc[a] \in ProcRec /\ proc \in [Processes -> ProcRec] /\ Sane(a) /\ queue \in [Blocks -> QueueRec]
      /\ crashes \in 0 .. MaxCrashes /\ Net \in Processes
      /\ UNCHANGED <<nodeMsgHandlers, msgHandlerList, msgQueueList, handler, sharedMutex, crashes>>
    BY Vars, Names DEF MessagesInv, Write
<1>2. Remembers(a) /\ AtWork(a)
    BY <1>1 DEF Sane
<1>3. /\ proc' = [proc EXCEPT ![a].pc = "idle", ![a].kind = "none", ![a].to = Net, ![a].idx = None,
                              ![a].msgQueue[r] = q]
      /\ queue' = [queue EXCEPT ![q] = [ids EXCEPT !.len = IF @ < Cap THEN @ + 1 ELSE @]]
    BY DEF Write
<1>4. queue' \in [Blocks -> QueueRec] /\ \A x \in Blocks : queue'[x].writerId = queue[x].writerId
    <2> DEFINE new == [ids EXCEPT !.len = IF @ < Cap THEN @ + 1 ELSE @]
    <2>1. new \in QueueRec /\ new.writerId = queue[q].writerId
        BY BoundsAssumption DEF QueueRec
    <2> HIDE DEF new
    <2>2. queue' = [queue EXCEPT ![q] = new]
        BY <1>3 DEF new
    <2> QED
        BY <1>1, <2>1, <2>2
<1>5. /\ proc'[a] = [proc[a] EXCEPT !.pc = "idle", !.kind = "none", !.to = Net, !.idx = None, !.msgQueue[r] = q]
      /\ \A b \in Processes \ {a} : proc'[b] = proc[b]
    BY <1>1, <1>3
<1>6. /\ proc'[a].pc = "idle" /\ proc'[a].msgHandler = proc[a].msgHandler
      /\ proc'[a].msgQueue = [proc[a].msgQueue EXCEPT ![r] = q] /\ proc'[a].idx = None
    BY <1>1, <1>5 DEF ProcRec
<1>7. proc'[a] \in ProcRec /\ proc' \in [Processes -> ProcRec]
    <2> DEFINE mq == [proc[a].msgQueue EXCEPT ![r] = q]
    <2>1. mq \in [Receivers -> Blocks \cup {None}]
        BY <1>1 DEF ProcRec
    <2>2. proc'[a] = [proc[a] EXCEPT !.pc = "idle", !.kind = "none", !.to = Net, !.idx = None, !.msgQueue = mq]
        BY <1>1, <1>5 DEF ProcRec
    <2> HIDE DEF mq
    <2>3. proc'[a] \in ProcRec
        BY <1>1, <2>1, <2>2 DEF ProcRec
    <2> QED
        BY <1>1, <1>3, <1>5, <2>3
<1>8. Remembers(a)'
    <2> SUFFICES ASSUME NEW x \in Receivers, a # Net, proc'[a].msgQueue[x] # None
                 PROVE  /\ queue'[proc'[a].msgQueue[x]].writerId = a
                        /\ \E h \in Blocks : Has(x, h)' /\ proc'[a].msgQueue[x] \in QueuesOf(h)'
        BY DEF Remembers
    <2>1. CASE x = r
        BY <1>1, <1>4, <1>6, <2>1, SameTable DEF ProcRec
    <2>2. CASE x # r
        <3>1. proc'[a].msgQueue[x] = proc[a].msgQueue[x] /\ proc[a].msgQueue[x] \in Blocks
            BY <1>1, <1>6, <2>2 DEF ProcRec
        <3> QED
            BY <1>1, <1>2, <1>4, <3>1, SameTable DEF Remembers
    <2> QED
        BY <2>1, <2>2
<1>9. a # Net => (proc[a].msgHandler # None /\ Has(a, proc[a].msgHandler))'
    BY <1>1, <1>2, <1>6 DEF AtWork, Has, Used
<1>10. Sane(a)'
    BY <1>6, <1>8, <1>9 DEF Sane, GetsHandler, GetsQueue, AtWork, Asking
<1> QED
    BY <1>1, <1>4, <1>5, <1>6, <1>7, <1>10, FreeStep DEF Linked

\* A package into a remembered queue changes that queue's count only.
LEMMA SendCachedStep == ASSUME MessagesInv, NEW a \in Processes, NEW r \in Receivers, SendCached(a, r) PROVE MessagesInv'
<1> DEFINE q == proc[a].msgQueue[r]
<1>1. proc[a] \in ProcRec /\ queue \in [Blocks -> QueueRec] /\ Remembers(a)
    BY Vars DEF MessagesInv, Sane
<1>2. proc[a].pc = "idle" /\ q # None /\ Write(a, r, q, queue[q])
    BY DEF SendCached, At
<1>3. q \in Blocks
    BY <1>1, <1>2 DEF ProcRec
<1>4. a # Net => queue[q].writerId = a /\ \E h \in Blocks : Has(r, h) /\ q \in QueuesOf(h)
    BY <1>1, <1>2 DEF Remembers
<1>5. queue[q] \in QueueRec
    BY <1>1, <1>3
<1> HIDE DEF q
<1> QED
    BY <1>2, <1>3, <1>4, <1>5, WriteStep

\* A queue found by its writer's id is the one this process has in the receiver's list.
LEMMA SendFirstStep == ASSUME MessagesInv, NEW a \in Processes, NEW r \in Receivers, SendFirst(a, r) PROVE MessagesInv'
<1>1. /\ proc[a] \in ProcRec /\ proc \in [Processes -> ProcRec] /\ queue \in [Blocks -> QueueRec] /\ Sane(a)
      /\ nodeMsgHandlers \in Seq(Blocks) /\ crashes \in 0 .. MaxCrashes /\ r \in Processes
      /\ \A k \in Blocks : handler[k].readMsg \in Seq(Blocks)
    BY Vars, Names DEF MessagesInv
<1>2. proc[a].pc = "idle" /\ proc[a].msgQueue[r] = None /\ HandlerOf(r) # None
    BY DEF SendFirst, At
<1>3. PICK h \in Blocks : h = HandlerOf(r) /\ Has(r, h)
    BY <1>1, <1>2, HandlerFound
<1> DEFINE q == QueueFrom(h, a)
<1>4. \/ q = None /\ \A x \in QueuesOf(h) : queue[x].writerId # a
      \/ q \in Blocks /\ q # None /\ q \in QueuesOf(h) /\ queue[q].writerId = a
    BY <1>1, <1>3, QueueFound
<1>5. CASE q # None
    <2>1. Write(a, r, q, queue[q])
        BY <1>3, <1>5 DEF SendFirst
    <2>2. queue[q] \in QueueRec /\ q \in Blocks /\ queue[q].writerId = a /\ q \in QueuesOf(h)
        BY <1>1, <1>4, <1>5
    <2> HIDE DEF q
    <2> QED
        BY <1>2, <1>3, <2>1, <2>2, WriteStep
<1>6. CASE q = None
    <2>1. /\ proc' = [proc EXCEPT ![a].pc = "lock", ![a].kind = "queue", ![a].to = r]
          /\ UNCHANGED <<nodeMsgHandlers, msgHandlerList, msgQueueList, handler, queue, sharedMutex, crashes>>
        BY <1>3, <1>6 DEF SendFirst, Allocate, AskFor, table
    <2> HIDE DEF q
    <2>2. /\ proc'[a] = [proc[a] EXCEPT !.pc = "lock", !.kind = "queue", !.to = r]
          /\ \A b \in Processes \ {a} : proc'[b] = proc[b]
        BY <1>1, <2>1
    <2>3. /\ proc'[a].pc = "lock" /\ proc'[a].kind = "queue" /\ proc'[a].to = r
          /\ proc'[a].msgQueue = proc[a].msgQueue /\ proc'[a].msgHandler = proc[a].msgHandler
        BY <1>1, <2>2 DEF ProcRec
    <2>4. proc'[a] \in ProcRec /\ proc' \in [Processes -> ProcRec]
        <3>1. proc'[a] \in ProcRec
            BY <1>1, <2>2 DEF ProcRec
        <3> QED
            BY <1>1, <2>1, <2>2, <3>1
    <2>5. GetsQueue(a)'
        <3>1. \A x \in QueuesOf(h) : queue[x].writerId # a
            BY <1>4, <1>6
        <3>2. h \in Blocks /\ Has(r, h)' /\ \A x \in QueuesOf(h)' : queue'[x].writerId # a
            BY <1>3, <2>1, <3>1, SameTable
        <3> QED
            BY <1>2, <2>3, <3>2 DEF GetsQueue, Linked
    <2>6. GetsHandler(a)'
        BY <2>3 DEF GetsHandler
    <2>7. AtWork(a)'
        BY <1>1, <1>2, <2>1, <2>3 DEF Sane, AtWork, Has, Used
    <2>8. Remembers(a)'
        <3>1. \A x \in Receivers : proc[a].msgQueue[x] # None => proc[a].msgQueue[x] \in Blocks
            BY <1>1 DEF ProcRec
        <3> QED
            BY <1>1, <2>1, <2>3, <3>1, SameTable DEF Sane, Remembers
    <2>9. Sane(a)'
        BY <2>5, <2>6, <2>7, <2>8 DEF Sane
    <2> QED
        BY <1>1, <1>2, <2>1, <2>2, <2>3, <2>4, <2>9, FreeStep DEF Linked
<1> QED
    BY <1>5, <1>6

\* The last id of a new queue: from here on the sender remembers it.
LEMMA SetReaderStep == ASSUME MessagesInv, NEW a \in Processes, SetReader(a) PROVE MessagesInv'
<1> DEFINE q == proc[a].idx
           ids == [queue[q] EXCEPT !.readerId = proc[a].to]
<1>1. proc[a] \in ProcRec /\ queue \in [Blocks -> QueueRec] /\ GetsQueue(a) /\ AtWork(a)
    BY Vars DEF MessagesInv, Sane
<1>2. proc[a].pc = "setReader" /\ Write(a, proc[a].to, q, ids)
    BY DEF SetReader, At
<1>3. proc[a].kind = "queue"
    BY <1>1, <1>2 DEF AtWork
<1>4. /\ proc[a].to \in Receivers /\ q # None /\ queue[q].writerId = a
      /\ \E h \in Blocks : Has(proc[a].to, h) /\ q \in QueuesOf(h)
    BY <1>1, <1>2, <1>3 DEF GetsQueue, Linked
<1>5. q \in Blocks /\ proc[a].to \in Processes
    BY <1>1, <1>4 DEF ProcRec
<1>6. ids \in QueueRec /\ ids.writerId = queue[q].writerId
    BY <1>1, <1>5 DEF QueueRec
<1> HIDE DEF q, ids
<1> QED
    BY <1>2, <1>4, <1>5, <1>6, WriteStep

\* The handler of a service at work, and the queues in its list.
LEMMA OwnQueues ==
  ASSUME MessagesInv, NEW s \in Processes \ {Net}, proc[s].pc \in {"idle", "recv"}
  PROVE  /\ proc[s].msgHandler \in Blocks /\ Has(s, proc[s].msgHandler) /\ ReadMsg(s) \in Seq(Blocks)
         /\ ReadMsg(s) # <<>> => Head(ReadMsg(s)) \in Blocks
         /\ \A q : Successor(s, q) \in Blocks \cup {None}
<1>1. proc[s] \in ProcRec /\ AtWork(s) /\ \A h \in Blocks : handler[h].readMsg \in Seq(Blocks)
    BY Vars DEF MessagesInv, Sane
<1>2. proc[s].msgHandler \in Blocks /\ Has(s, proc[s].msgHandler)
    BY <1>1 DEF AtWork, ProcRec
<1>3. ReadMsg(s) \in Seq(Blocks)
    BY <1>1, <1>2 DEF ReadMsg
<1> QED
    BY <1>2, <1>3, HeadTailProperties, BehindBlock DEF Successor

\* The walk begins at the head of its own list, or where it stood, which is still in the list.
LEMMA BeginRecvStep == ASSUME MessagesInv, NEW s \in Processes, BeginRecv(s) PROVE MessagesInv'
<1> DEFINE q == IF proc[s].curQueueIdx = None THEN Head(ReadMsg(s)) ELSE proc[s].curQueueIdx
<1>1. /\ proc[s] \in ProcRec /\ proc \in [Processes -> ProcRec] /\ Sane(s) /\ queue \in [Blocks -> QueueRec]
      /\ crashes \in 0 .. MaxCrashes
    BY Vars DEF MessagesInv
<1>2. /\ proc[s].pc = "idle" /\ s # Net /\ ReadMsg(s) # <<>>
      /\ proc' = [proc EXCEPT ![s].pc = "recv", ![s].curQueueIdx = q, ![s].begin = q]
      /\ UNCHANGED <<nodeMsgHandlers, msgHandlerList, msgQueueList, handler, queue, sharedMutex, crashes>>
    BY Names DEF BeginRecv, At, table
<1>3. q \in Blocks /\ q # None
    <2>1. Head(ReadMsg(s)) \in Blocks
        BY <1>2, OwnQueues
    <2>2. proc[s].curQueueIdx \in Blocks \cup {None}
        BY <1>1 DEF ProcRec
    <2> QED
        BY <2>1, <2>2, Names
<1> HIDE DEF q
<1>4. /\ proc'[s] = [proc[s] EXCEPT !.pc = "recv", !.curQueueIdx = q, !.begin = q]
      /\ \A b \in Processes \ {s} : proc'[b] = proc[b]
    BY <1>1, <1>2
<1>5. /\ proc'[s].pc = "recv" /\ proc'[s].curQueueIdx = q /\ proc'[s].begin = q
      /\ proc'[s].msgHandler = proc[s].msgHandler /\ proc'[s].msgQueue = proc[s].msgQueue
    BY <1>1, <1>4 DEF ProcRec
<1>6. proc'[s] \in ProcRec /\ proc' \in [Processes -> ProcRec]
    <2>1. proc'[s] \in ProcRec
        BY <1>1, <1>3, <1>4 DEF ProcRec
    <2> QED
        BY <1>1, <1>2, <1>4, <2>1
<1>7. Sane(s)'
    <2>1. Remembers(s)'
        BY <1>1, <1>2, <1>5, SameTable DEF Sane, Remembers
    <2>2. AtWork(s)'
        BY <1>1, <1>2, <1>3, <1>5 DEF Sane, AtWork, Asking, Has, Used, ReadMsg
    <2> QED
        BY <1>5, <2>1, <2>2 DEF Sane, GetsHandler, GetsQueue, Asking
<1> QED
    BY <1>1, <1>2, <1>4, <1>5, <1>6, <1>7, FreeStep DEF Linked

\* A package taken: the next walk begins at the queue behind this one, if there is one.
LEMMA TakeStep == ASSUME MessagesInv, NEW s \in Processes, Take(s) PROVE MessagesInv'
<1> DEFINE q == proc[s].curQueueIdx
           n == Successor(s, q)
<1>1. /\ proc[s] \in ProcRec /\ proc \in [Processes -> ProcRec] /\ Sane(s) /\ queue \in [Blocks -> QueueRec]
      /\ crashes \in 0 .. MaxCrashes
    BY Vars DEF MessagesInv
<1>2. /\ proc[s].pc = "recv" /\ queue[q].len > 0
      /\ queue' = [queue EXCEPT ![q].len = @ - 1]
      /\ proc' = [proc EXCEPT ![s].pc = "idle", ![s].begin = None, ![s].curQueueIdx = n]
      /\ UNCHANGED <<nodeMsgHandlers, msgHandlerList, msgQueueList, handler, sharedMutex, crashes>>
    BY DEF Take, At
<1>3. s # Net /\ q \in Blocks
    BY <1>1, <1>2 DEF Sane, AtWork, ProcRec
<1>4. n \in Blocks \cup {None}
    BY <1>2, <1>3, OwnQueues
<1>5. queue' \in [Blocks -> QueueRec] /\ \A x \in Blocks : queue'[x].writerId = queue[x].writerId
    <2> DEFINE new == [queue[q] EXCEPT !.len = @ - 1]
    <2>1. new \in QueueRec /\ new.writerId = queue[q].writerId
        BY <1>1, <1>2, <1>3, BoundsAssumption DEF QueueRec
    <2> HIDE DEF new
    <2>2. queue' = [queue EXCEPT ![q] = new]
        BY <1>2 DEF new
    <2> QED
        BY <1>1, <1>3, <2>1, <2>2
<1> HIDE DEF q, n
<1>6. /\ proc'[s] = [proc[s] EXCEPT !.pc = "idle", !.begin = None, !.curQueueIdx = n]
      /\ \A b \in Processes \ {s} : proc'[b] = proc[b]
    BY <1>1, <1>2
<1>7. proc'[s].pc = "idle" /\ proc'[s].msgHandler = proc[s].msgHandler /\ proc'[s].msgQueue = proc[s].msgQueue
    BY <1>1, <1>6 DEF ProcRec
<1>8. proc'[s] \in ProcRec /\ proc' \in [Processes -> ProcRec]
    <2>1. proc'[s] \in ProcRec
        BY <1>1, <1>4, <1>6 DEF ProcRec
    <2> QED
        BY <1>1, <1>2, <1>6, <2>1
<1>9. Sane(s)'
    <2>1. Remembers(s)'
        <3>1. \A r \in Receivers : proc[s].msgQueue[r] # None => proc[s].msgQueue[r] \in Blocks
            BY <1>1 DEF ProcRec
        <3> QED
            BY <1>1, <1>2, <1>5, <1>7, <3>1, SameTable DEF Sane, Remembers
    <2>2. AtWork(s)'
        BY <1>1, <1>2, <1>3, <1>7 DEF Sane, AtWork, Asking, Has, Used
    <2> QED
        BY <1>7, <2>1, <2>2 DEF Sane, GetsHandler, GetsQueue, Asking
<1> QED
    BY <1>1, <1>2, <1>5, <1>6, <1>7, <1>8, <1>9, FreeStep DEF Linked

\* An empty queue: the walk goes on to the one behind it, or round to the head.
LEMMA SkipStep == ASSUME MessagesInv, NEW s \in Processes, Skip(s) PROVE MessagesInv'
<1> DEFINE q == proc[s].curQueueIdx
           n == IF Successor(s, q) = None THEN Head(ReadMsg(s)) ELSE Successor(s, q)
<1>1. /\ proc[s] \in ProcRec /\ proc \in [Processes -> ProcRec] /\ Sane(s) /\ queue \in [Blocks -> QueueRec]
      /\ crashes \in 0 .. MaxCrashes
    BY Vars DEF MessagesInv
<1>2. /\ proc[s].pc = "recv"
      /\ proc' = [proc EXCEPT ![s].curQueueIdx = n,
                              ![s].pc = IF n = proc[s].begin THEN "idle" ELSE "recv",
                              ![s].begin = IF n = @ THEN None ELSE @]
      /\ UNCHANGED <<nodeMsgHandlers, msgHandlerList, msgQueueList, handler, queue, sharedMutex, crashes>>
    BY DEF Skip, At, table
<1>3. s # Net /\ proc[s].begin # None /\ handler[proc[s].msgHandler].readMsg # <<>>
    BY <1>1, <1>2 DEF Sane, AtWork
<1>4. n \in Blocks /\ n # None
    <2>1. Head(ReadMsg(s)) \in Blocks /\ Successor(s, q) \in Blocks \cup {None}
        BY <1>2, <1>3, OwnQueues DEF ReadMsg
    <2> QED
        BY <2>1, Names
<1> HIDE DEF q, n
<1>5. /\ proc'[s] = [proc[s] EXCEPT !.curQueueIdx = n, !.pc = IF n = proc[s].begin THEN "idle" ELSE "recv",
                                    !.begin = IF n = @ THEN None ELSE @]
      /\ \A b \in Processes \ {s} : proc'[b] = proc[b]
    BY <1>1, <1>2
<1>6. /\ proc'[s].pc = IF n = proc[s].begin THEN "idle" ELSE "recv"
      /\ proc'[s].begin = IF n = proc[s].begin THEN None ELSE proc[s].begin
      /\ proc'[s].curQueueIdx = n
      /\ proc'[s].msgHandler = proc[s].msgHandler /\ proc'[s].msgQueue = proc[s].msgQueue
    BY <1>1, <1>5 DEF ProcRec
<1>7. proc'[s] \in ProcRec /\ proc' \in [Processes -> ProcRec]
    <2>1. proc'[s] \in ProcRec
        BY <1>1, <1>4, <1>5 DEF ProcRec
    <2> QED
        BY <1>1, <1>2, <1>5, <2>1
<1>8. Sane(s)'
    <2>1. Remembers(s)'
        BY <1>1, <1>2, <1>6, SameTable DEF Sane, Remembers
    <2>2. AtWork(s)'
        BY <1>1, <1>2, <1>3, <1>4, <1>6 DEF Sane, AtWork, Asking, Has, Used
    <2> QED
        BY <1>6, <2>1, <2>2 DEF Sane, GetsHandler, GetsQueue, Asking
<1>9. proc[s].pc \notin {"unlink", "link", "unlock"} /\ proc'[s].pc \notin {"unlink", "link", "unlock"} \union Linked
    BY <1>2, <1>6 DEF Linked
<1> QED
    BY <1>1, <1>2, <1>5, <1>7, <1>8, <1>9, FreeStep

-------------------------------------------------------------------------------
\* What moves is what the holder of the mutex moves.
LEMMA OneMoves ==
  ASSUME MessagesInv, NEW a \in Processes, sharedMutex = a
  PROVE  /\ \A k : Moving(k) = IF proc[a].pc = "link" /\ proc[a].kind = k THEN {proc[a].idx} ELSE {}
         /\ \A b \in Processes \ {a} : proc[b].pc \notin {"unlink", "link", "unlock"}
<1>1. \A b \in Processes \ {a} : proc[b].pc \notin {"unlink", "link", "unlock"}
    BY DEF MessagesInv, Mutex
<1> QED
    BY <1>1 DEF Moving

\* A death: what the process held of the table stays, and only a block in its hands can be lost.
LEMMA CrashStep == ASSUME MessagesInv, NEW a \in Processes, Crash(a) PROVE MessagesInv'
<1>1. /\ proc' = [proc EXCEPT ![a] = Off] /\ crashes' = crashes + 1 /\ crashes < MaxCrashes
      /\ sharedMutex' = IF sharedMutex = a THEN Dead ELSE sharedMutex
      /\ UNCHANGED <<nodeMsgHandlers, msgHandlerList, msgQueueList, handler, queue>>
    BY DEF Crash
<1>2. /\ proc \in [Processes -> ProcRec] /\ queue \in [Blocks -> QueueRec] /\ crashes \in 0 .. MaxCrashes
      /\ sharedMutex \in Processes \cup {None, Dead} /\ Mutex /\ Accounted /\ TypeOK
    BY Vars DEF MessagesInv
<1>3. /\ Off \in ProcRec /\ Off.pc = "off" /\ \A r \in Receivers : Off.msgQueue[r] = None
    BY Names DEF Off, ProcRec
<1>4. proc' \in [Processes -> ProcRec] /\ proc'[a] = Off /\ \A b \in Processes \ {a} : proc'[b] = proc[b]
    BY <1>1, <1>2, <1>3
<1>5. crashes' \in 0 .. MaxCrashes
    BY <1>1, <1>2, BoundsAssumption
<1>6. TypeOK'
    BY <1>1, <1>2, <1>4, <1>5 DEF TypeOK, ProcRec
<1>7. Sane(a)'
    BY <1>3, <1>4 DEF Sane, GetsHandler, GetsQueue, AtWork, Remembers, Asking
<1>8. Mutex'
    <2>1. proc'[a].pc = "off" /\ sharedMutex' # a
        BY <1>1, <1>3, <1>4, Names
    <2>2. ASSUME NEW b \in Processes \ {a} PROVE sharedMutex' = b <=> proc'[b].pc \in {"unlink", "link", "unlock"}
        BY <1>1, <1>2, <1>4, Names DEF Mutex
    <2> QED
        BY <2>1, <2>2 DEF Mutex
<1>9. Accounted'
    <2>1. CASE sharedMutex # a
        <3>1. proc[a].pc # "link" /\ proc'[a].pc # "link" /\ (sharedMutex' = Dead <=> sharedMutex = Dead)
            BY <1>1, <1>2, <1>3, <1>4, <2>1 DEF Mutex
        <3> QED
            BY <1>1, <1>4, <3>1, AccountSteady
    <2>2. CASE sharedMutex = a
        <3>1. LostHandlers' = LostHandlers /\ LostQueues' = LostQueues
            BY <1>1 DEF LostHandlers, LostQueues, QueuesOf, Used
        <3>2. sharedMutex' = Dead /\ sharedMutex # Dead
            BY <1>1, <2>2, Names
        <3>3. LostHandlers = Moving("handler") /\ LostQueues = Moving("queue")
            BY <1>2, <3>2 DEF Accounted
        <3> QED
            BY <2>2, <3>1, <3>2, <3>3, OneMoves DEF Accounted
    <2> QED
        BY <2>1, <2>2
<1>10. proc'[a].pc \notin Linked
    BY <1>3, <1>4 DEF Linked
<1> QED
    BY <1>1, <1>4, <1>6, <1>7, <1>8, <1>9, <1>10, TableSteady

\* Getting a block begins with the mutex and the head of the free list.
LEMMA LockStep == ASSUME MessagesInv, NEW a \in Processes, Lock(a) PROVE MessagesInv'
<1>1. PICK kind \in {"handler", "queue"}, list \in {msgHandlerList, msgQueueList} :
        /\ list = IF kind = "handler" THEN msgHandlerList ELSE msgQueueList
        /\ LockFor(a, kind, list)
    BY DEF Lock
<1>2. /\ proc[a].pc = "lock" /\ proc[a].kind = kind /\ sharedMutex = None /\ sharedMutex' = a
      /\ proc' = [proc EXCEPT ![a].pc = IF list = <<>> THEN "unlock" ELSE "unlink", ![a].idx = FirstOf(list)]
      /\ UNCHANGED <<nodeMsgHandlers, msgHandlerList, msgQueueList, handler, queue, crashes>>
    BY <1>1 DEF Lock, LockFor, At
<1>3. /\ proc[a] \in ProcRec /\ proc \in [Processes -> ProcRec] /\ Sane(a) /\ list \in Seq(Blocks)
      /\ queue \in [Blocks -> QueueRec] /\ crashes \in 0 .. MaxCrashes /\ Mutex /\ TypeOK
    BY <1>1, Vars DEF MessagesInv
<1> DEFINE pc == IF list = <<>> THEN "unlock" ELSE "unlink"
           b0 == FirstOf(list)
<1>4. /\ b0 \in Blocks \cup {None}
      /\ pc = "unlock" => b0 = None
      /\ pc = "unlink" => list # <<>> /\ b0 = Head(list)
      /\ pc \in {"unlock", "unlink"}
    BY <1>3, HeadTailProperties DEF FirstOf
<1> HIDE DEF b0, pc
<1>5. /\ proc'[a] = [proc[a] EXCEPT !.pc = pc, !.idx = b0]
      /\ \A b \in Processes \ {a} : proc'[b] = proc[b]
    BY <1>2, <1>3 DEF b0, pc
<1>6. /\ proc'[a].pc = pc /\ proc'[a].idx = b0 /\ proc'[a].kind = kind /\ proc'[a].to = proc[a].to
      /\ proc'[a].msgHandler = proc[a].msgHandler /\ proc'[a].msgQueue = proc[a].msgQueue
    BY <1>2, <1>3, <1>5 DEF ProcRec
<1>7. proc'[a] \in ProcRec /\ proc' \in [Processes -> ProcRec]
    <2>1. proc'[a] \in ProcRec
        BY <1>3, <1>4, <1>5 DEF ProcRec
    <2> QED
        BY <1>2, <1>3, <1>5, <2>1
<1>8. TypeOK'
    BY <1>2, <1>3, <1>7 DEF TypeOK, ProcRec
<1>9. Mutex'
    BY <1>2, <1>3, <1>5, <1>6, Names DEF Mutex
<1>10. Accounted'
    <2>1. proc[a].pc # "link" /\ proc'[a].pc # "link" /\ (sharedMutex' = Dead <=> sharedMutex = Dead)
        BY <1>2, <1>4, <1>6, Names
    <2> QED
        BY <1>2, <1>5, <2>1, AccountSteady
<1>11. Sane(a)'
    <2>1. GetsHandler(a)'
        BY <1>1, <1>2, <1>3, <1>4, <1>6, SameTable DEF Sane, GetsHandler, Asking, Linked
    <2>2. GetsQueue(a)'
        BY ZenonT(60), <1>1, <1>2, <1>3, <1>4, <1>6, SameTable DEF Sane, GetsQueue, Asking, Linked
    <2>3. AtWork(a)'
        BY <1>1, <1>2, <1>3, <1>6, SameTable DEF Sane, AtWork, Asking, Has, Used
    <2>4. Remembers(a)'
        BY <1>2, <1>3, <1>6, SameTable DEF Sane, Remembers
    <2> QED
        BY <2>1, <2>2, <2>3, <2>4 DEF Sane
<1>12. proc'[a].pc \in Linked => proc'[a].idx = None
    BY <1>4, <1>6 DEF Linked
<1> QED
    BY <1>2, <1>5, <1>8, <1>9, <1>10, <1>11, <1>12, TableSteady

\* Getting a block ends with the mutex given back, whether there was one or not.
LEMMA UnlockStep == ASSUME MessagesInv, NEW a \in Processes, Unlock(a) PROVE MessagesInv'
<1>1. /\ proc[a].pc = "unlock" /\ sharedMutex' = None /\ proc' = [proc EXCEPT ![a] = After(a)]
      /\ UNCHANGED <<nodeMsgHandlers, msgHandlerList, msgQueueList, handler, queue, crashes>>
    BY DEF Unlock, At
<1>2. /\ proc[a] \in ProcRec /\ proc \in [Processes -> ProcRec] /\ Sane(a)
      /\ queue \in [Blocks -> QueueRec] /\ crashes \in 0 .. MaxCrashes /\ Mutex /\ TypeOK
    BY Vars DEF MessagesInv
<1>3. sharedMutex = a
    BY <1>1, <1>2 DEF Mutex
<1>4. /\ Off \in ProcRec /\ Off.pc = "off" /\ Off.idx = None /\ \A r \in Receivers : Off.msgQueue[r] = None
    BY Names DEF Off, ProcRec
<1>5. After(a) \in ProcRec
    <2>1. [proc[a] EXCEPT !.pc = "setIds"] \in ProcRec
        BY <1>2 DEF ProcRec
    <2>2. [proc[a] EXCEPT !.pc = "idle", !.kind = "none", !.to = Net] \in ProcRec
        BY <1>2, Names DEF ProcRec
    <2> QED
        BY <1>4, <2>1, <2>2 DEF After
<1>6. proc' \in [Processes -> ProcRec] /\ proc'[a] = After(a) /\ \A b \in Processes \ {a} : proc'[b] = proc[b]
    BY <1>1, <1>2, <1>5
<1>7. TypeOK'
    BY <1>1, <1>2, <1>6 DEF TypeOK, ProcRec
<1>8. proc[a].kind \in {"handler", "queue"}
    BY <1>1, <1>2 DEF Sane, AtWork, Asking
<1>9. \/ /\ proc[a].idx # None /\ proc'[a] = [proc[a] EXCEPT !.pc = "setIds"]
      \/ /\ proc[a].idx = None /\ proc'[a] = Off
      \/ /\ proc[a].idx = None /\ proc[a].kind = "queue"
         /\ proc'[a] = [proc[a] EXCEPT !.pc = "idle", !.kind = "none", !.to = Net]
    BY <1>6, <1>8 DEF After
<1>10. proc'[a].pc \in {"setIds", "off", "idle"}
    BY <1>2, <1>4, <1>9 DEF ProcRec
<1>11. Mutex'
    <2>1. \A b \in Processes \ {a} : proc[b].pc \notin {"unlink", "link", "unlock"} /\ b # None
        BY <1>3, OneMoves, Names
    <2> QED
        BY <1>1, <1>6, <1>10, <2>1, Names DEF Mutex
<1>12. Accounted'
    <2>1. proc[a].pc # "link" /\ proc'[a].pc # "link" /\ (sharedMutex' = Dead <=> sharedMutex = Dead)
        BY <1>1, <1>3, <1>10, Names
    <2> QED
        BY <1>1, <1>6, <2>1, AccountSteady
<1>13. Sane(a)'
    <2>1. CASE proc[a].idx # None /\ proc'[a] = [proc[a] EXCEPT !.pc = "setIds"]
        <3>1. /\ proc'[a].pc = "setIds" /\ proc'[a].idx = proc[a].idx /\ proc'[a].kind = proc[a].kind
              /\ proc'[a].to = proc[a].to /\ proc'[a].msgHandler = proc[a].msgHandler
              /\ proc'[a].msgQueue = proc[a].msgQueue
            BY <1>2, <2>1 DEF ProcRec
        <3>2. GetsHandler(a)'
            BY <1>1, <1>2, <2>1, <3>1, SameTable DEF Sane, GetsHandler, Asking, Linked, Has, Used
        <3>3. GetsQueue(a)'
            BY <1>1, <1>2, <2>1, <3>1, SameTable DEF Sane, GetsQueue, Asking, Linked
        <3>4. AtWork(a)'
            BY <1>1, <1>2, <3>1, SameTable DEF Sane, AtWork, Asking, Has, Used
        <3>5. Remembers(a)'
            BY <1>1, <1>2, <3>1, SameTable DEF Sane, Remembers
        <3> QED
            BY <3>2, <3>3, <3>4, <3>5 DEF Sane
    <2>2. CASE proc'[a] = Off
        BY <1>4, <2>2 DEF Sane, GetsHandler, GetsQueue, AtWork, Remembers, Asking
    <2>3. CASE proc[a].kind = "queue" /\ proc'[a] = [proc[a] EXCEPT !.pc = "idle", !.kind = "none", !.to = Net]
        <3>1. /\ proc'[a].pc = "idle" /\ proc'[a].msgHandler = proc[a].msgHandler
              /\ proc'[a].msgQueue = proc[a].msgQueue
            BY <1>2, <2>3 DEF ProcRec
        <3>2. AtWork(a)'
            BY <1>1, <1>2, <2>3, <3>1, SameTable DEF Sane, AtWork, Asking, Has, Used
        <3>3. Remembers(a)'
            BY <1>1, <1>2, <3>1, SameTable DEF Sane, Remembers
        <3> QED
            BY <3>1, <3>2, <3>3 DEF Sane, GetsHandler, GetsQueue, Asking
    <2> QED
        BY <1>9, <2>1, <2>2, <2>3
<1>14. proc'[a].pc \in Linked => proc'[a].kind = proc[a].kind /\ proc'[a].idx = proc[a].idx
    BY ZenonT(60), <1>2, <1>4, <1>9 DEF Linked, ProcRec
<1> QED
    BY <1>1, <1>6, <1>7, <1>11, <1>12, <1>13, <1>14, TableSteady DEF Linked

-------------------------------------------------------------------------------
\* The types after a step.
LEMMA TypedAfter ==
  ASSUME nodeMsgHandlers' \in Seq(Blocks), msgHandlerList' \in Seq(Blocks), msgQueueList' \in Seq(Blocks),
         handler' \in [Blocks -> HandlerRec], queue' \in [Blocks -> QueueRec], proc' \in [Processes -> ProcRec],
         sharedMutex' \in Processes \cup {None, Dead}, crashes' \in 0 .. MaxCrashes
  PROVE  TypeOK'
BY DEF TypeOK, HandlerRec, QueueRec, ProcRec

\* What moves after a step of a when nobody else has the mutex.
LEMMA MovesAfter ==
  ASSUME NEW a \in Processes, \A b \in Processes \ {a} : proc'[b].pc # "link"
  PROVE  \A k : Moving(k)' = IF proc'[a].pc = "link" /\ proc'[a].kind = k THEN {proc'[a].idx} ELSE {}
<1> SUFFICES ASSUME NEW k
             PROVE  Moving(k)' = IF proc'[a].pc = "link" /\ proc'[a].kind = k THEN {proc'[a].idx} ELSE {}
    OBVIOUS
<1>1. Moving(k)' = {proc'[b].idx : b \in {p \in Processes : proc'[p].pc = "link" /\ proc'[p].kind = k}}
    BY DEF Moving
<1>2. {p \in Processes : proc'[p].pc = "link" /\ proc'[p].kind = k}
        = IF proc'[a].pc = "link" /\ proc'[a].kind = k THEN {a} ELSE {}
    OBVIOUS
<1> QED
    BY <1>1, <1>2

\* Nobody else's block is the one that a has got.
LEMMA ApartAfter ==
  ASSUME Apart, NEW a \in Processes, \A b \in Processes \ {a} : proc'[b] = proc[b],
         proc'[a].pc \in Linked /\ proc'[a].idx # None =>
           \A b \in Processes \ {a} : proc[b].pc \in Linked /\ proc[b].kind = proc'[a].kind => proc[b].idx # proc'[a].idx
  PROVE  Apart'
<1> SUFFICES ASSUME NEW b \in Processes, NEW c \in Processes, b # c, {proc'[b].pc, proc'[c].pc} \subseteq Linked,
                    proc'[b].kind = proc'[c].kind, proc'[b].idx # None
             PROVE  proc'[b].idx # proc'[c].idx
    BY DEF Apart, Linked
<1>1. proc'[b].pc \in Linked /\ proc'[c].pc \in Linked
    OBVIOUS
<1>2. CASE b = a
    BY <1>1, <1>2
<1>3. CASE c = a
    BY <1>1, <1>3
<1>4. CASE b # a /\ c # a
    BY <1>1, <1>4 DEF Apart
<1> QED
    BY <1>2, <1>3, <1>4

\* A block is taken off its free list.
LEMMA UnlinkStep == ASSUME MessagesInv, NEW a \in Processes, Unlink(a) PROVE MessagesInv'
<1>1. /\ proc[a].pc = "unlink" /\ proc' = [proc EXCEPT ![a].pc = "link"]
      /\ IF proc[a].kind = "handler"
           THEN msgHandlerList' = Behind(msgHandlerList, proc[a].idx) /\ UNCHANGED msgQueueList
           ELSE msgQueueList' = Behind(msgQueueList, proc[a].idx) /\ UNCHANGED msgHandlerList
      /\ UNCHANGED <<nodeMsgHandlers, handler, queue, sharedMutex, crashes>>
    BY DEF Unlink, At, GoTo
<1>2. /\ proc[a] \in ProcRec /\ proc \in [Processes -> ProcRec] /\ Sane(a) /\ Mutex /\ TypeOK
      /\ msgHandlerList \in Seq(Blocks) /\ msgQueueList \in Seq(Blocks)
      /\ Whole /\ Accounted /\ Used \subseteq Blocks /\ \A h \in Blocks : QueuesOf(h) \subseteq Blocks
    BY Vars DEF MessagesInv
<1>3. sharedMutex = a /\ a # Dead
    BY <1>1, <1>2, Names DEF Mutex
<1>4. /\ LostHandlers = {} /\ LostQueues = {}
      /\ \A b \in Processes \ {a} : proc[b].pc \notin {"unlink", "link", "unlock"}
    BY <1>1, <1>2, <1>3, OneMoves DEF Accounted
<1>5. proc[a].kind \in {"handler", "queue"}
    BY <1>1, <1>2 DEF Sane, AtWork, Asking
<1>6. /\ proc'[a] = [proc[a] EXCEPT !.pc = "link"] /\ \A b \in Processes \ {a} : proc'[b] = proc[b]
    BY <1>1, <1>2
<1>7. /\ proc'[a].pc = "link" /\ proc'[a].idx = proc[a].idx /\ proc'[a].kind = proc[a].kind
      /\ proc'[a].to = proc[a].to /\ proc'[a].msgHandler = proc[a].msgHandler
      /\ proc'[a].msgQueue = proc[a].msgQueue
    BY <1>2, <1>6 DEF ProcRec
<1>8. proc' \in [Processes -> ProcRec]
    <2>1. proc'[a] \in ProcRec
        BY <1>2, <1>6 DEF ProcRec
    <2> QED
        BY <1>1, <1>2, <1>6, <2>1
<1>9. Used' = Used /\ \A h : QueuesOf(h)' = QueuesOf(h) /\ \A r : Has(r, h)' = Has(r, h)
    BY <1>1, SameTable
<1>10. /\ proc[a].idx \in Blocks /\ proc[a].idx # None
       /\ proc[a].kind = "handler" => /\ msgHandlerList' \in Seq(Blocks) /\ IsInjective(msgHandlerList')
                                      /\ Range(msgHandlerList) = {proc[a].idx} \cup Range(msgHandlerList')
                                      /\ proc[a].idx \notin Range(msgHandlerList')
       /\ proc[a].kind = "queue" => /\ msgQueueList' \in Seq(Blocks) /\ IsInjective(msgQueueList')
                                    /\ Range(msgQueueList) = {proc[a].idx} \cup Range(msgQueueList')
                                    /\ proc[a].idx \notin Range(msgQueueList')
    <2>1. CASE proc[a].kind = "handler"
        <3>1. msgHandlerList # <<>> /\ proc[a].idx = Head(msgHandlerList)
            BY <1>1, <1>2, <2>1 DEF Sane, GetsHandler, Asking
        <3>2. msgHandlerList' = Tail(msgHandlerList)
            BY <1>1, <1>2, <2>1, <3>1, BehindBlock
        <3> QED
            BY <1>2, <2>1, <3>1, <3>2, TakenOff, Names DEF Whole
    <2>2. CASE proc[a].kind = "queue"
        <3>1. msgQueueList # <<>> /\ proc[a].idx = Head(msgQueueList)
            BY <1>1, <1>2, <2>2 DEF Sane, GetsQueue, Asking
        <3>2. msgQueueList' = Tail(msgQueueList)
            BY <1>1, <1>2, <2>2, <3>1, BehindBlock
        <3> QED
            BY <1>2, <2>2, <3>1, <3>2, TakenOff, Names DEF Whole
    <2> QED
        BY <1>5, <2>1, <2>2
<1>11. TypeOK'
    <2>1. msgHandlerList' \in Seq(Blocks) /\ msgQueueList' \in Seq(Blocks)
        BY <1>1, <1>2, <1>5, <1>10
    <2> QED
        BY <1>1, <1>2, <1>8, <2>1, Vars, TypedAfter
<1>12. Whole'
    <2>1. \A h \in Blocks : handler'[h] = handler[h]
        BY <1>1
    <2> QED
        BY <1>1, <1>2, <1>5, <1>9, <1>10, <2>1 DEF Whole
<1>13. Mutex'
    BY <1>1, <1>2, <1>3, <1>4, <1>6, <1>7 DEF Mutex
<1>14. Accounted'
    <2>1. \A k : Moving(k)' = IF k = proc[a].kind THEN {proc[a].idx} ELSE {}
        <3>1. \A b \in Processes \ {a} : proc'[b].pc # "link"
            BY <1>4, <1>6
        <3>2. \A k : Moving(k)' = IF proc'[a].pc = "link" /\ proc'[a].kind = k THEN {proc'[a].idx} ELSE {}
            BY <3>1, MovesAfter
        <3> QED
            BY <1>7, <3>2
    <2>2. LostHandlers' = IF proc[a].kind = "handler" THEN {proc[a].idx} ELSE {}
        BY <1>1, <1>2, <1>4, <1>5, <1>9, <1>10 DEF LostHandlers, Whole
    <2>3. LostQueues' = IF proc[a].kind = "queue" THEN {proc[a].idx} ELSE {}
        BY <1>1, <1>2, <1>4, <1>5, <1>9, <1>10 DEF LostQueues, Whole
    <2> QED
        BY <1>1, <1>3, <1>5, <2>1, <2>2, <2>3 DEF Accounted
<1>15. Fresh' /\ Found'
    <2>1. Fresh /\ Found /\ \A q \in Blocks : queue'[q] = queue[q] /\ handler'[q] = handler[q]
        BY <1>1 DEF MessagesInv
    <2> QED
        BY <1>1, <1>2, <1>9, <2>1 DEF Fresh, Found
<1>16. ASSUME NEW b \in Processes PROVE Sane(b)'
    <2>1. Sane(b) /\ proc[b] \in ProcRec
        BY Vars DEF MessagesInv
    <2>2. GetsHandler(b)'
        BY <1>1, <1>4, <1>6, <1>7, <1>9, <1>10, <2>1 DEF Sane, GetsHandler, Asking, Linked
    <2>3. GetsQueue(b)'
        BY <1>1, <1>4, <1>6, <1>7, <1>9, <1>10, <2>1 DEF Sane, GetsQueue, Asking, Linked
    <2>4. AtWork(b)'
        BY <1>1, <1>6, <1>7, <1>9, <2>1 DEF Sane, AtWork, Asking, Has
    <2>5. Remembers(b)'
        BY <1>1, <1>6, <1>7, <1>9, <2>1 DEF Sane, Remembers
    <2> QED
        BY <2>2, <2>3, <2>4, <2>5 DEF Sane
<1>17. Apart'
    <2>1. Apart /\ proc'[a].pc \notin Linked
        BY <1>7 DEF MessagesInv, Linked
    <2> QED
        BY <1>6, <2>1, ApartAfter
<1> QED
    BY <1>11, <1>12, <1>13, <1>14, <1>15, <1>16, <1>17 DEF MessagesInv

\* A handler is put into the node's list.
LEMMA LinkHandlerStep ==
  ASSUME MessagesInv, NEW a \in Processes, Link(a), proc[a].kind = "handler" PROVE MessagesInv'
<1> PICK i : i = proc[a].idx
    OBVIOUS
<1>1. /\ proc[a].pc = "link" /\ proc' = [proc EXCEPT ![a].pc = "unlock"]
      /\ nodeMsgHandlers' = <<i>> \o nodeMsgHandlers
      /\ UNCHANGED <<msgHandlerList, msgQueueList, handler, queue, sharedMutex, crashes>>
    BY DEF Link, At, GoTo
<1>2. /\ proc[a] \in ProcRec /\ proc \in [Processes -> ProcRec] /\ Sane(a) /\ Mutex /\ TypeOK
      /\ nodeMsgHandlers \in Seq(Blocks)
      /\ Whole /\ Accounted /\ Fresh /\ Found /\ Used \subseteq Blocks /\ \A h \in Blocks : QueuesOf(h) \subseteq Blocks
    BY Vars DEF MessagesInv
<1>3. sharedMutex = a /\ a # Dead
    BY <1>1, <1>2, Names DEF Mutex
<1>4. /\ LostHandlers = {i} /\ LostQueues = {}
      /\ \A b \in Processes \ {a} : proc[b].pc \notin {"unlink", "link", "unlock"}
    BY <1>1, <1>2, <1>3, OneMoves DEF Accounted
<1>5. i \in Blocks /\ i \notin Used /\ i \notin Range(msgHandlerList) /\ i # None
      /\ handler[i].readerId = Net /\ handler[i].readMsg = <<>>
    BY <1>2, <1>4, Names DEF LostHandlers, Fresh
<1>6. /\ proc'[a] = [proc[a] EXCEPT !.pc = "unlock"] /\ \A b \in Processes \ {a} : proc'[b] = proc[b]
    BY <1>1, <1>2
<1>7. /\ proc'[a].pc = "unlock" /\ proc'[a].idx = i /\ proc'[a].kind = "handler"
      /\ proc'[a].to = proc[a].to /\ proc'[a].msgHandler = proc[a].msgHandler
      /\ proc'[a].msgQueue = proc[a].msgQueue
    BY <1>2, <1>6 DEF ProcRec
<1>8. proc' \in [Processes -> ProcRec]
    <2>1. proc'[a] \in ProcRec
        BY <1>2, <1>6 DEF ProcRec
    <2> QED
        BY <1>1, <1>2, <1>6, <2>1
<1>9. nodeMsgHandlers' \in Seq(Blocks) /\ Used' = {i} \cup Used /\ IsInjective(nodeMsgHandlers')
    BY <1>1, <1>2, <1>5, InFront DEF Used, Whole
<1>10. \A h : QueuesOf(h)' = QueuesOf(h)
    BY <1>1 DEF QueuesOf
<1>11. \A r, h : Has(r, h)' <=> Has(r, h) \/ (h = i /\ r = Net)
    BY <1>1, <1>5, <1>9 DEF Has
<1>12. QueuesOf(i) = {}
    <2>1. Len(handler[i].readMsg) = 0 /\ handler[i].readMsg \in Seq(Blocks)
        BY <1>5, Vars DEF MessagesInv
    <2> QED
        BY <2>1, Contents DEF QueuesOf
<1>13. TypeOK'
    BY <1>1, <1>2, <1>8, <1>9, Vars, TypedAfter
<1>14. Whole'
    BY <1>1, <1>2, <1>5, <1>9, <1>10 DEF Whole
<1>15. Mutex'
    BY <1>1, <1>2, <1>3, <1>4, <1>6, <1>7 DEF Mutex
<1>16. Accounted'
    <2>1. \A k : Moving(k)' = {}
        <3>1. \A b \in Processes \ {a} : proc'[b].pc # "link"
            BY <1>4, <1>6
        <3>2. \A k : Moving(k)' = IF proc'[a].pc = "link" /\ proc'[a].kind = k THEN {proc'[a].idx} ELSE {}
            BY <3>1, MovesAfter
        <3> QED
            BY <1>7, <3>2
    <2>2. LostHandlers' = {}
        BY <1>1, <1>4, <1>9 DEF LostHandlers
    <2>3. LostQueues' = {}
        BY <1>1, <1>4, <1>10 DEF LostQueues
    <2> QED
        BY <1>1, <1>3, <2>1, <2>2, <2>3 DEF Accounted
<1>17. Fresh'
    BY <1>1, <1>2, <1>9, <1>10 DEF Fresh
<1>18. Found'
    BY ZenonT(60), <1>1, <1>2, <1>5, <1>9, <1>10, <1>12 DEF Found
<1>19. ASSUME NEW b \in Processes PROVE Sane(b)'
    <2>1. Sane(b) /\ proc[b] \in ProcRec
        BY Vars DEF MessagesInv
    <2>2. GetsHandler(b)'
        BY <1>1, <1>4, <1>5, <1>6, <1>7, <1>11, <2>1 DEF Sane, GetsHandler, Asking, Linked
    <2>3. GetsQueue(b)'
        BY <1>1, <1>4, <1>6, <1>7, <1>10, <1>11, <2>1 DEF Sane, GetsQueue, Asking, Linked
    <2>4. AtWork(b)'
        BY <1>1, <1>6, <1>7, <1>9, <2>1 DEF Sane, AtWork, Asking, Has
    <2>5. Remembers(b)'
        BY <1>1, <1>6, <1>7, <1>10, <1>11, <2>1 DEF Sane, Remembers
    <2> QED
        BY <2>2, <2>3, <2>4, <2>5 DEF Sane
<1>20. Apart'
    <2>1. \A b \in Processes \ {a} : proc[b].pc \in Linked /\ proc[b].kind = "handler" => proc[b].idx # i
        <3> SUFFICES ASSUME NEW b \in Processes \ {a}, proc[b].pc \in Linked, proc[b].kind = "handler", proc[b].idx = i
                     PROVE  FALSE
            OBVIOUS
        <3>1. Sane(b)
            BY DEF MessagesInv
        <3>2. proc[b].pc = "setIds"
            BY <1>4, <3>1 DEF Sane, AtWork, Linked
        <3>3. Has(Net, i)
            BY <1>5, <3>1, <3>2 DEF Sane, GetsHandler, Asking, Linked
        <3> QED
            BY <1>5, <3>3 DEF Has
    <2> QED
        <3>1. \A b \in Processes \ {a} : proc[b].pc \in Linked /\ proc[b].kind = proc'[a].kind => proc[b].idx # proc'[a].idx
            BY <1>7, <2>1
        <3> QED
            BY <1>6, <3>1, ApartAfter DEF MessagesInv
<1> QED
    BY <1>13, <1>14, <1>15, <1>16, <1>17, <1>18, <1>19, <1>20 DEF MessagesInv

\* A queue is put into the list of its receiver's handler.
LEMMA LinkQueueStep ==
  ASSUME MessagesInv, NEW a \in Processes, Link(a), proc[a].kind = "queue" PROVE MessagesInv'
<1> PICK i : i = proc[a].idx
    OBVIOUS
<1> PICK to : to = proc[a].to
    OBVIOUS
<1>1. /\ proc[a].pc = "link" /\ proc' = [proc EXCEPT ![a].pc = "unlock"]
      /\ handler' = [handler EXCEPT ![HandlerOf(to)].readMsg = <<i>> \o @]
      /\ UNCHANGED <<nodeMsgHandlers, msgHandlerList, msgQueueList, queue, sharedMutex, crashes>>
    BY DEF Link, At, GoTo
<1>2. /\ proc[a] \in ProcRec /\ proc \in [Processes -> ProcRec] /\ Sane(a) /\ Mutex /\ TypeOK
      /\ nodeMsgHandlers \in Seq(Blocks) /\ handler \in [Blocks -> HandlerRec]
      /\ \A h \in Blocks : handler[h].readMsg \in Seq(Blocks)
      /\ Whole /\ Accounted /\ Fresh /\ Found /\ Used \subseteq Blocks /\ \A h \in Blocks : QueuesOf(h) \subseteq Blocks
    BY Vars DEF MessagesInv
<1>3. sharedMutex = a /\ a # Dead
    BY <1>1, <1>2, Names DEF Mutex
<1>4. /\ LostHandlers = {} /\ LostQueues = {i}
      /\ \A b \in Processes \ {a} : proc[b].pc \notin {"unlink", "link", "unlock"}
    BY <1>1, <1>2, <1>3, OneMoves DEF Accounted
<1>5. /\ i \in Blocks /\ i \notin Range(msgQueueList) /\ i # None /\ queue[i].writerId = Net
      /\ \A h \in Blocks : i \notin QueuesOf(h)
    BY <1>2, <1>4, Names DEF LostQueues, Fresh
<1>6. /\ to \in Receivers /\ proc[a].msgQueue[to] = None
      /\ \E h \in Blocks : Has(to, h) /\ (a # Net => \A q \in QueuesOf(h) : queue[q].writerId # a)
    BY <1>1, <1>2 DEF Sane, GetsQueue, Asking
<1>7. PICK h \in Blocks : h = HandlerOf(to) /\ Has(to, h) /\ (a # Net => \A q \in QueuesOf(h) : queue[q].writerId # a)
    BY <1>6, OneHandler, Names
<1>8. /\ proc'[a] = [proc[a] EXCEPT !.pc = "unlock"] /\ \A b \in Processes \ {a} : proc'[b] = proc[b]
    BY <1>1, <1>2
<1>9. /\ proc'[a].pc = "unlock" /\ proc'[a].idx = i /\ proc'[a].kind = "queue"
      /\ proc'[a].to = to /\ proc'[a].msgHandler = proc[a].msgHandler
      /\ proc'[a].msgQueue = proc[a].msgQueue
    BY <1>2, <1>8 DEF ProcRec
<1>10. proc' \in [Processes -> ProcRec]
    <2>1. proc'[a] \in ProcRec
        BY <1>2, <1>8 DEF ProcRec
    <2> QED
        BY <1>1, <1>2, <1>8, <2>1
<1> DEFINE l == <<i>> \o handler[h].readMsg
<1>11. /\ l \in Seq(Blocks) /\ Range(l) = {i} \cup QueuesOf(h) /\ IsInjective(l) /\ l # <<>>
    BY <1>2, <1>5, InFront DEF QueuesOf, Whole
<1> PICK list : list = l
    OBVIOUS
<1> HIDE DEF l
<1>12. handler' = [handler EXCEPT ![h].readMsg = list]
    BY <1>1, <1>7 DEF l
<1>13. /\ handler' \in [Blocks -> HandlerRec]
       /\ handler'[h].readMsg = list /\ handler'[h].readerId = handler[h].readerId
       /\ \A k \in Blocks \ {h} : handler'[k] = handler[k]
    BY <1>2, <1>11, <1>12 DEF HandlerRec
<1>14. /\ Used' = Used /\ QueuesOf(h)' = {i} \cup QueuesOf(h)
       /\ \A k \in Blocks \ {h} : QueuesOf(k)' = QueuesOf(k)
    BY <1>1, <1>11, <1>13 DEF Used, QueuesOf
<1>15. \A r : \A k \in Blocks : Has(r, k)' = Has(r, k)
    BY <1>13, <1>14 DEF Has
<1>16. TypeOK'
    BY <1>1, <1>2, <1>10, <1>13, Vars, TypedAfter
<1>17. Whole'
    <2>1. \A k \in Blocks : IsInjective(handler'[k].readMsg)
        BY <1>2, <1>11, <1>13 DEF Whole
    <2>2. \A k \in Blocks : Range(msgQueueList) \cap QueuesOf(k)' = {}
        BY <1>2, <1>5, <1>14 DEF Whole
    <2>3. \A k, m \in Blocks : k # m => QueuesOf(k)' \cap QueuesOf(m)' = {}
        BY <1>2, <1>5, <1>14 DEF Whole
    <2> QED
        BY <1>1, <1>2, <1>14, <2>1, <2>2, <2>3 DEF Whole
<1>18. Mutex'
    BY <1>1, <1>2, <1>3, <1>4, <1>8, <1>9 DEF Mutex
<1>19. Accounted'
    <2>1. \A k : Moving(k)' = {}
        <3>1. \A b \in Processes \ {a} : proc'[b].pc # "link"
            BY <1>4, <1>8
        <3>2. \A k : Moving(k)' = IF proc'[a].pc = "link" /\ proc'[a].kind = k THEN {proc'[a].idx} ELSE {}
            BY <3>1, MovesAfter
        <3> QED
            BY <1>9, <3>2
    <2>2. LostHandlers' = {}
        BY <1>1, <1>4, <1>14 DEF LostHandlers
    <2>3. LostQueues' = {}
        BY <1>1, <1>4, <1>14 DEF LostQueues
    <2> QED
        BY <1>1, <1>3, <2>1, <2>2, <2>3 DEF Accounted
<1>20. Fresh'
    <2>1. \A k \in Blocks : k \notin Used' => k # h
        BY <1>7, <1>14 DEF Has
    <2>2. \A q \in Blocks : (\A k \in Blocks : q \notin QueuesOf(k)') => \A k \in Blocks : q \notin QueuesOf(k)
        BY <1>14
    <2> QED
        BY <1>1, <1>2, <1>13, <1>14, <2>1, <2>2 DEF Fresh
<1>21. Found'
    <2>1. \A k, m \in Used : handler'[k].readerId = handler'[m].readerId /\ handler'[k].readerId # Net => k = m
        BY <1>2, <1>13 DEF Found
    <2>2. \A k \in Used : \A q, p \in QueuesOf(k)' : queue[q].writerId = queue[p].writerId /\ queue[q].writerId # Net => q = p
        BY <1>2, <1>5, <1>14 DEF Found
    <2> QED
        BY <1>1, <1>14, <2>1, <2>2 DEF Found
<1>22. ASSUME NEW b \in Processes PROVE Sane(b)'
    <2>1. Sane(b) /\ proc[b] \in ProcRec
        BY Vars DEF MessagesInv
    <2>2. GetsHandler(b)'
        <3>1. proc[b].idx # None => proc[b].idx \in Blocks
            BY <2>1 DEF ProcRec
        <3>2. CASE b = a
            BY <1>9, <3>2 DEF GetsHandler
        <3>3. CASE b # a
            BY <1>1, <1>8, <1>15, <2>1, <3>1, <3>3 DEF Sane, GetsHandler, Asking, Linked
        <3> QED
            BY <3>2, <3>3
    <2>3. GetsQueue(b)'
        <3>1. CASE b = a
            <4>1. i \in QueuesOf(h)' /\ Has(to, h)' /\ (a # Net => \A q \in QueuesOf(h)' : queue'[q].writerId # a)
                BY <1>1, <1>5, <1>7, <1>14, <1>15
            <4>2. queue'[i].writerId = Net
                BY <1>1, <1>5
            <4> QED
                BY <1>6, <1>9, <3>1, <4>1, <4>2 DEF GetsQueue, Asking, Linked
        <3>2. CASE b # a
            <4> SUFFICES ASSUME proc[b].pc \in Asking \cup {"setReader"}, proc[b].kind = "queue"
                         PROVE  GetsQueue(b)'
                BY <1>8, <3>2 DEF GetsQueue
            <4>1. PICK k \in Blocks :
                    /\ Has(proc[b].to, k)
                    /\ proc[b].pc \in Asking /\ b # Net => \A q \in QueuesOf(k) : queue[q].writerId # b
                    /\ proc[b].pc \in Linked /\ proc[b].idx # None => proc[b].idx \in QueuesOf(k)
                BY <2>1 DEF Sane, GetsQueue
            <4>2. /\ Has(proc[b].to, k)'
                  /\ proc[b].pc \in Asking /\ b # Net => \A q \in QueuesOf(k)' : queue'[q].writerId # b
                  /\ proc[b].pc \in Linked /\ proc[b].idx # None => proc[b].idx \in QueuesOf(k)'
                <5>1. \A q \in QueuesOf(k)' : q \in QueuesOf(k) \/ q = i
                    BY <1>14
                <5>2. QueuesOf(k) \subseteq QueuesOf(k)'
                    BY <1>14
                <5>3. Has(proc[b].to, k)'
                    BY <1>8, <1>13, <1>14, <3>2, <4>1 DEF Has
                <5> QED
                    BY <1>1, <1>5, <4>1, <5>1, <5>2, <5>3
            <4>3. /\ proc[b].to \in Receivers /\ proc[b].msgQueue[proc[b].to] = None
                  /\ proc[b].pc = "unlink" => msgQueueList # <<>> /\ proc[b].idx = Head(msgQueueList)
                  /\ proc[b].pc \in {"link", "setIds", "setReader"} => proc[b].idx # None
                  /\ proc[b].pc \in {"unlock", "setIds"} /\ proc[b].idx # None => queue[proc[b].idx].writerId = Net
                  /\ proc[b].pc = "setReader" => queue[proc[b].idx].writerId = b
                BY <2>1 DEF Sane, GetsQueue
            <4> QED
                BY <1>1, <1>8, <3>2, <4>2, <4>3 DEF GetsQueue, Has
        <3> QED
            BY <3>1, <3>2
    <2>4. AtWork(b)'
        <3>1. proc[b].msgHandler # None => proc[b].msgHandler \in Blocks
            BY <2>1 DEF ProcRec
        <3>2. \A k \in Blocks : handler[k].readMsg # <<>> => handler'[k].readMsg # <<>>
            BY <1>11, <1>13
        <3>3. /\ proc'[b].msgHandler = proc[b].msgHandler /\ proc'[b].kind = proc[b].kind
              /\ proc'[b].curQueueIdx = proc[b].curQueueIdx /\ proc'[b].begin = proc[b].begin
              /\ IF b = a THEN proc'[b].pc = "unlock" /\ proc[b].pc = "link" ELSE proc'[b].pc = proc[b].pc
            BY <1>1, <1>2, <1>8, <1>9 DEF ProcRec
        <3>4. \A k \in Blocks : Has(b, k) => Has(b, k)'
            BY <1>15
        <3>5. AtWork(b)
            BY <2>1 DEF Sane
        <3>6. proc[b].pc = "recv" => proc[b].msgHandler \in Blocks
            BY <3>1, <3>5 DEF AtWork
        <3> QED
            BY <3>1, <3>2, <3>3, <3>4, <3>5, <3>6 DEF AtWork, Asking, Has
    <2>5. Remembers(b)'
        <3>1. proc'[b].msgQueue = proc[b].msgQueue
            BY <1>8, <1>9
        <3>2. \A k \in Blocks : QueuesOf(k) \subseteq QueuesOf(k)'
            BY <1>14
        <3> QED
            BY <1>1, <1>15, <2>1, <3>1, <3>2 DEF Sane, Remembers
    <2> QED
        BY <2>2, <2>3, <2>4, <2>5 DEF Sane
<1>23. Apart'
    <2>1. \A b \in Processes \ {a} : proc[b].pc \in Linked /\ proc[b].kind = "queue" => proc[b].idx # i
        <3> SUFFICES ASSUME NEW b \in Processes \ {a}, proc[b].pc \in Linked, proc[b].kind = "queue", proc[b].idx = i
                     PROVE  FALSE
            OBVIOUS
        <3>1. Sane(b)
            BY DEF MessagesInv
        <3>2. \E k \in Blocks : i \in QueuesOf(k)
            BY <1>5, <3>1 DEF Sane, GetsQueue, Asking, Linked
        <3> QED
            BY <1>5, <3>2
    <2>2. \A b \in Processes \ {a} : proc[b].pc \in Linked /\ proc[b].kind = proc'[a].kind => proc[b].idx # proc'[a].idx
        BY <1>9, <2>1
    <2> QED
        BY <1>8, <2>2, ApartAfter DEF MessagesInv
<1> QED
    BY <1>16, <1>17, <1>18, <1>19, <1>20, <1>21, <1>22, <1>23 DEF MessagesInv

\* The block in hand, which is in no list, is put in front of the list it was taken for.
LEMMA LinkStep == ASSUME MessagesInv, NEW a \in Processes, Link(a) PROVE MessagesInv'
<1>1. proc[a].pc = "link" /\ AtWork(a)
    BY DEF MessagesInv, Sane, Link, At
<1>2. proc[a].kind \in {"handler", "queue"}
    BY <1>1 DEF AtWork, Asking
<1> QED
    BY <1>2, LinkHandlerStep, LinkQueueStep

-------------------------------------------------------------------------------
\* A service writes its id into the handler it has got.
LEMMA SetHandlerReaderStep == ASSUME MessagesInv, NEW s \in Processes, SetHandlerReader(s) PROVE MessagesInv'
<1> PICK i : i = proc[s].idx
    OBVIOUS
<1>1. /\ proc[s].pc = "setIds" /\ proc[s].kind = "handler" /\ handler' = [handler EXCEPT ![i].readerId = s]
      /\ proc' = [proc EXCEPT ![s].pc = "idle", ![s].kind = "none", ![s].idx = None, ![s].msgHandler = i]
      /\ UNCHANGED <<nodeMsgHandlers, msgHandlerList, msgQueueList, queue, sharedMutex, crashes>>
    BY DEF SetHandlerReader, At
<1>2. /\ proc[s] \in ProcRec /\ proc \in [Processes -> ProcRec] /\ Sane(s) /\ Mutex /\ TypeOK
      /\ handler \in [Blocks -> HandlerRec]
      /\ Whole /\ Accounted /\ Fresh /\ Found /\ Used \subseteq Blocks /\ \A h \in Blocks : QueuesOf(h) \subseteq Blocks
    BY Vars DEF MessagesInv
<1>3. s # Net /\ (\A h \in Blocks : ~ Has(s, h)) /\ i # None /\ Has(Net, i)
    BY <1>1, <1>2 DEF Sane, GetsHandler, Asking, Linked
<1>4. i \in Blocks /\ i \in Used /\ handler[i].readerId = Net
    BY <1>2, <1>3 DEF Has
<1>5. /\ proc'[s] = [proc[s] EXCEPT !.pc = "idle", !.kind = "none", !.idx = None, !.msgHandler = i]
      /\ \A b \in Processes \ {s} : proc'[b] = proc[b]
    BY <1>1, <1>2
<1>6. /\ proc'[s].pc = "idle" /\ proc'[s].msgHandler = i /\ proc'[s].msgQueue = proc[s].msgQueue
    BY <1>2, <1>5 DEF ProcRec
<1>7. proc' \in [Processes -> ProcRec]
    <2>1. proc'[s] \in ProcRec
        BY <1>2, <1>4, <1>5 DEF ProcRec
    <2> QED
        BY <1>1, <1>2, <1>5, <2>1
<1>8. /\ handler' \in [Blocks -> HandlerRec]
      /\ handler'[i].readerId = s /\ handler'[i].readMsg = handler[i].readMsg
      /\ \A k \in Blocks \ {i} : handler'[k] = handler[k]
    BY <1>1, <1>2, <1>4 DEF HandlerRec
<1>9. /\ \A k \in Blocks : handler'[k].readMsg = handler[k].readMsg
      /\ Used' = Used /\ \A k \in Blocks : QueuesOf(k)' = QueuesOf(k)
    BY <1>1, <1>8 DEF Used, QueuesOf
<1>10. /\ \A r : \A k \in Blocks \ {i} : Has(r, k)' = Has(r, k)
       /\ Has(s, i)' /\ \A r : r # Net => ~ Has(r, i)
    BY <1>3, <1>4, <1>8, <1>9 DEF Has
<1>11. TypeOK'
    BY <1>1, <1>2, <1>7, <1>8, Vars, TypedAfter
<1>12. Whole'
    BY <1>1, <1>2, <1>9 DEF Whole
<1>13. Mutex'
    BY <1>1, <1>2, <1>5, <1>6 DEF Mutex
<1>14. Accounted'
    <2>1. LostHandlers' = LostHandlers /\ LostQueues' = LostQueues
        BY <1>1, <1>9 DEF LostHandlers, LostQueues
    <2>2. \A k : Moving(k)' = Moving(k)
        <3>1. proc[s].pc # "link" /\ proc'[s].pc # "link"
            BY <1>1, <1>6
        <3> QED
            <4> SUFFICES ASSUME NEW k PROVE Moving(k)' = Moving(k)
                OBVIOUS
            <4>1. {p \in Processes : proc'[p].pc = "link" /\ proc'[p].kind = k}
                    = {p \in Processes : proc[p].pc = "link" /\ proc[p].kind = k}
                BY <1>5, <3>1
            <4>2. \A p \in Processes : proc[p].pc = "link" => proc'[p] = proc[p]
                BY <1>5, <3>1
            <4> QED
                BY <4>1, <4>2 DEF Moving
    <2> QED
        BY <1>1, <1>2, <2>1, <2>2 DEF Accounted
<1>15. Fresh'
    <2>1. \A k \in Blocks : k \notin Used => handler'[k] = handler[k]
        BY <1>4, <1>8
    <2> QED
        BY ZenonT(60), <1>1, <1>2, <1>9, <2>1 DEF Fresh
<1>16. Found'
    <2>1. \A k \in Used : handler[k].readerId # s
        BY <1>2, <1>3 DEF Has
    <2>2. \A k, m \in Used : handler'[k].readerId = handler'[m].readerId /\ handler'[k].readerId # Net => k = m
        BY <1>2, <1>8, <2>1 DEF Found
    <2>3. \A h \in Used : \A q, p \in QueuesOf(h)' : queue[q].writerId = queue[p].writerId /\ queue[q].writerId # Net => q = p
        BY <1>2, <1>9 DEF Found
    <2> QED
        BY <1>1, <1>9, <2>2, <2>3 DEF Found
<1>17. \A r : \A k \in Blocks : r # Net /\ Has(r, k) => Has(r, k)'
    BY <1>10
<1>18. ASSUME NEW b \in Processes \ {s} PROVE Sane(b)'
    <2>1. Sane(b) /\ proc[b] \in ProcRec /\ proc'[b] = proc[b]
        BY <1>5, Vars DEF MessagesInv
    <2>2. GetsHandler(b)'
        <3> SUFFICES ASSUME proc[b].pc \in Asking, proc[b].kind = "handler" PROVE GetsHandler(b)'
            BY <2>1 DEF GetsHandler
        <3>1. b # Net /\ \A h \in Blocks : ~ Has(b, h)
            BY <2>1 DEF Sane, GetsHandler
        <3>2. \A h \in Blocks : ~ Has(b, h)'
            BY <1>4, <1>8, <1>10, <3>1 DEF Has
        <3>3. proc[b].pc \in Linked /\ proc[b].idx # None => Has(Net, proc[b].idx)'
            <4> SUFFICES ASSUME proc[b].pc \in Linked, proc[b].idx # None PROVE Has(Net, proc[b].idx)'
                OBVIOUS
            <4>1. Has(Net, proc[b].idx) /\ proc[b].idx \in Blocks
                BY <2>1 DEF Sane, GetsHandler, ProcRec
            <4>2. proc[b].idx # i
                BY <1>1 DEF MessagesInv, Apart, Linked
            <4> QED
                BY <1>8, <1>9, <2>1, <4>1, <4>2 DEF Has
        <3> QED
            BY <1>1, <2>1, <3>1, <3>2, <3>3 DEF Sane, GetsHandler
    <2>3. GetsQueue(b)'
        <3> SUFFICES ASSUME proc[b].pc \in Asking \cup {"setReader"}, proc[b].kind = "queue"
                     PROVE  GetsQueue(b)'
            BY <2>1 DEF GetsQueue
        <3>1. proc[b].to \in Receivers /\ proc[b].to # Net
            BY <2>1, Names DEF Sane, GetsQueue
        <3>2. PICK k \in Blocks :
                /\ Has(proc[b].to, k)
                /\ proc[b].pc \in Asking /\ b # Net => \A q \in QueuesOf(k) : queue[q].writerId # b
                /\ proc[b].pc \in Linked /\ proc[b].idx # None => proc[b].idx \in QueuesOf(k)
            BY <2>1 DEF Sane, GetsQueue
        <3>3. Has(proc[b].to, k)'
            BY <1>4, <1>8, <1>9, <2>1, <3>1, <3>2 DEF Has
        <3>4. QueuesOf(k)' = QueuesOf(k)
            BY <1>9
        <3> QED
            BY <1>1, <2>1, <3>2, <3>3, <3>4 DEF Sane, GetsQueue, Has
    <2>4. AtWork(b)'
        <3>1. proc[b].msgHandler # None => proc[b].msgHandler \in Blocks
            BY <2>1 DEF ProcRec
        <3>2. \A k \in Blocks : b # Net /\ Has(b, k) => Has(b, k)'
            BY <1>17
        <3>3. proc[b].pc = "recv" => proc[b].msgHandler \in Blocks
            BY <2>1, <3>1 DEF Sane, AtWork
        <3> QED
            BY <1>9, <2>1, <3>1, <3>2, <3>3 DEF Sane, AtWork, Has
    <2>5. Remembers(b)'
        <3>1. \A r \in Receivers : \A k \in Blocks : Has(r, k) => Has(r, k)'
            BY <1>17, Names
        <3> QED
            BY <1>1, <1>9, <2>1, <3>1 DEF Sane, Remembers
    <2> QED
        BY <2>2, <2>3, <2>4, <2>5 DEF Sane
<1>19. Sane(s)'
    <2>1. Remembers(s)'
        <3>1. \A r \in Receivers : \A k \in Blocks : Has(r, k) => Has(r, k)'
            BY <1>17, Names
        <3> QED
            BY <1>1, <1>2, <1>6, <1>9, <3>1 DEF Sane, Remembers
    <2>2. (proc[s].msgHandler # None /\ Has(s, proc[s].msgHandler))'
        BY <1>3, <1>4, <1>6, <1>8, <1>9 DEF Has
    <2> QED
        BY <1>6, <2>1, <2>2 DEF Sane, GetsHandler, GetsQueue, AtWork, Asking
<1>20. Apart'
    BY <1>5, <1>6, ApartAfter DEF MessagesInv, Linked
<1> QED
    BY <1>11, <1>12, <1>13, <1>14, <1>15, <1>16, <1>18, <1>19, <1>20 DEF MessagesInv

\* A sender writes its id into the queue it has got.
LEMMA SetWriterStep == ASSUME MessagesInv, NEW a \in Processes, SetWriter(a) PROVE MessagesInv'
<1> PICK i : i = proc[a].idx
    OBVIOUS
<1>1. /\ proc[a].pc = "setIds" /\ proc[a].kind = "queue" /\ queue' = [queue EXCEPT ![i].writerId = a]
      /\ proc' = [proc EXCEPT ![a].pc = "setReader"]
      /\ UNCHANGED <<nodeMsgHandlers, msgHandlerList, msgQueueList, handler, sharedMutex, crashes>>
    BY DEF SetWriter, At, GoTo
<1>2. /\ proc[a] \in ProcRec /\ proc \in [Processes -> ProcRec] /\ Sane(a) /\ Mutex /\ TypeOK
      /\ queue \in [Blocks -> QueueRec]
      /\ Whole /\ Accounted /\ Fresh /\ Found /\ Used \subseteq Blocks /\ \A h \in Blocks : QueuesOf(h) \subseteq Blocks
    BY Vars DEF MessagesInv
<1>3. /\ proc[a].to \in Receivers /\ proc[a].msgQueue[proc[a].to] = None /\ i # None /\ queue[i].writerId = Net
      /\ \E h \in Blocks : Has(proc[a].to, h) /\ i \in QueuesOf(h) /\ (a # Net => \A q \in QueuesOf(h) : queue[q].writerId # a)
    BY <1>1, <1>2 DEF Sane, GetsQueue, Asking, Linked
<1>4. PICK h \in Blocks : /\ Has(proc[a].to, h) /\ i \in QueuesOf(h)
                          /\ a # Net => \A q \in QueuesOf(h) : queue[q].writerId # a
    BY <1>3
<1>5. i \in Blocks
    BY <1>2, <1>4
<1>6. /\ proc'[a] = [proc[a] EXCEPT !.pc = "setReader"] /\ \A b \in Processes \ {a} : proc'[b] = proc[b]
    BY <1>1, <1>2
<1>7. /\ proc'[a].pc = "setReader" /\ proc'[a].idx = i /\ proc'[a].kind = "queue"
      /\ proc'[a].to = proc[a].to /\ proc'[a].msgHandler = proc[a].msgHandler
      /\ proc'[a].msgQueue = proc[a].msgQueue
    BY <1>1, <1>2, <1>6 DEF ProcRec
<1>8. proc' \in [Processes -> ProcRec]
    <2>1. proc'[a] \in ProcRec
        BY <1>2, <1>6 DEF ProcRec
    <2> QED
        BY <1>1, <1>2, <1>6, <2>1
<1>9. /\ queue' \in [Blocks -> QueueRec] /\ queue'[i].writerId = a
      /\ \A q \in Blocks \ {i} : queue'[q] = queue[q]
    BY <1>1, <1>2, <1>5 DEF QueueRec
<1>10. Used' = Used /\ \A k : QueuesOf(k)' = QueuesOf(k) /\ \A r : Has(r, k)' = Has(r, k)
    BY <1>1, SameTable
<1>11. TypeOK'
    BY <1>1, <1>2, <1>8, <1>9, Vars, TypedAfter
<1>12. Whole'
    BY <1>1, <1>2, <1>10 DEF Whole
<1>13. Mutex'
    BY <1>1, <1>2, <1>6, <1>7 DEF Mutex
<1>14. Accounted'
    BY <1>1, <1>6, <1>7, AccountSteady
<1>15. Fresh'
    BY <1>1, <1>2, <1>4, <1>9, <1>10 DEF Fresh
<1>16. Found'
    <2>1. \A k \in Used : k # h => i \notin QueuesOf(k)
        BY <1>2, <1>4 DEF Whole
    <2>2. \A k \in Used : \A q, p \in QueuesOf(k) : queue'[q].writerId = queue'[p].writerId /\ queue'[q].writerId # Net => q = p
        BY <1>2, <1>4, <1>9, <2>1 DEF Found
    <2> QED
        BY <1>1, <1>2, <1>10, <2>2 DEF Found
<1>17. ASSUME NEW b \in Processes \ {a} PROVE Sane(b)'
    <2>1. Sane(b) /\ proc[b] \in ProcRec /\ proc'[b] = proc[b]
        BY <1>6, Vars DEF MessagesInv
    <2>2. GetsHandler(b)'
        BY <1>1, <1>10, <2>1 DEF Sane, GetsHandler
    <2>3. GetsQueue(b)'
        <3> SUFFICES ASSUME proc[b].pc \in Asking \cup {"setReader"}, proc[b].kind = "queue"
                     PROVE  GetsQueue(b)'
            BY <2>1 DEF GetsQueue
        <3>1. PICK k \in Blocks :
                /\ Has(proc[b].to, k)
                /\ proc[b].pc \in Asking /\ b # Net => \A q \in QueuesOf(k) : queue[q].writerId # b
                /\ proc[b].pc \in Linked /\ proc[b].idx # None => proc[b].idx \in QueuesOf(k)
            BY <2>1 DEF Sane, GetsQueue
        <3>2. proc[b].pc \in Asking /\ b # Net => \A q \in QueuesOf(k) : queue'[q].writerId # b
            BY <1>2, <1>9, <3>1
        <3>3. proc[b].pc \in Linked /\ proc[b].idx # None => proc[b].idx # i
            BY <1>1 DEF MessagesInv, Apart, Linked
        <3>4. proc[b].pc \in Linked /\ proc[b].idx # None => queue'[proc[b].idx] = queue[proc[b].idx]
            BY <1>2, <1>9, <3>1, <3>3
        <3>5. Has(proc[b].to, k)' /\ QueuesOf(k)' = QueuesOf(k)
            BY <1>1, <1>10, <2>1, <3>1 DEF Has, Used
        <3>6. /\ proc[b].to \in Receivers /\ proc[b].msgQueue[proc[b].to] = None
              /\ proc[b].pc = "unlink" => msgQueueList # <<>> /\ proc[b].idx = Head(msgQueueList)
              /\ proc[b].pc \in {"link", "setIds", "setReader"} => proc[b].idx # None
              /\ proc[b].pc \in {"unlock", "setIds"} /\ proc[b].idx # None => queue[proc[b].idx].writerId = Net
              /\ proc[b].pc = "setReader" => queue[proc[b].idx].writerId = b
            BY <2>1 DEF Sane, GetsQueue
        <3>7. /\ proc[b].pc \in {"unlock", "setIds"} /\ proc[b].idx # None => queue'[proc[b].idx].writerId = Net
              /\ proc[b].pc = "setReader" => queue'[proc[b].idx].writerId = b
            BY <3>4, <3>6 DEF Linked
        <3>8. \E x \in Blocks :
                /\ Has(proc[b].to, x)'
                /\ proc'[b].pc \in Asking /\ b # Net => \A q \in QueuesOf(x)' : queue'[q].writerId # b
                /\ proc'[b].pc \in Linked /\ proc'[b].idx # None => proc'[b].idx \in QueuesOf(x)'
            BY <2>1, <3>1, <3>2, <3>5
        <3> QED
            BY <1>1, <2>1, <3>6, <3>7, <3>8 DEF GetsQueue
    <2>4. AtWork(b)'
        BY <1>1, <1>10, <2>1 DEF Sane, AtWork, Has
    <2>5. Remembers(b)'
        <3>1. \A r \in Receivers : b # Net /\ proc[b].msgQueue[r] # None =>
                proc[b].msgQueue[r] \in Blocks /\ proc[b].msgQueue[r] # i
            BY <1>3, <2>1 DEF Sane, Remembers, ProcRec
        <3> QED
            BY <1>9, <1>10, <2>1, <3>1 DEF Sane, Remembers
    <2> QED
        BY <2>2, <2>3, <2>4, <2>5 DEF Sane
<1>18. Sane(a)'
    <2>1. GetsHandler(a)'
        BY <1>7 DEF GetsHandler
    <2>2. GetsQueue(a)'
        <3>1. (Has(proc[a].to, h) /\ i \in QueuesOf(h))'
            BY <1>1, <1>4, <1>7, <1>10 DEF Has
        <3> QED
            BY <1>3, <1>7, <1>9, <3>1 DEF GetsQueue, Asking
    <2>3. AtWork(a)'
        BY <1>1, <1>2, <1>7, <1>10 DEF Sane, AtWork, Asking, Has
    <2>4. Remembers(a)'
        <3>1. \A r \in Receivers : a # Net /\ proc[a].msgQueue[r] # None =>
                proc[a].msgQueue[r] \in Blocks /\ proc[a].msgQueue[r] # i
            BY <1>2, <1>3 DEF Sane, Remembers, ProcRec
        <3> QED
            BY <1>2, <1>7, <1>9, <1>10, <3>1 DEF Sane, Remembers
    <2> QED
        BY <2>1, <2>2, <2>3, <2>4 DEF Sane
<1>19. Apart'
    <2>1. \A b \in Processes \ {a} : proc[b].pc \in Linked /\ proc[b].kind = proc'[a].kind => proc[b].idx # proc'[a].idx
        BY <1>1, <1>3, <1>7 DEF MessagesInv, Apart, Linked
    <2> QED
        BY <1>6, <2>1, ApartAfter DEF MessagesInv
<1> QED
    BY <1>11, <1>12, <1>13, <1>14, <1>15, <1>16, <1>17, <1>18, <1>19 DEF MessagesInv

-------------------------------------------------------------------------------
\* In the beginning all blocks are free and nobody is at work.
LEMMA InitHolds == Init => MessagesInv
<1> SUFFICES ASSUME Init PROVE MessagesInv
    OBVIOUS
<1> DEFINE all == [i \in Blocks |-> i]
<1>1. /\ nodeMsgHandlers = <<>> /\ msgHandlerList = all /\ msgQueueList = all
      /\ handler = [h \in Blocks |-> [readerId |-> Net, readMsg |-> <<>>]]
      /\ queue = [q \in Blocks |-> [writerId |-> Net, readerId |-> Net, len |-> 0]]
      /\ sharedMutex = None /\ proc = [a \in Processes |-> Off] /\ crashes = 0
    BY DEF Init
<1>2. all \in Seq(Blocks) /\ Range(all) = Blocks /\ IsInjective(all)
    <2>1. ShmCount \in Nat /\ Blocks = 1 .. ShmCount
        BY BoundsAssumption DEF Blocks
    <2>2. all \in [1 .. ShmCount -> Blocks]
        BY <2>1
    <2>3. all \in Seq(Blocks)
        BY <2>1, <2>2, SeqDef
    <2> QED
        BY <2>3 DEF Range, IsInjective
<1> HIDE DEF all
<1>3. /\ <<>> \in Seq(Blocks) /\ Range(<<>>) = {}
    <2>1. <<>> \in Seq(Blocks) /\ Len(<<>>) = 0
        OBVIOUS
    <2> DEFINE e == <<>>
    <2>2. e \in Seq(Blocks) /\ Len(e) = 0
        BY <2>1
    <2> HIDE DEF e
    <2>3. \A x : x \notin Range(e)
        <3>1. \A x : x \in Range(e) <=> \E i \in 1 .. Len(e) : e[i] = x
            BY ZenonT(60), <2>2, Contents
        <3> QED
            BY <2>2, <3>1
    <2>4. Range(e) = {}
        BY <2>3
    <2> QED
        BY <2>1, <2>4 DEF e
<1>4. IsInjective(<<>>)
    BY DEF IsInjective
<1>5. /\ Off \in ProcRec /\ Off.pc = "off" /\ \A r \in Receivers : Off.msgQueue[r] = None
    BY Names DEF Off, ProcRec
<1>6. /\ \A a \in Processes : proc[a] = Off
      /\ \A h \in Blocks : handler[h] = [readerId |-> Net, readMsg |-> <<>>] /\ QueuesOf(h) = {}
      /\ \A q \in Blocks : queue[q].writerId = Net
      /\ Used = {}
    BY <1>1, <1>3 DEF QueuesOf, Used
<1>7. TypeOK
    <2>1. handler \in [Blocks -> HandlerRec]
        BY <1>1, <1>3, Names DEF HandlerRec
    <2>2. queue \in [Blocks -> QueueRec]
        BY <1>1, Names, BoundsAssumption DEF QueueRec
    <2>3. proc \in [Processes -> ProcRec]
        BY <1>1, <1>5
    <2>4. crashes \in 0 .. MaxCrashes
        BY <1>1, BoundsAssumption
    <2> QED
        BY <1>1, <1>2, <1>3, <2>1, <2>2, <2>3, <2>4 DEF TypeOK, HandlerRec, QueueRec, ProcRec
<1>8. Whole
    BY <1>1, <1>2, <1>4, <1>6 DEF Whole
<1>9. Accounted
    <2>1. LostHandlers = {} /\ LostQueues = {}
        BY <1>1, <1>2 DEF LostHandlers, LostQueues
    <2>2. \A k : Moving(k) = {}
        BY <1>5, <1>6 DEF Moving
    <2> QED
        BY <1>1, <2>1, <2>2, Names DEF Accounted
<1>10. Mutex
    BY <1>1, <1>5, <1>6, Names DEF Mutex
<1>11. Fresh /\ Found
    BY <1>6 DEF Fresh, Found
<1>12. ASSUME NEW a \in Processes PROVE Sane(a)
    BY <1>5, <1>6 DEF Sane, GetsHandler, GetsQueue, AtWork, Remembers, Asking
<1>13. Apart
    BY <1>5, <1>6 DEF Apart, Linked
<1> QED
    BY <1>7, <1>8, <1>9, <1>10, <1>11, <1>12, <1>13 DEF MessagesInv

\* Every step of every process keeps the invariant.
LEMMA NextHolds == MessagesInv /\ [Next]_vars => MessagesInv'
<1> SUFFICES ASSUME MessagesInv, [Next]_vars PROVE MessagesInv'
    OBVIOUS
<1>1. CASE UNCHANGED vars
    <2>1. PICK a : a \in Processes
        BY Names
    <2>2. /\ UNCHANGED <<nodeMsgHandlers, msgHandlerList, msgQueueList, handler, queue, sharedMutex, proc, crashes>>
        BY <1>1 DEF vars, table
    <2>3. TypeOK' /\ Mutex' /\ Accounted' /\ Sane(a)'
        <3>1. TypeOK /\ Mutex /\ Accounted /\ Sane(a)
            BY <2>1 DEF MessagesInv
        <3>2. TypeOK' /\ Mutex'
            BY <2>2, <3>1 DEF TypeOK, Mutex
        <3>3. Accounted'
            BY <2>2, <3>1 DEF Accounted, LostHandlers, LostQueues, Moving, QueuesOf, Used
        <3>4. Sane(a)'
            BY <2>2, <3>1 DEF Sane, GetsHandler, GetsQueue, AtWork, Remembers, Has, Used, QueuesOf
        <3> QED
            BY <3>2, <3>3, <3>4
    <2> QED
        BY <2>1, <2>2, <2>3, TableSteady
<1>2. ASSUME NEW a \in Processes, Start(a) \/ Crash(a) \/ Lock(a) \/ Step(a) \/ BeginRecv(a) PROVE MessagesInv'
    <2>1. CASE Start(a)
        BY <2>1, StartStep
    <2>2. CASE Crash(a)
        BY <2>2, CrashStep
    <2>3. CASE Lock(a)
        BY <2>3, LockStep
    <2>4. CASE BeginRecv(a)
        BY <2>4, BeginRecvStep
    <2>5. CASE Unlink(a)
        BY <2>5, UnlinkStep
    <2>6. CASE Link(a)
        BY <2>6, LinkStep
    <2>7. CASE Unlock(a)
        BY <2>7, UnlockStep
    <2>8. CASE SetHandlerReader(a)
        BY <2>8, SetHandlerReaderStep
    <2>9. CASE SetWriter(a)
        BY <2>9, SetWriterStep
    <2>10. CASE SetReader(a)
        BY <2>10, SetReaderStep
    <2>11. CASE Take(a)
        BY <2>11, TakeStep
    <2>12. CASE Skip(a)
        BY <2>12, SkipStep
    <2> QED
        BY <1>2, <2>1, <2>2, <2>3, <2>4, <2>5, <2>6, <2>7, <2>8, <2>9, <2>10, <2>11, <2>12 DEF Step
<1>3. ASSUME NEW a \in Processes, NEW r \in Receivers, SendCached(a, r) \/ SendFirst(a, r) PROVE MessagesInv'
    BY <1>3, SendCachedStep, SendFirstStep
<1> QED
    BY <1>1, <1>2, <1>3 DEF Next

\* No block of the shared memory is in two lists, none is lost but the one that is being moved or was
\* when the holder of the mutex died, and every id names the process it should: the invariant behind
\* addHandlerToNode, addQueueToHandler and the searches before them.
THEOREM MessagesIsInvariant == Spec => []MessagesInv
<1>1. Init => MessagesInv
    BY InitHolds
<1>2. MessagesInv /\ [Next]_vars => MessagesInv'
    BY NextHolds
<1> QED
    BY <1>1, <1>2, PTL DEF Spec

\* What is in no list is in the hands of the holder of the mutex, or was when it died.
LEMMA OwnedOnceHolds == MessagesInv => BlocksOwnedOnce
<1> SUFFICES ASSUME MessagesInv PROVE BlocksOwnedOnce
    OBVIOUS
<1> DEFINE moving == {<<proc[a].kind, proc[a].idx>> : a \in {p \in Processes : At(p, "link")}}
           missing == ({"handler"} \X NotIn(handlerLists)) \cup ({"queue"} \X NotIn(queueLists))
<1>1. Whole /\ Accounted /\ Mutex /\ \A a \in Processes : AtWork(a)
    BY DEF MessagesInv, Sane
<1>2. None \notin Blocks /\ Dead \notin Processes
    BY Names
<1>3. OnceIn(handlerLists) /\ NotIn(handlerLists) = LostHandlers
    <2>1. DOMAIN handlerLists = {"free", "used"} /\ handlerLists["free"] = msgHandlerList
          /\ handlerLists["used"] = nodeMsgHandlers
        BY DEF handlerLists
    <2>2. OnceIn(handlerLists)
        BY <1>1, <2>1 DEF OnceIn, Whole, Used
    <2>3. NotIn(handlerLists) = LostHandlers
        BY <2>1 DEF NotIn, LostHandlers, Used
    <2> QED
        BY <2>2, <2>3
<1>4. OnceIn(queueLists) /\ NotIn(queueLists) = LostQueues
    <2>1. /\ DOMAIN queueLists = Blocks \cup {None} /\ queueLists[None] = msgQueueList
          /\ \A h \in Blocks : queueLists[h] = handler[h].readMsg /\ h # None
        BY <1>2 DEF queueLists
    <2>2. \A h \in Blocks \cup {None} : IsInjective(queueLists[h])
        BY <1>1, <2>1 DEF Whole
    <2>3. \A h, k \in Blocks \cup {None} : h # k => Range(queueLists[h]) \cap Range(queueLists[k]) = {}
        BY <1>1, <2>1 DEF Whole, QueuesOf
    <2>4. OnceIn(queueLists)
        BY <2>1, <2>2, <2>3 DEF OnceIn
    <2>5. NotIn(queueLists) = LostQueues
        BY <2>1 DEF NotIn, LostQueues, QueuesOf
    <2> QED
        BY <2>4, <2>5
<1>5. \A a \in Processes : proc[a].pc = "link" => proc[a].kind \in {"handler", "queue"}
    BY <1>1 DEF AtWork, Asking
<1>6. moving = ({"handler"} \X Moving("handler")) \cup ({"queue"} \X Moving("queue"))
    <2>1. ASSUME NEW x \in moving
          PROVE  x \in ({"handler"} \X Moving("handler")) \cup ({"queue"} \X Moving("queue"))
        <3>1. PICK a \in Processes : proc[a].pc = "link" /\ x = <<proc[a].kind, proc[a].idx>>
            BY DEF At
        <3>2. proc[a].idx \in Moving(proc[a].kind)
            BY <3>1 DEF Moving
        <3> QED
            BY <1>5, <3>1, <3>2
    <2>2. ASSUME NEW k \in {"handler", "queue"}, NEW i \in Moving(k) PROVE <<k, i>> \in moving
        BY DEF Moving, At
    <2> QED
        BY <2>1, <2>2
<1>7. CASE sharedMutex = Dead
    <2>1. \A a \in Processes : proc[a].pc # "link"
        BY <1>1, <1>2, <1>7 DEF Mutex
    <2>2. moving = {}
        BY <2>1 DEF At
    <2>3. /\ \A x, y \in LostHandlers : x = y
          /\ \A x, y \in LostQueues : x = y
          /\ LostHandlers = {} \/ LostQueues = {}
        BY <1>1, <1>7 DEF Accounted
    <2>4. \A x, y \in missing : x = y
        BY <1>3, <1>4, <2>3
    <2> QED
        BY <1>3, <1>4, <1>7, <2>2, <2>4 DEF BlocksOwnedOnce
<1>8. CASE sharedMutex # Dead
    <2>1. missing = moving
        BY <1>1, <1>3, <1>4, <1>6, <1>8 DEF Accounted
    <2> QED
        BY <1>3, <1>4, <1>8, <2>1 DEF BlocksOwnedOnce
<1> QED
    BY <1>7, <1>8

\* A queue that is remembered carries the id of the process that remembers it, so there is one.
LEMMA WriteAloneHolds == MessagesInv => ServicesWriteAlone
<1> SUFFICES ASSUME MessagesInv PROVE ServicesWriteAlone
    OBVIOUS
<1>1. /\ \A a \in Processes : Remembers(a) /\ proc[a] \in ProcRec
      /\ \A h \in Blocks : handler[h].readMsg \in Seq(Blocks)
    BY Vars DEF MessagesInv, Sane
<1>2. ASSUME NEW q \in Blocks PROVE Cardinality(Writers(q) \ {Net}) <= 1
    <2> PICK w : w = queue[q].writerId
        OBVIOUS
    <2>1. q # None
        BY Names
    <2>2. Writers(q) \ {Net} \subseteq {w}
        BY <1>1, <2>1 DEF Writers, Remembers
    <2>3. IsFiniteSet({w}) /\ Cardinality({w}) = 1
        BY FS_Singleton
    <2>4. Cardinality(Writers(q) \ {Net}) \in Nat /\ Cardinality(Writers(q) \ {Net}) <= Cardinality({w})
        BY <2>2, <2>3, FS_Subset, FS_CardinalityType
    <2> QED
        BY <2>3, <2>4
<1>3. ASSUME NEW a \in Services, NEW r \in Receivers, proc[a].msgQueue[r] # None
      PROVE  /\ queue[proc[a].msgQueue[r]].writerId = a
             /\ Contains(handler[HandlerOf(r)].readMsg, proc[a].msgQueue[r])
    <2>1. a \in Processes /\ a # Net /\ r \in Services
        BY Names
    <2>2. queue[proc[a].msgQueue[r]].writerId = a
        BY <1>1, <1>3, <2>1 DEF Remembers
    <2>3. PICK h \in Blocks : Has(r, h) /\ proc[a].msgQueue[r] \in QueuesOf(h)
        BY <1>1, <1>3, <2>1 DEF Remembers
    <2>4. HandlerOf(r) = h
        BY <2>1, <2>3, OneHandler
    <2>5. \E i \in 1 .. Len(handler[h].readMsg) : handler[h].readMsg[i] = proc[a].msgQueue[r]
        BY <1>1, <2>3, Contents DEF QueuesOf
    <2> QED
        BY <2>2, <2>4, <2>5 DEF Contains
<1> QED
    BY <1>2, <1>3 DEF ServicesWriteAlone

\* The blocks stay whole, whoever comes back finds its own, and no two services write into one queue.
THEOREM MessagesAreSound == Spec => []MessagesSound
<1>1. MessagesInv => MessagesSound
    <2> SUFFICES ASSUME MessagesInv PROVE MessagesSound
        OBVIOUS
    <2>1. FoundAgain
        BY DEF MessagesInv, Found, FoundAgain, Used, QueuesOf
    <2> QED
        BY <2>1, OwnedOnceHolds, WriteAloneHolds DEF MessagesSound, MessagesInv
<1> QED
    BY <1>1, MessagesIsInvariant, PTL
===============================================================================
