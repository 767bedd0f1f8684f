--------------------------- MODULE ServiceTimer_proofs ---------------------------
(***************************************************************************)
(* The blocks of a service's timers have one owner each, and a callback is *)
(* final once its timer is killed, for any number of blocks and timers,    *)
(* any size of the queue and any limit.  TimerInv says which thread may    *)
(* still touch what: an entry of the heap that isn't killed belongs to a   *)
(* registered timer, so nothing is queued for a block that waits for its   *)
(* last messages, and the number it waits for is the number there is.      *)
(***************************************************************************)
EXTENDS ServiceTimer, FiniteSetTheorems, SequenceTheorems, TLAPS

\* The types that TypeOK leaves open.
Typed ==
  /\ TypeOK
  /\ online \in [DOMAIN online -> Blocks]
  /\ heap \in [DOMAIN heap -> [block : Blocks, runs : Nat \ {0}]]
  /\ curId \in 0 .. MaxTimers
  /\ cur \in [block : Blocks \cup {0}, id : 0 .. MaxTimers, count : Nat]

\* Ids are given in their order, and those in use have been given.
Given ==
  /\ DOMAIN online \cup DOMAIN heap \cup killed \cup dead \subseteq 1 .. curId
  /\ cur.id <= curId /\ \A b \in Blocks : msg[b].id <= curId

\* A registered timer and its block name each other; the block is in use.
Paired ==
  /\ \A id \in DOMAIN online :
       msg[online[id]].id = id /\ msg[online[id]].deleteRef = 0 /\ online[id] \notin Stored
  /\ \A b \in Blocks : msg[b].id \in DOMAIN online => online[msg[b].id] = b

\* What may still expire is registered, and after the last expiry there is no entry.
Armed ==
  /\ \A id \in DOMAIN heap \ killed : id \in DOMAIN online /\ online[id] = heap[id].block
  /\ \A b \in Blocks : msg[b].count = 0 => msg[b].id \notin DOMAIN heap

\* A block with references is nobody's, and has as many as there are messages of it.
Referenced ==
  \A b \in Blocks : msg[b].deleteRef > 0 =>
    b \notin Stored \cup Registered /\ msg[b].deleteRef = Queued(b) /\ ~(pc = "kill" /\ victim = b)

\* The block killTimer gives up is in nobody else's hands.
GivenUp == pc = "kill" => victim \in Blocks \ (Stored \cup Registered) /\ msg[victim].deleteRef = 0

\* The locals of handleTimerMessage still fit what is registered when the callback is over.
Calling ==
  inCall => /\ cur.block \in Blocks
            /\ cur.id \in DOMAIN online => online[cur.id] = cur.block
            /\ cur.count = 0 => cur.id \notin DOMAIN heap

\* A message without references is not that of a killed timer.
Alive ==
  /\ dead \cap DOMAIN online = {}
  /\ \A b \in Blocks : Queued(b) > 0 /\ msg[b].deleteRef = 0 /\ ~(pc = "kill" /\ victim = b)
                         => msg[b].id \notin dead

TimerInv == /\ Typed /\ Given /\ IsInjective(free) /\ Paired /\ Armed /\ Referenced /\ GivenUp
            /\ Calling /\ Alive /\ NoLeak
-------------------------------------------------------------------------------
\* How often a value is in a sequence: a number, positive if it is there.
LEMMA TimesCounts ==
  ASSUME NEW q \in Seq(Blocks), NEW b
  PROVE  /\ IsFiniteSet({i \in DOMAIN q : q[i] = b}) /\ Times(q, b) \in 0 .. Len(q)
         /\ Times(q, b) > 0 <=> \E i \in DOMAIN q : q[i] = b
<1> DEFINE at == {i \in DOMAIN q : q[i] = b}
<1>1. Len(q) \in Nat /\ DOMAIN q = 1 .. Len(q)
    BY LenProperties
<1>2. IsFiniteSet(1 .. Len(q)) /\ Cardinality(1 .. Len(q)) = Len(q)
    BY <1>1, FS_Interval
<1>3. at \subseteq 1 .. Len(q)
    BY <1>1
<1>4. IsFiniteSet(at) /\ Cardinality(at) <= Len(q)
    BY <1>2, <1>3, FS_Subset
<1>5. Cardinality(at) \in Nat /\ (Cardinality(at) = 0 <=> at = {})
    BY <1>4, FS_CardinalityType, FS_EmptySet
<1> QED
    BY <1>1, <1>4, <1>5 DEF Times

\* A message more.
LEMMA TimesAppend ==
  ASSUME NEW q \in Seq(Blocks), NEW c \in Blocks, NEW b
  PROVE  Times(Append(q, c), b) = IF b = c THEN Times(q, b) + 1 ELSE Times(q, b)
<1> DEFINE at == {i \in DOMAIN q : q[i] = b}
           longer == Append(q, c)
           atLonger == {i \in DOMAIN longer : longer[i] = b}
<1> PICK n \in Nat : n = Len(q)
    BY LenProperties
<1>1. DOMAIN q = 1 .. n /\ IsFiniteSet(at)
    BY LenProperties, TimesCounts
<1>2. DOMAIN longer = 1 .. n + 1 /\ longer[n + 1] = c /\ \A i \in 1 .. n : longer[i] = q[i]
    BY AppendProperties, LenProperties
<1>3. n + 1 \notin at
    BY <1>1
<1>4. CASE b = c
    <2>1. atLonger = at \cup {n + 1}
        BY <1>1, <1>2, <1>4
    <2>2. Cardinality(at \cup {n + 1}) = Cardinality(at) + 1
        BY <1>1, <1>3, FS_AddElement
    <2> QED
        BY <1>4, <2>1, <2>2 DEF Times
<1>5. CASE b # c
    <2>1. atLonger = at
        BY <1>1, <1>2, <1>5
    <2> QED
        BY <1>5, <2>1 DEF Times
<1> QED
    BY <1>4, <1>5

\* A message less.
LEMMA TimesTail ==
  ASSUME NEW q \in Seq(Blocks), q # <<>>, NEW b
  PROVE  Times(q, b) = IF b = Head(q) THEN Times(Tail(q), b) + 1 ELSE Times(Tail(q), b)
<1> DEFINE at == {i \in DOMAIN q : q[i] = b}
           atTail == {i \in DOMAIN Tail(q) : Tail(q)[i] = b}
           later == at \ {1}
           next == [i \in later |-> i - 1]
<1> PICK n \in Nat : n = Len(q)
    BY LenProperties
<1>1. DOMAIN q = 1 .. n /\ n > 0 /\ IsFiniteSet(at) /\ Head(q) = q[1]
    <2>1. DOMAIN q = 1 .. n /\ IsFiniteSet(at)
        BY LenProperties, TimesCounts
    <2>2. n \in Nat \ {0}
        BY EmptySeq
    <2> QED
        BY <2>1, <2>2
<1>2. DOMAIN Tail(q) = 1 .. n - 1 /\ \A i \in 1 .. n - 1 : Tail(q)[i] = q[i + 1]
    BY HeadTailProperties, LenProperties
<1>3. IsFiniteSet(later) /\ Cardinality(later) = IF b = Head(q) THEN Cardinality(at) - 1 ELSE Cardinality(at)
    <2>1. 1 \in at <=> b = Head(q)
        BY <1>1
    <2> HIDE DEF at
    <2> QED
        BY <1>1, <2>1, FS_RemoveElement
<1>4. Cardinality(atTail) = Cardinality(later)
    <2>1. next \in [later -> atTail]
        BY <1>1, <1>2
    <2>2. \A i, j \in later : next[i] = next[j] => i = j
        BY <1>1
    <2>3. \A j \in atTail : \E i \in later : next[i] = j
        <3> SUFFICES ASSUME NEW j \in atTail PROVE \E i \in later : next[i] = j
            OBVIOUS
        <3>1. j \in 1 .. n - 1 /\ q[j + 1] = b
            BY <1>2
        <3>2. j + 1 \in later
            BY <1>1, <3>1
        <3> QED
            BY <3>1, <3>2
    <2> HIDE DEF next, later, atTail
    <2>4. DOMAIN next = later
        BY <2>1
    <2>5. next \in Injection(later, atTail)
        BY <2>1, <2>2, <2>4 DEF Injection, IsInjective
    <2>6. next \in Surjection(later, atTail)
        BY <2>1, <2>3 DEF Surjection
    <2>7. ExistsBijection(later, atTail)
        BY <2>5, <2>6 DEF Bijection, ExistsBijection
    <2> QED
        BY <1>3, <2>7, FS_Bijection
<1>5. Cardinality(at) \in Nat
    BY <1>1, FS_CardinalityType
<1>6. Times(q, b) = Cardinality(at) /\ Times(Tail(q), b) = Cardinality(atTail)
    BY DEF Times
<1> HIDE DEF at, later, atTail
<1>7. CASE b = Head(q)
    BY <1>3, <1>4, <1>5, <1>6, <1>7
<1>8. CASE b # Head(q)
    BY <1>3, <1>4, <1>5, <1>6, <1>8
<1> QED
    BY <1>7, <1>8

\* A block goes back to the pool; a block is taken from it.
LEMMA PutStores ==
  ASSUME free \in Seq(Blocks), IsInjective(free), NEW b \in Blocks, b \notin Stored, Put(b)
  PROVE  free' \in Seq(Blocks) /\ IsInjective(free') /\ Stored' = Stored \cup {b}
<1>1. <<b>> \in Seq(Blocks) /\ Len(<<b>>) = 1 /\ free' = <<b>> \o free
    BY DEF Put
<1> PICK n \in Nat : n = Len(free)
    BY LenProperties
<1>2. DOMAIN free = 1 .. n
    BY LenProperties
<1>3. /\ free' \in Seq(Blocks) /\ Len(free') = n + 1 /\ free'[1] = b
      /\ \A i \in 2 .. n + 1 : free'[i] = free[i - 1] /\ i - 1 \in 1 .. n
    BY <1>1, ConcatProperties
<1>4. DOMAIN free' = 1 .. n + 1
    BY <1>3, LenProperties
<1>5. \A i \in 1 .. n : free[i] # b
    BY <1>2 DEF Stored
<1>6. IsInjective(free')
    BY SMTT(60), <1>2, <1>3, <1>4, <1>5 DEF IsInjective
<1>7. Stored' = Stored \cup {b}
    <2>1. ASSUME NEW c \in Blocks, NEW i \in 1 .. n, free[i] = c PROVE \E j \in 1 .. n + 1 : free'[j] = c
        <3>1. i + 1 \in 2 .. n + 1 /\ i + 1 \in 1 .. n + 1 /\ (i + 1) - 1 = i
            OBVIOUS
        <3> QED
            BY <1>3, <2>1, <3>1
    <2>2. ASSUME NEW c \in Blocks, NEW i \in 1 .. n + 1, free'[i] = c PROVE c = b \/ \E j \in 1 .. n : free[j] = c
        <3>1. i = 1 \/ i \in 2 .. n + 1
            OBVIOUS
        <3> QED
            BY <1>3, <2>2, <3>1
    <2>3. ASSUME NEW c \in Blocks
          PROVE  c \in Stored' <=> c \in Stored \/ c = b
        <3>1. c \in Stored' <=> \E j \in 1 .. n + 1 : free'[j] = c
            BY <1>4 DEF Stored
        <3>2. c \in Stored <=> \E j \in 1 .. n : free[j] = c
            BY <1>2 DEF Stored
        <3>3. 1 \in 1 .. n + 1
            OBVIOUS
        <3> QED
            BY <1>3, <2>1, <2>2, <3>1, <3>2, <3>3
    <2>4. Stored \subseteq Blocks /\ Stored' \subseteq Blocks
        BY DEF Stored
    <2> QED
        BY <2>3, <2>4
<1> QED
    BY <1>3, <1>6, <1>7

\* A block leaves the front of the pool.
LEMMA TakeVacates ==
  ASSUME free \in Seq(Blocks), IsInjective(free), free # <<>>, free' = Tail(free)
  PROVE  /\ free' \in Seq(Blocks) /\ IsInjective(free')
         /\ Head(free) \in Stored /\ Stored' = Stored \ {Head(free)}
<1> PICK n \in Nat : n = Len(free)
    BY LenProperties
<1>1. DOMAIN free = 1 .. n /\ n > 0 /\ Head(free) = free[1] /\ Head(free) \in Blocks
    BY LenProperties, EmptySeq, HeadTailProperties
<1>2. free' \in Seq(Blocks) /\ DOMAIN free' = 1 .. n - 1 /\ \A i \in 1 .. n - 1 : free'[i] = free[i + 1]
    BY HeadTailProperties, LenProperties
<1>3. IsInjective(free')
    BY <1>1, <1>2 DEF IsInjective
<1>4. Head(free) \in Stored
    BY <1>1 DEF Stored
<1>5. Stored' = Stored \ {Head(free)}
    <2>1. ASSUME NEW i \in 1 .. n - 1
          PROVE  free'[i] # free[1] /\ \E j \in 1 .. n : free[j] = free'[i]
        <3>1. i + 1 \in 1 .. n /\ i + 1 # 1 /\ 1 \in 1 .. n
            BY <1>1
        <3> QED
            BY <1>1, <1>2, <3>1 DEF IsInjective
    <2>2. ASSUME NEW i \in 1 .. n, free[i] # free[1]
          PROVE  \E j \in 1 .. n - 1 : free'[j] = free[i]
        <3>1. i - 1 \in 1 .. n - 1 /\ (i - 1) + 1 = i
            BY <2>2
        <3> QED
            BY <1>2, <3>1
    <2>3. ASSUME NEW c \in Blocks
          PROVE  c \in Stored' <=> c \in Stored /\ c # Head(free)
        <3>1. c \in Stored' <=> \E j \in 1 .. n - 1 : free'[j] = c
            BY <1>2 DEF Stored
        <3>2. c \in Stored <=> \E j \in 1 .. n : free[j] = c
            BY <1>1 DEF Stored
        <3> QED
            BY <1>1, <2>1, <2>2, <3>1, <3>2
    <2>4. Stored \subseteq Blocks /\ Stored' \subseteq Blocks
        BY DEF Stored
    <2> QED
        BY <2>3, <2>4
<1> QED
    BY <1>2, <1>3, <1>4, <1>5
-------------------------------------------------------------------------------
\* The initial state: every block is in the pool once.
LEMMA InitTimer == Init => TimerInv
<1> SUFFICES ASSUME Init PROVE TimerInv
    OBVIOUS
<1>1. free \in Seq(Blocks) /\ IsInjective(free) /\ Stored = Blocks
    <2> DEFINE S == [1 .. Cardinality(Blocks) -> Blocks]
    <2>1. Cardinality(Blocks) \in Nat /\ \E f \in S : IsInjective(f)
        BY BlocksAssumption, FS_CardinalityType DEF ExistsBijection, Bijection, Injection
    <2>2. free \in S /\ IsInjective(free)
        BY <2>1 DEF Init, SetToSeq
    <2>3. free \in Injection(1 .. Cardinality(Blocks), Blocks)
        BY <2>2 DEF Injection
    <2>4. Cardinality(1 .. Cardinality(Blocks)) = Cardinality(Blocks)
        BY <2>1, FS_Interval
    <2>5. free \in Surjection(1 .. Cardinality(Blocks), Blocks)
        BY <2>3, <2>4, BlocksAssumption, FS_Injection
    <2>6. Stored = Blocks
        BY <2>2, <2>5 DEF Surjection, Stored
    <2> QED
        BY <2>1, <2>2, <2>6
<1>2. DOMAIN online = {} /\ DOMAIN heap = {} /\ Len(queue) = 0 /\ Cardinality({}) = 0
    BY FS_EmptySet DEF Init
<1>3. TypeOK
    <2>1. 0 \in 0 .. MaxTimers /\ 0 \in 0 .. QueueSize /\ 0 <= QueueSize /\ 0 <= MaxOnline
        BY SizeAssumption
    <2>2. msg \in [Blocks -> [id : 0 .. MaxTimers, count : Nat, deleteRef : 0 .. QueueSize]]
        BY <2>1 DEF Init
    <2>3. Registered \subseteq Blocks /\ Cardinality(DOMAIN online) <= MaxOnline
        BY <1>2, <2>1 DEF Registered
    <2>4. queue \in Seq(Blocks) /\ Len(queue) <= QueueSize
        BY <1>2, <2>1, EmptySeq DEF Init
    <2> QED
        BY <1>1, <1>2, <2>2, <2>3, <2>4 DEF Init, TypeOK
<1>4. Typed /\ Given
    BY <1>2, <1>3, SizeAssumption DEF Init, Typed, Given, NoCall
<1>5. Paired /\ Armed /\ Referenced /\ GivenUp /\ Calling /\ Alive /\ NoLeak
    BY <1>1, <1>2 DEF Init, Paired, Armed, Referenced, GivenUp, Calling, Alive, NoLeak, NoCall
<1> QED
    BY <1>1, <1>4, <1>5 DEF TimerInv

\* A timer is set: the block leaves the pool, and the id is one that nothing has.
LEMMA SetTimerKeeps == ASSUME TimerInv, NEW c \in Counts, SetTimer(c) PROVE TimerInv'
<1> USE DEF TimerInv
<1> DEFINE b == Head(free)
           id == curId + 1
<1>1. /\ pc = "run" /\ curId < MaxTimers /\ free # <<>>
      /\ MaxOnline = 0 \/ Cardinality(DOMAIN online) < MaxOnline
      /\ free' = Tail(free) /\ curId' = id
      /\ msg' = [msg EXCEPT ![b] = [id |-> id, count |-> c, deleteRef |-> 0]]
      /\ heap' = With(heap, id, [block |-> b, runs |-> c]) /\ online' = With(online, id, b)
      /\ UNCHANGED <<killed, queue, service, dead, lost>>
    BY DEF SetTimer
<1>2. /\ free' \in Seq(Blocks) /\ IsInjective(free') /\ b \in Stored /\ Stored' = Stored \ {b}
      /\ Stored \subseteq Blocks
    BY <1>1, TakeVacates DEF Typed, TypeOK, Stored
<1>3. /\ id \in 1 .. MaxTimers /\ id \in Nat /\ id \notin 1 .. curId /\ curId \in Nat /\ 1 .. curId \subseteq 1 .. id
      /\ MaxTimers \in Nat /\ MaxOnline \in Nat /\ c \in Nat /\ c # 0
    <2>1. c \in Nat \ {0}
        BY CountAssumption, Zenon
    <2> QED
        BY <1>1, <2>1, SizeAssumption DEF Typed
<1>4. /\ DOMAIN online' = DOMAIN online \cup {id} /\ online'[id] = b
      /\ \A x \in DOMAIN online : x # id /\ online'[x] = online[x] /\ online[x] # b
      /\ DOMAIN heap' = DOMAIN heap \cup {id} /\ heap'[id] = [block |-> b, runs |-> c]
      /\ \A x \in DOMAIN heap : x # id /\ heap'[x] = heap[x]
      /\ id \notin killed /\ id \notin dead
    BY <1>1, <1>2, <1>3 DEF With, Given, Paired
<1>5. /\ msg'[b] = [id |-> id, count |-> c, deleteRef |-> 0]
      /\ \A x \in Blocks : x # b => msg'[x] = msg[x]
      /\ \A x \in Blocks : msg[x].id # id /\ msg[x].id \in Nat /\ msg[x].id <= curId
    BY SMTT(60), <1>1, <1>2, <1>3 DEF Typed, TypeOK, Given
<1>6. Registered' = Registered \cup {b}
    BY <1>4 DEF Registered
<1>7. Cardinality(DOMAIN online') = Cardinality(DOMAIN online) + 1 /\ Cardinality(DOMAIN online) \in Nat
    <2>1. IsFiniteSet(1 .. MaxTimers)
        BY <1>3, FS_Interval
    <2>2. IsFiniteSet(DOMAIN online)
        BY <2>1, FS_Subset DEF Typed, TypeOK, Ids
    <2> QED
        BY <1>4, <2>2, FS_AddElement, FS_CardinalityType
<1>8. TypeOK'
    <2>1. msg' \in [Blocks -> [id : 0 .. MaxTimers, count : Nat, deleteRef : 0 .. QueueSize]]
        <3>1. id \in 0 .. MaxTimers /\ 0 \in 0 .. QueueSize
            BY <1>3, SizeAssumption
        <3>2. [id |-> id, count |-> c, deleteRef |-> 0] \in [id : 0 .. MaxTimers, count : Nat, deleteRef : 0 .. QueueSize]
            BY <1>3, <3>1
        <3> QED
            BY <1>1, <3>2 DEF Typed, TypeOK
    <2>2. Registered' \subseteq Blocks /\ DOMAIN online' \subseteq Ids /\ DOMAIN heap' \subseteq Ids
        BY <1>2, <1>3, <1>4, <1>6 DEF Typed, TypeOK, Ids
    <2>3. MaxOnline = 0 \/ Cardinality(DOMAIN online') <= MaxOnline
        BY <1>1, <1>3, <1>7
    <2> QED
        BY <1>1, <1>2, <2>1, <2>2, <2>3 DEF Typed, TypeOK, service
<1>9. Typed'
    <2>1. online' \in [DOMAIN online' -> Blocks]
        BY <1>1, <1>2, <1>4 DEF Typed, With
    <2>2. heap' \in [DOMAIN heap' -> [block : Blocks, runs : Nat \ {0}]]
        BY <1>1, <1>2, <1>3, <1>4 DEF Typed, With
    <2> QED
        BY <1>1, <1>3, <1>8, <2>1, <2>2 DEF Typed, service
<1>10. Given'
    BY <1>1, <1>3, <1>4, <1>5 DEF Given, Typed, service
<1>11. Paired'
    <2>1. ASSUME NEW x \in DOMAIN online'
          PROVE  msg'[online'[x]].id = x /\ msg'[online'[x]].deleteRef = 0 /\ online'[x] \notin Stored'
        <3>1. CASE x = id
            BY <1>2, <1>4, <1>5, <3>1
        <3>2. CASE x \in DOMAIN online
            <4>1. online[x] \in Blocks /\ online'[x] = online[x] /\ online[x] # b
                BY <1>4, <3>2 DEF Typed
            <4> QED
                BY <1>2, <1>5, <3>2, <4>1 DEF Paired
        <3> QED
            BY <1>4, <3>1, <3>2
    <2>2. ASSUME NEW x \in Blocks, msg'[x].id \in DOMAIN online'
          PROVE  online'[msg'[x].id] = x
        <3>1. CASE x = b
            BY <1>4, <1>5, <3>1
        <3>2. CASE x # b
            <4>1. msg'[x].id = msg[x].id /\ msg[x].id # id
                BY <1>5, <3>2
            <4> QED
                BY <1>4, <2>2, <4>1 DEF Paired
        <3> QED
            BY <3>1, <3>2
    <2> QED
        BY <2>1, <2>2 DEF Paired
<1>12. Armed'
    <2>1. ASSUME NEW x \in DOMAIN heap' \ killed
          PROVE  x \in DOMAIN online' /\ online'[x] = heap'[x].block
        <3>1. CASE x = id
            BY <1>4, <3>1
        <3>2. CASE x \in DOMAIN heap
            BY <1>4, <2>1, <3>2 DEF Armed
        <3> QED
            BY <1>4, <3>1, <3>2
    <2>2. ASSUME NEW x \in Blocks, msg'[x].count = 0
          PROVE  msg'[x].id \notin DOMAIN heap'
        <3>1. x # b
            BY <1>3, <1>5, <2>2
        <3> QED
            BY <1>4, <1>5, <2>2, <3>1 DEF Armed
    <2> QED
        BY <1>1, <2>1, <2>2 DEF Armed
<1>13. Referenced' /\ GivenUp'
    BY <1>1, <1>2, <1>5, <1>6 DEF Referenced, GivenUp, Queued, service
<1>14. Calling'
    BY <1>1, <1>3, <1>4 DEF Calling, Given, service
<1>15. Alive'
    BY <1>1, <1>4, <1>5 DEF Alive, Queued, service
<1>16. NoLeak'
    BY <1>1, <1>2, <1>5, <1>6 DEF NoLeak, Queued, service
<1> QED
    BY <1>2, <1>9, <1>10, <1>11, <1>12, <1>13, <1>14, <1>15, <1>16
\* Fewer timers are registered: the limit is kept, and the blocks of the others are the others.
LEMMA FewerOnline ==
  ASSUME TimerInv, NEW id \in DOMAIN online, online' = Without(online, id)
  PROVE  /\ DOMAIN online' = DOMAIN online \ {id} /\ \A x \in DOMAIN online' : online'[x] = online[x]
         /\ Registered' = Registered \ {online[id]} /\ online[id] \in Registered \ Stored
         /\ MaxOnline = 0 \/ Cardinality(DOMAIN online') <= MaxOnline
         /\ online' \in [DOMAIN online' -> Blocks]
<1>1. DOMAIN online' = DOMAIN online \ {id} /\ \A x \in DOMAIN online' : online'[x] = online[x]
    BY DEF Without
<1>2. \A x \in DOMAIN online : online[x] = online[id] => x = id
    BY DEF TimerInv, Paired
<1>3. Registered' = Registered \ {online[id]} /\ online[id] \in Registered \ Stored
    BY <1>1, <1>2 DEF Registered, TimerInv, Paired
<1>4. IsFiniteSet(DOMAIN online)
    <2>1. IsFiniteSet(1 .. MaxTimers)
        BY SizeAssumption, FS_Interval
    <2> QED
        BY <2>1, FS_Subset DEF TimerInv, Typed, TypeOK, Ids
<1>5. Cardinality(DOMAIN online') <= Cardinality(DOMAIN online)
    BY <1>1, <1>4, FS_Subset
<1>6. Cardinality(DOMAIN online') \in Nat /\ Cardinality(DOMAIN online) \in Nat
    BY <1>1, <1>4, FS_Subset, FS_CardinalityType
<1>7. MaxOnline = 0 \/ Cardinality(DOMAIN online') <= MaxOnline
    BY <1>5, <1>6, SizeAssumption DEF TimerInv, Typed, TypeOK
<1> QED
    BY <1>1, <1>3, <1>7 DEF TimerInv, Typed, Without

\* A timer is killed: its block is in the hands of killTimer, and nothing more will be queued for it.
LEMMA KillTimerKeeps == ASSUME TimerInv, NEW id \in Ids, KillTimer(id) PROVE TimerInv'
<1> USE DEF TimerInv
<1>1. /\ pc = "run" /\ id \in DOMAIN online /\ killed' = killed \cup {id}
      /\ victim' = online[id] /\ online' = Without(online, id)
      /\ dead' = dead \cup {id} /\ pc' = "kill"
      /\ UNCHANGED <<pool, heap, curId, queue, inCall, cur, lost>>
    BY DEF KillTimer
<1>2. /\ DOMAIN online' = DOMAIN online \ {id} /\ \A x \in DOMAIN online' : online'[x] = online[x]
      /\ Registered' = Registered \ {online[id]} /\ online[id] \in Registered \ Stored
      /\ MaxOnline = 0 \/ Cardinality(DOMAIN online') <= MaxOnline
      /\ online' \in [DOMAIN online' -> Blocks]
    BY <1>1, FewerOnline
<1>3. Stored' = Stored /\ online[id] \in Blocks /\ msg[online[id]].id = id /\ msg[online[id]].deleteRef = 0
    BY <1>1 DEF Stored, pool, Typed, Paired
<1>4. Typed'
    BY <1>1, <1>2 DEF Typed, TypeOK, pool
<1>5. Given'
    BY <1>1, <1>2 DEF Given, pool
<1>6. Paired' /\ Armed'
    BY <1>1, <1>2, <1>3 DEF Paired, Armed, pool
<1>7. Referenced' /\ GivenUp'
    BY <1>1, <1>2, <1>3 DEF Referenced, GivenUp, pool, Queued
<1>8. Calling'
    BY <1>1, <1>2 DEF Calling
<1>9. Alive'
    <2>1. ASSUME NEW b \in Blocks, msg[b].id = id PROVE b = online[id]
        BY <1>1, <2>1 DEF Paired
    <2> QED
        BY <1>1, <1>2, <2>1 DEF Alive, pool, Queued
<1>10. NoLeak'
    BY <1>1, <1>2, <1>3 DEF NoLeak, pool, Queued
<1> QED
    BY <1>1, <1>4, <1>5, <1>6, <1>7, <1>8, <1>9, <1>10 DEF pool

\* killTimer is done: the block is free, or has as many references as messages.
LEMMA KillTimerEndsKeeps == TimerInv /\ KillTimerEnds => TimerInv'
<1> SUFFICES ASSUME TimerInv, KillTimerEnds PROVE TimerInv'
    OBVIOUS
<1> USE DEF TimerInv
<1>1. /\ pc = "kill" /\ pc' = "run" /\ victim' = 0
      /\ UNCHANGED <<online, timer, queue, inCall, cur, dead, lost>>
    BY DEF KillTimerEnds
<1>2. victim \in Blocks /\ victim \notin Stored /\ victim \notin Registered /\ msg[victim].deleteRef = 0
    BY <1>1 DEF GivenUp
<1>3. /\ Queued(victim) \in 0 .. Len(queue) /\ Len(queue) <= QueueSize /\ Len(queue) \in Nat /\ QueueSize \in Nat
      /\ \A b \in Blocks : Queued(b)' = Queued(b)
    <2>1. queue \in Seq(Blocks) /\ Len(queue) <= QueueSize
        BY DEF Typed, TypeOK
    <2>2. Queued(victim) \in 0 .. Len(queue)
        BY <2>1, TimesCounts DEF Queued
    <2>3. \A b \in Blocks : Queued(b)' = Queued(b)
        BY <1>1 DEF Queued
    <2> QED
        BY <2>1, <2>2, <2>3, LenProperties, SizeAssumption
<1>4. Registered' = Registered /\ \A b \in Blocks : b \in Registered <=> \E id \in DOMAIN online : online[id] = b
    BY <1>1 DEF Registered
<1>5. CASE Queued(victim) = 0
    <2>1. Put(victim) /\ msg' = msg
        BY <1>5 DEF KillTimerEnds
    <2>2. free' \in Seq(Blocks) /\ IsInjective(free') /\ Stored' = Stored \cup {victim}
        BY <1>2, <2>1, PutStores DEF Typed, TypeOK
    <2>3. Typed' /\ Given'
        BY <1>1, <1>4, <2>1, <2>2 DEF Typed, TypeOK, Given, timer
    <2>4. Paired'
        BY <1>1, <1>2, <1>4, <2>1, <2>2 DEF Paired, Typed
    <2>5. Armed' /\ Calling'
        BY <1>1, <2>1 DEF Armed, Calling, timer
    <2>6. Referenced' /\ GivenUp'
        BY <1>1, <1>2, <1>3, <1>4, <2>1, <2>2 DEF Referenced, GivenUp
    <2>7. Alive'
        BY <1>1, <1>3, <1>5, <2>1 DEF Alive
    <2>8. NoLeak'
        BY <1>1, <1>3, <1>4, <2>1, <2>2 DEF NoLeak
    <2> QED
        BY <2>2, <2>3, <2>4, <2>5, <2>6, <2>7, <2>8
<1>6. CASE Queued(victim) # 0
    <2>1. msg' = [msg EXCEPT ![victim].deleteRef = Queued(victim)] /\ free' = free
        BY <1>6 DEF KillTimerEnds
    <2>2. Stored' = Stored
        BY <2>1 DEF Stored
    <2>3. /\ \A b \in Blocks : msg'[b].id = msg[b].id /\ msg'[b].count = msg[b].count
          /\ \A b \in Blocks : msg'[b].deleteRef = IF b = victim THEN Queued(victim) ELSE msg[b].deleteRef
          /\ msg' \in [Blocks -> [id : 0 .. MaxTimers, count : Nat, deleteRef : 0 .. QueueSize]]
        <3>1. Queued(victim) \in 0 .. QueueSize
            BY <1>3
        <3> QED
            BY ZenonT(60), <1>2, <2>1, <3>1 DEF Typed, TypeOK
    <2>4. Typed' /\ Given'
        <3>1. TypeOK'
            BY <1>1, <1>4, <2>1, <2>3 DEF Typed, TypeOK, timer
        <3>2. Typed'
            BY <1>1, <3>1 DEF Typed, timer
        <3>3. Given'
            BY <1>1, <2>3 DEF Given, timer
        <3> QED
            BY <3>2, <3>3
    <2>5. Paired'
        BY <1>1, <1>2, <1>4, <2>2, <2>3 DEF Paired, Typed
    <2>6. Armed' /\ Calling'
        BY <1>1, <2>3 DEF Armed, Calling, timer
    <2>7. Referenced' /\ GivenUp'
        BY <1>1, <1>2, <1>3, <1>4, <2>2, <2>3 DEF Referenced, GivenUp
    <2>8. Alive'
        BY <1>1, <1>3, <1>6, <2>3 DEF Alive
    <2>9. NoLeak'
        BY <1>1, <1>2, <1>3, <1>4, <1>6, <2>2, <2>3 DEF NoLeak
    <2> QED
        BY <2>1, <2>4, <2>5, <2>6, <2>7, <2>8, <2>9
<1> QED
    BY <1>5, <1>6
\* A message leaves the queue: there is one less of its block, and as many of the others.
LEMMA MessageTaken ==
  ASSUME Typed, queue # <<>>, queue' = Tail(queue)
  PROVE  /\ queue' \in Seq(Blocks) /\ Head(queue) \in Blocks /\ Len(queue') <= QueueSize
         /\ \A b \in Blocks : Queued(b)' = IF b = Head(queue) THEN Queued(b) - 1 ELSE Queued(b)
         /\ \A b \in Blocks : Queued(b) \in Nat /\ Queued(b)' \in Nat
<1>1. queue \in Seq(Blocks) /\ Len(queue) <= QueueSize /\ QueueSize \in Nat
    BY SizeAssumption DEF Typed, TypeOK
<1>2. queue' \in Seq(Blocks) /\ Head(queue) \in Blocks /\ Len(queue') = Len(queue) - 1 /\ Len(queue) \in Nat
    BY <1>1, HeadTailProperties, LenProperties
<1>3. ASSUME NEW b \in Blocks
      PROVE  /\ Queued(b) \in Nat /\ Queued(b)' \in Nat
             /\ Queued(b)' = IF b = Head(queue) THEN Queued(b) - 1 ELSE Queued(b)
    <2>1. Times(queue, b) = IF b = Head(queue) THEN Times(queue', b) + 1 ELSE Times(queue', b)
        BY <1>1, TimesTail
    <2>2. Times(queue, b) \in 0 .. Len(queue) /\ Times(queue', b) \in 0 .. Len(queue')
        BY <1>1, <1>2, TimesCounts
    <2>3. Times(queue, b) \in Nat /\ Times(queue', b) \in Nat
        BY <1>2, <2>2
    <2> QED
        BY <2>1, <2>3 DEF Queued
<1> QED
    BY <1>1, <1>2, <1>3

\* A message of a timer that nobody killed is taken; the callback is that of the block's timer.
LEMMA TakeLiveKeeps == TimerInv /\ TakeLive => TimerInv' /\ cur'.id \notin dead
<1> SUFFICES ASSUME TimerInv, TakeLive PROVE TimerInv' /\ cur'.id \notin dead
    OBVIOUS
<1> USE DEF TimerInv
<1> DEFINE h == Head(queue)
<1>1. /\ pc = "run" /\ queue # <<>> /\ msg[h].deleteRef = 0
      /\ cur' = [block |-> h, id |-> msg[h].id, count |-> msg[h].count]
      /\ queue' = Tail(queue) /\ inCall' = TRUE
      /\ UNCHANGED <<pool, online, timer, pc, victim, dead, lost>>
    BY DEF TakeLive
<1>2. /\ queue' \in Seq(Blocks) /\ h \in Blocks /\ Len(queue') <= QueueSize
      /\ \A b \in Blocks : Queued(b)' = IF b = h THEN Queued(b) - 1 ELSE Queued(b)
      /\ \A b \in Blocks : Queued(b) \in Nat /\ Queued(b)' \in Nat
    BY <1>1, MessageTaken
<1>3. Queued(h) > 0
    BY <1>2
<1> HIDE DEF h
<1>4. Stored' = Stored /\ Registered' = Registered /\ msg[h] \in [id : 0 .. MaxTimers, count : Nat, deleteRef : 0 .. QueueSize]
    BY <1>1, <1>2 DEF Stored, Registered, pool, Typed, TypeOK
<1>5. Typed'
    BY <1>1, <1>2, <1>4 DEF Typed, TypeOK, pool, timer
<1>6. Given' /\ Paired' /\ Armed'
    BY <1>1, <1>2, <1>4 DEF Given, Paired, Armed, pool, timer
<1>7. Referenced' /\ GivenUp' /\ NoLeak'
    BY SMTT(60), <1>1, <1>2, <1>4 DEF Referenced, GivenUp, NoLeak, pool
<1>8. Calling'
    BY <1>1, <1>2 DEF Calling, Paired, Armed, timer
<1>9. Alive'
    BY SMTT(60), <1>1, <1>2 DEF Alive, pool
<1>10. cur'.id \notin dead
    BY <1>1, <1>2, <1>3 DEF Alive
<1> QED
    BY <1>1, <1>5, <1>6, <1>7, <1>8, <1>9, <1>10 DEF pool

\* A message of a killed timer is taken; the last one frees the block.
LEMMA TakeKilledKeeps == TimerInv /\ TakeKilled => TimerInv'
<1> SUFFICES ASSUME TimerInv, TakeKilled PROVE TimerInv'
    OBVIOUS
<1> USE DEF TimerInv
<1> DEFINE h == Head(queue)
<1>1. /\ pc = "run" /\ queue # <<>> /\ msg[h].deleteRef > 0
      /\ msg' = [msg EXCEPT ![h].deleteRef = @ - 1]
      /\ IF msg'[h].deleteRef = 0 THEN Put(h) ELSE UNCHANGED free
      /\ queue' = Tail(queue)
      /\ UNCHANGED <<online, timer, service, dead, lost>>
    BY DEF TakeKilled
<1>2. /\ queue' \in Seq(Blocks) /\ h \in Blocks /\ Len(queue') <= QueueSize
      /\ \A b \in Blocks : Queued(b)' = IF b = h THEN Queued(b) - 1 ELSE Queued(b)
      /\ \A b \in Blocks : Queued(b) \in Nat /\ Queued(b)' \in Nat
    BY <1>1, MessageTaken
<1> HIDE DEF h
<1>3. h \notin Stored /\ h \notin Registered /\ msg[h].deleteRef = Queued(h)
    BY <1>1, <1>2 DEF Referenced
<1>4. /\ \A b \in Blocks : msg'[b].id = msg[b].id /\ msg'[b].count = msg[b].count
      /\ \A b \in Blocks : msg'[b].deleteRef = IF b = h THEN Queued(h) - 1 ELSE msg[b].deleteRef
      /\ msg' \in [Blocks -> [id : 0 .. MaxTimers, count : Nat, deleteRef : 0 .. QueueSize]]
    <2>1. msg[h].deleteRef \in 0 .. QueueSize /\ QueueSize \in Nat
        BY <1>2, SizeAssumption DEF Typed, TypeOK
    <2>2. msg[h].deleteRef - 1 \in 0 .. QueueSize
        BY <1>1, <2>1
    <2> QED
        BY ZenonT(60), <1>1, <1>2, <1>3, <2>2 DEF Typed, TypeOK
<1>5. Registered' = Registered /\ \A b \in Blocks : b \in Registered <=> \E id \in DOMAIN online : online[id] = b
    BY <1>1 DEF Registered
<1>6. /\ free' \in Seq(Blocks) /\ IsInjective(free')
      /\ Stored' = IF Queued(h) = 1 THEN Stored \cup {h} ELSE Stored
    <2>1. CASE msg'[h].deleteRef = 0
        <3>1. Put(h)
            BY <1>1, <2>1
        <3>2. free' \in Seq(Blocks) /\ IsInjective(free') /\ Stored' = Stored \cup {h}
            BY <1>2, <1>3, <3>1, PutStores DEF Typed, TypeOK
        <3> QED
            BY <1>2, <1>4, <2>1, <3>2
    <2>2. CASE msg'[h].deleteRef # 0
        <3>1. free' = free
            BY <1>1, <2>2
        <3>2. Stored' = Stored /\ free' \in Seq(Blocks)
            BY <3>1 DEF Stored, Typed, TypeOK
        <3>3. Queued(h) # 1
            BY <1>2, <1>4, <2>2
        <3> QED
            BY <3>1, <3>2, <3>3
    <2> QED
        BY <2>1, <2>2
<1>7. Typed'
    <2>1. TypeOK'
        BY <1>1, <1>2, <1>4, <1>5, <1>6 DEF Typed, TypeOK, timer, service
    <2> QED
        BY <1>1, <2>1 DEF Typed, timer, service
<1>8. Given' /\ Armed' /\ Calling'
    BY <1>1, <1>4 DEF Given, Armed, Calling, timer, service
<1>9. Paired'
    BY SMTT(60), <1>1, <1>2, <1>3, <1>4, <1>5, <1>6 DEF Paired, Typed
<1>10. Referenced'
    BY SMTT(60), <1>1, <1>2, <1>3, <1>4, <1>5, <1>6 DEF Referenced, service
<1>11. GivenUp'
    BY <1>1 DEF GivenUp, service
<1>12. Alive'
    BY <1>1, <1>2, <1>3, <1>4 DEF Alive, service
<1>13. NoLeak'
    BY <1>1, <1>2, <1>3, <1>4, <1>5, <1>6 DEF NoLeak, service
<1> QED
    BY <1>6, <1>7, <1>8, <1>9, <1>10, <1>11, <1>12, <1>13
\* The callback is over; after the last one the block is free, unless the timer was killed in it.
LEMMA ReturnKeeps == TimerInv /\ Return => TimerInv'
<1> SUFFICES ASSUME TimerInv, Return PROVE TimerInv'
    OBVIOUS
<1> USE DEF TimerInv
<1>1. /\ pc = "run" /\ inCall /\ inCall' = FALSE /\ cur' = NoCall
      /\ UNCHANGED <<msg, timer, queue, pc, victim, dead, lost>>
      /\ IF cur.count = 0 /\ cur.id \in DOMAIN online
         THEN Put(cur.block) /\ online' = Without(online, cur.id)
         ELSE UNCHANGED <<free, online>>
    BY DEF Return
<1>2. /\ \A b \in Blocks : Queued(b)' = Queued(b)
      /\ cur' \in [block : Blocks \cup {0}, id : 0 .. MaxTimers, count : Nat] /\ cur'.id = 0
      /\ curId \in Nat /\ 0 <= curId
    BY <1>1, SizeAssumption DEF Queued, NoCall, Typed
<1>3. Calling'
    BY <1>1 DEF Calling
<1>4. CASE cur.count = 0 /\ cur.id \in DOMAIN online
    <2>1. /\ Put(cur.block) /\ online' = Without(online, cur.id)
          /\ cur.block \in Blocks /\ online[cur.id] = cur.block /\ cur.id \notin DOMAIN heap
        BY <1>1, <1>4 DEF Calling
    <2>2. /\ DOMAIN online' = DOMAIN online \ {cur.id} /\ \A x \in DOMAIN online' : online'[x] = online[x]
          /\ Registered' = Registered \ {cur.block} /\ cur.block \in Registered \ Stored
          /\ MaxOnline = 0 \/ Cardinality(DOMAIN online') <= MaxOnline
          /\ online' \in [DOMAIN online' -> Blocks]
        BY <1>4, <2>1, FewerOnline
    <2>3. free' \in Seq(Blocks) /\ IsInjective(free') /\ Stored' = Stored \cup {cur.block}
        BY <2>1, <2>2, PutStores DEF Typed, TypeOK
    <2>4. Typed'
        <3>1. TypeOK'
            BY <1>1, <2>2, <2>3 DEF Typed, TypeOK, timer
        <3> QED
            BY <1>1, <1>2, <2>2, <3>1 DEF Typed, timer
    <2>5. Given' /\ Armed'
        BY <1>1, <1>2, <2>1, <2>2 DEF Given, Armed, timer
    <2>6. Paired'
        <3>1. \A x \in DOMAIN online' : online'[x] # cur.block
            <4>1. msg[cur.block].id = cur.id
                BY <1>4, <2>1 DEF Paired
            <4> QED
                BY <2>2, <4>1 DEF Paired
        <3> QED
            BY <1>1, <2>2, <2>3, <3>1 DEF Paired
    <2>7. Referenced' /\ GivenUp' /\ Alive' /\ NoLeak'
        BY <1>1, <1>2, <2>2, <2>3 DEF Referenced, GivenUp, Alive, NoLeak
    <2> QED
        BY <1>3, <2>3, <2>4, <2>5, <2>6, <2>7
<1>5. CASE ~(cur.count = 0 /\ cur.id \in DOMAIN online)
    <2>1. free' = free /\ online' = online /\ Stored' = Stored /\ Registered' = Registered
        BY <1>1, <1>5 DEF Stored, Registered
    <2>2. Typed' /\ Given'
        BY <1>1, <1>2, <2>1 DEF Typed, TypeOK, Given, timer
    <2>3. Paired' /\ Armed' /\ Referenced' /\ GivenUp' /\ Alive' /\ NoLeak'
        BY <1>1, <1>2, <2>1 DEF Paired, Armed, Referenced, GivenUp, Alive, NoLeak, timer
    <2> QED
        BY <1>3, <2>1, <2>2, <2>3
<1> QED
    BY <1>4, <1>5

\* The timer thread drops a killed entry.
LEMMA DropKilledKeeps == ASSUME TimerInv, NEW id \in Ids, DropKilled(id) PROVE TimerInv'
<1> USE DEF TimerInv
<1>1. /\ id \in DOMAIN heap /\ id \in killed /\ heap' = Without(heap, id) /\ killed' = killed \ {id}
      /\ UNCHANGED <<pool, online, curId, queue, service, dead, lost>>
    BY DEF DropKilled
<1>2. DOMAIN heap' = DOMAIN heap \ {id} /\ \A x \in DOMAIN heap' : heap'[x] = heap[x]
    BY <1>1 DEF Without
<1>3. Stored' = Stored /\ Registered' = Registered
    BY <1>1 DEF Stored, Registered, pool
<1>4. Typed'
    <2>1. heap' \in [DOMAIN heap' -> [block : Blocks, runs : Nat \ {0}]]
        BY <1>1, <1>2 DEF Typed, Without
    <2> QED
        BY <1>1, <1>2, <1>3, <2>1 DEF Typed, TypeOK, pool, service
<1>5. Given' /\ Paired' /\ Armed' /\ Calling'
    BY <1>1, <1>2, <1>3 DEF Given, Paired, Armed, Calling, pool, service
<1>6. Referenced' /\ GivenUp' /\ Alive' /\ NoLeak'
    BY <1>1, <1>3 DEF Referenced, GivenUp, Alive, NoLeak, pool, service, Queued
<1> QED
    BY <1>1, <1>4, <1>5, <1>6 DEF pool

\* An expiry: the entry's block is that of a registered timer, and only its messages get more.
LEMMA OnTimerKeeps ==
  ASSUME TimerInv, NEW id \in DOMAIN heap \ killed, NEW remaining \in Nat, OnTimer(id, remaining),
         heap' \in [DOMAIN heap' -> [block : Blocks, runs : Nat \ {0}]], DOMAIN heap' \subseteq DOMAIN heap,
         \A x \in DOMAIN heap' : heap'[x].block = heap[x].block,
         remaining = 0 => id \notin DOMAIN heap',
         UNCHANGED <<free, online, killed, curId, service, dead>>
  PROVE  TimerInv'
<1> USE DEF TimerInv
<1> DEFINE b == heap[id].block
<1>1. b \in Blocks /\ id \in DOMAIN online /\ online[id] = b /\ msg[b].id = id /\ msg[b].deleteRef = 0
    BY DEF Armed, Paired, Typed
<1>2. /\ msg' = [msg EXCEPT ![b].count = remaining]
      /\ queue' = queue \/ (Len(queue) < QueueSize /\ queue' = Append(queue, b))
    BY DEF OnTimer
<1>3. /\ queue' \in Seq(Blocks) /\ Len(queue') <= QueueSize
      /\ \A c \in Blocks : c # b => Queued(c)' = Queued(c)
    <2>1. queue \in Seq(Blocks) /\ Len(queue) \in Nat /\ Len(queue) <= QueueSize /\ QueueSize \in Nat
        BY LenProperties, SizeAssumption DEF Typed, TypeOK
    <2>2. CASE queue' = queue
        BY <2>1, <2>2 DEF Queued
    <2>3. CASE Len(queue) < QueueSize /\ queue' = Append(queue, b)
        <3>1. queue' \in Seq(Blocks) /\ Len(queue') = Len(queue) + 1
            BY <1>1, <2>1, <2>3, AppendProperties
        <3>2. \A c \in Blocks : c # b => Times(queue', c) = Times(queue, c)
            BY <1>1, <2>1, <2>3, TimesAppend
        <3> QED
            BY <2>1, <2>3, <3>1, <3>2 DEF Queued
    <2> QED
        BY <1>2, <2>2, <2>3
<1> HIDE DEF b
<1>4. /\ \A c \in Blocks : msg'[c].id = msg[c].id /\ msg'[c].deleteRef = msg[c].deleteRef
      /\ \A c \in Blocks : msg'[c].count = IF c = b THEN remaining ELSE msg[c].count
      /\ msg' \in [Blocks -> [id : 0 .. MaxTimers, count : Nat, deleteRef : 0 .. QueueSize]]
    <2>1. msg \in [Blocks -> [id : 0 .. MaxTimers, count : Nat, deleteRef : 0 .. QueueSize]]
        BY DEF Typed, TypeOK
    <2>2. ASSUME NEW c \in Blocks
          PROVE  /\ msg'[c].id = msg[c].id /\ msg'[c].deleteRef = msg[c].deleteRef
                 /\ msg'[c].count = IF c = b THEN remaining ELSE msg[c].count
        BY <1>1, <1>2, <2>1
    <2>3. msg' \in [Blocks -> [id : 0 .. MaxTimers, count : Nat, deleteRef : 0 .. QueueSize]]
        BY <1>1, <1>2, <2>1
    <2> QED
        BY <2>2, <2>3
<1>5. Stored' = Stored /\ Registered' = Registered /\ b \in Registered
    BY <1>1 DEF Stored, Registered
<1>6. Typed'
    <2>1. TypeOK'
        BY <1>3, <1>4, <1>5 DEF Typed, TypeOK, service
    <2> QED
        BY <2>1 DEF Typed, service
<1>7. Given' /\ Calling'
    BY <1>4 DEF Given, Calling, service
<1>8. Paired'
    BY <1>4, <1>5 DEF Paired, Typed
<1>9. Armed'
    BY <1>1, <1>4 DEF Armed
<1>10. Referenced' /\ GivenUp'
    <2>1. pc' = pc /\ victim' = victim
        BY DEF service
    <2>2. Referenced'
        <3> SUFFICES ASSUME NEW c \in Blocks, msg'[c].deleteRef > 0
                     PROVE  /\ c \notin Stored' \cup Registered' /\ msg'[c].deleteRef = Queued(c)'
                            /\ ~(pc' = "kill" /\ victim' = c)
            BY DEF Referenced
        <3>1. msg[c].deleteRef > 0 /\ c # b
            BY <1>1, <1>4
        <3>2. Queued(c)' = Queued(c)
            BY <1>3, <3>1
        <3> QED
            BY <1>4, <1>5, <2>1, <3>1, <3>2 DEF Referenced
    <2>3. GivenUp'
        BY <1>4, <1>5, <2>1 DEF GivenUp
    <2> QED
        BY <2>2, <2>3
<1>11. Alive'
    BY ZenonT(60), <1>1, <1>3, <1>4 DEF Alive, service
<1>12. NoLeak'
    BY SMTT(60), <1>1, <1>3, <1>4, <1>5 DEF NoLeak, service
<1> QED
    BY <1>6, <1>7, <1>8, <1>9, <1>10, <1>11, <1>12

\* The two ways an entry expires.
LEMMA ExpireKeeps == ASSUME TimerInv, NEW id \in Ids, Expire(id) \/ ExpireLast(id) PROVE TimerInv'
<1>1. id \in DOMAIN heap \ killed /\ heap[id].block \in Blocks /\ heap[id].runs \in Nat
    BY DEF Expire, ExpireLast, TimerInv, Typed
<1>2. CASE Expire(id)
    <2>1. /\ heap[id].runs > 1
          /\ heap' = [heap EXCEPT ![id].runs = IF @ = Endless THEN @ ELSE @ - 1]
          /\ OnTimer(id, heap'[id].runs) /\ UNCHANGED <<free, online, killed, curId, service, dead>>
        BY <1>2 DEF Expire
    <2> DEFINE left == IF heap[id].runs = Endless THEN heap[id].runs ELSE heap[id].runs - 1
    <2>2. left \in Nat \ {0}
        BY <1>1, <2>1
    <2> HIDE DEF left
    <2>3. heap' = [heap EXCEPT ![id].runs = left]
        BY <2>1 DEF left
    <2>4. /\ DOMAIN heap' = DOMAIN heap /\ heap'[id].runs = left /\ \A x \in DOMAIN heap' : heap'[x].block = heap[x].block
          /\ heap' \in [DOMAIN heap' -> [block : Blocks, runs : Nat \ {0}]]
        BY <1>1, <2>2, <2>3 DEF TimerInv, Typed
    <2>5. OnTimer(id, left) /\ left \in Nat /\ left # 0
        BY <2>1, <2>2, <2>4
    <2> QED
        BY <1>1, <2>1, <2>4, <2>5, OnTimerKeeps
<1>3. CASE ExpireLast(id)
    <2>1. /\ heap' = Without(heap, id) /\ OnTimer(id, 0) /\ UNCHANGED <<free, online, killed, curId, service, dead>>
        BY <1>3 DEF ExpireLast
    <2>2. /\ DOMAIN heap' = DOMAIN heap \ {id} /\ \A x \in DOMAIN heap' : heap'[x].block = heap[x].block
          /\ heap' \in [DOMAIN heap' -> [block : Blocks, runs : Nat \ {0}]]
        BY <2>1 DEF TimerInv, Typed, Without
    <2> QED
        BY <1>1, <2>1, <2>2, OnTimerKeeps
<1> QED
    BY <1>2, <1>3
-------------------------------------------------------------------------------
\* TimerInv is an invariant of both threads.
LEMMA TimerStep == TimerInv /\ [Next]_vars => TimerInv'
<1> SUFFICES ASSUME TimerInv, [Next]_vars PROVE TimerInv'
    OBVIOUS
<1>1. CASE UNCHANGED vars
    BY SMTT(60), <1>1 DEF vars, pool, timer, service, TimerInv, Typed, TypeOK, Given, Paired, Armed, Referenced, GivenUp, Calling,
                Alive, NoLeak, Stored, Registered, Queued
<1>2. CASE Handling
    BY <1>2, KillTimerEndsKeeps, TakeLiveKeeps, TakeKilledKeeps, ReturnKeeps DEF Handling
<1>3. ASSUME NEW c \in Counts, SetTimer(c) PROVE TimerInv'
    BY <1>3, SetTimerKeeps
<1>4. ASSUME NEW id \in Ids, KillTimer(id) \/ TimerThread(id) PROVE TimerInv'
    BY <1>4, KillTimerKeeps, DropKilledKeeps, ExpireKeeps DEF TimerThread
<1> QED
    BY <1>1, <1>2, <1>3, <1>4 DEF Next

\* Entries of the heap, registered timers, blocks and queued messages agree at every step.
THEOREM TimersInvariant == Spec => []TimerInv
BY InitTimer, TimerStep, PTL DEF Spec

\* Every block of the pool is in one place: free once, or the block of one registered timer, or on its way
\* back with exactly the messages that still refer to it, wherever the two threads stand.
THEOREM BlocksAreSound == Spec => []BlocksSound
<1>1. TimerInv => BlocksSound
    BY DEF TimerInv, Typed, Paired, BlocksSound, PoolSound, Registered
<1> QED
    BY <1>1, TimersInvariant, PTL

\* When killTimer has answered, the timer's callback isn't called again.
THEOREM KillsAreFinal == Spec => KillIsFinal
<1>1. TimerInv /\ [Next]_vars => [~inCall /\ inCall' => cur'.id \notin dead]_vars
    <2> SUFFICES ASSUME TimerInv, Next, ~inCall, inCall' PROVE cur'.id \notin dead
        OBVIOUS
    <2>1. TakeLive
        BY DEF Next, Handling, TimerThread, KillTimerEnds, TakeKilled, Return, SetTimer, KillTimer, DropKilled, Expire,
               ExpireLast, service
    <2> QED
        BY <2>1, TakeLiveKeeps
<1> QED
    BY <1>1, TimersInvariant, PTL DEF Spec, KillIsFinal
================================================================================
