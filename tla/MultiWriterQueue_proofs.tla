------------------------- MODULE MultiWriterQueue_proofs -------------------------
(***************************************************************************)
(* CMultiW_SingleR_Queue is safe for any number of writers, any ring size  *)
(* and any number of calls.  Four invariants, one on top of the other:     *)
(*   Safe   who may store where (NoOverwrite, ReadIsStable), under either  *)
(*          memory model;                                                  *)
(*   Ring   the occupied slots are one run from the oldest to m_write;     *)
(*   Counted  there are as many messages as taken slots, from which the    *)
(*          refinement of the bounded FIFO follows step by step;           *)
(*   Wake   in sequentially consistent memory, what a reader that blocks   *)
(*          has missed is known to a writer.                               *)
(***************************************************************************)
EXTENDS MultiWriterQueue, FiniteSetTheorems, SequenceTheorems, TLAPS

\* A writer inside put() has been counted, and the reader leaves its critical section
\* with nothing or with what its slot holds.
Safe ==
  /\ TypeOK /\ NoOverwrite /\ ReadIsStable
  /\ \A w \in Writers : wpc[w] # "idle" => calls[w] > 0
  /\ rpc = "lower" => data = NULL \/ buff[NextRead] = data

\* The oldest message lies at Head0, and m_write is the slot behind the newest.
Ring ==
  /\ \A i \in Slots : Head0 < mWrite => (buff[i] # NULL <=> Head0 <= i /\ i < mWrite)
  /\ \A i \in Slots : mWrite < Head0 => (buff[i] # NULL <=> Head0 <= i \/ i < mWrite)
  /\ Head0 = mWrite => \A i, j \in Slots : buff[i] = NULL <=> buff[j] = NULL

\* Behind the second read under m_notifyMutex the flag is up, and whoever fills the slot
\* from then on hasn't asked for it yet, or is about to notify.
Wake ==
  ~tso =>
    /\ ~buffered
    /\ rpc \in {"again", "wait", "blocked", "woken", "lower"} => isWait
    /\ rpc \in {"wait", "blocked"} /\ buff[NextRead] # NULL
         => \E w \in Writers : wpc[w] \in {"ask", "notify"}
-------------------------------------------------------------------------------
\* The index arithmetic of the ring: one step forward, around the end.
LEMMA AdvanceCases ==
  ASSUME NEW i \in Slots
  PROVE  /\ Advance(i) \in Slots
         /\ Advance(i) = IF i = Size - 1 THEN 0 ELSE i + 1
<1>1. Size \in Nat /\ Size > 1 /\ i \in Nat /\ i < Size
    BY SizeAssumption DEF Slots
<1>2. CASE i = Size - 1
    <2>1. i + 1 = Size /\ Size % Size = 0
        BY <1>1, <1>2
    <2> QED
        BY <1>1, <1>2, <2>1 DEF Advance, Slots
<1>3. CASE i # Size - 1
    <2>1. i + 1 < Size /\ (i + 1) % Size = i + 1
        BY <1>1, <1>3
    <2> QED
        BY <1>1, <1>3, <2>1 DEF Advance, Slots
<1> QED
    BY <1>2, <1>3

\* Slot numbers of the initial indices.
LEMMA FirstSlots == 0 \in Slots /\ 1 \in Slots
BY SizeAssumption DEF Slots

\* The initial state is safe.
LEMMA InitSafe == Init => Safe
<1> SUFFICES ASSUME Init PROVE Safe
    OBVIOUS
<1>1. TypeOK
    <2>1. /\ buff \in [Slots -> Items \cup {NULL}]
          /\ tso \in BOOLEAN /\ writeOwner \in Writers \cup {NoOne}
        BY DEF Init
    <2>2. seen \in [Writers -> Slots] /\ mWrite \in Slots /\ mRead \in Slots
        BY FirstSlots DEF Init
    <2>3. 0 \in 0 .. MaxPuts
        BY MaxPutsAssumption
    <2>4. calls \in [Writers -> 0 .. MaxPuts]
        BY <2>3 DEF Init
    <2>5. /\ wpc \in [Writers -> {"idle", "probe", "store", "ask", "notify"}]
          /\ wasEmpty \in [Writers -> BOOLEAN]
        BY DEF Init
    <2> QED
        BY <2>1, <2>2, <2>4, <2>5 DEF Init, TypeOK
<1> QED
    BY <1>1 DEF Init, Safe, NoOverwrite, ReadIsStable

\* A step of put() keeps it: only the owner of m_writeMutex stores, and only into a slot
\* it found empty, which is never the slot the reader is looking at.
LEMMA PutSafe ==
  ASSUME Safe, NEW w \in Writers, RefusePut(w) \/ BeginPut(w) \/ Putting(w)
  PROVE  Safe'
<1> USE NoOneAssumption, NullAssumption, MaxPutsAssumption
        DEF Safe, TypeOK, NoOverwrite, ReadIsStable, NextRead
<1>0. Advance(mRead) \in Slots /\ Advance(mWrite) \in Slots
    BY AdvanceCases
<1>1. CASE RefusePut(w)
    BY <1>1 DEF RefusePut, ring, flag, local
<1>2. CASE BeginPut(w)
    BY <1>2 DEF BeginPut, ring, flag, local
<1>3. CASE Probe(w)
    BY <1>3 DEF Probe, ring, flag, local
<1>4. CASE Store(w)
    <2>1. <<w, calls[w]>> \in Items
        BY <1>4 DEF Store, Items
    <2>2. rpc = "clear" \/ (rpc = "lower" /\ data # NULL) => mWrite # Advance(mRead)
        BY <1>4 DEF Store
    <2> QED
        BY <1>0, <1>4, <2>1, <2>2 DEF Store, flag, local
<1>5. CASE AskNotify(w)
    BY <1>5 DEF AskNotify, ring, flag, local
<1>6. CASE Notify(w)
    BY <1>6 DEF Notify, ring, flag, local
<1> QED
    BY <1>1, <1>2, <1>3, <1>4, <1>5, <1>6 DEF Putting

\* So does a step of get(), or the end of a wait: only the reader empties a slot.
LEMMA GetSafe == Safe /\ (Getting \/ Drain \/ WaitEnds) => Safe'
<1> SUFFICES ASSUME Safe, Getting \/ Drain \/ WaitEnds PROVE Safe'
    OBVIOUS
<1> USE NullAssumption DEF Safe, TypeOK, NoOverwrite, ReadIsStable, NextRead
<1>0. Advance(mRead) \in Slots
    BY AdvanceCases
<1>1. CASE Look
    BY <1>0, <1>1 DEF Look, ring, writerVars, flag
<1>2. CASE RaiseFlag
    BY <1>2 DEF RaiseFlag, ring, writerVars, local
<1>3. CASE LookAgain
    BY <1>0, <1>3 DEF LookAgain, ring, writerVars, flag
<1>4. CASE Block
    BY <1>4 DEF Block, ring, writerVars, local
<1>5. CASE Reload
    BY <1>0, <1>5 DEF Reload, ring, writerVars, flag
<1>6. CASE LowerFlag
    BY <1>6 DEF LowerFlag, ring, writerVars, local
<1>7. CASE Clear
    BY <1>0, <1>7 DEF Clear, writerVars, flag, local
<1>8. CASE AdvanceRead
    BY <1>0, <1>8 DEF AdvanceRead, writerVars, flag, local
<1>9. CASE Drain
    BY ZenonT(60), <1>9 DEF Drain, ring, writerVars, local
<1>10. CASE WaitEnds
    BY <1>10 DEF WaitEnds, ring, writerVars, flag
<1> QED
    BY <1>1, <1>2, <1>3, <1>4, <1>5, <1>6, <1>7, <1>8, <1>9, <1>10 DEF Getting

\* Safe is an invariant, whatever the memory model and the number of writers.
THEOREM QueueSafe == Spec => []Safe
<1>1. Safe /\ [Next]_vars => Safe'
    <2> SUFFICES ASSUME Safe, [Next]_vars PROVE Safe'
        OBVIOUS
    <2>1. CASE \E w \in Writers : RefusePut(w) \/ BeginPut(w) \/ Putting(w)
        BY <2>1, PutSafe
    <2>2. CASE Getting \/ Drain \/ WaitEnds
        BY <2>2, GetSafe
    <2>3. CASE UNCHANGED vars
        BY <2>3 DEF vars, ring, writerVars, flag, local, Safe, TypeOK, NoOverwrite,
                    ReadIsStable, NextRead
    <2> QED
        BY <2>1, <2>2, <2>3 DEF Next
<1> QED
    BY <1>1, InitSafe, PTL DEF Spec

\* Types, and the two halves of the protocol on a slot: a writer never overwrites a message
\* and the reader never clears one it didn't return.
THEOREM TypesOK == Spec => []TypeOK
BY QueueSafe, PTL DEF Safe
\* No writer stores into a slot that holds a message.
THEOREM NothingOverwritten == Spec => []NoOverwrite
BY QueueSafe, PTL DEF Safe
\* What the reader returns is what its slot held.
THEOREM ReadsAreStable == Spec => []ReadIsStable
BY QueueSafe, PTL DEF Safe
-------------------------------------------------------------------------------
\* The oldest message's slot is a slot.
LEMMA Head0InSlots == TypeOK => Head0 \in Slots /\ NextRead \in Slots
BY AdvanceCases DEF TypeOK, Head0, NextRead

\* A store extends the run of occupied slots at its end, a clear shortens it at its
\* beginning; the other steps leave it alone.
LEMMA RingStep == Safe /\ Ring /\ [Next]_vars => Ring'
<1> SUFFICES ASSUME Safe, Ring, [Next]_vars PROVE Ring'
    OBVIOUS
<1>0. /\ mWrite \in Slots /\ mRead \in Slots /\ Head0 \in Slots /\ NextRead \in Slots
      /\ Advance(mWrite) \in Slots /\ Advance(NextRead) \in Slots
      /\ Advance(mWrite) = IF mWrite = Size - 1 THEN 0 ELSE mWrite + 1
      /\ Advance(NextRead) = IF NextRead = Size - 1 THEN 0 ELSE NextRead + 1
      /\ buff \in [Slots -> Items \cup {NULL}]
    BY Head0InSlots, AdvanceCases DEF Safe, TypeOK
<1>1. CASE \E w \in Writers : Store(w)
    <2> PICK w \in Writers : Store(w)
        BY <1>1
    <2>1. Head0' = Head0 /\ mWrite' = Advance(mWrite) /\ mWrite' \in Slots
        BY <1>0 DEF Store, Head0, NextRead, flag, local
    <2>2. buff' = [buff EXCEPT ![mWrite] = <<w, calls[w]>>] /\ <<w, calls[w]>> # NULL
        BY NullAssumption DEF Store, Safe, TypeOK, Items
    <2>3. buff[mWrite] = NULL
        BY DEF Store, Safe, NoOverwrite
    <2>4. /\ \A i \in Slots : buff'[i] # NULL <=> i = mWrite \/ buff[i] # NULL
          /\ \A i \in Slots : i \in Nat /\ i < Size
        BY <1>0, <2>2, SizeAssumption DEF Slots
    <2> QED
        BY <1>0, <2>1, <2>3, <2>4, SizeAssumption DEF Ring, Slots
<1>2. CASE Clear
    <2>1. Head0 = NextRead /\ Head0' = Advance(Head0) /\ mWrite' = mWrite
        BY <1>2 DEF Clear, Head0, NextRead
    <2>2. buff' = [buff EXCEPT ![Head0] = NULL]
        BY <1>2, <2>1 DEF Clear
    <2>3. buff[Head0] # NULL
        BY <1>2, <2>1 DEF Clear, Safe, ReadIsStable
    <2>4. /\ \A i \in Slots : buff'[i] # NULL <=> i # Head0 /\ buff[i] # NULL
          /\ \A i \in Slots : i \in Nat /\ i < Size
        BY <1>0, <2>2, SizeAssumption DEF Slots
    <2> QED
        BY <1>0, <2>1, <2>3, <2>4, SizeAssumption DEF Ring, Slots
<1>3. CASE AdvanceRead
    BY <1>3 DEF AdvanceRead, Ring, Head0, NextRead
<1>4. ASSUME UNCHANGED ring, (rpc = "advance") = (rpc' = "advance") PROVE Ring'
    BY <1>4 DEF ring, Ring, Head0, NextRead
<1>5. ASSUME NEW w \in Writers,
             RefusePut(w) \/ BeginPut(w) \/ Probe(w) \/ AskNotify(w) \/ Notify(w)
      PROVE  UNCHANGED ring /\ (rpc = "advance") = (rpc' = "advance")
    BY <1>5 DEF RefusePut, BeginPut, Probe, AskNotify, Notify
<1>6. ASSUME \/ Look \/ RaiseFlag \/ LookAgain \/ Block \/ Reload \/ LowerFlag \/ Drain
             \/ WaitEnds \/ UNCHANGED vars
      PROVE  UNCHANGED ring /\ (rpc = "advance") = (rpc' = "advance")
    BY <1>6 DEF Look, RaiseFlag, LookAgain, Block, Reload, LowerFlag, Drain, WaitEnds, vars
<1> QED
    BY <1>1, <1>2, <1>3, <1>4, <1>5, <1>6 DEF Next, Putting, Getting

\* Ring is an invariant.
THEOREM RingContiguous == Spec => []Ring
<1>1. Init => Ring
    BY FirstSlots, AdvanceCases, SizeAssumption DEF Init, Ring, Head0, NextRead, Slots
<1> QED
    BY <1>1, RingStep, QueueSafe, PTL DEF Spec

\* The writer looks at one slot only, and is right about all of them: put() answers
\* QueueFull only when every slot is taken.
THEOREM RefusalsJustified == Spec => RefusedOnlyWhenFull
<1>1. ASSUME Safe, Ring, buff[mWrite] # NULL
      PROVE  \A i \in Slots : buff[i] # NULL
    <2>1. /\ mWrite \in Slots /\ Head0 \in Slots
          /\ mWrite \in Nat /\ Head0 \in Nat
        BY <1>1, Head0InSlots DEF Safe, TypeOK, Slots
    <2> QED
        BY <1>1, <2>1 DEF Ring
<1>2. ASSUME Safe, Ring, [Next]_vars
      PROVE  [\A w \in Writers : calls'[w] # calls[w] /\ wpc'[w] = "idle"
                                   => \A i \in Slots : buff[i] # NULL]_vars
    <2>1. ASSUME NEW w \in Writers, calls'[w] # calls[w], wpc'[w] = "idle", Next
          PROVE  RefusePut(w)
        BY <1>2, <2>1
           DEF Next, Putting, Getting, RefusePut, BeginPut, Probe, Store, AskNotify, Notify,
               Look, RaiseFlag, LookAgain, Block, Reload, LowerFlag, Clear, AdvanceRead, Drain,
               WaitEnds, Safe, TypeOK, writerVars
    <2> QED
        BY <1>1, <1>2, <2>1 DEF RefusePut
<1> QED
    BY <1>2, QueueSafe, RingContiguous, PTL DEF Spec, RefusedOnlyWhenFull
-------------------------------------------------------------------------------
\* Every step keeps what a blocking reader relies on.
LEMMA WakeStep == Safe /\ Wake /\ [Next]_vars => Wake'
<1> SUFFICES ASSUME Safe, Wake, [Next]_vars PROVE Wake'
    OBVIOUS
<1> USE DEF Wake, NextRead
<1>0. wpc \in [Writers -> {"idle", "probe", "store", "ask", "notify"}]
    BY DEF Safe, TypeOK
<1>1. ASSUME NEW w \in Writers, RefusePut(w) \/ BeginPut(w) \/ Putting(w)
      PROVE  Wake'
    <2>1. CASE RefusePut(w)
        BY <2>1 DEF RefusePut, ring, flag
    <2>2. CASE BeginPut(w)
        BY <1>0, <2>2 DEF BeginPut, ring, flag
    <2>3. CASE Probe(w)
        BY <1>0, <2>3 DEF Probe, ring, flag
    <2>4. CASE Store(w)
        BY <1>0, <2>4 DEF Store, flag
    <2>5. CASE AskNotify(w)
        BY <1>0, <2>5 DEF AskNotify, ring, flag
    <2>6. CASE Notify(w)
        BY <1>0, <2>6 DEF Notify, ring, flag, ReaderHolds
    <2> QED
        BY <1>1, <2>1, <2>2, <2>3, <2>4, <2>5, <2>6 DEF Putting
<1>2. CASE Look \/ RaiseFlag \/ LookAgain \/ Block
    BY <1>2 DEF Look, RaiseFlag, LookAgain, Block, ring, writerVars, flag
<1>3. CASE Reload \/ LowerFlag \/ Clear \/ AdvanceRead
    BY <1>3 DEF Reload, LowerFlag, Clear, AdvanceRead, ring, writerVars, flag
<1>4. CASE Drain \/ WaitEnds
    BY <1>4 DEF Drain, WaitEnds, ring, writerVars, flag
<1>5. CASE UNCHANGED vars
    BY <1>5 DEF vars, ring, writerVars, flag
<1> QED
    BY <1>1, <1>2, <1>3, <1>4, <1>5 DEF Next, Getting

\* In sequentially consistent memory a reader asleep over a message is about to be woken.
THEOREM WakeupsArrive == Spec => []NoLostWakeup
<1>1. Init => Wake
    BY DEF Init, Wake
<1>2. Wake => NoLostWakeup
    BY DEF Wake, NoLostWakeup, WakeupIsComing
<1> QED
    BY <1>1, <1>2, WakeStep, QueueSafe, PTL DEF Spec
-------------------------------------------------------------------------------
\* The slot that lies c slots behind slot i, around the end of the ring.
Behind(i, c) == IF i + c < Size THEN i + c ELSE i + c - Size

\* It is what the code's remainder computes; c + 1 slots behind i is one further; and up
\* to a whole turn, different distances lead to different slots.
LEMMA BehindIsRemainder ==
  ASSUME NEW i \in Slots, NEW c \in 0 .. Size
  PROVE  Behind(i, c) \in Slots /\ (i + c) % Size = Behind(i, c)
<1>1. Size \in Nat /\ Size > 1 /\ i \in Nat /\ i < Size /\ c \in Nat /\ c <= Size
    BY SizeAssumption DEF Slots
<1>2. CASE i + c < Size
    BY <1>1, <1>2 DEF Behind, Slots
<1>3. CASE ~(i + c < Size)
    <2>1. i + c - Size \in 0 .. Size - 1 /\ i + c = Size + (i + c - Size)
        BY <1>1, <1>3
    <2>2. (i + c) % Size = i + c - Size
        BY <1>1, <2>1
    <2> QED
        BY <1>3, <2>1, <2>2 DEF Behind, Slots
<1> QED
    BY <1>2, <1>3

\* Going on by one slot, from either end of a run.
LEMMA BehindMoves ==
  ASSUME NEW i \in Slots, NEW c \in 0 .. Size - 1
  PROVE  /\ Advance(Behind(i, c)) = Behind(i, c + 1)
         /\ Behind(Advance(i), c) = Behind(i, c + 1)
         /\ \A d \in 0 .. Size - 1 : d # c => Behind(i, d) # Behind(i, c)
<1>1. Size \in Nat /\ Size > 1 /\ i \in Nat /\ i < Size /\ c \in Nat /\ c < Size /\ c \in 0 .. Size
    BY SizeAssumption DEF Slots
<1>2. Behind(i, c) \in Slots
    BY <1>1, BehindIsRemainder
<1>3. /\ Advance(i) = IF i = Size - 1 THEN 0 ELSE i + 1
      /\ Advance(Behind(i, c)) = IF Behind(i, c) = Size - 1 THEN 0 ELSE Behind(i, c) + 1
    BY <1>2, AdvanceCases
<1>4. Advance(Behind(i, c)) = Behind(i, c + 1)
    BY <1>1, <1>3 DEF Behind
<1>5. Behind(Advance(i), c) = Behind(i, c + 1)
    BY <1>1, <1>3 DEF Behind
<1>6. \A d \in 0 .. Size - 1 : d # c => Behind(i, d) # Behind(i, c)
    BY <1>1 DEF Behind
<1> QED
    BY <1>4, <1>5, <1>6

\* As many messages as there are taken slots lie from the oldest to m_write.
Counted == mWrite = Behind(Head0, Cardinality(Occupied))

\* There are no more of them than slots.
LEMMA OccupiedIsFinite == IsFiniteSet(Occupied) /\ Cardinality(Occupied) \in 0 .. Size
<1>1. Size \in Nat /\ 0 \in Int /\ Size - 1 \in Int /\ Size - 1 >= 0
    BY SizeAssumption
<1>2. IsFiniteSet(Slots) /\ Cardinality(Slots) = Size
    BY <1>1, FS_Interval DEF Slots
<1>3. Occupied \subseteq Slots
    BY DEF Occupied
<1>4. IsFiniteSet(Occupied) /\ Cardinality(Occupied) <= Size
    BY <1>2, <1>3, FS_Subset
<1>5. Cardinality(Occupied) \in Nat
    BY <1>4, FS_CardinalityType
<1> QED
    BY <1>1, <1>4, <1>5

\* What a store does to the taken slots, and what a clear does.
LEMMA StoreOccupies ==
  ASSUME Safe, Counted, NEW w \in Writers, Store(w)
  PROVE  /\ mWrite \in Slots \ Occupied /\ Head0' = Head0 /\ Head0 \in Slots
         /\ Cardinality(Occupied)' = Cardinality(Occupied) + 1
         /\ Cardinality(Occupied) \in 0 .. Size - 1 /\ Counted'
<1>1. /\ mWrite \in Slots /\ buff \in [Slots -> Items \cup {NULL}] /\ buff[mWrite] = NULL
      /\ Head0 \in Slots
    BY Head0InSlots DEF Store, Safe, TypeOK, NoOverwrite
<1>2. /\ buff' = [buff EXCEPT ![mWrite] = <<w, calls[w]>>] /\ <<w, calls[w]>> # NULL
      /\ mWrite' = Advance(mWrite) /\ Head0' = Head0
    BY NullAssumption DEF Store, Safe, TypeOK, Items, Head0, NextRead, flag, local
<1>3. Occupied' = Occupied \cup {mWrite} /\ mWrite \notin Occupied
    BY <1>1, <1>2 DEF Occupied
<1>4. IsFiniteSet(Occupied) /\ Cardinality(Occupied) \in 0 .. Size
    BY OccupiedIsFinite
<1>5. Cardinality(Occupied') = Cardinality(Occupied) + 1
    BY <1>3, <1>4, FS_AddElement
<1>6. Cardinality(Occupied') \in 0 .. Size
    <2>1. (Cardinality(Occupied) \in 0 .. Size)'
        BY OccupiedIsFinite, PTL
    <2> QED
        BY <2>1
<1>7. Cardinality(Occupied) \in 0 .. Size - 1
    BY <1>4, <1>5, <1>6, SizeAssumption
<1>8. Counted'
    BY <1>1, <1>2, <1>5, <1>7, BehindMoves DEF Counted
<1> QED
    BY <1>1, <1>2, <1>3, <1>5, <1>7, <1>8

\* The reader takes the oldest message and leaves its slot.
LEMMA ClearVacates ==
  ASSUME Safe, Counted, Clear
  PROVE  /\ Head0 \in Slots /\ Head0 \in Occupied /\ Head0' = Advance(Head0) /\ Head0 = NextRead
         /\ Cardinality(Occupied) \in 1 .. Size
         /\ Cardinality(Occupied)' = Cardinality(Occupied) - 1 /\ Counted'
<1>1. Head0 = NextRead /\ Head0' = Advance(Head0) /\ mWrite' = mWrite /\ Head0 \in Slots
    BY Head0InSlots DEF Clear, Head0, NextRead, Safe
<1>2. buff' = [buff EXCEPT ![Head0] = NULL] /\ buff \in [Slots -> Items \cup {NULL}]
    BY <1>1 DEF Clear, Safe, TypeOK
<1>3. buff[Head0] # NULL
    BY <1>1 DEF Clear, Safe, ReadIsStable
<1>4. Occupied' = Occupied \ {Head0} /\ Head0 \in Occupied
    BY <1>1, <1>2, <1>3 DEF Occupied
<1>5. IsFiniteSet(Occupied) /\ Cardinality(Occupied) \in 0 .. Size
    BY OccupiedIsFinite
<1>6. Cardinality(Occupied') = Cardinality(Occupied) - 1 /\ Occupied # {}
    BY <1>4, <1>5, FS_RemoveElement
<1>7. Cardinality(Occupied) \in 1 .. Size
    BY <1>5, <1>6, FS_EmptySet, SizeAssumption
<1>8. Counted'
    <2>1. Cardinality(Occupied) - 1 \in 0 .. Size - 1 /\ (Cardinality(Occupied) - 1) + 1 = Cardinality(Occupied)
        BY <1>7, SizeAssumption
    <2> QED
        BY <1>1, <1>6, <2>1, BehindMoves DEF Counted
<1> QED
    BY <1>1, <1>4, <1>6, <1>7, <1>8
\* What is neither a store nor a clear leaves slots, m_write and the oldest message's slot alone.
LEMMA OtherSteps ==
  ASSUME Safe, [Next]_vars, ~(\E w \in Writers : Store(w)), ~Clear
  PROVE  UNCHANGED <<buff, mWrite, Head0, returned>>
<1>1. CASE AdvanceRead
    BY <1>1 DEF AdvanceRead, Head0, NextRead
<1>2. ASSUME UNCHANGED <<ring, returned>>, (rpc = "advance") = (rpc' = "advance")
      PROVE  UNCHANGED <<buff, mWrite, Head0, returned>>
    BY <1>2 DEF ring, Head0, NextRead
<1>3. ASSUME NEW w \in Writers,
             RefusePut(w) \/ BeginPut(w) \/ Probe(w) \/ AskNotify(w) \/ Notify(w)
      PROVE  UNCHANGED <<ring, returned>> /\ (rpc = "advance") = (rpc' = "advance")
    BY <1>3 DEF RefusePut, BeginPut, Probe, AskNotify, Notify
<1>4. ASSUME \/ Look \/ RaiseFlag \/ LookAgain \/ Block \/ Reload \/ LowerFlag \/ Drain
             \/ WaitEnds \/ UNCHANGED vars
      PROVE  UNCHANGED <<ring, returned>> /\ (rpc = "advance") = (rpc' = "advance")
    BY <1>4 DEF Look, RaiseFlag, LookAgain, Block, Reload, LowerFlag, Drain, WaitEnds, vars
<1> QED
    BY <1>1, <1>2, <1>3, <1>4 DEF Next, Putting, Getting

\* Counted is an invariant.
THEOREM MessagesCounted == Spec => []Counted
<1>1. Init => Counted
    <2> SUFFICES ASSUME Init PROVE Counted
        OBVIOUS
    <2>1. Occupied = {}
        BY DEF Init, Occupied
    <2>2. Cardinality(Occupied) = 0
        BY <2>1, FS_EmptySet
    <2>3. Head0 = 1
        BY FirstSlots, AdvanceCases, SizeAssumption DEF Init, Head0, NextRead
    <2> QED
        BY <2>2, <2>3, SizeAssumption DEF Init, Counted, Behind
<1>2. Safe /\ Counted /\ [Next]_vars => Counted'
    <2> SUFFICES ASSUME Safe, Counted, [Next]_vars PROVE Counted'
        OBVIOUS
    <2>1. ASSUME UNCHANGED <<buff, mWrite, Head0>> PROVE Counted'
        BY <2>1 DEF Counted, Occupied, Behind
    <2> QED
        BY <2>1, StoreOccupies, ClearVacates, OtherSteps
<1> QED
    BY <1>1, <1>2, QueueSafe, PTL DEF Spec

\* The messages, oldest first, and that they are a sequence.
Messages == [k \in 1 .. Cardinality(Occupied) |-> buff[(Head0 + k - 1) % Size]]

\* One message for each occupied slot.
LEMMA MessagesIsSeq ==
  ASSUME TypeOK
  PROVE  /\ Messages \in Seq(Items \cup {NULL}) /\ Len(Messages) = Cardinality(Occupied)
         /\ \A k \in 1 .. Cardinality(Occupied) : Messages[k] = buff[Behind(Head0, k - 1)]
<1>1. Cardinality(Occupied) \in Nat /\ Cardinality(Occupied) <= Size /\ Size \in Nat
    BY OccupiedIsFinite, SizeAssumption
<1>2. Head0 \in Slots /\ Head0 \in Nat
    BY Head0InSlots DEF Slots
<1>3. ASSUME NEW k \in 1 .. Cardinality(Occupied)
      PROVE  /\ buff[(Head0 + k - 1) % Size] = buff[Behind(Head0, k - 1)]
             /\ buff[(Head0 + k - 1) % Size] \in Items \cup {NULL}
    <2>1. k - 1 \in 0 .. Size /\ Head0 + k - 1 = Head0 + (k - 1)
        BY <1>1, <1>2
    <2>2. (Head0 + k - 1) % Size = Behind(Head0, k - 1) /\ Behind(Head0, k - 1) \in Slots
        BY <1>2, <2>1, BehindIsRemainder
    <2> QED
        BY <2>2 DEF TypeOK
<1>4. Messages \in [1 .. Cardinality(Occupied) -> Items \cup {NULL}]
    BY <1>3 DEF Messages
<1>5. Messages \in Seq(Items \cup {NULL}) /\ Len(Messages) = Cardinality(Occupied)
    BY <1>1, <1>4, LenProperties
<1> QED
    BY <1>3, <1>5 DEF Messages

\* The same of the next state.
LEMMA MessagesIsSeqNext ==
  ASSUME TypeOK'
  PROVE  /\ Messages' \in Seq(Items \cup {NULL}) /\ Len(Messages') = Cardinality(Occupied)'
         /\ \A k \in 1 .. Cardinality(Occupied)' : Messages'[k] = buff'[Behind(Head0', k - 1)]
<1>1. (TypeOK => /\ Messages \in Seq(Items \cup {NULL}) /\ Len(Messages) = Cardinality(Occupied)
                 /\ \A k \in 1 .. Cardinality(Occupied) : Messages[k] = buff[Behind(Head0, k - 1)])'
    BY MessagesIsSeq, PTL
<1> QED
    BY <1>1 DEF Behind, Items

\* A store is a put: the message is the newest one, and there was room for it.
LEMMA StorePuts ==
  ASSUME Safe, Safe', Counted, NEW w \in Writers, Store(w)
  PROVE  \E i \in Items : Fifo!Put(i)
<1> DEFINE item == <<w, calls[w]>>
<1>1. item \in Items /\ buff' = [buff EXCEPT ![mWrite] = item] /\ returned' = returned
    BY DEF Store, Safe, TypeOK, Items
<1>2. /\ mWrite \in Slots \ Occupied /\ Head0' = Head0 /\ Head0 \in Slots
      /\ Cardinality(Occupied)' = Cardinality(Occupied) + 1
      /\ Cardinality(Occupied) \in 0 .. Size - 1
    BY StoreOccupies
<1> PICK n \in 0 .. Size - 1 : n = Cardinality(Occupied)
    BY <1>2
<1>3. Size \in Nat /\ buff \in [Slots -> Items \cup {NULL}] /\ mWrite = Behind(Head0, n)
    BY SizeAssumption DEF Safe, TypeOK, Counted
<1>4. Messages \in Seq(Items \cup {NULL}) /\ Len(Messages) = n
      /\ \A k \in 1 .. n : Messages[k] = buff[Behind(Head0, k - 1)]
    BY MessagesIsSeq DEF Safe
<1>5. Messages' \in Seq(Items \cup {NULL}) /\ Len(Messages') = n + 1
      /\ \A k \in 1 .. n + 1 : Messages'[k] = buff'[Behind(Head0, k - 1)]
    BY <1>2, MessagesIsSeqNext DEF Safe
<1>6. Messages' = Append(Messages, item)
    <2> HIDE DEF Messages, item
    <2> DEFINE m == Append(Messages, item)
    <2>1. m \in Seq(Items \cup {NULL}) /\ Len(m) = n + 1 /\ m[n + 1] = item /\ \A k \in 1 .. n : m[k] = Messages[k]
        BY <1>1, <1>4, AppendProperties
    <2>2. ASSUME NEW k \in 1 .. n + 1 PROVE Messages'[k] = m[k]
        <3>1. CASE k = n + 1
            <4>1. Messages'[k] = buff'[mWrite]
                BY <1>3, <1>5, <3>1
            <4> QED
                BY <1>1, <1>2, <1>3, <2>1, <3>1, <4>1
        <3>2. CASE k \in 1 .. n
            <4>1. k - 1 \in 0 .. Size - 1 /\ k - 1 # n
                BY <1>3, <3>2
            <4>2. Behind(Head0, k - 1) # mWrite /\ Behind(Head0, k - 1) \in Slots
                BY SMTT(60), <1>2, <1>3, <4>1, BehindMoves, BehindIsRemainder
            <4>3. buff'[Behind(Head0, k - 1)] = buff[Behind(Head0, k - 1)]
                BY <1>1, <1>3, <4>2
            <4>4. Messages'[k] = buff'[Behind(Head0, k - 1)] /\ Messages[k] = buff[Behind(Head0, k - 1)]
                BY <1>4, <1>5, <3>2
            <4> QED
                BY <2>1, <3>2, <4>3, <4>4
        <3>3. k = n + 1 \/ k \in 1 .. n
            OBVIOUS
        <3> QED
            BY <3>1, <3>2, <3>3
    <2> HIDE DEF m
    <2>3. m = Messages'
        BY <1>5, <2>1, <2>2, SeqEqual
    <2> QED
        BY <2>3 DEF m
<1>7. Len(Messages) < Size
    BY <1>3, <1>4
<1> QED
    BY <1>1, <1>6, <1>7 DEF Fifo!Put, Messages

\* A clear is a get: what the reader hands out is the oldest message.
LEMMA ClearGets ==
  ASSUME Safe, Safe', Counted, Clear
  PROVE  Fifo!Get
<1>1. /\ Head0 \in Slots /\ Head0 \in Occupied /\ Head0' = Advance(Head0) /\ Head0 = NextRead
      /\ Cardinality(Occupied) \in 1 .. Size
      /\ Cardinality(Occupied)' = Cardinality(Occupied) - 1
    BY ClearVacates
<1>2. buff' = [buff EXCEPT ![Head0] = NULL] /\ returned' = buff[Head0] /\ buff \in [Slots -> Items \cup {NULL}]
    BY <1>1 DEF Clear, Safe, ReadIsStable, TypeOK
<1> PICK n \in 1 .. Size : n = Cardinality(Occupied)
    BY <1>1
<1>3. Size \in Nat /\ Size > 1 /\ Head0 \in Nat /\ Head0 < Size
    BY <1>1, SizeAssumption DEF Slots
<1>4. Messages \in Seq(Items \cup {NULL}) /\ Len(Messages) = n
      /\ \A k \in 1 .. n : Messages[k] = buff[Behind(Head0, k - 1)]
    BY MessagesIsSeq DEF Safe
<1>5. Messages' \in Seq(Items \cup {NULL}) /\ Len(Messages') = n - 1
      /\ \A k \in 1 .. n - 1 : Messages'[k] = buff'[Behind(Advance(Head0), k - 1)]
    BY <1>1, MessagesIsSeqNext DEF Safe
<1>6. Messages # <<>> /\ Head(Messages) = buff[Head0]
    <2>1. Behind(Head0, 0) = Head0
        BY <1>3 DEF Behind
    <2>2. 1 \in 1 .. n /\ 1 - 1 = 0
        BY <1>3
    <2>3. Messages[1] = buff[Head0]
        BY <1>4, <2>1, <2>2
    <2> HIDE DEF Messages
    <2> QED
        BY <1>3, <1>4, <2>3
<1>7. Messages' = Tail(Messages)
    <2> HIDE DEF Messages
    <2>1. Tail(Messages) \in Seq(Items \cup {NULL}) /\ Len(Tail(Messages)) = n - 1
          /\ \A k \in 1 .. n - 1 : Tail(Messages)[k] = Messages[k + 1]
        BY <1>4, <1>6, HeadTailProperties
    <2>2. ASSUME NEW k \in 1 .. n - 1 PROVE Messages'[k] = Tail(Messages)[k]
        <3>1. k - 1 \in 0 .. Size - 1 /\ k \in 0 .. Size - 1 /\ (k - 1) + 1 = k /\ k + 1 \in 1 .. n /\ (k + 1) - 1 = k
              /\ 0 \in 0 .. Size - 1 /\ k # 0
            BY <1>3
        <3>2. Behind(Advance(Head0), k - 1) = Behind(Head0, k) /\ Behind(Head0, k) \in Slots
            <4>1. Behind(Advance(Head0), k - 1) = Behind(Head0, (k - 1) + 1)
                BY <1>1, <3>1, BehindMoves
            <4>2. Behind(Head0, k) \in Slots
                BY <1>1, <1>3, <3>1, BehindIsRemainder
            <4> QED
                BY <3>1, <4>1, <4>2
        <3>3. Behind(Head0, 0) = Head0
            BY <1>3 DEF Behind
        <3>4. Behind(Head0, k) # Head0
            BY <1>1, <3>1, <3>3, BehindMoves
        <3>5. buff'[Behind(Head0, k)] = buff[Behind(Head0, k)]
            BY <1>2, <3>2, <3>4
        <3>6. Messages[k + 1] = buff[Behind(Head0, k)]
            BY <1>4, <3>1
        <3> QED
            BY <1>5, <2>1, <3>2, <3>5, <3>6
    <2> QED
        BY <1>5, <2>1, <2>2, SeqEqual
<1> QED
    BY <1>2, <1>6, <1>7 DEF Fifo!Get, Messages

\* The queue implements a bounded FIFO for any number of writers and either memory model: a put takes effect
\* when the pointer is stored, a get when the slot is cleared, and no other step can be seen.
THEOREM QueueImplementsFifo == Spec => ImplementsFifo
<1>1. Init => Fifo!Init
    <2> SUFFICES ASSUME Init PROVE Fifo!Init
        OBVIOUS
    <2>1. Occupied = {}
        BY DEF Init, Occupied
    <2>2. Cardinality(Occupied) = 0
        BY <2>1, FS_EmptySet
    <2> QED
        BY <2>2 DEF Init, Fifo!Init
<1>2. Safe /\ Safe' /\ Counted /\ [Next]_vars => [Fifo!Next]_(Fifo!vars)
    <2> SUFFICES ASSUME Safe, Safe', Counted, [Next]_vars PROVE Fifo!Next \/ UNCHANGED Fifo!vars
        OBVIOUS
    <2>1. ASSUME NEW w \in Writers, Store(w) PROVE Fifo!Next
        <3>1. \E i \in Items : Fifo!Put(i)
            BY <2>1, StorePuts
        <3> QED
            BY <3>1, Zenon DEF Fifo!Next
    <2>2. CASE Clear
        BY <2>2, ClearGets DEF Fifo!Next
    <2>3. ASSUME UNCHANGED <<buff, mWrite, Head0, returned>>
          PROVE  UNCHANGED Fifo!vars
        BY <2>3 DEF Fifo!vars, Occupied
    <2> QED
        BY <2>1, <2>2, <2>3, OtherSteps
<1> QED
    BY <1>1, <1>2, QueueSafe, MessagesCounted, PTL DEF Spec, ImplementsFifo, Fifo!Spec
===============================================================================
