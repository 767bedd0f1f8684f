----------------------------- MODULE MCThreads_proofs -----------------------------
(***************************************************************************)
(* What a connection's two threads have in common.  The turn taking is     *)
(* safe for any number of threads that call stop(), and for every kind of  *)
(* stop(): TurnInv is inductive, and it implies that the user and a sweep  *)
(* exclude each other and that no signal is lost.  The rings of bytes are  *)
(* sound for any size and number of blocks, and any lengths of what is     *)
(* read and sent: StreamInv says what either thread may rely on between    *)
(* two looks at what the other changes.                                    *)
(***************************************************************************)
EXTENDS MCThreads, FiniteSets, FiniteSetTheorems, SequenceTheorems, FunctionTheorems, TLAPS

-------------------------------------------------------------------------------
(* The turn.                                                                 *)

\* The initial states satisfy the invariant: nobody waits and no turn is offered.
LEMMA InitTurn == Init => TurnInv
<1> SUFFICES ASSUME Init PROVE TurnInv
    OBVIOUS
<1> USE UserAssumption, KindsAssumption DEF Init, Callers
<1>1. TypeOK
    BY DEF TypeOK
<1>2. OutsideQuiet /\ status = "parallel" /\ cpc = "listen" /\ pc[User] = "run"
    BY DEF OutsideQuiet
<1>3. NoLostSignal
    BY <1>2 DEF NoLostSignal
<1> QED
    BY <1>1, <1>2, <1>3 DEF TurnInv, OutsideQuiet, Offering, Granted

\* The steps of a caller inside waitConnecter keep it.
LEMMA WaitingTurn ==
  ASSUME TurnInv, NEW t \in Callers, Waiting(t) \/ CallerSpurious(t)
  PROVE  TurnInv'
<1> USE UserAssumption, KindsAssumption
        DEF TurnInv, TypeOK, NoLostSignal, OutsideQuiet, Offering, Granted, Callers, After
<1>1. CASE Test(t)
    BY <1>1 DEF Test
<1>2. CASE Grant(t)
    BY <1>2 DEF Grant
<1>3. CASE Signal(t)
    BY <1>3 DEF Signal
<1>4. CASE Await(t)
    BY <1>4 DEF Await
<1>5. CASE CallerSpurious(t)
    BY <1>5 DEF CallerSpurious
<1> QED
    BY <1>1, <1>2, <1>3, <1>4, <1>5 DEF Waiting

\* The steps of the connection thread keep it.
LEMMA ConnectingTurn == TurnInv /\ (Connecting \/ Spurious) => TurnInv'
<1> SUFFICES ASSUME TurnInv, Connecting \/ Spurious PROVE TurnInv'
    OBVIOUS
<1> USE UserAssumption, KindsAssumption
        DEF TurnInv, TypeOK, NoLostSignal, OutsideQuiet, Offering, Granted, Callers, Interrupted
<1>1. CASE Listen
    BY <1>1 DEF Listen
<1>2. CASE Enter
    BY <1>2 DEF Enter
<1>3. CASE Block
    BY <1>3 DEF Block
<1>4. CASE Wake /\ ~Interrupted
    BY <1>4 DEF Wake
<1>5. CASE Notify /\ ~Interrupted
    BY <1>5 DEF Notify
<1>6. CASE SignalCaller
    \* the caller that is woken was blocked, and it is still granted
    <2>1. CASE UNCHANGED pc
        <3>1. \A t \in Callers : pc[t] # "blocked"
            BY <1>6, <2>1 DEF SignalCaller
        <3> QED
            BY <1>6, <2>1, <3>1 DEF SignalCaller
    <2>2. CASE \E t \in Callers : pc[t] = "blocked" /\ pc' = [pc EXCEPT ![t] = "woken"]
        BY <1>6, <2>2 DEF SignalCaller
    <2> QED
        BY <1>6, <2>1, <2>2 DEF SignalCaller
<1>7. CASE Join
    BY <1>7 DEF Join
<1>8. CASE Spurious
    BY <1>8 DEF Spurious
<1> QED
    BY <1>1, <1>2, <1>3, <1>4, <1>5, <1>6, <1>7, <1>8 DEF Connecting

\* So do the other steps of the callers.
LEMMA CallingTurn ==
  ASSUME TurnInv, NEW t \in Callers, Call \/ UserEnds \/ Stop(t)
  PROVE  TurnInv'
<1> USE UserAssumption, KindsAssumption
        DEF TurnInv, TypeOK, NoLostSignal, OutsideQuiet, Offering, Granted, Callers
<1>1. CASE Call
    BY <1>1 DEF Call
<1>2. CASE UserEnds
    BY <1>2 DEF UserEnds
<1>3. CASE Stop(t)
    BY <1>3, ZenonT(60) DEF Stop
<1> QED
    BY <1>1, <1>2, <1>3

\* TurnInv is an invariant.
THEOREM TurnTaking == Spec => []TurnInv
<1>1. TurnInv /\ [Next]_vars => TurnInv'
    <2> SUFFICES ASSUME TurnInv, [Next]_vars PROVE TurnInv'
        OBVIOUS
    <2>1. CASE Connecting \/ Spurious
        BY <2>1, ConnectingTurn
    <2>2. CASE Call \/ UserEnds
        BY <2>2, CallingTurn DEF Callers
    <2>3. CASE \E t \in Callers : Stop(t)
        BY <2>3, CallingTurn
    <2>4. CASE \E t \in Callers : Waiting(t) \/ CallerSpurious(t)
        BY <2>4, WaitingTurn
    <2>5. CASE UNCHANGED vars
        BY <2>5 DEF vars, TurnInv, TypeOK, NoLostSignal, OutsideQuiet, Offering, Granted
    <2> QED
        BY <2>1, <2>2, <2>3, <2>4, <2>5 DEF Next
<1> QED
    BY <1>1, InitTurn, PTL DEF Spec

\* The user never handles data while the connection thread sweeps, unless another thread
\* has called stop(): whatever the number of threads and the kind of stop().
THEOREM SweepExcludesUser == Spec => []MutualExclusion
<1>1. TurnInv => MutualExclusion
    BY UserAssumption
       DEF TurnInv, TypeOK, Callers, MutualExclusion, Exclusion, OutsideQuiet, Granted
<1> QED
    BY <1>1, TurnTaking, PTL

\* Nobody sleeps through a condition that has come true.
THEOREM SignalsArrive == Spec => []NoLostSignal
<1>1. TurnInv => NoLostSignal
    BY DEF TurnInv
<1> QED
    BY <1>1, TurnTaking, PTL

-------------------------------------------------------------------------------
(* The rings of a connection's bytes.                                        *)

\* The i-th unread byte of a block, from 0 on.
Cell(b, i) == IF blocks[b].rd + i < BlockSize THEN blocks[b].rd + i ELSE blocks[b].rd + i - BlockSize
Byte(b, i) == blocks[b].cells[Cell(b, i)]
Size(b) == Streams!DataSize(b)
Offsets(b) == 0..(Size(b) - 1)

RingBlock == [rd : 0..BlockSize, wt : 0..BlockSize, flag : BOOLEAN, cells : [Streams!Cells -> 0..MaxBytes]]
Pieces == [at : 0..BlockSize, len : 0..BlockSize, second : 0..BlockSize, split : BOOLEAN]
FillerPcs == {"idle", "begin", "first", "second", "next", "test", "size", "direct", "closed"}
TakerPcs == {"idle", "sum", "sumNext", "begin", "first", "second", "switch", "enter"}
RingTyped ==
  /\ dir \in Dirs /\ dir \in {"in", "out"}
  /\ blocks \in Seq(RingBlock) /\ Len(blocks) <= MaxBlocks
  /\ \A b \in Streams!Used : blocks[b].wt = 0 => blocks[b].rd = 0
  /\ link \in [Streams!Used -> Streams!Used]
  /\ made \in Nat /\ taken \in Seq(Nat)
  /\ \/ blocks = <<>> /\ fillBlk = 0 /\ takeBlk = 0 /\ dir = "out" /\ taker.pc = "idle"
     \/ fillBlk \in Streams!Used /\ takeBlk \in Streams!Used
HandsTyped ==
  /\ filler \in [pc : FillerPcs, room : Pieces, left : Nat, cur : Nat] /\ made + filler.left <= MaxBytes
  /\ dir = "in" => filler.left = 0 /\ filler.pc \notin {"test", "size", "direct"}
  /\ dir = "out" /\ filler.pc # "idle" => filler.left > 0
  /\ filler.pc \in {"first", "second", "next"} => fillBlk # 0
  /\ taker \in [pc : TakerPcs, room : Pieces, left : Nat, sum : Nat, next : Nat]
  /\ dir = "in" /\ taker.pc # "idle" => taker.left > 0

\* What the filler has been told to fill is free, and goes on where the block's bytes end.
FillerInv ==
  LET r == blocks[fillBlk].rd
      t == blocks[fillBlk].wt
      room == filler.room IN
  /\ filler.pc = "first" =>
       /\ room.len > 0 /\ room.at + room.len <= BlockSize
       /\ t = BlockSize => room.at = 0 /\ room.len < r /\ ~ room.split /\ room.second = 0
       /\ t < BlockSize => room.at = t /\ (r > t => room.at + room.len < r /\ ~ room.split)
       /\ room.split => room.at + room.len = BlockSize /\ room.second < r
       /\ ~ room.split => room.second = 0
  /\ filler.pc = "second" => t = BlockSize /\ room.second < r /\ (dir = "out" => room.second > 0)
\* What the taker has been told to take are the block's first bytes.
TakerInv ==
  LET room == taker.room IN
  /\ taker.pc = "first" =>
       /\ room.len > 0 /\ room.at = Cell(takeBlk, 0) /\ room.at + room.len <= BlockSize
       /\ room.len + room.second <= Size(takeBlk) /\ (room.second > 0 => room.at + room.len = BlockSize)
  /\ taker.pc = "second" => room.second > 0 /\ room.second <= Size(takeBlk) /\ blocks[takeBlk].rd = BlockSize
  /\ taker.pc = "enter" => taker.next \in Streams!Used

\* Each byte has been taken once or is stored once.
Kept ==
  /\ \A p, q \in DOMAIN taken : taken[p] = taken[q] => p = q
  /\ \A p \in DOMAIN taken : taken[p] \in 1..made
  /\ \A b \in Streams!Used : \A i \in Offsets(b) : Byte(b, i) \in 1..made /\ \A p \in DOMAIN taken : taken[p] # Byte(b, i)
  /\ \A b, c \in Streams!Used : \A i \in Offsets(b), j \in Offsets(c) : Byte(b, i) = Byte(c, j) => b = c /\ i = j
  /\ \A m \in 1..made : (\E p \in DOMAIN taken : taken[p] = m) \/ \E b \in Streams!Used : \E i \in Offsets(b) : Byte(b, i) = m

\* The block that is the taker's although the filler may not see it there yet.
Taken == IF taker.pc = "enter" THEN taker.next ELSE takeBlk
\* The blocks from the taker's to the filler's, and the byte each begins with.
Active == {b \in Streams!Used : Size(b) > 0} \cup {Taken, fillBlk}
First(b) == IF Size(b) > 0 THEN Byte(b, 0) ELSE IF b = fillBlk THEN made + 1 ELSE Len(taken) + 1
\* What arrives stands in the blocks in its order, and those between the two are full.
Ordered ==
  /\ \A k \in DOMAIN taken : taken[k] = k
  /\ \A b \in Active : \A i \in Offsets(b) : Byte(b, i) = First(b) + i
  /\ First(Taken) = Len(taken) + 1 /\ First(fillBlk) + Size(fillBlk) = made + 1
  /\ \A b \in Active \ {fillBlk} : link[b] \in Active \ {b} /\ First(link[b]) = First(b) + Size(b)
  /\ \A b \in Active \ {Taken, fillBlk} : Size(b) >= BlockSize - 1
  /\ blocks[Taken].flag
  /\ filler.pc = "next" => fillBlk = Taken \/ Size(fillBlk) >= BlockSize - 1

\* What the reader has counted stays for it.
Behind(b) == IF link[b] = b THEN 0 ELSE Size(link[b])
Enough ==
  /\ taker.pc = "sumNext" => taker.sum <= Size(takeBlk)
  /\ taker.pc \in {"begin", "first", "second"} => taker.left <= Size(takeBlk) + Behind(takeBlk)
  /\ taker.pc = "first" => \/ taker.left <= taker.room.len + taker.room.second
                           \/ takeBlk # fillBlk /\ taker.room.len + taker.room.second = Size(takeBlk)
  /\ taker.pc = "second" => \/ taker.left <= taker.room.second
                            \/ takeBlk # fillBlk /\ taker.room.second = Size(takeBlk)
  /\ taker.pc = "switch" => Size(takeBlk) = 0 /\ taker.left <= Behind(takeBlk)
  /\ taker.pc = "enter" => taker.left <= Size(taker.next)

StreamInv == RingTyped /\ HandsTyped /\ FillerInv /\ TakerInv /\ Kept /\ (dir = "in" => Ordered /\ Enough)
-------------------------------------------------------------------------------
LEMMA RingSizes ==
  /\ BlockSize \in Nat /\ BlockSize > 1 /\ MaxBytes \in Nat /\ Lens \subseteq Nat \ {0} /\ Dirs \subseteq {"in", "out"}
  /\ Streams!Cells = 0..(BlockSize - 1) /\ Streams!None = 0
BY StreamsAssumption DEF Streams!SizeAssumption, Streams!LensAssumption, Streams!DirsAssumption, Streams!Cells, Streams!None

\* A block and its size.
LEMMA BlockTyped ==
  ASSUME RingTyped, NEW b \in Streams!Used
  PROVE  /\ blocks[b] \in RingBlock /\ blocks[b].rd \in 0..BlockSize /\ blocks[b].wt \in 0..BlockSize
         /\ blocks[b].wt = 0 => blocks[b].rd = 0
         /\ blocks[b].cells \in [0..(BlockSize - 1) -> 0..MaxBytes]
         /\ Size(b) = (IF blocks[b].rd <= blocks[b].wt THEN blocks[b].wt - blocks[b].rd
                       ELSE BlockSize - blocks[b].rd + blocks[b].wt)
         /\ Size(b) \in 0..BlockSize /\ (Size(b) > 0 => blocks[b].rd # blocks[b].wt)
         /\ b \in Nat \ {0}
<1>1. blocks[b] \in RingBlock /\ b \in Nat \ {0}
    BY DEF RingTyped, Streams!Used
<1>2. blocks[b].wt = 0 => blocks[b].rd = 0
    BY DEF RingTyped
<1>3. blocks[b].rd \in 0..BlockSize /\ blocks[b].wt \in 0..BlockSize /\ blocks[b].cells \in [0..(BlockSize - 1) -> 0..MaxBytes]
    BY <1>1, RingSizes DEF RingBlock
<1>4. Size(b) = (IF blocks[b].rd <= blocks[b].wt THEN blocks[b].wt - blocks[b].rd
                 ELSE BlockSize - blocks[b].rd + blocks[b].wt)
    BY DEF Size, Streams!DataSize
<1>5. Size(b) \in 0..BlockSize /\ (Size(b) > 0 => blocks[b].rd # blocks[b].wt)
    BY <1>2, <1>3, <1>4, RingSizes, SMTT(60)
<1> QED
    BY <1>1, <1>2, <1>3, <1>4, <1>5

\* The cells of the bytes that follow when a block of s bytes is filled with n more at `at`.
Follow(r, at, n, s) ==
  /\ s + n = IF r <= at + n THEN (at + n) - r ELSE BlockSize - r + (at + n)
  /\ \A i \in 0..(s - 1) : LET c == IF r + i < BlockSize THEN r + i ELSE r + i - BlockSize IN
       c \in 0..(BlockSize - 1) /\ c \notin at..(at + n - 1)
  /\ \A i \in s..(s + n - 1) : LET c == IF r + i < BlockSize THEN r + i ELSE r + i - BlockSize IN
       c \in 0..(BlockSize - 1) /\ c = at + (i - s)
LEMMA FilledCells ==
  ASSUME NEW r \in 0..BlockSize, NEW t \in 0..BlockSize, NEW at \in Nat, NEW n \in Nat \ {0},
         at = (IF t < BlockSize THEN t ELSE 0), at + n <= BlockSize, t < BlockSize /\ r > t => at + n < r,
         t = BlockSize => n < r,
         NEW s \in Nat, s = IF r <= t THEN t - r ELSE BlockSize - r + t
  PROVE  Follow(r, at, n, s)
<1>1. CASE t = BlockSize
    BY <1>1, RingSizes DEF Follow
<1>2. CASE t < BlockSize /\ r <= t
    BY <1>2, RingSizes DEF Follow
<1>3. CASE t < BlockSize /\ r > t
    BY <1>3, RingSizes DEF Follow
<1> QED
    BY <1>1, <1>2, <1>3, RingSizes

\* The cells of the bytes that stay when a block is emptied.
RingSize(r, t) == IF r <= t THEN t - r ELSE BlockSize - r + t
RingCell(r, i) == IF r + i < BlockSize THEN r + i ELSE r + i - BlockSize
LEMMA EmptiedCells ==
  ASSUME NEW r \in 0..BlockSize, NEW t \in 0..BlockSize, t = 0 => r = 0, NEW n \in 1..RingSize(r, t),
         RingCell(r, 0) + n <= BlockSize
  PROVE  LET u == RingCell(r, 0) + n IN
         /\ t # 0 /\ u \in 0..BlockSize /\ RingSize(u, t) = RingSize(r, t) - n
         /\ \A i \in 0..(RingSize(r, t) - n - 1) : RingCell(u, i) = RingCell(r, i + n)
         /\ \A j \in 0..(n - 1) : RingCell(r, j) = RingCell(r, 0) + j
<1> n \in Nat \ {0} /\ BlockSize \in Nat /\ BlockSize > 1
    BY RingSizes DEF RingSize
<1>1. CASE r = BlockSize
    BY <1>1 DEF RingSize, RingCell
<1>2. CASE r < BlockSize /\ r <= t
    BY <1>2 DEF RingSize, RingCell
<1>3. CASE r < BlockSize /\ r > t
    BY <1>3 DEF RingSize, RingCell
<1> QED
    BY <1>1, <1>2, <1>3

\* What filling and emptying a block does to the bytes in the blocks.
Filled(b, n) ==
  /\ Streams!Used' = Streams!Used /\ made' = made + n /\ taken' = taken
  /\ Size(b)' = Size(b) + n /\ \A i \in Offsets(b) : Byte(b, i)' = Byte(b, i)
  /\ \A i \in Size(b)..(Size(b) + n - 1) : Byte(b, i)' = made + 1 + (i - Size(b))
  /\ \A c \in Streams!Used \ {b} : Size(c)' = Size(c) /\ \A i \in Offsets(c) : Byte(c, i)' = Byte(c, i)
Emptied(b, n) ==
  /\ Streams!Used' = Streams!Used /\ made' = made
  /\ Size(b)' = Size(b) - n /\ \A i \in 0..(Size(b) - n - 1) : Byte(b, i)' = Byte(b, i + n)
  /\ \A c \in Streams!Used \ {b} : Size(c)' = Size(c) /\ \A i \in Offsets(c) : Byte(c, i)' = Byte(c, i)
  /\ taken' \in Seq(Nat) /\ Len(taken') = Len(taken) + n /\ \A p \in DOMAIN taken : taken'[p] = taken[p]
  /\ \A j \in 1..n : taken'[Len(taken) + j] = Byte(b, j - 1)
\* The blocks are typed as before, and their marks are the same.
BlocksStill(b) ==
  /\ blocks' \in Seq(RingBlock) /\ Len(blocks') = Len(blocks)
  /\ \A c \in Streams!Used : /\ blocks'[c].wt = 0 => blocks'[c].rd = 0
                             /\ blocks'[c].flag = blocks[c].flag /\ (c # b => blocks'[c] = blocks[c])

LEMMA Numbered ==
  ASSUME NEW m \in Nat, NEW at \in Nat, NEW n \in Nat \ {0}, NEW max \in Nat, m + n <= max,
         NEW i \in Nat, at <= i, i <= at + n - 1
  PROVE  m + 1 + i - at \in 0..max
OBVIOUS

LEMMA BlockFilled ==
  ASSUME RingTyped, NEW b \in Streams!Used, NEW at \in Nat, NEW n \in Nat \ {0},
         at = IF blocks[b].wt < BlockSize THEN blocks[b].wt ELSE 0, at + n <= BlockSize,
         blocks[b].wt < BlockSize /\ blocks[b].rd > blocks[b].wt => at + n < blocks[b].rd,
         blocks[b].wt = BlockSize => n < blocks[b].rd,
         Streams!Fill(b, at, n), made + n <= MaxBytes, UNCHANGED taken
  PROVE  BlocksStill(b) /\ Filled(b, n) /\ blocks'[b].rd = blocks[b].rd /\ blocks'[b].wt = at + n
<1> DEFINE r == blocks[b].rd
           t == blocks[b].wt
           cl == blocks[b].cells
           ce == [i \in 0..(BlockSize - 1) |-> IF i \in at..(at + n - 1) THEN made + 1 + i - at ELSE cl[i]]
           k == [rd |-> r, wt |-> at + n, flag |-> blocks[b].flag, cells |-> ce]
<1>1. /\ blocks[b] \in RingBlock /\ r \in 0..BlockSize /\ t \in 0..BlockSize /\ cl \in [0..(BlockSize - 1) -> 0..MaxBytes]
      /\ Size(b) = (IF r <= t THEN t - r ELSE BlockSize - r + t) /\ Size(b) \in 0..BlockSize
    BY BlockTyped
<1>2. made \in Nat /\ blocks \in Seq(RingBlock)
    BY DEF RingTyped
<1>3. blocks' = [blocks EXCEPT ![b] = k] /\ made' = made + n
    <2> DEFINE kk == [blocks[b] EXCEPT !.wt = at + n, !.cells = ce]
    <2>1. blocks' = [blocks EXCEPT ![b] = kk] /\ made' = made + n
        BY RingSizes DEF Streams!Fill
    <2> HIDE DEF ce
    <2>2. kk = k
        <3>1. blocks[b] = [rd |-> r, wt |-> t, flag |-> blocks[b].flag, cells |-> cl]
            BY <1>1 DEF RingBlock
        <3> DEFINE u == [blocks[b] EXCEPT !.wt = at + n]
        <3>2. u = [rd |-> r, wt |-> at + n, flag |-> blocks[b].flag, cells |-> cl]
            BY <3>1
        <3>3. kk = [u EXCEPT !.cells = ce]
            BY <3>1
        <3> HIDE DEF u, kk
        <3> QED
            BY <3>2, <3>3
    <2> QED
        BY <2>1, <2>2
<1>4. ce \in [0..(BlockSize - 1) -> 0..MaxBytes]
    <2> SUFFICES ASSUME NEW i \in 0..(BlockSize - 1)
                 PROVE  (IF i \in at..(at + n - 1) THEN made + 1 + i - at ELSE cl[i]) \in 0..MaxBytes
        OBVIOUS
    <2>1. CASE i \in at..(at + n - 1)
        <3>1. i \in Nat /\ at <= i /\ i <= at + n - 1
            BY <2>1, RingSizes
        <3>2. made + 1 + i - at \in 0..MaxBytes
            BY <1>2, <3>1, RingSizes, Numbered, Zenon
        <3> QED
            BY <2>1, <3>2
    <2>2. CASE i \notin at..(at + n - 1)
        BY <1>1, <2>2
    <2> QED
        BY <2>1, <2>2
<1>5. k \in RingBlock /\ k.rd = r /\ k.wt = at + n /\ k.flag = blocks[b].flag /\ k.cells = ce
    <2>1. at + n \in 0..BlockSize /\ blocks[b].flag \in BOOLEAN
        <3>1. at + n \in 0..BlockSize
            BY RingSizes
        <3>2. blocks[b].flag \in BOOLEAN
            <4>1. blocks[b] \in RingBlock
                BY <1>1
            <4> QED
                BY <4>1 DEF RingBlock
        <3> QED
            BY <3>1, <3>2
    <2> HIDE DEF ce
    <2> QED
        BY <1>1, <1>4, <2>1, RingSizes DEF RingBlock
<1> HIDE DEF k
<1>6. blocks' \in Seq(RingBlock) /\ Len(blocks') = Len(blocks) /\ DOMAIN blocks' = DOMAIN blocks
      /\ blocks'[b] = k /\ \A c \in Streams!Used \ {b} : blocks'[c] = blocks[c]
    BY <1>2, <1>3, <1>5, ExceptSeq DEF Streams!Used
<1>7. BlocksStill(b)
    <2>1. k.wt # 0
        BY <1>5
    <2> QED
        BY <1>5, <1>6, <2>1, BlockTyped DEF BlocksStill
<1>8. \A c \in Streams!Used \ {b} : Size(c)' = Size(c) /\ \A i \in Offsets(c) : Byte(c, i)' = Byte(c, i)
    BY <1>6 DEF Size, Streams!DataSize, Byte, Cell
<1>9. /\ Size(b) + n = IF r <= at + n THEN (at + n) - r ELSE BlockSize - r + (at + n)
      /\ \A i \in 0..(Size(b) - 1) : LET c == IF r + i < BlockSize THEN r + i ELSE r + i - BlockSize IN
           c \in 0..(BlockSize - 1) /\ c \notin at..(at + n - 1)
      /\ \A i \in Size(b)..(Size(b) + n - 1) : LET c == IF r + i < BlockSize THEN r + i ELSE r + i - BlockSize IN
           c \in 0..(BlockSize - 1) /\ c = at + (i - Size(b))
    <2>1. /\ at = (IF t < BlockSize THEN t ELSE 0) /\ (t < BlockSize /\ r > t => at + n < r) /\ (t = BlockSize => n < r)
          /\ Size(b) \in Nat
        BY <1>1
    <2> HIDE DEF r, t
    <2> PICK u : u = Size(b)
        OBVIOUS
    <2>2. u \in Nat /\ u = (IF r <= t THEN t - r ELSE BlockSize - r + t)
        BY <1>1, <2>1
    <2>3. Follow(r, at, n, u)
        <3>1. r \in 0..BlockSize /\ t \in 0..BlockSize
            BY <1>1
        <3>2. at = (IF t < BlockSize THEN t ELSE 0) /\ (t < BlockSize /\ r > t => at + n < r) /\ (t = BlockSize => n < r)
              /\ at + n <= BlockSize
            BY <2>1
        <3> QED
            BY <3>1, <3>2, <2>2, FilledCells
    <2> QED
        BY <2>3, Zenon DEF Follow
<1>10. Size(b)' = Size(b) + n
    BY <1>5, <1>6, <1>9 DEF Size, Streams!DataSize
<1>11. ASSUME NEW i \in Offsets(b) PROVE Byte(b, i)' = Byte(b, i)
    <2>1. Cell(b, i)' = Cell(b, i) /\ Cell(b, i) \in 0..(BlockSize - 1) /\ Cell(b, i) \notin at..(at + n - 1)
        BY <1>5, <1>6, <1>9 DEF Cell, Offsets
    <2>2. Byte(b, i)' = ce[Cell(b, i)]
        BY <1>5, <1>6, <2>1 DEF Byte
    <2> QED
        BY <2>1, <2>2 DEF Byte
<1>12. ASSUME NEW i \in Size(b)..(Size(b) + n - 1) PROVE Byte(b, i)' = made + 1 + (i - Size(b))
    <2>1. Cell(b, i)' = Cell(b, i) /\ Cell(b, i) \in 0..(BlockSize - 1) /\ Cell(b, i) = at + (i - Size(b))
        BY <1>5, <1>6, <1>9 DEF Cell
    <2>2. Byte(b, i)' = ce[Cell(b, i)]
        BY <1>5, <1>6, <2>1 DEF Byte
    <2>3. i - Size(b) \in 0..(n - 1) /\ Cell(b, i) \in at..(at + n - 1)
        <3>1. Size(b) \in Nat
            BY <1>1, RingSizes
        <3>2. i \in Nat /\ i >= Size(b) /\ i <= Size(b) + n - 1
            BY <3>1
        <3> QED
            BY <2>1, <3>1, <3>2
    <2>4. ce[Cell(b, i)] = made + 1 + Cell(b, i) - at
        BY <2>1, <2>3
    <2> QED
        BY <1>2, <2>1, <2>2, <2>3, <2>4, SMTT(60)
<1> QED
    BY <1>3, <1>5, <1>6, <1>7, <1>8, <1>10, <1>11, <1>12 DEF Filled, Streams!Used

LEMMA BlockEmptied ==
  ASSUME RingTyped, NEW b \in Streams!Used, NEW n \in 1..Size(b), NEW at, at = Cell(b, 0), at + n <= BlockSize,
         Streams!Take(b, at, n), UNCHANGED made
  PROVE  BlocksStill(b) /\ Emptied(b, n) /\ blocks'[b].rd = at + n /\ blocks'[b].wt = blocks[b].wt
<1> DEFINE r == blocks[b].rd
           t == blocks[b].wt
           k == [blocks[b] EXCEPT !.rd = at + n]
           more == [j \in 1..n |-> blocks[b].cells[at + j - 1]]
<1>1. /\ blocks[b] \in RingBlock /\ r \in 0..BlockSize /\ t \in 0..BlockSize /\ (t = 0 => r = 0)
      /\ blocks[b].cells \in [0..(BlockSize - 1) -> 0..MaxBytes]
      /\ Size(b) = (IF r <= t THEN t - r ELSE BlockSize - r + t) /\ Size(b) \in 0..BlockSize
    BY BlockTyped
<1>2. blocks \in Seq(RingBlock) /\ taken \in Seq(Nat)
    BY DEF RingTyped
<1>3. blocks' = [blocks EXCEPT ![b] = k] /\ taken' = taken \o more
    BY DEF Streams!Take
<1>4. at = (IF r < BlockSize THEN r ELSE 0) /\ at \in 0..(BlockSize - 1) /\ n \in Nat \ {0}
    <2>1. at = IF r + 0 < BlockSize THEN r + 0 ELSE r + 0 - BlockSize
        BY DEF Cell
    <2> HIDE DEF r, t
    <2>2. at = (IF r < BlockSize THEN r ELSE 0) /\ at \in 0..(BlockSize - 1)
        BY <1>1, <2>1, RingSizes
    <2>3. n \in Nat \ {0}
        BY <1>1, RingSizes
    <2> QED
        BY <2>2, <2>3
<1>5. /\ t # 0 /\ at + n \in 0..BlockSize /\ RingSize(at + n, t) = Size(b) - n
      /\ \A i \in 0..(Size(b) - n - 1) : RingCell(at + n, i) = RingCell(r, i + n)
      /\ \A j \in 0..(n - 1) : RingCell(r, j) = at + j
    <2>1. Size(b) = RingSize(r, t) /\ at = RingCell(r, 0)
        BY <1>1 DEF RingSize, RingCell, Cell
    <2>2. r \in 0..BlockSize /\ t \in 0..BlockSize /\ (t = 0 => r = 0)
        BY <1>1
    <2> HIDE DEF r, t
    <2>3. n \in 1..RingSize(r, t) /\ RingCell(r, 0) + n <= BlockSize
        BY <2>1
    <2> DEFINE u == RingCell(r, 0) + n
    <2>4. /\ t # 0 /\ u \in 0..BlockSize /\ RingSize(u, t) = RingSize(r, t) - n
          /\ \A i \in 0..(RingSize(r, t) - n - 1) : RingCell(u, i) = RingCell(r, i + n)
          /\ \A j \in 0..(n - 1) : RingCell(r, j) = RingCell(r, 0) + j
        BY <2>2, <2>3, EmptiedCells, Zenon
    <2> QED
        BY <2>1, <2>4, Zenon
<1>6. k \in RingBlock /\ k.rd = at + n /\ k.wt = t /\ k.flag = blocks[b].flag /\ k.cells = blocks[b].cells
    BY <1>1, <1>5 DEF RingBlock
<1> HIDE DEF k
<1>7. blocks' \in Seq(RingBlock) /\ Len(blocks') = Len(blocks) /\ DOMAIN blocks' = DOMAIN blocks
      /\ blocks'[b] = k /\ \A c \in Streams!Used \ {b} : blocks'[c] = blocks[c]
    BY <1>2, <1>3, <1>6, ExceptSeq DEF Streams!Used
<1>8. BlocksStill(b)
    BY <1>5, <1>6, <1>7, BlockTyped DEF BlocksStill
<1>9. \A c \in Streams!Used \ {b} : Size(c)' = Size(c) /\ \A i \in Offsets(c) : Byte(c, i)' = Byte(c, i)
    BY <1>7 DEF Size, Streams!DataSize, Byte, Cell
<1>10. Size(b)' = Size(b) - n
    BY <1>5, <1>6, <1>7 DEF Size, Streams!DataSize, RingSize
<1>11. ASSUME NEW i \in 0..(Size(b) - n - 1) PROVE Byte(b, i)' = Byte(b, i + n)
    <2>1. Cell(b, i)' = Cell(b, i + n)
        BY <1>5, <1>6, <1>7 DEF Cell, RingCell
    <2> QED
        BY <1>6, <1>7, <2>1 DEF Byte
<1>12. ASSUME NEW j \in 1..n PROVE more[j] = Byte(b, j - 1)
    <2>1. j - 1 \in 0..(n - 1) /\ at + j - 1 = at + (j - 1)
        BY <1>4
    <2>2. Cell(b, j - 1) = at + j - 1
        BY <1>5, <2>1 DEF Cell, RingCell
    <2> QED
        BY <2>2 DEF Byte
<1>13. more \in Seq(Nat) /\ Len(more) = n
    <2>1. ASSUME NEW j \in 1..n PROVE more[j] \in Nat
        <3>1. j \in Nat /\ at \in Nat /\ at + j - 1 \in 0..(BlockSize - 1)
            BY <1>4, RingSizes
        <3> QED
            <4>1. blocks[b].cells[at + j - 1] \in 0..MaxBytes
                BY <1>1, <3>1
            <4> QED
                BY <4>1, RingSizes
    <2> HIDE DEF more
    <2>2. more \in [1..n -> Nat]
        BY <2>1 DEF more
    <2> QED
        BY <1>4, <2>2, SeqDef, LenProperties
<1> HIDE DEF more
<1>14. /\ taken' \in Seq(Nat) /\ Len(taken') = Len(taken) + n /\ \A p \in DOMAIN taken : taken'[p] = taken[p]
       /\ \A j \in 1..n : taken'[Len(taken) + j] = more[j]
    <2>1. Len(taken) \in Nat /\ DOMAIN taken = 1..Len(taken)
        BY <1>2, LenProperties
    <2>2. \A j \in 1..n : Len(taken) + j \in 1..(Len(taken) + n) /\ Len(taken) + j > Len(taken) /\ (Len(taken) + j) - Len(taken) = j
        BY <1>4, <2>1
    <2> QED
        <3>1. /\ taken \o more \in Seq(Nat) /\ Len(taken \o more) = Len(taken) + Len(more)
              /\ \A i \in 1..(Len(taken) + Len(more)) :
                   (taken \o more)[i] = IF i <= Len(taken) THEN taken[i] ELSE more[i - Len(taken)]
            BY <1>2, <1>13, ConcatProperties
        <3>2. \A p \in DOMAIN taken : p \in 1..(Len(taken) + n) /\ p <= Len(taken)
            BY <1>4, <2>1
        <3>3. \A p \in DOMAIN taken : taken'[p] = taken[p]
            BY <1>3, <1>13, <3>1, <3>2
        <3>4. ASSUME NEW j \in 1..n PROVE taken'[Len(taken) + j] = more[j]
            <4>1. Len(taken) + j \in 1..(Len(taken) + Len(more)) /\ ~ (Len(taken) + j <= Len(taken)) /\ (Len(taken) + j) - Len(taken) = j
                BY <1>13, <2>1, <2>2
            <4> QED
                BY <1>3, <3>1, <4>1
        <3> QED
            BY <1>3, <1>13, <3>1, <3>3, <3>4
<1> QED
    BY <1>5, <1>6, <1>7, <1>8, <1>9, <1>10, <1>11, <1>12, <1>14 DEF Emptied, Streams!Used

-------------------------------------------------------------------------------
\* Each byte is kept once, whatever is filled, emptied or sent directly.
LEMMA Counts ==
  ASSUME RingTyped
  PROVE  /\ made \in Nat /\ Len(taken) \in Nat /\ DOMAIN taken = 1..Len(taken) /\ Len(blocks) \in Nat /\ Streams!Used = 1..Len(blocks)
         /\ \A p \in DOMAIN taken : taken[p] \in Nat
         /\ \A b \in Streams!Used : Size(b) \in Nat /\ Size(b) <= BlockSize /\ b \in Nat \ {0}
BY BlockTyped, RingSizes, LenProperties, ElementOfSeq DEF RingTyped, Streams!Used

LEMMA OnceStored ==
  ASSUME Kept, NEW c \in Streams!Used, NEW d \in Streams!Used, NEW i \in Offsets(c), NEW j \in Offsets(d), Byte(c, i) = Byte(d, j)
  PROVE  c = d /\ i = j
BY DEF Kept

LEMMA NotTaken ==
  ASSUME Kept, NEW c \in Streams!Used, NEW i \in Offsets(c), NEW p \in DOMAIN taken, taken[p] = Byte(c, i) PROVE FALSE
BY DEF Kept

LEMMA KeptFilled ==
  ASSUME RingTyped, Kept, NEW b \in Streams!Used, NEW n \in Nat \ {0}, Filled(b, n) PROVE Kept'
<1> DEFINE old(c, i) == i \in Offsets(c) /\ Byte(c, i)' = Byte(c, i)
           new(c, i) == c = b /\ i \in Size(b)..(Size(b) + n - 1) /\ Byte(c, i)' = made + 1 + (i - Size(b))
<1>0. /\ made \in Nat /\ \A c \in Streams!Used : Size(c) \in Nat
      /\ made' = made + n /\ taken' = taken /\ Streams!Used' = Streams!Used
    BY Counts DEF Filled
<1>1. ASSUME NEW c \in Streams!Used, NEW i \in Offsets(c)' PROVE old(c, i) \/ new(c, i)
    <2>1. CASE c = b
        <3>1. i \in 0..(Size(b) + n - 1)
            <4>1. i \in 0..(Size(b)' - 1) /\ Size(b)' = Size(b) + n
                BY <1>1, <2>1 DEF Filled, Offsets
            <4> QED
                BY <1>0, <4>1
        <3>2. i \in Offsets(b) \/ i \in Size(b)..(Size(b) + n - 1)
            BY <1>0, <3>1 DEF Offsets
        <3> QED
            BY <2>1, <3>2 DEF Filled
    <2>2. CASE c # b
        BY <1>1, <2>2 DEF Filled, Offsets
    <2> QED
        BY <2>1, <2>2
<1>2. ASSUME NEW c \in Streams!Used, NEW i \in Offsets(c) PROVE i \in Offsets(c)' /\ Byte(c, i)' = Byte(c, i) /\ Byte(c, i) \in 1..made
    <2>1. CASE c = b
        BY <1>0, <2>1 DEF Filled, Offsets, Kept
    <2>2. CASE c # b
        BY <2>2 DEF Filled, Offsets, Kept
    <2> QED
        BY <2>1, <2>2
<1>3. ASSUME NEW i \in Size(b)..(Size(b) + n - 1) PROVE i \in Offsets(b)' /\ Byte(b, i)' = made + 1 + (i - Size(b)) /\ i - Size(b) \in 0..(n - 1)
    BY <1>0 DEF Filled, Offsets
<1>4. ASSUME NEW p \in DOMAIN taken', NEW q \in DOMAIN taken', taken'[p] = taken'[q] PROVE p = q
    BY <1>0, <1>4 DEF Kept
<1>5. ASSUME NEW p \in DOMAIN taken' PROVE taken'[p] \in 1..made'
    <2>1. taken[p] \in 1..made
        BY <1>0 DEF Kept
    <2> QED
        BY <1>0, <2>1
<1>6. ASSUME NEW c \in Streams!Used, NEW i \in Offsets(c)'
      PROVE  Byte(c, i)' \in 1..made' /\ \A p \in DOMAIN taken' : taken'[p] # Byte(c, i)'
    <2>1. CASE old(c, i)
        BY <1>0, <1>2, <2>1 DEF Kept
    <2>2. CASE new(c, i)
        <3>1. Byte(c, i)' > made /\ Byte(c, i)' \in 1..made'
            BY <1>0, <1>3, <2>2
        <3> QED
            BY <1>0, <3>1 DEF Kept
    <2> QED
        BY <1>1, <2>1, <2>2
<1>7. ASSUME NEW c \in Streams!Used, NEW d \in Streams!Used, NEW i \in Offsets(c)', NEW j \in Offsets(d)', Byte(c, i)' = Byte(d, j)'
      PROVE  c = d /\ i = j
    <2>1. CASE old(c, i) /\ old(d, j)
        <3>1. i \in Offsets(c) /\ j \in Offsets(d) /\ Byte(c, i) = Byte(d, j)
            BY <1>7, <2>1
        <3> QED
            BY <3>1, OnceStored, ZenonT(60)
    <2>2. CASE old(c, i) /\ new(d, j)
        <3>1. Byte(d, j)' > made /\ Byte(c, i)' \in 1..made
            BY <1>0, <1>2, <1>3, <2>2
        <3> QED
            BY <1>0, <1>7, <3>1
    <2>3. CASE new(c, i) /\ old(d, j)
        BY <1>0, <1>2, <1>3, <1>7, <2>3
    <2>4. CASE new(c, i) /\ new(d, j)
        <3>1. /\ c = b /\ d = b /\ i - Size(b) = j - Size(b) /\ i \in Size(b)..(Size(b) + n - 1) /\ j \in Size(b)..(Size(b) + n - 1)
            BY <1>0, <1>3, <1>7, <2>4
        <3> QED
            BY <1>0, <3>1
    <2> QED
        BY <1>1, <2>1, <2>2, <2>3, <2>4
<1>8. ASSUME NEW m \in 1..made'
      PROVE  (\E p \in DOMAIN taken' : taken'[p] = m) \/ \E c \in Streams!Used : \E i \in Offsets(c)' : Byte(c, i)' = m
    <2>1. CASE m \in 1..made
        BY <1>0, <1>2, <2>1 DEF Kept
    <2>2. CASE m \notin 1..made
        <3>1. m \in Nat /\ m > made /\ m <= made + n
            BY <1>0, <2>2
        <3>2. PICK k \in Nat : m = made + 1 + k /\ k <= n - 1
            <4>1. m - made - 1 \in Nat /\ m = made + 1 + (m - made - 1) /\ m - made - 1 <= n - 1
                BY <1>0, <3>1
            <4> QED
                BY <4>1
        <3>3. Size(b) + k \in Size(b)..(Size(b) + n - 1) /\ (Size(b) + k) - Size(b) = k
            BY <1>0, <3>2
        <3>4. PICK j \in Size(b)..(Size(b) + n - 1) : j - Size(b) = k
            BY <3>3
        <3>5. Byte(b, j)' = m /\ j \in Offsets(b)'
            BY <1>3, <3>2, <3>4
        <3> QED
            BY <3>5
    <2> QED
        BY <2>1, <2>2
<1> QED
    BY <1>0, <1>4, <1>5, <1>6, <1>7, <1>8, ZenonT(60) DEF Kept

LEMMA KeptEmptied ==
  ASSUME RingTyped, Kept, NEW b \in Streams!Used, NEW n \in 1..Size(b), Emptied(b, n) PROVE Kept'
<1> DEFINE stays(p) == p \in DOMAIN taken /\ taken'[p] = taken[p]
           goes(p, j) == p = Len(taken) + j /\ j - 1 \in Offsets(b) /\ taken'[p] = Byte(b, j - 1)
           from(c, i) == IF c = b THEN i + n ELSE i
<1>0. /\ made \in Nat /\ Len(taken) \in Nat /\ DOMAIN taken = 1..Len(taken) /\ \A c \in Streams!Used : Size(c) \in Nat
      /\ n \in Nat /\ n > 0 /\ made' = made /\ Streams!Used' = Streams!Used /\ DOMAIN taken' = 1..(Len(taken) + n)
    BY Counts, LenProperties DEF Emptied
<1>1. ASSUME NEW p \in DOMAIN taken' PROVE stays(p) \/ \E j \in 1..n : goes(p, j)
    <2>1. CASE p <= Len(taken)
        <3>1. p \in DOMAIN taken
            BY <1>0, <2>1
        <3> QED
            BY <3>1 DEF Emptied
    <2>2. CASE ~ (p <= Len(taken))
        <3>1. PICK j \in 1..n : p = Len(taken) + j
            <4>1. p - Len(taken) \in 1..n /\ p = Len(taken) + (p - Len(taken))
                BY <1>0, <2>2
            <4> QED
                BY <4>1
        <3>2. j - 1 \in Offsets(b)
            BY <1>0, <3>1 DEF Offsets
        <3> QED
            BY <3>1, <3>2 DEF Emptied
    <2> QED
        BY <2>1, <2>2
<1>2. \A p \in DOMAIN taken : p \in DOMAIN taken' /\ taken'[p] = taken[p]
    BY <1>0 DEF Emptied
<1>3. ASSUME NEW j \in 1..n PROVE Len(taken) + j \in DOMAIN taken' /\ taken'[Len(taken) + j] = Byte(b, j - 1)
    BY <1>0 DEF Emptied
<1>4. ASSUME NEW c \in Streams!Used, NEW i \in Offsets(c)'
      PROVE  from(c, i) \in Offsets(c) /\ Byte(c, i)' = Byte(c, from(c, i)) /\ i \in Nat
    <2>1. CASE c = b
        <3>1. i \in 0..(Size(b) - n - 1) /\ i + n \in Offsets(b) /\ i \in Nat
            BY <1>0, <1>4, <2>1, SMTT(60) DEF Emptied, Offsets
        <3> QED
            BY <2>1, <3>1 DEF Emptied
    <2>2. CASE c # b
        <3>1. i \in Offsets(c) /\ i \in Nat
            BY <1>0, <1>4, <2>2 DEF Emptied, Offsets
        <3> QED
            BY <2>2, <3>1 DEF Emptied
    <2> QED
        BY <2>1, <2>2
<1>5. ASSUME NEW p \in DOMAIN taken', NEW q \in DOMAIN taken', taken'[p] = taken'[q] PROVE p = q
    <2>1. CASE stays(p) /\ stays(q)
        BY <1>5, <2>1 DEF Kept
    <2>2. ASSUME stays(p), NEW j \in 1..n, goes(q, j) PROVE FALSE
        <3>1. p \in DOMAIN taken /\ j - 1 \in Offsets(b) /\ taken[p] = Byte(b, j - 1)
            BY <1>5, <2>2
        <3> QED
            BY <3>1, NotTaken, Zenon
    <2>3. ASSUME stays(q), NEW j \in 1..n, goes(p, j) PROVE FALSE
        <3>1. q \in DOMAIN taken /\ j - 1 \in Offsets(b) /\ taken[q] = Byte(b, j - 1)
            BY <1>5, <2>3
        <3> QED
            BY <3>1, NotTaken, Zenon
    <2>4. ASSUME NEW j \in 1..n, NEW k \in 1..n, goes(p, j), goes(q, k) PROVE p = q
        <3>1. j - 1 = k - 1
            BY <1>5, <2>4 DEF Kept
        <3> QED
            BY <1>0, <2>4, <3>1
    <2> QED
        BY <1>1, <2>1, <2>2, <2>3, <2>4
<1>6. ASSUME NEW p \in DOMAIN taken' PROVE taken'[p] \in 1..made'
    BY <1>0, <1>1 DEF Kept
<1>7. ASSUME NEW c \in Streams!Used, NEW i \in Offsets(c)'
      PROVE  Byte(c, i)' \in 1..made' /\ \A p \in DOMAIN taken' : taken'[p] # Byte(c, i)'
    <2>1. Byte(c, i)' \in 1..made'
        BY <1>0, <1>4, SMTT(60) DEF Kept
    <2>2. ASSUME NEW p \in DOMAIN taken', taken'[p] = Byte(c, i)' PROVE FALSE
        <3>1. CASE stays(p)
            <4>1. p \in DOMAIN taken /\ taken[p] = Byte(c, from(c, i)) /\ from(c, i) \in Offsets(c)
                BY <1>4, <2>2, <3>1
            <4> HIDE DEF from
            <4> QED
                BY <4>1, ZenonT(60) DEF Kept
        <3>2. ASSUME NEW j \in 1..n, goes(p, j) PROVE FALSE
            <4>1. c = b /\ from(c, i) = j - 1
                BY <1>4, <2>2, <3>2 DEF Kept
            <4> QED
                BY <1>0, <1>4, <4>1
        <3> QED
            BY <1>1, <3>1, <3>2
    <2> QED
        BY <2>1, <2>2
<1>8. ASSUME NEW c \in Streams!Used, NEW d \in Streams!Used, NEW i \in Offsets(c)', NEW j \in Offsets(d)', Byte(c, i)' = Byte(d, j)'
      PROVE  c = d /\ i = j
    <2>1. c = d /\ from(c, i) = from(d, j)
        BY <1>4, <1>8 DEF Kept
    <2>2. i \in Nat /\ j \in Nat
        BY <1>4
    <2> QED
        BY <1>0, <2>1, <2>2
<1>9. ASSUME NEW m \in 1..made'
      PROVE  (\E p \in DOMAIN taken' : taken'[p] = m) \/ \E c \in Streams!Used : \E i \in Offsets(c)' : Byte(c, i)' = m
    <2>1. CASE \E p \in DOMAIN taken : taken[p] = m
        BY <1>2, <2>1
    <2>2. ASSUME NEW c \in Streams!Used \ {b}, NEW i \in Offsets(c), Byte(c, i) = m PROVE i \in Offsets(c)' /\ Byte(c, i)' = m
        BY <2>2 DEF Emptied, Offsets
    <2>3. ASSUME NEW i \in Offsets(b), Byte(b, i) = m, i < n PROVE \E p \in DOMAIN taken' : taken'[p] = m
        <3>1. i + 1 \in 1..n /\ (i + 1) - 1 = i
            BY <1>0, <2>3 DEF Offsets
        <3> QED
            BY <1>3, <2>3, <3>1
    <2>4. ASSUME NEW i \in Offsets(b), Byte(b, i) = m, ~ (i < n) PROVE \E k \in Offsets(b)' : Byte(b, k)' = m
        <3>1. PICK k \in Nat : i = k + n /\ k \in 0..(Size(b) - n - 1)
            <4>1. i \in Nat /\ i - n \in Nat /\ i = (i - n) + n /\ i - n \in 0..(Size(b) - n - 1)
                BY <1>0, <2>4 DEF Offsets
            <4> QED
                BY <4>1
        <3> QED
            BY <1>0, <2>4, <3>1 DEF Emptied, Offsets
    <2> QED
        BY <1>0, <2>1, <2>2, <2>3, <2>4 DEF Kept
<1> QED
    BY <1>0, <1>5, <1>6, <1>7, <1>8, <1>9, Zenon DEF Kept

\* No byte is moved, and what is added are empty blocks.
Unmoved ==
  /\ Streams!Used \subseteq Streams!Used' /\ UNCHANGED <<made, taken>>
  /\ \A c \in Streams!Used : Size(c)' = Size(c) /\ \A i \in Offsets(c) : Byte(c, i)' = Byte(c, i)
  /\ \A c \in Streams!Used' \ Streams!Used : Size(c)' = 0

LEMMA KeptUnmoved == ASSUME Kept, Unmoved PROVE Kept'
<1>1. ASSUME NEW c \in Streams!Used', NEW i \in Offsets(c)' PROVE c \in Streams!Used /\ i \in Offsets(c) /\ Byte(c, i)' = Byte(c, i)
    <2>1. c \in Streams!Used
        <3>1. ASSUME c \notin Streams!Used PROVE FALSE
            <4>1. Size(c)' = 0
                BY <3>1 DEF Unmoved
            <4> QED
                BY <4>1 DEF Offsets
        <3> QED
            BY <3>1
    <2> QED
        BY <2>1 DEF Unmoved, Offsets
<1>2. ASSUME NEW c \in Streams!Used, NEW i \in Offsets(c) PROVE c \in Streams!Used' /\ i \in Offsets(c)' /\ Byte(c, i)' = Byte(c, i)
    BY DEF Unmoved, Offsets
<1>3. made' = made /\ taken' = taken
    BY DEF Unmoved
<1>4. \A c \in Streams!Used' : \A i \in Offsets(c)' : Byte(c, i)' \in 1..made' /\ \A p \in DOMAIN taken' : taken'[p] # Byte(c, i)'
    BY <1>1, <1>3 DEF Kept
<1>5. ASSUME NEW c \in Streams!Used', NEW d \in Streams!Used', NEW i \in Offsets(c)', NEW j \in Offsets(d)', Byte(c, i)' = Byte(d, j)'
      PROVE  c = d /\ i = j
    <2>1. c \in Streams!Used /\ d \in Streams!Used /\ i \in Offsets(c) /\ j \in Offsets(d) /\ Byte(c, i) = Byte(d, j)
        BY <1>1, <1>5
    <2> QED
        BY <2>1, OnceStored, ZenonT(60)
<1>6. \A m \in 1..made' : (\E p \in DOMAIN taken' : taken'[p] = m) \/ \E c \in Streams!Used' : \E i \in Offsets(c)' : Byte(c, i)' = m
    BY <1>2, <1>3 DEF Kept
<1> QED
    BY <1>3, <1>4, <1>5, <1>6 DEF Kept

\* What the socket takes at once has been taken as soon as it is made.
LEMMA KeptDirect ==
  ASSUME RingTyped, Kept, NEW n \in Nat, made' = made + n, taken' = taken \o [k \in 1..n |-> made + k], UNCHANGED blocks
  PROVE  Kept' /\ taken' \in Seq(Nat)
<1> DEFINE more == [k \in 1..n |-> made + k]
<1>0. made \in Nat /\ Len(taken) \in Nat /\ DOMAIN taken = 1..Len(taken) /\ taken \in Seq(Nat)
    BY Counts DEF RingTyped
<1>1. more \in Seq(Nat) /\ Len(more) = n /\ \A j \in 1..n : more[j] = made + j
    BY <1>0, SeqDef, LenProperties
<1> HIDE DEF more
<1>2. /\ taken' \in Seq(Nat) /\ DOMAIN taken' = 1..(Len(taken) + n)
      /\ \A p \in 1..(Len(taken) + n) : taken'[p] = IF p <= Len(taken) THEN taken[p] ELSE more[p - Len(taken)]
    <2>1. taken' = taken \o more
        BY DEF more
    <2> QED
        BY <1>0, <1>1, <2>1, ConcatProperties, LenProperties, SMTT(60)
<1> DEFINE old(p) == p \in DOMAIN taken /\ taken'[p] = taken[p] /\ taken[p] \in 1..made
           new(p) == p \in Nat /\ p > Len(taken) /\ p - Len(taken) \in 1..n /\ taken'[p] = made + (p - Len(taken))
<1>3. ASSUME NEW p \in DOMAIN taken' PROVE old(p) \/ new(p)
    <2>1. CASE p <= Len(taken)
        <3>1. p \in DOMAIN taken /\ taken'[p] = taken[p]
            BY <1>0, <1>2, <2>1
        <3>2. taken[p] \in 1..made
            BY <3>1 DEF Kept
        <3> QED
            BY <3>1, <3>2
    <2>2. CASE ~ (p <= Len(taken))
        <3>1. p \in Nat /\ p > Len(taken) /\ p - Len(taken) \in 1..n
            BY <1>0, <1>2, <2>2
        <3> QED
            BY <1>1, <1>2, <2>2, <3>1
    <2> QED
        BY <2>1, <2>2
<1>4. \A p \in DOMAIN taken : p \in DOMAIN taken' /\ taken'[p] = taken[p]
    BY <1>0, <1>2
<1>5. \A p, q \in DOMAIN taken' : taken'[p] = taken'[q] => p = q
    <2> SUFFICES ASSUME NEW p \in DOMAIN taken', NEW q \in DOMAIN taken', taken'[p] = taken'[q] PROVE p = q
        OBVIOUS
    <2>1. CASE old(p) /\ old(q)
        BY <2>1 DEF Kept
    <2>2. CASE old(p) /\ new(q)
        BY <1>0, <2>2, SMTT(60)
    <2>3. CASE new(p) /\ old(q)
        BY <1>0, <2>3, SMTT(60)
    <2>4. CASE new(p) /\ new(q)
        BY <1>0, <2>4, SMTT(60)
    <2> QED
        BY <1>3, <2>1, <2>2, <2>3, <2>4
<1>6. ASSUME NEW p \in DOMAIN taken' PROVE taken'[p] \in 1..made'
    <2>1. CASE old(p)
        BY <1>0, <2>1
    <2>2. CASE new(p)
        BY <1>0, <2>2
    <2> QED
        BY <1>3, <2>1, <2>2
<1>7. ASSUME NEW c \in Streams!Used, NEW i \in Offsets(c)
      PROVE  Byte(c, i) \in 1..made' /\ \A p \in DOMAIN taken' : taken'[p] # Byte(c, i)
    <2>1. Byte(c, i) \in 1..made
        BY DEF Kept
    <2>2. ASSUME NEW p \in DOMAIN taken', taken'[p] = Byte(c, i) PROVE FALSE
        <3>0. ~ new(p)
            BY <1>0, <2>1, <2>2
        <3>1. p \in DOMAIN taken /\ taken[p] = Byte(c, i)
            BY <1>3, <2>2, <3>0
        <3> QED
            BY <3>1, NotTaken, Zenon
    <2>3. Byte(c, i) \in 1..made'
        BY <1>0, <2>1
    <2> QED
        BY <2>2, <2>3
<1>8. ASSUME NEW m \in 1..made'
      PROVE  (\E p \in DOMAIN taken' : taken'[p] = m) \/ \E c \in Streams!Used : \E i \in Offsets(c) : Byte(c, i) = m
    <2>1. CASE m \in 1..made
        BY <1>4, <2>1 DEF Kept
    <2>2. CASE m \notin 1..made
        <3>1. /\ m - made \in 1..n /\ Len(taken) + (m - made) \in DOMAIN taken' /\ ~ (Len(taken) + (m - made) <= Len(taken))
              /\ (Len(taken) + (m - made)) - Len(taken) = m - made /\ made + (m - made) = m
            BY <1>0, <1>2, <2>2, SMTT(60)
        <3>2. taken'[Len(taken) + (m - made)] = m
            BY <1>1, <1>2, <3>1
        <3> QED
            BY <3>1, <3>2
    <2> QED
        BY <2>1, <2>2
<1>9. Streams!Used' = Streams!Used /\ \A c \in Streams!Used : Offsets(c)' = Offsets(c) /\ \A i \in Offsets(c) : Byte(c, i)' = Byte(c, i)
    BY DEF Streams!Used, Offsets, Size, Streams!DataSize, Byte, Cell
<1>10. \A c, d \in Streams!Used' : \A i \in Offsets(c)', j \in Offsets(d)' : Byte(c, i)' = Byte(d, j)' => c = d /\ i = j
    <2> SUFFICES ASSUME NEW c \in Streams!Used, NEW d \in Streams!Used, NEW i \in Offsets(c), NEW j \in Offsets(d), Byte(c, i) = Byte(d, j)
                 PROVE  c = d /\ i = j
        BY <1>9
    <2> QED
        BY OnceStored, ZenonT(60)
<1>11. \A c \in Streams!Used' : \A i \in Offsets(c)' : Byte(c, i)' \in 1..made' /\ \A p \in DOMAIN taken' : taken'[p] # Byte(c, i)'
    <2> SUFFICES ASSUME NEW c \in Streams!Used', NEW i \in Offsets(c)'
                 PROVE  Byte(c, i)' \in 1..made' /\ \A p \in DOMAIN taken' : taken'[p] # Byte(c, i)'
        OBVIOUS
    <2>1. c \in Streams!Used /\ i \in Offsets(c) /\ Byte(c, i)' = Byte(c, i)
        BY <1>9
    <2> QED
        BY <1>7, <2>1
<1>12. \A m \in 1..made' : (\E p \in DOMAIN taken' : taken'[p] = m) \/ \E c \in Streams!Used' : \E i \in Offsets(c)' : Byte(c, i)' = m
    <2> SUFFICES ASSUME NEW m \in 1..made'
                 PROVE  (\E p \in DOMAIN taken' : taken'[p] = m) \/ \E c \in Streams!Used' : \E i \in Offsets(c)' : Byte(c, i)' = m
        OBVIOUS
    <2>1. ASSUME NEW c \in Streams!Used, NEW i \in Offsets(c), Byte(c, i) = m
          PROVE  c \in Streams!Used' /\ i \in Offsets(c)' /\ Byte(c, i)' = m
        BY <1>9, <2>1
    <2> QED
        BY <1>8, <2>1
<1> QED
    BY <1>2, <1>5, <1>6, <1>10, <1>11, <1>12, Zenon DEF Kept

-------------------------------------------------------------------------------
\* What arrives stays in its order.
LEMMA Ringed ==
  ASSUME RingTyped, TakerInv, dir = "in"
  PROVE  /\ fillBlk \in Streams!Used /\ takeBlk \in Streams!Used /\ Taken \in Streams!Used /\ Active \subseteq Streams!Used
         /\ fillBlk \in Active /\ Taken \in Active /\ \A b \in Streams!Used : link[b] \in Streams!Used /\ (Size(b) > 0 => b \in Active)
BY DEF RingTyped, TakerInv, Taken, Active

LEMMA FirstTyped == ASSUME RingTyped, Kept, NEW b \in Streams!Used PROVE First(b) \in Nat /\ First(b) > 0
<1>1. CASE Size(b) > 0
    <2>1. 0 \in Offsets(b)
        BY <1>1, Counts DEF Offsets
    <2>2. Byte(b, 0) \in 1..made
        BY <2>1 DEF Kept
    <2> QED
        BY <1>1, <2>2, Counts DEF First
<1>2. CASE ~ (Size(b) > 0)
    BY <1>2, Counts DEF First
<1> QED
    BY <1>1, <1>2

\* A stored byte comes after all that have been taken.
LEMMA StoredLater ==
  ASSUME RingTyped, Kept, Ordered, NEW b \in Streams!Used, NEW i \in Offsets(b) PROVE Byte(b, i) \in (Len(taken) + 1)..made
<1>1. Byte(b, i) \in 1..made /\ Len(taken) \in Nat /\ DOMAIN taken = 1..Len(taken) /\ made \in Nat
    BY Counts DEF Kept
<1>2. ASSUME Byte(b, i) <= Len(taken) PROVE FALSE
    <2>1. Byte(b, i) \in DOMAIN taken /\ taken[Byte(b, i)] = Byte(b, i)
        BY <1>1, <1>2 DEF Ordered
    <2> QED
        BY <2>1, NotTaken, Zenon
<1> QED
    BY <1>1, <1>2

\* Where the taker stands in the filler's block, nothing is stored elsewhere.
LEMMA AloneTogether ==
  ASSUME RingTyped, TakerInv, Kept, Ordered, dir = "in", Taken = fillBlk, NEW b \in Streams!Used, b # fillBlk PROVE Size(b) = 0
<1> SUFFICES ASSUME Size(b) # 0 PROVE FALSE
    OBVIOUS
<1>0. fillBlk \in Streams!Used /\ fillBlk \in Active
    BY Ringed
<1>1. 0 \in Offsets(b) /\ Size(fillBlk) \in Nat /\ made \in Nat /\ Len(taken) \in Nat
    BY <1>0, Counts DEF Offsets
<1>2. Byte(b, 0) \in (Len(taken) + 1)..made
    BY <1>1, StoredLater
<1>3. First(fillBlk) = Len(taken) + 1 /\ First(fillBlk) + Size(fillBlk) = made + 1
    BY DEF Ordered
<1>4. PICK i \in 0..(Size(fillBlk) - 1) : Byte(b, 0) = Len(taken) + 1 + i
    <2>1. Byte(b, 0) - Len(taken) - 1 \in 0..(Size(fillBlk) - 1)
        BY <1>1, <1>2, <1>3
    <2> QED
        BY <1>1, <1>2, <2>1
<1>5. i \in Offsets(fillBlk) /\ Byte(fillBlk, i) = Byte(b, 0)
    BY <1>0, <1>3, <1>4 DEF Offsets, Ordered
<1> QED
    BY <1>0, <1>1, <1>5, OnceStored, Zenon

LEMMA OrderedSame ==
  ASSUME RingTyped, Ordered, dir = "in", Unmoved, Streams!Used' = Streams!Used, TakerInv, UNCHANGED <<link, fillBlk>>, Taken' = Taken,
         blocks'[Taken].flag = blocks[Taken].flag,
         filler'.pc = "next" => filler.pc = "next" \/ Size(fillBlk) >= BlockSize - 1
  PROVE  Ordered'
<1>1. /\ made' = made /\ taken' = taken /\ fillBlk' = fillBlk /\ link' = link
      /\ \A c \in Streams!Used : Size(c)' = Size(c) /\ Offsets(c)' = Offsets(c) /\ \A i \in Offsets(c) : Byte(c, i)' = Byte(c, i)
    BY DEF Unmoved, Offsets
<1>2. Active' = Active /\ Active \subseteq Streams!Used /\ Taken \in Active /\ fillBlk \in Active
    BY <1>1, Ringed DEF Active
<1>3. ASSUME NEW b \in Streams!Used PROVE First(b)' = First(b)
    <2>1. CASE Size(b) > 0
        <3>1. 0 \in Offsets(b)
            BY <2>1, Counts DEF Offsets
        <3> QED
            BY <1>1, <2>1, <3>1 DEF First
    <2>2. CASE ~ (Size(b) > 0)
        BY <1>1, <2>2 DEF First
    <2> QED
        BY <2>1, <2>2
<1>4. \A b \in Active : \A i \in Offsets(b)' : Byte(b, i)' = First(b)' + i
    BY <1>1, <1>2, <1>3 DEF Ordered
<1>5. First(Taken)' = Len(taken)' + 1 /\ First(fillBlk)' + Size(fillBlk)' = made' + 1
    <2>1. First(Taken)' = First(Taken) /\ First(fillBlk)' = First(fillBlk) /\ Size(fillBlk)' = Size(fillBlk)
        BY <1>1, <1>2, <1>3
    <2> QED
        BY <1>1, <2>1 DEF Ordered
<1>6. \A b \in Active \ {fillBlk} : link'[b] \in Active \ {b} /\ First(link[b])' = First(b)' + Size(b)'
    BY <1>1, <1>2, <1>3 DEF Ordered
<1>7. \A b \in Active \ {Taken, fillBlk} : Size(b)' >= BlockSize - 1
    BY <1>1, <1>2 DEF Ordered
<1>8. filler'.pc = "next" => fillBlk = Taken \/ Size(fillBlk)' >= BlockSize - 1
    BY <1>1, <1>2 DEF Ordered
<1> QED
    BY <1>1, <1>2, <1>4, <1>5, <1>6, <1>7, <1>8 DEF Ordered

LEMMA OrderedFilled ==
  ASSUME RingTyped, Kept, Ordered, TakerInv, dir = "in", NEW n \in Nat \ {0}, Filled(fillBlk, n),
         UNCHANGED <<link, fillBlk>>, Taken' = Taken, blocks'[Taken].flag = blocks[Taken].flag, filler'.pc # "next"
  PROVE  Ordered'
<1> DEFINE f == fillBlk
           s == Size(f)
<1>0. /\ f \in Streams!Used /\ f \in Active /\ Taken \in Active /\ Active \subseteq Streams!Used
      /\ s \in Nat /\ made \in Nat /\ Len(taken) \in Nat
    BY Ringed, Counts
<1>1. /\ made' = made + n /\ taken' = taken /\ fillBlk' = f /\ link' = link /\ Streams!Used' = Streams!Used /\ Size(f)' = s + n
      /\ \A c \in Streams!Used \ {f} : Size(c)' = Size(c) /\ Offsets(c)' = Offsets(c) /\ \A i \in Offsets(c) : Byte(c, i)' = Byte(c, i)
    BY DEF Filled, Offsets
<1>2. Active' = Active
    <2>1. \A b \in Streams!Used \ {f} : Size(b)' = Size(b)
        BY <1>1
    <2> QED
        BY <1>0, <1>1, <2>1 DEF Active
<1>3. First(f) + s = made + 1 /\ First(f) \in Nat
    BY <1>0, FirstTyped DEF Ordered
<1>4. ASSUME NEW i \in Offsets(f)' PROVE Byte(f, i)' = First(f) + i
    <2>1. i \in 0..(s + n - 1)
        <3>1. i \in 0..(Size(f)' - 1)
            BY DEF Offsets
        <3> QED
            BY <1>0, <1>1, <3>1
    <2>2. CASE i \in Offsets(f)
        BY <1>0, <2>2 DEF Filled, Ordered
    <2>3. CASE i \notin Offsets(f)
        <3>1. i \in s..(s + n - 1)
            BY <1>0, <2>1, <2>3 DEF Offsets
        <3>2. Byte(f, i)' = made + 1 + (i - s)
            BY <3>1 DEF Filled
        <3> QED
            BY <1>0, <1>3, <3>1, <3>2
    <2> QED
        BY <2>2, <2>3
<1>5. First(f)' = First(f)
    <2>1. 0 \in Offsets(f)' /\ Size(f)' > 0
        BY <1>0, <1>1 DEF Offsets
    <2>2. Byte(f, 0)' = First(f)
        BY <1>3, <1>4, <2>1
    <2> QED
        BY <2>1, <2>2 DEF First
<1>6. ASSUME NEW b \in Active PROVE First(b)' = First(b)
    <2>1. CASE b = f
        BY <1>5, <2>1
    <2>2. CASE b # f /\ Size(b) > 0
        <3>1. 0 \in Offsets(b) /\ b \in Streams!Used \ {f}
            BY <1>0, <2>2, Counts DEF Offsets
        <3>2. Size(b)' > 0 /\ Byte(b, 0)' = Byte(b, 0)
            BY <1>1, <2>2, <3>1
        <3> QED
            BY <2>2, <3>2 DEF First
    <2>3. CASE b # f /\ ~ (Size(b) > 0)
        <3>1. Size(b)' = Size(b)
            BY <1>0, <1>1, <2>3
        <3> QED
            BY <1>1, <2>3, <3>1 DEF First
    <2> QED
        BY <2>1, <2>2, <2>3
<1>7. \A b \in Active : \A i \in Offsets(b)' : Byte(b, i)' = First(b)' + i
    <2> SUFFICES ASSUME NEW b \in Active, NEW i \in Offsets(b)' PROVE Byte(b, i)' = First(b) + i
        BY <1>6
    <2>1. CASE b = f
        BY <1>4, <2>1
    <2>2. CASE b # f
        BY <1>0, <1>1, <2>2 DEF Ordered
    <2> QED
        BY <2>1, <2>2
<1>8. First(Taken)' = Len(taken)' + 1 /\ First(f)' + Size(f)' = made' + 1
    <2>1. First(Taken)' = First(Taken)
        BY <1>0, <1>6
    <2>2. First(f)' + Size(f)' = made' + 1
        BY <1>0, <1>1, <1>3, <1>5, SMTT(60)
    <2> QED
        BY <1>1, <2>1, <2>2 DEF Ordered
<1>9. ASSUME NEW b \in Active \ {f} PROVE link'[b] \in Active \ {b} /\ First(link[b])' = First(b)' + Size(b)' /\ Size(b)' = Size(b)
    <2>1. Size(b)' = Size(b) /\ link[b] \in Active \ {b} /\ First(link[b]) = First(b) + Size(b)
        BY <1>0, <1>1 DEF Ordered
    <2> QED
        BY <1>1, <1>6, <2>1
<1>10. \A b \in Active \ {Taken, f} : Size(b)' >= BlockSize - 1
    BY <1>9 DEF Ordered
<1>11. \A k \in DOMAIN taken' : taken'[k] = k
    BY <1>1 DEF Ordered
<1>12. link' = link /\ blocks'[Taken].flag
    BY <1>1 DEF Ordered
<1> QED
    BY <1>1, <1>2, <1>7, <1>8, <1>9, <1>10, <1>11, <1>12 DEF Ordered

LEMMA OrderedEmptied ==
  ASSUME RingTyped, Kept, Ordered, TakerInv, dir = "in", NEW n \in 1..Size(Taken), Emptied(Taken, n),
         UNCHANGED <<link, fillBlk, filler>>, Taken' = Taken, blocks'[Taken].flag = blocks[Taken].flag
  PROVE  Ordered'
<1> DEFINE t == Taken
           s == Size(t)
<1>0. /\ t \in Streams!Used /\ t \in Active /\ fillBlk \in Active /\ Active \subseteq Streams!Used
      /\ s \in Nat /\ made \in Nat /\ Len(taken) \in Nat /\ n \in Nat /\ n > 0 /\ n <= s /\ DOMAIN taken = 1..Len(taken)
    BY Ringed, Counts
<1>1. /\ made' = made /\ fillBlk' = fillBlk /\ link' = link /\ Streams!Used' = Streams!Used /\ Size(t)' = s - n
      /\ Len(taken') = Len(taken) + n /\ DOMAIN taken' = 1..(Len(taken) + n)
      /\ \A c \in Streams!Used \ {t} : Size(c)' = Size(c) /\ Offsets(c)' = Offsets(c) /\ \A i \in Offsets(c) : Byte(c, i)' = Byte(c, i)
    BY <1>0, LenProperties DEF Emptied, Offsets
<1>2. Active' = Active
    <2>1. \A b \in Streams!Used \ {t} : Size(b)' = Size(b)
        BY <1>1
    <2>2. Taken' = t
        OBVIOUS
    <2> HIDE DEF t
    <2> QED
        BY <1>0, <1>1, <2>1, <2>2 DEF Active, t
<1>3. /\ First(t) = Len(taken) + 1 /\ \A i \in Offsets(t) : Byte(t, i) = Len(taken) + 1 + i
      /\ t = fillBlk => Len(taken) + 1 + s = made + 1
    BY <1>0 DEF Ordered
<1>4. \A k \in DOMAIN taken' : taken'[k] = k
    <2> SUFFICES ASSUME NEW k \in DOMAIN taken' PROVE taken'[k] = k
        OBVIOUS
    <2>1. CASE k \in DOMAIN taken
        BY <2>1 DEF Emptied, Ordered
    <2>2. CASE k \notin DOMAIN taken
        <3>1. PICK j \in 1..n : k = Len(taken) + j
            <4>1. k - Len(taken) \in 1..n /\ k = Len(taken) + (k - Len(taken))
                BY <1>0, <1>1, <2>2
            <4> QED
                BY <4>1
        <3>2. taken'[k] = Byte(t, j - 1) /\ j - 1 \in Offsets(t)
            BY <1>0, <3>1, SMTT(60) DEF Emptied, Offsets
        <3> QED
            BY <1>0, <1>3, <3>1, <3>2
    <2> QED
        BY <2>1, <2>2
<1>5. First(t)' = First(t) + n /\ \A i \in Offsets(t)' : Byte(t, i)' = First(t)' + i
    <2>1. ASSUME NEW i \in Offsets(t)' PROVE Byte(t, i)' = Len(taken) + 1 + n + i
        <3>1. i \in 0..(s - n - 1) /\ i + n \in Offsets(t) /\ i \in Nat
            BY <1>0, <1>1 DEF Offsets
        <3>2. Byte(t, i)' = Byte(t, i + n)
            BY <3>1 DEF Emptied
        <3>3. Byte(t, i + n) = Len(taken) + 1 + (i + n)
            BY <1>3, <3>1
        <3> QED
            BY <1>0, <3>1, <3>2, <3>3
    <2>2. CASE s - n > 0
        <3>1. 0 \in Offsets(t)' /\ Size(t)' > 0
            BY <1>0, <1>1, <2>2 DEF Offsets
        <3>2. First(t)' = Len(taken) + 1 + n
            BY <1>0, <2>1, <3>1 DEF First
        <3> QED
            BY <1>0, <1>3, <2>1, <3>2
    <2>3. CASE ~ (s - n > 0)
        <3>1. ~ (Size(t)' > 0) /\ s = n
            BY <1>0, <1>1, <2>3
        <3>2. First(t)' = IF t = fillBlk THEN made + 1 ELSE (Len(taken) + n) + 1
            BY <1>1, <3>1 DEF First
        <3>3. First(t)' = Len(taken) + 1 + n
            BY <1>0, <1>3, <3>1, <3>2
        <3> QED
            BY <1>0, <1>3, <2>1, <3>3
    <2> QED
        BY <2>2, <2>3
<1>6. ASSUME NEW b \in Active \ {t} PROVE First(b)' = First(b) /\ Size(b)' = Size(b) /\ b \in Streams!Used \ {t}
    <2>1. b \in Streams!Used \ {t} /\ Size(b)' = Size(b)
        BY <1>0, <1>1
    <2>2. CASE Size(b) > 0
        <3>1. 0 \in Offsets(b)
            BY <2>1, <2>2, Counts DEF Offsets
        <3> QED
            BY <1>1, <2>1, <2>2, <3>1 DEF First
    <2>3. CASE ~ (Size(b) > 0)
        <3>1. b = fillBlk
            BY <2>3 DEF Active
        <3> QED
            BY <1>1, <2>1, <2>3, <3>1 DEF First
    <2> QED
        BY <2>1, <2>2, <2>3
<1>7. \A b \in Active : \A i \in Offsets(b)' : Byte(b, i)' = First(b)' + i
    <2> SUFFICES ASSUME NEW b \in Active, NEW i \in Offsets(b)', b # t PROVE Byte(b, i)' = First(b)' + i
        BY <1>5
    <2> QED
        BY <1>1, <1>6 DEF Ordered
<1>8. First(t)' = Len(taken)' + 1 /\ First(fillBlk)' + Size(fillBlk)' = made' + 1
    <2>1. First(t)' = Len(taken)' + 1
        BY <1>0, <1>1, <1>3, <1>5
    <2>2. CASE fillBlk = t
        BY <1>0, <1>1, <1>3, <1>5, <2>2
    <2>3. CASE fillBlk # t
        <3>1. First(fillBlk)' = First(fillBlk) /\ Size(fillBlk)' = Size(fillBlk)
            BY <1>0, <1>6, <2>3
        <3>2. First(fillBlk) + Size(fillBlk) = made + 1
            BY DEF Ordered
        <3> QED
            BY <1>1, <2>1, <3>1, <3>2
    <2> QED
        BY <2>1, <2>2, <2>3
<1>9. ASSUME NEW b \in Active \ {fillBlk} PROVE link'[b] \in Active \ {b} /\ First(link[b])' = First(b)' + Size(b)'
    <2>1. link[b] \in Active \ {b} /\ First(link[b]) = First(b) + Size(b) /\ First(link[b]) \in Nat
        BY <1>0, FirstTyped DEF Ordered
    <2>2. link[b] # t
        <3> SUFFICES ASSUME link[b] = t PROVE FALSE
            OBVIOUS
        <3>1. b # t /\ Size(b) > 0
            BY <2>1 DEF Active
        <3>2. 0 \in Offsets(b) /\ Size(b) \in Nat /\ b \in Streams!Used
            BY <1>0, <3>1, Counts DEF Offsets
        <3>3. First(b) = Byte(b, 0) /\ Byte(b, 0) \in (Len(taken) + 1)..made
            BY <3>1, <3>2, StoredLater DEF First
        <3> QED
            BY <1>0, <1>3, <2>1, <3>1, <3>2, <3>3
    <2>3. First(link[b])' = First(link[b])
        BY <1>6, <2>1, <2>2
    <2>4. First(b)' + Size(b)' = First(b) + Size(b)
        <3>1. CASE b = t
            BY <1>0, <1>1, <1>3, <1>5, <3>1
        <3>2. CASE b # t
            BY <1>6, <3>2
        <3> QED
            BY <3>1, <3>2
    <2> QED
        BY <1>1, <2>1, <2>3, <2>4
<1>10. \A b \in Active \ {t, fillBlk} : Size(b)' >= BlockSize - 1
    BY <1>6 DEF Ordered
<1>11. filler'.pc = "next" => fillBlk = t \/ Size(fillBlk)' >= BlockSize - 1
    BY <1>0, <1>6 DEF Ordered
<1>12. blocks'[t].flag /\ Taken' = t
    BY DEF Ordered
<1> QED
    BY <1>1, <1>2, <1>4, <1>7, <1>8, <1>9, <1>10, <1>11, <1>12 DEF Ordered

\* The filler goes on to an empty block that isn't the taker's, which may be a new one.
LEMMA OrderedNext ==
  ASSUME RingTyped, Kept, Ordered, TakerInv, dir = "in", filler.pc = "next", Unmoved, Taken' = Taken,
         NEW nx, nx \in Streams!Used', nx \notin Active, Size(nx)' = 0, fillBlk' = nx, link'[fillBlk] = nx,
         \A b \in Streams!Used \ {fillBlk} : link'[b] = link[b],
         blocks'[Taken].flag = blocks[Taken].flag, filler'.pc # "next"
  PROVE  Ordered'
<1> PICK f : f = fillBlk
    OBVIOUS
<1>0. /\ f = fillBlk /\ f \in Streams!Used /\ f \in Active /\ Taken \in Active /\ Active \subseteq Streams!Used
      /\ made \in Nat /\ Len(taken) \in Nat /\ \A b \in Streams!Used : Size(b) \in Nat
    BY Ringed, Counts
<1>1. /\ made' = made /\ taken' = taken /\ Streams!Used \subseteq Streams!Used'
      /\ \A c \in Streams!Used : Size(c)' = Size(c) /\ Offsets(c)' = Offsets(c) /\ \A i \in Offsets(c) : Byte(c, i)' = Byte(c, i)
      /\ \A c \in Streams!Used' \ Streams!Used : Size(c)' = 0
    BY DEF Unmoved, Offsets
<1>2. f = Taken \/ Size(f) > 0
    BY <1>0, RingSizes DEF Ordered
<1>3. Active' = Active \cup {nx}
    <2>1. Active' = {b \in Streams!Used' : Size(b)' > 0} \cup {Taken, nx}
        BY DEF Active
    <2>2. \A b \in Streams!Used' : Size(b)' > 0 <=> b \in Streams!Used /\ Size(b) > 0
        BY <1>1
    <2>3. Active = {b \in Streams!Used : Size(b) > 0} \cup {Taken, f}
        BY DEF Active
    <2> QED
        BY <1>0, <1>1, <1>2, <2>1, <2>2, <2>3
<1>4. ASSUME NEW b \in Active PROVE First(b)' = First(b)
    <2>1. CASE Size(b) > 0
        <3>1. 0 \in Offsets(b)
            BY <1>0, <2>1 DEF Offsets
        <3> QED
            BY <1>0, <1>1, <2>1, <3>1 DEF First
    <2>2. CASE ~ (Size(b) > 0)
        <3>1. b = Taken
            BY <1>2, <2>2 DEF Active
        <3>2. First(b)' = Len(taken) + 1
            BY <1>0, <1>1, <2>2 DEF First
        <3> QED
            BY <3>1, <3>2 DEF Ordered
    <2> QED
        BY <2>1, <2>2
<1>5. First(nx)' = made + 1 /\ Offsets(nx)' = {}
    <2>1. First(nx)' = made + 1
        BY <1>1 DEF First
    <2>2. Offsets(nx)' = 0..(0 - 1)
        BY DEF Offsets
    <2> QED
        BY <2>1, <2>2
<1>6. \A b \in Active' : \A i \in Offsets(b)' : Byte(b, i)' = First(b)' + i
    <2> SUFFICES ASSUME NEW b \in Active, NEW i \in Offsets(b)' PROVE Byte(b, i)' = First(b)' + i
        BY <1>3, <1>5
    <2> QED
        BY <1>0, <1>1, <1>4 DEF Ordered
<1>7. First(Taken)' = Len(taken)' + 1 /\ First(nx)' + Size(nx)' = made' + 1
    <2>1. First(Taken)' = First(Taken)
        BY <1>0, <1>4
    <2> QED
        BY <1>0, <1>1, <1>5, <2>1 DEF Ordered
<1>8. ASSUME NEW b \in Active PROVE link'[b] \in Active' \ {b} /\ First(link[b])' = First(b)' + Size(b)'
    <2>1. CASE b = f
        <3>1. First(f) + Size(f) = made + 1 /\ First(f)' = First(f) /\ Size(f)' = Size(f)
            BY <1>0, <1>1, <1>4 DEF Ordered
        <3>2. First(link[f])' = made + 1
            BY <1>0, <1>5
        <3> QED
            BY <1>0, <1>3, <2>1, <3>1, <3>2
    <2>2. CASE b # f
        <3>1. link[b] \in Active \ {b} /\ First(link[b]) = First(b) + Size(b) /\ link'[b] = link[b]
            BY <1>0, <2>2 DEF Ordered
        <3>2. PICK d : d = link[b]
            OBVIOUS
        <3>3. d \in Active /\ First(d)' = First(d) /\ First(link[b])' = First(d)'
            BY <1>4, <3>1, <3>2
        <3> QED
            BY <1>0, <1>1, <1>3, <1>4, <3>1, <3>2, <3>3
    <2> QED
        BY <2>1, <2>2
<1>9. ASSUME NEW b \in Active \ {Taken} PROVE Size(b)' >= BlockSize - 1
    <2>1. CASE b = f
        BY <1>0, <1>1, <2>1 DEF Ordered
    <2>2. CASE b # f
        BY <1>0, <1>1, <2>2 DEF Ordered
    <2> QED
        BY <2>1, <2>2
<1>10. (\A k \in DOMAIN taken' : taken'[k] = k) /\ blocks'[Taken].flag
    BY <1>1 DEF Ordered
<1> QED
    BY <1>1, <1>3, <1>6, <1>7, <1>8, <1>9, <1>10 DEF Ordered

\* The taker leaves an empty block for the next, in which there are bytes.
LEMMA OrderedSwitched ==
  ASSUME RingTyped, Kept, Ordered, TakerInv, dir = "in", Unmoved, Streams!Used' = Streams!Used, UNCHANGED <<link, fillBlk, filler>>,
         Size(Taken) = 0, link[Taken] # Taken, Size(link[Taken]) > 0, Taken' = link[Taken], blocks'[link[Taken]].flag
  PROVE  Ordered'
<1> PICK t : t = Taken
    OBVIOUS
<1> PICK x : x = link[Taken]
    OBVIOUS
<1>0. /\ t = Taken /\ x = link[Taken] /\ t \in Streams!Used /\ t \in Active /\ fillBlk \in Active /\ Active \subseteq Streams!Used /\ x \in Streams!Used
      /\ made \in Nat /\ Len(taken) \in Nat /\ \A b \in Streams!Used : Size(b) \in Nat
    BY Ringed, Counts
<1>1. /\ made' = made /\ taken' = taken /\ fillBlk' = fillBlk /\ link' = link
      /\ \A c \in Streams!Used : Size(c)' = Size(c) /\ Offsets(c)' = Offsets(c) /\ \A i \in Offsets(c) : Byte(c, i)' = Byte(c, i)
    BY DEF Unmoved, Offsets
<1>2. t # fillBlk
    BY <1>0, AloneTogether
<1>3. Active' = Active \ {t} /\ x \in Active'
    <2>1. Active' = {b \in Streams!Used : Size(b)' > 0} \cup {x, fillBlk}
        BY <1>1 DEF Active
    <2> QED
        BY <1>0, <1>1, <1>2, <2>1 DEF Active
<1>4. ASSUME NEW b \in Streams!Used PROVE First(b)' = First(b)
    <2>1. CASE Size(b) > 0
        <3>1. 0 \in Offsets(b)
            BY <1>0, <2>1 DEF Offsets
        <3> QED
            BY <1>1, <2>1, <3>1 DEF First
    <2>2. CASE ~ (Size(b) > 0)
        BY <1>1, <2>2 DEF First
    <2> QED
        BY <2>1, <2>2
<1>5. First(x) = Len(taken) + 1
    <2>1. First(t) = Len(taken) + 1 /\ First(x) = First(t) + Size(t)
        BY <1>0, <1>2 DEF Ordered
    <2> QED
        BY <1>0, <2>1
<1>6. \A b \in Active' : \A i \in Offsets(b)' : Byte(b, i)' = First(b)' + i
    BY <1>0, <1>1, <1>3, <1>4 DEF Ordered
<1>7. First(x)' = Len(taken') + 1 /\ First(fillBlk)' + Size(fillBlk)' = made' + 1
    BY <1>0, <1>1, <1>4, <1>5 DEF Ordered
<1>8. ASSUME NEW b \in Active' \ {fillBlk} PROVE link[b] \in Active' \ {b} /\ First(link[b])' = First(b)' + Size(b)'
    <2>1. b \in Active \ {t, fillBlk} /\ link[b] \in Active \ {b} /\ First(link[b]) = First(b) + Size(b) /\ Size(b) > 0
        BY <1>3 DEF Ordered, Active
    <2>0. PICK d : d = link[b]
        OBVIOUS
    <2>2. link[b] # t
        <3> SUFFICES ASSUME link[b] = t PROVE FALSE
            OBVIOUS
        <3>1. 0 \in Offsets(b)
            BY <1>0, <2>1 DEF Offsets
        <3>2. First(b) = Byte(b, 0) /\ Byte(b, 0) \in (Len(taken) + 1)..made
            BY <1>0, <2>1, <3>1, StoredLater DEF First
        <3>3. First(t) = Len(taken) + 1
            BY DEF Ordered
        <3> QED
            BY <1>0, <2>1, <3>2, <3>3
    <2>3. First(link[b])' = First(d)' /\ First(d)' = First(d) /\ First(b)' = First(b) /\ Size(b)' = Size(b)
        BY <1>0, <1>1, <1>4, <2>0, <2>1
    <2> QED
        BY <1>3, <2>0, <2>1, <2>2, <2>3
<1>9. \A b \in Active' \ {x, fillBlk} : Size(b)' >= BlockSize - 1
    BY <1>0, <1>1, <1>3 DEF Ordered
<1>10. filler'.pc = "next" => fillBlk' = x \/ Size(fillBlk)' >= BlockSize - 1
    BY <1>0, <1>1, <1>2 DEF Ordered
<1> QED
    BY <1>1, <1>6, <1>7, <1>8, <1>9, <1>10 DEF Ordered

-------------------------------------------------------------------------------
FillerType == [pc : FillerPcs, room : Pieces, left : Nat, cur : Nat]
TakerType == [pc : TakerPcs, room : Pieces, left : Nat, sum : Nat, next : Nat]

LEMMA NoneMoved ==
  ASSUME UNCHANGED <<blocks, made, taken>>
  PROVE  /\ Unmoved /\ Streams!Used' = Streams!Used
         /\ \A b \in Streams!Used : Size(b)' = Size(b) /\ Cell(b, 0)' = Cell(b, 0)
BY DEF Unmoved, Streams!Used, Size, Streams!DataSize, Offsets, Byte, Cell

LEMMA TakenStays == ASSUME UNCHANGED <<takeBlk, taker>> PROVE Taken' = Taken
BY DEF Taken

\* A step of the filler that moves no byte.
LEMMA FillerMoves ==
  ASSUME StreamInv, UNCHANGED <<dir, blocks, link, fillBlk, takeBlk, taker, made, taken>>, HandsTyped', FillerInv',
         dir = "in" /\ filler'.pc = "next" => filler.pc = "next" \/ Size(fillBlk) >= BlockSize - 1
  PROVE  StreamInv'
<1>1. RingTyped'
    BY DEF StreamInv, RingTyped, Streams!Used
<1>2. TakerInv' /\ (dir = "in" => Enough')
    BY DEF StreamInv, TakerInv, Enough, Behind, Size, Streams!DataSize, Cell, Streams!Used
<1>3. Kept'
    BY NoneMoved, KeptUnmoved DEF StreamInv
<1>4. ASSUME dir = "in" PROVE Ordered'
    <2>1. Unmoved /\ Streams!Used' = Streams!Used /\ Taken' = Taken
        BY NoneMoved, TakenStays
    <2>2. RingTyped /\ Ordered /\ TakerInv
        BY <1>4 DEF StreamInv
    <2>3. blocks'[Taken].flag = blocks[Taken].flag
        OBVIOUS
    <2> QED
        BY <1>4, <2>1, <2>2, <2>3, OrderedSame
<1> QED
    BY <1>1, <1>2, <1>3, <1>4 DEF StreamInv

\* A step of the taker that moves no byte.
LEMMA TakerMoves ==
  ASSUME StreamInv, UNCHANGED <<dir, blocks, link, fillBlk, takeBlk, filler, made, taken>>, HandsTyped', TakerInv', Taken' = Taken,
         takeBlk # 0, dir = "in" => Enough'
  PROVE  StreamInv'
<1>1. RingTyped'
    BY DEF StreamInv, RingTyped, Streams!Used
<1>2. FillerInv'
    BY DEF StreamInv, FillerInv
<1>3. Kept'
    BY NoneMoved, KeptUnmoved DEF StreamInv
<1>4. ASSUME dir = "in" PROVE Ordered'
    <2>1. Unmoved /\ Streams!Used' = Streams!Used
        BY NoneMoved
    <2>2. RingTyped /\ Ordered /\ TakerInv
        BY <1>4 DEF StreamInv
    <2>3. blocks'[Taken].flag = blocks[Taken].flag /\ filler'.pc = filler.pc
        OBVIOUS
    <2> QED
        BY <1>4, <2>1, <2>2, <2>3, OrderedSame
<1> QED
    BY <1>1, <1>2, <1>3, <1>4 DEF StreamInv

LEMMA ArriveBytesStep == ASSUME StreamInv, Streams!Arrive PROVE StreamInv'
<1> USE DEF Streams!Arrive, Streams!FillerAt, Streams!FillerKeeps
<1>1. HandsTyped'
    BY DEF StreamInv, HandsTyped, FillerPcs
<1>2. FillerInv'
    BY DEF StreamInv, HandsTyped, FillerInv
<1>3. filler'.pc # "next"
    BY DEF StreamInv, HandsTyped
<1> QED
    BY <1>1, <1>2, <1>3, FillerMoves

LEMMA SendBytesStep == ASSUME StreamInv, NEW l \in Lens, Streams!Send(l) PROVE StreamInv'
<1> USE DEF Streams!Send, Streams!FillerKeeps
<1>0. l \in Nat \ {0} /\ filler \in FillerType /\ dir = "out" /\ filler' = [filler EXCEPT !.pc = "test", !.left = l]
    BY RingSizes DEF StreamInv, HandsTyped, FillerType
<1>1. filler' \in FillerType /\ filler'.pc = "test" /\ filler'.left = l
    BY <1>0 DEF FillerType, FillerPcs
<1>2. HandsTyped'
    BY <1>0, <1>1 DEF StreamInv, HandsTyped, FillerType
<1>3. FillerInv'
    BY <1>1 DEF FillerInv
<1> QED
    BY <1>1, <1>2, <1>3, FillerMoves

LEMMA TestBytesStep == ASSUME StreamInv, Streams!Test \/ Streams!TestSize PROVE StreamInv'
<1> USE DEF Streams!Test, Streams!TestSize, Streams!FillerAt, Streams!FillerKeeps
<1>0. takeBlk \in Nat /\ filler \in FillerType /\ dir = "out" /\ filler.left > 0
    BY SMTT(60) DEF StreamInv, HandsTyped, FillerType, RingTyped, Streams!Used
<1>1. filler' \in FillerType /\ filler'.pc \in {"size", "begin", "direct"} /\ filler'.left = filler.left
    BY <1>0 DEF FillerType, FillerPcs
<1>2. HandsTyped'
    BY <1>0, <1>1 DEF StreamInv, HandsTyped, FillerType
<1>3. FillerInv'
    BY <1>1 DEF FillerInv
<1> QED
    BY <1>0, <1>1, <1>2, <1>3, FillerMoves

LEMMA RoomBefore ==
  ASSUME NEW r \in 0..BlockSize, NEW t \in 0..BlockSize, t < r
  PROVE  t # BlockSize /\ t + (r - t - 1) < r /\ t + (r - t - 1) <= BlockSize /\ (r - t - 1 = 0 => BlockSize - r + t >= BlockSize - 1)
<1> BlockSize \in Nat
    BY RingSizes
<1> QED
    OBVIOUS

\* What beginWriteBuff tells the filler.
LEMMA RoomFits ==
  ASSUME RingTyped, NEW b \in Streams!Used, NEW room, room = Streams!Room(b)
  PROVE  /\ room \in Pieces /\ (room.len = 0 => Size(b) >= BlockSize - 1)
         /\ room.len > 0 =>
              /\ room.at + room.len <= BlockSize
              /\ blocks[b].wt = BlockSize => room.at = 0 /\ room.len < blocks[b].rd /\ ~ room.split /\ room.second = 0
              /\ blocks[b].wt < BlockSize =>
                   room.at = blocks[b].wt /\ (blocks[b].rd > blocks[b].wt => room.at + room.len < blocks[b].rd /\ ~ room.split)
              /\ room.split => room.at + room.len = BlockSize /\ room.second < blocks[b].rd
              /\ ~ room.split => room.second = 0
<1> PICK r : r = blocks[b].rd
    OBVIOUS
<1> PICK t : t = blocks[b].wt
    OBVIOUS
<1>1. r \in 0..BlockSize /\ t \in 0..BlockSize /\ (t = 0 => r = 0) /\ Size(b) = (IF r <= t THEN t - r ELSE BlockSize - r + t)
    BY BlockTyped
<1>2. CASE t < r
    <2>1. room = [at |-> t, len |-> r - t - 1, second |-> 0, split |-> FALSE]
        BY <1>2 DEF Streams!Room, Streams!Region
    <2>2. room.at = t /\ room.len = r - t - 1 /\ room.second = 0 /\ room.split = FALSE
        BY <2>1
    <2>3. room \in Pieces
        <3>1. t \in 0..BlockSize /\ r - t - 1 \in 0..BlockSize /\ 0 \in 0..BlockSize
            BY <1>1, <1>2, RingSizes, SMTT(60)
        <3> QED
            BY <2>1, <3>1 DEF Pieces
    <2>4. t # BlockSize /\ t + (r - t - 1) < r /\ t + (r - t - 1) <= BlockSize /\ (r - t - 1 = 0 => BlockSize - r + t >= BlockSize - 1)
        BY <1>1, <1>2, RoomBefore
    <2>5. Size(b) = BlockSize - r + t
        BY <1>1, <1>2, RingSizes
    <2>6. room.len = 0 => Size(b) >= BlockSize - 1
        BY <2>2, <2>4, <2>5
    <2> QED
        BY <2>2, <2>3, <2>4, <2>6
<1>3. CASE ~ (t < r) /\ t = BlockSize /\ r > 0
    <2>1. room = [at |-> 0, len |-> r - 1, second |-> 0, split |-> FALSE]
        BY <1>3 DEF Streams!Room, Streams!Region
    <2>2. room.at = 0 /\ room.len = r - 1 /\ room.second = 0 /\ room.split = FALSE
        BY <2>1
    <2>3. room \in Pieces
        <3>1. r - 1 \in 0..BlockSize /\ 0 \in 0..BlockSize
            BY <1>1, <1>3, RingSizes
        <3> QED
            BY <2>1, <3>1 DEF Pieces
    <2> QED
        BY <1>1, <1>3, <2>2, <2>3, RingSizes
<1>4. CASE ~ (t < r) /\ ~ (t = BlockSize /\ r > 0)
    <2> PICK s : s = IF r > 0 THEN r - 1 ELSE 0
        OBVIOUS
    <2> PICK y : y = (r > 0)
        OBVIOUS
    <2>1. room = [at |-> t, len |-> BlockSize - t, second |-> s, split |-> y]
        BY <1>4 DEF Streams!Room, Streams!Region
    <2>2. room.at = t /\ room.len = BlockSize - t /\ room.second = s /\ room.split = y
        BY <2>1
    <2>3. s \in 0..BlockSize /\ (r > 0 => s < r) /\ (~ (r > 0) => s = 0)
        BY <1>1, RingSizes, SMTT(60)
    <2>4. room \in Pieces
        <3>1. t \in 0..BlockSize /\ BlockSize - t \in 0..BlockSize /\ y \in BOOLEAN
            BY <1>1, RingSizes, SMTT(60)
        <3> QED
            BY <2>1, <2>3, <3>1 DEF Pieces
    <2>5. (room.split => room.second < r) /\ (~ room.split => room.second = 0)
        <3>1. CASE r > 0
            BY <2>2, <2>3, <3>1
        <3>2. CASE ~ (r > 0)
            BY <2>2, <2>3, <3>2
        <3> QED
            BY <3>1, <3>2
    <2>6. room.at = t /\ room.len = BlockSize - t
        BY <2>2
    <2>7. ~ (t < r) /\ (t = BlockSize => r = 0)
        BY <1>1, <1>4, RingSizes
    <2> QED
        BY <1>1, <2>4, <2>5, <2>6, <2>7, RingSizes, SMTT(60)
<1> QED
    BY <1>2, <1>3, <1>4

LEMMA BeginFillStep == ASSUME StreamInv, Streams!BeginFill PROVE StreamInv'
<1> USE DEF Streams!FillerKeeps
<1> PICK room : room = Streams!Room(fillBlk)
    OBVIOUS
<1> PICK full : full = (room.len = 0 \/ (dir = "out" /\ Streams!NoFreeSize(fillBlk)))
    OBVIOUS
<1>0. filler \in FillerType /\ fillBlk \in Streams!Used /\ fillBlk # 0 /\ RingTyped
    BY RingSizes DEF StreamInv, HandsTyped, FillerType, RingTyped, Streams!BeginFill
<1>1. filler' = [filler EXCEPT !.pc = IF full THEN "next" ELSE "first", !.room = room] /\ filler.pc = "begin"
      /\ UNCHANGED <<dir, blocks, link, fillBlk, takeBlk, taker, made, taken>>
    BY DEF Streams!BeginFill
<1>2. /\ room \in Pieces /\ (room.len = 0 => full) /\ (full => Size(fillBlk) >= BlockSize - 1)
      /\ room.len > 0 =>
              /\ room.at + room.len <= BlockSize
              /\ blocks[fillBlk].wt = BlockSize => room.at = 0 /\ room.len < blocks[fillBlk].rd /\ ~ room.split /\ room.second = 0
              /\ blocks[fillBlk].wt < BlockSize =>
                   room.at = blocks[fillBlk].wt /\ (blocks[fillBlk].rd > blocks[fillBlk].wt => room.at + room.len < blocks[fillBlk].rd /\ ~ room.split)
              /\ room.split => room.at + room.len = BlockSize /\ room.second < blocks[fillBlk].rd
              /\ ~ room.split => room.second = 0
    BY <1>0, RoomFits DEF Streams!NoFreeSize, Streams!DataSize, Size
<1>3. filler' \in FillerType /\ filler'.pc = (IF full THEN "next" ELSE "first") /\ filler'.room = room /\ filler'.left = filler.left
    BY <1>0, <1>1, <1>2 DEF FillerType, FillerPcs
<1>4. HandsTyped'
    BY <1>0, <1>1, <1>3 DEF StreamInv, HandsTyped, FillerType
<1>5. FillerInv'
    <2>1. room.len \in Nat
        BY <1>2, RingSizes DEF Pieces
    <2> QED
        BY <1>1, <1>2, <1>3, <2>1 DEF FillerInv
<1> QED
    BY <1>1, <1>2, <1>3, <1>4, <1>5, FillerMoves

\* Two fields of the filler are set.
LEMMA FillerSet ==
  ASSUME filler \in FillerType, NEW p \in FillerPcs, NEW m \in Nat,
         \/ filler' = [filler EXCEPT !.pc = p, !.left = m]
         \/ filler' = [filler EXCEPT !.left = m, !.pc = p]
  PROVE  filler' \in FillerType /\ filler'.pc = p /\ filler'.left = m /\ filler'.room = filler.room
<1>1. filler = [pc |-> filler.pc, room |-> filler.room, left |-> filler.left, cur |-> filler.cur] /\ filler.room \in Pieces /\ filler.cur \in Nat
    BY DEF FillerType
<1>2. CASE filler' = [filler EXCEPT !.pc = p, !.left = m]
    <2> DEFINE u == [filler EXCEPT !.pc = p]
    <2>1. u = [pc |-> p, room |-> filler.room, left |-> filler.left, cur |-> filler.cur] /\ filler' = [u EXCEPT !.left = m]
        BY <1>1, <1>2
    <2> HIDE DEF u
    <2>2. filler' = [pc |-> p, room |-> filler.room, left |-> m, cur |-> filler.cur]
        BY <2>1
    <2> QED
        BY <1>1, <2>2 DEF FillerType
<1>3. CASE filler' = [filler EXCEPT !.left = m, !.pc = p]
    <2> DEFINE u == [filler EXCEPT !.left = m]
    <2>1. u = [pc |-> filler.pc, room |-> filler.room, left |-> m, cur |-> filler.cur] /\ filler' = [u EXCEPT !.pc = p]
        BY <1>1, <1>3
    <2> HIDE DEF u
    <2>2. filler' = [pc |-> p, room |-> filler.room, left |-> m, cur |-> filler.cur]
        BY <2>1
    <2> QED
        BY <1>1, <2>2 DEF FillerType
<1> QED
    BY <1>2, <1>3

LEMMA DirectStep == ASSUME StreamInv, Streams!Direct PROVE StreamInv'
<1>0. filler \in FillerType /\ RingTyped /\ Kept /\ dir = "out" /\ filler.pc = "direct" /\ filler.left > 0 /\ made + filler.left <= MaxBytes
      /\ made \in Nat /\ UNCHANGED <<dir, blocks, link, fillBlk, takeBlk, taker>>
    BY DEF StreamInv, HandsTyped, FillerType, Streams!Direct, RingTyped, Streams!ring
<1>1. PICK n \in 0..filler.left :
        /\ taken' = taken \o [k \in 1..n |-> made + k]
        /\ made' = made + n
        /\ filler' = [filler EXCEPT !.pc = IF n = filler.left THEN "idle" ELSE "begin", !.left = @ - n]
    BY DEF Streams!Direct
<1>2. n \in Nat /\ filler.left \in Nat /\ filler.left - n \in Nat
    <2>1. filler.left \in Nat
        BY <1>0 DEF FillerType
    <2> QED
        BY <2>1
<1>3. Kept' /\ taken' \in Seq(Nat)
    BY <1>0, <1>1, <1>2, KeptDirect
<1>4. filler' \in FillerType /\ filler'.left = filler.left - n /\ filler'.pc \in {"idle", "begin"} /\ (n = filler.left => filler'.pc = "idle")
    <2> PICK p : p = IF n = filler.left THEN "idle" ELSE "begin"
        OBVIOUS
    <2> PICK m : m = filler.left - n
        OBVIOUS
    <2>1. p \in FillerPcs /\ m \in Nat /\ filler' = [filler EXCEPT !.pc = p, !.left = m]
        BY <1>1, <1>2 DEF FillerPcs
    <2>2. filler' \in FillerType /\ filler'.pc = p /\ filler'.left = m
        BY <1>0, <2>1, FillerSet
    <2> QED
        BY <2>2
<1>5. RingTyped'
    BY <1>0, <1>1, <1>2, <1>3, SMTT(60) DEF RingTyped, Streams!Used
<1>6. HandsTyped'
    BY <1>0, <1>1, <1>2, <1>4, SMTT(60) DEF StreamInv, HandsTyped, FillerType
<1>7. FillerInv' /\ TakerInv'
    BY <1>0, <1>4 DEF StreamInv, FillerInv, TakerInv, Cell, Size, Streams!DataSize, Streams!Used
<1> QED
    BY <1>0, <1>3, <1>5, <1>6, <1>7 DEF StreamInv

\* A new block.
LEMMA NewRingBlock ==
  /\ Streams!NewBlock \in RingBlock /\ Streams!NewBlock.wt = 0 /\ Streams!NewBlock.rd = 0 /\ Streams!NewBlock.flag
<1>1. [i \in Streams!Cells |-> 0] \in [Streams!Cells -> 0..MaxBytes] /\ 0 \in 0..BlockSize
    BY RingSizes
<1> QED
    BY <1>1 DEF Streams!NewBlock, RingBlock

LEMMA CreateStep == ASSUME StreamInv, Streams!Create PROVE StreamInv'
<1>0. /\ blocks = <<>> /\ dir = "out" /\ taker.pc = "idle" /\ RingTyped /\ HandsTyped /\ Kept /\ filler.pc = "begin"
      /\ blocks' = <<Streams!NewBlock>> /\ link' = <<1>> /\ fillBlk' = 1 /\ takeBlk' = 1
      /\ UNCHANGED <<dir, filler, taker, made, taken>>
    BY RingSizes DEF StreamInv, RingTyped, Streams!Create, Streams!Used
<1>1. blocks' \in Seq(RingBlock) /\ Len(blocks') = 1 /\ Streams!Used' = {1} /\ blocks'[1] = Streams!NewBlock /\ Streams!Used = {}
    BY <1>0, NewRingBlock DEF Streams!Used
<1>2. Size(1)' = 0
    BY <1>1, NewRingBlock DEF Size, Streams!DataSize
<1>3. RingTyped'
    <2>1. 1 <= MaxBlocks
        BY StreamsAssumption DEF Streams!SizeAssumption
    <2>2. link' \in [{1} -> {1}]
        BY <1>0
    <2> QED
        BY <1>0, <1>1, <2>1, <2>2, NewRingBlock DEF RingTyped
<1>4. HandsTyped' /\ FillerInv' /\ TakerInv'
    BY <1>0 DEF HandsTyped, FillerInv, TakerInv
<1>5. Unmoved
    BY <1>0, <1>1, <1>2 DEF Unmoved
<1> QED
    BY <1>0, <1>3, <1>4, <1>5, KeptUnmoved DEF StreamInv

\* A reader that has found its block empty has another in front of it.
LEMMA NotAlone ==
  ASSUME StreamInv, dir = "in", taker.pc # "idle", taker.pc # "enter", taker.left <= Size(takeBlk) + Behind(takeBlk), taker.left > Size(takeBlk)
  PROVE  takeBlk # fillBlk /\ link[takeBlk] # takeBlk /\ Size(link[takeBlk]) > 0
<1>1. RingTyped /\ TakerInv /\ Kept /\ Ordered /\ takeBlk \in Streams!Used /\ link[takeBlk] \in Streams!Used /\ Taken = takeBlk
    BY Ringed DEF StreamInv, Taken
<1>2. taker.left \in Nat /\ Size(takeBlk) \in Nat /\ Size(link[takeBlk]) \in Nat
    BY <1>1, Counts DEF StreamInv, HandsTyped
<1>3. Behind(takeBlk) > 0
    BY <1>2 DEF Behind
<1>4. link[takeBlk] # takeBlk /\ Size(link[takeBlk]) > 0
    BY <1>2, <1>3 DEF Behind
<1>5. takeBlk # fillBlk
    <2> SUFFICES ASSUME takeBlk = fillBlk PROVE FALSE
        OBVIOUS
    <2>1. Size(link[takeBlk]) = 0
        BY <1>1, <1>4, AloneTogether
    <2> QED
        BY <1>4, <2>1
<1> QED
    BY <1>4, <1>5

\* What the reader has counted stays when there is more: sizes only grow, that of its block only if it is the filler's.
LEMMA EnoughGrown ==
  ASSUME StreamInv, dir = "in", UNCHANGED <<takeBlk, taker>>,
         \A b \in Streams!Used : Size(b)' \in Nat /\ Size(b)' >= Size(b) /\ (b # fillBlk => Size(b)' = Size(b)),
         Behind(takeBlk)' \in Nat, taker.pc # "enter" => Behind(takeBlk)' >= Behind(takeBlk),
         taker.pc # "enter" /\ takeBlk # fillBlk => takeBlk # fillBlk'
  PROVE  Enough'
<1>1. RingTyped /\ TakerInv /\ Kept /\ Ordered /\ Enough /\ HandsTyped /\ takeBlk \in Streams!Used /\ link[takeBlk] \in Streams!Used
    BY Ringed DEF StreamInv
<1>2. taker.left \in Nat /\ taker.sum \in Nat /\ Size(takeBlk) \in Nat /\ Size(link[takeBlk]) \in Nat /\ Behind(takeBlk) \in Nat
    BY <1>1, Counts DEF HandsTyped, Behind
<1>3. taker' = taker /\ takeBlk' = takeBlk /\ Size(takeBlk)' \in Nat /\ Size(takeBlk)' >= Size(takeBlk) /\ (takeBlk # fillBlk => Size(takeBlk)' = Size(takeBlk))
    BY <1>1
<1>4. taker.pc = "sumNext" => taker.sum <= Size(takeBlk)'
    BY <1>1, <1>2, <1>3 DEF Enough
<1>5. taker.pc \in {"begin", "first", "second"} => taker.left <= Size(takeBlk)' + Behind(takeBlk)'
    BY <1>1, <1>2, <1>3 DEF Enough
<1>6. taker.pc = "first" => \/ taker.left <= taker.room.len + taker.room.second
                            \/ takeBlk # fillBlk' /\ taker.room.len + taker.room.second = Size(takeBlk)'
    BY <1>1, <1>3 DEF Enough
<1>7. taker.pc = "second" => \/ taker.left <= taker.room.second
                             \/ takeBlk # fillBlk' /\ taker.room.second = Size(takeBlk)'
    BY <1>1, <1>3 DEF Enough
<1>8. taker.pc = "switch" => Size(takeBlk)' = 0 /\ taker.left <= Behind(takeBlk)'
    <2> SUFFICES ASSUME taker.pc = "switch" PROVE Size(takeBlk)' = 0 /\ taker.left <= Behind(takeBlk)'
        OBVIOUS
    <2>1. Size(takeBlk) = 0 /\ taker.left <= Behind(takeBlk) /\ taker.left > 0
        BY <1>1 DEF Enough, HandsTyped
    <2>2. takeBlk # fillBlk
        BY <1>2, <2>1, NotAlone
    <2> QED
        BY <1>2, <1>3, <2>1, <2>2
<1>9. taker.pc = "enter" => taker.left <= Size(taker.next)'
    <2> SUFFICES ASSUME taker.pc = "enter" PROVE taker.left <= Size(taker.next)'
        OBVIOUS
    <2> PICK x : x = taker.next
        OBVIOUS
    <2>1. x \in Streams!Used /\ taker.left <= Size(x)
        BY <1>1 DEF TakerInv, Enough
    <2>2. Size(x) \in Nat /\ Size(x)' \in Nat /\ Size(x)' >= Size(x)
        BY <1>1, <2>1, Counts
    <2> QED
        BY <1>2, <2>1, <2>2
<1>10. taker' = taker /\ takeBlk' = takeBlk
    BY <1>3
<1> QED
    BY <1>4, <1>5, <1>6, <1>7, <1>8, <1>9, <1>10 DEF Enough

LEMMA PieceTyped ==
  ASSUME NEW room \in Pieces PROVE room.at \in Nat /\ room.len \in Nat /\ room.second \in Nat /\ room.split \in BOOLEAN
<1>1. room.at \in 0..BlockSize /\ room.len \in 0..BlockSize /\ room.second \in 0..BlockSize /\ room.split \in BOOLEAN
    BY DEF Pieces
<1> QED
    BY <1>1, RingSizes

\* A step of the filler that stores bytes.
LEMMA FillStep ==
  ASSUME StreamInv, fillBlk # 0, NEW at \in Nat, NEW n \in Nat \ {0}, Streams!Fill(fillBlk, at, n), made + n <= MaxBytes,
         at = IF blocks[fillBlk].wt < BlockSize THEN blocks[fillBlk].wt ELSE 0, at + n <= BlockSize,
         blocks[fillBlk].wt < BlockSize /\ blocks[fillBlk].rd > blocks[fillBlk].wt => at + n < blocks[fillBlk].rd,
         blocks[fillBlk].wt = BlockSize => n < blocks[fillBlk].rd,
         UNCHANGED <<dir, link, fillBlk, takeBlk, taker, taken>>, HandsTyped', filler'.pc # "first",
         filler'.pc = "second" => at + n = BlockSize /\ filler'.room.second < blocks[fillBlk].rd /\ (dir = "out" => filler'.room.second > 0),
         dir = "in" => filler'.pc # "next"
  PROVE  StreamInv'
<1> PICK f : f = fillBlk
    OBVIOUS
<1>0. f = fillBlk /\ f \in Streams!Used /\ RingTyped /\ Kept /\ HandsTyped /\ takeBlk \in Streams!Used
    BY DEF StreamInv, RingTyped
<1>1. BlocksStill(f) /\ Filled(f, n) /\ blocks'[f].rd = blocks[f].rd /\ blocks'[f].wt = at + n
    BY <1>0, BlockFilled
<1>2. /\ blocks' \in Seq(RingBlock) /\ Len(blocks') = Len(blocks) /\ Streams!Used' = Streams!Used /\ made' = made + n
      /\ \A c \in Streams!Used : /\ (blocks'[c].wt = 0 => blocks'[c].rd = 0) /\ blocks'[c].flag = blocks[c].flag
                                 /\ (c # f => blocks'[c] = blocks[c]) /\ blocks'[c].rd = blocks[c].rd
    BY <1>0, <1>1 DEF BlocksStill, Filled
<1>3. \A c \in Streams!Used : Size(c) \in Nat /\ Size(c)' \in Nat /\ Size(c)' >= Size(c) /\ (c # f => Size(c)' = Size(c))
    BY <1>0, <1>1, Counts, SMTT(60) DEF Filled
<1>4. RingTyped'
    BY <1>0, <1>2 DEF RingTyped
<1>5. FillerInv'
    BY <1>0, <1>1 DEF FillerInv
<1>6. TakerInv'
    <2>1. Cell(takeBlk, 0)' = Cell(takeBlk, 0) /\ blocks'[takeBlk].rd = blocks[takeBlk].rd
        BY <1>0, <1>2 DEF Cell
    <2>2. Size(takeBlk) \in Nat /\ Size(takeBlk)' \in Nat /\ Size(takeBlk)' >= Size(takeBlk)
        BY <1>0, <1>3
    <2>3. TakerInv
        BY DEF StreamInv
    <2>4. taker.room.len \in Nat /\ taker.room.second \in Nat
        <3>1. taker.room \in Pieces
            BY <1>0 DEF HandsTyped
        <3> QED
            BY <3>1, PieceTyped
    <2>5. taker' = taker /\ takeBlk' = takeBlk
        OBVIOUS
    <2>6. taker.pc = "first" => taker.room.len + taker.room.second <= Size(takeBlk)'
        BY <2>2, <2>3, <2>4 DEF TakerInv
    <2>7. taker.pc = "second" => taker.room.second <= Size(takeBlk)'
        BY <2>2, <2>3, <2>4 DEF TakerInv
    <2> QED
        BY <1>2, <2>1, <2>3, <2>5, <2>6, <2>7 DEF TakerInv
<1>7. Kept'
    BY <1>0, <1>1, KeptFilled
<1>8. ASSUME dir = "in" PROVE Ordered' /\ Enough'
    <2>1. Ordered /\ TakerInv /\ Taken \in Streams!Used
        BY <1>0, <1>8, Ringed DEF StreamInv
    <2>2. Taken' = Taken
        BY TakenStays
    <2>3. Ordered'
        BY <1>0, <1>1, <1>2, <1>8, <2>1, <2>2, OrderedFilled
    <2>4. Behind(takeBlk)' \in Nat /\ Behind(takeBlk)' >= Behind(takeBlk)
        <3> PICK t : t = takeBlk
            OBVIOUS
        <3> PICK x : x = link[takeBlk]
            OBVIOUS
        <3>1. t \in Streams!Used /\ x \in Streams!Used
            BY <1>0, <1>8, <2>1, Ringed
        <3>2. Behind(takeBlk) = (IF x = t THEN 0 ELSE Size(x)) /\ Behind(takeBlk)' = IF x = t THEN 0 ELSE Size(x)'
            BY DEF Behind
        <3>3. Size(x) \in Nat /\ Size(x)' \in Nat /\ Size(x)' >= Size(x)
            BY <1>3, <3>1
        <3> QED
            BY <3>2, <3>3
    <2> QED
        BY <1>0, <1>3, <1>8, <2>3, <2>4, EnoughGrown
<1> QED
    BY <1>4, <1>5, <1>6, <1>7, <1>8 DEF StreamInv

\* What is left to write, or got.
LEMMA LesserTyped ==
  ASSUME NEW i \in Nat, NEW j \in Nat
  PROVE  Streams!Lesser(i, j) \in Nat /\ Streams!Lesser(i, j) <= i /\ Streams!Lesser(i, j) <= j /\ (Streams!Lesser(i, j) = i \/ Streams!Lesser(i, j) = j)
BY DEF Streams!Lesser

\* After a read of n bytes, or after n bytes have been written, the filler stands at pc.
LEMMA FillerGot ==
  ASSUME StreamInv, NEW n \in Nat, NEW asked, NEW full \in FillerPcs, full \notin {"first", "test", "size", "direct"},
         made' = made + n, made + n <= MaxBytes, UNCHANGED <<dir, taker, fillBlk>>, fillBlk # 0,
         \/ dir = "in" /\ Streams!AfterRead(n, asked, full)
         \/ dir = "out" /\ n <= filler.left /\ Streams!AfterWrite(n, full)
  PROVE  HandsTyped' /\ filler'.pc \in {"idle", full} /\ filler'.room = filler.room /\ (dir = "in" => filler'.pc = IF n < asked THEN "idle" ELSE full)
<1>0. filler \in FillerType /\ HandsTyped /\ "idle" \in FillerPcs /\ filler.left \in Nat /\ made \in Nat /\ dir \in {"in", "out"}
    BY DEF StreamInv, HandsTyped, FillerType, FillerPcs, RingTyped
<1>1. CASE dir = "in" /\ Streams!AfterRead(n, asked, full)
    <2> PICK p : p = IF n < asked THEN "idle" ELSE full
        OBVIOUS
    <2>1. p \in FillerPcs /\ filler' = [filler EXCEPT !.pc = p]
        BY <1>0, <1>1 DEF Streams!AfterRead, Streams!FillerAt
    <2>2. filler' \in FillerType /\ filler'.pc = p /\ filler'.left = filler.left /\ filler'.room = filler.room
        BY <1>0, <2>1 DEF FillerType
    <2> QED
        BY <1>0, <1>1, <2>2 DEF HandsTyped, FillerType
<1>2. CASE dir = "out" /\ n <= filler.left /\ Streams!AfterWrite(n, full)
    <2> PICK p : p = IF n = filler.left THEN "idle" ELSE full
        OBVIOUS
    <2> PICK m : m = filler.left - n
        OBVIOUS
    <2>1. p \in FillerPcs /\ m \in Nat /\ filler' = [filler EXCEPT !.left = m, !.pc = p]
        BY <1>0, <1>2 DEF Streams!AfterWrite
    <2>2. filler' \in FillerType /\ filler'.pc = p /\ filler'.left = m /\ filler'.room = filler.room
        BY <1>0, <2>1, FillerSet
    <2>3. made' + filler'.left <= MaxBytes
        BY <1>0, <1>2, <2>2, RingSizes DEF HandsTyped
    <2>4. filler'.pc # "idle" => filler'.left > 0
        BY <1>0, <1>2, <2>2
    <2> QED
        BY <1>0, <1>2, <2>2, <2>3, <2>4 DEF HandsTyped, FillerType
<1> QED
    BY <1>1, <1>2

LEMMA FillFirstStep == ASSUME StreamInv, Streams!FillFirst PROVE StreamInv'
<1> PICK room : room = filler.room
    OBVIOUS
<1>0. /\ RingTyped /\ HandsTyped /\ filler \in FillerType /\ room \in Pieces /\ filler.pc = "first" /\ fillBlk # 0 /\ fillBlk \in Streams!Used
      /\ room = filler.room /\ made \in Nat /\ filler.left \in Nat /\ made + filler.left <= MaxBytes /\ MaxBytes \in Nat /\ BlockSize \in Nat
      /\ dir \in {"in", "out"} /\ (dir = "out" => filler.left > 0)
    BY RingSizes DEF StreamInv, HandsTyped, FillerType, RingTyped, Streams!FillFirst
<1>1. UNCHANGED <<dir, link, fillBlk, takeBlk, taker, taken>>
    BY DEF Streams!FillFirst, Streams!FillerKeeps
<1>2. /\ room.len > 0 /\ room.at + room.len <= BlockSize
      /\ blocks[fillBlk].wt = BlockSize => room.at = 0 /\ room.len < blocks[fillBlk].rd /\ ~ room.split /\ room.second = 0
      /\ blocks[fillBlk].wt < BlockSize =>
           room.at = blocks[fillBlk].wt /\ (blocks[fillBlk].rd > blocks[fillBlk].wt => room.at + room.len < blocks[fillBlk].rd /\ ~ room.split)
      /\ room.split => room.at + room.len = BlockSize /\ room.second < blocks[fillBlk].rd
      /\ ~ room.split => room.second = 0
    BY <1>0 DEF StreamInv, FillerInv
<1>3. /\ room.at \in Nat /\ room.len \in Nat /\ room.second \in Nat /\ room.split \in BOOLEAN
      /\ blocks[fillBlk].wt \in 0..BlockSize /\ blocks[fillBlk].rd \in 0..BlockSize
    BY <1>0, PieceTyped, BlockTyped
<1>4. ASSUME NEW n \in Nat \ {0}, n <= room.len, Streams!Fill(fillBlk, room.at, n), made + n <= MaxBytes, HandsTyped',
             filler'.pc # "first", filler'.room = room, filler'.pc = "second" => n = room.len /\ room.split /\ (dir = "out" => room.second > 0), dir = "in" => filler'.pc # "next"
      PROVE  StreamInv'
    <2>1. room.at = (IF blocks[fillBlk].wt < BlockSize THEN blocks[fillBlk].wt ELSE 0) /\ room.at + n <= BlockSize
        BY <1>0, <1>2, <1>3, <1>4
    <2>2. blocks[fillBlk].wt < BlockSize /\ blocks[fillBlk].rd > blocks[fillBlk].wt => room.at + n < blocks[fillBlk].rd
        BY <1>2, <1>3, <1>4
    <2>3. blocks[fillBlk].wt = BlockSize => n < blocks[fillBlk].rd
        BY <1>2, <1>3, <1>4
    <2>4. filler'.pc = "second" => room.at + n = BlockSize /\ filler'.room.second < blocks[fillBlk].rd /\ (dir = "out" => filler'.room.second > 0)
        BY <1>2, <1>4
    <2> QED
        BY <1>0, <1>1, <1>3, <1>4, <2>1, <2>2, <2>3, <2>4, FillStep
<1>5. CASE dir = "in"
    <2> PICK full : full = IF room.split THEN "second" ELSE "begin"
        OBVIOUS
    <2>0. full \in FillerPcs /\ full \notin {"first", "next", "test", "size", "direct"} /\ MaxBytes - made \in Nat
        BY <1>0 DEF FillerPcs
    <2>1. PICK n \in 0..Streams!Lesser(room.len, MaxBytes - made) :
             /\ IF n = 0 THEN UNCHANGED <<blocks, made>> ELSE Streams!Fill(fillBlk, room.at, n)
             /\ Streams!AfterRead(n, room.len, full)
        BY <1>0, <1>5 DEF Streams!FillFirst
    <2>2. n \in Nat /\ n <= room.len /\ made + n <= MaxBytes
        <3>1. Streams!Lesser(room.len, MaxBytes - made) \in Nat /\ Streams!Lesser(room.len, MaxBytes - made) <= room.len
              /\ Streams!Lesser(room.len, MaxBytes - made) <= MaxBytes - made
            BY <1>3, <2>0, LesserTyped
        <3> QED
            BY <1>0, <1>3, <2>0, <2>1, <3>1
    <2>3. made' = made + n
        BY <1>0, <2>1, <2>2 DEF Streams!Fill
    <2>4. HandsTyped' /\ filler'.pc \in {"idle", full} /\ filler'.room = room /\ filler'.pc = IF n < room.len THEN "idle" ELSE full
        BY <1>0, <1>1, <1>5, <2>0, <2>1, <2>2, <2>3, FillerGot
    <2>5. CASE n = 0
        <3>1. UNCHANGED <<blocks, made>> /\ filler'.pc = "idle"
            BY <1>2, <2>1, <2>4, <2>5
        <3>2. FillerInv'
            BY <3>1 DEF FillerInv
        <3> QED
            BY <1>1, <2>4, <3>1, <3>2, FillerMoves
    <2>6. CASE n # 0
        <3>1. Streams!Fill(fillBlk, room.at, n) /\ n \in Nat \ {0}
            BY <2>1, <2>2, <2>6
        <3>2. filler'.pc # "first" /\ filler'.pc # "next"
            BY <2>0, <2>4
        <3>3. filler'.pc = "second" => n = room.len /\ room.split /\ (dir = "out" => room.second > 0)
            BY <1>3, <1>5, <2>2, <2>4
        <3> QED
            BY <1>4, <2>2, <2>4, <3>1, <3>2, <3>3
    <2> QED
        BY <2>5, <2>6
<1>6. CASE dir = "out"
    <2> PICK full : full = IF room.second > 0 THEN "second" ELSE "next"
        OBVIOUS
    <2> PICK n : n = Streams!Lesser(room.len, filler.left)
        OBVIOUS
    <2>0. full \in FillerPcs /\ full \notin {"first", "test", "size", "direct"}
        BY DEF FillerPcs
    <2>1. Streams!Fill(fillBlk, room.at, n) /\ Streams!AfterWrite(n, full)
        BY <1>0, <1>6 DEF Streams!FillFirst
    <2>2. n \in Nat \ {0} /\ n <= room.len /\ n <= filler.left /\ (n = room.len \/ n = filler.left)
        BY <1>0, <1>2, <1>3, <1>6, LesserTyped
    <2>3. made' = made + n /\ made + n <= MaxBytes
        BY <1>0, <2>1, <2>2 DEF Streams!Fill
    <2>4. HandsTyped' /\ filler'.pc \in {"idle", full} /\ filler'.room = room
        BY <1>0, <1>1, <1>6, <2>0, <2>1, <2>2, <2>3, FillerGot
    <2>5. filler'.pc = "second" => n = room.len /\ room.split /\ (dir = "out" => room.second > 0)
        <3> SUFFICES ASSUME filler'.pc = "second" PROVE n = room.len /\ room.split /\ room.second > 0
            OBVIOUS
        <3>1. room.second > 0 /\ room.split
            BY <1>2, <1>3, <2>4
        <3>2. n # filler.left
            <4> SUFFICES ASSUME n = filler.left PROVE FALSE
                OBVIOUS
            <4>1. filler' = [filler EXCEPT !.left = 0, !.pc = "idle"]
                BY <1>0, <2>1, <2>2 DEF Streams!AfterWrite
            <4>2. "idle" \in FillerPcs /\ 0 \in Nat
                BY DEF FillerPcs
            <4>3. filler'.pc = "idle"
                BY <1>0, <4>1, <4>2, FillerSet
            <4> QED
                BY <4>3
        <3> QED
            BY <2>2, <3>1, <3>2
    <2>6. filler'.pc # "first"
        BY <2>0, <2>4
    <2> QED
        BY <1>4, <1>6, <2>1, <2>2, <2>3, <2>4, <2>5, <2>6
<1> QED
    BY <1>0, <1>5, <1>6

LEMMA FillSecondStep == ASSUME StreamInv, Streams!FillSecond PROVE StreamInv'
<1> PICK room : room = filler.room
    OBVIOUS
<1>0. /\ RingTyped /\ HandsTyped /\ filler \in FillerType /\ room \in Pieces /\ filler.pc = "second" /\ fillBlk # 0 /\ fillBlk \in Streams!Used
      /\ room = filler.room /\ made \in Nat /\ filler.left \in Nat /\ made + filler.left <= MaxBytes /\ MaxBytes \in Nat /\ BlockSize \in Nat
      /\ dir \in {"in", "out"} /\ (dir = "out" => filler.left > 0)
    BY RingSizes DEF StreamInv, HandsTyped, FillerType, RingTyped, Streams!FillSecond
<1>1. UNCHANGED <<dir, link, fillBlk, takeBlk, taker, taken>>
    BY DEF Streams!FillSecond, Streams!FillerKeeps
<1>2. blocks[fillBlk].wt = BlockSize /\ room.second < blocks[fillBlk].rd
    BY <1>0 DEF StreamInv, FillerInv
<1>3. room.second \in Nat /\ blocks[fillBlk].rd \in 0..BlockSize
    BY <1>0, PieceTyped, BlockTyped
<1>4. ASSUME NEW n \in Nat \ {0}, n <= room.second, Streams!Fill(fillBlk, 0, n), made + n <= MaxBytes, HandsTyped',
             filler'.pc # "first", filler'.pc # "second", dir = "in" => filler'.pc # "next"
      PROVE  StreamInv'
    <2>1. 0 = (IF blocks[fillBlk].wt < BlockSize THEN blocks[fillBlk].wt ELSE 0) /\ 0 + n <= BlockSize /\ n < blocks[fillBlk].rd
          /\ ~ (blocks[fillBlk].wt < BlockSize) /\ 0 \in Nat
        BY <1>0, <1>2, <1>3, <1>4
    <2> QED
        BY <1>0, <1>1, <1>4, <2>1, FillStep
<1>5. CASE dir = "in" /\ room.second > 0
    <2>0. "begin" \in FillerPcs /\ MaxBytes - made \in Nat
        BY <1>0 DEF FillerPcs
    <2>1. PICK n \in 0..Streams!Lesser(room.second, MaxBytes - made) :
             /\ IF n = 0 THEN UNCHANGED <<blocks, made>> ELSE Streams!Fill(fillBlk, 0, n)
             /\ Streams!AfterRead(n, room.second, "begin")
        BY <1>0, <1>5 DEF Streams!FillSecond
    <2>2. n \in Nat /\ n <= room.second /\ made + n <= MaxBytes
        <3>1. Streams!Lesser(room.second, MaxBytes - made) \in Nat /\ Streams!Lesser(room.second, MaxBytes - made) <= room.second
              /\ Streams!Lesser(room.second, MaxBytes - made) <= MaxBytes - made
            BY <1>3, <2>0, LesserTyped
        <3> QED
            BY <1>0, <1>3, <2>0, <2>1, <3>1
    <2>3. made' = made + n
        BY <1>0, <2>1, <2>2 DEF Streams!Fill
    <2>4. HandsTyped' /\ filler'.pc \in {"idle", "begin"}
        BY <1>0, <1>1, <1>5, <2>0, <2>1, <2>2, <2>3, FillerGot
    <2>5. CASE n = 0
        <3>1. UNCHANGED <<blocks, made>>
            BY <2>1, <2>5
        <3>2. FillerInv' /\ filler'.pc # "next"
            BY <2>4 DEF FillerInv
        <3> QED
            BY <1>1, <2>4, <3>1, <3>2, FillerMoves
    <2>6. CASE n # 0
        <3>1. Streams!Fill(fillBlk, 0, n) /\ n \in Nat \ {0}
            BY <2>1, <2>2, <2>6
        <3>2. filler'.pc # "first" /\ filler'.pc # "next" /\ filler'.pc # "second"
            BY <2>4
        <3> QED
            BY <1>4, <2>2, <2>4, <3>1, <3>2
    <2> QED
        BY <2>5, <2>6
<1>6. CASE dir = "in" /\ room.second = 0
    <2>1. PICK goal \in {"idle", "begin", "closed"} : filler' = [filler EXCEPT !.pc = goal]
        BY <1>0, <1>6 DEF Streams!FillSecond, Streams!FillerAt
    <2>2. UNCHANGED <<blocks, made>>
        BY <1>0, <1>6 DEF Streams!FillSecond
    <2>3. filler' \in FillerType /\ filler'.pc = goal /\ filler'.left = filler.left
        BY <1>0, <2>1 DEF FillerType, FillerPcs
    <2>4. HandsTyped'
        BY <1>0, <1>1, <1>6, <2>2, <2>3 DEF HandsTyped, FillerType
    <2>5. FillerInv' /\ filler'.pc # "next"
        BY <2>3 DEF FillerInv
    <2> QED
        BY <1>1, <2>2, <2>4, <2>5, FillerMoves
<1>7. CASE dir = "out"
    <2> PICK n : n = Streams!Lesser(room.second, filler.left)
        OBVIOUS
    <2>0. "next" \in FillerPcs
        BY DEF FillerPcs
    <2>1. Streams!Fill(fillBlk, 0, n) /\ Streams!AfterWrite(n, "next")
        BY <1>0, <1>7 DEF Streams!FillSecond
    <2>2. n \in Nat /\ n <= room.second /\ n <= filler.left /\ (n = room.second \/ n = filler.left)
        BY <1>0, <1>3, LesserTyped
    <2>3. made' = made + n /\ made + n <= MaxBytes
        BY <1>0, <2>1, <2>2 DEF Streams!Fill
    <2>4. HandsTyped' /\ filler'.pc \in {"idle", "next"}
        BY <1>0, <1>1, <1>7, <2>0, <2>1, <2>2, <2>3, FillerGot
    <2>5. n \in Nat \ {0}
        <3>1. room.second > 0
            BY <1>0, <1>7 DEF StreamInv, FillerInv
        <3> QED
            BY <1>0, <1>3, <1>7, <2>2, <3>1
    <2> QED
        BY <1>4, <1>7, <2>1, <2>2, <2>3, <2>4, <2>5
<1> QED
    BY <1>0, <1>3, <1>5, <1>6, <1>7

\* One link is set to a new block.
LEMMA LinkChanged ==
  ASSUME NEW m, m \in Nat, NEW g, g \in [1..m -> 1..m], NEW f, f \in 1..m
  PROVE  [g EXCEPT ![f] = m + 1] \in Seq(1..(m + 1)) /\ Len([g EXCEPT ![f] = m + 1]) = m
<1> DEFINE l == [g EXCEPT ![f] = m + 1]
<1> PICK S : S = 1..(m + 1)
    OBVIOUS
<1>1. l \in [1..m -> S]
    OBVIOUS
<1> HIDE DEF l
<1>2. l \in Seq(S)
    BY <1>1, SeqDef
<1>3. Len(l) = m
    BY <1>1, <1>2, LenProperties
<1> QED
    BY <1>2, <1>3 DEF l

\* The filler goes on to nx, an empty block that isn't the taker's, and no byte is moved.
LEMMA OnwardStep ==
  ASSUME StreamInv, NEW nx \in Streams!Used', RingTyped', Unmoved, HandsTyped', filler.pc = "next", filler'.pc \in {"begin", "test"},
         UNCHANGED <<dir, takeBlk, taker, made, taken>>, fillBlk' = nx, Size(nx)' = 0, dir = "in" => nx \notin Active,
         link'[fillBlk] = nx, \A b \in Streams!Used \ {fillBlk} : link'[b] = link[b],
         \A b \in Streams!Used : blocks'[b].rd = blocks[b].rd /\ blocks'[b].flag = blocks[b].flag
  PROVE  StreamInv'
<1>0. /\ RingTyped /\ HandsTyped /\ Kept /\ TakerInv /\ fillBlk \in Streams!Used /\ takeBlk \in Streams!Used
      /\ Streams!Used \subseteq Streams!Used' /\ \A b \in Streams!Used : Size(b)' = Size(b) /\ Size(b) \in Nat
    <2>1. fillBlk # 0 /\ RingTyped /\ HandsTyped /\ Kept /\ TakerInv
        BY DEF StreamInv, HandsTyped
    <2> QED
        BY <2>1, Counts DEF RingTyped, Unmoved
<1>1. FillerInv'
    BY DEF FillerInv
<1>2. TakerInv'
    <2>1. Cell(takeBlk, 0)' = Cell(takeBlk, 0) /\ Size(takeBlk)' = Size(takeBlk) /\ blocks'[takeBlk].rd = blocks[takeBlk].rd
          /\ taker' = taker /\ takeBlk' = takeBlk
        BY <1>0 DEF Cell
    <2> QED
        BY <1>0, <2>1 DEF TakerInv
<1>3. Kept'
    BY <1>0, KeptUnmoved
<1>4. ASSUME dir = "in" PROVE Ordered' /\ Enough'
    <2>1. Ordered /\ Taken \in Streams!Used /\ fillBlk \in Active /\ Taken \in Active
        BY <1>0, <1>4, Ringed DEF StreamInv
    <2>2. Taken' = Taken /\ blocks'[Taken].flag = blocks[Taken].flag
        BY <2>1, TakenStays
    <2>3. Ordered'
        BY <1>0, <1>4, <2>1, <2>2, OrderedNext
    <2>4. Behind(takeBlk)' \in Nat /\ (taker.pc # "enter" => Behind(takeBlk)' >= Behind(takeBlk))
        <3> PICK t : t = takeBlk
            OBVIOUS
        <3> PICK x : x = link[takeBlk]
            OBVIOUS
        <3>0. t \in Streams!Used /\ x \in Streams!Used
            BY <1>0, <1>4, Ringed
        <3>1. CASE t # fillBlk
            <4>1. link'[t] = x
                BY <1>0, <3>0, <3>1
            <4>2. Behind(takeBlk) = (IF x = t THEN 0 ELSE Size(x)) /\ Behind(takeBlk)' = IF x = t THEN 0 ELSE Size(x)'
                BY <4>1 DEF Behind
            <4> QED
                BY <1>0, <3>0, <4>2
        <3>2. CASE t = fillBlk
            <4>1. link'[t] = nx
                BY <1>4, <3>2
            <4>2. Behind(takeBlk)' = 0
                BY <4>1 DEF Behind
            <4>3. ASSUME taker.pc # "enter" PROVE Behind(takeBlk) = 0
                <5>1. Taken = fillBlk
                    BY <3>2, <4>3 DEF Taken
                <5>2. x # t => Size(x) = 0
                    BY <1>0, <1>4, <2>1, <3>0, <3>2, <5>1, AloneTogether
                <5>3. Behind(takeBlk) = (IF x = t THEN 0 ELSE Size(x))
                    BY DEF Behind
                <5> QED
                    BY <5>2, <5>3
            <4> QED
                BY <4>2, <4>3
        <3> QED
            BY <3>1, <3>2
    <2>5. taker.pc # "enter" => takeBlk # fillBlk'
        BY <1>4, <2>1 DEF Taken
    <2> QED
        BY <1>0, <1>4, <2>3, <2>4, <2>5, EnoughGrown
<1> QED
    BY <1>1, <1>2, <1>3, <1>4 DEF StreamInv

LEMMA NextBlockStep == ASSUME StreamInv, Streams!NextBlock PROVE StreamInv'
<1> PICK nx : nx = link[fillBlk]
    OBVIOUS
<1> PICK f : f = fillBlk
    OBVIOUS
<1>0. /\ RingTyped /\ HandsTyped /\ Kept /\ TakerInv /\ f = fillBlk /\ f \in Streams!Used /\ takeBlk \in Streams!Used /\ nx \in Streams!Used
      /\ filler \in FillerType /\ filler.pc = "next" /\ dir \in {"in", "out"}
      /\ UNCHANGED <<dir, takeBlk, taker, made, taken>> /\ filler' = [filler EXCEPT !.pc = IF dir = "in" THEN "begin" ELSE "test"]
    <2>1. fillBlk # 0 /\ RingTyped /\ HandsTyped /\ Kept /\ TakerInv /\ filler.pc = "next"
        BY DEF StreamInv, HandsTyped, Streams!NextBlock
    <2>2. UNCHANGED <<dir, takeBlk, taker, made, taken>> /\ filler' = [filler EXCEPT !.pc = IF dir = "in" THEN "begin" ELSE "test"]
        BY DEF Streams!NextBlock, Streams!FillerKeeps, Streams!FillerAt
    <2>3. fillBlk \in Streams!Used /\ takeBlk \in Streams!Used /\ link[fillBlk] \in Streams!Used /\ dir \in {"in", "out"}
        BY <2>1 DEF RingTyped
    <2> QED
        BY <2>1, <2>2, <2>3 DEF HandsTyped, FillerType
<1>1. filler' \in FillerType /\ filler'.pc = (IF dir = "in" THEN "begin" ELSE "test") /\ filler'.left = filler.left
    <2> PICK p : p = IF dir = "in" THEN "begin" ELSE "test"
        OBVIOUS
    <2>1. p \in FillerPcs /\ filler' = [filler EXCEPT !.pc = p]
        BY <1>0 DEF FillerPcs
    <2> QED
        BY <1>0, <2>1 DEF FillerType
<1>2. ASSUME fillBlk' # 0 PROVE HandsTyped'
    BY <1>0, <1>1, <1>2 DEF HandsTyped, FillerType
<1>3. filler'.pc \in {"begin", "test"}
    BY <1>1
<1>4. Len(blocks) \in Nat /\ Streams!Used = 1..Len(blocks) /\ MaxBlocks \in Nat
    BY <1>0, Counts, StreamsAssumption DEF Streams!SizeAssumption
<1>5. CASE nx # f /\ Streams!Empty(nx) /\ ~ blocks[nx].flag
    <2>1. fillBlk' = nx /\ UNCHANGED <<blocks, link>>
        BY <1>0, <1>5 DEF Streams!NextBlock
    <2>2. Streams!Used' = Streams!Used /\ nx # 0
        BY <1>0, <1>4, <2>1 DEF Streams!Used
    <2>3. RingTyped'
        BY <1>0, <2>1, <2>2 DEF RingTyped
    <2>4. Unmoved
        BY <1>0, <2>1, NoneMoved
    <2>5. Size(nx)' = 0 /\ Size(nx) = 0
        <3>1. blocks[nx].rd = blocks[nx].wt /\ blocks[nx].rd \in 0..BlockSize
            BY <1>0, <1>5, BlockTyped DEF Streams!Empty
        <3>2. Size(nx) = 0
            BY <3>1, RingSizes DEF Size, Streams!DataSize
        <3> QED
            BY <2>1, <3>2 DEF Size, Streams!DataSize
    <2>6. dir = "in" => nx \notin Active
        <3> SUFFICES ASSUME dir = "in", nx \in Active PROVE FALSE
            OBVIOUS
        <3>1. nx = Taken
            BY <1>0, <1>5, <2>5 DEF Active
        <3> QED
            BY <1>5, <3>1 DEF StreamInv, Ordered
    <2>7. link'[fillBlk] = nx /\ \A b \in Streams!Used : link'[b] = link[b]
        BY <2>1
    <2> QED
        BY <1>0, <1>2, <1>3, <2>1, <2>2, <2>3, <2>4, <2>5, <2>6, <2>7, OnwardStep
<1>6. CASE ~ (nx # f /\ Streams!Empty(nx) /\ ~ blocks[nx].flag)
    <2> PICK k : k = Len(blocks) + 1
        OBVIOUS
    <2> PICK l : l = [link EXCEPT ![f] = k]
        OBVIOUS
    <2>1. Len(blocks) < MaxBlocks /\ blocks' = Append(blocks, Streams!NewBlock) /\ link' = Append(l, nx) /\ fillBlk' = k
        BY <1>0, <1>6 DEF Streams!NextBlock
    <2>2. /\ blocks' \in Seq(RingBlock) /\ Len(blocks') = k /\ blocks'[k] = Streams!NewBlock
          /\ \A b \in 1..Len(blocks) : blocks'[b] = blocks[b]
        BY <1>0, <2>1, NewRingBlock, AppendProperties DEF RingTyped
    <2>3. Streams!Used' = 1..k /\ k \notin Streams!Used /\ k \in 1..k /\ k \in Nat \ {0} /\ 1..k = Streams!Used \cup {k} /\ k <= MaxBlocks
        <3>1. Streams!Used' = 1..k
            BY <1>4, <2>2 DEF Streams!Used
        <3> QED
            BY <1>4, <2>1, <3>1
    <2>4. l \in Seq(1..k) /\ Len(l) = Len(blocks) /\ l[f] = k /\ \A b \in Streams!Used \ {f} : l[b] = link[b]
        <3>1. link \in [1..Len(blocks) -> 1..Len(blocks)] /\ f \in 1..Len(blocks)
            BY <1>0, <1>4 DEF RingTyped
        <3>3. l \in Seq(1..k) /\ Len(l) = Len(blocks)
            BY <1>4, <3>1, LinkChanged
        <3> QED
            BY <1>4, <3>1, <3>3
    <2>5. link' \in [1..k -> 1..k] /\ link'[f] = k /\ \A b \in Streams!Used \ {f} : link'[b] = link[b]
        <3>1. nx \in 1..k
            BY <1>0, <2>3
        <3>2. Append(l, nx) \in Seq(1..k) /\ Len(Append(l, nx)) = k /\ \A b \in 1..Len(l) : Append(l, nx)[b] = l[b]
            BY <2>4, <3>1, AppendProperties
        <3>3. link' \in [1..k -> 1..k]
            BY <2>1, <3>2, LenProperties
        <3> QED
            BY <1>0, <1>4, <2>1, <2>4, <3>2, <3>3
    <2>6. RingTyped'
        <3>1. \A b \in Streams!Used' : blocks'[b].wt = 0 => blocks'[b].rd = 0
            BY <1>0, <1>4, <2>2, <2>3, NewRingBlock DEF RingTyped
        <3> QED
            BY <1>0, <2>1, <2>2, <2>3, <2>5, <3>1 DEF RingTyped
    <2>7. Size(k)' = 0
        BY <2>2, NewRingBlock DEF Size, Streams!DataSize
    <2>8. Unmoved
        <3>1. \A c \in Streams!Used : blocks'[c] = blocks[c]
            BY <1>4, <2>2
        <3>2. \A c \in Streams!Used : Size(c)' = Size(c) /\ \A i \in Offsets(c) : Byte(c, i)' = Byte(c, i)
            BY <3>1 DEF Size, Streams!DataSize, Byte, Cell
        <3>3. \A c \in Streams!Used' \ Streams!Used : c = k
            BY <2>3
        <3> QED
            BY <1>0, <2>3, <2>7, <3>2, <3>3 DEF Unmoved
    <2>9. dir = "in" => k \notin Active
        BY <1>0, <2>3, Ringed
    <2>10. \A b \in Streams!Used : blocks'[b].rd = blocks[b].rd /\ blocks'[b].flag = blocks[b].flag
        BY <1>4, <2>2
    <2>11. HandsTyped'
        BY <1>2, <2>1, <2>3
    <2>12. k \in Streams!Used' /\ link'[fillBlk] = k /\ \A b \in Streams!Used \ {fillBlk} : link'[b] = link[b]
        BY <1>0, <2>3, <2>5
    <2> QED
        BY <1>0, <1>3, <2>1, <2>6, <2>7, <2>8, <2>9, <2>10, <2>11, <2>12, OnwardStep
<1> QED
    BY <1>5, <1>6

\* Two fields of the taker are set.
LEMMA TakerSet ==
  ASSUME taker \in TakerType, NEW p \in TakerPcs, NEW m \in Nat,
         \/ taker' = [taker EXCEPT !.pc = p, !.left = m]
         \/ taker' = [taker EXCEPT !.left = m, !.pc = p]
  PROVE  taker' \in TakerType /\ taker'.pc = p /\ taker'.left = m /\ taker'.room = taker.room
<1>1. /\ taker = [pc |-> taker.pc, room |-> taker.room, left |-> taker.left, sum |-> taker.sum, next |-> taker.next]
      /\ taker.room \in Pieces /\ taker.sum \in Nat /\ taker.next \in Nat
    BY DEF TakerType
<1>2. CASE taker' = [taker EXCEPT !.pc = p, !.left = m]
    <2> DEFINE u == [taker EXCEPT !.pc = p]
    <2>1. u = [pc |-> p, room |-> taker.room, left |-> taker.left, sum |-> taker.sum, next |-> taker.next] /\ taker' = [u EXCEPT !.left = m]
        BY <1>1, <1>2
    <2> HIDE DEF u
    <2>2. taker' = [pc |-> p, room |-> taker.room, left |-> m, sum |-> taker.sum, next |-> taker.next]
        BY <2>1
    <2> QED
        BY <1>1, <2>2 DEF TakerType
<1>3. CASE taker' = [taker EXCEPT !.left = m, !.pc = p]
    <2> DEFINE u == [taker EXCEPT !.left = m]
    <2>1. u = [pc |-> taker.pc, room |-> taker.room, left |-> m, sum |-> taker.sum, next |-> taker.next] /\ taker' = [u EXCEPT !.pc = p]
        BY <1>1, <1>3
    <2> HIDE DEF u
    <2>2. taker' = [pc |-> p, room |-> taker.room, left |-> m, sum |-> taker.sum, next |-> taker.next]
        BY <2>1
    <2> QED
        BY <1>1, <2>2 DEF TakerType
<1> QED
    BY <1>2, <1>3

\* What the taker's hands are while it stands in a block.
LEMMA TakerHands ==
  ASSUME StreamInv
  PROVE  /\ RingTyped /\ HandsTyped /\ Kept /\ TakerInv /\ FillerInv /\ taker \in TakerType /\ taker.left \in Nat /\ taker.sum \in Nat /\ taker.pc \in TakerPcs
         /\ dir \in {"in", "out"} /\ (dir = "in" => Ordered /\ Enough /\ takeBlk \in Streams!Used /\ takeBlk # 0 /\ Behind(takeBlk) \in Nat)
         /\ (dir = "in" /\ taker.pc # "idle" => taker.left > 0)
         /\ (taker.pc # "idle" \/ takeBlk # 0 => takeBlk \in Streams!Used /\ takeBlk # 0 /\ fillBlk \in Streams!Used)
<1>1. RingTyped /\ HandsTyped /\ Kept /\ TakerInv /\ FillerInv /\ taker \in TakerType /\ (dir = "in" => Ordered /\ Enough)
      /\ (dir = "in" /\ taker.pc # "idle" => taker.left > 0)
    BY DEF StreamInv, HandsTyped, TakerType
<1>2. taker.left \in Nat /\ taker.sum \in Nat /\ taker.pc \in TakerPcs
    BY <1>1 DEF TakerType
<1>3. dir \in {"in", "out"} /\ (taker.pc # "idle" \/ takeBlk # 0 => takeBlk \in Streams!Used /\ fillBlk \in Streams!Used)
    BY <1>1 DEF RingTyped
<1>4. \A b \in Streams!Used : b # 0 /\ Size(b) \in Nat
    BY <1>1, Counts
<1>5. dir = "in" => takeBlk \in Streams!Used /\ link[takeBlk] \in Streams!Used
    BY <1>1, Ringed
<1> QED
    BY <1>1, <1>2, <1>3, <1>4, <1>5 DEF Behind

\* A step of the taker that looks only.
LEMMA TakerLooks ==
  ASSUME StreamInv, UNCHANGED <<dir, blocks, link, fillBlk, takeBlk, filler, made, taken>>, takeBlk # 0,
         taker' \in TakerType, dir = "in" /\ taker'.pc # "idle" => taker'.left > 0, TakerInv', Taken' = Taken, dir = "in" => Enough'
  PROVE  StreamInv'
<1>1. HandsTyped'
    BY TakerHands DEF HandsTyped, TakerType
<1> QED
    BY <1>1, TakerMoves

LEMMA WantBytesStep == ASSUME StreamInv, NEW l \in Lens, Streams!Want(l) PROVE StreamInv'
<1>0. l \in Nat \ {0} /\ dir = "in" /\ taker' = [taker EXCEPT !.pc = "sum", !.left = l] /\ taker.pc = "idle"
      /\ UNCHANGED <<dir, blocks, link, fillBlk, takeBlk, filler, made, taken>>
    BY RingSizes DEF Streams!Want, Streams!TakerKeeps
<1>1. takeBlk \in Streams!Used /\ takeBlk # 0
    BY <1>0, TakerHands, Zenon
<1>2. taker' \in TakerType /\ taker'.pc = "sum" /\ taker'.left = l
    <2>1. "sum" \in TakerPcs
        BY DEF TakerPcs
    <2> QED
        BY <1>0, <2>1, TakerHands, TakerSet
<1>3. TakerInv' /\ Taken' = Taken /\ Enough'
    BY <1>0, <1>2 DEF TakerInv, Taken, Enough
<1> QED
    BY <1>0, <1>1, <1>2, <1>3, TakerLooks

LEMMA SumStep == ASSUME StreamInv, Streams!Sum PROVE StreamInv'
<1>0. taker.pc = "sum" /\ taker' = [taker EXCEPT !.pc = "sumNext", !.sum = Size(takeBlk)]
      /\ UNCHANGED <<dir, blocks, link, fillBlk, takeBlk, filler, made, taken>>
    BY DEF Streams!Sum, Streams!TakerKeeps, Size
<1>1. takeBlk \in Streams!Used /\ takeBlk # 0 /\ taker \in TakerType /\ (dir = "in" => taker.left > 0) /\ RingTyped
    <2>1. taker.pc # "idle"
        BY <1>0
    <2> QED
        BY <2>1, TakerHands, Zenon
<1>2. Size(takeBlk) \in Nat
    BY <1>1, Counts
<1>3. taker' \in TakerType /\ taker'.pc = "sumNext" /\ taker'.left = taker.left /\ taker'.sum = Size(takeBlk)
    <2> PICK s : s = Size(takeBlk)
        OBVIOUS
    <2>1. taker' = [pc |-> "sumNext", room |-> taker.room, left |-> taker.left, sum |-> s, next |-> taker.next]
        BY <1>0, <1>1 DEF TakerType
    <2>2. s \in Nat /\ taker.room \in Pieces /\ taker.left \in Nat /\ taker.next \in Nat
        BY <1>1, <1>2 DEF TakerType
    <2> QED
        BY <2>1, <2>2 DEF TakerType, TakerPcs
<1>4. Size(takeBlk)' = Size(takeBlk)
    BY <1>0 DEF Size, Streams!DataSize
<1>5. TakerInv' /\ Taken' = Taken /\ Enough'
    BY <1>0, <1>2, <1>3, <1>4 DEF TakerInv, Taken, Enough
<1> QED
    BY <1>0, <1>1, <1>3, <1>5, TakerLooks

LEMMA SumNextStep == ASSUME StreamInv, Streams!SumNext PROVE StreamInv'
<1> PICK x : x = link[takeBlk]
    OBVIOUS
<1> PICK s : s = taker.sum + (IF x = takeBlk THEN 0 ELSE Size(x))
    OBVIOUS
<1> PICK p : p = IF s >= taker.left THEN "begin" ELSE "idle"
    OBVIOUS
<1>0. taker.pc = "sumNext" /\ taker' = [taker EXCEPT !.pc = p, !.sum = 0]
      /\ UNCHANGED <<dir, blocks, link, fillBlk, takeBlk, filler, made, taken>>
    BY DEF Streams!SumNext, Streams!TakerKeeps, Size
<1>1. takeBlk \in Streams!Used /\ takeBlk # 0 /\ taker \in TakerType /\ (dir = "in" => taker.left > 0) /\ RingTyped
      /\ taker.left \in Nat /\ taker.sum \in Nat
    BY <1>0, TakerHands
<1>2. Size(takeBlk) \in Nat
    BY <1>1, Counts
<1>3. taker' \in TakerType /\ taker'.pc = p /\ taker'.left = taker.left
    <2>1. taker' = [pc |-> p, room |-> taker.room, left |-> taker.left, sum |-> 0, next |-> taker.next]
        BY <1>0, <1>1 DEF TakerType
    <2>2. p \in TakerPcs /\ taker.room \in Pieces /\ taker.left \in Nat /\ taker.next \in Nat
        BY <1>1 DEF TakerType, TakerPcs
    <2> QED
        BY <2>1, <2>2 DEF TakerType
<1>4. Size(takeBlk)' = Size(takeBlk) /\ Behind(takeBlk)' = Behind(takeBlk)
    BY <1>0 DEF Size, Streams!DataSize, Behind
<1>5. TakerInv' /\ Taken' = Taken
    BY <1>0, <1>3 DEF TakerInv, Taken
<1>6. ASSUME dir = "in" PROVE Enough'
    <2>1. taker.sum <= Size(takeBlk) /\ Behind(takeBlk) \in Nat
        BY <1>0, <1>6, TakerHands DEF Enough
    <2>2. s = taker.sum + Behind(takeBlk)
        BY DEF Behind
    <2>3. p = "begin" => taker.left <= Size(takeBlk) + Behind(takeBlk)
        BY <1>1, <1>2, <2>1, <2>2
    <2> QED
        BY <1>0, <1>3, <1>4, <2>3 DEF Enough
<1> QED
    BY <1>0, <1>1, <1>3, <1>5, <1>6, TakerLooks

LEMMA FlushStep == ASSUME StreamInv, Streams!Flush PROVE StreamInv'
<1>0. dir = "out" /\ taker' = [taker EXCEPT !.pc = "begin"] /\ taker.pc = "idle" /\ takeBlk # 0
      /\ UNCHANGED <<dir, blocks, link, fillBlk, takeBlk, filler, made, taken>>
    BY RingSizes DEF Streams!Flush, Streams!TakerAt, Streams!TakerKeeps
<1>1. taker' \in TakerType /\ taker'.pc = "begin"
    BY TakerHands, <1>0 DEF TakerType, TakerPcs
<1>2. TakerInv' /\ Taken' = Taken
    BY <1>0, <1>1 DEF TakerInv, Taken
<1> QED
    BY <1>0, <1>1, <1>2, TakerLooks

\* What beginReadBuff tells the taker.
LEMMA AvailFits ==
  ASSUME RingTyped, NEW b \in Streams!Used, NEW room, room = Streams!Avail(b)
  PROVE  /\ room \in Pieces /\ room.len + room.second = Size(b) /\ (room.len = 0 => Size(b) = 0)
         /\ room.len > 0 => room.at = Cell(b, 0) /\ room.at + room.len <= BlockSize
         /\ room.second > 0 => room.at + room.len = BlockSize
<1> PICK r : r = blocks[b].rd
    OBVIOUS
<1> PICK t : t = blocks[b].wt
    OBVIOUS
<1>1. /\ r \in 0..BlockSize /\ t \in 0..BlockSize /\ (t = 0 => r = 0) /\ Size(b) = (IF r <= t THEN t - r ELSE BlockSize - r + t)
      /\ Cell(b, 0) = (IF r + 0 < BlockSize THEN r + 0 ELSE r + 0 - BlockSize) /\ BlockSize \in Nat
    BY BlockTyped, RingSizes DEF Cell
<1>2. CASE r <= t
    <2>1. room = [at |-> r, len |-> t - r, second |-> 0, split |-> FALSE]
        BY <1>2 DEF Streams!Avail, Streams!Region
    <2>2. room.at = r /\ room.len = t - r /\ room.second = 0
        BY <2>1
    <2>3. room \in Pieces
        <3>1. r \in 0..BlockSize /\ t - r \in 0..BlockSize /\ 0 \in 0..BlockSize
            <4>1. BlockSize \in Nat /\ r \in 0..BlockSize /\ t \in 0..BlockSize
                BY <1>1
            <4> QED
                BY <1>2, <4>1
        <3> QED
            BY <2>1, <3>1 DEF Pieces
    <2> QED
        BY <1>1, <1>2, <2>2, <2>3
<1>3. CASE ~ (r <= t) /\ r = BlockSize
    <2>1. room = [at |-> 0, len |-> t, second |-> 0, split |-> FALSE]
        BY <1>3 DEF Streams!Avail, Streams!Region
    <2>2. room.at = 0 /\ room.len = t /\ room.second = 0
        BY <2>1
    <2>3. room \in Pieces
        <3>1. t \in 0..BlockSize /\ 0 \in 0..BlockSize
            BY <1>1
        <3> QED
            BY <2>1, <3>1 DEF Pieces
    <2> QED
        BY <1>1, <1>3, <2>2, <2>3
<1>4. CASE ~ (r <= t) /\ r # BlockSize
    <2>1. room = [at |-> r, len |-> BlockSize - r, second |-> t, split |-> TRUE]
        BY <1>4 DEF Streams!Avail, Streams!Region
    <2>2. room.at = r /\ room.len = BlockSize - r /\ room.second = t
        BY <2>1
    <2>3. room \in Pieces
        <3>1. r \in 0..BlockSize /\ BlockSize - r \in 0..BlockSize /\ t \in 0..BlockSize
            BY <1>1
        <3> QED
            BY <2>1, <3>1 DEF Pieces
    <2> QED
        BY <1>1, <1>4, <2>2, <2>3
<1> QED
    BY <1>2, <1>3, <1>4

LEMMA BeginTakeStep == ASSUME StreamInv, Streams!BeginTake PROVE StreamInv'
<1> PICK room : room = Streams!Avail(takeBlk)
    OBVIOUS
<1> PICK p : p = IF room.len = 0 THEN "switch" ELSE "first"
    OBVIOUS
<1>0. taker.pc = "begin" /\ taker' = [taker EXCEPT !.pc = p, !.room = room] /\ taker.pc # "idle" /\ taker.pc # "enter"
      /\ UNCHANGED <<dir, blocks, link, fillBlk, takeBlk, filler, made, taken>>
    BY DEF Streams!BeginTake, Streams!TakerKeeps
<1>1. takeBlk \in Streams!Used /\ takeBlk # 0 /\ taker \in TakerType /\ (dir = "in" => taker.left > 0) /\ RingTyped
    BY <1>0, TakerHands, Zenon
<1>2. /\ room \in Pieces /\ room.len + room.second = Size(takeBlk) /\ (room.len = 0 => Size(takeBlk) = 0)
      /\ room.len > 0 => room.at = Cell(takeBlk, 0) /\ room.at + room.len <= BlockSize
      /\ room.second > 0 => room.at + room.len = BlockSize
    BY <1>1, AvailFits
<1>3. room.len \in Nat /\ room.second \in Nat /\ Size(takeBlk) \in Nat /\ taker.left \in Nat
    BY <1>1, <1>2, PieceTyped, Counts DEF TakerType
<1>4. taker' \in TakerType /\ taker'.pc = p /\ taker'.left = taker.left /\ taker'.room = room
    <2>1. taker' = [pc |-> p, room |-> room, left |-> taker.left, sum |-> taker.sum, next |-> taker.next]
        BY <1>0, <1>1 DEF TakerType
    <2>2. p \in TakerPcs /\ taker.left \in Nat /\ taker.sum \in Nat /\ taker.next \in Nat
        BY <1>1 DEF TakerType, TakerPcs
    <2> QED
        BY <1>2, <2>1, <2>2 DEF TakerType
<1>5. Size(takeBlk)' = Size(takeBlk) /\ Behind(takeBlk)' = Behind(takeBlk) /\ Cell(takeBlk, 0)' = Cell(takeBlk, 0)
    BY <1>0 DEF Size, Streams!DataSize, Behind, Cell
<1>6. Taken' = Taken
    BY <1>0, <1>4 DEF Taken
<1>7. TakerInv'
    <2>1. p = "first" => room.len > 0
        BY <1>3
    <2> QED
        BY <1>0, <1>2, <1>3, <1>4, <1>5, <2>1 DEF TakerInv
<1>8. ASSUME dir = "in" PROVE Enough'
    <2>1. taker.left <= Size(takeBlk) + Behind(takeBlk) /\ Behind(takeBlk) \in Nat
        BY <1>0, <1>8, TakerHands DEF Enough
    <2>2. taker.left > Size(takeBlk) => takeBlk # fillBlk
        BY <1>0, <1>8, <2>1, NotAlone
    <2>3. p = "first" => taker.left <= room.len + room.second \/ (takeBlk # fillBlk /\ room.len + room.second = Size(takeBlk))
        BY <1>2, <1>3, <2>2
    <2>4. p = "switch" => Size(takeBlk) = 0 /\ taker.left <= Behind(takeBlk)
        BY <1>2, <1>3, <2>1
    <2>5. p \in {"first", "switch"}
        OBVIOUS
    <2> QED
        BY <1>0, <1>4, <1>5, <2>1, <2>3, <2>4, <2>5 DEF Enough
<1> QED
    BY <1>0, <1>1, <1>4, <1>6, <1>7, <1>8, TakerLooks

\* What was free for the filler stays so when the taker goes on.
LEMMA StillFree ==
  ASSUME NEW r \in 0..BlockSize, NEW w \in 0..BlockSize, w = 0 => r = 0, NEW s, s = (IF r <= w THEN w - r ELSE BlockSize - r + w),
         NEW n \in 1..s, NEW at, at = (IF r + 0 < BlockSize THEN r + 0 ELSE r + 0 - BlockSize), at + n <= BlockSize
  PROVE  (w = BlockSize => at + n >= r) /\ (w < BlockSize /\ at + n > w => r > w /\ at + n >= r) /\ (r <= w => at + n >= r) /\ at + n \in Nat
<1> BlockSize \in Nat
    BY RingSizes
<1>1. CASE r <= w
    BY <1>1
<1>2. CASE ~ (r <= w) /\ r = BlockSize
    BY <1>2
<1>3. CASE ~ (r <= w) /\ r < BlockSize
    BY <1>3
<1> QED
    BY <1>1, <1>2, <1>3

\* A step of the taker that takes n bytes from its block.
LEMMA TakeBytesStep ==
  ASSUME StreamInv, takeBlk # 0, taker.pc # "enter", NEW n \in 1..Size(takeBlk), NEW at, at = Cell(takeBlk, 0), at + n <= BlockSize,
         Streams!Take(takeBlk, at, n), UNCHANGED <<dir, link, fillBlk, takeBlk, filler, made>>, HandsTyped',
         taker'.pc \notin {"enter", "first"},
         taker'.pc = "second" => taker'.room.second > 0 /\ taker'.room.second <= Size(takeBlk) - n /\ at + n = BlockSize,
         dir = "in" => Enough'
  PROVE  StreamInv'
<1> PICK t : t = takeBlk
    OBVIOUS
<1>0. t = takeBlk /\ t \in Streams!Used /\ fillBlk \in Streams!Used /\ RingTyped /\ Kept /\ HandsTyped /\ FillerInv /\ TakerInv
    BY TakerHands
<1>1. BlocksStill(t) /\ Emptied(t, n) /\ blocks'[t].rd = at + n /\ blocks'[t].wt = blocks[t].wt
    BY <1>0, BlockEmptied
<1>2. /\ blocks' \in Seq(RingBlock) /\ Len(blocks') = Len(blocks) /\ Streams!Used' = Streams!Used /\ made' = made /\ taken' \in Seq(Nat)
      /\ Size(t)' = Size(t) - n
      /\ \A c \in Streams!Used : /\ (blocks'[c].wt = 0 => blocks'[c].rd = 0) /\ blocks'[c].flag = blocks[c].flag
                                 /\ (c # t => blocks'[c] = blocks[c])
    BY <1>1 DEF BlocksStill, Emptied
<1>3. RingTyped'
    BY <1>0, <1>2 DEF RingTyped
<1>4. TakerInv'
    BY <1>0, <1>1, <1>2 DEF TakerInv
<1>5. Kept'
    BY <1>0, <1>1, KeptEmptied
<1>6. FillerInv'
    <2>1. CASE t # fillBlk
        <3>1. blocks'[fillBlk] = blocks[fillBlk] /\ filler' = filler /\ fillBlk' = fillBlk /\ dir' = dir
            BY <1>0, <1>2, <2>1
        <3> QED
            BY <1>0, <3>1 DEF FillerInv
    <2>2. CASE t = fillBlk
        <3> PICK r : r = blocks[t].rd
            OBVIOUS
        <3> PICK w : w = blocks[t].wt
            OBVIOUS
        <3>1. /\ r \in 0..BlockSize /\ w \in 0..BlockSize /\ (w = 0 => r = 0) /\ Size(t) = (IF r <= w THEN w - r ELSE BlockSize - r + w)
              /\ at = (IF r + 0 < BlockSize THEN r + 0 ELSE r + 0 - BlockSize) /\ BlockSize \in Nat
            BY <1>0, BlockTyped, RingSizes DEF Cell
        <3>2. (w = BlockSize => at + n >= r) /\ (w < BlockSize /\ at + n > w => r > w /\ at + n >= r) /\ (r <= w => at + n >= r) /\ at + n \in Nat
            BY <1>0, <3>1, StillFree, SMTT(60)
        <3>3. filler.pc \in {"first", "second"} => filler.room \in Pieces
            BY <1>0 DEF HandsTyped
        <3>4. blocks'[fillBlk].rd = at + n /\ blocks'[fillBlk].wt = w /\ blocks[fillBlk].rd = r /\ blocks[fillBlk].wt = w
              /\ filler' = filler /\ fillBlk' = fillBlk /\ dir' = dir
            BY <1>0, <1>1, <2>2
        <3>5. at + n \in Nat /\ r \in Nat /\ w \in Nat /\ w <= BlockSize /\ BlockSize \in Nat
            BY <3>1, <3>2
        <3>6. ASSUME filler.pc = "first"
              PROVE  LET room == filler.room IN
                     /\ room.len > 0 /\ room.at + room.len <= BlockSize
                     /\ w = BlockSize => room.at = 0 /\ room.len < at + n /\ ~ room.split /\ room.second = 0
                     /\ w < BlockSize => room.at = w /\ (at + n > w => room.at + room.len < at + n /\ ~ room.split)
                     /\ room.split => room.at + room.len = BlockSize /\ room.second < at + n
                     /\ ~ room.split => room.second = 0
            <4> PICK room : room = filler.room
                OBVIOUS
            <4>1. /\ room.len > 0 /\ room.at + room.len <= BlockSize
                  /\ w = BlockSize => room.at = 0 /\ room.len < r /\ ~ room.split /\ room.second = 0
                  /\ w < BlockSize => room.at = w /\ (r > w => room.at + room.len < r /\ ~ room.split)
                  /\ room.split => room.at + room.len = BlockSize /\ room.second < r
                  /\ ~ room.split => room.second = 0
                BY <1>0, <3>4, <3>6 DEF FillerInv
            <4>2. room.len \in Nat /\ room.at \in Nat /\ room.second \in Nat
                BY <3>3, <3>6, PieceTyped
            <4>3. room.split => w < BlockSize /\ r <= w
                BY <3>5, <4>1
            <4> QED
                BY <3>2, <3>5, <4>1, <4>2, <4>3
        <3>7. ASSUME filler.pc = "second"
              PROVE  w = BlockSize /\ filler.room.second < at + n /\ (dir = "out" => filler.room.second > 0)
            <4>1. w = BlockSize /\ filler.room.second < r /\ (dir = "out" => filler.room.second > 0)
                BY <1>0, <3>4, <3>7 DEF FillerInv
            <4>2. filler.room.second \in Nat
                BY <3>3, <3>7, PieceTyped
            <4> QED
                BY <3>2, <3>5, <4>1, <4>2
        <3> QED
            BY <3>4, <3>6, <3>7 DEF FillerInv
    <2> QED
        BY <2>1, <2>2
<1>7. ASSUME dir = "in" PROVE Ordered'
    <2>1. Ordered /\ Taken = t /\ Taken' = t /\ blocks'[t].flag = blocks[t].flag
        BY <1>0, <1>2, <1>7, TakerHands DEF Taken
    <2> QED
        BY <1>0, <1>1, <1>7, <2>1, OrderedEmptied
<1> QED
    BY <1>3, <1>4, <1>5, <1>6, <1>7 DEF StreamInv

\* A step of the taker on a piece of its block, behind which there are `second` bytes more at the block's beginning.
LEMMA PieceStep ==
  ASSUME StreamInv, taker.pc \in {"first", "second"}, NEW at, NEW l \in Nat \ {0}, NEW second \in Nat, NEW full,
         at = Cell(takeBlk, 0), at + l <= BlockSize, l + second <= Size(takeBlk),
         second > 0 => at + l = BlockSize /\ second = taker.room.second,
         full = IF second > 0 THEN "second" ELSE IF dir = "in" THEN "switch" ELSE "begin",
         Streams!TakePiece(at, l, full), UNCHANGED <<dir, link, fillBlk, filler, made, takeBlk>>,
         dir = "in" => taker.left <= l + second \/ (takeBlk # fillBlk /\ l + second = Size(takeBlk))
  PROVE  StreamInv'
<1>0. /\ RingTyped /\ HandsTyped /\ taker \in TakerType /\ taker.left \in Nat /\ dir \in {"in", "out"} /\ taker.pc # "enter" /\ taker.pc # "idle"
      /\ takeBlk \in Streams!Used /\ takeBlk # 0
    <2>1. taker.pc # "enter" /\ taker.pc # "idle"
        OBVIOUS
    <2> QED
        BY <2>1, TakerHands
<1>1. Size(takeBlk) \in Nat /\ full \in TakerPcs /\ full \notin {"enter", "first"}
    BY <1>0, Counts DEF TakerPcs
<1>2. ASSUME NEW n \in Nat \ {0}, n <= l, Streams!Take(takeBlk, at, n), taker' \in TakerType, taker'.room = taker.room,
             taker'.pc \in {"idle", full}, taker'.pc = full => n = l, dir = "in" /\ taker'.pc # "idle" => taker'.left > 0,
             dir = "in" => taker'.left = taker.left - n
      PROVE  StreamInv'
    <2>1. n \in 1..Size(takeBlk) /\ at + n <= BlockSize
        <3>1. at \in Nat /\ BlockSize \in Nat
            <4>1. blocks[takeBlk].rd \in 0..BlockSize /\ BlockSize \in Nat
                BY <1>0, BlockTyped, RingSizes
            <4> QED
                BY <4>1 DEF Cell
        <3> QED
            BY <1>1, <1>2, <3>1
    <2>2. Emptied(takeBlk, n)
        BY <1>0, <1>2, <2>1, BlockEmptied
    <2>3. HandsTyped'
        BY <1>0, <1>2 DEF HandsTyped, TakerType
    <2>4. taker'.pc = "second" => taker'.room.second > 0 /\ taker'.room.second <= Size(takeBlk) - n /\ at + n = BlockSize /\ n = l /\ second > 0
        BY <1>1, <1>2
    <2>5. ASSUME dir = "in" PROVE Enough'
        <3>1. taker.left <= Size(takeBlk) + Behind(takeBlk) /\ Behind(takeBlk) \in Nat
            BY <2>5, TakerHands DEF Enough
        <3>2. Size(takeBlk)' = Size(takeBlk) - n /\ \A c \in Streams!Used \ {takeBlk} : Size(c)' = Size(c)
            BY <2>2 DEF Emptied
        <3>3. Behind(takeBlk)' = Behind(takeBlk)
            <4> PICK t : t = takeBlk
                OBVIOUS
            <4> PICK x : x = link[takeBlk]
                OBVIOUS
            <4>1. t \in Streams!Used /\ x \in Streams!Used
                BY <1>0 DEF RingTyped
            <4>2. Behind(takeBlk) = (IF x = t THEN 0 ELSE Size(x)) /\ Behind(takeBlk)' = IF x = t THEN 0 ELSE Size(x)'
                BY DEF Behind
            <4> QED
                BY <3>2, <4>1, <4>2
        <3>4. taker'.pc \in {"idle", "second", "switch"} /\ taker'.left = taker.left - n /\ taker'.left \in Nat
            BY <1>2, <2>5 DEF TakerType
        <3>5. taker'.pc = "second" => taker'.left <= Size(takeBlk)' + Behind(takeBlk)'
            BY <1>0, <1>1, <3>1, <3>2, <3>3, <3>4
        <3>6. taker'.pc = "second" => taker'.left <= taker'.room.second \/ (takeBlk # fillBlk /\ taker'.room.second = Size(takeBlk)')
            <4> SUFFICES ASSUME taker'.pc = "second" PROVE taker'.left <= taker'.room.second \/ (takeBlk # fillBlk /\ taker'.room.second = Size(takeBlk)')
                OBVIOUS
            <4>1. n = l /\ taker'.room.second = second
                BY <1>2, <2>4
            <4>2. taker.left <= l + second \/ (takeBlk # fillBlk /\ l + second = Size(takeBlk))
                BY <2>5
            <4> QED
                BY <1>0, <1>1, <3>2, <3>4, <4>1, <4>2
        <3>7. taker'.pc = "switch" => Size(takeBlk)' = 0 /\ taker'.left <= Behind(takeBlk)'
            <4> SUFFICES ASSUME taker'.pc = "switch" PROVE Size(takeBlk)' = 0 /\ taker'.left <= Behind(takeBlk)'
                OBVIOUS
            <4>1. n = l /\ second = 0 /\ taker'.left > 0
                BY <1>2, <2>5
            <4>2. taker.left > l
                BY <1>0, <3>4, <4>1
            <4>3. l = Size(takeBlk)
                BY <1>0, <2>5, <4>1, <4>2
            <4>4. Size(takeBlk) \in Nat /\ Behind(takeBlk) \in Nat /\ taker.left \in Nat
                BY <1>0, <1>1, <2>5, TakerHands
            <4>5. taker.left - l <= Behind(takeBlk)
                BY <3>1, <4>3, <4>4
            <4>6. Size(takeBlk)' = 0
                BY <3>2, <4>1, <4>3, <4>4
            <4> QED
                BY <3>3, <3>4, <4>1, <4>5, <4>6
        <3>8. takeBlk' = takeBlk /\ fillBlk' = fillBlk
            OBVIOUS
        <3> QED
            BY <3>4, <3>5, <3>6, <3>7, <3>8 DEF Enough
    <2>6. taker'.pc \notin {"enter", "first"}
        BY <1>1, <1>2
    <2>7. taker'.pc = "second" => taker'.room.second > 0 /\ taker'.room.second <= Size(takeBlk) - n /\ at + n = BlockSize
        BY <2>4
    <2> QED
        BY <1>0, <1>2, <2>1, <2>3, <2>5, <2>6, <2>7, TakeBytesStep
<1>3. CASE dir = "in"
    <2> PICK n : n = Streams!Lesser(l, taker.left)
        OBVIOUS
    <2> PICK m : m = taker.left - n
        OBVIOUS
    <2> PICK p : p = IF n = taker.left THEN "idle" ELSE full
        OBVIOUS
    <2>1. Streams!Take(takeBlk, at, n) /\ taker' = [taker EXCEPT !.left = m, !.pc = p]
        BY <1>3 DEF Streams!TakePiece
    <2>2. taker.left > 0
        BY <1>0, <1>3, TakerHands
    <2>3. n \in Nat \ {0} /\ n <= l /\ n <= taker.left /\ (n = l \/ n = taker.left)
        <3>1. l \in Nat /\ l > 0 /\ taker.left \in Nat
            BY <1>0
        <3>2. n \in Nat /\ n <= l /\ n <= taker.left /\ (n = l \/ n = taker.left)
            BY <3>1, LesserTyped, Zenon
        <3> QED
            BY <2>2, <3>1, <3>2
    <2>4. m \in Nat /\ p \in TakerPcs
        BY <1>0, <1>1, <2>3 DEF TakerPcs
    <2>5. taker' \in TakerType /\ taker'.pc = p /\ taker'.left = m /\ taker'.room = taker.room
        BY <1>0, <2>1, <2>4, TakerSet, ZenonT(60)
    <2>6. full # "idle" /\ (p = full => n = l) /\ (p # "idle" => m > 0)
        BY <1>0, <2>3, <2>4
    <2>7. taker'.pc \in {"idle", full} /\ taker'.left = taker.left - n
        BY <2>5
    <2> QED
        BY <1>2, <2>1, <2>3, <2>5, <2>6, <2>7
<1>4. CASE dir = "out"
    <2>1. PICK n \in 0..l :
            /\ IF n = 0 THEN UNCHANGED <<blocks, taken>> ELSE Streams!Take(takeBlk, at, n)
            /\ Streams!TakerAt(IF n < l THEN "idle" ELSE full)
        BY <1>4 DEF Streams!TakePiece
    <2> PICK p : p = IF n < l THEN "idle" ELSE full
        OBVIOUS
    <2>2. taker' = [taker EXCEPT !.pc = p] /\ p \in TakerPcs
        BY <1>1, <2>1 DEF Streams!TakerAt, TakerPcs
    <2>3. taker' \in TakerType /\ taker'.pc = p /\ taker'.room = taker.room
        BY <1>0, <2>2 DEF TakerType
    <2>4. n \in Nat /\ n <= l /\ p \in {"idle", full} /\ (p = full => n = l) /\ full # "idle"
        BY <2>1
    <2>5. CASE n = 0
        <3>1. UNCHANGED <<blocks, taken>> /\ taker'.pc = "idle"
            BY <2>1, <2>3, <2>5
        <3>2. TakerInv' /\ Taken' = Taken
            BY <1>0, <3>1 DEF TakerInv, Taken
        <3> QED
            BY <1>0, <1>4, <2>3, <3>1, <3>2, TakerLooks
    <2>6. CASE n # 0
        BY <1>2, <1>4, <2>1, <2>3, <2>4, <2>6
    <2> QED
        BY <2>5, <2>6
<1> QED
    BY <1>0, <1>3, <1>4

LEMMA TakeFirstStep == ASSUME StreamInv, Streams!TakeFirst PROVE StreamInv'
<1> PICK room : room = taker.room
    OBVIOUS
<1>0. taker.pc = "first" /\ UNCHANGED <<dir, link, fillBlk, filler, made, takeBlk>>
      /\ Streams!TakePiece(room.at, room.len, IF room.second > 0 THEN "second" ELSE IF dir = "in" THEN "switch" ELSE "begin")
    BY DEF Streams!TakeFirst, Streams!TakerKeeps, Streams!Rest
<1>1. /\ room.len > 0 /\ room.at = Cell(takeBlk, 0) /\ room.at + room.len <= BlockSize
      /\ room.len + room.second <= Size(takeBlk) /\ (room.second > 0 => room.at + room.len = BlockSize)
    BY <1>0 DEF StreamInv, TakerInv
<1>2. room.len \in Nat \ {0} /\ room.second \in Nat
    <2>1. room \in Pieces
        BY TakerHands DEF TakerType
    <2> QED
        BY <1>1, <2>1, PieceTyped
<1>3. dir = "in" => taker.left <= room.len + room.second \/ (takeBlk # fillBlk /\ room.len + room.second = Size(takeBlk))
    <2>1. dir = "in" => Enough
        BY TakerHands
    <2>2. Enough => taker.left <= taker.room.len + taker.room.second \/ (takeBlk # fillBlk /\ taker.room.len + taker.room.second = Size(takeBlk))
        BY <1>0, Zenon DEF Enough
    <2> QED
        BY <2>1, <2>2
<1>4. taker.pc \in {"first", "second"}
    BY <1>0
<1> QED
    BY <1>0, <1>1, <1>2, <1>3, <1>4, PieceStep

LEMMA TakeSecondStep == ASSUME StreamInv, Streams!TakeSecond PROVE StreamInv'
<1> PICK l : l = taker.room.second
    OBVIOUS
<1> PICK full : full = IF dir = "in" THEN "switch" ELSE "begin"
    OBVIOUS
<1>0. taker.pc = "second" /\ UNCHANGED <<dir, link, fillBlk, filler, made, takeBlk>> /\ Streams!TakePiece(0, l, full)
    BY DEF Streams!TakeSecond, Streams!TakerKeeps, Streams!Rest
<1>1. l > 0 /\ l <= Size(takeBlk) /\ blocks[takeBlk].rd = BlockSize
    BY <1>0 DEF StreamInv, TakerInv
<1>2. l \in Nat \ {0} /\ takeBlk \in Streams!Used /\ RingTyped
    <2>1. taker.room \in Pieces /\ taker.pc # "idle"
        BY <1>0, TakerHands DEF TakerType
    <2>2. takeBlk \in Streams!Used /\ RingTyped
        BY <2>1, TakerHands, Zenon
    <2> QED
        BY <1>1, <2>1, <2>2, PieceTyped
<1>3. l <= BlockSize /\ 0 = Cell(takeBlk, 0)
    <2>1. Size(takeBlk) \in 0..BlockSize
        BY <1>2, BlockTyped
    <2>2. Cell(takeBlk, 0) = IF BlockSize + 0 < BlockSize THEN BlockSize + 0 ELSE BlockSize + 0 - BlockSize
        BY <1>1 DEF Cell
    <2> QED
        BY <1>1, <1>2, <2>1, <2>2, RingSizes
<1>4. dir = "in" => taker.left <= l \/ (takeBlk # fillBlk /\ l = Size(takeBlk))
    <2>1. dir = "in" => Enough
        BY TakerHands
    <2>2. Enough => taker.left <= taker.room.second \/ (takeBlk # fillBlk /\ taker.room.second = Size(takeBlk))
        BY <1>0, Zenon DEF Enough
    <2> QED
        BY <2>1, <2>2
<1>5. taker.pc \in {"first", "second"} /\ l + 0 = l /\ 0 + l = l /\ 0 \in Nat /\ ~ (0 > 0)
    BY <1>0, <1>2
<1>6. full = IF 0 > 0 THEN "second" ELSE IF dir = "in" THEN "switch" ELSE "begin"
    BY <1>5
<1> QED
    BY <1>0, <1>1, <1>2, <1>3, <1>4, <1>5, <1>6, PieceStep

LEMMA SwitchBytesStep == ASSUME StreamInv, Streams!Switch PROVE StreamInv'
<1> PICK x : x = link[takeBlk]
    OBVIOUS
<1> PICK t : t = takeBlk
    OBVIOUS
<1>0. taker.pc = "switch" /\ UNCHANGED <<dir, link, fillBlk, filler, made, takeBlk, taken>>
    BY DEF Streams!Switch, Streams!TakerKeeps
<1>1. /\ RingTyped /\ HandsTyped /\ Kept /\ FillerInv /\ TakerInv /\ taker \in TakerType /\ taker.left \in Nat /\ dir \in {"in", "out"}
      /\ t \in Streams!Used /\ t # 0 /\ t = takeBlk /\ fillBlk \in Streams!Used
    <2>1. taker.pc # "idle"
        BY <1>0
    <2> QED
        BY <2>1, TakerHands
<1>2. x \in Streams!Used /\ x \in Nat
    <2>1. x \in Streams!Used
        BY <1>1 DEF RingTyped
    <2> QED
        BY <1>1, <2>1, Counts
<1>3. ~ Streams!Empty(x) <=> Size(x) > 0
    <2>1. /\ blocks[x].rd \in 0..BlockSize /\ blocks[x].wt \in 0..BlockSize /\ (blocks[x].wt = 0 => blocks[x].rd = 0)
          /\ Size(x) = (IF blocks[x].rd <= blocks[x].wt THEN blocks[x].wt - blocks[x].rd ELSE BlockSize - blocks[x].rd + blocks[x].wt)
        BY <1>1, <1>2, BlockTyped
    <2> QED
        BY <2>1, RingSizes DEF Streams!Empty
<1>4. dir = "in" => Size(t) = 0 /\ x # t /\ Size(x) > 0 /\ taker.left <= Size(x) /\ Taken = t
    <2> SUFFICES ASSUME dir = "in" PROVE Size(t) = 0 /\ x # t /\ Size(x) > 0 /\ taker.left <= Size(x) /\ Taken = t
        OBVIOUS
    <2>1. Enough /\ taker.left > 0
        <3>1. taker.pc # "idle"
            BY <1>0
        <3> QED
            BY <3>1, TakerHands
    <2>2. Size(t) = 0 /\ taker.left <= Behind(t)
        BY <1>0, <1>1, <2>1 DEF Enough
    <2>3. Behind(t) = IF x = t THEN 0 ELSE Size(x)
        BY <1>1 DEF Behind
    <2>4. Size(x) \in Nat
        BY <1>1, <1>2, Counts
    <2> QED
        BY <1>0, <1>1, <2>1, <2>2, <2>3, <2>4 DEF Taken
<1>5. CASE x # t /\ Size(x) > 0
    <2> DEFINE bx == [blocks[x] EXCEPT !.flag = TRUE]
               bt == [blocks[t] EXCEPT !.flag = FALSE]
               b1 == [blocks EXCEPT ![x] = bx]
    <2>1. blocks' = [b1 EXCEPT ![t] = bt] /\ taker' = [taker EXCEPT !.pc = "enter", !.next = x]
        <3>1. /\ blocks' = [blocks EXCEPT ![x].flag = TRUE, ![t].flag = FALSE]
              /\ taker' = [taker EXCEPT !.pc = "enter", !.next = x]
            BY <1>1, <1>3, <1>5 DEF Streams!Switch
        <3> QED
            BY <1>5, <3>1
    <2>2. /\ bx \in RingBlock /\ bx.rd = blocks[x].rd /\ bx.wt = blocks[x].wt /\ bx.cells = blocks[x].cells /\ bx.flag
          /\ bt \in RingBlock /\ bt.rd = blocks[t].rd /\ bt.wt = blocks[t].wt /\ bt.cells = blocks[t].cells
        <3>1. blocks[x] \in RingBlock /\ blocks[t] \in RingBlock
            BY <1>1, <1>2, BlockTyped
        <3> QED
            BY <3>1 DEF RingBlock
    <2> HIDE DEF bx, bt
    <2>3. b1 \in Seq(RingBlock) /\ Len(b1) = Len(blocks) /\ DOMAIN b1 = DOMAIN blocks /\ b1[x] = bx /\ \A c \in Streams!Used \ {x} : b1[c] = blocks[c]
        BY <1>1, <1>2, <2>2, ExceptSeq DEF Streams!Used, RingTyped
    <2> HIDE DEF b1
    <2>4. /\ blocks' \in Seq(RingBlock) /\ Len(blocks') = Len(blocks) /\ DOMAIN blocks' = DOMAIN blocks /\ blocks'[t] = bt
          /\ \A c \in Streams!Used \ {t} : blocks'[c] = b1[c]
        BY <1>1, <2>1, <2>2, <2>3, ExceptSeq DEF Streams!Used
    <2>5. Streams!Used' = Streams!Used /\ blocks'[x].flag
          /\ \A c \in Streams!Used : blocks'[c].rd = blocks[c].rd /\ blocks'[c].wt = blocks[c].wt /\ blocks'[c].cells = blocks[c].cells
        BY <1>2, <1>5, <2>2, <2>3, <2>4 DEF Streams!Used
    <2>6. Unmoved
        BY <1>0, <2>5 DEF Unmoved, Size, Streams!DataSize, Offsets, Byte, Cell
    <2>7. taker' \in TakerType /\ taker'.pc = "enter" /\ taker'.next = x /\ taker'.left = taker.left
        <3>1. taker' = [pc |-> "enter", room |-> taker.room, left |-> taker.left, sum |-> taker.sum, next |-> x]
            BY <1>1, <2>1 DEF TakerType
        <3>2. taker.room \in Pieces /\ taker.sum \in Nat
            BY <1>1 DEF TakerType
        <3> QED
            BY <1>1, <1>2, <3>1, <3>2 DEF TakerType, TakerPcs
    <2>8. RingTyped'
        BY <1>0, <1>1, <2>4, <2>5, ZenonT(60) DEF RingTyped
    <2>9. HandsTyped'
        <3>1. dir' = "in" => taker'.left > 0
            BY <1>0, <1>1, <2>7 DEF HandsTyped
        <3> QED
            BY <1>0, <1>1, <2>7, <3>1 DEF HandsTyped, TakerType
    <2>10. FillerInv'
        <3>1. blocks'[fillBlk].rd = blocks[fillBlk].rd /\ blocks'[fillBlk].wt = blocks[fillBlk].wt /\ filler' = filler /\ fillBlk' = fillBlk /\ dir' = dir
            BY <1>0, <1>1, <2>5
        <3> QED
            BY <1>1, <3>1 DEF FillerInv
    <2>11. TakerInv'
        BY <1>2, <2>5, <2>7 DEF TakerInv
    <2>12. Kept'
        BY <1>1, <2>6, KeptUnmoved
    <2>13. ASSUME dir = "in" PROVE Ordered' /\ Enough'
        <3>1. Ordered
            BY <2>13, TakerHands
        <3>2. Taken = t /\ Taken' = x /\ x = link[Taken] /\ Size(t) = 0 /\ taker.left <= Size(x)
            BY <1>1, <1>4, <2>7, <2>13 DEF Taken
        <3>3. Ordered'
            BY <1>0, <1>1, <1>5, <2>5, <2>6, <2>13, <3>1, <3>2, OrderedSwitched
        <3>4. Size(x)' = Size(x)
            BY <1>2, <2>6 DEF Unmoved
        <3>5. Enough'
            BY <2>7, <3>2, <3>4 DEF Enough
        <3> QED
            BY <3>3, <3>5
    <2> QED
        BY <1>0, <2>8, <2>9, <2>10, <2>11, <2>12, <2>13 DEF StreamInv
<1>6. CASE ~ (x # t /\ Size(x) > 0)
    <2>1. dir = "out"
        BY <1>1, <1>4, <1>6
    <2>2. taker' = [taker EXCEPT !.pc = "idle"] /\ UNCHANGED blocks
        BY <1>1, <1>3, <1>6, <2>1 DEF Streams!Switch, Streams!TakerAt
    <2>3. taker' \in TakerType /\ taker'.pc = "idle"
        BY <1>1, <2>2 DEF TakerType, TakerPcs
    <2>4. TakerInv' /\ Taken' = Taken
        BY <1>0, <2>3 DEF TakerInv, Taken
    <2> QED
        BY <1>0, <1>1, <2>1, <2>2, <2>3, <2>4, TakerLooks
<1> QED
    BY <1>5, <1>6

LEMMA EnterStep == ASSUME StreamInv, Streams!Enter PROVE StreamInv'
<1> PICK x : x = taker.next
    OBVIOUS
<1>0. /\ taker.pc = "enter" /\ UNCHANGED <<dir, blocks, link, fillBlk, filler, made, taken>> /\ takeBlk' = x
      /\ taker' = [taker EXCEPT !.pc = "begin", !.next = 0]
    BY RingSizes DEF Streams!Enter, Streams!TakerKeeps
<1>1. /\ RingTyped /\ HandsTyped /\ Kept /\ FillerInv /\ TakerInv /\ taker \in TakerType /\ taker.left \in Nat
      /\ fillBlk \in Streams!Used /\ x \in Streams!Used
    <2>1. taker.pc # "idle"
        BY <1>0
    <2>2. RingTyped /\ HandsTyped /\ Kept /\ FillerInv /\ TakerInv /\ taker \in TakerType /\ taker.left \in Nat /\ fillBlk \in Streams!Used
        BY <2>1, TakerHands
    <2> QED
        BY <1>0, <2>2 DEF TakerInv
<1>2. taker' \in TakerType /\ taker'.pc = "begin" /\ taker'.left = taker.left
    <2>1. taker' = [pc |-> "begin", room |-> taker.room, left |-> taker.left, sum |-> taker.sum, next |-> 0]
        BY <1>0, <1>1 DEF TakerType
    <2>2. taker.room \in Pieces /\ taker.sum \in Nat
        BY <1>1 DEF TakerType
    <2> QED
        BY <1>1, <2>1, <2>2 DEF TakerType, TakerPcs
<1>3. RingTyped'
    BY <1>0, <1>1 DEF RingTyped, Streams!Used
<1>4. HandsTyped'
    <2>1. dir' = "in" => taker'.left > 0
        BY <1>0, <1>1, <1>2 DEF HandsTyped
    <2> QED
        BY <1>0, <1>1, <1>2, <2>1 DEF HandsTyped, TakerType
<1>5. FillerInv' /\ TakerInv'
    BY <1>0, <1>1, <1>2 DEF FillerInv, TakerInv
<1>6. Unmoved /\ Streams!Used' = Streams!Used
    BY <1>0, NoneMoved
<1>7. Kept'
    BY <1>1, <1>6, KeptUnmoved
<1>8. ASSUME dir = "in" PROVE Ordered' /\ Enough'
    <2>1. Ordered /\ Enough
        BY <1>8, TakerHands
    <2>2. Taken = x /\ Taken' = x
        BY <1>0, <1>2 DEF Taken
    <2>3. Ordered'
        BY <1>0, <1>1, <1>6, <1>8, <2>1, <2>2, OrderedSame
    <2>4. taker.left <= Size(x) /\ Size(x)' = Size(x) /\ Behind(x)' = Behind(x) /\ Behind(x) \in Nat /\ Size(x) \in Nat
        <3>1. taker.left <= Size(x)
            BY <1>0, <2>1 DEF Enough
        <3>2. Size(x)' = Size(x) /\ Behind(x)' = Behind(x)
            BY <1>0 DEF Size, Streams!DataSize, Behind
        <3>3. link[x] \in Streams!Used
            BY <1>1 DEF RingTyped
        <3> QED
            BY <1>1, <3>1, <3>2, <3>3, Counts DEF Behind
    <2>5. taker'.left <= Size(x)' + Behind(x)'
        BY <1>1, <1>2, <2>4
    <2> QED
        BY <1>0, <1>2, <2>3, <2>5 DEF Enough
<1> QED
    BY <1>0, <1>3, <1>4, <1>5, <1>7, <1>8 DEF StreamInv

LEMMA BytesStart == ASSUME Streams!Init PROVE StreamInv
<1>0. /\ dir \in Dirs /\ dir \in {"in", "out"} /\ made = 0 /\ taken = <<>> /\ takeBlk = fillBlk
      /\ filler = [pc |-> "idle", room |-> Streams!NoRegion, left |-> 0, cur |-> 0]
      /\ taker = [pc |-> "idle", room |-> Streams!NoRegion, left |-> 0, sum |-> 0, next |-> 0]
      /\ dir = "in" => blocks = <<Streams!NewBlock>> /\ link = <<1>> /\ fillBlk = 1
      /\ dir = "out" => blocks = <<>> /\ link = <<>> /\ fillBlk = 0
    BY RingSizes DEF Streams!Init
<1>1. Streams!NoRegion \in Pieces
    BY RingSizes DEF Streams!NoRegion, Streams!Region, Pieces
<1>2. filler \in FillerType /\ taker \in TakerType
    BY <1>0, <1>1 DEF FillerType, TakerType, FillerPcs, TakerPcs
<1>3. HandsTyped
    BY <1>0, <1>2, RingSizes DEF HandsTyped, FillerType, TakerType
<1>4. FillerInv /\ TakerInv
    BY <1>0 DEF FillerInv, TakerInv
<1>5. CASE dir = "in"
    <2>1. blocks \in Seq(RingBlock) /\ Len(blocks) = 1 /\ Streams!Used = {1} /\ blocks[1] = Streams!NewBlock /\ link \in [{1} -> {1}]
        <3>1. blocks \in Seq(RingBlock) /\ Len(blocks) = 1 /\ Streams!Used = {1} /\ blocks[1] = Streams!NewBlock
            <4>1. blocks = <<Streams!NewBlock>>
                BY <1>0, <1>5
            <4> QED
                BY <4>1, NewRingBlock DEF Streams!Used
        <3>2. link \in [{1} -> {1}]
            BY <1>0, <1>5
        <3> QED
            BY <3>1, <3>2
    <2>2. 1 <= MaxBlocks
        BY StreamsAssumption DEF Streams!SizeAssumption
    <2>3. RingTyped
        BY <1>0, <1>5, <2>1, <2>2, NewRingBlock DEF RingTyped
    <2>4. Size(1) = 0 /\ Offsets(1) = {}
        <3>1. Size(1) = 0
            BY <2>1, NewRingBlock DEF Size, Streams!DataSize
        <3>2. Offsets(1) = 0..(0 - 1)
            BY <3>1 DEF Offsets
        <3> QED
            BY <3>1, <3>2
    <2>5. Kept
        BY <1>0, <2>1, <2>4 DEF Kept
    <2>6. Taken = 1 /\ fillBlk = 1 /\ Active = {1}
        BY <1>0, <1>5, <2>1 DEF Taken, Active
    <2>7. First(1) = 1
        BY <1>0, <2>4, <2>6 DEF First
    <2>8. Ordered
        BY <1>0, <2>1, <2>4, <2>6, <2>7, NewRingBlock DEF Ordered
    <2>9. Enough
        BY <1>0 DEF Enough
    <2> QED
        BY <1>3, <1>4, <2>3, <2>5, <2>8, <2>9 DEF StreamInv
<1>6. CASE dir = "out"
    <2>1. blocks = <<>> /\ Streams!Used = {} /\ link \in [{} -> {}] /\ Len(blocks) = 0 /\ blocks \in Seq(RingBlock)
        BY <1>0, <1>6 DEF Streams!Used
    <2>2. 0 <= MaxBlocks
        BY StreamsAssumption DEF Streams!SizeAssumption
    <2>3. RingTyped
        BY <1>0, <1>6, <2>1, <2>2 DEF RingTyped
    <2>4. Kept
        BY <1>0, <2>1 DEF Kept
    <2> QED
        BY <1>3, <1>4, <1>6, <2>3, <2>4 DEF StreamInv
<1> QED
    BY <1>0, <1>5, <1>6

LEMMA BytesStep == ASSUME StreamInv, Streams!Next PROVE StreamInv'
<1>1. CASE Streams!Filling
    BY <1>1, ArriveBytesStep, TestBytesStep, DirectStep, CreateStep, BeginFillStep, FillFirstStep, FillSecondStep, NextBlockStep
       DEF Streams!Filling
<1>2. CASE Streams!Taking
    BY <1>2, SumStep, SumNextStep, FlushStep, BeginTakeStep, TakeFirstStep, TakeSecondStep, SwitchBytesStep, EnterStep
       DEF Streams!Taking
<1>3. CASE \E l \in Lens : Streams!Send(l) \/ Streams!Want(l)
    BY <1>3, SendBytesStep, WantBytesStep
<1> QED
    BY <1>1, <1>2, <1>3 DEF Streams!Next

LEMMA BytesRest == ASSUME StreamInv, UNCHANGED streamVars PROVE StreamInv'
<1> UNCHANGED <<dir, blocks, link, fillBlk, takeBlk, filler, taker, made, taken>>
    BY DEF streamVars
<1>1. RingTyped' <=> RingTyped
    BY DEF RingTyped, Streams!Used
<1>2. HandsTyped' <=> HandsTyped
    BY DEF HandsTyped
<1>3. FillerInv' <=> FillerInv
    BY DEF FillerInv
<1>4. TakerInv' <=> TakerInv
    BY DEF TakerInv, Cell, Size, Streams!DataSize, Streams!Used
<1>5. Enough' <=> Enough
    BY DEF Enough, Behind, Size, Streams!DataSize
<1>6. Unmoved /\ Streams!Used' = Streams!Used /\ Taken' = Taken
    BY NoneMoved, TakenStays
<1>7. Kept => Kept'
    BY <1>6, KeptUnmoved
<1>8. dir = "in" => Ordered'
    BY <1>6, OrderedSame DEF StreamInv
<1> QED
    BY <1>1, <1>2, <1>3, <1>4, <1>5, <1>7, <1>8 DEF StreamInv
-------------------------------------------------------------------------------
\* What a reader of a block would take are its bytes.
LEMMA AvailCells ==
  ASSUME RingTyped, NEW b \in Streams!Used, NEW at, NEW n, NEW m, at = Streams!Avail(b).at, n = Streams!Avail(b).len, m = Streams!Avail(b).second
  PROVE  at \in Nat /\ n \in Nat /\ m \in Nat /\ n + m = Size(b) /\ \A j \in Offsets(b) : Cell(b, j) = IF j < n THEN at + j ELSE j - n
<1> PICK r : r = blocks[b].rd
    OBVIOUS
<1> PICK t : t = blocks[b].wt
    OBVIOUS
<1>1. /\ r \in 0..BlockSize /\ t \in 0..BlockSize /\ (t = 0 => r = 0) /\ Size(b) = (IF r <= t THEN t - r ELSE BlockSize - r + t)
      /\ BlockSize \in Nat
    BY BlockTyped, RingSizes
<1>2. \A j : Cell(b, j) = (IF r + j < BlockSize THEN r + j ELSE r + j - BlockSize)
    BY DEF Cell
<1>3. at = (IF r <= t THEN r ELSE IF r = BlockSize THEN 0 ELSE r) /\ n = (IF r <= t THEN t - r ELSE IF r = BlockSize THEN t ELSE BlockSize - r)
      /\ m = (IF r <= t THEN 0 ELSE IF r = BlockSize THEN 0 ELSE t)
    BY DEF Streams!Avail, Streams!Region
<1>4. at \in Nat /\ n \in Nat /\ m \in Nat /\ n + m = Size(b)
    BY <1>1, <1>3
<1>5. ASSUME NEW j \in Offsets(b) PROVE Cell(b, j) = IF j < n THEN at + j ELSE j - n
    <2>1. j \in Nat /\ j < Size(b)
        BY <1>4 DEF Offsets
    <2>2. CASE r <= t
        BY <1>1, <1>2, <1>3, <2>1, <2>2
    <2>3. CASE ~ (r <= t) /\ r = BlockSize
        BY <1>1, <1>2, <1>3, <2>1, <2>3
    <2>4. CASE ~ (r <= t) /\ r # BlockSize
        BY <1>1, <1>2, <1>3, <2>1, <2>4
    <2> QED
        BY <2>2, <2>3, <2>4
<1> QED
    BY <1>4, <1>5

LEMMA UnreadBytes ==
  ASSUME RingTyped, NEW b \in Streams!Used
  PROVE  Streams!Unread(b) = {Byte(b, j) : j \in Offsets(b)}
<1> PICK at : at = Streams!Avail(b).at
    OBVIOUS
<1> PICK n : n = Streams!Avail(b).len
    OBVIOUS
<1> PICK m : m = Streams!Avail(b).second
    OBVIOUS
<1>1. at \in Nat /\ n \in Nat /\ m \in Nat /\ n + m = Size(b) /\ \A j \in Offsets(b) : Cell(b, j) = IF j < n THEN at + j ELSE j - n
    BY AvailCells
<1>2. Streams!Unread(b) = {blocks[b].cells[i] : i \in at..(at + n - 1)} \cup {blocks[b].cells[i] : i \in 0..(m - 1)}
    BY DEF Streams!Unread
<1>3. ASSUME NEW i \in at..(at + n - 1) PROVE \E j \in Offsets(b) : blocks[b].cells[i] = Byte(b, j)
    <2>1. i - at \in Offsets(b) /\ i - at < n /\ at + (i - at) = i
        BY <1>1 DEF Offsets
    <2>2. Cell(b, i - at) = i
        BY <1>1, <2>1
    <2> QED
        BY <2>1, <2>2 DEF Byte
<1>4. ASSUME NEW i \in 0..(m - 1) PROVE \E j \in Offsets(b) : blocks[b].cells[i] = Byte(b, j)
    <2>1. n + i \in Offsets(b) /\ ~ (n + i < n) /\ (n + i) - n = i
        BY <1>1 DEF Offsets
    <2>2. Cell(b, n + i) = i
        BY <1>1, <2>1
    <2> QED
        BY <2>1, <2>2 DEF Byte
<1>5. ASSUME NEW j \in Offsets(b) PROVE Cell(b, j) \in at..(at + n - 1) \/ Cell(b, j) \in 0..(m - 1)
    <2>1. j \in Nat /\ j < n + m
        BY <1>1 DEF Offsets
    <2>2. CASE j < n
        BY <1>1, <2>1, <2>2
    <2>3. CASE ~ (j < n)
        BY <1>1, <2>1, <2>3
    <2> QED
        BY <2>2, <2>3
<1> DEFINE A == {blocks[b].cells[i] : i \in at..(at + n - 1)}
           B == {blocks[b].cells[i] : i \in 0..(m - 1)}
           C == {Byte(b, j) : j \in Offsets(b)}
<1>6. \A v \in A : v \in C
    BY <1>3
<1>7. \A v \in B : v \in C
    BY <1>4
<1>8. \A v \in C : v \in A \/ v \in B
    BY <1>5 DEF Byte
<1> HIDE DEF A, B, C
<1>9. A \cup B = C
    BY <1>6, <1>7, <1>8
<1> QED
    BY <1>2, <1>9 DEF A, B, C

LEMMA SameCardinality == \A S : Streams!Cardinality(S) = Cardinality(S)
BY DEF Streams!Cardinality, Cardinality

\* There are as many as the block's size.
LEMMA UnreadCounted ==
  ASSUME RingTyped, Kept, NEW b \in Streams!Used
  PROVE  Streams!Cardinality(Streams!Unread(b)) = Size(b)
<1> DEFINE T == Streams!Unread(b)
           F == [k \in 1..Size(b) |-> Byte(b, k - 1)]
<1>0. Size(b) \in Nat /\ \A k \in 1..Size(b) : k - 1 \in Offsets(b)
    <2>1. Size(b) \in Nat
        BY Counts
    <2> QED
        BY <2>1 DEF Offsets
<1>1. T = {Byte(b, j) : j \in Offsets(b)}
    BY UnreadBytes
<1>2. F \in [1..Size(b) -> T]
    BY <1>0, <1>1
<1>3. ASSUME NEW k \in 1..Size(b), NEW l \in 1..Size(b), F[k] = F[l] PROVE k = l
    <2>1. Byte(b, k - 1) = Byte(b, l - 1) /\ k - 1 \in Offsets(b) /\ l - 1 \in Offsets(b)
        BY <1>0, <1>3
    <2>2. k - 1 = l - 1
        BY <2>1, OnceStored
    <2>3. k \in Nat /\ l \in Nat
        BY <1>0
    <2> QED
        BY <2>2, <2>3
<1>4. ASSUME NEW v \in T PROVE \E k \in 1..Size(b) : F[k] = v
    <2>1. PICK j \in Offsets(b) : v = Byte(b, j)
        BY <1>1
    <2>2. j + 1 \in 1..Size(b) /\ (j + 1) - 1 = j
        BY <1>0 DEF Offsets
    <2>3. F[j + 1] = v
        BY <2>1, <2>2
    <2> QED
        BY <2>2, <2>3
<1> HIDE DEF F, T
<1>5. F \in Bijection(1..Size(b), T)
    BY <1>2, <1>3, <1>4, Fun_IsBij
<1>6. ExistsBijection(1..Size(b), T)
    BY <1>5 DEF ExistsBijection
<1>7. Cardinality(T) = Size(b)
    BY <1>0, <1>6, FS_CountingElements
<1> QED
    BY <1>7, SameCardinality DEF T

\* A sequence whose elements are in a set is one over it.
LEMMA SeqOver ==
  ASSUME NEW S, NEW T, NEW s \in Seq(T), \A p \in DOMAIN s : s[p] \in S
  PROVE  s \in Seq(S)
<1>1. Len(s) \in Nat /\ DOMAIN s = 1..Len(s) /\ s \in [1..Len(s) -> T]
    BY LenProperties, SeqDef
<1>2. s \in [1..Len(s) -> S]
    BY <1>1
<1> QED
    BY <1>1, <1>2, SeqDef

LEMMA BytesTyped == ASSUME StreamInv PROVE Streams!TypeOK
<1>1. RingTyped /\ HandsTyped /\ Kept
    BY DEF StreamInv
<1>2. made \in 0..MaxBytes
    <2>1. filler.left \in Nat /\ made \in Nat /\ made + filler.left <= MaxBytes
        BY <1>1 DEF HandsTyped, RingTyped
    <2> QED
        BY <2>1, RingSizes
<1>3. taken \in Seq(1..MaxBytes)
    <2> PICK S : S = 1..MaxBytes
        OBVIOUS
    <2>1. \A p \in DOMAIN taken : taken[p] \in 1..made
        BY <1>1 DEF Kept
    <2>2. \A p \in DOMAIN taken : taken[p] \in S
        BY <1>2, <2>1, RingSizes
    <2>3. taken \in Seq(Nat)
        BY <1>1 DEF RingTyped
    <2>4. taken \in Seq(S)
        BY <2>2, <2>3, SeqOver
    <2> QED
        BY <2>4
<1> QED
    BY <1>1, <1>2, <1>3, RingSizes DEF RingTyped, Streams!TypeOK, RingBlock, Streams!Used

LEMMA BytesKept == ASSUME StreamInv PROVE Streams!NoneLost
<1>1. RingTyped /\ Kept
    BY DEF StreamInv
<1>2. Streams!IsInjective(taken)
    BY <1>1 DEF Kept, Streams!IsInjective
<1>3. Streams!Range(taken) = {taken[p] : p \in DOMAIN taken}
    BY DEF Streams!Range
<1>4. ASSUME NEW b \in Streams!Used PROVE Streams!Unread(b) \cap Streams!Range(taken) = {} /\ Streams!Cardinality(Streams!Unread(b)) = Streams!DataSize(b)
    <2>1. \A p \in DOMAIN taken, i \in Offsets(b) : taken[p] # Byte(b, i)
        BY <1>1 DEF Kept
    <2>2. Streams!Unread(b) = {Byte(b, j) : j \in Offsets(b)}
        BY <1>1, UnreadBytes
    <2>3. Streams!Unread(b) \cap Streams!Range(taken) = {}
        BY <1>3, <2>1, <2>2
    <2> QED
        BY <1>1, <2>3, UnreadCounted DEF Size
<1>5. ASSUME NEW b \in Streams!Used, NEW c \in Streams!Used, b # c PROVE Streams!Unread(b) \cap Streams!Unread(c) = {}
    <2>1. Streams!Unread(b) = {Byte(b, j) : j \in Offsets(b)} /\ Streams!Unread(c) = {Byte(c, j) : j \in Offsets(c)}
        BY <1>1, UnreadBytes
    <2>2. \A i \in Offsets(b), j \in Offsets(c) : Byte(b, i) # Byte(c, j)
        BY <1>1, <1>5 DEF Kept
    <2> QED
        BY <2>1, <2>2
<1>6. 1..made = Streams!Range(taken) \cup UNION {Streams!Unread(b) : b \in Streams!Used}
    <2> DEFINE R == Streams!Range(taken)
               U == UNION {Streams!Unread(b) : b \in Streams!Used}
    <2>1. \A m : m \in U <=> \E b \in Streams!Used : \E j \in Offsets(b) : m = Byte(b, j)
        <3>1. \A m : m \in U <=> \E b \in Streams!Used : m \in Streams!Unread(b)
            OBVIOUS
        <3>2. \A b \in Streams!Used : Streams!Unread(b) = {Byte(b, j) : j \in Offsets(b)}
            BY <1>1, UnreadBytes
        <3> HIDE DEF U
        <3> QED
            BY <3>1, <3>2
    <2>2. \A m : m \in R <=> \E p \in DOMAIN taken : taken[p] = m
        BY <1>3
    <2> HIDE DEF R, U
    <2>3. \A m : m \in 1..made => m \in R \/ m \in U
        BY <1>1, <2>1, <2>2, Zenon DEF Kept
    <2>4. \A m : m \in R => m \in 1..made
        <3> SUFFICES ASSUME NEW v, v \in R PROVE v \in 1..made
            OBVIOUS
        <3>1. PICK p \in DOMAIN taken : taken[p] = v
            BY <2>2
        <3> QED
            BY <1>1, <3>1 DEF Kept
    <2>5. \A m : m \in U => m \in 1..made
        <3> SUFFICES ASSUME NEW v, v \in U PROVE v \in 1..made
            OBVIOUS
        <3>1. PICK b \in Streams!Used : \E j \in Offsets(b) : v = Byte(b, j)
            BY <2>1
        <3>2. PICK j \in Offsets(b) : v = Byte(b, j)
            BY <3>1
        <3> QED
            BY <1>1, <3>2 DEF Kept
    <2>6. 1..made = R \cup U
        BY <2>3, <2>4, <2>5, Zenon
    <2> QED
        BY <2>6 DEF R, U
<1> QED
    BY <1>2, <1>4, <1>5, <1>6, BytesTyped DEF Streams!NoneLost

LEMMA BytesFound == ASSUME StreamInv PROVE Streams!TwoBlocksSuffice
<1> SUFFICES ASSUME dir = "in", taker.pc = "idle", taker.left \in 1..(BlockSize - 1), made - Len(taken) >= taker.left
             PROVE  Size(takeBlk) + Behind(takeBlk) >= taker.left
    BY DEF Streams!TwoBlocksSuffice, Size, Behind
<1> PICK t : t = takeBlk
    OBVIOUS
<1> PICK x : x = link[takeBlk]
    OBVIOUS
<1>1. RingTyped /\ Kept /\ TakerInv /\ Ordered /\ t = takeBlk /\ t = Taken /\ t \in Streams!Used /\ x \in Streams!Used /\ fillBlk \in Streams!Used
    <2>1. RingTyped /\ Kept /\ TakerInv /\ Ordered
        BY DEF StreamInv
    <2> QED
        BY <2>1, Ringed DEF Taken
<1>2. /\ Size(t) \in Nat /\ Size(x) \in Nat /\ Size(fillBlk) \in Nat /\ made \in Nat /\ Len(taken) \in Nat /\ BlockSize \in Nat /\ taker.left \in Nat
      /\ First(t) \in Nat /\ First(x) \in Nat /\ First(fillBlk) \in Nat
    <2>1. BlockSize \in Nat /\ taker.left \in Nat
        BY RingSizes
    <2> QED
        BY <1>1, <2>1, Counts, FirstTyped
<1>3. First(t) = Len(taken) + 1 /\ First(fillBlk) + Size(fillBlk) = made + 1
    BY <1>1 DEF Ordered
<1>4. Behind(takeBlk) = IF x = t THEN 0 ELSE Size(x)
    BY <1>1 DEF Behind
<1>5. CASE t = fillBlk
    <2>1. Size(t) = made - Len(taken)
        BY <1>2, <1>3, <1>5
    <2> QED
        BY <1>1, <1>2, <1>4, <2>1
<1>6. CASE t # fillBlk
    <2>1. x # t /\ x \in Active /\ First(x) = First(t) + Size(t)
        <3>1. t \in Active \ {fillBlk}
            BY <1>1, <1>6 DEF Active
        <3>2. link[t] \in Active \ {t} /\ First(link[t]) = First(t) + Size(t)
            BY <1>1, <3>1 DEF Ordered
        <3> QED
            BY <1>1, <3>2
    <2>2. CASE x = fillBlk
        <3>1. Size(t) + Size(x) = made - Len(taken)
            BY <1>2, <1>3, <2>1, <2>2, SMTT(60)
        <3> QED
            BY <1>1, <1>2, <1>4, <2>1, <3>1
    <2>3. CASE x # fillBlk
        <3>1. Size(x) >= BlockSize - 1
            BY <1>1, <2>1, <2>3 DEF Ordered
        <3> QED
            BY <1>1, <1>2, <1>4, <2>1, <3>1
    <2> QED
        BY <2>2, <2>3
<1> QED
    BY <1>5, <1>6

\* The rings are sound wherever their invariant holds.
LEMMA BytesSound == ASSUME StreamInv
                    PROVE  Streams!TypeOK /\ Streams!NoneLost /\ Streams!ReceivedInOrder /\ Streams!NeverShort /\ Streams!TwoBlocksSuffice
<1>1. Streams!ReceivedInOrder
    BY DEF StreamInv, Ordered, Streams!ReceivedInOrder, Streams!InOrder
<1>2. Streams!NeverShort
    BY TakerHands DEF TakerPcs, Streams!NeverShort
<1> QED
    BY <1>1, <1>2, BytesTyped, BytesKept, BytesFound

\* Of any ring, however large its blocks and however many, and whatever is sent and read, in either
\* direction: no byte is lost or taken twice, those that arrive are read in their order, no read comes
\* short, and a package that has come is found (CDataHandler::readData, write,
\* CConnectManager::readFromConnect, writeToConnect).
THEOREM StreamsAreSound == PartsSpec => []StreamSound
<1> DEFINE I == part = "streams" => StreamInv
<1>1. PartsInit => I
    BY BytesStart DEF PartsInit
<1>2. I /\ [PartsNext]_partVars => I'
    <2> SUFFICES ASSUME I, [PartsNext]_partVars PROVE I'
        OBVIOUS
    <2> SUFFICES ASSUME part' = "streams" PROVE StreamInv'
        OBVIOUS
    <2>1. CASE UNCHANGED partVars
        <3>1. part' = part /\ UNCHANGED streamVars
            BY <2>1 DEF partVars
        <3> QED
            BY <3>1, BytesRest
    <2>2. CASE Alone("streams") /\ Streams!Next
        BY <2>2, BytesStep DEF Alone
    <2>3. ASSUME NEW p, p # "streams", Alone(p) PROVE FALSE
        BY <2>3 DEF Alone
    <2> QED
        BY <2>1, <2>2, <2>3 DEF PartsNext
<1>3. I => StreamSound
    BY BytesSound DEF StreamSound
<1> QED
    BY <1>1, <1>2, <1>3, PTL DEF PartsSpec
===================================================================================
