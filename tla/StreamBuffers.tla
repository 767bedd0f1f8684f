----------------------------- MODULE StreamBuffers -----------------------------
(***************************************************************************)
(* The bytes of a connection between its socket and the thread that        *)
(* handles its data.  They lie in blocks, each a CSingleW_SingleR_Buffer,  *)
(* linked to a ring that one thread fills and the other empties without a  *)
(* lock.  There is one such ring per direction:                            *)
(*   "in"   the connection thread fills it (readFromConnect), the user     *)
(*          takes headers and bodies of packages (CDataHandler::readData); *)
(*   "out"  the user fills it (CDataHandler::write), unless it is empty    *)
(*          and the socket takes the bytes at once, and the connection     *)
(*          thread empties it (writeToConnect).                            *)
(* The byte before a block says whether the taker stands in it; the filler *)
(* enters no such block.  Bytes are numbered in the order of the stream.   *)
(* One action per access to what the other thread changes; a copy and the  *)
(* commit of its index are one action, which loses nothing: a cell filled  *)
(* too early would be taken wrong in some other order of the two copies.   *)
(***************************************************************************)
EXTENDS Naturals, SequencesExt

CONSTANTS BlockSize,    \* buffSize
          MaxBlocks,    \* bound on the blocks of a ring
          MaxBytes,     \* bound on the bytes of the stream
          Lens,         \* of the reads of headers and bodies ("in") and of the messages ("out")
          Dirs          \* the directions considered

SizeAssumption == BlockSize \in Nat \ {0, 1} /\ MaxBlocks \in Nat \ {0} /\ MaxBytes \in Nat
LensAssumption == Lens \subseteq Nat \ {0}
DirsAssumption == Dirs \subseteq {"in", "out"}

Blocks == 1..MaxBlocks
None == 0
Cells == 0..(BlockSize - 1)

VARIABLES dir,          \* the direction; never changes
          blocks,       \* the blocks in use
          link,         \* their "next"
          fillBlk,      \* readBuff, writeBuff: the block being filled
          takeBlk,      \* curReadIdx, curWriteIdx: the block being emptied
          filler, taker,
          made,         \* how many bytes have been put into the ring or into the socket directly
          taken         \* the bytes that have left it, in that order

ring == <<blocks, link, fillBlk, takeBlk>>
vars == <<dir, ring, filler, taker, made, taken>>

Used == DOMAIN blocks
Lesser(i, j) == IF i < j THEN i ELSE j
-----------------------------------------------------------------------------
(* One block.                                                              *)

NewBlock == [rd |-> 0, wt |-> 0, flag |-> TRUE, cells |-> [i \in Cells |-> 0]]
Region(at, len, second, split) == [at |-> at, len |-> len, second |-> second, split |-> split]
NoRegion == Region(0, 0, 0, FALSE)

\* MUTANT of Room: keeps no cell free when it has wrapped.
RoomTight(b) ==
  LET r == blocks[b].rd
      t == blocks[b].wt IN
  IF t < r THEN Region(t, r - t, 0, FALSE)
  ELSE IF t = BlockSize /\ r > 0 THEN Region(0, r, 0, FALSE)
  ELSE Region(t, BlockSize - t, r, r > 0)

\* MUTANT of Room: never goes on at the head of the block.
RoomTail(b) ==
  LET r == blocks[b].rd
      t == blocks[b].wt IN
  IF t < r THEN Region(t, r - t - 1, 0, FALSE) ELSE Region(t, BlockSize - t, 0, FALSE)

\* beginWriteBuff: the cells that may be filled, in one piece or two.
Room(b) ==
  LET r == blocks[b].rd
      t == blocks[b].wt IN
  IF t < r THEN Region(t, r - t - 1, 0, FALSE)
  ELSE IF t = BlockSize /\ r > 0 THEN Region(0, r - 1, 0, FALSE)
  ELSE Region(t, BlockSize - t, IF r > 0 THEN r - 1 ELSE 0, r > 0)

\* beginReadBuff: the cells that may be emptied.
Avail(b) ==
  LET r == blocks[b].rd
      t == blocks[b].wt IN
  IF r <= t THEN Region(r, t - r, 0, FALSE)
  ELSE IF r = BlockSize THEN Region(0, t, 0, FALSE)
  ELSE Region(r, BlockSize - r, t, TRUE)

DataSize(b) == IF blocks[b].rd <= blocks[b].wt THEN blocks[b].wt - blocks[b].rd
               ELSE BlockSize - blocks[b].rd + blocks[b].wt
Empty(b) == blocks[b].rd = blocks[b].wt

\* Copy the next n bytes of the stream to the cells from at, and commit them.
Fill(b, at, n) ==
  /\ blocks' = [blocks EXCEPT ![b].wt = at + n,
                              ![b].cells = [i \in Cells |-> IF i \in at..(at + n - 1) THEN made + 1 + i - at ELSE @[i]]]
  /\ made' = made + n

\* Copy n bytes out of the cells from at, and give the cells free.
Take(b, at, n) ==
  /\ taken' = taken \o [k \in 1..n |-> blocks[b].cells[at + k - 1]]
  /\ blocks' = [blocks EXCEPT ![b].rd = at + n]
-----------------------------------------------------------------------------
(* The filler.                                                             *)

FillerKeeps == UNCHANGED <<dir, takeBlk, taker, taken>>
FillerAt(pc) == filler' = [filler EXCEPT !.pc = pc]

\* There is something to read from the socket.
Arrive ==
  /\ dir = "in" /\ filler.pc = "idle"
  /\ FillerAt("begin")
  /\ FillerKeeps /\ UNCHANGED <<blocks, link, fillBlk, made>>

\* The user writes a message; as for its continuations, the first question is whether any bytes wait.
Send(len) ==
  /\ dir = "out" /\ filler.pc = "idle" /\ made + len <= MaxBytes
  /\ filler' = [filler EXCEPT !.pc = "test", !.left = len]
  /\ FillerKeeps /\ UNCHANGED <<blocks, link, fillBlk, made>>

\* getCanWriteDataSize loads curWriteIdx, then the sizes of that block and the one behind it.
Test ==
  /\ filler.pc = "test"
  /\ filler' = [filler EXCEPT !.pc = "size", !.cur = takeBlk]
  /\ FillerKeeps /\ UNCHANGED <<blocks, link, fillBlk, made>>

Backlog(b) == b # None /\ ~(DataSize(b) = 0 /\ DataSize(link[b]) = 0)
TestSize ==
  /\ filler.pc = "size"
  /\ FillerAt(IF Backlog(filler.cur) THEN "begin" ELSE "direct")
  /\ FillerKeeps /\ UNCHANGED <<blocks, link, fillBlk, made>>

\* Nothing waits: the socket takes what it can.
Direct ==
  /\ filler.pc = "direct"
  /\ \E n \in 0..filler.left :
       /\ taken' = taken \o [k \in 1..n |-> made + k]
       /\ made' = made + n
       /\ filler' = [filler EXCEPT !.pc = IF n = filler.left THEN "idle" ELSE "begin", !.left = @ - n]
  /\ UNCHANGED <<dir, ring, taker>>

\* The first message to stay behind creates the ring.
Create ==
  /\ filler.pc = "begin" /\ fillBlk = None
  /\ blocks' = <<NewBlock>> /\ link' = <<1>> /\ fillBlk' = 1 /\ takeBlk' = 1
  /\ UNCHANGED <<dir, filler, taker, made, taken>>

\* getFreeSize, which write() asks before, is 0: a cell is kept free also where Room keeps none.
NoFreeSize(b) == DataSize(b) >= BlockSize - 1

BeginFill ==
  /\ filler.pc = "begin" /\ fillBlk # None
  /\ LET room == Room(fillBlk)
         full == room.len = 0 \/ (dir = "out" /\ NoFreeSize(fillBlk))
     IN filler' = [filler EXCEPT !.pc = IF full THEN "next" ELSE "first", !.room = room]
  /\ FillerKeeps /\ UNCHANGED <<blocks, link, fillBlk, made>>

\* Where readFromConnect goes when it got n bytes of the len it had asked for.
AfterRead(n, len, full) == FillerAt(IF n < len THEN "idle" ELSE full)
\* Where write goes with n bytes more written.
AfterWrite(n, full) ==
  filler' = [filler EXCEPT !.left = @ - n, !.pc = IF n = filler.left THEN "idle" ELSE full]

FillFirst ==
  /\ filler.pc = "first"
  /\ LET room == filler.room IN
     \/ /\ dir = "in"
        /\ \E n \in 0..Lesser(room.len, MaxBytes - made) :
             /\ IF n = 0 THEN UNCHANGED <<blocks, made>> ELSE Fill(fillBlk, room.at, n)
             /\ AfterRead(n, room.len, IF room.split THEN "second" ELSE "begin")
     \/ /\ dir = "out"
        /\ LET n == Lesser(room.len, filler.left) IN
             /\ Fill(fillBlk, room.at, n)
             /\ AfterWrite(n, IF room.second > 0 THEN "second" ELSE "next")
  /\ FillerKeeps /\ UNCHANGED <<link, fillBlk>>

\* With a second piece of no cells ::read returns 0, as at the end of the stream, and what
\* follows depends on an errno some earlier call has left.
FillSecond ==
  /\ filler.pc = "second"
  /\ LET room == filler.room IN
     \/ /\ dir = "in" /\ room.second > 0
        /\ \E n \in 0..Lesser(room.second, MaxBytes - made) :
             /\ IF n = 0 THEN UNCHANGED <<blocks, made>> ELSE Fill(fillBlk, 0, n)
             /\ AfterRead(n, room.second, "begin")
     \/ /\ dir = "in" /\ room.second = 0
        /\ \E pc \in {"idle", "begin", "closed"} : FillerAt(pc)
        /\ UNCHANGED <<blocks, made>>
     \/ /\ dir = "out"
        /\ LET n == Lesser(room.second, filler.left) IN
             Fill(fillBlk, 0, n) /\ AfterWrite(n, "next")
  /\ FillerKeeps /\ UNCHANGED <<link, fillBlk>>

\* MUTANT of NextBlock: goes on to the next block although the taker may stand in it.
NextBlockUnmarked ==
  /\ filler.pc = "next"
  /\ LET nx == link[fillBlk] IN
     IF nx # fillBlk /\ Empty(nx)
       THEN fillBlk' = nx /\ UNCHANGED <<blocks, link>>
       ELSE /\ Len(blocks) < MaxBlocks
            /\ blocks' = Append(blocks, NewBlock)
            /\ link' = Append([link EXCEPT ![fillBlk] = Len(blocks) + 1], nx)
            /\ fillBlk' = Len(blocks) + 1
  /\ FillerAt(IF dir = "in" THEN "begin" ELSE "test")
  /\ FillerKeeps /\ UNCHANGED made

\* The block is full: the next one if it is empty and the taker isn't in it, or a new one.
NextBlock ==
  /\ filler.pc = "next"
  /\ LET nx == link[fillBlk] IN
     IF nx # fillBlk /\ Empty(nx) /\ ~blocks[nx].flag
       THEN fillBlk' = nx /\ UNCHANGED <<blocks, link>>
       ELSE /\ Len(blocks) < MaxBlocks
            /\ blocks' = Append(blocks, NewBlock)
            /\ link' = Append([link EXCEPT ![fillBlk] = Len(blocks) + 1], nx)
            /\ fillBlk' = Len(blocks) + 1
  /\ FillerAt(IF dir = "in" THEN "begin" ELSE "test")
  /\ FillerKeeps /\ UNCHANGED made

Filling == Arrive \/ Test \/ TestSize \/ Direct \/ Create \/ BeginFill \/ FillFirst \/ FillSecond \/ NextBlock
-----------------------------------------------------------------------------
(* The taker.                                                              *)

TakerKeeps == UNCHANGED <<dir, link, fillBlk, filler, made>>
TakerAt(pc) == taker' = [taker EXCEPT !.pc = pc]

\* The user wants the header or the body of a package, and goes on wanting it until it has come.
Want(len) ==
  /\ dir = "in" /\ taker.pc = "idle" /\ taker.left \in {0, len}
  /\ taker' = [taker EXCEPT !.pc = "sum", !.left = len]
  /\ TakerKeeps /\ UNCHANGED <<blocks, takeBlk, taken>>

\* getCanReadDataSize: the size of the current block, then that of the next.
Sum ==
  /\ taker.pc = "sum"
  /\ taker' = [taker EXCEPT !.pc = "sumNext", !.sum = DataSize(takeBlk)]
  /\ TakerKeeps /\ UNCHANGED <<blocks, takeBlk, taken>>

SumNext ==
  /\ taker.pc = "sumNext"
  /\ LET nx == link[takeBlk]
         sum == taker.sum + (IF nx = takeBlk THEN 0 ELSE DataSize(nx)) IN
       taker' = [taker EXCEPT !.pc = IF sum >= taker.left THEN "begin" ELSE "idle", !.sum = 0]
  /\ TakerKeeps /\ UNCHANGED <<blocks, takeBlk, taken>>

\* EPOLLOUT, or a sweep: send what waits.
Flush ==
  /\ dir = "out" /\ taker.pc = "idle" /\ takeBlk # None
  /\ TakerAt("begin")
  /\ TakerKeeps /\ UNCHANGED <<blocks, takeBlk, taken>>

BeginTake ==
  /\ taker.pc = "begin"
  /\ LET room == Avail(takeBlk) IN
       taker' = [taker EXCEPT !.pc = IF room.len = 0 THEN "switch" ELSE "first", !.room = room]
  /\ TakerKeeps /\ UNCHANGED <<blocks, takeBlk, taken>>

\* read takes what it wants of the piece, writeToConnect what the socket does.
TakePiece(at, len, full) ==
  \/ /\ dir = "in"
     /\ LET n == Lesser(len, taker.left) IN
          /\ Take(takeBlk, at, n)
          /\ taker' = [taker EXCEPT !.left = @ - n, !.pc = IF n = taker.left THEN "idle" ELSE full]
  \/ /\ dir = "out"
     /\ \E n \in 0..len :
          /\ IF n = 0 THEN UNCHANGED <<blocks, taken>> ELSE Take(takeBlk, at, n)
          /\ TakerAt(IF n < len THEN "idle" ELSE full)

Rest == IF dir = "in" THEN "switch" ELSE "begin"
TakeFirst ==
  /\ taker.pc = "first"
  /\ TakePiece(taker.room.at, taker.room.len, IF taker.room.second > 0 THEN "second" ELSE Rest)
  /\ TakerKeeps /\ UNCHANGED takeBlk

TakeSecond ==
  /\ taker.pc = "second"
  /\ TakePiece(0, taker.room.second, Rest)
  /\ TakerKeeps /\ UNCHANGED takeBlk

\* MUTANT of Switch: one block is all it takes from.
SwitchNot ==
  /\ taker.pc = "switch"
  /\ TakerAt(IF dir = "in" THEN "short" ELSE "idle")
  /\ TakerKeeps /\ UNCHANGED <<blocks, takeBlk, taken>>

\* The block is used up: mark the next one if there is anything in it, and leave this one.
Switch ==
  /\ taker.pc = "switch"
  /\ LET nx == link[takeBlk] IN
     IF nx # takeBlk /\ ~Empty(nx)
       THEN /\ blocks' = [blocks EXCEPT ![nx].flag = TRUE, ![takeBlk].flag = FALSE]
            /\ taker' = [taker EXCEPT !.pc = "enter", !.next = nx]
       ELSE TakerAt(IF dir = "in" THEN "short" ELSE "idle") /\ UNCHANGED blocks
  /\ TakerKeeps /\ UNCHANGED <<takeBlk, taken>>

Enter ==
  /\ taker.pc = "enter"
  /\ takeBlk' = taker.next
  /\ taker' = [taker EXCEPT !.pc = "begin", !.next = None]
  /\ TakerKeeps /\ UNCHANGED <<blocks, taken>>

Taking == Sum \/ SumNext \/ Flush \/ BeginTake \/ TakeFirst \/ TakeSecond \/ Switch \/ Enter
-----------------------------------------------------------------------------
\* A connection has a block to read into from the start (createConnect), and none to write to.
Init ==
  /\ dir \in Dirs
  /\ blocks = IF dir = "in" THEN <<NewBlock>> ELSE <<>>
  /\ link = IF dir = "in" THEN <<1>> ELSE <<>>
  /\ fillBlk = IF dir = "in" THEN 1 ELSE None
  /\ takeBlk = fillBlk
  /\ filler = [pc |-> "idle", room |-> NoRegion, left |-> 0, cur |-> None]
  /\ taker = [pc |-> "idle", room |-> NoRegion, left |-> 0, sum |-> 0, next |-> None]
  /\ made = 0 /\ taken = <<>>

Next == Filling \/ Taking \/ \E len \in Lens : Send(len) \/ Want(len)

Spec == Init /\ [][Next]_vars
-----------------------------------------------------------------------------
TypeOK ==
  /\ dir \in Dirs
  /\ Len(blocks) <= MaxBlocks
  /\ blocks \in Seq([rd : 0..BlockSize, wt : 0..BlockSize, flag : BOOLEAN, cells : [Cells -> 0..MaxBytes]])
  /\ link \in [Used -> Used]
  /\ fillBlk \in Used \union {None} /\ takeBlk \in Used \union {None}
  /\ made \in 0..MaxBytes /\ taken \in Seq(1..MaxBytes)

\* The numbers of the unread bytes of a block.
Unread(b) ==
  LET a == Avail(b) IN
  {blocks[b].cells[i] : i \in a.at..(a.at + a.len - 1)} \union {blocks[b].cells[i] : i \in 0..(a.second - 1)}

\* No byte is lost, doubled or overwritten before it is taken, in either direction: each one
\* put into the ring has been taken once, or lies unread in one block.
NoneLost ==
  /\ TypeOK
  /\ IsInjective(taken)
  /\ \A b \in Used : Unread(b) \cap Range(taken) = {} /\ Cardinality(Unread(b)) = DataSize(b)
  /\ \A b, c \in Used : b # c => Unread(b) \cap Unread(c) = {}
  /\ 1..made = Range(taken) \union UNION {Unread(b) : b \in Used}

\* What arrives is handed to the user in the order of the stream, across the ends of blocks
\* and from block to block.
InOrder(d) == dir = d => \A k \in DOMAIN taken : taken[k] = k
ReceivedInOrder == InOrder("in")

\* A read comes as long as the size test has promised, although the connection thread goes
\* on filling, and changing blocks, between the two: a short read closes the connection.
NeverShort == taker.pc # "short"

\* A package that has arrived is found by looking at two blocks, if it isn't longer than what
\* a full block holds: otherwise it, and all behind it, would wait for ever.
TwoBlocksSuffice ==
  dir = "in" /\ taker.pc = "idle" /\ taker.left \in 1..(BlockSize - 1) /\ made - Len(taken) >= taker.left
    => DataSize(takeBlk) + (IF link[takeBlk] = takeBlk THEN 0 ELSE DataSize(link[takeBlk])) >= taker.left

\* "下一块buff必须为空才能往里写数据，否则会导致读线程读的数据不连续而出现错误"
\* (CDataHandler.cpp:193): the tests of NextBlock keep the taker's bytes in order.
SentInOrder == InOrder("out")

\* "nRead == 0 的情况对端关闭连接" (CConnectManager.cpp:1019): a read returns nothing only at
\* the end of the stream, which never comes here.  Does not hold: README, part 5.
ClosedByPeerOnly == filler.pc # "closed"
=============================================================================
