----------------------------- MODULE MessageQueue -----------------------------
(***************************************************************************)
(* CMessageQueue: packages of any length in a ring of bytes that lies in   *)
(* shared memory, between one writer process and one reader process and    *)
(* without a lock.  The two share the bytes and the indices write and      *)
(* read; one action per access to what the other side reads.  A package is *)
(* a header and a body in consecutive cells; one that doesn't fit before   *)
(* the end of the ring starts at cell 0.                                   *)
(***************************************************************************)
EXTENDS Naturals, Sequences

CONSTANTS Size,         (* PkgQueue.size, in cells                          *)
          HeaderSize,   (* PkgHeaderSize, in cells                          *)
          Lens,         (* the body lengths in use                          *)
          IdCount,      (* bound: bodies are numbered modulo IdCount        *)
          Nothing       (* nothing has been read yet                        *)

ASSUME SizeAssumption == Size \in Nat /\ HeaderSize \in Nat \ {0}
ASSUME LensAssumption == Lens \subseteq Nat \ {0}
ASSUME IdCountAssumption == IdCount \in Nat \ {0}

Ids == 0 .. IdCount - 1
Header(l) == [kind |-> "user", n |-> l]       \* USER_DATA and the length
BuffEnd == [kind |-> "end", n |-> 0]          \* BUFF_END, the length isn't looked at
Body(i) == [kind |-> "body", n |-> i]         \* one cell of body i
Footprint(at, l) == at .. at + HeaderSize + l - 1
BodyCells(at, l) == at + HeaderSize .. at + HeaderSize + l - 1
Bodies == {{Body(i)} : i \in Ids}

ASSUME NothingAssumption == Nothing \notin Bodies

VARIABLES cells,      (* the bytes of the ring                              *)
          write,      (* PkgQueue.write                                     *)
          read,       (* PkgQueue.read                                      *)
          wpc,        (* where the writer is                                *)
          curWrite,   (* the cell the writer's package starts at            *)
          wLen,       (* the length of its body                             *)
          nextId,     (* the number of its body                             *)
          rpc,        (* where the reader is                                *)
          seenWrite,  (* the write index the reader loaded                  *)
          curRead,    (* the cell the reader's package starts at            *)
          rLen,       (* the length found in its header                     *)
          got,        (* the cells copied out of its body                   *)
          pkgs,       (* history: what is published and unread, oldest first *)
          returned    (* the body the last complete read handed out         *)

writer == <<wpc, curWrite, wLen, nextId>>
reader == <<rpc, seenWrite, curRead, rLen, got, returned>>
vars == <<cells, write, read, writer, reader, pkgs>>
-------------------------------------------------------------------------------
(* write(), or beginWriteBuff() and endWriteBuff() *)

\* without the cell kept free
PlacesTight(need) ==
  IF write < read THEN {at \in {write} : read - write >= need}
  ELSE IF Size - write >= need THEN {write}
  ELSE {at \in {0} : read >= need}

\* a package may not end where the ring ends
PlacesRoomToSpare(need) ==
  IF write < read THEN {at \in {write} : read - write > need}
  ELSE IF Size - write > need THEN {write}
  ELSE {at \in {0} : read > need}

\* the space before read isn't compared with the package
PlacesWrapUnchecked(need) ==
  IF write < read THEN {at \in {write} : read - write > need}
  ELSE IF Size - write >= need THEN {write} ELSE {0}

\* adjustWriteIdx: where a package of need cells goes, if anywhere; write never catches
\* up with read from behind
Places(need) ==
  IF write < read THEN {at \in {write} : read - write > need}
  ELSE IF Size - write >= need THEN {write}
  ELSE {at \in {0} : read > need}

\* read is loaded and a place found (readyWrite stops after this and MarkEnd)
BeginWrite(l) ==
  /\ wpc = "idle"
  /\ \E at \in Places(HeaderSize + l) :
       /\ curWrite' = at
       /\ wpc' = IF at # write /\ Size - write >= HeaderSize THEN "mark" ELSE "fill"
  /\ wLen' = l
  /\ UNCHANGED <<cells, write, read, nextId, reader, pkgs>>

\* BUFF_END isn't stored
MarkEndNot ==
  /\ wpc = "mark" /\ wpc' = "fill"
  /\ UNCHANGED <<cells, write, read, curWrite, wLen, nextId, reader, pkgs>>

\* BUFF_END goes where the header of the next package would have been
MarkEnd ==
  /\ wpc = "mark" /\ wpc' = "fill"
  /\ cells' = [cells EXCEPT ![write] = BuffEnd]
  /\ UNCHANGED <<write, read, curWrite, wLen, nextId, reader, pkgs>>

\* header and body, in either order
Fill ==
  /\ wpc = "fill" /\ wpc' = "publish"
  /\ cells' = [i \in DOMAIN cells |->
                 IF i = curWrite THEN Header(wLen)
                 ELSE IF i \in Footprint(curWrite, wLen) THEN Body(nextId) ELSE cells[i]]
  /\ UNCHANGED <<write, read, curWrite, wLen, nextId, reader, pkgs>>

\* the caller of beginWriteBuff gives up (or only asked readyWrite)
Abandon ==
  /\ wpc \in {"fill", "publish"} /\ wpc' = "idle"
  /\ UNCHANGED <<cells, write, read, curWrite, wLen, nextId, reader, pkgs>>

\* the package exists for the reader from here on
Publish ==
  /\ wpc = "publish" /\ wpc' = "idle"
  /\ write' = curWrite + HeaderSize + wLen
  /\ pkgs' = Append(pkgs, [at |-> curWrite, len |-> wLen, id |-> nextId])
  /\ nextId' = (nextId + 1) % IdCount
  /\ UNCHANGED <<cells, read, curWrite, wLen, reader>>
-------------------------------------------------------------------------------
(* read(), or beginReadBuff() and endReadBuff() *)

\* an end mark is taken for a header
HeadsNoEndMark ==
  IF seenWrite < read /\ Size - read < HeaderSize THEN {at \in {0} : seenWrite >= HeaderSize} ELSE {read}

\* adjustReadIdx, once write is loaded: where the oldest package starts, if there is one
Heads ==
  IF seenWrite < read /\ (Size - read < HeaderSize \/ cells[read] = BuffEnd)
  THEN {at \in {0} : seenWrite >= HeaderSize}
  ELSE {read}

\* only data ahead of the read point is noticed
BeginReadAhead ==
  /\ rpc = "idle" /\ write > read
  /\ seenWrite' = write /\ rpc' = "parse"
  /\ UNCHANGED <<cells, write, read, writer, curRead, rLen, got, returned, pkgs>>

\* read = write: PkgQueueEmpty; otherwise go on with the write that was loaded
BeginRead ==
  /\ rpc = "idle" /\ write # read
  /\ seenWrite' = write /\ rpc' = "parse"
  /\ UNCHANGED <<cells, write, read, writer, curRead, rLen, got, returned, pkgs>>

\* ReadPkgConflict: fewer cells than a header between the indices
Conflict == seenWrite > read /\ seenWrite - read < HeaderSize

\* the header is read; the caller may find that its buffer is too small
Parse ==
  /\ rpc = "parse"
  /\ IF Conflict \/ Heads = {}
     THEN rpc' = "idle" /\ UNCHANGED <<curRead, rLen>>
     ELSE \E at \in Heads : /\ curRead' = at /\ rLen' = cells[at].n
                            /\ rpc' \in {"copy", "idle"}    \* idle: ReadPkgBuffSmall
  /\ UNCHANGED <<cells, write, read, writer, seenWrite, got, returned, pkgs>>

\* memcpy of the body out of the ring
Copy ==
  /\ rpc = "copy" /\ rpc' = "release"
  /\ got' = {cells[i] : i \in BodyCells(curRead, rLen)}
  /\ UNCHANGED <<cells, write, read, writer, seenWrite, curRead, rLen, returned, pkgs>>

\* the index moves on and the package's cells belong to the writer again
Release ==
  /\ rpc = "release" /\ rpc' = "idle"
  /\ read' = curRead + HeaderSize + rLen
  /\ returned' = got
  /\ pkgs' = Tail(pkgs)
  /\ UNCHANGED <<cells, write, writer, seenWrite, curRead, rLen, got>>
-------------------------------------------------------------------------------
Init ==
  /\ cells = [i \in 0 .. Size - 1 |-> [kind |-> "user", n |-> 0]]   \* zeroed memory
  /\ write = 0 /\ read = 0
  /\ wpc = "idle" /\ curWrite = 0 /\ wLen = 0 /\ nextId = 0
  /\ rpc = "idle" /\ seenWrite = 0 /\ curRead = 0 /\ rLen = 0 /\ got = {}
  /\ pkgs = <<>> /\ returned = Nothing

Writing == MarkEnd \/ Fill \/ Publish
Reading == BeginRead \/ Parse \/ Copy \/ Release
Next == (\E l \in Lens : BeginWrite(l)) \/ Writing \/ Abandon \/ Reading

Spec == Init /\ [][Next]_vars

\* Both sides finish the call they are in, the reader calls again and again, and it
\* doesn't for ever bring a buffer that is too small (beginReadBuff needs none).
FairSpec == /\ Spec /\ WF_vars(Reading)
            /\ SF_vars(Parse /\ rpc' = "copy")
-------------------------------------------------------------------------------
TypeOK ==
  /\ cells \in [0 .. Size - 1 -> [kind : {"user", "end", "body"}, n : Nat]]
  /\ write \in 0 .. Size /\ read \in 0 .. Size
  /\ wpc \in {"idle", "mark", "fill", "publish"} /\ rpc \in {"idle", "parse", "copy", "release"}
  /\ curWrite \in 0 .. Size /\ curRead \in 0 .. Size /\ seenWrite \in 0 .. Size
  /\ wLen \in Nat /\ rLen \in Nat /\ nextId \in Ids
  /\ got \in SUBSET [kind : {"user", "end", "body"}, n : Nat]
  /\ pkgs \in Seq([at : 0 .. Size, len : Lens, id : Ids])

\* The one cell kept free makes equal indices unambiguous: the ring looks empty exactly
\* when nothing published is unread, and never because it is full.
EmptyMeansEmpty == TypeOK /\ (write = read <=> pkgs = <<>>)

\* The cells the writer is filling belong to no package the reader may still be copying,
\* and the package ends where the ring ends at the latest.
NoOverwrite ==
  wpc \in {"fill", "publish"} =>
    /\ curWrite + HeaderSize + wLen <= Size
    /\ \A k \in DOMAIN pkgs : Footprint(curWrite, wLen) \cap Footprint(pkgs[k].at, pkgs[k].len) = {}

\* What the reader copies is the oldest package, whole: its header is found wherever the
\* ring was wrapped, and no cell of its body has been touched since it was published.  The
\* error case of adjustReadIdx, "数据冲突错误了" (CMessageQueue.cpp:247), doesn't exist.
ReadsWhole ==
  /\ rpc = "parse" => ~Conflict
  /\ rpc \in {"copy", "release"} =>
       /\ pkgs # <<>> /\ curRead = Head(pkgs).at /\ rLen = Head(pkgs).len
       /\ \A i \in BodyCells(curRead, rLen) : cells[i] = Body(Head(pkgs).id)

\* A drained ring takes every package of at most half its size, wherever its indices
\* stand.  (A longer one may be refused for ever: the place before and the place behind
\* the indices are not joined.)
AcceptsWhenDrained ==
  write = read => \A l \in Lens : 2 * (HeaderSize + l) <= Size => Places(HeaderSize + l) # {}

\* All of the above, of the indices and the cells of one ring (CMessageQueue::adjustWriteIdx,
\* adjustReadIdx, write, read).
RingSound == EmptyMeansEmpty /\ NoOverwrite /\ ReadsWhole /\ AcceptsWhenDrained

\* A published package is eventually handed out.
Delivered ==
  \A i \in Ids : (\E k \in DOMAIN pkgs : pkgs[k].id = i) ~> (returned = {Body(i)})

\* The ring is a bounded FIFO of bodies; a put takes effect when write moves, a get when
\* read moves.
Fifo == INSTANCE BoundedFifo
          WITH Items <- Bodies, Capacity <- Size,
               queue <- [k \in DOMAIN pkgs |-> {Body(pkgs[k].id)}]
ImplementsFifo == Fifo!Spec
===============================================================================
