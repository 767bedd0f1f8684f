-------------------------- MODULE MessageQueue_proofs --------------------------
(***************************************************************************)
(* CMessageQueue is sound for any size of the ring, of the header and of   *)
(* the bodies: RingInv says where the packages lie, what the indices mean  *)
(* while each side is in the middle of a call, and how many packages there *)
(* can be; RingSound and the refinement of BoundedFifo follow from it.     *)
(***************************************************************************)
EXTENDS MessageQueue, SequenceTheorems, TLAPS

\* The cell behind a package; the place where package k is looked for, which is where the
\* one before it ends; packages below the read index have been wrapped around.
End(p) == p.at + HeaderSize + p.len
From(k) == IF k = 1 THEN read ELSE End(pkgs[k - 1])
Low(k) == pkgs[k].at < read

\* No package begins at cell e: there is an end mark, or no room for one.
Gap(e) == Size - e < HeaderSize \/ cells[e] = BuffEnd

\* Each package lies in the occupied part of the ring.
Placed ==
  \A k \in 1 .. Len(pkgs) :
    IF write < read THEN (read <= pkgs[k].at /\ End(pkgs[k]) <= Size) \/ End(pkgs[k]) <= write
    ELSE read <= pkgs[k].at /\ End(pkgs[k]) <= write

\* Packages lie in their order, around the end of the ring once, and between two of
\* them there is a cell at least for each one that is in between.
Spaced ==
  /\ \A j, k \in 1 .. Len(pkgs) : j < k =>
       IF Low(j) <=> Low(k) THEN End(pkgs[j]) + (k - j - 1) <= pkgs[k].at
       ELSE Low(k) /\ k - j - 1 <= (Size - End(pkgs[j])) + pkgs[k].at
  /\ \A k \in 1 .. Len(pkgs) :
       IF Low(k) THEN k - 1 <= (Size - read) + pkgs[k].at ELSE read + (k - 1) <= pkgs[k].at

\* A package begins where the one before it ends, or at the head of the ring behind a gap;
\* the last one ends at the write index.
Chained ==
  /\ \A k \in 1 .. Len(pkgs) :
       pkgs[k].at = From(k) \/ (pkgs[k].at = 0 /\ Low(k) /\ Gap(From(k)))
  /\ write = From(Len(pkgs) + 1)

\* The cells of a package that has been filled.
Whole(at, l, id) == cells[at] = Header(l) /\ \A i \in BodyCells(at, l) : cells[i] = Body(id)
Filled == \A k \in 1 .. Len(pkgs) : Whole(pkgs[k].at, pkgs[k].len, pkgs[k].id)

\* The writer's place is free, whatever the reader has released since it was chosen.
Wraps == curWrite = 0 /\ read <= write /\ HeaderSize + wLen < read
Fits == /\ curWrite = write /\ write + HeaderSize + wLen <= Size
        /\ write < read => write + HeaderSize + wLen < read
WriterReady ==
  /\ wpc # "idle" => wLen \in Lens /\ (Fits \/ Wraps)
  /\ wpc = "mark" => Wraps /\ Size - write >= HeaderSize
  /\ wpc \in {"fill", "publish"} => Fits \/ Gap(write)
  /\ wpc = "publish" => Whole(curWrite, wLen, nextId)

\* The reader's package is the oldest one, also when the write index has moved on since.
ReaderReady ==
  /\ rpc # "idle" => pkgs # <<>>
  /\ rpc = "parse" => /\ seenWrite # read
                      /\ seenWrite > read => pkgs[1].at = read
                      /\ seenWrite > read \/ pkgs[1].at # read => seenWrite >= End(pkgs[1])
  /\ rpc \in {"copy", "release"} => curRead = pkgs[1].at /\ rLen = pkgs[1].len
  /\ rpc = "release" => got = {Body(pkgs[1].id)}

RingInv == TypeOK /\ Placed /\ Spaced /\ Chained /\ Filled /\ WriterReady /\ ReaderReady
-------------------------------------------------------------------------------
\* The numbers that the invariant speaks of are numbers.
LEMMA Numbers ==
  ASSUME TypeOK
  PROVE  /\ Size \in Nat /\ HeaderSize \in Nat /\ HeaderSize > 0
         /\ write \in Nat /\ write <= Size /\ read \in Nat /\ read <= Size
         /\ curWrite \in Nat /\ wLen \in Nat /\ seenWrite \in Nat
         /\ Len(pkgs) \in Nat /\ DOMAIN pkgs = 1 .. Len(pkgs)
         /\ \A k \in 1 .. Len(pkgs) :
              /\ pkgs[k] \in [at : 0 .. Size, len : Lens, id : Ids]
              /\ pkgs[k].at \in Nat /\ pkgs[k].len \in Nat /\ pkgs[k].len > 0 /\ pkgs[k].id \in Nat
              /\ End(pkgs[k]) \in Nat /\ End(pkgs[k]) > pkgs[k].at + 1
<1>1. /\ Size \in Nat /\ HeaderSize \in Nat /\ HeaderSize > 0
      /\ write \in Nat /\ write <= Size /\ read \in Nat /\ read <= Size
      /\ curWrite \in Nat /\ wLen \in Nat /\ seenWrite \in Nat
    BY SizeAssumption DEF TypeOK
<1>2. pkgs \in Seq([at : 0 .. Size, len : Lens, id : Ids])
    BY DEF TypeOK
<1>3. Len(pkgs) \in Nat /\ DOMAIN pkgs = 1 .. Len(pkgs)
    BY <1>2, LenProperties
<1>4. ASSUME NEW k \in 1 .. Len(pkgs)
      PROVE  /\ pkgs[k] \in [at : 0 .. Size, len : Lens, id : Ids]
             /\ pkgs[k].at \in Nat /\ pkgs[k].len \in Nat /\ pkgs[k].len > 0 /\ pkgs[k].id \in Nat
             /\ End(pkgs[k]) \in Nat /\ End(pkgs[k]) > pkgs[k].at + 1
    <2>1. pkgs[k] \in [at : 0 .. Size, len : Lens, id : Ids]
        BY <1>2, ElementOfSeq
    <2>2. pkgs[k].at \in 0 .. Size /\ pkgs[k].len \in Lens /\ pkgs[k].id \in Ids
        BY <2>1
    <2>3. pkgs[k].at \in Nat /\ pkgs[k].id \in Nat
        BY <1>1, <2>2, IdCountAssumption DEF Ids
    <2>4. pkgs[k].len \in Nat \ {0}
        BY <2>2, LensAssumption, Zenon
    <2> QED
        BY SMTT(60), <1>1, <2>1, <2>3, <2>4 DEF End
<1> QED
    BY <1>1, <1>3, <1>4

\* A package that begins below the read index begins behind the wrap, and then the
\* write index is behind it, too.
LEMMA LowIsWrapped ==
  ASSUME TypeOK, Placed, NEW k \in 1 .. Len(pkgs), Low(k)
  PROVE  write < read /\ End(pkgs[k]) <= write
BY Numbers DEF Placed, Low

\* What lies in the ring: nothing, or a package that makes the indices differ.
LEMMA IndicesTell == TypeOK /\ Placed /\ Chained => (write = read <=> pkgs = <<>>)
<1> SUFFICES ASSUME TypeOK, Placed, Chained PROVE write = read <=> pkgs = <<>>
    OBVIOUS
<1>1. pkgs = <<>> <=> Len(pkgs) = 0
    BY EmptySeq DEF TypeOK
<1>2. CASE Len(pkgs) = 0
    BY <1>1, <1>2 DEF Chained, From
<1>3. CASE Len(pkgs) # 0
    <2>1. 1 \in 1 .. Len(pkgs)
        BY <1>3, Numbers
    <2> QED
        BY <1>1, <1>3, <2>1, Numbers DEF Placed
<1> QED
    BY <1>2, <1>3

\* The place the writer fills touches no package.
LEMMA PlaceIsFree ==
  ASSUME TypeOK, Placed, Fits \/ Wraps
  PROVE  /\ curWrite + HeaderSize + wLen <= Size
         /\ \A k \in 1 .. Len(pkgs) : \A i \in Footprint(pkgs[k].at, pkgs[k].len) :
              i \in 0 .. Size - 1 /\ i \notin Footprint(curWrite, wLen)
<1>1. curWrite + HeaderSize + wLen <= Size
    BY Numbers DEF Fits, Wraps
<1>2. ASSUME NEW k \in 1 .. Len(pkgs)
      PROVE  /\ End(pkgs[k]) <= Size
             /\ End(pkgs[k]) <= curWrite \/ curWrite + HeaderSize + wLen <= pkgs[k].at
    BY SMTT(60), Numbers DEF Placed, Fits, Wraps
<1>3. ASSUME NEW k \in 1 .. Len(pkgs), NEW i \in Footprint(pkgs[k].at, pkgs[k].len)
      PROVE  i \in 0 .. Size - 1 /\ i \notin Footprint(curWrite, wLen)
    <2>1. i \in Nat /\ pkgs[k].at <= i /\ i < End(pkgs[k])
        BY SMTT(60), Numbers DEF Footprint, End
    <2>2. End(pkgs[k]) \in Nat /\ pkgs[k].at \in Nat
        BY Numbers
    <2>3. /\ Size \in Nat /\ HeaderSize \in Nat /\ curWrite \in Nat /\ wLen \in Nat
          /\ End(pkgs[k]) <= Size
          /\ End(pkgs[k]) <= curWrite \/ curWrite + HeaderSize + wLen <= pkgs[k].at
        BY <1>2, Numbers
    <2> QED
        BY <2>1, <2>2, <2>3 DEF Footprint
<1> QED
    BY <1>1, <1>3

\* Where a package behind a gap was looked for is above the read index.
LEMMA GapsAreAbove ==
  ASSUME TypeOK, Placed, Spaced, NEW k \in 1 .. Len(pkgs), Low(k), pkgs[k].at = 0
  PROVE  write < read /\ From(k) \in Nat /\ read <= From(k)
<1>1. CASE k = 1
    BY <1>1, LowIsWrapped, Numbers DEF From
<1>2. CASE k # 1
    <2>1. k - 1 \in 1 .. Len(pkgs) /\ k - 1 < k /\ k - (k - 1) - 1 = 0
        BY SMTT(60), <1>2, Numbers
    <2>2. End(pkgs[k - 1]) \in Nat /\ End(pkgs[k - 1]) > pkgs[k - 1].at + 1 /\ pkgs[k - 1].at \in Nat
        BY <2>1, Numbers
    <2>3. ~Low(k - 1)
        BY SMTT(60), <2>1, <2>2 DEF Spaced
    <2> QED
        BY SMTT(60), <1>2, <2>1, <2>2, <2>3, LowIsWrapped, Numbers DEF From, Low
<1> QED
    BY <1>1, <1>2

\* Cells that are written outside all packages leave what is filled as it was.
LEMMA FilledStays ==
  ASSUME TypeOK, Filled, UNCHANGED pkgs,
         \A k \in 1 .. Len(pkgs) : \A i \in Footprint(pkgs[k].at, pkgs[k].len) : cells'[i] = cells[i]
  PROVE  Filled'
<1> SUFFICES ASSUME NEW k \in 1 .. Len(pkgs)
             PROVE  Whole(pkgs[k].at, pkgs[k].len, pkgs[k].id)'
    BY DEF Filled
<1>1. /\ pkgs[k].at \in Footprint(pkgs[k].at, pkgs[k].len)
      /\ BodyCells(pkgs[k].at, pkgs[k].len) \subseteq Footprint(pkgs[k].at, pkgs[k].len)
    BY SMTT(60), Numbers DEF Footprint, BodyCells
<1> QED
    BY <1>1 DEF Filled, Whole

\* Behind a gap nothing is written, so that it stays one.
LEMMA ChainStays ==
  ASSUME TypeOK, Chained, UNCHANGED <<pkgs, read, write>>,
         \A k \in 1 .. Len(pkgs) : Low(k) /\ pkgs[k].at = 0 /\ Gap(From(k)) => Gap(From(k))'
  PROVE  Chained'
BY DEF Chained, From, Low, End
-------------------------------------------------------------------------------
\* The ring starts empty.
LEMMA InitRing == Init => RingInv
<1> SUFFICES ASSUME Init PROVE RingInv
    OBVIOUS
<1> USE SizeAssumption, IdCountAssumption DEF Init
<1>1. Len(pkgs) = 0 /\ pkgs \in Seq([at : 0 .. Size, len : Lens, id : Ids])
    BY EmptySeq
<1>2. TypeOK
    BY <1>1 DEF TypeOK, Ids
<1>3. Placed /\ Spaced /\ Chained /\ Filled
    BY <1>1 DEF Placed, Spaced, Chained, Filled, From
<1> QED
    BY <1>2, <1>3 DEF RingInv, WriterReady, ReaderReady

\* A place is chosen.
LEMMA BeginWriteRing ==
  ASSUME RingInv, NEW l \in Lens, BeginWrite(l)
  PROVE  RingInv'
<1> USE DEF RingInv
<1>1. PICK at \in Places(HeaderSize + l) :
          /\ curWrite' = at /\ wLen' = l
          /\ wpc' = IF at # write /\ Size - write >= HeaderSize THEN "mark" ELSE "fill"
    BY DEF BeginWrite
<1>2. l \in Nat /\ l > 0
    BY LensAssumption
<1>3. UNCHANGED <<cells, write, read, nextId, reader, pkgs>>
    BY DEF BeginWrite
<1>4. at \in 0 .. Size
    BY Numbers DEF Places
<1>5. TypeOK'
    BY <1>1, <1>2, <1>3, <1>4 DEF TypeOK, reader
<1>6. (Fits \/ Wraps)' /\ (wpc' = "mark" => Wraps') /\ (at # write => Wraps') /\ (at = write => Fits')
    BY <1>1, <1>2, <1>3, Numbers DEF Places, Fits, Wraps
<1>7. WriterReady'
    BY <1>1, <1>3, <1>6, Numbers DEF WriterReady, Gap
<1>8. Placed' /\ Spaced' /\ Chained' /\ Filled' /\ ReaderReady'
    BY <1>3 DEF Placed, Spaced, Chained, Filled, ReaderReady, reader, Low, From, End, Gap, Whole
<1> QED
    BY <1>5, <1>7, <1>8

\* The end mark lies behind all packages; there is room for it.
LEMMA MarkEndRing == RingInv /\ MarkEnd => RingInv'
<1> SUFFICES ASSUME RingInv, MarkEnd PROVE RingInv'
    OBVIOUS
<1> USE DEF RingInv
<1>1. /\ UNCHANGED <<write, read, curWrite, wLen, nextId, reader, pkgs>>
      /\ wpc = "mark" /\ wpc' = "fill" /\ cells' = [cells EXCEPT ![write] = BuffEnd]
    BY DEF MarkEnd
<1>2. Wraps /\ Size - write >= HeaderSize
    BY <1>1 DEF WriterReady
<1>3. write \in 0 .. Size - 1 /\ cells'[write] = BuffEnd /\ read <= write
    BY <1>1, <1>2, Numbers DEF TypeOK, Wraps
<1>4. cells' \in [0 .. Size - 1 -> [kind : {"user", "end", "body"}, n : Nat]]
    BY <1>1 DEF TypeOK, BuffEnd
<1>5. TypeOK'
    BY <1>1, <1>4 DEF TypeOK, reader
<1>6. Filled'
    <2>1. ASSUME NEW k \in 1 .. Len(pkgs), NEW i \in Footprint(pkgs[k].at, pkgs[k].len)
          PROVE  i # write
        BY SMTT(60), <1>3, Numbers DEF Placed, Footprint, End
    <2> QED
        BY <1>1, <2>1, FilledStays
<1>7. Chained'
    BY <1>1, <1>3, LowIsWrapped, Numbers, ChainStays
<1>8. WriterReady'
    BY <1>1, <1>2, <1>3, Numbers DEF WriterReady, Wraps, Fits, Gap
<1>9. Placed' /\ Spaced' /\ ReaderReady'
    BY <1>1 DEF Placed, Spaced, ReaderReady, reader, Low, End
<1> QED
    BY <1>5, <1>6, <1>7, <1>8, <1>9

\* The package is written where no other lies, and in front of no gap that is in use.
LEMMA FillRing == RingInv /\ Fill => RingInv'
<1> SUFFICES ASSUME RingInv, Fill PROVE RingInv'
    OBVIOUS
<1> USE DEF RingInv
<1> DEFINE New(i) == IF i = curWrite THEN Header(wLen)
                     ELSE IF i \in Footprint(curWrite, wLen) THEN Body(nextId) ELSE cells[i]
<1>1. /\ UNCHANGED <<write, read, curWrite, wLen, nextId, reader, pkgs>>
      /\ wpc = "fill" /\ wpc' = "publish" /\ cells' = [i \in DOMAIN cells |-> New(i)]
    BY DEF Fill
<1>2. wLen \in Lens /\ (Fits \/ Wraps) /\ (Fits \/ Gap(write))
    BY <1>1 DEF WriterReady
<1>3. DOMAIN cells = 0 .. Size - 1
    BY DEF TypeOK
<1>4. cells' \in [0 .. Size - 1 -> [kind : {"user", "end", "body"}, n : Nat]]
    <2>1. Header(wLen) \in [kind : {"user", "end", "body"}, n : Nat]
        BY Numbers DEF Header
    <2>2. nextId \in Nat
        BY IdCountAssumption DEF TypeOK, Ids
    <2>3. Body(nextId) \in [kind : {"user", "end", "body"}, n : Nat]
        BY <2>2 DEF Body
    <2>4. \A i \in 0 .. Size - 1 : New(i) \in [kind : {"user", "end", "body"}, n : Nat]
        BY <2>1, <2>3 DEF TypeOK
    <2> HIDE DEF New
    <2> QED
        BY <1>1, <1>3, <2>4
<1>5. TypeOK'
    BY <1>1, <1>4 DEF TypeOK, reader
<1>6. wLen \in Nat /\ wLen > 0 /\ curWrite + HeaderSize + wLen <= Size
    BY <1>2, LensAssumption, Numbers DEF Fits, Wraps
<1>7. \A i \in 0 .. Size - 1 : i \notin Footprint(curWrite, wLen) => cells'[i] = cells[i]
    BY <1>1, <1>3, <1>6, Numbers DEF Footprint
<1>8. Filled'
    BY <1>1, <1>2, <1>7, PlaceIsFree, FilledStays
<1>9. Whole(curWrite, wLen, nextId)'
    <2>1. curWrite \in 0 .. Size - 1
        BY <1>6, Numbers
    <2>2. BodyCells(curWrite, wLen) \subseteq Footprint(curWrite, wLen) \cap 0 .. Size - 1
        BY <1>6, Numbers DEF BodyCells, Footprint
    <2>3. curWrite \notin BodyCells(curWrite, wLen)
        BY <1>6, Numbers DEF BodyCells
    <2> QED
        BY <1>1, <1>3, <2>1, <2>2, <2>3 DEF Whole
<1>10. Chained'
    <2>1. ASSUME NEW k \in 1 .. Len(pkgs), Low(k), pkgs[k].at = 0, Gap(From(k))
          PROVE  Gap(From(k))'
        <3>1. write < read /\ From(k) \in Nat /\ read <= From(k)
            BY <2>1, GapsAreAbove
        <3>3. From(k) \notin Footprint(curWrite, wLen)
            BY SMTT(60), <1>2, <3>1, Numbers DEF Fits, Wraps, Footprint
        <3>4. From(k)' = From(k)
            BY <1>1 DEF From, End
        <3>5. Size - From(k) < HeaderSize \/ From(k) \in 0 .. Size - 1
            BY <3>1, Numbers
        <3> QED
            BY <1>7, <2>1, <3>3, <3>4, <3>5 DEF Gap
    <2> QED
        BY <1>1, <2>1, ChainStays
<1>11. WriterReady'
    <2>1. Gap(write) /\ Wraps => Gap(write)'
        <3>1. SUFFICES ASSUME Gap(write), Wraps PROVE Gap(write)'
            OBVIOUS
        <3>2. write \notin Footprint(curWrite, wLen)
            BY <3>1, Numbers DEF Wraps, Footprint
        <3>3. Size - write < HeaderSize \/ write \in 0 .. Size - 1
            BY Numbers
        <3> QED
            BY <1>1, <1>7, <3>1, <3>2, <3>3 DEF Gap
    <2> QED
        BY <1>1, <1>2, <1>9, <2>1 DEF WriterReady, Wraps, Fits
<1>12. Placed' /\ Spaced' /\ ReaderReady'
    BY <1>1 DEF Placed, Spaced, ReaderReady, reader, Low, End
<1> QED
    BY <1>5, <1>8, <1>10, <1>11, <1>12

\* A writer that gives up leaves its place as it is.
LEMMA AbandonRing == RingInv /\ Abandon => RingInv'
<1> SUFFICES ASSUME RingInv, Abandon PROVE RingInv'
    OBVIOUS
<1>1. /\ UNCHANGED <<cells, write, read, curWrite, wLen, nextId, reader, pkgs>> /\ wpc' = "idle"
    BY DEF Abandon
<1> QED
    BY <1>1 DEF RingInv, TypeOK, Placed, Spaced, Chained, Filled, WriterReady, ReaderReady, reader,
                Low, From, End, Gap, Whole

\* The package becomes the last one.
LEMMA PublishRing == RingInv /\ Publish => RingInv'
<1> SUFFICES ASSUME RingInv, Publish PROVE RingInv'
    OBVIOUS
<1> USE DEF RingInv
<1> DEFINE p == [at |-> curWrite, len |-> wLen, id |-> nextId]
<1>0. /\ Size \in Nat /\ HeaderSize \in Nat /\ write \in Nat /\ write <= Size
      /\ read \in Nat /\ read <= Size /\ curWrite \in Nat
    BY Numbers
<1> PICK n \in Nat : n = Len(pkgs)
    BY Numbers
<1>1. /\ UNCHANGED <<cells, read, curWrite, wLen, reader>> /\ wpc = "publish" /\ wpc' = "idle"
      /\ write' = curWrite + HeaderSize + wLen /\ pkgs' = Append(pkgs, p)
      /\ nextId' = (nextId + 1) % IdCount
    BY DEF Publish
<1>2. /\ wLen \in Lens /\ (Fits \/ Wraps) /\ (Fits \/ Gap(write)) /\ Whole(curWrite, wLen, nextId)
    BY <1>1 DEF WriterReady
<1>3. wLen \in Nat /\ wLen > 0 /\ write' \in Nat /\ write' <= Size /\ write' = End(p)
    BY <1>1, <1>2, LensAssumption, Numbers DEF Fits, Wraps, End
<1>4. /\ pkgs' \in Seq([at : 0 .. Size, len : Lens, id : Ids]) /\ pkgs' # <<>>
      /\ Len(pkgs') = n + 1 /\ pkgs'[n + 1] = p
      /\ \A k \in 1 .. n : pkgs'[k] = pkgs[k]
    <2>1. p \in [at : 0 .. Size, len : Lens, id : Ids]
        BY <1>2 DEF TypeOK
    <2> QED
        BY SMTT(60), <1>1, <2>1, AppendProperties DEF TypeOK
<1> HIDE DEF p
<1>5. p.at = curWrite /\ p.len = wLen /\ p.id = nextId
    BY DEF p
<1>6. TypeOK'
    <2>1. nextId' \in Ids
        BY <1>1, IdCountAssumption DEF TypeOK, Ids
    <2> QED
        BY <1>1, <1>3, <1>4, <2>1 DEF TypeOK, reader
<1>7. n \in Nat /\ \A k \in 1 .. n + 1 : k \in 1 .. n \/ k = n + 1
    BY Numbers
<1>8. Placed'
    <2>1. ASSUME NEW k \in 1 .. n
          PROVE  IF write' < read THEN (read <= pkgs[k].at /\ End(pkgs[k]) <= Size) \/ End(pkgs[k]) <= write'
                 ELSE read <= pkgs[k].at /\ End(pkgs[k]) <= write'
        <3>1. End(pkgs[k]) \in Nat /\ pkgs[k].at \in Nat
            BY Numbers
        <3>2. IF write < read THEN (read <= pkgs[k].at /\ End(pkgs[k]) <= Size) \/ End(pkgs[k]) <= write
              ELSE read <= pkgs[k].at /\ End(pkgs[k]) <= write
            BY DEF Placed
        <3> QED
            BY SMTT(60), <1>1, <1>2, <1>3, <3>1, <3>2, <1>0 DEF Fits, Wraps
    <2>2. write' < read \/ read <= p.at
        BY <1>1, <1>2, <1>3, <1>5, Numbers DEF Fits, Wraps
    <2> QED
        BY <1>1, <1>3, <1>4, <1>7, <2>1, <2>2 DEF Placed, End
<1>9. Chained'
    <2>1. \A k \in 1 .. n + 1 : From(k)' = From(k)
        BY <1>1, <1>4, <1>7, Numbers DEF From, End
    <2>2. \A k \in 1 .. n : Low(k)' = Low(k)
        BY <1>1, <1>4 DEF Low
    <2>3. Wraps => curWrite = 0 /\ Low(n + 1)'
        BY <1>1, <1>3, <1>4, <1>5, Numbers DEF Low, Wraps
    <2>4. \A k \in 1 .. n + 1 : Gap(From(k))' = Gap(From(k))
        BY <1>1, <2>1 DEF Gap
    <2>5. From(n + 2)' = End(p)
        BY <1>4, <1>7 DEF From, End
    <2> QED
        BY <1>2, <1>3, <1>4, <1>5, <1>7, <2>1, <2>2, <2>3, <2>4, <2>5 DEF Chained, Fits
<1>10. Spaced'
    <2>1. \A k \in 1 .. n : Low(k)' = Low(k)
        BY <1>1, <1>4 DEF Low
    <2>2. ASSUME NEW j \in 1 .. n
          PROVE  IF Low(j) <=> p.at < read THEN End(pkgs[j]) + (n - j) <= p.at
                 ELSE p.at < read /\ n - j <= (Size - End(pkgs[j])) + p.at
        <3>0. n \in 1 .. Len(pkgs) /\ n > 0
            OBVIOUS
        <3>1. /\ End(pkgs[j]) \in Nat /\ End(pkgs[n]) \in Nat /\ pkgs[j].at \in Nat /\ pkgs[n].at \in Nat
              /\ pkgs[n].at + 1 < End(pkgs[n]) /\ n > 0
            BY <3>0, Numbers
        <3>2. write = End(pkgs[n])
            BY <3>1 DEF Chained, From
        <3>3. j < n => IF Low(j) <=> Low(n) THEN End(pkgs[j]) + (n - j - 1) <= pkgs[n].at
                       ELSE Low(n) /\ n - j - 1 <= (Size - End(pkgs[j])) + pkgs[n].at
            BY <3>1 DEF Spaced
        <3>4. IF write < read THEN (read <= pkgs[n].at /\ End(pkgs[n]) <= Size) \/ End(pkgs[n]) <= write
              ELSE read <= pkgs[n].at /\ End(pkgs[n]) <= write
            BY <3>1 DEF Placed
        <3>5. write < read <=> Low(n)
            BY <3>1, <3>2, <3>4, <1>0 DEF Low
        <3>6. write < read \/ ~Low(j)
            BY LowIsWrapped
        <3>7. CASE Fits
            <4>1. p.at = End(pkgs[n]) /\ (p.at < read <=> Low(n))
                BY <1>5, <3>2, <3>5, <3>7 DEF Fits
            <4>2. CASE j = n
                BY <3>1, <4>1, <4>2
            <4>3. CASE j < n
                BY SMTT(60), <1>0, <3>1, <3>3, <4>1, <4>3
            <4> QED
                BY <4>2, <4>3
        <3>8. CASE Wraps
            BY SMTT(60), <1>3, <1>5, <3>1, <3>2, <3>3, <3>5, <3>6, <3>8, <1>0 DEF Wraps
        <3> QED
            BY <1>2, <3>7, <3>8
    <2>3. IF p.at < read THEN n <= (Size - read) + p.at ELSE read + n <= p.at
        <3>1. CASE n = 0
            BY <1>2, <1>5, <3>1, Numbers DEF Fits, Wraps, Chained, From
        <3>2. CASE n > 0
            <4>1. /\ End(pkgs[n]) \in Nat /\ pkgs[n].at \in Nat /\ pkgs[n].at + 1 < End(pkgs[n])
                BY SMTT(60), <3>2, Numbers
            <4>2. write = End(pkgs[n])
                BY <3>2 DEF Chained, From
            <4>3. IF Low(n) THEN n - 1 <= (Size - read) + pkgs[n].at ELSE read + (n - 1) <= pkgs[n].at
                BY <3>2 DEF Spaced
            <4>4. Low(n) => write < read
                BY <3>2, LowIsWrapped
            <4> QED
                <5>1. CASE Fits
                    <6>1. p.at = write
                        BY <1>5, <5>1 DEF Fits
                    <6> QED
                        BY <1>0, <3>2, <4>1, <4>2, <4>3, <4>4, <6>1
                <5>2. CASE Wraps
                    <6>1. p.at = 0 /\ p.at < read /\ read <= write
                        BY <1>0, <1>3, <1>5, <5>2 DEF Wraps
                    <6> QED
                        BY <1>0, <3>2, <4>1, <4>2, <4>3, <4>4, <6>1
                <5> QED
                    BY <1>2, <5>1, <5>2
        <3> QED
            BY <3>1, <3>2
    <2>4. ASSUME NEW j \in 1 .. n + 1, NEW k \in 1 .. n + 1, j < k
          PROVE  IF Low(j)' <=> Low(k)' THEN End(pkgs'[j]) + (k - j - 1) <= pkgs'[k].at
                 ELSE Low(k)' /\ k - j - 1 <= (Size - End(pkgs'[j])) + pkgs'[k].at
        <3>1. CASE k \in 1 .. n
            BY SMTT(60), <1>4, <2>1, <2>4, <3>1 DEF Spaced
        <3>2. CASE k = n + 1
            <4>1. j \in 1 .. n /\ k - j - 1 = n - j
                BY <2>4, <3>2
            <4>2. Low(k)' <=> p.at < read
                BY <1>1, <1>4, <3>2 DEF Low
            <4> QED
                BY <1>4, <2>1, <2>2, <3>2, <4>1, <4>2
        <3> QED
            BY <1>7, <3>1, <3>2
    <2>5. ASSUME NEW k \in 1 .. n + 1
          PROVE  IF Low(k)' THEN k - 1 <= (Size - read) + pkgs'[k].at ELSE read + (k - 1) <= pkgs'[k].at
        <3>1. CASE k \in 1 .. n
            BY <1>4, <2>1, <3>1 DEF Spaced
        <3>2. CASE k = n + 1
            BY <1>1, <1>4, <2>3, <3>2 DEF Low
        <3> QED
            BY <1>7, <3>1, <3>2
    <2> QED
        BY <1>1, <1>4, <2>4, <2>5 DEF Spaced, End
<1>11. Filled'
    BY <1>1, <1>2, <1>4, <1>5, <1>7 DEF Filled, Whole
<1>12. ReaderReady'
    <2>1. rpc # "idle" => n >= 1 /\ pkgs'[1] = pkgs[1]
        BY SMTT(60), <1>4, EmptySeq, Numbers DEF ReaderReady, TypeOK
    <2> QED
        BY <1>1, <1>4, <2>1 DEF ReaderReady, reader, End
<1>13. WriterReady'
    BY <1>1 DEF WriterReady
<1> QED
    BY <1>6, <1>8, <1>9, <1>10, <1>11, <1>12, <1>13

\* The reader finds the indices apart: the oldest package is at the read index, or at the
\* head of the ring, and lies below the write index if that is on its side.
LEMMA BeginReadRing == RingInv /\ BeginRead => RingInv'
<1> SUFFICES ASSUME RingInv, BeginRead PROVE RingInv'
    OBVIOUS
<1> USE DEF RingInv
<1>1. /\ UNCHANGED <<cells, write, read, writer, curRead, rLen, got, returned, pkgs>>
      /\ write # read /\ seenWrite' = write /\ rpc' = "parse"
    BY DEF BeginRead
<1>2. pkgs # <<>>
    BY <1>1, IndicesTell
<1>3. 1 \in 1 .. Len(pkgs)
    BY <1>2, EmptySeq DEF TypeOK
<1>4. pkgs[1].at = read \/ (pkgs[1].at = 0 /\ Low(1))
    BY <1>3 DEF Chained, From
<1>5. /\ write > read => pkgs[1].at = read
      /\ write > read \/ pkgs[1].at # read => write >= End(pkgs[1])
    BY <1>3, <1>4, LowIsWrapped, Numbers DEF Placed
<1>6. ReaderReady'
    BY <1>1, <1>2, <1>5 DEF ReaderReady, End
<1>7. TypeOK'
    BY <1>1 DEF TypeOK, writer
<1>8. Placed' /\ Spaced' /\ Chained' /\ Filled' /\ WriterReady'
    BY ZenonT(60), <1>1 DEF Placed, Spaced, Chained, Filled, WriterReady, Wraps, Fits, writer, Low, From, End, Gap, Whole
<1> QED
    BY <1>6, <1>7, <1>8

\* What the reader takes for the oldest package is the oldest package.
LEMMA HeadIsFound ==
  ASSUME RingInv, rpc = "parse"
  PROVE  ~Conflict /\ Heads = {pkgs[1].at} /\ cells[pkgs[1].at].n = pkgs[1].len
<1> USE DEF RingInv
<1>1. 1 \in 1 .. Len(pkgs)
    BY EmptySeq DEF ReaderReady, TypeOK
<1>2. /\ pkgs[1].at \in Nat /\ pkgs[1].len \in Nat /\ pkgs[1].len > 0 /\ End(pkgs[1]) \in Nat
      /\ Size \in Nat /\ HeaderSize \in Nat /\ read \in Nat /\ write \in Nat /\ write <= Size /\ seenWrite \in Nat
      /\ End(pkgs[1]) >= pkgs[1].at + HeaderSize
    <2>1. pkgs[1].at \in Nat /\ pkgs[1].len \in Nat /\ pkgs[1].len > 0 /\ HeaderSize \in Nat
        BY <1>1, Numbers
    <2> QED
        BY SMTT(60), <1>1, <2>1, Numbers DEF End
<1>3. cells[pkgs[1].at] = Header(pkgs[1].len)
    BY <1>1 DEF Filled, Whole
<1>4. /\ seenWrite > read => pkgs[1].at = read
      /\ seenWrite > read \/ pkgs[1].at # read => seenWrite >= End(pkgs[1])
    BY DEF ReaderReady
<1>5. pkgs[1].at = read \/ (pkgs[1].at = 0 /\ Low(1) /\ Gap(read))
    BY <1>1 DEF Chained, From
<1>6. ~Conflict
    BY <1>2, <1>4 DEF Conflict
<1>7. CASE pkgs[1].at = read
    <2>1. End(pkgs[1]) <= Size
        BY <1>1, <1>2 DEF Placed
    <2>2. cells[read] # BuffEnd
        BY <1>3, <1>7 DEF Header, BuffEnd
    <2>3. ~(Size - read < HeaderSize)
        BY <1>2, <1>7, <2>1
    <2> QED
        BY <1>3, <1>6, <1>7, <2>2, <2>3 DEF Heads, Header
<1>8. CASE pkgs[1].at # read
    <2>1. seenWrite < read
        <3>1. read # seenWrite
            BY DEF ReaderReady
        <3> QED
            BY <1>2, <1>4, <1>8, <3>1
    <2>2. seenWrite >= HeaderSize /\ pkgs[1].at = 0
        BY <1>2, <1>4, <1>5, <1>8
    <2> QED
        BY <1>3, <1>5, <1>6, <1>8, <2>1, <2>2 DEF Heads, Header, Gap
<1> QED
    BY <1>7, <1>8

\* The header is looked at, and the package is one, or there is none yet.
LEMMA ParseRing == RingInv /\ Parse => RingInv'
<1> SUFFICES ASSUME RingInv, Parse PROVE RingInv'
    OBVIOUS
<1> USE DEF RingInv
<1>1. /\ UNCHANGED <<cells, write, read, writer, seenWrite, got, returned, pkgs>>
      /\ rpc = "parse" /\ rpc' \in {"copy", "idle"}
      /\ curRead' = pkgs[1].at /\ rLen' = pkgs[1].len
    BY HeadIsFound DEF Parse
<1>2. 1 \in 1 .. Len(pkgs) /\ pkgs # <<>>
    BY <1>1, EmptySeq DEF ReaderReady, TypeOK
<1>3. pkgs[1].at \in 0 .. Size /\ pkgs[1].len \in Nat
    <2>1. pkgs[1] \in [at : 0 .. Size, len : Lens, id : Ids] /\ pkgs[1].len \in Nat
        BY <1>2, Numbers
    <2> QED
        BY <2>1
<1>4. TypeOK'
    BY <1>1, <1>3 DEF TypeOK, writer
<1>5. ReaderReady'
    BY <1>1, <1>2 DEF ReaderReady
<1>6. Placed' /\ Spaced' /\ Chained' /\ Filled' /\ WriterReady'
    BY <1>1 DEF Placed, Spaced, Chained, Filled, WriterReady, Wraps, Fits, writer, Low, From, End, Gap, Whole
<1> QED
    BY <1>4, <1>5, <1>6

\* What is copied is the body of the oldest package, of which there is one cell at least.
LEMMA CopyRing == RingInv /\ Copy => RingInv'
<1> SUFFICES ASSUME RingInv, Copy PROVE RingInv'
    OBVIOUS
<1> USE DEF RingInv
<1>1. /\ UNCHANGED <<cells, write, read, writer, seenWrite, curRead, rLen, returned, pkgs>>
      /\ rpc = "copy" /\ rpc' = "release" /\ got' = {cells[i] : i \in BodyCells(curRead, rLen)}
    BY DEF Copy
<1>2. 1 \in 1 .. Len(pkgs) /\ pkgs # <<>> /\ curRead = pkgs[1].at /\ rLen = pkgs[1].len
    BY <1>1, EmptySeq DEF ReaderReady, TypeOK
<1>3. got' = {Body(pkgs[1].id)}
    <2>1. \A i \in BodyCells(curRead, rLen) : cells[i] = Body(pkgs[1].id)
        BY <1>2 DEF Filled, Whole
    <2>2. pkgs[1].at \in Nat /\ pkgs[1].len \in Nat /\ pkgs[1].len > 0 /\ HeaderSize \in Nat
        BY <1>2, Numbers
    <2>3. curRead + HeaderSize \in BodyCells(curRead, rLen)
        BY <1>2, <2>2 DEF BodyCells
    <2> QED
        BY <1>1, <2>1, <2>3
<1>4. TypeOK'
    <2>1. pkgs[1].id \in Nat
        BY <1>2, Numbers
    <2> QED
        BY <1>1, <1>3, <2>1 DEF TypeOK, writer, Body
<1>5. ReaderReady'
    BY <1>1, <1>2, <1>3 DEF ReaderReady
<1>6. Placed' /\ Spaced' /\ Chained' /\ Filled' /\ WriterReady'
    BY <1>1 DEF Placed, Spaced, Chained, Filled, WriterReady, Wraps, Fits, writer, Low, From, End, Gap, Whole
<1> QED
    BY <1>4, <1>5, <1>6

\* The oldest package leaves, and the next one becomes the oldest.  If it was behind the
\* wrap so are all others, and from now on none is.
LEMMA ReleaseRing == RingInv /\ Release => RingInv'
<1> SUFFICES ASSUME RingInv, Release PROVE RingInv'
    OBVIOUS
<1> USE DEF RingInv
<1>0. /\ Size \in Nat /\ HeaderSize \in Nat /\ write \in Nat /\ write <= Size /\ read \in Nat /\ read <= Size
    BY Numbers
<1>1. /\ UNCHANGED <<cells, write, writer, seenWrite, curRead, rLen, got>>
      /\ rpc = "release" /\ rpc' = "idle" /\ read' = curRead + HeaderSize + rLen
      /\ returned' = got /\ pkgs' = Tail(pkgs)
    BY DEF Release
<1>2. 1 \in 1 .. Len(pkgs) /\ pkgs # <<>> /\ read' = End(pkgs[1])
    BY <1>1, EmptySeq DEF ReaderReady, TypeOK, End
<1> PICK n \in Nat : n = Len(pkgs)
    BY Numbers
<1>3. /\ n > 0 /\ pkgs' \in Seq([at : 0 .. Size, len : Lens, id : Ids]) /\ Len(pkgs') = n - 1
      /\ \A k \in 1 .. n - 1 : pkgs'[k] = pkgs[k + 1] /\ k + 1 \in 1 .. n
    BY <1>1, <1>2, HeadTailProperties DEF TypeOK
<1>4. /\ End(pkgs[1]) \in Nat /\ pkgs[1].at \in Nat /\ End(pkgs[1]) > pkgs[1].at + 1
    BY <1>2, Numbers
<1>5. pkgs[1].at = read \/ (pkgs[1].at = 0 /\ Low(1))
    BY <1>2 DEF Chained, From
<1>6. End(pkgs[1]) <= Size
    BY <1>0, <1>2, <1>4 DEF Placed
<1>7. TypeOK'
    BY <1>1, <1>2, <1>3, <1>4, <1>6 DEF TypeOK, writer
\* where package k is now, seen from the new read index
<1>8. ASSUME NEW k \in 1 .. n - 1
      PROVE  /\ pkgs[k + 1].at \in Nat /\ End(pkgs[k + 1]) \in Nat /\ pkgs[k + 1].at + 1 < End(pkgs[k + 1])
             /\ Low(1) => Low(k + 1) /\ ~Low(k)'
             /\ ~Low(1) => (Low(k)' <=> Low(k + 1))
             /\ IF Low(1) <=> Low(k + 1) THEN End(pkgs[1]) + (k - 1) <= pkgs[k + 1].at
                ELSE Low(k + 1) /\ k - 1 <= (Size - End(pkgs[1])) + pkgs[k + 1].at
    <2>1. k + 1 \in 1 .. n /\ 1 < k + 1 /\ k + 1 - 1 - 1 = k - 1
        OBVIOUS
    <2>2. /\ pkgs[k + 1].at \in Nat /\ End(pkgs[k + 1]) \in Nat /\ pkgs[k + 1].at + 1 < End(pkgs[k + 1])
        BY <2>1, Numbers
    <2>3. IF Low(1) <=> Low(k + 1) THEN End(pkgs[1]) + (k - 1) <= pkgs[k + 1].at
          ELSE Low(k + 1) /\ k - 1 <= (Size - End(pkgs[1])) + pkgs[k + 1].at
        BY <1>2, <2>1 DEF Spaced
    <2>4. Low(k)' <=> pkgs[k + 1].at < End(pkgs[1])
        BY <1>2, <1>3 DEF Low
    <2>5. Low(k + 1) => pkgs[k + 1].at < read
        BY DEF Low
    <2>6. ~Low(1) => read < End(pkgs[1])
        BY <1>4, <1>5
    <2> QED
        BY <1>0, <1>4, <2>2, <2>3, <2>4, <2>5, <2>6
<1>9. Placed'
    <2>1. ASSUME NEW k \in 1 .. n - 1
          PROVE  IF write < End(pkgs[1])
                 THEN (End(pkgs[1]) <= pkgs[k + 1].at /\ End(pkgs[k + 1]) <= Size) \/ End(pkgs[k + 1]) <= write
                 ELSE End(pkgs[1]) <= pkgs[k + 1].at /\ End(pkgs[k + 1]) <= write
        <3>1. IF write < read THEN (read <= pkgs[k + 1].at /\ End(pkgs[k + 1]) <= Size) \/ End(pkgs[k + 1]) <= write
              ELSE read <= pkgs[k + 1].at /\ End(pkgs[k + 1]) <= write
            BY <1>3 DEF Placed
        <3>2. Low(1) => write < read /\ End(pkgs[1]) <= write
            BY <1>2, LowIsWrapped
        <3>3. Low(k + 1) <=> pkgs[k + 1].at < read
            BY DEF Low
        <3>4. CASE Low(1)
            <4>1. Low(k + 1) /\ write < read /\ End(pkgs[1]) <= write
                BY <1>8, <3>2, <3>4
            <4>2. End(pkgs[1]) <= pkgs[k + 1].at
                <5>1. End(pkgs[1]) + (k - 1) <= pkgs[k + 1].at /\ pkgs[k + 1].at \in Nat
                    BY <1>8, <3>4, <4>1
                <5>2. k - 1 \in Nat
                    OBVIOUS
                <5> QED
                    BY <1>4, <5>1, <5>2
            <4>3. End(pkgs[k + 1]) <= write
                <5>1. pkgs[k + 1].at \in Nat /\ pkgs[k + 1].at < read
                    BY <1>8, <3>3, <4>1
                <5> QED
                    BY <1>0, <3>1, <4>1, <5>1
            <4> QED
                BY <1>0, <1>4, <4>1, <4>2, <4>3
        <3>5. CASE ~Low(1)
            <4>1. pkgs[1].at = read /\ read < End(pkgs[1])
                BY <1>4, <1>5, <3>5
            <4>2. CASE Low(k + 1)
                <5>1. write < read /\ End(pkgs[k + 1]) <= write
                    BY <1>0, <1>8, <3>1, <3>3, <4>2
                <5> QED
                    BY <1>0, <1>4, <4>1, <5>1
            <4>3. CASE ~Low(k + 1)
                <5>1. End(pkgs[1]) <= pkgs[k + 1].at
                    BY SMTT(60), <1>4, <1>8, <3>5, <4>3
                <5>2. IF write < read THEN End(pkgs[k + 1]) <= Size ELSE End(pkgs[k + 1]) <= write
                    BY <1>0, <1>4, <1>8, <3>1, <4>1, <5>1
                <5> QED
                    BY <1>0, <1>4, <1>8, <4>1, <5>1, <5>2
            <4> QED
                BY <4>2, <4>3
        <3> QED
            BY <3>4, <3>5
    <2> QED
        BY <1>1, <1>2, <1>3, <2>1 DEF Placed, End
<1>10. Spaced'
    <2>1. ASSUME NEW j \in 1 .. n - 1, NEW k \in 1 .. n - 1, j < k
          PROVE  IF Low(j)' <=> Low(k)' THEN End(pkgs[j + 1]) + (k - j - 1) <= pkgs[k + 1].at
                 ELSE Low(k)' /\ k - j - 1 <= (Size - End(pkgs[j + 1])) + pkgs[k + 1].at
        <3>1. j + 1 \in 1 .. n /\ k + 1 \in 1 .. n /\ j + 1 < k + 1 /\ (k + 1) - (j + 1) - 1 = k - j - 1
            BY <2>1
        <3>2. IF Low(j + 1) <=> Low(k + 1) THEN End(pkgs[j + 1]) + (k - j - 1) <= pkgs[k + 1].at
              ELSE Low(k + 1) /\ k - j - 1 <= (Size - End(pkgs[j + 1])) + pkgs[k + 1].at
            BY <3>1 DEF Spaced
        <3>3. /\ Low(1) => Low(j + 1) /\ Low(k + 1) /\ ~Low(j)' /\ ~Low(k)'
              /\ ~Low(1) => (Low(j)' <=> Low(j + 1)) /\ (Low(k)' <=> Low(k + 1))
            BY <1>8
        <3> QED
            BY <3>2, <3>3
    <2>2. ASSUME NEW k \in 1 .. n - 1
          PROVE  IF Low(k)' THEN k - 1 <= (Size - End(pkgs[1])) + pkgs[k + 1].at
                 ELSE End(pkgs[1]) + (k - 1) <= pkgs[k + 1].at
        BY <1>8
    <2> QED
        BY ZenonT(60), <1>2, <1>3, <2>1, <2>2 DEF Spaced, End
<1>11. Chained'
    <2>1. ASSUME NEW k \in 1 .. n
          PROVE  From(k)' = From(k + 1)
        <3>1. CASE k = 1
            BY <1>2, <3>1 DEF From
        <3>2. CASE k # 1
            <4>1. k - 1 \in 1 .. n - 1 /\ (k - 1) + 1 = k /\ (k + 1) - 1 = k /\ k + 1 # 1
                BY <3>2
            <4>2. pkgs'[k - 1] = pkgs[k]
                BY <1>3, <4>1
            <4> QED
                BY <3>2, <4>1, <4>2 DEF From, End
        <3> QED
            BY <3>1, <3>2
    <2>2. ASSUME NEW k \in 1 .. n - 1
          PROVE  pkgs'[k].at = From(k)' \/ (pkgs'[k].at = 0 /\ Low(k)' /\ Gap(From(k))')
        <3>1. pkgs[k + 1].at = From(k + 1) \/ (pkgs[k + 1].at = 0 /\ Low(k + 1) /\ Gap(From(k + 1)))
            BY <1>3 DEF Chained
        <3>2. From(k)' = From(k + 1) /\ pkgs'[k] = pkgs[k + 1]
            BY <1>3, <2>1
        <3>3. Low(k + 1) /\ pkgs[k + 1].at = 0 => ~Low(1)
            <4>1. Low(1) /\ Low(k + 1) => End(pkgs[1]) + (k - 1) <= pkgs[k + 1].at
                BY <1>8
            <4>2. End(pkgs[1]) \in Nat /\ End(pkgs[1]) > 0 /\ k - 1 \in Nat
                BY <1>4
            <4>3. End(pkgs[1]) + (k - 1) > 0
                BY <4>2
            <4>4. pkgs[k + 1].at \in Nat
                BY <1>8
            <4> QED
                BY <4>1, <4>2, <4>3, <4>4
        <3>4. Gap(From(k + 1)) => Gap(From(k))'
            BY <1>1, <3>2 DEF Gap
        <3> QED
            BY <1>8, <3>1, <3>2, <3>3, <3>4
    <2>3. From(n)' = From(n + 1) /\ Len(pkgs') + 1 = n
        BY <1>3, <2>1
    <2> QED
        BY <1>1, <1>3, <2>2, <2>3 DEF Chained
<1>12. Filled'
    BY <1>1, <1>3 DEF Filled, Whole
<1>13. WriterReady'
    <2>1. Low(1) => write < read /\ End(pkgs[1]) <= write
        BY <1>2, LowIsWrapped
    <2>2. /\ write < read \/ End(pkgs[1]) <= write
          /\ ~Low(1) => read < End(pkgs[1])
        BY <1>2, <1>4, <1>5 DEF Placed
    <2>3. Fits => Fits'
        BY <1>0, <1>1, <1>2, <1>4, <1>5, <2>1, <2>2, Numbers DEF Fits, writer
    <2>4. Wraps => Wraps'
        BY <1>0, <1>1, <1>2, <1>4, <1>5, <2>1, <2>2, Numbers DEF Wraps, writer
    <2> QED
        BY <1>1, <2>3, <2>4 DEF WriterReady, writer, Gap, Whole
<1>14. ReaderReady'
    BY <1>1 DEF ReaderReady
<1> QED
    BY <1>7, <1>9, <1>10, <1>11, <1>12, <1>13, <1>14
-------------------------------------------------------------------------------
\* RingInv is an invariant.
THEOREM RingIsInvariant == Spec => []RingInv
<1>1. RingInv /\ [Next]_vars => RingInv'
    <2> SUFFICES ASSUME RingInv, [Next]_vars PROVE RingInv'
        OBVIOUS
    <2>1. CASE \E l \in Lens : BeginWrite(l)
        BY <2>1, BeginWriteRing
    <2>2. CASE UNCHANGED vars
        BY <2>2 DEF vars, reader, writer, RingInv, TypeOK, Placed, Spaced, Chained, Filled, WriterReady,
                    ReaderReady, Wraps, Fits, Low, From, End, Gap, Whole
    <2> QED
        BY <2>1, <2>2, MarkEndRing, FillRing, AbandonRing, PublishRing, BeginReadRing, ParseRing, CopyRing,
           ReleaseRing DEF Next, Writing, Reading
<1> QED
    BY <1>1, InitRing, PTL DEF Spec

\* A drained ring takes every package of half its size.
LEMMA DrainedAccepts == TypeOK => AcceptsWhenDrained
<1> SUFFICES ASSUME TypeOK, write = read, NEW l \in Lens, 2 * (HeaderSize + l) <= Size
             PROVE  Places(HeaderSize + l) # {}
    BY DEF AcceptsWhenDrained
<1>1. l \in Nat \ {0}
    BY LensAssumption, Zenon
<1>2. Size - write >= HeaderSize + l \/ read > HeaderSize + l
    BY <1>1, Numbers
<1>3. Size \in Nat /\ HeaderSize \in Nat /\ write \in Nat
    BY Numbers
<1>4. CASE Size - write >= HeaderSize + l
    BY <1>3, <1>4 DEF Places
<1>5. CASE ~(Size - write >= HeaderSize + l)
    <2>1. 0 \in {at \in {0} : read > HeaderSize + l}
        BY <1>2, <1>5
    <2> QED
        BY <1>3, <1>5, <2>1 DEF Places
<1> QED
    BY <1>4, <1>5

\* Indices and cells of the ring are sound, for packages of any lengths: the ring looks empty when it is,
\* nothing unread is overwritten, packages are read as they were written, and a drained ring accepts.
THEOREM RingIsSound == Spec => []RingSound
<1>1. RingInv => RingSound
    <2> SUFFICES ASSUME RingInv PROVE RingSound
        OBVIOUS
    <2> USE DEF RingInv
    <2>1. EmptyMeansEmpty
        BY IndicesTell DEF EmptyMeansEmpty
    <2>2. NoOverwrite
        <3> SUFFICES ASSUME wpc \in {"fill", "publish"} PROVE NoOverwrite
            BY DEF NoOverwrite
        <3>1. Fits \/ Wraps
            BY DEF WriterReady
        <3>2. DOMAIN pkgs = 1 .. Len(pkgs)
            BY Numbers
        <3> QED
            BY <3>1, <3>2, PlaceIsFree DEF NoOverwrite
    <2>3. ReadsWhole
        <3>1. rpc = "parse" => ~Conflict
            BY HeadIsFound
        <3>2. ASSUME rpc \in {"copy", "release"}
              PROVE  /\ pkgs # <<>> /\ curRead = Head(pkgs).at /\ rLen = Head(pkgs).len
                     /\ \A i \in BodyCells(curRead, rLen) : cells[i] = Body(Head(pkgs).id)
            <4>1. 1 \in 1 .. Len(pkgs) /\ pkgs # <<>>
                BY <3>2, EmptySeq DEF ReaderReady, TypeOK
            <4>2. Head(pkgs) = pkgs[1]
                BY <4>1 DEF TypeOK
            <4> QED
                BY <3>2, <4>1, <4>2 DEF ReaderReady, Filled, Whole
        <3> QED
            BY <3>1, <3>2 DEF ReadsWhole
    <2> QED
        BY <2>1, <2>2, <2>3, DrainedAccepts DEF RingSound
<1> QED
    BY <1>1, RingIsInvariant, PTL
-------------------------------------------------------------------------------
\* The bodies in the ring, and that they are a sequence of bodies.
Queue == [k \in DOMAIN pkgs |-> {Body(pkgs[k].id)}]

\* One body for each package.
LEMMA QueueIsSeq ==
  ASSUME TypeOK
  PROVE  Queue \in Seq(Bodies) /\ Len(Queue) = Len(pkgs) /\ \A k \in 1 .. Len(pkgs) : Queue[k] = {Body(pkgs[k].id)}
<1>1. Len(pkgs) \in Nat /\ DOMAIN pkgs = 1 .. Len(pkgs)
    BY Numbers
<1>2. \A k \in 1 .. Len(pkgs) : {Body(pkgs[k].id)} \in Bodies
    <2>1. \A k \in 1 .. Len(pkgs) : pkgs[k] \in [at : 0 .. Size, len : Lens, id : Ids]
        BY Numbers
    <2> QED
        BY <2>1 DEF Bodies
<1>3. Queue \in [1 .. Len(pkgs) -> Bodies]
    BY <1>1, <1>2 DEF Queue
<1>4. Queue \in Seq(Bodies) /\ Len(Queue) = Len(pkgs)
    BY <1>1, <1>3, LenProperties
<1> QED
    BY <1>1, <1>4 DEF Queue

\* As every package has a cell of its own at least, there are fewer than cells.
LEMMA FewerThanCells == RingInv /\ (Fits \/ Wraps) => Len(pkgs) < Size
<1> SUFFICES ASSUME RingInv, Fits \/ Wraps PROVE Len(pkgs) < Size
    OBVIOUS
<1> USE DEF RingInv
<1> PICK n \in Nat : n = Len(pkgs)
    BY Numbers
<1>1. Size \in Nat /\ read \in Nat /\ read <= Size /\ write \in Nat /\ write <= Size
    BY Numbers
<1>2. CASE n = 0
    <2>1. curWrite + HeaderSize + wLen <= Size
        BY PlaceIsFree
    <2> QED
        BY <1>1, <1>2, <2>1, Numbers
<1>3. CASE n # 0
    <2>1. n \in 1 .. Len(pkgs)
        BY <1>3
    <2>2. pkgs[n].at \in Nat /\ End(pkgs[n]) \in Nat /\ End(pkgs[n]) > pkgs[n].at + 1
        BY <2>1, Numbers
    <2>3. IF Low(n) THEN n - 1 <= (Size - read) + pkgs[n].at ELSE read + (n - 1) <= pkgs[n].at
        BY <2>1 DEF Spaced
    <2>4. CASE Low(n)
        <3>1. write < read /\ End(pkgs[n]) <= write
            BY <2>1, <2>4, LowIsWrapped
        <3> QED
            BY <1>1, <2>2, <2>3, <2>4, <3>1
    <2>5. CASE ~Low(n)
        <3>1. End(pkgs[n]) <= Size
            BY <1>1, <2>1, <2>2 DEF Placed
        <3> QED
            BY <1>1, <2>2, <2>3, <2>5, <3>1
    <2> QED
        BY <2>4, <2>5
<1> QED
    BY <1>2, <1>3

\* Publishing is a put.
LEMMA PublishPuts == RingInv /\ Publish => Fifo!Put({Body(nextId)}) /\ {Body(nextId)} \in Bodies
<1> SUFFICES ASSUME RingInv, Publish PROVE Fifo!Put({Body(nextId)}) /\ {Body(nextId)} \in Bodies
    OBVIOUS
<1>1. /\ pkgs' = Append(pkgs, [at |-> curWrite, len |-> wLen, id |-> nextId])
      /\ returned' = returned /\ wpc = "publish"
    BY DEF Publish, reader
<1>2. TypeOK /\ TypeOK' /\ (Fits \/ Wraps)
    BY <1>1, PublishRing DEF RingInv, WriterReady
<1>3. {Body(nextId)} \in Bodies
    BY <1>2 DEF TypeOK, Bodies
<1>4. Queue \in Seq(Bodies) /\ Len(Queue) = Len(pkgs) /\ \A k \in 1 .. Len(pkgs) : Queue[k] = {Body(pkgs[k].id)}
    BY <1>2, QueueIsSeq
<1>5. /\ Queue' \in Seq(Bodies) /\ Len(Queue') = Len(pkgs')
      /\ \A k \in 1 .. Len(pkgs') : Queue'[k] = {Body(pkgs'[k].id)}
    <2>1. (TypeOK => /\ Queue \in Seq(Bodies) /\ Len(Queue) = Len(pkgs)
                     /\ \A k \in 1 .. Len(pkgs) : Queue[k] = {Body(pkgs[k].id)})'
        BY QueueIsSeq, PTL
    <2> QED
        BY <1>2, <2>1 DEF Bodies, Body, Ids
<1>6. Len(pkgs) < Size
    BY <1>2, FewerThanCells
<1>7. Queue' = Append(Queue, {Body(nextId)})
    <2> PICK n \in Nat : n = Len(pkgs)
        BY <1>2, Numbers
    <2>1. /\ Len(pkgs') = n + 1 /\ pkgs'[n + 1].id = nextId /\ \A k \in 1 .. n : pkgs'[k] = pkgs[k]
        BY <1>1, <1>2, AppendProperties DEF TypeOK
    <2> DEFINE q == Append(Queue, {Body(nextId)})
    <2>2. q \in Seq(Bodies) /\ Len(q) = n + 1 /\ q[n + 1] = {Body(nextId)} /\ \A k \in 1 .. n : q[k] = Queue[k]
        <3>1. Queue \in Seq(Bodies) /\ Len(Queue) = n
            BY <1>4
        <3> HIDE DEF Queue
        <3> QED
            BY <1>3, <3>1, AppendProperties
    <2>3. \A k \in 1 .. n + 1 : Queue'[k] = q[k]
        <3> SUFFICES ASSUME NEW k \in 1 .. n + 1 PROVE Queue'[k] = q[k]
            OBVIOUS
        <3>1. CASE k = n + 1
            BY <1>5, <2>1, <2>2, <3>1
        <3>2. CASE k \in 1 .. n
            <4>1. Queue'[k] = {Body(pkgs'[k].id)} /\ Queue[k] = {Body(pkgs[k].id)}
                BY <1>4, <1>5, <2>1, <3>2
            <4>2. pkgs'[k] = pkgs[k] /\ q[k] = Queue[k]
                BY <2>1, <2>2, <3>2
            <4> QED
                BY <4>1, <4>2
        <3>3. k = n + 1 \/ k \in 1 .. n
            OBVIOUS
        <3> QED
            BY <3>1, <3>2, <3>3
    <2> QED
        BY <1>5, <2>1, <2>2, <2>3, SeqEqual
<1> QED
    BY <1>1, <1>3, <1>4, <1>6, <1>7 DEF Fifo!Put, Queue
\* Releasing is a get, and what it hands out is the oldest body.
LEMMA ReleaseGets == RingInv /\ Release => Fifo!Get
<1> SUFFICES ASSUME RingInv, Release PROVE Fifo!Get
    OBVIOUS
<1>1. pkgs' = Tail(pkgs) /\ returned' = got /\ rpc = "release"
    BY DEF Release
<1>2. TypeOK /\ TypeOK' /\ pkgs # <<>> /\ got = {Body(pkgs[1].id)}
    BY <1>1, ReleaseRing DEF RingInv, ReaderReady
<1>3. Queue \in Seq(Bodies) /\ Len(Queue) = Len(pkgs) /\ \A k \in 1 .. Len(pkgs) : Queue[k] = {Body(pkgs[k].id)}
    BY <1>2, QueueIsSeq
<1>4. /\ Queue' \in Seq(Bodies) /\ Len(Queue') = Len(pkgs')
      /\ \A k \in 1 .. Len(pkgs') : Queue'[k] = {Body(pkgs'[k].id)}
    <2>1. (TypeOK => /\ Queue \in Seq(Bodies) /\ Len(Queue) = Len(pkgs)
                     /\ \A k \in 1 .. Len(pkgs) : Queue[k] = {Body(pkgs[k].id)})'
        BY QueueIsSeq, PTL
    <2> QED
        BY <1>2, <2>1 DEF Bodies, Body, Ids
<1> PICK n \in Nat : n = Len(pkgs)
    BY <1>2, Numbers
<1>5. n > 0 /\ Len(pkgs') = n - 1 /\ \A k \in 1 .. n - 1 : pkgs'[k] = pkgs[k + 1]
    BY <1>1, <1>2, EmptySeq, HeadTailProperties DEF TypeOK
<1>6. Queue # <<>>
    BY <1>2, <1>3, <1>5
<1>7. Head(Queue) = got
    BY <1>2, <1>3, <1>5
<1>8. Queue' = Tail(Queue)
    <2> HIDE DEF Queue
    <2>1. Tail(Queue) \in Seq(Bodies) /\ Len(Tail(Queue)) = n - 1 /\ \A k \in 1 .. n - 1 : Tail(Queue)[k] = Queue[k + 1]
        BY <1>3, <1>6, HeadTailProperties
    <2>2. ASSUME NEW k \in 1 .. n - 1 PROVE Queue'[k] = Tail(Queue)[k]
        <3>1. Queue'[k] = {Body(pkgs'[k].id)} /\ Queue[k + 1] = {Body(pkgs[k + 1].id)}
            BY <1>3, <1>4, <1>5
        <3> QED
            BY <1>5, <2>1, <3>1
    <2> QED
        BY <1>4, <1>5, <2>1, <2>2, SeqEqual
<1> QED
    BY <1>1, <1>6, <1>7, <1>8 DEF Fifo!Get, Queue

\* The ring of bytes implements a bounded FIFO queue of bodies: a package is put by the one store to write
\* that publishes it, and taken by the one store to read that releases it; every other step is invisible.
THEOREM RingImplementsFifo == Spec => ImplementsFifo
<1>1. Init => Fifo!Init
    BY DEF Init, Fifo!Init
<1>2. RingInv /\ [Next]_vars => [Fifo!Next]_(Fifo!vars)
    <2> SUFFICES ASSUME RingInv, [Next]_vars PROVE Fifo!Next \/ UNCHANGED Fifo!vars
        OBVIOUS
    <2>1. CASE Publish
        BY <2>1, PublishPuts DEF Fifo!Next
    <2>2. CASE Release
        BY <2>2, ReleaseGets DEF Fifo!Next
    <2>3. ASSUME UNCHANGED <<pkgs, returned>>
          PROVE  UNCHANGED Fifo!vars
        BY <2>3 DEF Fifo!vars
    <2> QED
        BY <2>1, <2>2, <2>3 DEF Next, Writing, Reading, BeginWrite, MarkEnd, Fill, Abandon, BeginRead, Parse, Copy,
                                vars, reader
<1> QED
    BY <1>1, <1>2, RingIsInvariant, PTL DEF Spec, ImplementsFifo, Fifo!Spec
===============================================================================
