--------------------------- MODULE MultiWriterQueue ---------------------------
(***************************************************************************)
(* CMultiW_SingleR_Queue: many writer threads, one reader thread, a ring   *)
(* of pointers.  Writers serialise on m_writeMutex; the reader takes no    *)
(* lock unless the ring looks empty, and then sleeps on m_notifyCond.      *)
(*                                                                         *)
(* One action per access to memory the other side reads, so put() and      *)
(* get() interleave.  Accesses protected by a mutex are merged with its    *)
(* lock or unlock.  When tso is TRUE the reader's plain store              *)
(* "m_isWaitNotify = 1" may stay in its store buffer past its next load    *)
(* (nothing orders the two), until a mutex operation of the reader; when   *)
(* it is FALSE memory is sequentially consistent.                          *)
(***************************************************************************)
EXTENDS Naturals, Sequences, FiniteSets

CONSTANTS Writers,      (* the writer threads                               *)
          Size,         (* m_size, the number of slots                      *)
          MaxPuts,      (* bound: calls of put() by each writer             *)
          NULL, NoOne   (* an empty slot; nobody holds the mutex            *)

ASSUME SizeAssumption == Size \in Nat \ {0, 1}
ASSUME MaxPutsAssumption == MaxPuts \in Nat
ASSUME NoOneAssumption == NoOne \notin Writers

Slots == 0 .. Size - 1
Items == Writers \X (1 .. MaxPuts)      \* <<w, k>>: what the k-th put() of w carries

ASSUME NullAssumption == NULL \notin Items

VARIABLES buff,         (* m_pBuff                                          *)
          mWrite,       (* m_write                                          *)
          mRead,        (* m_read                                           *)
          tso,          (* may the build delay the reader's flag store?     *)
          isWait,       (* m_isWaitNotify as the writers see it             *)
          buffered,     (* the reader's store of 1 to it is still buffered  *)
          writeOwner,   (* holder of m_writeMutex                           *)
          wpc,          (* where each writer is in put()                    *)
          seen,         (* the m_read a writer loaded                       *)
          wasEmpty,     (* the local isWaitNotify of put()                  *)
          calls,        (* calls of put() by each writer                    *)
          rpc,          (* where the reader is in get()                     *)
          data,         (* the local pData of get()                         *)
          timed,        (* the ms argument of get() is positive             *)
          timedOut,     (* the last wait ended with ETIMEDOUT               *)
          returned      (* what the last successful get() handed out        *)

ring == <<buff, mWrite, mRead>>
writerVars == <<writeOwner, wpc, seen, wasEmpty, calls>>
flag == <<tso, isWait, buffered>>
local == <<data, timed, timedOut>>
vars == <<ring, writerVars, flag, rpc, local, returned>>

Advance(i) == (i + 1) % Size
NextRead == Advance(mRead)

\* the reader is inside the region of get() that holds m_notifyMutex
ReaderHolds == rpc \in {"again", "wait", "lower"}
-------------------------------------------------------------------------------
(* put() *)

\* m_write and m_read compared, the way put() warns against
RefusePutByIndex(w) ==
  /\ wpc[w] = "idle" /\ calls[w] < MaxPuts /\ writeOwner = NoOne
  /\ Advance(mWrite) = mRead
  /\ calls' = [calls EXCEPT ![w] = @ + 1]
  /\ UNCHANGED <<ring, writeOwner, wpc, seen, wasEmpty, flag, rpc, local, returned>>

\* the slot at m_write is taken: QueueFull, and the caller keeps its message
RefusePut(w) ==
  /\ wpc[w] = "idle" /\ calls[w] < MaxPuts /\ writeOwner = NoOne
  /\ buff[mWrite] # NULL
  /\ calls' = [calls EXCEPT ![w] = @ + 1]
  /\ UNCHANGED <<ring, writeOwner, wpc, seen, wasEmpty, flag, rpc, local, returned>>

\* the slot at m_write isn't tested
BeginPutUnchecked(w) ==
  /\ wpc[w] = "idle" /\ calls[w] < MaxPuts /\ writeOwner = NoOne
  /\ writeOwner' = w
  /\ wpc' = [wpc EXCEPT ![w] = "probe"]
  /\ seen' = [seen EXCEPT ![w] = mRead]
  /\ calls' = [calls EXCEPT ![w] = @ + 1]
  /\ UNCHANGED <<ring, wasEmpty, flag, rpc, local, returned>>

\* the slot is free; m_read is loaded for the emptiness test
BeginPut(w) ==
  /\ wpc[w] = "idle" /\ calls[w] < MaxPuts /\ writeOwner = NoOne
  /\ buff[mWrite] = NULL
  /\ writeOwner' = w
  /\ wpc' = [wpc EXCEPT ![w] = "probe"]
  /\ seen' = [seen EXCEPT ![w] = mRead]
  /\ calls' = [calls EXCEPT ![w] = @ + 1]
  /\ UNCHANGED <<ring, wasEmpty, flag, rpc, local, returned>>

\* isWaitNotify = (m_pBuff[(m_read + 1) % m_size] == NULL), before the data is stored
Probe(w) ==
  /\ wpc[w] = "probe"
  /\ wasEmpty' = [wasEmpty EXCEPT ![w] = buff[Advance(seen[w])] = NULL]
  /\ wpc' = [wpc EXCEPT ![w] = "store"]
  /\ UNCHANGED <<ring, writeOwner, seen, calls, flag, rpc, local, returned>>

\* store the pointer, move m_write (only ever read under the mutex) and unlock
Store(w) ==
  /\ wpc[w] = "store"
  /\ buff' = [buff EXCEPT ![mWrite] = <<w, calls[w]>>]
  /\ mWrite' = Advance(mWrite)
  /\ writeOwner' = NoOne
  /\ wpc' = [wpc EXCEPT ![w] = "ask"]
  /\ UNCHANGED <<mRead, seen, wasEmpty, calls, flag, rpc, local, returned>>

\* only the emptiness seen before the store is consulted
AskEmptinessOnly(w) ==
  /\ wpc[w] = "ask"
  /\ wpc' = [wpc EXCEPT ![w] = IF wasEmpty[w] THEN "notify" ELSE "idle"]
  /\ UNCHANGED <<ring, writeOwner, seen, wasEmpty, calls, flag, rpc, local, returned>>

\* if (m_isWaitNotify || isWaitNotify)
AskNotify(w) ==
  /\ wpc[w] = "ask"
  /\ wpc' = [wpc EXCEPT ![w] = IF isWait \/ wasEmpty[w] THEN "notify" ELSE "idle"]
  /\ UNCHANGED <<ring, writeOwner, seen, wasEmpty, calls, flag, rpc, local, returned>>

\* notify(): signal under m_notifyMutex; lost when the reader isn't waiting
Notify(w) ==
  /\ wpc[w] = "notify" /\ ~ReaderHolds
  /\ wpc' = [wpc EXCEPT ![w] = "idle"]
  /\ rpc' = IF rpc = "blocked" THEN "woken" ELSE rpc
  /\ UNCHANGED <<ring, writeOwner, seen, wasEmpty, calls, flag, local, returned>>

Putting(w) == Probe(w) \/ Store(w) \/ AskNotify(w) \/ Notify(w)
-------------------------------------------------------------------------------
(* get() *)

\* get(ms) is called and looks at the next slot without any lock
Look ==
  /\ rpc = "idle"
  /\ data' = buff[NextRead]
  /\ rpc' = IF data' = NULL THEN "empty" ELSE "clear"
  /\ timed' \in BOOLEAN /\ timedOut' = FALSE
  /\ UNCHANGED <<ring, writerVars, flag, returned>>

\* lock m_notifyMutex; m_isWaitNotify = 1
RaiseFlag ==
  /\ rpc = "empty" /\ rpc' = "again"
  /\ \/ isWait' = TRUE /\ UNCHANGED buffered
     \/ tso /\ buffered' = TRUE /\ UNCHANGED isWait
  /\ UNCHANGED <<tso, ring, writerVars, local, returned>>

\* the delayed store becomes visible
Drain ==
  /\ buffered
  /\ isWait' = TRUE /\ buffered' = FALSE
  /\ UNCHANGED <<tso, ring, writerVars, rpc, local, returned>>

\* the slot isn't read again after the flag is raised
LookAgainNot ==
  /\ rpc = "again" /\ rpc' = "wait"
  /\ UNCHANGED <<ring, writerVars, flag, local, returned>>

\* pData = m_pBuff[nextRead] again, now with the mutex held
LookAgain ==
  /\ rpc = "again"
  /\ data' = buff[NextRead]
  /\ rpc' = IF data' = NULL THEN "wait" ELSE "lower"
  /\ UNCHANGED <<ring, writerVars, flag, timed, timedOut, returned>>

\* pthread_cond_wait releases the mutex (which drains the buffer) and blocks, atomically
Block ==
  /\ rpc = "wait" /\ rpc' = "blocked"
  /\ isWait' = TRUE /\ buffered' = FALSE
  /\ UNCHANGED <<tso, ring, writerVars, local, returned>>

\* the wait ends without a signal: spuriously, or with ETIMEDOUT
WaitEnds ==
  /\ rpc = "blocked" /\ rpc' = "woken"
  /\ timedOut' \in {FALSE, timed}
  /\ UNCHANGED <<ring, writerVars, flag, data, timed, returned>>

\* with the mutex back: look again, and leave the loop with data or after ETIMEDOUT
Reload ==
  /\ rpc = "woken"
  /\ data' = buff[NextRead]
  /\ rpc' = IF data' = NULL /\ ~timedOut THEN "wait" ELSE "lower"
  /\ UNCHANGED <<ring, writerVars, flag, timed, timedOut, returned>>

\* m_isWaitNotify = 0; unlock; return NULL if there is still no data
LowerFlag ==
  /\ rpc = "lower"
  /\ rpc' = IF data = NULL THEN "idle" ELSE "clear"
  /\ isWait' = FALSE /\ buffered' = FALSE
  /\ UNCHANGED <<tso, ring, writerVars, local, returned>>

\* two consumers' worth of clearing: the slot m_read still points at is cleared
ClearCurrent ==
  /\ rpc = "clear" /\ rpc' = "advance"
  /\ buff' = [buff EXCEPT ![mRead] = NULL]
  /\ returned' = data
  /\ UNCHANGED <<mWrite, mRead, writerVars, flag, local>>

\* m_pBuff[nextRead] = NULL
Clear ==
  /\ rpc = "clear" /\ rpc' = "advance"
  /\ buff' = [buff EXCEPT ![NextRead] = NULL]
  /\ returned' = data
  /\ UNCHANGED <<mWrite, mRead, writerVars, flag, local>>

\* m_read = nextRead; return pData
AdvanceRead ==
  /\ rpc = "advance" /\ rpc' = "idle"
  /\ mRead' = NextRead
  /\ UNCHANGED <<buff, mWrite, writerVars, flag, local, returned>>

Getting == Look \/ RaiseFlag \/ LookAgain \/ Block \/ Reload \/ LowerFlag \/ Clear \/ AdvanceRead
-------------------------------------------------------------------------------
Init ==
  /\ buff = [i \in Slots |-> NULL] /\ mWrite = 1 /\ mRead = 0
  /\ tso \in BOOLEAN /\ isWait = FALSE /\ buffered = FALSE /\ writeOwner = NoOne
  /\ wpc = [w \in Writers |-> "idle"] /\ seen = [w \in Writers |-> 0]
  /\ wasEmpty = [w \in Writers |-> FALSE] /\ calls = [w \in Writers |-> 0]
  /\ rpc = "idle" /\ data = NULL /\ timed = FALSE /\ timedOut = FALSE /\ returned = NULL

Next ==
  \/ \E w \in Writers : RefusePut(w) \/ BeginPut(w) \/ Putting(w)
  \/ Getting \/ Drain \/ WaitEnds

Spec == Init /\ [][Next]_vars

\* A running thread keeps running: a writer inside put(), and the reader, which calls
\* get() again and again.  Nobody has to call put(), no wait has to end unsignalled.
FairSpec == Spec /\ WF_vars(Getting) /\ \A w \in Writers : WF_vars(Putting(w))
-------------------------------------------------------------------------------
TypeOK ==
  /\ buff \in [Slots -> Items \cup {NULL}] /\ mWrite \in Slots /\ mRead \in Slots
  /\ tso \in BOOLEAN /\ isWait \in BOOLEAN /\ buffered \in BOOLEAN
  /\ writeOwner \in Writers \cup {NoOne}
  /\ wpc \in [Writers -> {"idle", "probe", "store", "ask", "notify"}]
  /\ seen \in [Writers -> Slots] /\ wasEmpty \in [Writers -> BOOLEAN]
  /\ calls \in [Writers -> 0 .. MaxPuts]
  /\ rpc \in {"idle", "empty", "again", "wait", "blocked", "woken", "lower", "clear", "advance"}
  /\ data \in Items \cup {NULL} /\ returned \in Items \cup {NULL}
  /\ timed \in BOOLEAN /\ timedOut \in BOOLEAN

\* put() compares slots and never indices, because m_read moves under its feet: the slot
\* it is about to fill is still empty when it fills it, and no two writers fill at once.
NoOverwrite ==
  \A w \in Writers : wpc[w] \in {"probe", "store"} => writeOwner = w /\ buff[mWrite] = NULL

\* get() clears the slot it read, outside every lock: what it is about to return is still
\* there, so no message is lost and none is handed out twice.
ReadIsStable == rpc = "clear" => data # NULL /\ buff[NextRead] = data

\* put() answers QueueFull only when every slot is taken.
RefusedOnlyWhenFull ==
  [][\A w \in Writers : calls'[w] # calls[w] /\ wpc'[w] = "idle"
                            => \A i \in Slots : buff[i] # NULL]_vars

\* A reader asleep although its slot holds data has a writer on its way to wake it: the
\* second read under the mutex and the double test of put() are there for this.
WakeupIsComing ==
  rpc = "blocked" /\ buff[NextRead] # NULL
    => \E w \in Writers : \/ wpc[w] = "notify"
                          \/ wpc[w] = "ask" /\ (isWait \/ wasEmpty[w])
NoLostWakeup == ~tso => WakeupIsComing

\* In sequentially consistent memory every message put is eventually taken, even when no
\* wait has a timeout.
Delivered ==
  \A m \in Items : ~tso /\ (\E i \in Slots : buff[i] = m) ~> (\A i \in Slots : buff[i] # m)

\* The queue is a bounded FIFO: a put takes effect when it stores the pointer, a get when
\* it clears the slot.  Between the clear and the move of m_read the oldest message
\* already is one slot further.
Head0 == IF rpc = "advance" THEN Advance(NextRead) ELSE NextRead
Occupied == {i \in Slots : buff[i] # NULL}
Fifo == INSTANCE BoundedFifo
          WITH Capacity <- Size, Nothing <- NULL,
               queue <- [k \in 1 .. Cardinality(Occupied) |-> buff[(Head0 + k - 1) % Size]]
ImplementsFifo == Fifo!Spec
===============================================================================
