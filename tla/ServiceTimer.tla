----------------------------- MODULE ServiceTimer -----------------------------
(***************************************************************************)
(* The timers of a service: CService (the service thread) on top of CTimer *)
(* (the timer thread).  A timer is a TimerMessage block from the pool      *)
(* m_memForTimerMsg, registered in m_timerIdToMsg, and an entry of the     *)
(* timer thread's heap that points to the block.  Each expiry queues the   *)
(* pointer in m_timerMsgQueue, a CAddressQueue that only the timer thread  *)
(* puts into and only the service thread gets from; the service thread     *)
(* makes the callback and, after the last one, returns the block.          *)
(*                                                                         *)
(* What the timer thread does for one expiry is one action: it holds the   *)
(* mutex of CTimer throughout.  Time is left out: any entry of the heap    *)
(* may be due.                                                             *)
(***************************************************************************)
EXTENDS Integers, Sequences, FiniteSets, SequencesExt

CONSTANTS Blocks,       (* the blocks of m_memForTimerMsg                   *)
          QueueSize,    (* the size of m_timerMsgQueue                      *)
          MaxOnline,    (* m_timerMsgMaxCount, 0 for no limit               *)
          Counts,       (* the counts passed to setTimer                    *)
          Endless,      (* the count (unsigned)-1, "for ever"               *)
          MaxTimers     (* bound: setTimer calls; ids don't wrap around     *)

ASSUME SizeAssumption == QueueSize \in Nat \ {0} /\ MaxOnline \in Nat /\ MaxTimers \in Nat
ASSUME CountAssumption == Endless \in Nat /\ Counts \subseteq Nat \ {0}

Ids == 1 .. MaxTimers
NoCall == [block |-> 0, id |-> 0, count |-> 0]
ASSUME BlocksAssumption == IsFiniteSet(Blocks) /\ Blocks \subseteq Nat \ {0}

VARIABLES free,         (* the pool's free blocks, the next one first       *)
          msg,          (* the content of each block                        *)
          online,       (* m_timerIdToMsg                                   *)
          heap,         (* the timer thread's entries, by id                *)
          killed,       (* m_umapKillTimer                                  *)
          curId,        (* m_curTimerId                                     *)
          queue,        (* m_timerMsgQueue                                  *)
          pc,           (* where the service thread is                      *)
          inCall,       (* it is inside the callback of handleTimerMessage  *)
          cur,          (* the locals of handleTimerMessage                 *)
          victim,       (* the block killTimer is about to give up          *)
          dead,         (* history: ids for which killTimer found a timer   *)
          lost          (* history: ids with an expiry that wasn't queued   *)

pool == <<free, msg>>
timer == <<heap, killed, curId>>
service == <<pc, inCall, cur, victim>>
vars == <<pool, online, timer, queue, service, dead, lost>>

Put(b) == free' = <<b>> \o free
Without(f, k) == [x \in DOMAIN f \ {k} |-> f[x]]
With(f, k, v) == [x \in DOMAIN f \cup {k} |-> IF x = k THEN v ELSE f[x]]
Times(q, b) == Cardinality({i \in DOMAIN q : q[i] = b})
Queued(b) == Times(queue, b)                               \* CAddressQueue::check
-------------------------------------------------------------------------------
(* the service thread: setTimer and killTimer, called from any callback *)

\* a block is filled, CTimer::setTimer adds the entry, the id is registered; the pool
\* grows in the code when it is empty, here it is large enough
SetTimer(c) ==
  /\ pc = "run" /\ curId < MaxTimers /\ free # <<>>
  /\ MaxOnline = 0 \/ Cardinality(DOMAIN online) < MaxOnline
  /\ LET b == Head(free) IN
       /\ free' = Tail(free) /\ curId' = curId + 1
       /\ msg' = [msg EXCEPT ![b] = [id |-> curId', count |-> c, deleteRef |-> 0]]
       /\ heap' = With(heap, curId', [block |-> b, runs |-> c])
       /\ online' = With(online, curId', b)
  /\ UNCHANGED <<killed, queue, service, dead, lost>>

\* the timer thread isn't told
KillTimerQuietly(id) ==
  /\ pc = "run" /\ id \in DOMAIN online
  /\ victim' = online[id] /\ online' = Without(online, id)
  /\ dead' = dead \cup {id} /\ pc' = "kill"
  /\ UNCHANGED <<pool, timer, queue, inCall, cur, lost>>

\* CTimer::killTimer notes the id, and it is unregistered; an unknown id is ignored
KillTimer(id) ==
  /\ pc = "run" /\ id \in DOMAIN online
  /\ killed' = killed \cup {id}
  /\ victim' = online[id] /\ online' = Without(online, id)
  /\ dead' = dead \cup {id} /\ pc' = "kill"
  /\ UNCHANGED <<pool, heap, curId, queue, inCall, cur, lost>>

\* one reference, however many messages there are
KillTimerEndsOne ==
  /\ pc = "kill" /\ pc' = "run"
  /\ IF Queued(victim) = 0
     THEN Put(victim) /\ UNCHANGED msg
     ELSE msg' = [msg EXCEPT ![victim].deleteRef = 1] /\ UNCHANGED free
  /\ victim' = 0
  /\ UNCHANGED <<online, timer, queue, inCall, cur, dead, lost>>

\* the block goes back unless messages of it are queued, which then count as references
KillTimerEnds ==
  /\ pc = "kill" /\ pc' = "run"
  /\ IF Queued(victim) = 0
     THEN Put(victim) /\ UNCHANGED msg
     ELSE msg' = [msg EXCEPT ![victim].deleteRef = Queued(victim)] /\ UNCHANGED free
  /\ victim' = 0
  /\ UNCHANGED <<online, timer, queue, inCall, cur, dead, lost>>

(* handleTimerMessage *)

\* the message of a timer nobody killed: timerId and count are kept, the callback begins
TakeLive ==
  /\ pc = "run" /\ ~inCall /\ queue # <<>> /\ msg[Head(queue)].deleteRef = 0
  /\ cur' = [block |-> Head(queue), id |-> msg[Head(queue)].id, count |-> msg[Head(queue)].count]
  /\ queue' = Tail(queue) /\ inCall' = TRUE
  /\ UNCHANGED <<pool, online, timer, pc, victim, dead, lost>>

\* the message of a killed timer: the last one returns the block
TakeKilled ==
  /\ pc = "run" /\ ~inCall /\ queue # <<>> /\ msg[Head(queue)].deleteRef > 0
  /\ msg' = [msg EXCEPT ![Head(queue)].deleteRef = @ - 1]
  /\ IF msg'[Head(queue)].deleteRef = 0 THEN Put(Head(queue)) ELSE UNCHANGED free
  /\ queue' = Tail(queue)
  /\ UNCHANGED <<online, timer, service, dead, lost>>

\* the registration isn't looked up again after the callback
ReturnUnchecked ==
  /\ pc = "run" /\ inCall /\ inCall' = FALSE
  /\ IF cur.count = 0
     THEN Put(cur.block) /\ online' = Without(online, cur.id)
     ELSE UNCHANGED <<free, online>>
  /\ cur' = NoCall
  /\ UNCHANGED <<msg, timer, queue, pc, victim, dead, lost>>

\* the callback is over; the last one returns the block, unless the timer was killed in it
Return ==
  /\ pc = "run" /\ inCall /\ inCall' = FALSE
  /\ IF cur.count = 0 /\ cur.id \in DOMAIN online
     THEN Put(cur.block) /\ online' = Without(online, cur.id)
     ELSE UNCHANGED <<free, online>>
  /\ cur' = NoCall
  /\ UNCHANGED <<msg, timer, queue, pc, victim, dead, lost>>
-------------------------------------------------------------------------------
(* the timer thread *)

\* OnTimer: the remaining count is written into the shared block, the pointer queued, or
\* the expiry is lost
OnTimer(id, remaining) ==
  LET b == heap[id].block IN
    /\ msg' = [msg EXCEPT ![b].count = remaining]
    /\ IF Len(queue) < QueueSize
       THEN queue' = Append(queue, b) /\ UNCHANGED lost
       ELSE lost' = lost \cup {id} /\ UNCHANGED queue

\* an entry whose id was noted by killTimer is dropped, and the note with it
DropKilled(id) ==
  /\ id \in DOMAIN heap /\ id \in killed
  /\ heap' = Without(heap, id) /\ killed' = killed \ {id}
  /\ UNCHANGED <<pool, online, curId, queue, service, dead, lost>>

\* an endless timer is counted down as well
ExpireCountsAll(id) ==
  /\ id \in DOMAIN heap /\ id \notin killed /\ heap[id].runs > 1
  /\ heap' = IF heap[id].runs = 2 THEN Without(heap, id) ELSE [heap EXCEPT ![id].runs = @ - 1]
  /\ OnTimer(id, heap[id].runs - 1)
  /\ UNCHANGED <<free, online, killed, curId, service, dead>>

\* a repeating timer goes back into the heap, an endless one without being counted
Expire(id) ==
  /\ id \in DOMAIN heap /\ id \notin killed /\ heap[id].runs > 1
  /\ heap' = [heap EXCEPT ![id].runs = IF @ = Endless THEN @ ELSE @ - 1]
  /\ OnTimer(id, heap'[id].runs)
  /\ UNCHANGED <<free, online, killed, curId, service, dead>>

\* the last expiry removes the entry
ExpireLast(id) ==
  /\ id \in DOMAIN heap /\ id \notin killed /\ heap[id].runs = 1
  /\ heap' = Without(heap, id)
  /\ OnTimer(id, 0)
  /\ UNCHANGED <<free, online, killed, curId, service, dead>>
-------------------------------------------------------------------------------
Init ==
  /\ free = SetToSeq(Blocks)
  /\ msg = [b \in Blocks |-> [id |-> 0, count |-> 0, deleteRef |-> 0]]
  /\ online = <<>> /\ heap = <<>> /\ killed = {} /\ curId = 0 /\ queue = <<>>
  /\ pc = "run" /\ inCall = FALSE /\ cur = NoCall /\ victim = 0
  /\ dead = {} /\ lost = {}

TimerThread(id) == DropKilled(id) \/ Expire(id) \/ ExpireLast(id)
Handling == KillTimerEnds \/ TakeLive \/ TakeKilled \/ Return
Next ==
  \/ Handling
  \/ \E c \in Counts : SetTimer(c)
  \/ \E id \in Ids : KillTimer(id) \/ TimerThread(id)

Spec == Init /\ [][Next]_vars

\* Every entry becomes due, and the service thread goes on handling messages; no callback
\* has to set or kill a timer.
FairSpec == Spec /\ WF_vars(Handling) /\ \A id \in Ids : WF_vars(TimerThread(id))
-------------------------------------------------------------------------------
Stored == {b \in Blocks : \E i \in DOMAIN free : free[i] = b}
Registered == {online[id] : id \in DOMAIN online}

TypeOK ==
  /\ free \in Seq(Blocks) /\ Registered \subseteq Blocks
  /\ msg \in [Blocks -> [id : 0 .. MaxTimers, count : Nat, deleteRef : 0 .. QueueSize]]
  /\ DOMAIN online \subseteq Ids /\ (MaxOnline = 0 \/ Cardinality(DOMAIN online) <= MaxOnline)
  /\ DOMAIN heap \subseteq Ids /\ killed \subseteq Ids
  /\ queue \in Seq(Blocks) /\ Len(queue) <= QueueSize
  /\ pc \in {"run", "kill"} /\ inCall \in BOOLEAN

\* No block is given back twice, and none that a registered timer uses is free: two timers
\* never share a block.  A callback may kill its own timer and set a new one, which gets
\* the block at once (comment CService.cpp:908).
PoolSound ==
  /\ TypeOK
  /\ IsInjective(free) /\ Stored \cap Registered = {}
  /\ \A i, j \in DOMAIN online : online[i] = online[j] => i = j

\* No block is lost either: one that is neither free nor registered is about to be given
\* up, or waits for exactly the messages of it that are queued.
NoLeak ==
  \A b \in Blocks \ (Stored \cup Registered) :
    \/ pc = "kill" /\ victim = b
    \/ msg[b].deleteRef > 0 /\ msg[b].deleteRef = Queued(b)

\* Every block of the pool has one owner (CService::setTimer, killTimer, handleTimerMessage).
BlocksSound == PoolSound /\ NoLeak

\* After killTimer has answered, the timer's callback isn't called again, although the
\* timer thread may have queued expiries before.
KillIsFinal == [][~inCall /\ inCall' => cur'.id \notin dead]_vars

\* A timer that is set keeps firing until it is used up or killed, unless an expiry of it
\* didn't fit into the queue.
Fires == \A id \in Ids : (id \in DOMAIN online) ~> (cur.id = id \/ id \notin DOMAIN online \/ id \in lost)

\* "消息已经在队列中了，此时不能释放该消息，只能由消息调度的时候释放" (CService.cpp:705): no
\* block that is queued is free.
QueuedNotFree == \A i \in DOMAIN queue : queue[i] \notin Stored
===============================================================================
