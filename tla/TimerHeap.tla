-------------------------------- MODULE TimerHeap --------------------------------
(***************************************************************************)
(* The timers of CTimer: a vector kept as a heap on the time at which each *)
(* is due next.  Its thread reads the clock, then takes one timer after    *)
(* the other that is due by that time, each under the lock, puts it back   *)
(* if it is to run again and calls OnTimer; callbacks and other threads    *)
(* set and kill timers.  Entries come from a pool, an id for each call of  *)
(* setTimer.                                                               *)
(***************************************************************************)
EXTENDS Naturals, FiniteSets, SequencesExt

CONSTANTS MaxTimers,   \* bound on the calls of setTimer
          Kinds,       \* the timers asked for, pairs of an interval and a number of runs
          MinGap,      \* the smallest interval: 100 ms
          Slack,       \* a timer is taken this much before it is due: 5 ms
          MaxTime,     \* bound on the clock
          MaxKills     \* bound on the ids in m_umapKillTimer at a time

Ids == 1..MaxTimers
Endless == 0           \* (unsigned) -1 runs; none at all are refused

VARIABLES heap,        \* m_vTimer, the timer ids
          due,         \* lastExeTimestamp + timeGap of each timer
          gap, runs,   \* timeGap and runCounts of each timer
          last,        \* m_curTimerId
          killed,      \* m_umapKillTimer
          now,         \* the clock
          scan,        \* the timer thread: `at` is nowMs, `fired` what it has called in this scan
          run,         \* m_isRun
          over         \* timers that have been called for the last time, dropped or cleared

vars == <<heap, due, gap, runs, last, killed, now, scan, run, over>>

Init == /\ heap = <<>>
        /\ due = [t \in Ids |-> 0] /\ gap = [t \in Ids |-> 0] /\ runs = [t \in Ids |-> 0]
        /\ last = 0 /\ killed = {} /\ now = 0
        /\ scan = [on |-> FALSE, at |-> 0, fired |-> <<>>]
        /\ run = TRUE /\ over = {}

-----------------------------------------------------------------------------
(* The heap, with the times in d.  Each fold makes at most one step a      *)
(* level.                                                                  *)

Earlier(d, t, u) == d[t] < d[u]                          \* cmpTimerInfo < 0
Swap(h, i, j) == [h EXCEPT ![i] = h[j], ![j] = h[i]]

Up(d, s) == LET p == s.at \div 2
            IN IF s.at > 1 /\ Earlier(d, s.h[s.at], s.h[p]) THEN [h |-> Swap(s.h, s.at, p), at |-> p] ELSE s

Insert(h, d, t) == FoldLeft(LAMBDA s, level : Up(d, s), [h |-> Append(h, t), at |-> Len(h) + 1], h).h

\* MUTANT of Child: the left child is always taken.
ChildLeft(h, d, i) == 2 * i

\* The child that is due first, the right one if they are due together.
Child(h, d, i) == IF 2 * i + 1 <= Len(h) /\ ~Earlier(d, h[2 * i], h[2 * i + 1]) THEN 2 * i + 1 ELSE 2 * i

Down(d, s) == IF 2 * s.at <= Len(s.h) /\ ~Earlier(d, s.h[s.at], s.h[Child(s.h, d, s.at)])
              THEN [h |-> Swap(s.h, s.at, Child(s.h, d, s.at)), at |-> Child(s.h, d, s.at)] ELSE s

\* MUTANT of Erase: the last entry is cut off without having been moved to the front.
EraseLast(h, d) == Front(h)

\* eraseTimer(0): the last entry takes the first place and goes down.
Erase(h, d) == LET moved == Front([h EXCEPT ![1] = Last(h)])
               IN FoldLeft(LAMBDA s, level : Down(d, s), [h |-> moved, at |-> 1], moved).h

-----------------------------------------------------------------------------
\* MUTANT of Interval: any interval is accepted.
IntervalAny(g) == g

Interval(g) == IF g < MinGap THEN MinGap ELSE g

\* setTimer, under the lock, which a callback holds already.
SetTimer(g, n) ==
  /\ last < MaxTimers
  /\ last' = last + 1
  /\ LET t == last + 1
         d == [due EXCEPT ![t] = now + Interval(g)]
     IN /\ due' = d
        /\ gap' = [gap EXCEPT ![t] = Interval(g)]
        /\ runs' = [runs EXCEPT ![t] = n]
        /\ heap' = Insert(heap, d, t)
  /\ UNCHANGED <<killed, now, scan, run, over>>

\* killTimer only notes the id, of whatever timer.
KillTimer(t) == /\ t \in (1..last) \ killed
                /\ Cardinality(killed) < MaxKills
                /\ killed' = killed \cup {t}
                /\ UNCHANGED <<heap, due, gap, runs, last, now, scan, run, over>>

-----------------------------------------------------------------------------
(* The timer thread.                                                       *)

Begin == /\ ~scan.on /\ run
         /\ scan' = [on |-> TRUE, at |-> now, fired |-> <<>>]
         /\ UNCHANGED <<heap, due, gap, runs, last, killed, now, run, over>>

DueNow == heap # <<>> /\ due[Head(heap)] <= scan.at + Slack
Taken == scan.on /\ run /\ DueNow

\* The entry goes back to the pool.
Released(t) == /\ heap' = Erase(heap, due)
               /\ over' = over \cup {t}
               /\ due' = [due EXCEPT ![t] = 0] /\ gap' = [gap EXCEPT ![t] = 0] /\ runs' = [runs EXCEPT ![t] = 0]

DropKilled == /\ Taken
              /\ Head(heap) \in killed
              /\ killed' = killed \ {Head(heap)}
              /\ Released(Head(heap))
              /\ UNCHANGED <<last, now, scan, run>>

\* The next interval begins at the time of the scan.
Rearmed(t) == [due EXCEPT ![t] = scan.at + gap[t]]

\* OnTimer, which may kill its own timer; what it sets is set under the same lock, that is next.
Fire(kills) ==
  /\ Taken
  /\ LET t == Head(heap)
     IN /\ t \notin killed
        /\ scan' = [scan EXCEPT !.fired = Append(@, t)]
        /\ \/ /\ runs[t] # 1
              /\ runs' = [runs EXCEPT ![t] = IF @ = Endless THEN @ ELSE @ - 1]
              /\ due' = Rearmed(t)
              /\ heap' = Insert(Erase(heap, due), due', t)
              /\ killed' = IF kills THEN killed \cup {t} ELSE killed
              /\ UNCHANGED <<gap, over>>
           \/ /\ runs[t] = 1
              /\ Released(t)
              /\ UNCHANGED killed
  /\ UNCHANGED <<last, now, run>>

End == /\ scan.on /\ ~(run /\ DueNow)
       /\ scan' = [scan EXCEPT !.on = FALSE, !.fired = <<>>]
       /\ UNCHANGED <<heap, due, gap, runs, last, killed, now, run, over>>

\* stopTimer, and clearAllTimer when the thread has been joined.
Stop == /\ run
        /\ run' = FALSE
        /\ UNCHANGED <<heap, due, gap, runs, last, killed, now, scan, over>>
ClearAll == /\ ~run /\ ~scan.on
            /\ heap' = <<>> /\ killed' = {}
            /\ over' = over \cup ToSet(heap)
            /\ due' = [t \in Ids |-> 0] /\ gap' = [t \in Ids |-> 0] /\ runs' = [t \in Ids |-> 0]
            /\ UNCHANGED <<last, now, scan, run>>

Tick == /\ now < MaxTime
        /\ now' = now + 1
        /\ UNCHANGED <<heap, due, gap, runs, last, killed, scan, run, over>>

TimerThread == Begin \/ DropKilled \/ End \/ \E kills \in BOOLEAN : Fire(kills)

Next == \/ TimerThread \/ Tick \/ Stop \/ ClearAll
        \/ \E k \in Kinds : SetTimer(k[1], k[2])
        \/ \E t \in Ids : KillTimer(t)

Spec == Init /\ [][Next]_vars

-----------------------------------------------------------------------------

TypeOK == /\ \A t \in Ids : due[t] \in 0..(2 * MaxTime + MinGap) /\ runs[t] \in Nat
          /\ killed \cup over \subseteq 1..last

\* A timer is in the vector once, from setTimer until its last call, its being dropped or clearAllTimer.
NoneMissing == IsInjective(heap) /\ ToSet(heap) = (1..last) \ over

\* In one scan a timer is called once at most, however far the thread lags behind the clock.
OncePerScan == IsInjective(scan.fired)

\* The vector works as an agenda: a timer that is served, dropped or put off is one that is due first,
\* and what is put off is not due again in the same scan.
Timetable == INSTANCE Agenda WITH Timers <- Ids, pending <- [t \in ToSet(heap) |-> due[t]], clock <- scan.at
ImplementsAgenda == Timetable!Spec
=============================================================================
