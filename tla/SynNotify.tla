------------------------------- MODULE SynNotify -------------------------------
(***************************************************************************)
(* The turn taking between the connection thread (CConnectManager::run)    *)
(* and the thread that handles its data, the user: CService's loop calling *)
(* CDataHandler::recv, or the thread CDataHandler::run.  They run in       *)
(* parallel except that the connection thread removes and destroys         *)
(* connections only during a sweep, handleConnect(), while the user stands *)
(* still inside waitConnecter().  Three kinds of stop() are in the code:   *)
(* by the user (CNetMsgComm), by another thread, and by a signal handler   *)
(* that interrupts the connection thread itself (CSrvMsgComm); the handler *)
(* is a caller during whose call the connection thread takes no step.      *)
(***************************************************************************)
EXTENDS Naturals

CONSTANTS User,         (* the thread that handles the data                 *)
          Outside,      (* other threads, or the handler: may call stop()   *)
          Kinds         (* of stop() considered                             *)

ASSUME UserAssumption == User \notin Outside
ASSUME KindsAssumption == Kinds \subseteq {"user", "outside", "handler"}

Callers == {User} \cup Outside          \* of waitConnecter()

VARIABLES stopper,      (* which kind of stop() this program uses; never changes *)
          mStatus,      (* m_status is 1: the connection thread shall run   *)
          status,       (* m_synNotify.status                               *)
          cpc,          (* where the connection thread is                   *)
          pc,           (* where each caller is                             *)
          stopping      (* the caller is inside stop()                      *)

vars == <<stopper, mStatus, status, cpc, pc, stopping>>
-------------------------------------------------------------------------------
(* the callers: waitConnecter() *)

\* the user handles data, using connections, and then calls waitConnecter (again)
Call ==
  /\ pc[User] = "run" /\ pc' = [pc EXCEPT ![User] = "test"]
  /\ UNCHANGED <<stopper, mStatus, status, cpc, stopping>>

\* stop(): m_status = 0, then waitConnecter()
Stop(t) ==
  /\ IF t = User THEN stopper = "user" /\ pc[t] = "run"
                 ELSE stopper # "user" /\ pc[t] = "out" /\ cpc # "done"
  /\ mStatus' = FALSE
  /\ stopping' = [stopping EXCEPT ![t] = TRUE]
  /\ pc' = [pc EXCEPT ![t] = "test"]
  /\ UNCHANGED <<stopper, status, cpc>>

After(t) == IF stopping[t] THEN "done" ELSE "run"

\* the status isn't looked at: the turn is offered every time
TestNot(t) ==
  /\ pc[t] = "test" /\ pc' = [pc EXCEPT ![t] = "grant"]
  /\ UNCHANGED <<stopper, mStatus, status, cpc, stopping>>

\* m_synNotify.status == waitDH, without a lock
Test(t) ==
  /\ pc[t] = "test"
  /\ pc' = [pc EXCEPT ![t] = IF status = "waitDH" THEN "grant" ELSE After(t)]
  /\ UNCHANGED <<stopper, mStatus, status, cpc, stopping>>

\* the mutex isn't taken, so this may happen while the connection thread is about to block
GrantUnlocked(t) ==
  /\ pc[t] = "grant"
  /\ status' = "waitConn" /\ pc' = [pc EXCEPT ![t] = "signal"]
  /\ UNCHANGED <<stopper, mStatus, cpc, stopping>>

\* status = waitConn under waitDataHandlerMutex, free unless the connection thread holds it
Grant(t) ==
  /\ pc[t] = "grant" /\ cpc # "block"
  /\ status' = "waitConn" /\ pc' = [pc EXCEPT ![t] = "signal"]
  /\ UNCHANGED <<stopper, mStatus, cpc, stopping>>

\* waitDataHandlerCond.signal(), after the unlock
Signal(t) ==
  /\ pc[t] = "signal" /\ pc' = [pc EXCEPT ![t] = "await"]
  /\ cpc' = IF cpc = "blocked" THEN "woken" ELSE cpc
  /\ UNCHANGED <<stopper, mStatus, status, stopping>>

\* the user doesn't wait for the sweep to end
AwaitNot(t) ==
  /\ pc[t] \in {"await", "woken"} /\ pc' = [pc EXCEPT ![t] = After(t)]
  /\ UNCHANGED <<stopper, mStatus, status, cpc, stopping>>

\* under waitConnecterMutex: block while status is waitConn
Await(t) ==
  /\ pc[t] \in {"await", "woken"}
  /\ pc' = [pc EXCEPT ![t] = IF status = "waitConn" THEN "blocked" ELSE After(t)]
  /\ UNCHANGED <<stopper, mStatus, status, cpc, stopping>>

\* a wait of a caller ends without a signal
CallerSpurious(t) ==
  /\ pc[t] = "blocked" /\ pc' = [pc EXCEPT ![t] = "woken"]
  /\ UNCHANGED <<stopper, mStatus, status, cpc, stopping>>

\* CDataHandler::run leaves its loop once the connection thread asked it to finish
UserEnds ==
  /\ pc[User] = "run" /\ cpc = "join" /\ stopper # "user"
  /\ pc' = [pc EXCEPT ![User] = "done"]
  /\ UNCHANGED <<stopper, mStatus, status, cpc, stopping>>
-------------------------------------------------------------------------------
(* the connection thread *)

\* ExitProcess() runs on top of it
Interrupted == stopper = "handler" /\ \E t \in Outside : pc[t] \notin {"out", "done"}

\* the loop of run(), up to the last isRunning() before a sweep
Listen ==
  /\ cpc = "listen" /\ cpc' = IF mStatus THEN "enter" ELSE "join"
  /\ UNCHANGED <<stopper, mStatus, status, pc, stopping>>

\* waitDataHandler(): lock; status = waitDH
Enter ==
  /\ cpc = "enter" /\ cpc' = "block" /\ status' = "waitDH"
  /\ UNCHANGED <<stopper, mStatus, pc, stopping>>

\* wait: give the mutex up and block
Block ==
  /\ cpc = "block" /\ cpc' = "blocked"
  /\ UNCHANGED <<stopper, mStatus, status, pc, stopping>>

\* woken up and taken for granted
WakeAlways ==
  /\ cpc = "woken" /\ cpc' = "sweep"
  /\ UNCHANGED <<stopper, mStatus, status, pc, stopping>>

\* while (status == waitDH) wait
Wake ==
  /\ cpc = "woken" /\ cpc' = IF status = "waitDH" THEN "blocked" ELSE "sweep"
  /\ UNCHANGED <<stopper, mStatus, status, pc, stopping>>

\* the wait ends without a signal
Spurious ==
  /\ cpc = "blocked" /\ cpc' = "woken"
  /\ UNCHANGED <<stopper, mStatus, status, pc, stopping>>

\* the sweep is over; notifyDataHandler(): status = parallel under waitConnecterMutex
Notify ==
  /\ cpc = "sweep" /\ cpc' = "notify" /\ status' = "parallel"
  /\ UNCHANGED <<stopper, mStatus, pc, stopping>>

\* nobody is signalled
SignalCallerNot ==
  /\ cpc = "notify" /\ cpc' = "listen"
  /\ UNCHANGED <<stopper, mStatus, status, pc, stopping>>

\* waitConnecterCond.signal() wakes one of the blocked
SignalCaller ==
  /\ cpc = "notify" /\ cpc' = "listen"
  /\ LET blocked == {t \in Callers : pc[t] = "blocked"}
     IN IF blocked = {} THEN UNCHANGED pc
        ELSE \E t \in blocked : pc' = [pc EXCEPT ![t] = "woken"]
  /\ UNCHANGED <<stopper, mStatus, status, stopping>>

\* the end of run(): wait for CDataHandler's thread if there is one, then clear()
Join ==
  /\ cpc = "join" /\ (stopper # "user" => pc[User] = "done")
  /\ cpc' = "done" /\ status' = "parallel" /\ mStatus' = FALSE
  /\ UNCHANGED <<stopper, pc, stopping>>
-------------------------------------------------------------------------------
\* run() has set m_status
Init ==
  /\ stopper \in Kinds /\ mStatus = TRUE /\ status = "parallel" /\ cpc = "listen"
  /\ pc = [t \in Callers |-> IF t = User THEN "run" ELSE "out"]
  /\ stopping = [t \in Callers |-> FALSE]

Waiting(t) == Test(t) \/ Grant(t) \/ Signal(t) \/ Await(t)
Connecting ==
  /\ ~Interrupted
  /\ Listen \/ Enter \/ Block \/ Wake \/ Notify \/ SignalCaller \/ Join

Next ==
  \/ Connecting \/ Spurious
  \/ Call \/ UserEnds
  \/ \E t \in Callers : Stop(t) \/ Waiting(t) \/ CallerSpurious(t)

Spec == Init /\ [][Next]_vars

\* Every thread keeps running, and the user goes on calling waitConnecter until it stops;
\* each round of CDataHandler::run tests whether it shall finish.
FairSpec == /\ Spec /\ WF_vars(Connecting) /\ WF_vars(Call) /\ SF_vars(UserEnds)
            /\ \A t \in Callers : WF_vars(Waiting(t))
-------------------------------------------------------------------------------
TypeOK ==
  /\ stopper \in Kinds /\ mStatus \in BOOLEAN
  /\ status \in {"parallel", "waitDH", "waitConn"}
  /\ cpc \in {"listen", "enter", "block", "blocked", "woken", "sweep", "notify",
              "join", "done"}
  /\ pc \in [Callers -> {"out", "run", "test", "grant", "signal", "await", "blocked",
                         "woken", "done"}]
  /\ stopping \in [Callers -> BOOLEAN]

OutsideQuiet == \A t \in Outside : pc[t] = "out"

\* A sweep destroys connections; the user holds pointers to them.  They exclude each
\* other, whoever is slow and however waits end, until a stop() by another thread takes
\* the turn in the user's name.
Exclusion == ~(cpc = "sweep" /\ pc[User] = "run")
MutualExclusion == stopper # "outside" \/ OutsideQuiet => Exclusion

\* The two conditions are signalled after the unlock.  A thread that sleeps although its
\* condition has come true is about to be signalled.
NoLostSignal ==
  OutsideQuiet =>
    /\ cpc = "blocked" /\ status # "waitDH" => pc[User] = "signal"
    /\ pc[User] = "blocked" /\ status # "waitConn" => cpc = "notify"

Granted(t) == pc[t] \in {"signal", "await", "blocked", "woken"}
Offering == cpc \in {"block", "blocked", "woken"}

\* Why: the turn is only ever taken while it is offered, and it is the user who is then
\* standing still, or a handler on top of the connection thread.
TurnInv ==
  /\ TypeOK
  /\ stopper = "user" => OutsideQuiet
  /\ stopper # "outside" \/ OutsideQuiet =>
       /\ cpc = "block" => status = "waitDH"
       /\ status = "waitDH" => Offering
       /\ Offering => status # "parallel"
       /\ status = "waitConn" => Offering \/ cpc = "sweep"
       /\ cpc = "sweep" => status = "waitConn" /\ Granted(User)
       /\ pc[User] = "grant" => Offering
       /\ status = "waitConn" => \E t \in Callers : Granted(t)
       /\ \A t \in Outside :
            /\ pc[t] = "grant" \/ Granted(t) => Offering
            /\ Granted(t) => status = "waitConn"
  /\ NoLostSignal

\* The connection thread gets its turn unless the user is gone, and gives it back.
Turns ==
  /\ (cpc = "block") ~> (cpc = "sweep" \/ pc[User] = "done" \/ ~OutsideQuiet)
  /\ (pc[User] = "grant") ~> (pc[User] \in {"run", "done"} \/ ~OutsideQuiet)

\* "必须唤醒连接线程，等待连接线程处理完 否则...导致死锁，无法退出" (CConnectManager.cpp:246):
\* after stop() the connection thread ends.  Does not hold: README, part 5.
StopStops == (\E t \in Callers : stopping[t]) ~> (cpc = "done")
===============================================================================
