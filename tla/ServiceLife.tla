------------------------------- MODULE ServiceLife -------------------------------
(***************************************************************************)
(* How a service starts, runs and stops (CService::start, run, clear), and *)
(* with it its connection thread (CNetConnectThread, CConnectManager::run) *)
(* and its timer thread.  The threads share plain flags: m_isRunning, on   *)
(* which the service waits, m_status, by which it stops the connection     *)
(* thread, and the pointer to the object through which it receives, which  *)
(* is a local variable of that thread.                                     *)
(*                                                                         *)
(* Each start may fail.  Any module may stop the service in a callback, a  *)
(* signal may in the main loop.  The hand-over inside stop() always        *)
(* returns (SynNotify), and is left out.                                   *)
(***************************************************************************)
EXTENDS Naturals, Sequences, FiniteSets

CONSTANTS Registered,   \* m_moduleInstance: the module object registered under each id
          MaxUpdates    \* bound on the changes of the configuration

ModuleIds == DOMAIN Registered
Modules == {Registered[i] : i \in ModuleIds}

VARIABLES sv,          \* the service thread; `at` is the module id its loop is at
          runFlag,     \* m_runFlag # 0
          ct,          \* the connection thread
          mgr,         \* m_connMgr: "none", "live" or "freed"
          isRunning, runResult,   \* of CNetConnectThread; runResult is TRUE for Success
          status,      \* m_status
          handler,     \* m_dataHandler: "null", "set", or "gone" when what it points to is
          timer,       \* the timer thread: "none", "rest", "firing" or "ended"
          timerRun,    \* CTimer's m_isRun
          loads, unloads,         \* how often each module was loaded and unloaded
          notified,    \* m_isNotifyUpdateConfig
          config, seen \* version of the configuration files, and the one the service has read

net == <<ct, mgr, isRunning, runResult, status, handler>>
timers == <<timer, timerRun>>
modules == <<loads, unloads>>
updates == <<notified, config, seen>>
vars == <<sv, runFlag, net, timers, modules, updates>>

Init == /\ sv = [pc |-> "timer", at |-> 1]
        /\ runFlag = FALSE
        /\ ct = "none" /\ mgr = "none"
        /\ isRunning = FALSE /\ runResult = TRUE /\ status = 0
        /\ handler = "null"
        /\ timer = "none" /\ timerRun = FALSE
        /\ loads = [m \in Modules |-> 0] /\ unloads = [m \in Modules |-> 0]
        /\ notified = FALSE /\ config = 0 /\ seen = 0

At(pc) == sv.pc = pc
Go(pc) == sv' = [pc |-> pc, at |-> 1]

-----------------------------------------------------------------------------
(* CService::start.                                                        *)

StartTimer ==
  /\ At("timer")
  /\ \/ Go("comm") /\ timer' = "rest" /\ timerRun' = TRUE
     \/ Go("exited") /\ timerRun' = TRUE /\ UNCHANGED timer
  /\ UNCHANGED <<runFlag, net, modules, updates>>

\* The shared memory of the node is there, or the service gives up.
InitComm == /\ At("comm")
            /\ Go("net") \/ Go("clear")
            /\ UNCHANGED <<runFlag, net, timers, modules, updates>>

\* startNetConnect: a new manager; its address may be in use, or the thread may not be created.
StartNet ==
  /\ At("net")
  /\ mgr' = "live"
  /\ \/ Go("await") /\ ct' = "created"
     \/ Go("clear") /\ UNCHANGED ct
  /\ UNCHANGED <<runFlag, isRunning, runResult, status, handler, timers, modules, updates>>

\* It polls the thread's flag and, while that is down, its result.
AwaitRunning == /\ At("await")
                /\ IF isRunning THEN Go("init") ELSE Go("await_result")
                /\ UNCHANGED <<runFlag, net, timers, modules, updates>>
AwaitResult == /\ At("await_result")
               /\ IF runResult THEN Go("await") ELSE Go("clear")
               /\ UNCHANGED <<runFlag, net, timers, modules, updates>>

-----------------------------------------------------------------------------
(* CService::run.                                                          *)

\* What a callback may do to the service: nothing, or stop it.
MayStop == runFlag' \in {runFlag, TRUE}

\* onInit may fail or stop the service, which ends it; else onRegister follows, which may stop it too.
OnInit == /\ At("init")
          /\ \/ runFlag' \in BOOLEAN /\ Go("load")
             \/ runFlag' \in BOOLEAN /\ Go("clear")
          /\ UNCHANGED <<net, timers, modules, updates>>

\* MUTANT of First: an object is called under each id it is registered with.
FirstAlways(i) == TRUE

\* An object registered under several ids is called for the first of them.
First(i) == \A j \in 1..(i - 1) : Registered[j] # Registered[i]

Step == sv' = [sv EXCEPT !.at = @ + 1]
Finished == sv.at > Len(Registered)

Load ==
  /\ At("load")
  /\ \/ /\ ~Finished /\ ~runFlag
        /\ Step
        /\ IF First(sv.at) THEN loads' = [loads EXCEPT ![Registered[sv.at]] = @ + 1] /\ MayStop
                           ELSE UNCHANGED <<runFlag, loads>>
     \/ (Finished \/ runFlag) /\ Go("start") /\ UNCHANGED <<runFlag, loads>>
  /\ UNCHANGED <<net, timers, unloads, updates>>

OnRun == /\ At("start")
         /\ \/ ~Finished /\ ~runFlag /\ Step /\ MayStop
            \/ (Finished \/ runFlag) /\ Go("loop") /\ UNCHANGED runFlag
         /\ UNCHANGED <<net, timers, modules, updates>>

\* A round of the main loop.  Without the object to receive through, the service crashes.
Round ==
  /\ At("loop")
  /\ \/ runFlag /\ Go("unload") /\ UNCHANGED runFlag
     \/ ~runFlag /\ handler # "set" /\ Go("crashed") /\ UNCHANGED runFlag
     \/ ~runFlag /\ handler = "set" /\ Go("onHandle") /\ MayStop
  /\ UNCHANGED <<net, timers, modules, updates>>

TakeUpdate ==
  /\ At("onHandle")
  /\ notified' = FALSE
  /\ IF notified THEN Go("reload") ELSE Go("loop")
  /\ UNCHANGED <<runFlag, net, timers, modules, config, seen>>

Reload == /\ At("reload")
          /\ seen' = config
          /\ Go("updated")
          /\ UNCHANGED <<runFlag, net, timers, modules, notified, config>>

\* MUTANT of Updated: the flag is lowered when the reload is done.
UpdatedLowers == /\ At("updated")
                 /\ Go("loop") /\ MayStop
                 /\ notified' = FALSE
                 /\ UNCHANGED <<net, timers, modules, config, seen>>

Updated == /\ At("updated")
           /\ Go("loop") /\ MayStop
           /\ UNCHANGED <<net, timers, modules, updates>>

\* onUnLoad is called for every registered object, loaded or not.
Unload ==
  /\ At("unload")
  /\ \/ /\ ~Finished
        /\ Step
        /\ unloads' = IF First(sv.at) THEN [unloads EXCEPT ![Registered[sv.at]] = @ + 1] ELSE unloads
     \/ Finished /\ Go("clear") /\ UNCHANGED unloads
  /\ UNCHANGED <<runFlag, net, timers, loads, updates>>

-----------------------------------------------------------------------------
(* unInit and clear.                                                       *)

StopNet == /\ At("clear")
           /\ IF mgr = "live" THEN status' = 0 /\ Go("net_ends") ELSE Go("join") /\ UNCHANGED status
           /\ timerRun' = IF mgr = "live" THEN timerRun ELSE FALSE
           /\ UNCHANGED <<runFlag, ct, mgr, isRunning, runResult, handler, timer, modules, updates>>

\* MUTANT of NetEnds: the manager is deleted without waiting for the thread.
NetEndsAtOnce == /\ At("net_ends")
                 /\ mgr' = "freed"
                 /\ timerRun' = FALSE
                 /\ Go("join")
                 /\ UNCHANGED <<runFlag, ct, isRunning, runResult, status, handler, timer, modules, updates>>

NetEnds == /\ At("net_ends") /\ ~isRunning
           /\ mgr' = "freed"
           /\ timerRun' = FALSE
           /\ Go("join")
           /\ UNCHANGED <<runFlag, ct, isRunning, runResult, status, handler, timer, modules, updates>>

\* stopTimer joins the thread; only then the queues and pools are emptied.
Join == /\ At("join") /\ timer = "ended"
        /\ Go("exited")
        /\ UNCHANGED <<runFlag, net, timers, modules, updates>>

Service == StartTimer \/ InitComm \/ StartNet \/ AwaitRunning \/ AwaitResult \/ OnInit \/ Load \/ OnRun
           \/ Round \/ TakeUpdate \/ Reload \/ Updated \/ Unload \/ StopNet \/ NetEnds \/ Join

-----------------------------------------------------------------------------
(* The connection thread: CNetConnectThread::run, CConnectManager::run.    *)

BeginRun == /\ ct = "created"
            /\ ct' = "run"
            /\ isRunning' = TRUE
            /\ UNCHANGED <<sv, runFlag, mgr, runResult, status, handler, timers, modules, updates>>

\* epoll, then the handler object; the run ends early when epoll or the listener fails.
SetHandler ==
  /\ ct = "run"
  /\ \/ ct' = "listen" /\ handler' = "set" /\ UNCHANGED runResult
     \/ ct' = "ending" /\ runResult' = FALSE /\ UNCHANGED handler
  /\ UNCHANGED <<sv, runFlag, mgr, isRunning, status, timers, modules, updates>>

Listen ==
  /\ ct = "listen"
  /\ \/ ct' = "enter" /\ UNCHANGED <<runResult, handler>>
     \/ ct' = "ending" /\ runResult' = FALSE /\ handler' = "gone"
  /\ UNCHANGED <<sv, runFlag, mgr, isRunning, status, timers, modules, updates>>

EnterLoop == /\ ct = "enter"
             /\ status' = 1
             /\ ct' = "loop"
             /\ UNCHANGED <<sv, runFlag, mgr, isRunning, runResult, handler, timers, modules, updates>>

LeaveLoop == /\ ct = "loop" /\ status = 0
             /\ ct' = "ending"
             /\ handler' = "gone"
             /\ UNCHANGED <<sv, runFlag, mgr, isRunning, runResult, status, timers, modules, updates>>

EndRun == /\ ct = "ending"
          /\ isRunning' = FALSE
          /\ ct' = "ended"
          /\ UNCHANGED <<sv, runFlag, mgr, runResult, status, handler, timers, modules, updates>>

Connector == BeginRun \/ SetHandler \/ Listen \/ EnterLoop \/ LeaveLoop \/ EndRun

-----------------------------------------------------------------------------
(* The timer thread, and what comes from outside.                          *)

InLoop == sv.pc \in {"loop", "onHandle", "reload", "updated"}

Fire == /\ timer = "rest" /\ timerRun
        /\ timer' = "firing"
        /\ UNCHANGED <<sv, runFlag, net, timerRun, modules, updates>>
Fired == /\ timer = "firing"
         /\ timer' = "rest"
         /\ UNCHANGED <<sv, runFlag, net, timerRun, modules, updates>>
EndTimer == /\ timer = "rest" /\ ~timerRun
            /\ timer' = "ended"
            /\ UNCHANGED <<sv, runFlag, net, timerRun, modules, updates>>

\* The signal handler is installed before the main loop.
ExitService == /\ InLoop
               /\ runFlag' = TRUE
               /\ UNCHANGED <<sv, net, timers, modules, updates>>

\* The files are changed, and the monitor of the configuration notifies the service.
NotifyUpdate == /\ InLoop
                /\ config < MaxUpdates
                /\ config' = config + 1
                /\ notified' = TRUE
                /\ UNCHANGED <<sv, runFlag, net, timers, modules, seen>>

TimerThread == Fire \/ Fired \/ EndTimer
Next == Service \/ Connector \/ TimerThread \/ ExitService \/ NotifyUpdate

Spec == Init /\ [][Next]_vars /\ WF_vars(Service) /\ WF_vars(Connector) /\ WF_vars(Fired \/ EndTimer)

-----------------------------------------------------------------------------
TypeOK == /\ sv.at \in 1..(Len(Registered) + 1)
          /\ mgr \in {"none", "live", "freed"} /\ handler \in {"null", "set", "gone"}
          /\ status \in {0, 1} /\ seen <= config

\* The connection thread never works for a manager that has been deleted, nor the timer thread for
\* a service that has given its queues and pools back.
NoneLeftBehind == /\ mgr = "freed" => ct \in {"none", "ended"}
                  /\ At("exited") => timer \in {"none", "ended"}

\* Each module object is loaded and unloaded at most once, however many ids it has, and a service that
\* ends regularly unloads what it has loaded.
ModulesPaired == \A m \in Modules : /\ loads[m] <= 1 /\ unloads[m] <= 1
                                    /\ At("exited") => loads[m] <= unloads[m]

\* A service that is told to stop ends, provided that the connection thread has entered its loop by
\* then: before, the thread would overwrite the order to stop.
ToldToStop == runFlag /\ status = 1 /\ sv.pc \notin {"clear", "net_ends"}
Exits == ToldToStop ~> At("exited")

\* A change of the configuration is read, also one that comes while an earlier one is being read,
\* unless the service stops.
Seen(v) == seen >= v \/ runFlag \/ At("crashed")
UpdateSeen == \A v \in 1..MaxUpdates : config = v ~> Seen(v)

\* "The service may call stopService at any point to stop and exit" (CService.cpp:324).
StopsAtAnyPoint == runFlag ~> (At("exited") \/ At("crashed"))

\* "Must first be initialised successfully before messages can be received or sent" (CNetMsgComm.cpp:113).
InitMeansReady == sv.pc \in {"init", "load", "start", "loop", "onHandle", "reload", "updated"} => handler = "set"

\* A module is unloaded only if it was loaded.
UnloadsLoaded == \A m \in Modules : unloads[m] <= loads[m]
=============================================================================
