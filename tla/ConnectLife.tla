------------------------------ MODULE ConnectLife ------------------------------
(***************************************************************************)
(* The life of a connection in CConnectManager: accepted, queued for the   *)
(* service while it has data, written to, closed and destroyed.  Two       *)
(* threads work on it without a lock: the connection thread (ct), which    *)
(* alone adds to the list of message connections, and the service thread   *)
(* (user), which walks that list in CDataHandler::recv and sends and       *)
(* closes on its own.  Only the sweep over all connections excludes the    *)
(* user: it runs while the user stands in waitConnecter (module SynNotify; *)
(* its theorem SweepExcludesUser is what the action Grant relies on).      *)
(*                                                                         *)
(* A connection is a block of memory that is used again after it has been  *)
(* destroyed; its id tells the uses apart.  Buffers are abstracted to      *)
(* whether there is one and whether it holds bytes, packages to whether    *)
(* any is readable, time to choice.                                        *)
(***************************************************************************)
EXTENDS Naturals, SequencesExt

CONSTANTS Conns,        \* blocks of m_connMemory
          NULL,
          CheckTimes,   \* m_checkTimes: sweeps without data before a connection leaves the list
          Uses,         \* "keep", "send", "close": what the service does; "heartbeat": whether these fall due
          MaxIds        \* bound on the connections accepted

ASSUME CheckTimesAssumption == CheckTimes \in Nat \ {0}
ASSUME MaxIdsAssumption == MaxIds \in Nat
ASSUME NullAssumption == NULL \notin Conns
ASSUME UsesAssumption == Uses \subseteq {"keep", "send", "close", "heartbeat"}

VARIABLES conn,         \* the blocks, as struct Connect
          connectMap,   \* m_connectMap: the blocks in use
          msgList,      \* m_msgConnectList
          curConn,      \* m_curConn, where the user's walk stands
          connId,       \* m_connId
          ct,           \* the connection thread
          user,         \* the service thread
          held,         \* the id under which the service keeps a pointer to the block, or 0
          notices       \* m_closedClientConnectQueue

vars == <<conn, connectMap, msgList, curConn, connId, ct, user, held, notices>>

\* One struct Connect; its userCb is set while held[c] is its id.
Fresh(id) == [id |-> id, fd |-> TRUE, connStatus |-> "normal", logicStatus |-> "normal",
              writeBuff |-> "none", times |-> 0, data |-> FALSE]
\* A block outside the map: of what was in it only these two are ever read.
Destroyed == [Fresh(0) EXCEPT !.fd = FALSE, !.logicStatus = "deleted"]

Init == /\ conn = [c \in Conns |-> Destroyed]
        /\ connectMap = {} /\ msgList = <<>> /\ curConn = NULL /\ connId = 0
        /\ ct = [pc |-> "events", on |-> NULL, todo |-> {}]
        /\ user = [pc |-> "skip", begin |-> NULL, on |-> NULL, ret |-> "skip"]
        /\ held = [c \in Conns |-> 0]
        /\ notices = <<>>

Listed(c) == c \in Range(msgList)
ListHead == IF msgList = <<>> THEN NULL ELSE Head(msgList)
\* A block's pNext; that of a block in no list is NULL.
PNext(c) == IF \E i \in 1..(Len(msgList) - 1) : msgList[i] = c
              THEN msgList[1 + CHOOSE i \in 1..(Len(msgList) - 1) : msgList[i] = c]
              ELSE NULL
\* removeConnect takes a block out of the list; to one in no list it does nothing.
Unlinked(c) == IF Listed(c) THEN RemoveAt(msgList, CHOOSE i \in DOMAIN msgList : msgList[i] = c) ELSE msgList
Normal(c) == conn[c].connStatus = "normal" /\ conn[c].logicStatus = "normal"
\* What a write to a socket may leave of the bytes in the buffer.
Flushed(c) == IF conn[c].writeBuff = "data" /\ conn[c].fd THEN {"data", "empty"} ELSE {conn[c].writeBuff}

-----------------------------------------------------------------------------
(* The connection thread between two sweeps, concurrent with the user.     *)

Go(pc) == ct' = [ct EXCEPT !.pc = pc]
Events == ct' = [ct EXCEPT !.pc = "events", !.on = NULL]
Handle(c, pc) == ct' = [ct EXCEPT !.pc = pc, !.on = c]
KeepUser == UNCHANGED <<curConn, user, held>>

Accept(c) ==
  /\ ct.pc = "events" /\ c \notin connectMap /\ connId < MaxIds
  /\ connId' = connId + 1
  /\ conn' = [conn EXCEPT ![c] = Fresh(connId + 1)]
  /\ connectMap' = connectMap \union {c}
  /\ KeepUser /\ UNCHANGED <<msgList, ct, notices>>

\* MUTANT of Readable: counts the connection as queued before it is linked.
ReadableCountsFirst(c) ==
  /\ ct.pc = "events" /\ c \in connectMap /\ conn[c].fd
  /\ Handle(c, IF conn[c].times = 0 THEN "insert" ELSE "commit")
  /\ conn' = [conn EXCEPT ![c].times = IF @ = 0 THEN CheckTimes + 1 ELSE @]
  /\ KeepUser /\ UNCHANGED <<connectMap, msgList, connId, notices>>

\* Bytes were read: queue the connection first, then commit the bytes to the buffer.
Readable(c) ==
  /\ ct.pc = "events" /\ c \in connectMap /\ conn[c].fd
  /\ Handle(c, IF conn[c].times = 0 THEN "insert" ELSE "commit")
  /\ KeepUser /\ UNCHANGED <<conn, connectMap, msgList, connId, notices>>

\* addToMsgQueue links the connection before it counts it as queued.
Insert ==
  /\ ct.pc \in {"insert", "insertClosed"}
  /\ msgList' = <<ct.on>> \o msgList
  /\ Go(IF ct.pc = "insert" THEN "count" ELSE "countClosed")
  /\ KeepUser /\ UNCHANGED <<conn, connectMap, connId, notices>>

Count ==
  /\ \/ /\ ct.pc = "count"
        /\ conn' = [conn EXCEPT ![ct.on].times = CheckTimes + 1]
        /\ Go("commit")
     \/ /\ ct.pc = "countClosed"
        /\ conn' = [conn EXCEPT ![ct.on].times = 1]
        /\ Events
  /\ KeepUser /\ UNCHANGED <<connectMap, msgList, connId, notices>>

\* Every event ends with a look at both states, and closes the connection unless they are normal.
Look(c) == IF Normal(c) THEN Events ELSE Handle(c, "close")

Commit ==
  /\ ct.pc = "commit"
  /\ conn' = [conn EXCEPT ![ct.on].data = TRUE]
  /\ Look(ct.on)
  /\ KeepUser /\ UNCHANGED <<connectMap, msgList, connId, notices>>

\* EPOLLERR, EPOLLHUP, EPOLLRDHUP, a read of nothing, or a write that fails.
HangUp(c) ==
  /\ ct.pc = "events" /\ c \in connectMap /\ conn[c].fd
  /\ conn' = [conn EXCEPT ![c].connStatus = "closed"]
  /\ Handle(c, "close")
  /\ KeepUser /\ UNCHANGED <<connectMap, msgList, connId, notices>>

Writable(c) ==
  /\ ct.pc = "events" /\ c \in connectMap /\ conn[c].fd
  /\ \E w \in Flushed(c) : conn' = [conn EXCEPT ![c].writeBuff = w]
  /\ Look(c)
  /\ KeepUser /\ UNCHANGED <<connectMap, msgList, connId, notices>>

\* closeConnect sends what is unsent only on a connection the user closed, and that is still open.
LastFlush(c) == IF conn[c].logicStatus = "sendClose" /\ conn[c].connStatus = "normal"
                  THEN Flushed(c) ELSE {conn[c].writeBuff}

\* closeConnect, outside a sweep: the user may act between its steps.
Close ==
  /\ ct.pc = "close"
  /\ \E w \in LastFlush(ct.on) :
       conn' = [conn EXCEPT ![ct.on].fd = FALSE, ![ct.on].connStatus = "closed", ![ct.on].writeBuff = w]
  /\ notices' = IF held[ct.on] = conn[ct.on].id THEN Append(notices, <<ct.on, conn[ct.on].id>>) ELSE notices
  /\ Go("decide")
  /\ KeepUser /\ UNCHANGED <<connectMap, msgList, connId>>

Decide ==
  /\ ct.pc = "decide"
  /\ CASE conn[ct.on].writeBuff # "none" /\ conn[ct.on].times > 0 ->
            conn' = [conn EXCEPT ![ct.on].times = 1] /\ Events
       [] conn[ct.on].writeBuff # "none" /\ conn[ct.on].times = 0 -> Go("insertClosed") /\ UNCHANGED conn
       [] conn[ct.on].writeBuff = "none" /\ conn[ct.on].times = 0 -> Go("forget") /\ UNCHANGED conn
       [] OTHER -> Events /\ UNCHANGED conn
  /\ KeepUser /\ UNCHANGED <<connectMap, msgList, connId, notices>>

Forget ==
  /\ ct.pc = "forget"
  /\ conn' = [conn EXCEPT ![ct.on].logicStatus = "deleted"]
  /\ Events
  /\ KeepUser /\ UNCHANGED <<connectMap, msgList, connId, notices>>

Closing == Close \/ Decide \/ Forget
Reading == Insert \/ Count \/ Commit
Event(c) == Accept(c) \/ Readable(c) \/ HangUp(c) \/ Writable(c)

-----------------------------------------------------------------------------
(* The sweep, handleConnect(): the user stands in waitConnecter.           *)

\* The interval has passed: the connection thread waits for the user.
Ask == /\ ct.pc = "events"
       /\ Go("ask")
       /\ KeepUser /\ UNCHANGED <<conn, connectMap, msgList, connId, notices>>

\* closeConnect in one step.  The write buffer is w after the last flush.
Shut(c, w) ==
  LET r == conn[c]
      keep == w # "none" IN
  IF ~r.fd THEN r
  ELSE [r EXCEPT !.fd = FALSE, !.connStatus = "closed", !.writeBuff = w,
                 !.times = IF keep THEN 1 ELSE @,
                 !.logicStatus = IF ~keep /\ r.times = 0 THEN "deleted" ELSE @]
ShutList(c, w) == IF conn[c].fd /\ w # "none" /\ conn[c].times = 0 THEN <<c>> \o msgList ELSE msgList
\* MUTANT of ShutNotices: tells of every attempt to close.
ShutNoticesAgain(c) == IF held[c] = conn[c].id THEN Append(notices, <<c, conn[c].id>>) ELSE notices
ShutNotices(c) == IF conn[c].fd /\ held[c] = conn[c].id THEN Append(notices, <<c, conn[c].id>>) ELSE notices

\* MUTANT of SweepGivenUp: destroys without a look at the write buffer.
SweepGivenUpAtOnce(c) ==
  /\ conn[c].logicStatus # "normal"
  /\ \E w \in LastFlush(c) :
       LET r == Shut(c, w) IN
       IF r.logicStatus = "deleted"
         THEN /\ conn' = [conn EXCEPT ![c] = [Destroyed EXCEPT !.writeBuff = r.writeBuff]]
              /\ msgList' = Unlinked(c)
              /\ connectMap' = connectMap \ {c}
         ELSE /\ conn' = [conn EXCEPT ![c] = r]
              /\ msgList' = ShutList(c, w)
              /\ UNCHANGED connectMap
  /\ notices' = ShutNotices(c)

\* MUTANT of SweepGivenUp: destroys without taking the connection out of the list.
SweepGivenUpListed(c) ==
  /\ conn[c].logicStatus # "normal"
  /\ \E w \in LastFlush(c) :
       LET r == Shut(c, w) IN
       IF r.logicStatus = "deleted" /\ r.writeBuff = "none"
         THEN conn' = [conn EXCEPT ![c] = Destroyed] /\ connectMap' = connectMap \ {c} /\ UNCHANGED msgList
         ELSE conn' = [conn EXCEPT ![c] = r] /\ msgList' = ShutList(c, w) /\ UNCHANGED connectMap
  /\ notices' = ShutNotices(c)

\* A connection the user gave up: close it, and destroy it once its write buffer is released.
SweepGivenUp(c) ==
  /\ conn[c].logicStatus # "normal"
  /\ \E w \in LastFlush(c) :
       LET r == Shut(c, w) IN
       IF r.logicStatus = "deleted" /\ r.writeBuff = "none"
         THEN /\ conn' = [conn EXCEPT ![c] = Destroyed]
              /\ msgList' = Unlinked(c)
              /\ connectMap' = connectMap \ {c}
         ELSE /\ conn' = [conn EXCEPT ![c] = r]
              /\ msgList' = ShutList(c, w)
              /\ UNCHANGED connectMap
  /\ notices' = ShutNotices(c)

\* Its peer's address is no longer allowed, or it failed its heartbeats, or was idle too long.
SweepEvict(c) ==
  /\ Normal(c)
  /\ \E w \in Flushed(c) :
       conn' = [conn EXCEPT ![c] = Shut(c, w)] /\ msgList' = ShutList(c, w)
  /\ notices' = ShutNotices(c)
  /\ UNCHANGED connectMap

\* MUTANT of SweepKeep: ages a connection that has data, too.
SweepKeepIgnoresData(c) ==
  /\ Normal(c) /\ conn[c].times > 0
  /\ IF conn[c].times > CheckTimes
       THEN /\ conn' = [conn EXCEPT ![c].times = 0]
            /\ msgList' = Unlinked(c)
       ELSE conn' = [conn EXCEPT ![c].times = @ + 1] /\ UNCHANGED msgList
  /\ UNCHANGED <<connectMap, notices>>

\* What the sweep's write of a backlog makes of a normal connection.
Backlog(c) == {[conn[c] EXCEPT !.writeBuff = w] : w \in Flushed(c)}
              \union {[conn[c] EXCEPT !.connStatus = "closed"] : x \in {"data"} \intersect {conn[c].writeBuff}}
\* What sending a heartbeat makes of it: written to the socket, buffered, or failed.
Heartbeat(r) ==
  IF r.connStatus # "normal" \/ "heartbeat" \notin Uses THEN {}
  ELSE {[r EXCEPT !.writeBuff = "data"]}
       \union (IF r.writeBuff = "data" THEN {} ELSE {[r EXCEPT !.connStatus = "closed"]})

\* Without data a queued connection ages and then leaves the list; an
\* unqueued one is sent a heartbeat, for which this thread may create the buffer.
SweepKeep(c) ==
  /\ Normal(c)
  /\ \E r \in Backlog(c) :
     \/ /\ r.data
        /\ conn' = [conn EXCEPT ![c] = r] /\ UNCHANGED msgList
     \/ /\ ~r.data /\ r.times > CheckTimes
        /\ conn' = [conn EXCEPT ![c] = [r EXCEPT !.times = 0]]
        /\ msgList' = Unlinked(c)
     \/ /\ ~r.data /\ r.times \in 1..CheckTimes
        /\ conn' = [conn EXCEPT ![c] = [r EXCEPT !.times = @ + 1]] /\ UNCHANGED msgList
     \/ /\ ~r.data /\ r.times = 0
        /\ \E h \in {r} \union Heartbeat(r) : conn' = [conn EXCEPT ![c] = h]
        /\ UNCHANGED msgList
  /\ UNCHANGED <<connectMap, notices>>

\* Closed, and not yet given up by the user.
SweepClosed(c) ==
  /\ conn[c].connStatus = "closed" /\ conn[c].logicStatus = "normal"
  /\ UNCHANGED <<conn, msgList, connectMap, notices>>

Sweep(c) ==
  /\ ct.pc = "sweep" /\ c \in ct.todo
  /\ SweepGivenUp(c) \/ SweepEvict(c) \/ SweepKeep(c) \/ SweepClosed(c)
  /\ ct' = [ct EXCEPT !.todo = @ \ {c}]
  /\ KeepUser /\ UNCHANGED connId

SweepEnds ==
  /\ ct.pc = "sweep" /\ ct.todo = {}
  /\ Events
  /\ user' = [user EXCEPT !.pc = "get"]
  /\ UNCHANGED <<conn, connectMap, msgList, curConn, connId, held, notices>>

-----------------------------------------------------------------------------
(* The user: CService's loop around CDataHandler::recv, send and close.    *)

KeepCt == UNCHANGED <<connectMap, connId, ct>>
At(pc) == user' = [user EXCEPT !.pc = pc]
\* Out of the walk, or out of the service's hands.
Leave(pc) == [pc |-> pc, begin |-> NULL, on |-> NULL, ret |-> "skip"]
\* A write returns to the walk or to the service's code it came from.
WriteTo(c, ret) == user' = [user EXCEPT !.pc = "write", !.on = c, !.ret = ret]
Written == user' = [user EXCEPT !.pc = user.ret, !.on = NULL, !.ret = "skip"]

\* recv steps over connections that it may already have given up.
Skip ==
  /\ user.pc = "skip"
  /\ IF curConn # NULL /\ conn[curConn].logicStatus = "deleted"
       THEN curConn' = PNext(curConn) /\ UNCHANGED user
       ELSE At("wait") /\ UNCHANGED curConn
  /\ KeepCt /\ UNCHANGED <<conn, msgList, held, notices>>

\* waitConnecter: pass, or hand the turn over for one sweep.
Pass ==
  /\ user.pc = "wait" /\ ct.pc # "ask"
  /\ At("get")
  /\ KeepCt /\ UNCHANGED <<conn, msgList, curConn, held, notices>>

Grant ==
  /\ user.pc = "wait" /\ ct.pc = "ask"
  /\ At("granted")
  /\ ct' = [ct EXCEPT !.pc = "sweep", !.todo = connectMap]
  /\ UNCHANGED <<conn, connectMap, msgList, curConn, connId, held, notices>>

\* The sweep may have taken the current connection out of the list: begin at its head.
Get ==
  /\ user.pc = "get"
  /\ LET first == IF curConn = NULL \/ conn[curConn].times = 0 THEN ListHead ELSE curConn IN
       /\ curConn' = first
       /\ user' = [user EXCEPT !.pc = IF first = NULL THEN "notices" ELSE "visit", !.begin = first]
  /\ KeepCt /\ UNCHANGED <<conn, msgList, held, notices>>

\* Data that make no package, or none at all: perhaps send a heartbeat.
VisitIdle ==
  /\ user.pc = "visit" /\ Normal(curConn)
  /\ \E d \in {FALSE, conn[curConn].data} : conn' = [conn EXCEPT ![curConn].data = d]
  /\ \/ At("advance")
     \/ "heartbeat" \in Uses /\ WriteTo(curConn, "advance")
  /\ KeepCt /\ UNCHANGED <<msgList, curConn, held, notices>>

\* A package of the user's: put the connection back to the start of its time in the list.
VisitPackage ==
  /\ user.pc = "visit" /\ Normal(curConn) /\ conn[curConn].data
  /\ \E d \in BOOLEAN : conn' = [conn EXCEPT ![curConn].data = d, ![curConn].times = 1]
  /\ msgList' = IF conn[curConn].times = 0 THEN <<curConn>> \o msgList ELSE msgList
  /\ user' = [Leave("callback") EXCEPT !.on = curConn]
  /\ curConn' = PNext(curConn)
  /\ KeepCt /\ UNCHANGED <<held, notices>>

\* A malformed package: the user gives the connection up, in two steps.
VisitBad ==
  /\ user.pc = "visit" /\ Normal(curConn) /\ conn[curConn].data
  /\ conn' = [conn EXCEPT ![curConn].logicStatus = "exception"]
  /\ At("giveUp")
  /\ KeepCt /\ UNCHANGED <<msgList, curConn, held, notices>>

GiveUp ==
  /\ conn' = [conn EXCEPT ![curConn].writeBuff = "none", ![curConn].logicStatus = "deleted"]
  /\ At("advance")
  /\ KeepCt /\ UNCHANGED <<msgList, curConn, held, notices>>

GiveUpBad == user.pc = "giveUp" /\ GiveUp

\* MUTANT of ToRelease: passes over a closed connection the service has hung up on.
ToReleaseNormal(c) == conn[c].connStatus = "closed" /\ conn[c].logicStatus = "normal"

\* A closed connection: release its write buffer, then let it be deleted.
ToRelease(c) == conn[c].connStatus = "closed" /\ conn[c].logicStatus # "deleted"
VisitClosed == user.pc = "visit" /\ ToRelease(curConn) /\ GiveUp

VisitNothing ==
  /\ user.pc = "visit" /\ ~Normal(curConn) /\ ~ToRelease(curConn)
  /\ At("advance")
  /\ KeepCt /\ UNCHANGED <<conn, msgList, curConn, held, notices>>

\* The walk wraps round at the end of the list and ends where it began.
Advance ==
  /\ user.pc = "advance"
  /\ LET next == IF PNext(curConn) # NULL THEN PNext(curConn) ELSE ListHead IN
       /\ curConn' = next
       /\ user' = IF next = user.begin THEN Leave("notices") ELSE [user EXCEPT !.pc = "visit"]
  /\ KeepCt /\ UNCHANGED <<conn, msgList, held, notices>>

Visiting == VisitIdle \/ VisitPackage \/ VisitBad \/ VisitClosed \/ VisitNothing \/ GiveUpBad \/ Advance

\* The service's callback for the package may keep the connection, with data of its own.
Attach ==
  /\ user.pc = "callback" /\ "keep" \in Uses /\ held[user.on] # conn[user.on].id
  /\ held' = [held EXCEPT ![user.on] = conn[user.on].id]
  /\ KeepCt /\ UNCHANGED <<conn, msgList, curConn, user, notices>>

\* The service runs in that callback, and once per turn of its loop for its own work, timers and
\* messages from other services; it then turns to the notices, or to its next recv.
Serving == user.pc \in {"callback", "act"}
AfterServing == IF user.pc = "callback" THEN "notices" ELSE "skip"
Known == ({user.on} \ {NULL}) \union {c \in Conns : held[c] # 0}

\* CDataHandler::close: what is unsent is sent first, unless there is none.
HangUpOn(c) ==
  /\ curConn' = IF c = curConn THEN PNext(c) ELSE curConn
  /\ conn' = IF conn[c].writeBuff = "data"
               THEN [conn EXCEPT ![c].logicStatus = "sendClose"]
               ELSE [conn EXCEPT ![c].writeBuff = "none", ![c].logicStatus = "deleted"]

UserClose ==
  /\ Serving /\ "close" \in Uses
  /\ \E c \in Known : HangUpOn(c)
  /\ user' = Leave(AfterServing)
  /\ KeepCt /\ UNCHANGED <<msgList, held, notices>>

\* CDataHandler::send: test the connection's state, then write.
UserSend ==
  /\ Serving /\ "send" \in Uses
  /\ \E c \in Known :
       IF Normal(c)
         THEN WriteTo(c, AfterServing) /\ UNCHANGED <<conn, curConn>>
         ELSE HangUpOn(c) /\ user' = Leave(AfterServing)
  /\ KeepCt /\ UNCHANGED <<msgList, held, notices>>

UserIgnores ==
  /\ Serving
  /\ user' = Leave(AfterServing)
  /\ KeepCt /\ UNCHANGED <<conn, msgList, curConn, held, notices>>

\* Without a backlog write() tries the socket first, and buffers only what it does not take.
Write ==
  /\ user.pc = "write"
  /\ LET c == user.on IN
     \/ /\ conn[c].writeBuff = "data" \/ conn[c].fd
        /\ At("buffer") /\ UNCHANGED conn
     \/ /\ conn[c].writeBuff # "data" /\ conn[c].fd
        /\ Written /\ UNCHANGED conn
     \/ /\ conn[c].writeBuff # "data"
        /\ conn' = [conn EXCEPT ![c].connStatus = "closed"] /\ Written
  /\ KeepCt /\ UNCHANGED <<msgList, curConn, held, notices>>

Buffer ==
  /\ user.pc = "buffer"
  /\ conn' = [conn EXCEPT ![user.on].writeBuff = "data"]
  /\ Written
  /\ KeepCt /\ UNCHANGED <<msgList, curConn, held, notices>>

\* The loop takes every notice that a connection has closed; the service drops its pointer.
TakeNotice ==
  /\ user.pc = "notices"
  /\ \/ /\ notices = <<>>
        /\ At("act")
        /\ UNCHANGED <<notices, held>>
     \/ /\ notices # <<>>
        /\ LET n == Head(notices) IN
             held' = IF held[n[1]] = n[2] THEN [held EXCEPT ![n[1]] = 0] ELSE held
        /\ notices' = Tail(notices)
        /\ UNCHANGED user
  /\ KeepCt /\ UNCHANGED <<conn, msgList, curConn>>

UserStep == Skip \/ Pass \/ Grant \/ Get \/ Visiting \/ Attach \/ UserClose \/ UserSend
            \/ UserIgnores \/ Write \/ Buffer \/ TakeNotice

Next == \/ \E c \in Conns : Event(c) \/ Sweep(c)
        \/ Reading \/ Closing \/ Ask \/ SweepEnds
        \/ UserStep

Spec == Init /\ [][Next]_vars

-----------------------------------------------------------------------------
(* Properties.                                                             *)

TypeOK ==
  /\ conn \in [Conns -> [id : 0..MaxIds, fd : BOOLEAN, connStatus : {"normal", "closed"},
                         logicStatus : {"normal", "deleted", "exception", "sendClose"},
                         writeBuff : {"none", "empty", "data"}, times : 0..(CheckTimes + 1),
                         data : BOOLEAN]]
  /\ connectMap \subseteq Conns
  /\ msgList \in Seq(Conns) /\ curConn \in Conns \union {NULL} /\ connId \in 0..MaxIds
  /\ ct.on \in Conns \union {NULL} /\ ct.todo \subseteq connectMap
  /\ user.on \in Conns \union {NULL} /\ user.begin \in Conns \union {NULL}
  /\ held \in [Conns -> 0..MaxIds]

\* The thread that alone changes the list keeps it whole: no connection is in it twice, or after
\* it was destroyed, and checkSocketTimes says who is in it, but for the one just being linked.
QueueSound ==
  /\ TypeOK
  /\ \A i, j \in DOMAIN msgList : msgList[i] = msgList[j] => i = j
  /\ Range(msgList) \subseteq connectMap
  /\ \A c \in Conns :
       IF conn[c].times > 0 THEN Listed(c)
       ELSE Listed(c) => ct.pc \in {"count", "countClosed"} /\ ct.on = c

\* The user's walk stands on a connection of the list and still reaches the one it
\* began with, although the connection thread adds to the list meanwhile and sweeps
\* take connections out of it whenever the user waits (comment CConnectManager.cpp:667-674).
WalkStays ==
  user.begin # NULL => /\ curConn # NULL /\ Listed(curConn)
                       /\ Listed(user.begin)

\* The list and the walk on it (CConnectManager::addToMsgQueue, handleConnect, CDataHandler::run).
ListSound == QueueSound /\ WalkStays

\* Whatever has been read from a live connection is where the user will find it; hence the
\* user, which calls addToMsgQueue too, never links anything into the list itself.
DataIsQueued ==
  \A c \in connectMap : conn[c].data /\ conn[c].connStatus = "normal" => conn[c].times > 0 /\ Listed(c)

\* A block goes back to the pool without a write buffer, or the buffer would be lost.
BuffersReturned == \A c \in Conns \ connectMap : conn[c].writeBuff = "none"

\* The service is told once of a connection's end, and only of its end.
ToldOnce ==
  /\ \A i, j \in DOMAIN notices : notices[i] = notices[j] => i = j
  /\ \A i \in DOMAIN notices :
       conn[notices[i][1]].id = notices[i][2] => ~conn[notices[i][1]].fd

\* What is left at the end of a connection: no buffer, and one notice (CConnectManager::closeConnect,
\* destroyConnect, CNetDataHandler::onClosedConnect).
EndsClean == BuffersReturned /\ ToldOnce

\* A closed connection with a write buffer that is in no queue, nor on its way into it: nobody
\* releases the buffer, and as long as it is there no sweep destroys the connection.
Zombie(c) == /\ c \in connectMap /\ ~conn[c].fd /\ ct.on # c
             /\ conn[c].writeBuff # "none" /\ conn[c].times = 0

\* What closeConnect's comment says (CConnectManager.cpp:871): a closed connection with
\* resources left is put back into the queue, for the user to release them.  Does not hold:
\* README, part 5.
ClosedIsQueued == \A c \in Conns : ~Zombie(c)

-----------------------------------------------------------------------------
(* Both threads run, the connection thread sweeps again and again, and a   *)
(* sweep comes to its end.  No event is owed by the world.                 *)
Fairness == /\ WF_vars(UserStep)
            /\ WF_vars(Reading) /\ WF_vars(Closing) /\ WF_vars(SweepEnds)
            /\ \A c \in Conns : WF_vars(Sweep(c))
            /\ SF_vars(Ask)

FairSpec == Spec /\ Fairness

Ended(c) == c \in connectMap /\ ~conn[c].fd
Gone(c) == c \notin connectMap \/ Zombie(c)
Unread(c) == conn[c].data /\ Normal(c)
LookedAt(c) == ~Normal(c) \/ (user.pc = "visit" /\ curConn = c)

\* A closed connection is destroyed in the end and its block used again, however many
\* threads still have to let go of it, unless it became a zombie.
EndsDestroyed == \A c \in Conns : Ended(c) ~> Gone(c)

\* Data that have arrived are looked at, whatever sweeps do to the list meanwhile, unless the
\* connection is closed or given up first.
Visited == \A c \in Conns : Unread(c) ~> LookedAt(c)

=============================================================================
