-------------------------------- MODULE MCService --------------------------------
(***************************************************************************)
(* Small instances of the parts of a service that owe somebody an answer,  *)
(* of which liveness is checked besides safety: the connections a service  *)
(* asks for (the module that is extended), its life from start to exit,    *)
(* the HTTP requests it sends and those it receives.  A behaviour is a     *)
(* behaviour of one of them, `part`; the others rest.                      *)
(***************************************************************************)
EXTENDS ActiveConnect

CONSTANTS Parts,          \* the parts checked
          Registered, MaxUpdates,                 \* ServiceLife
          HttpBlocks, HttpQueueCap, Unusual,      \* HttpConnect: Blocks, QueueCap, and what may happen besides
          SameAddress     \* HttpRequests: the second client connects from the first one's address

VARIABLES part,
          sv, runFlag, conn, mgr, isRunning, runResult, status, handler, timer, timerRun, loads, unloads, notified,
          config, seen,                                                                   \* ServiceLife
          blk, freeBlk, user, net, queue, http, httpStatus, unload,                       \* HttpConnect
          state, sent, wire, buf, attached, handled, dropped, piped, byId, notices, returned, round  \* HttpRequests

lifeVars == <<sv, runFlag, conn, mgr, isRunning, runResult, status, handler, timer, timerRun, loads, unloads, notified,
              config, seen>>
clientVars == <<blk, freeBlk, user, net, queue, http, httpStatus, unload>>
serverVars == <<state, sent, wire, buf, attached, handled, dropped, piped, byId, notices, returned, round>>

\* Two users of one address, and a bad address.
TwoUsers == {<<"p", "u">>, <<"p", "v">>, <<"bad", "u">>}
\* Three modules, two of them the same object.
ThreeModules == <<"logic", "net", "logic">>
Life == INSTANCE ServiceLife WITH ct <- conn
Client == INSTANCE HttpConnect WITH Blocks <- HttpBlocks, QueueCap <- HttpQueueCap,
            free <- freeBlk, cb <- user, status <- httpStatus

\* The first client sends a request of every kind and perhaps one more, the second client one; a buffer
\* holds four units.
ClientRequests == {<<"get", "e">>, <<"post", "e", "b">>, <<"big", "e", "b", "b", "b", "b">>, <<"put", "e">>,
                   <<"get", "h", "h", "h", "e">>}
ClientScripts == [c \in {"c1", "c2"} |->
                    IF c = "c1"
                    THEN {<< <<"huge", "e", "b">> >>, << <<"lost", "e">> >>} \cup {<<r>> : r \in ClientRequests}
                           \cup {<<q, r>> : q \in ClientRequests, r \in {<<"get", "e">>, <<"big", "e", "b", "b", "b", "b">>}}
                    ELSE {<< <<"get", "e">> >>}]
Server == INSTANCE HttpRequests WITH Conns <- {"c1", "c2"}, Addr <- [c \in {"c1", "c2"} |-> IF SameAddress THEN "c1" ELSE c],
            Scripts <- ClientScripts, Cap <- 4, QueueCap <- 2

AllParts == {"active", "life", "client", "server"}
ASSUME PartsAssumption == Parts \subseteq AllParts
\* The modules are registered under the ids from 1 on.
ASSUME RegisteredAssumption == Len(Registered) \in Nat /\ DOMAIN Registered = 1..Len(Registered)
ASSUME HttpAssumption == IsFiniteSet(HttpBlocks) /\ HttpQueueCap \in Nat \ {0}

PartsInit == /\ part \in Parts
             /\ Init /\ Life!Init /\ Client!Init /\ Server!Init

partVars == <<part, vars, lifeVars, clientVars, serverVars>>

Alone(p) == /\ part = p /\ UNCHANGED part
            /\ p # "active" => UNCHANGED vars
            /\ p # "life" => UNCHANGED lifeVars
            /\ p # "client" => UNCHANGED clientVars
            /\ p # "server" => UNCHANGED serverVars

PartsNext == \/ Alone("active") /\ Next
             \/ Alone("life") /\ Life!Next
             \/ Alone("client") /\ Client!Next
             \/ Alone("server") /\ Server!Next

\* The fairness of each part's own specification, for the part that runs.
PartsFairness ==
  /\ WF_vars(part = "active" /\ Service)
  /\ WF_vars(part = "active" /\ Connector)
  /\ WF_vars(part = "active" /\ Events)
  /\ WF_lifeVars(part = "life" /\ Life!Service)
  /\ WF_lifeVars(part = "life" /\ Life!Connector)
  /\ WF_lifeVars(part = "life" /\ (Life!Fired \/ Life!EndTimer))
  /\ WF_clientVars(part = "client" /\ Client!Service)
  /\ WF_clientVars(part = "client" /\ Client!Http)
  /\ \A b \in HttpBlocks : SF_clientVars(part = "client" /\ Client!Listen(b))
  /\ WF_serverVars(part = "server" /\ Server!OnClosedConnect)
  /\ WF_serverVars(part = "server" /\ Server!NoData)
  /\ \A c \in {"c1", "c2"} : /\ WF_serverVars(part = "server" /\ Server!Closed(c))
                             /\ SF_serverVars(part = "server" /\ \E n \in 1..4 : Server!Deliver(c, n))

PartsSpec == PartsInit /\ [][PartsNext]_partVars /\ PartsFairness

-----------------------------------------------------------------------------
\* Modules are loaded and unloaded in pairs, and no thread works for what has been deleted
\* (CService::start, clear, CNetMsgComm).
LifeSound == part = "life" => Life!TypeOK /\ Life!ModulesPaired /\ Life!NoneLeftBehind

\* A block of a request is in one place and its user's buffer goes with it, and the thread
\* is gone when the service has unloaded (CHttpConnectMgr).
ClientSound == part = "client" => Client!TypeOK /\ Client!OnePlace /\ Client!ThreadGone

\* The handlers are given the requests that were sent, and buffers are found and given back
\* once (CHttpDataHandler::onClientData, handleRequest, onClosedConnect).
ServerSound == part = "server" => Server!TypeOK /\ Server!HandledAsSent /\ Server!KnownWhileOpen

\* What a part was asked for, up to three things, and when it is done.
Asked(i) == CASE part = "active" -> fate[i] = "pending"
              [] part = "client" -> i = 1 /\ Client!Due("b1")
              [] part = "server" -> i \in {1, 2} /\ LET c == <<"c1", "c2">>[i] IN Server!Unserved(c) /\ ~piped[c]
              [] part = "life" -> IF i = 3 THEN Life!ToldToStop ELSE config = i
Done(i) == CASE part = "active" -> fate[i] # "pending"
             [] part = "client" -> Client!Over("b1")
             [] part = "server" -> i = 3 \/ LET c == <<"c1", "c2">>[i] IN Server!Settled(c) \/ piped[c]
             [] part = "life" -> IF i = 3 THEN Life!At("exited") ELSE Life!Seen(i)

\* ActiveConnect!Answered, HttpConnect!Ends, HttpRequests!Served, ServiceLife!UpdateSeen and Exits, in one
\* formula: a connection asked for is reported, or passed over, to whoever asked; a request to an HTTP
\* server ends when its reply has come or its connection is lost; the requests of an HTTP client are handled
\* or it is cut off; a service reads each change of the configuration, and ends when told to
\* (doActiveConnect, CHttpConnectMgr::run, onClientData, CService::start).
EachIsDone == \A i \in 1..3 : Asked(i) ~> Done(i)

=============================================================================
