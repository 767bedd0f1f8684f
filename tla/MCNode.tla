---------------------------------- MODULE MCNode -----------------------------------
(***************************************************************************)
(* Small instances of the parts through which messages go to other nodes:  *)
(* the start of middleware and services, the forwarding (the module that   *)
(* is extended), the connections that are accepted, and the packages of a  *)
(* connection.  Liveness is checked of the last three.  A behaviour is a   *)
(* behaviour of one of them, `part`; the others rest.                      *)
(***************************************************************************)
EXTENDS NodeForwarding

CONSTANTS Parts,            \* the parts checked
          s1, s2,           \* services
          n1, n2,           \* other nodes
          Given, Addressees, QueueCap, RecvLen, MaxMsgSize, MaxCuts, MaxBeats, OutOfMemory,    \* PackageFlow
          Middlewares, Attaching, Files, ShmCount, MaxDeaths                              \* NodeStart

VARIABLES part,
          accepted, connectMap, msgList, curConn, connId, sweeper, user, held, notices,                   \* ConnectLife
          mode, up, todo, wire, in, need, queue, got, refused, failed, cuts, beats,                        \* PackageFlow
          mw, sv, owner, shm, file, deaths                                                 \* NodeStart

connectVars == <<accepted, connectMap, msgList, curConn, connId, sweeper, user, held, notices>>
packageVars == <<mode, up, todo, wire, in, need, queue, got, refused, failed, cuts, beats>>
startVars == <<mw, sv, owner, shm, file, deaths>>

\* Two connections, one after the other, in one block.
Connects == INSTANCE ConnectLife WITH Conns <- {"a"}, NULL <- "none", CheckTimes <- 1, MaxIds <- 2,
              Uses <- {"keep", "send", "close", "heartbeat"}, conn <- accepted, ct <- sweeper
\* Two queues for one node, or one for each of two.
TwoQueues == {<<n1, s1>>, <<n1, s2>>}
TwoNodes == {<<n1, s1>>, <<n2, s1>>}
EitherTraffic == {TwoQueues, TwoNodes}
\* Packages one way: the first has nothing but the user's header, the fourth is for nobody, and the fifth is
\* longer than a connection allows; a queue for one, and a buffer for a user's header.
FivePackages == [A |-> << [to |-> "s1", len |-> 0], [to |-> "s1", len |-> 1], [to |-> "s1", len |-> 1],
                          [to |-> "s2", len |-> 0], [to |-> "s1", len |-> 2] >>, B |-> <<>>]
Ends == {"A", "B"}
Packages == INSTANCE PackageFlow WITH Nodes <- Ends
\* A middleware that is started again beside an old one, a file that grows and changes twice.
FileVersions == << << <<1, 1>> >>, << <<2, 1>>, <<1, 1>> >>, << <<3, 1>>, <<2, 1>>, <<4, 1>> >> >>
Starting == INSTANCE NodeStart WITH Services <- Attaching

AllParts == {"connects", "forwarding", "packages", "start"}
ASSUME PartsAssumption == Parts \subseteq AllParts
\* What the logic layers give to be sent are sequences of packages; the limit on their length is a number.
ASSUME GivenAssumption == /\ \A n \in Ends : /\ Len(Given[n]) \in Nat /\ DOMAIN Given[n] = 1..Len(Given[n])
                                            /\ \A p \in DOMAIN Given[n] : Given[n][p].len \in Nat
                          /\ MaxMsgSize \in Nat
ASSUME StartAssumption == Starting!BoundsAssumption /\ Starting!FilesAssumption /\ Starting!AddressesAssumption

\* A part that rests has one of its initial states.
PartsInit == /\ part \in Parts
             /\ Connects!Init
             /\ Init /\ (part = "forwarding" \/ routes = TwoNodes)
             /\ Packages!Init /\ (part = "packages" \/ mode["A"] = "service")
             /\ Starting!Init

partVars == <<part, connectVars, vars, packageVars, startVars>>

Alone(p) == /\ part = p /\ UNCHANGED part
            /\ p # "connects" => UNCHANGED connectVars
            /\ p # "forwarding" => UNCHANGED vars
            /\ p # "packages" => UNCHANGED packageVars
            /\ p # "start" => UNCHANGED startVars

PartsNext == \/ Alone("connects") /\ Connects!Next
             \/ Alone("forwarding") /\ Next
             \/ Alone("packages") /\ Packages!Next
             \/ Alone("start") /\ Starting!Next

\* The fairness of each part's own specification, for the part that runs.
PartsFairness ==
  /\ WF_connectVars(part = "connects" /\ Connects!UserStep)
  /\ WF_connectVars(part = "connects" /\ Connects!Reading)
  /\ WF_connectVars(part = "connects" /\ Connects!Closing)
  /\ WF_connectVars(part = "connects" /\ Connects!SweepEnds)
  /\ WF_connectVars(part = "connects" /\ Connects!Sweep("a"))
  /\ SF_connectVars(part = "connects" /\ Connects!Ask)
  /\ WF_vars(part = "forwarding" /\ DataThread)
  /\ WF_vars(part = "forwarding" /\ Closing)
  /\ SF_vars(part = "forwarding" /\ Sweeping)
  /\ \A n \in {n1, n2} : /\ WF_vars(part = "forwarding" /\ Request(n))
                         /\ WF_vars(part = "forwarding" /\ Open(n))
                         /\ WF_vars(part = "forwarding" /\ Arriving(n))
  /\ \A n \in Ends : /\ WF_packageVars(part = "packages" /\ Packages!Send(n))
                    /\ WF_packageVars(part = "packages" /\ Packages!Arrive(n))
                    /\ WF_packageVars(part = "packages" /\ (Packages!ReadHeader(n) \/ Packages!ReadBody(n)))

PartsSpec == PartsInit /\ [][PartsNext]_partVars /\ PartsFairness

-----------------------------------------------------------------------------
\* Readers stand at the boundaries of packages, give a connection up over a package that is too
\* long only, and hand packages over once and in their order, across connections, heartbeats and
\* short reads (CDataHandler, CDataTransmit).
PackagesSound == part = "packages" => Packages!TypeOK /\ Packages!Framed /\ Packages!InOrderOnce

\* A service that goes to work finds the shared memory initialised, one middleware works on
\* it, and the slots of the nodes are without gap or double (CSrvMsgComm::createShm,
\* initNetHandler, updateConfig, CMsgComm::init).
StartSound == part = "start" => /\ Starting!TypeOK
                                /\ Starting!UsesWhole /\ Starting!OneAtWork /\ Starting!SlotsInOrder

\* What waits in a part, up to three things, and when its waiting is over.
Route(i) == CASE i = 1 -> <<n1, s1>> [] i = 2 -> IF routes = TwoQueues THEN <<n1, s2>> ELSE <<n2, s1>>
Waits(i) ==
  CASE part = "connects" -> (i = 1 /\ Connects!Ended("a")) \/ (i = 2 /\ Connects!Unread("a"))
    [] part = "forwarding" -> i < 3 /\ LET r == Route(i) IN len[r[1]][r[2]] = 1
    [] part = "packages" -> Packages!Fits("B", i)
    [] part = "start" -> FALSE
Served(i) ==
  CASE part = "connects" -> IF i = 1 THEN Connects!Gone("a") ELSE Connects!LookedAt("a")
    [] part = "forwarding" -> i = 3 \/ SomeNodeStuck \/ LET r == Route(i) IN len[r[1]][r[2]] < 1
    [] part = "packages" -> Packages!Received("B", i)
    [] part = "start" -> TRUE

\* ConnectLife!EndsDestroyed and Visited, NodeForwarding!Forwarded, PackageFlow!HandedOver, in one formula:
\* an accepted connection that is closed is destroyed in the end, and data that came over it are looked at;
\* what is sent to a node leaves the queue once connections last; a package is handed over or refused if the
\* connection lasts and none up to it is too long (CConnectManager::handleConnect, CNetMsgHandler::getConnectData, CDataHandler::readData).
EachIsServed == \A i \in 1..3 : Waits(i) ~> Served(i)

====================================================================================
