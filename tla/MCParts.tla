-------------------------------- MODULE MCParts ----------------------------------
(***************************************************************************)
(* Small instances of the parts that a process uses on its own and of      *)
(* which safety is checked: the memory pools, the timers, the log files,   *)
(* the configuration, the clients of the two databases; the proxies of a   *)
(* service, the data it keeps between messages, the texts of HTTP          *)
(* parameters, and the addresses that may connect.  A behaviour is a       *)
(* behaviour of one of them, `part`; the others rest.                      *)
(***************************************************************************)
EXTENDS Naturals, Sequences, FiniteSets

CONSTANTS Parts,          \* the parts checked
          Reloading,      \* Config: the file is read again in the middle of a lookup
          Stray,          \* Config: the file may begin with an item
          LogThreads,     \* LogFiles: the threads that log
          LogFaults,      \* LogFiles: bound on the faults
          ResultObjects,  \* MySql: objects for results
          NoMemory,       \* MySql: there may be no memory for a set of results
          g1, n1, n2,     \* ServiceProxy: a gateway, names of proxies
          RemoveCloses,   \* ServiceProxy: the user's callback removes the name with the default doClose
          Bar,            \* AsyncData: the character behind an index
          Starts,         \* AsyncData: who begins conversations
          ReadWhileUsed   \* IpCheck: peers connect while the lists are read

VARIABLES part,
          poolList, size, free, step, lent,                                              \* MemManager
          heap, due, gap, runs, last, killed, now, scan, run, over,                      \* TimerHeap
          text, exists, opens, fds, log, th, lines, faults, round, stray,                \* LogFiles
          file, list, items, cur, reading, loaded, reloads, names, given, look, lookups, \* Config
          family, store, ctx, pc, call, attempt, reply, got, kept, done, want, fresh, hits, netFaults, \* RedisClient
          obj, pend, stream, calls, mine, offered, ended, mysqlRefused, tx, stage, saved, mysqlLost, \* MySql
          client, toService, toGateway, freeProxy, block, proxy, named, closing, opening, conn, stopped, opened,
          told, unsure, restarts,                                                        \* ServiceProxy
          index, data, context, msgs, waits, convs, refused, lost,                       \* AsyncData
          pairs, param,                                                                  \* HttpParams
          lists, old, ipPc, at, mode, white, black, started, verdict, noMask, changes    \* IpCheck

memoryVars == <<poolList, size, free, step, lent>>
timerVars == <<heap, due, gap, runs, last, killed, now, scan, run, over>>
logVars == <<text, exists, opens, fds, log, th, lines, faults, round, stray>>
configVars == <<file, list, items, cur, reading, loaded, reloads, names, given, look, lookups>>
redisVars == <<family, store, ctx, pc, call, attempt, reply, got, kept, done, want, fresh, hits, netFaults>>
mysqlVars == <<obj, pend, stream, calls, mine, offered, ended, mysqlRefused, tx, stage, saved, mysqlLost>>
proxyVars == <<client, toService, toGateway, freeProxy, block, proxy, named, closing, opening, conn, stopped, opened,
               told, unsure, restarts>>
asyncVars == <<index, data, context, msgs, waits, convs, refused, lost>>
paramVars == <<pairs, param>>
ipVars == <<lists, old, ipPc, at, mode, white, black, started, verdict, noMask, changes>>

\* A first pool of two blocks, and two more of two or three.
Memory == INSTANCE MemManager WITH FirstCount <- 2, Steps <- {2, 3}, MaxPools <- 3, list <- poolList
\* Timers that run for ever and timers that run once, in a heap of three levels.
Timers == INSTANCE TimerHeap WITH MaxTimers <- 4, Kinds <- {<<0, 0>>, <<3, 1>>}, MinGap <- 2, Slack <- 1, MaxTime <- 2,
                                  MaxKills <- 1
\* A ring of three files of up to three units, lines of one and two.
Logs == INSTANCE LogFiles WITH Threads <- LogThreads, MaxBak <- 3, MaxSize <- 3, Lens <- {1, 2}, TryTimes <- 2,
                               WriteErrTime <- 2, MaxLines <- 7, MaxFaults <- LogFaults

\* Every file of up to three lines with two sections, one key and two values;
\* lookups of these sections and of one that is not there.
FileLines == {<<"section", s>> : s \in {"a", "b"}} \cup {<<"item", k, v>> : k \in {"k"}, v \in {1, 2}}
StrayFile == << <<"item", "k", 1>>, <<"section", "a">> >>
ConfigFiles == {f \in UNION {[1..n -> FileLines] : n \in 1..3} : f[1][1] = "section"} \cup IF Stray THEN {StrayFile} ELSE {}
Configuration == INSTANCE Config WITH Files <- ConfigFiles, Sections <- {"a", "b", "c"}, Keys <- {"k"}, Ids <- "a",
                                      Concurrent <- Reloading, MaxReloads <- 1, MaxLookups <- 2

\* Values that fit the caller's buffer and values that do not, two losses of the connection.
Redis == INSTANCE RedisClient WITH Keys <- {"k1", "k2"}, Values <- {1, 2}, Room <- {1, 2}, MaxValue <- 3, MaxList <- 3,
                                   MaxFaults <- 2, faults <- netFaults
\* Four calls, one connection lost among them.
Sql == INSTANCE MySql WITH Objs <- ResultObjects, MaxCalls <- 4, MaxLost <- 1, OutOfMemory <- NoMemory,
                       refused <- mysqlRefused, lost <- mysqlLost

\* Two clients of a gateway that restarts once.
Proxies == INSTANCE ServiceProxy WITH Gateways <- {g1}, Flags <- {"f1", "f2"}, Names <- {n1, n2}, MaxClients <- 2,
             Cap <- 2, MaxRestarts <- 1, free <- freeProxy
\* Three services, two conversations, indices that come round after three, room for three notes.
ThreeServices == [s \in {"a", "b", "c"} |-> CASE s = "a" -> <<5, 6>> [] s = "b" -> <<7, 8>> [] s = "c" -> <<9>>]
Async == INSTANCE AsyncData WITH Services <- {"a", "b", "c"}, Id <- ThreeServices, MaxIdFlagIndex <- 3,
           MaxFlagLen <- 8, MaxConvs <- 2, MaxLost <- 1

\* Texts with and without the separators that a value may hold.
Texts == INSTANCE HttpParams WITH Keys <- {<<"a">>, <<"b">>, <<>>}, MaxParams <- 3, given <- pairs,
            Values <- {<<>>, <<"x">>, <<"=", "x">>, <<"x", " ", "=">>, <<"x", "&", "b">>}

\* Addresses of two bits, and every list of up to two networks of them.
NetworkEntries == {<<a, m>> \in (0..3) \X {1, 2} : a % (2 ^ (2 - m)) = 0}
IpConfigs == {[mode |-> m, list |-> l] : m \in {"white", "black"}, l \in UNION {[1..n -> NetworkEntries] : n \in 0..2}}
               \cup {[mode |-> "normal", list |-> <<>>]}
Ips == INSTANCE IpCheck WITH Bits <- 2, Configs <- IpConfigs, MaxReloads <- 1, Concurrent <- ReadWhileUsed,
         file <- lists, pc <- ipPc, reloads <- changes

AllParts == {"memory", "timers", "logs", "config", "redis", "mysql", "proxies", "async", "texts", "ips"}
ASSUME PartsAssumption == Parts \subseteq AllParts
ASSUME BoundsAssumption == /\ Proxies!BoundsAssumption /\ Proxies!RemoveClosesAssumption
                           /\ Async!IdAssumption /\ Async!BoundsAssumption /\ Async!StartsAssumption

\* A part that rests has one of its initial states.
Init == /\ part \in Parts
        /\ Memory!Init /\ (part = "memory" \/ step = 2)
        /\ Timers!Init
        /\ Logs!Init
        /\ Configuration!Init /\ (part = "config" \/ file = << <<"section", "a">> >>)
        /\ Redis!Init /\ (part = "redis" \/ family = "list")
        /\ Sql!Init
        /\ Proxies!Init /\ Async!Init /\ Texts!Init
        /\ Ips!Init /\ (part = "ips" \/ (lists = [mode |-> "normal", list |-> <<>>] /\ noMask = 0))

Alone(p) == /\ part = p /\ UNCHANGED part
            /\ p # "memory" => UNCHANGED memoryVars
            /\ p # "timers" => UNCHANGED timerVars
            /\ p # "logs" => UNCHANGED logVars
            /\ p # "config" => UNCHANGED configVars
            /\ p # "redis" => UNCHANGED redisVars
            /\ p # "mysql" => UNCHANGED mysqlVars
            /\ p # "proxies" => UNCHANGED proxyVars
            /\ p # "async" => UNCHANGED asyncVars
            /\ p # "texts" => UNCHANGED paramVars
            /\ p # "ips" => UNCHANGED ipVars

Next == \/ Alone("memory") /\ Memory!Next
        \/ Alone("timers") /\ Timers!Next
        \/ Alone("logs") /\ Logs!Next
        \/ Alone("config") /\ Configuration!Next
        \/ Alone("redis") /\ Redis!Next
        \/ Alone("mysql") /\ Sql!Next
        \/ Alone("proxies") /\ Proxies!Next
        \/ Alone("async") /\ Async!Next
        \/ Alone("texts") /\ Texts!Next
        \/ Alone("ips") /\ Ips!Next

vars == <<part, memoryVars, timerVars, logVars, configVars, redisVars, mysqlVars,
          proxyVars, asyncVars, paramVars, ipVars>>
Spec == Init /\ [][Next]_vars

-----------------------------------------------------------------------------
\* Each block of memory is free once or lent, whatever pools come, go and change
\* their places in the list, and memory grows only when all of it is lent (CMemManager).
MemorySound == [](part = "memory" => Memory!TypeOK /\ Memory!EachBlockOnce) /\ Memory!NoNeedlessGrowth

\* The heap of timers is an agenda, from which no timer is lost and none called
\* twice in one scan (CTimer::setTimer, killTimer, run).
TimersSound == [](part = "timers" => Timers!TypeOK /\ Timers!NoneMissing /\ Timers!OncePerScan) /\ Timers!ImplementsAgenda

\* Lines are in the files in the order they were logged in, files stay small, and
\* descriptors are closed once (CLogger::writeFile, openFile, closeFile).
LogsSound == part = "logs" => Logs!TypeOK /\ Logs!OwnDescriptors /\ Logs!InOrder /\ Logs!Bounded

\* What is looked up is what the file says, in the section asked for, and after it
\* was read again nothing it never said is found (CCfg).
ConfigSound == part = "config" => /\ Configuration!TypeOK
                                  /\ Configuration!ReadsFile /\ Configuration!NothingElse /\ Configuration!RightSection

\* A command that may be repeated and is repeated shows no trace of it, one loss of the
\* connection is made good, and replies are released (CRedis).
RedisSound == part = "redis" => /\ Redis!TypeOK /\ Redis!TwiceAsOnce /\ Redis!DeletesAll
                                /\ Redis!OneLossIsMadeGood /\ Redis!RepliesReleased

\* Calls are not refused for the results of earlier ones, and their caller is offered
\* all of its own results and no other (CDBOpertaion, CQueryResult).
MySqlSound == part = "mysql" => Sql!TypeOK /\ Sql!NeverRefused /\ Sql!OwnResults /\ Sql!AllResults

\* However closings of proxies cross and nest, blocks are given back once, names lead to
\* their clients, users hear once of an end, and in the end gateway and service agree on
\* who is there (CService::closeProxy, cleanUpProxy, removeProxy).
ProxiesSound == part = "proxies" => /\ Proxies!TypeOK
                                    /\ Proxies!ReleasedOnce /\ Proxies!NamesLive
                                    /\ Proxies!ToldOnce /\ Proxies!Agree

\* An answer finds the data its asker stored, and nothing is kept of a conversation that is
\* over (CDataContent, CService::sendMessage).
AsyncSound == part = "async" => Async!TypeOK /\ Async!FindsOwn /\ Async!NothingKept

\* What the user sets as parameters is what the other end parses, up to a space in the first line and but for
\* values with "&" (CHttpRequest::setParamValue, CHttpDataParser), and an address is let in as the lists say (CNetMsgComm::checkPeerIp).
InputsRead == /\ part = "texts" => Texts!UrlRoundTrip /\ Texts!BodyRoundTrip
              /\ part = "ips" => Ips!TypeOK /\ Ips!AsListed

=================================================================================
