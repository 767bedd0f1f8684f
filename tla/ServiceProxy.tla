------------------------------ MODULE ServiceProxy ------------------------------
(***************************************************************************)
(* Clients that reach a service through a gateway.  The gateway forwards   *)
(* what its clients send, and the service keeps a proxy for each of them   *)
(* (CService::handleServiceMessage, closeProxy): a block, found by the     *)
(* gateway's id and the client's flag, and, once the user has attached it, *)
(* by a name.  Both sides may end a client, also at the same time, and     *)
(* the gateway may die and number its clients anew.                        *)
(*                                                                         *)
(* Closing calls the user back before the proxy is removed, and the user   *)
(* may close proxies in that call; `closing` is the stack of the closings  *)
(* that have begun and not ended.  The gateway itself is not part of the   *)
(* repository: it is modelled by the messages that the service expects.    *)
(***************************************************************************)
EXTENDS Naturals, FiniteSets, SequencesExt

CONSTANTS Gateways, Flags,
          Names,           \* names the user attaches proxies under
          MaxClients,      \* bound on the proxies created, and the number of blocks
          Cap,             \* messages that fill a queue between gateway and service
          MaxRestarts,     \* bound on the restarts of gateways
          RemoveCloses     \* whether the user's callback removes the name with the default doClose

BoundsAssumption == MaxClients \in Nat /\ MaxRestarts \in Nat /\ Cap \in Nat \ {0}
RemoveClosesAssumption == RemoveCloses \in BOOLEAN

Ids == Gateways \X Flags      \* ProxyID: the gateway's service id and its client's flag
Blocks == 1..MaxClients
None == 0

VARIABLES client,      \* client[i]: the gateway's connection: "unused", "open" or "closed"
          toService,   \* toService[g]: messages of the gateway to the service
          toGateway,   \* toGateway[g]: messages of the service to the gateway
          free,        \* m_memForProxyData: the block given back last in front
          block,       \* ConnectProxy
          proxy,       \* m_flag2Proxys
          named,       \* m_id2ConnectProxys
          closing,     \* calls of closeProxy, the innermost in front
          opening,     \* the first message that waits for the end of an older proxy, or <<>>
          conn,        \* the context of the message being handled, or None
          stopped,     \* stopProxy has been called
          opened,      \* proxies created so far, numbered in this order
          told,        \* told[k]: how often the user was told of the end of proxy k
          unsure,      \* clients whose end was not told for lack of room
          restarts     \* gateways that have started again

gateway == <<client, restarts>>
store == <<free, block, proxy, named>>
call == <<closing, opening, conn>>
ghosts == <<opened, told, unsure>>
vars == <<client, restarts, toService, toGateway, store, call, stopped, ghosts>>

NoProxy == [id |-> <<None, None>>, userCb |-> None, number |-> 0]

Init == /\ client = [i \in Ids |-> "unused"]
        /\ toService = [g \in Gateways |-> <<>>]
        /\ toGateway = [g \in Gateways |-> <<>>]
        /\ free = [b \in Blocks |-> b]
        /\ block = [b \in Blocks |-> NoProxy]
        /\ proxy = [i \in Ids |-> None]
        /\ named = [n \in Names |-> None]
        /\ closing = <<>> /\ opening = <<>> /\ conn = None
        /\ stopped = FALSE
        /\ opened = 0
        /\ told = [k \in 1..MaxClients |-> 0]
        /\ unsure = {}
        /\ restarts = {}

-----------------------------------------------------------------------------
(* The gateway (external).                                                 *)

Tell(i, what) == /\ Len(toService[i[1]]) < Cap
                 /\ toService' = [toService EXCEPT ![i[1]] = Append(@, [id |-> i, what |-> what])]
                 /\ UNCHANGED <<restarts, toGateway, store, call, stopped, ghosts>>

\* The first message of a client carries its address.
ClientComes(i) == /\ client[i] = "unused"
                  /\ client' = [client EXCEPT ![i] = "open"]
                  /\ Tell(i, "first")
ClientSends(i) == client[i] = "open" /\ Tell(i, "data") /\ UNCHANGED client
ClientLeaves(i) == /\ client[i] = "open"
                   /\ client' = [client EXCEPT ![i] = "closed"]
                   /\ Tell(i, "closed")

Obey(g) ==
  /\ toGateway[g] # <<>>
  /\ LET m == Head(toGateway[g])
     IN  client' = [i \in Ids |-> IF /\ client[i] = "open" /\ i[1] = g
                                     /\ m.what = "stop" \/ m.id = i
                                  THEN "closed" ELSE client[i]]
  /\ toGateway' = [toGateway EXCEPT ![g] = Tail(@)]
  /\ UNCHANGED <<restarts, toService, store, call, stopped, ghosts>>

\* The gateway dies and starts again, with the messages left in the shared memory.
GatewayRestarts(g) ==
  /\ g \notin restarts /\ Cardinality(restarts) < MaxRestarts
  /\ restarts' = restarts \union {g}
  /\ client' = [i \in Ids |-> IF i[1] = g THEN "unused" ELSE client[i]]
  /\ UNCHANGED <<toService, toGateway, store, call, stopped, ghosts>>

-----------------------------------------------------------------------------
(* The service: one thread.                                                *)

Idle == closing = <<>> /\ opening = <<>> /\ conn = None /\ ~stopped

\* sendMessage to a gateway; a full queue is logged.
Post(i, what) ==
  LET g == i[1]
  IN  IF Len(toGateway[g]) < Cap
      THEN toGateway' = [toGateway EXCEPT ![g] = Append(@, [id |-> i, what |-> what])] /\ UNCHANGED unsure
      ELSE unsure' = unsure \union {i} /\ UNCHANGED toGateway

\* The user is told, once closeProxy has found the proxy under its id.
Notice(b) == told' = IF block[b].userCb # None THEN [told EXCEPT ![block[b].number] = @ + 1] ELSE told

\* closeProxy up to the callback: nothing is to be done for a proxy that is gone.
Begin(i, isActive) ==
  IF proxy[i] = None THEN UNCHANGED <<closing, told>>
  ELSE /\ closing' = <<[id |-> i, block |-> proxy[i], active |-> isActive,
                        calls |-> block[proxy[i]].userCb # None]>> \o closing
       /\ Notice(proxy[i])

\* The callback: the user removes the name he attached.  removeConnectProxy erases it first, and
\* with its default argument goes on to close the proxy it was for.
Callback ==
  /\ closing # <<>> /\ Head(closing).calls
  /\ LET top == [Head(closing) EXCEPT !.calls = FALSE]
         rest == <<top>> \o Tail(closing)
         n == block[top.block].userCb
         b == named[n]
     IN  IF b = None THEN closing' = rest /\ UNCHANGED <<named, told>>
         ELSE /\ named' = [named EXCEPT ![n] = None]
              /\ IF RemoveCloses /\ proxy[block[b].id] # None
                 THEN /\ closing' = <<[id |-> block[b].id, block |-> proxy[block[b].id], active |-> TRUE,
                                       calls |-> TRUE]>> \o rest
                      /\ Notice(proxy[block[b].id])
                 ELSE closing' = rest /\ UNCHANGED told
  /\ UNCHANGED <<gateway, toService, toGateway, free, block, proxy, opening, conn, stopped, opened, unsure>>

\* The user's callback may also close another proxy by its name, such as the other player's.
CallbackCloses(n) ==
  /\ closing # <<>> /\ Head(closing).calls /\ Len(closing) = 1
  /\ named[n] # None /\ named[n] # Head(closing).block
  /\ named' = [named EXCEPT ![n] = None]
  /\ Begin(block[named[n]].id, TRUE)
  /\ UNCHANGED <<gateway, toService, toGateway, free, block, proxy, opening, conn, stopped, opened, unsure>>

\* MUTANT of End: the block is given back, and the id stays.
EndForgets ==
  /\ closing # <<>> /\ ~Head(closing).calls
  /\ LET top == Head(closing)
     IN  /\ IF top.active THEN Post(top.id, "close") ELSE UNCHANGED <<toGateway, unsure>>
         /\ free' = <<top.block>> \o free
  /\ closing' = Tail(closing)
  /\ UNCHANGED <<gateway, toService, block, proxy, named, opening, conn, stopped, opened, told>>

\* closeProxy after the callback: tell the gateway, remove the proxy and give the block back.
End ==
  /\ closing # <<>> /\ ~Head(closing).calls
  /\ LET top == Head(closing)
     IN  /\ IF top.active THEN Post(top.id, "close") ELSE UNCHANGED <<toGateway, unsure>>
         /\ proxy' = [proxy EXCEPT ![top.id] = None]
         /\ free' = <<top.block>> \o free
  /\ closing' = Tail(closing)
  /\ UNCHANGED <<gateway, toService, block, named, opening, conn, stopped, opened, told>>

\* handleServiceMessage creates the proxy; onProxyMessage makes it the context of the handler.
Create(i) ==
  /\ free # <<>> /\ opened < MaxClients
  /\ opened' = opened + 1
  /\ block' = [block EXCEPT ![Head(free)] = [id |-> i, userCb |-> None, number |-> opened + 1]]
  /\ proxy' = [proxy EXCEPT ![i] = Head(free)]
  /\ free' = Tail(free)
  /\ conn' = Head(free)

Receive(g) ==
  /\ Idle /\ toService[g] # <<>>
  /\ toService' = [toService EXCEPT ![g] = Tail(@)]
  /\ UNCHANGED <<gateway, toGateway, named, stopped, unsure>>

\* MUTANT of First: a known client's proxy is replaced without being closed.
FirstReplaces(g) ==
  /\ Receive(g)
  /\ Head(toService[g]).what = "first"
  /\ Create(Head(toService[g]).id)
  /\ UNCHANGED <<closing, opening, told>>

\* The first message of a client.  A proxy that exists under its id is that of a gateway that
\* died: it is closed, and the new one created afterwards.
First(g) ==
  /\ Receive(g)
  /\ LET m == Head(toService[g])
     IN  /\ m.what = "first"
         /\ \/ proxy[m.id] = None /\ Create(m.id) /\ UNCHANGED <<closing, opening, told>>
            \/ /\ proxy[m.id] # None
               /\ Begin(m.id, FALSE)
               /\ opening' = <<m.id>>
               /\ UNCHANGED <<free, block, proxy, conn, opened>>

FirstAfterClose ==
  /\ opening # <<>> /\ closing = <<>>
  /\ Create(opening[1])
  /\ opening' = <<>>
  /\ UNCHANGED <<gateway, toService, toGateway, named, closing, stopped, told, unsure>>

\* A message of a client, or one that its connection is closed; both are dropped for a client
\* that is not known.
Data(g) ==
  /\ Receive(g)
  /\ Head(toService[g]).what = "data"
  /\ conn' = proxy[Head(toService[g]).id]
  /\ UNCHANGED <<free, block, proxy, closing, opening, opened, told>>

Closed(g) ==
  /\ Receive(g)
  /\ Head(toService[g]).what = "closed"
  /\ Begin(Head(toService[g]).id, FALSE)
  /\ UNCHANGED <<free, block, proxy, opening, conn, opened>>

\* The handler attaches the client under a name that is not in use, once.
Attach(n) ==
  /\ conn # None /\ closing = <<>>
  /\ block[conn].userCb = None /\ named[n] = None
  /\ block' = [block EXCEPT ![conn].userCb = n]
  /\ named' = [named EXCEPT ![n] = conn]
  /\ conn' = None
  /\ UNCHANGED <<gateway, toService, toGateway, free, proxy, closing, opening, stopped, ghosts>>

\* MUTANT of Refuse: the gateway is not told.
RefuseQuietly ==
  /\ conn # None /\ closing = <<>>
  /\ Begin(block[conn].id, FALSE)
  /\ conn' = None
  /\ UNCHANGED <<gateway, toService, toGateway, store, opening, stopped, opened, unsure>>

\* The handler ends the client it hears from.
Refuse ==
  /\ conn # None /\ closing = <<>>
  /\ Begin(block[conn].id, TRUE)
  /\ conn' = None
  /\ UNCHANGED <<gateway, toService, toGateway, store, opening, stopped, opened, unsure>>

Handled ==
  /\ conn # None /\ closing = <<>>
  /\ conn' = None
  /\ UNCHANGED <<gateway, toService, toGateway, store, closing, opening, stopped, ghosts>>

\* closeConnectProxy by name, in a timer or another handler: the name first, then the proxy.
CloseByName(n) ==
  /\ Idle /\ named[n] # None
  /\ named' = [named EXCEPT ![n] = None]
  /\ Begin(block[named[n]].id, TRUE)
  /\ UNCHANGED <<gateway, toService, toGateway, free, block, proxy, opening, conn, stopped, opened, unsure>>

Kept == {i \in Ids : proxy[i] # None}

\* stopProxy: one message for each gateway, all blocks given back, without a callback.
Stop ==
  /\ Idle
  /\ stopped' = TRUE
  /\ toGateway' = [g \in Gateways |->
       IF (\E i \in Kept : i[1] = g) /\ Len(toGateway[g]) < Cap
       THEN Append(toGateway[g], [id |-> <<g, None>>, what |-> "stop"]) ELSE toGateway[g]]
  /\ free' = SetToSeq({proxy[i] : i \in Kept}) \o free
  /\ proxy' = [i \in Ids |-> None]
  /\ named' = [n \in Names |-> None]
  /\ UNCHANGED <<gateway, toService, block, call, ghosts>>

-----------------------------------------------------------------------------
External == \/ \E i \in Ids : ClientComes(i) \/ ClientSends(i) \/ ClientLeaves(i)
            \/ \E g \in Gateways : Obey(g) \/ GatewayRestarts(g)
Messages == \E g \in Gateways : First(g) \/ Data(g) \/ Closed(g)
User == \/ \E n \in Names : Attach(n) \/ CloseByName(n) \/ CallbackCloses(n)
        \/ Refuse \/ Handled

Next == External \/ Messages \/ User \/ Callback \/ End \/ FirstAfterClose \/ Stop

Spec == Init /\ [][Next]_vars

-----------------------------------------------------------------------------
TypeOK == /\ client \in [Ids -> {"unused", "open", "closed"}]
          /\ proxy \in [Ids -> Blocks \union {None}] /\ named \in [Names -> Blocks \union {None}]
          /\ conn \in Blocks \union {None} /\ Range(free) \subseteq Blocks
          /\ \A g \in Gateways : Len(toService[g]) <= Cap /\ Len(toGateway[g]) <= Cap

\* A block is free or the proxy of one client, and given back once ("must not be released
\* again", CService.cpp:1188), however closings are nested and crossed.
ReleasedOnce == /\ IsInjective(free)
                /\ \A i \in Kept : proxy[i] \notin Range(free)
                /\ \A i, j \in Kept : proxy[i] = proxy[j] => i = j

\* A name leads to the client it was attached for, never to a block that has been given back or
\* belongs to somebody else by now: a message to a player does not reach another.
NamesLive == \A n \in Names : named[n] # None =>
               /\ block[named[n]].userCb = n
               /\ proxy[block[named[n]].id] = named[n]

Live == {block[proxy[i]].number : i \in Kept}
Ending == {block[e.block].number : e \in Range(closing)}
Attached == {block[b].number : b \in {b \in Blocks : block[b].userCb # None}}

\* The user hears of the end of every client he has attached exactly once, whoever ends it and
\* however often, unless the service stops.
ToldOnce == /\ \A k \in 1..MaxClients : told[k] <= 1
            /\ \A k \in Attached \ Live : stopped \/ told[k] = 1
            /\ \A k \in Live \ Ending : told[k] = 0

Quiet(g) == toService[g] = <<>> /\ toGateway[g] = <<>> /\ Idle

\* When nothing is under way, service and gateway agree on who is connected, although each may
\* have ended clients on its own.  They may differ for the clients of a gateway that died, and
\* for one whose end could not be queued.
Agree == \A g \in Gateways \ restarts : Quiet(g) =>
           \A i \in {j \in Ids : j[1] = g} \ unsure : i \in Kept <=> client[i] = "open"

=============================================================================
