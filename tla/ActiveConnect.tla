------------------------------ MODULE ActiveConnect ------------------------------
(***************************************************************************)
(* Connections that a service opens (CService::doActiveConnect).  The      *)
(* service thread writes a request into a block of its pool and queues it; *)
(* the connection thread chains the queued blocks, tries one after the     *)
(* other (CConnectManager::doActiveConnect), and sends each block back     *)
(* through a second queue with the outcome, for the service to call the    *)
(* requester and return the block.                                         *)
(*                                                                         *)
(* The connection thread follows the chain through the blocks themselves,  *)
(* also through one it has just sent back.                                 *)
(***************************************************************************)
EXTENDS Naturals, FiniteSets, SequencesExt

CONSTANTS Dests,         \* what is asked for: pairs of an address and a user id
          Bad,           \* the address that is none
          MaxRequests,   \* bound on the requests, and the number of blocks: the pool grows at need
          QueueCap       \* size of each of the two queues

ASSUME RequestsAssumption == MaxRequests \in Nat /\ QueueCap \in Nat \ {0}

Blocks == 1..MaxRequests
None == 0
Addresses == {d[1] : d \in Dests} \ {Bad}

VARIABLES free,      \* m_memForActiveConnect: the block given back last in front
          block,     \* ActiveConnectData
          asked,     \* m_activeConnectDataQueue
          result,    \* m_activeConnectResultQueue
          ct,        \* the connection thread in doActiveConnect
          login,     \* connections being opened, each with the block it is for
          backoff,   \* m_errorConns: addresses not to be tried for now
          handling,  \* the block whose requester the service is calling, or None
          requests,  \* requests accepted, numbered in this order
          fate       \* what became of them

vars == <<free, block, asked, result, ct, login, backoff, handling, requests, fate>>

AtRest == [pc |-> "take", cur |-> None, ip |-> Bad, chain |-> <<>>]

Init == /\ free = [b \in Blocks |-> b]
        /\ block = [b \in Blocks |-> [dest |-> <<Bad, Bad>>, next |-> None, ok |-> FALSE, request |-> 0]]
        /\ asked = <<>> /\ result = <<>>
        /\ ct = AtRest
        /\ login = {}
        /\ backoff = {}
        /\ handling = None
        /\ requests = 0
        /\ fate = [r \in 1..MaxRequests |-> "none"]

-----------------------------------------------------------------------------
(* The service thread.                                                     *)

\* doActiveConnect, in or outside the callback of another request; a full queue is an error
\* that gives the block back.
Request(dest) ==
  /\ requests < MaxRequests /\ free # <<>>
  /\ block' = [block EXCEPT ![Head(free)] =
                 [dest |-> dest, next |-> None, ok |-> FALSE, request |-> requests + 1]]
  /\ IF Len(asked) < QueueCap
     THEN /\ free' = Tail(free)
          /\ asked' = Append(asked, Head(free))
          /\ requests' = requests + 1
          /\ fate' = [fate EXCEPT ![requests + 1] = "pending"]
     ELSE UNCHANGED <<free, asked, requests, fate>>
  /\ UNCHANGED <<result, ct, login, backoff, handling>>

\* run takes one result per round and calls the requester.
Answer ==
  /\ handling = None /\ result # <<>>
  /\ handling' = Head(result)
  /\ result' = Tail(result)
  /\ fate' = [fate EXCEPT ![block[Head(result)].request] = "answered"]
  /\ UNCHANGED <<free, block, asked, ct, login, backoff, requests>>

Release ==
  /\ handling # None
  /\ free' = <<handling>> \o free
  /\ handling' = None
  /\ UNCHANGED <<block, asked, result, ct, login, backoff, requests, fate>>

-----------------------------------------------------------------------------
(* The connection thread.                                                  *)

\* getActiveConnectData: chain what is queued, the newest in front.
Take ==
  /\ ct.pc = "take" /\ asked # <<>>
  /\ block' = [block EXCEPT ![Head(asked)].next = ct.cur]
  /\ ct' = [ct EXCEPT !.cur = Head(asked), !.chain = <<Head(asked)>> \o @]
  /\ asked' = Tail(asked)
  /\ UNCHANGED <<free, result, login, backoff, handling, requests, fate>>

\* peerAddrIp starts without a value: any address, or one that nobody has (Bad).
TakeEnds ==
  /\ ct.pc = "take" /\ asked = <<>> /\ ct.cur # None
  /\ \E ip \in Addresses \union {Bad} : ct' = [ct EXCEPT !.pc = "look", !.ip = ip]
  /\ UNCHANGED <<free, block, asked, result, login, backoff, handling, requests, fate>>

\* What the thread does not get to is neither answered nor given back.
Drop(requestsOf, why) == [r \in DOMAIN fate |-> IF \E b \in requestsOf : block[b].request = r
                                                THEN why ELSE fate[r]]

GoTo(b, ip) == ct' = IF b = None THEN AtRest
                     ELSE [ct EXCEPT !.pc = "look", !.cur = b, !.chain = Tail(@), !.ip = ip]

Address == LET d == block[ct.cur].dest IN IF d[1] = Bad THEN ct.ip ELSE d[1]

\* MUTANT of Busy: checkActiveConnect is left out.
BusyNever == FALSE

\* checkActiveConnect: the same address and user id is being connected to.
Busy == \E l \in login : l.dest = block[ct.cur].dest

\* checkErrorActiveConnect is asked for an invalid address too: with the address of the request before.
Waits == Address \in backoff

\* A request whose connection is being opened, or whose address failed lately, is passed over.
PassOver ==
  /\ ct.pc = "look"
  /\ Busy \/ Waits
  /\ GoTo(block[ct.cur].next, Address)
  /\ fate' = Drop({ct.cur}, IF Busy THEN "busy" ELSE "waits")
  /\ UNCHANGED <<free, block, asked, result, login, backoff, handling, requests>>

Looks == ct.pc = "look" /\ ~Busy /\ ~Waits

\* doCreateServiceConnect: a full queue drops the result.
Report(b, ok) ==
  /\ block' = [block EXCEPT ![b].ok = ok]
  /\ IF Len(result) < QueueCap
     THEN result' = Append(result, b) /\ UNCHANGED fate
     ELSE fate' = Drop({b}, "full") /\ UNCHANGED result

\* The address is invalid, or the attempt fails at once.
Fails ==
  /\ Looks
  /\ backoff' = backoff \union {Address}
  /\ Report(ct.cur, FALSE)
  /\ ct' = [ct EXCEPT !.pc = "advance", !.ip = Address]
  /\ UNCHANGED <<free, asked, login, handling, requests>>

Succeeds ==
  /\ Looks /\ block[ct.cur].dest[1] # Bad
  /\ Report(ct.cur, TRUE)
  /\ ct' = [ct EXCEPT !.pc = "advance", !.ip = Address]
  /\ UNCHANGED <<free, asked, login, backoff, handling, requests>>

Connecting ==
  /\ Looks /\ block[ct.cur].dest[1] # Bad
  /\ login' = login \union {[dest |-> block[ct.cur].dest, cb |-> ct.cur]}
  /\ ct' = [ct EXCEPT !.pc = "advance", !.ip = Address]
  /\ UNCHANGED <<free, block, asked, result, backoff, handling, requests, fate>>

\* createConnect has no memory or epoll refuses the socket: the loop is left.
NoConnect ==
  /\ Looks /\ block[ct.cur].dest[1] # Bad
  /\ ct' = AtRest
  /\ fate' = Drop(Range(ct.chain), "left")
  /\ UNCHANGED <<free, block, asked, result, login, backoff, handling, requests>>

\* The link is read from the block in hand.  If the service has returned the block and written
\* another request into it, the link is gone, and the rest of the chain with it.
Advance ==
  /\ ct.pc = "advance"
  /\ LET next == block[ct.cur].next
     IN  /\ GoTo(next, ct.ip)
         /\ fate' = IF next = None THEN Drop(Range(Tail(ct.chain)), "cut") ELSE fate
  /\ UNCHANGED <<free, block, asked, result, login, backoff, handling, requests>>

\* onActiveConnect runs in the same thread, between two calls of doActiveConnect.
BetweenCalls == ct.pc = "take" /\ ct.cur = None

Opened(l) ==
  /\ BetweenCalls
  /\ login' = login \ {l}
  /\ backoff' = backoff \ {l.dest[1]}
  /\ Report(l.cb, TRUE)
  /\ UNCHANGED <<free, asked, ct, handling, requests>>

\* MUTANT of OpenFails: the connection stays in the list.
OpenFailsStays(l) ==
  /\ BetweenCalls
  /\ backoff' = backoff \union {l.dest[1]}
  /\ Report(l.cb, FALSE)
  /\ UNCHANGED <<free, asked, login, ct, handling, requests>>

\* MUTANT of OpenFails: the requester of an attempt that runs out of time is not told.
OpenFailsSilent(l) ==
  /\ BetweenCalls
  /\ login' = login \ {l}
  /\ backoff' = backoff \union {l.dest[1]}
  /\ UNCHANGED <<free, block, asked, result, ct, handling, requests, fate>>

\* An error of the socket, or the time is over.
OpenFails(l) ==
  /\ BetweenCalls
  /\ login' = login \ {l}
  /\ backoff' = backoff \union {l.dest[1]}
  /\ Report(l.cb, FALSE)
  /\ UNCHANGED <<free, asked, ct, handling, requests>>

\* The interval after an error is over.
Elapse(ip) ==
  /\ backoff' = backoff \ {ip}
  /\ ip \in backoff
  /\ UNCHANGED <<free, block, asked, result, ct, login, handling, requests, fate>>

-----------------------------------------------------------------------------
Service == Answer \/ Release
Examine == PassOver \/ Fails \/ Succeeds \/ Connecting \/ NoConnect
Connector == Take \/ TakeEnds \/ Examine \/ Advance
Events == \E l \in login : Opened(l) \/ OpenFails(l)

Next == \/ \E d \in Dests : Request(d)
        \/ Service \/ Connector \/ Events
        \/ \E ip \in backoff : Elapse(ip)

\* Both threads loop for ever, and the kernel ends every attempt to connect.
Spec == Init /\ [][Next]_vars /\ WF_vars(Service) /\ WF_vars(Connector) /\ WF_vars(Events)

-----------------------------------------------------------------------------
TypeOK == /\ Range(free) \union Range(asked) \union Range(result) \subseteq Blocks
          /\ ct.pc \in {"take", "look", "advance"} /\ {ct.cur, handling} \subseteq Blocks \union {None}
          /\ login \subseteq [dest : Dests, cb : Blocks]
          /\ backoff \subseteq Addresses \union {Bad}
          /\ Range(fate) \subseteq {"none", "pending", "answered", "busy", "waits", "full", "left", "cut"}

\* The blocks the connection thread has still to look at: the one in hand has left it when reported.
ToLookAt == IF ct.pc = "advance" THEN Tail(ct.chain) ELSE ct.chain

Waiting == {l.cb : l \in login}

\* A block is in one place at a time: free, queued, in the chain, with a connection that is being
\* opened, queued back, or in the hands of the service.  The two threads never share a block that is
\* used again, except through the link that Advance reads.
OnePlace ==
  LET inHand == IF handling = None THEN <<>> ELSE <<handling>>
      places == free \o asked \o ToLookAt \o result \o inHand
  IN  /\ IsInjective(places)
      /\ Cardinality(Waiting) = Cardinality(login)
      /\ Waiting \intersect Range(places) = {}

\* One address and user id is being connected to at most once, which is what makes the three
\* of them the name of a connection (CNetDataHandler.cpp:46).
OneAttempt == \A l, m \in login : l.dest = m.dest => l = m

\* A block of the pool of requests for a connection is in one place, and no connection is
\* opened twice at a time (CConnectManager::doActiveConnect, CService::doActiveConnect).
ActiveSound == TypeOK /\ OnePlace /\ OneAttempt

\* Every request that was accepted is answered, unless it is passed over (busy, waits), the loop is
\* left for lack of memory, the result queue is full, or the chain is cut: no other request is lost.
Answered == \A r \in 1..MaxRequests : fate[r] = "pending" ~> fate[r] # "pending"

=============================================================================
