------------------------------ MODULE HttpRequests ------------------------------
(***************************************************************************)
(* The HTTP requests a service receives (CHttpDataHandler::onClientData,   *)
(* handleRequest, onClosedConnect).  What a connection delivers is added   *)
(* to its buffer, and each delivery makes the handler look once for one    *)
(* complete request at the front of the buffer.  A buffer is attached to   *)
(* the connection and released when the service learns of its end, which   *)
(* comes through a queue; meanwhile connections are known by the address   *)
(* of their peer.                                                          *)
(*                                                                         *)
(* The stream is cut into units: a request is its first line, perhaps more *)
(* of the header, "e" for the end of the header, and units "b" of content. *)
(***************************************************************************)
EXTENDS Naturals, FiniteSets, SequencesExt

CONSTANTS Conns,
          Addr,        \* Addr[c]: the peer's "ip:port", m_id2Connects' key
          Scripts,     \* Scripts[c]: what the client may send, sequences of requests, with their prefixes
          Cap,         \* MaxRequestDataLen - 1, in units
          QueueCap     \* ClosedClientConnectMaxCount

None == "none"

\* What the code finds in a first line: the method, whether a handler is registered for the URL, and
\* the Content-Length of the header.
Lines == [get     |-> [method |-> "GET",   known |-> TRUE,  length |-> 0],
          lost    |-> [method |-> "GET",   known |-> FALSE, length |-> 0],
          post    |-> [method |-> "POST",  known |-> TRUE,  length |-> 1],
          big     |-> [method |-> "POST",  known |-> TRUE,  length |-> Cap],
          huge    |-> [method |-> "POST",  known |-> TRUE,  length |-> Cap + 1],
          put     |-> [method |-> "OTHER", known |-> TRUE,  length |-> 0]]

VARIABLES state,       \* of each connection: "unused", "open", "closed" by one side, "noticed" or "gone"
          sent,        \* the requests the client has sent
          wire,        \* units that have not been delivered
          buf,         \* reqData
          attached,    \* whether a buffer is attached (userCb)
          handled,     \* the requests given to their handlers, as they were taken from the buffer
          dropped,     \* whether units did not fit into the buffer
          piped,       \* whether the client has sent a request before the last was answered
          byId,        \* m_id2Connects
          notices,     \* m_closedClientConnectQueue
          returned,    \* how often the buffer of each connection was given back
          round        \* the service's loop: "data" or "closed"

client == <<sent, wire, piped>>
vars == <<state, client, buf, attached, handled, dropped, byId, notices, returned, round>>

Init == /\ state = [c \in Conns |-> "unused"]
        /\ sent = [c \in Conns |-> <<>>] /\ wire = [c \in Conns |-> <<>>] /\ buf = [c \in Conns |-> <<>>]
        /\ attached = [c \in Conns |-> FALSE]
        /\ handled = [c \in Conns |-> <<>>]
        /\ dropped = [c \in Conns |-> FALSE] /\ piped = [c \in Conns |-> FALSE]
        /\ byId = [a \in {Addr[c] : c \in Conns} |-> None]
        /\ notices = <<>>
        /\ returned = [c \in Conns |-> 0]
        /\ round = "data"

-----------------------------------------------------------------------------
(* The clients and the connection thread.                                  *)

Open(c) == /\ state[c] = "unused"
           /\ \A d \in Conns : Addr[d] = Addr[c] => state[d] # "open"
           /\ state' = [state EXCEPT ![c] = "open"]
           /\ UNCHANGED <<client, buf, attached, handled, dropped, byId, notices, returned, round>>

Send(c) == \E s \in Scripts[c] :
              /\ state[c] = "open"
              /\ Len(s) = Len(sent[c]) + 1 /\ IsPrefix(sent[c], s)
              /\ sent' = [sent EXCEPT ![c] = s]
              /\ wire' = [wire EXCEPT ![c] = @ \o Last(s)]
              /\ piped' = [piped EXCEPT ![c] = @ \/ Len(sent[c]) > Len(handled[c])]
              /\ UNCHANGED <<state, buf, attached, handled, dropped, byId, notices, returned, round>>

Hangup(c) == /\ state[c] = "open"
             /\ state' = [state EXCEPT ![c] = "closed"]
             /\ UNCHANGED <<client, buf, attached, handled, dropped, byId, notices, returned, round>>

\* closedClientConnect, by the connection thread: a connection without a buffer has nothing to tell,
\* and a full queue loses the notice.
Closed(c) ==
  /\ state[c] = "closed"
  /\ \/ /\ attached[c] /\ Len(notices) < QueueCap
        /\ notices' = Append(notices, c)
        /\ state' = [state EXCEPT ![c] = "noticed"]
     \/ /\ ~attached[c] \/ Len(notices) >= QueueCap
        /\ state' = [state EXCEPT ![c] = "gone"]
        /\ UNCHANGED notices
  /\ UNCHANGED <<client, buf, attached, handled, dropped, byId, returned, round>>

-----------------------------------------------------------------------------
(* handleRequest.                                                          *)

HasHeader(q) == "e" \in ToSet(q)
HeaderLen(q) == SelectInSeq(q, LAMBDA u : u = "e")
Parses(q) == Head(q) \in DOMAIN Lines          \* parseHeader: a method and a URL are found
Line(q) == Lines[Head(q)]
Content(q) == IF Line(q).method = "POST" THEN Line(q).length ELSE 0
After(q, n) == SubSeq(q, n + 1, Len(q))

\* The cases in which the connection is closed: a header that fills the buffer or is none, a URL or a
\* length that is not accepted.
Refused(q) == \/ ~HasHeader(q) /\ Len(q) >= Cap
              \/ HasHeader(q) /\ ~Parses(q)
              \/ HasHeader(q) /\ Parses(q) /\ Line(q).method = "POST" /\ Content(q) > Cap
              \/ HasHeader(q) /\ Parses(q) /\ Line(q).method = "GET" /\ ~Line(q).known

\* MUTANT of Complete: one unit more than the content is waited for.
CompleteLate(q) == /\ HasHeader(q) /\ Parses(q) /\ Line(q).method # "OTHER" /\ ~Refused(q)
                   /\ Len(q) - HeaderLen(q) > Content(q)

\* A request is complete; one of another method never is, and stays in the buffer.
Complete(q) == /\ HasHeader(q) /\ Parses(q) /\ Line(q).method # "OTHER" /\ ~Refused(q)
               /\ Len(q) - HeaderLen(q) >= Content(q)

\* MUTANT of Rest: what is behind the request is thrown away.
RestNothing(q) == <<>>

\* What is behind a request stays for the next delivery.
Rest(q) == After(q, HeaderLen(q) + Content(q))

\* removeConnect: the connection registered under the address is closed.
RemoveConnect(c, known) ==
  /\ byId' = [known EXCEPT ![Addr[c]] = None]
  /\ state' = [d \in Conns |-> IF known[Addr[c]] = d /\ state[d] = "open" THEN "closed" ELSE state[d]]

\* onClientData for n units.  The first delivery attaches a buffer and registers the connection.
Deliver(c, n) ==
  /\ round = "data" /\ state[c] = "open"
  /\ n \in 1..Len(wire[c])
  /\ wire' = [wire EXCEPT ![c] = After(@, n)]
  /\ attached' = [attached EXCEPT ![c] = TRUE]
  /\ LET room == Cap - Len(buf[c])
         q == buf[c] \o SubSeq(wire[c], 1, IF n < room THEN n ELSE room)
         known == IF attached[c] THEN byId ELSE [byId EXCEPT ![Addr[c]] = c]
     IN /\ dropped' = [dropped EXCEPT ![c] = @ \/ n > room]
        /\ \/ /\ Complete(q)
              /\ handled' = [handled EXCEPT ![c] = Append(@, SubSeq(q, 1, HeaderLen(q) + Content(q)))]
              /\ buf' = [buf EXCEPT ![c] = Rest(q)]
           \/ /\ ~Complete(q)
              /\ buf' = [buf EXCEPT ![c] = q]
              /\ UNCHANGED handled
        /\ \/ /\ Refused(q) \/ Complete(q)     \* a handler may close the connection when it has answered
              /\ RemoveConnect(c, known)
           \/ /\ ~Refused(q)
              /\ byId' = known
              /\ UNCHANGED state
  /\ round' = "closed"
  /\ UNCHANGED <<sent, piped, notices, returned>>

\* There need be no data.
NoData == /\ round = "data"
          /\ round' = "closed"
          /\ UNCHANGED <<state, client, buf, attached, handled, dropped, byId, notices, returned>>

\* MUTANT of OnClosedConnect: only a connection that is still registered gives its buffer back.
OnClosedPassive ==
  /\ round = "closed"
  /\ round' = "data"
  /\ notices' = <<>>
  /\ byId' = [a \in DOMAIN byId |-> IF \E i \in DOMAIN notices : Addr[notices[i]] = a THEN None ELSE byId[a]]
  /\ returned' = [c \in Conns |-> IF c \in ToSet(notices) /\ byId[Addr[c]] = c THEN returned[c] + 1 ELSE returned[c]]
  /\ state' = [c \in Conns |-> IF c \in ToSet(notices) THEN "gone" ELSE state[c]]
  /\ UNCHANGED <<client, buf, attached, handled, dropped>>

\* onClosedConnect for all notices: the entry of the address goes, whosever it is, and the buffer.
OnClosedConnect ==
  /\ round = "closed"
  /\ round' = "data"
  /\ notices' = <<>>
  /\ byId' = [a \in DOMAIN byId |-> IF \E i \in DOMAIN notices : Addr[notices[i]] = a THEN None ELSE byId[a]]
  /\ returned' = [c \in Conns |-> IF c \in ToSet(notices) THEN returned[c] + 1 ELSE returned[c]]
  /\ state' = [c \in Conns |-> IF c \in ToSet(notices) THEN "gone" ELSE state[c]]
  /\ UNCHANGED <<client, buf, attached, handled, dropped>>

Data == \E c \in Conns, n \in 1..Cap : Deliver(c, n)

Next == \/ \E c \in Conns : Open(c) \/ Send(c) \/ Hangup(c) \/ Closed(c)
        \/ Data \/ NoData \/ OnClosedConnect

\* The service's loop goes on, the connection thread closes, and what was sent arrives.
Spec == /\ Init /\ [][Next]_vars
        /\ WF_vars(OnClosedConnect) /\ WF_vars(NoData)
        /\ \A c \in Conns : WF_vars(Closed(c)) /\ SF_vars(\E n \in 1..Cap : Deliver(c, n))

-----------------------------------------------------------------------------
TypeOK == /\ \A c \in Conns : Len(buf[c]) <= Cap /\ Len(handled[c]) <= Len(sent[c])
          /\ Len(notices) <= QueueCap

\* Unless units did not fit, the handlers are given the requests that were sent, whole and in their
\* order, and what they were not given yet is in the buffer or on its way.
HandledAsSent == \A c \in Conns : ~dropped[c] =>
                   /\ IsPrefix(handled[c], sent[c])
                   /\ FlattenSeq(handled[c]) \o buf[c] \o wire[c] = FlattenSeq(sent[c])

\* A connection with a buffer is found by its address, and the buffer goes back once, when the
\* connection is gone.
KnownWhileOpen == \A c \in Conns : /\ (attached[c] /\ state[c] = "open") => byId[Addr[c]] = c
                                   /\ returned[c] = (IF attached[c] /\ state[c] = "gone" THEN 1 ELSE 0)

\* A client that waits for each answer, and whose requests are of a known method and fit into the
\* buffer, has each of them handled, or its connection is closed.
Fits(r) == Lines[r[1]].method # "OTHER" /\ Len(r) <= Cap
Unserved(c) == /\ state[c] = "open" /\ Len(sent[c]) > Len(handled[c])
               /\ \A i \in DOMAIN sent[c] : Fits(sent[c][i])
Settled(c) == state[c] # "open" \/ Len(sent[c]) = Len(handled[c])
Served == \A c \in Conns : (Unserved(c) /\ ~piped[c]) ~> (Settled(c) \/ piped[c])

\* The same of a client that sends its requests one behind the other.
PipedServed == \A c \in Conns : Unserved(c) ~> Settled(c)
=============================================================================
