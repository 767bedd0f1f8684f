------------------------------ MODULE HttpConnect ------------------------------
(***************************************************************************)
(* The HTTP requests a service makes (CHttpDataHandler::doHttpConnect and  *)
(* onHandle, CHttpConnectMgr).  The service thread opens the connection    *)
(* and registers it with epoll, edge triggered; the HTTP thread sends the  *)
(* request, collects the reply and hands the block back through a queue.   *)
(*                                                                         *)
(* The amount of data is reduced to what the code tells apart: a request   *)
(* is sent in at most two pieces, a reply comes in at most two, and a      *)
(* third piece is more than the receive buffer holds.  The branch for a    *)
(* connect() still under way is left out: SO_ERROR never says so.          *)
(***************************************************************************)
EXTENDS Naturals, Sequences, FiniteSets, SequencesExt

CONSTANTS Blocks,      \* blocks of m_memForConnectData
          QueueCap,    \* MaxDataQueueSize
          Unusual      \* what may happen besides: "early_answer", a server answers before it has the
                       \* whole request; "early_stop", the service ends before the thread has started;
                       \* "tls_fails_at_once", within the call that opens the connection

Whole == 2             \* pieces of a reply
TooMuch == 3

VARIABLES blk,         \* of each block: status, tls, out (pieces still to send), got (pieces received)
          free,        \* how often each block is in the pool
          cb,          \* how many buffers with the data of the user each block holds
          net,         \* of each block's socket; "none" is fd = -1
          queue,       \* m_dataQueue
          http,        \* the HTTP thread, with the event it handles
          status,      \* m_status
          unload       \* the service thread in onUnLoad: "no", "waits" or "done"

thread == <<http, status, unload>>
vars == <<blk, free, cb, net, queue, http, status, unload>>

NoSocket == [st |-> "none", sent |-> 0, fin |-> FALSE, room |-> FALSE, hs |-> FALSE, late |-> FALSE, edge |-> FALSE]
NoEvent == [b |-> "none", in |-> FALSE, out |-> FALSE, bad |-> FALSE]

Init == /\ blk = [b \in Blocks |-> [status |-> "none", tls |-> FALSE, out |-> 0, got |-> 0]]
        /\ free = [b \in Blocks |-> 1]
        /\ cb = [b \in Blocks |-> 0]
        /\ net = [b \in Blocks |-> NoSocket]
        /\ queue = <<>>
        /\ http = [pc |-> "created", ev |-> NoEvent]
        /\ status = "Stop" /\ unload = "no"

Open(b) == net[b].st # "none"
Working == unload = "no"

-----------------------------------------------------------------------------
(* sendConnectData: the connection is closed, then the block is queued; a  *)
(* full queue loses it.                                                    *)

Queued(q, b) == IF Len(q) < QueueCap THEN Append(q, b) ELSE q

\* MUTANT of Finish: the connection is closed behind the put, and may have an event in between.
FinishOpen(b, s, out, got) == /\ blk' = [blk EXCEPT ![b].status = s, ![b].out = out, ![b].got = got]
                              /\ queue' = Queued(queue, b)
                              /\ UNCHANGED net

Finish(b, s, out, got) == /\ blk' = [blk EXCEPT ![b].status = s, ![b].out = out, ![b].got = got]
                          /\ net' = [net EXCEPT ![b] = NoSocket]
                          /\ queue' = Queued(queue, b)

Keep(b, s, out, got) == /\ blk' = [blk EXCEPT ![b].status = s, ![b].out = out, ![b].got = got]
                        /\ UNCHANGED queue

-----------------------------------------------------------------------------
(* The service thread.                                                     *)

\* doHttpConnect: the block is given back when the connection cannot be made.  A handshake that fails
\* at once has already queued the block, and then adding the closed socket to epoll fails.
Connect(b, tls, user) ==
  /\ Working /\ free[b] > 0
  /\ \/ UNCHANGED <<blk, free, cb, net, queue>>
     \/ /\ free' = [free EXCEPT ![b] = @ - 1]
        /\ cb' = [cb EXCEPT ![b] = user]
        /\ UNCHANGED queue
        /\ \E st \in {"wait", "up"} :
             /\ net' = [net EXCEPT ![b] = [NoSocket EXCEPT !.st = st, !.room = st = "up", !.edge = st = "up"]]
             /\ blk' = [blk EXCEPT ![b] = [status |-> IF st = "wait" THEN "connecting" ELSE IF tls THEN "ssl" ELSE "normal",
                                           tls |-> tls, out |-> 2, got |-> 0]]
     \/ /\ tls /\ "tls_fails_at_once" \in Unusual
        /\ queue' = Queued(queue, b)
        /\ blk' = [blk EXCEPT ![b] = [status |-> "SSLConnectError", tls |-> TRUE, out |-> 2, got |-> 0]]
        /\ UNCHANGED <<free, cb, net>>
  /\ UNCHANGED thread

\* MUTANT of OnHandle: the user's buffer stays behind when the request has failed.
OnHandleKeeps == /\ Working /\ queue # <<>>
                 /\ LET b == Head(queue)
                    IN /\ free' = [free EXCEPT ![b] = @ + 1]
                       /\ cb' = [cb EXCEPT ![b] = IF blk[b].status = "CanRead" THEN 0 ELSE @]
                 /\ queue' = Tail(queue)
                 /\ UNCHANGED <<blk, net, thread>>

\* onHandle: one block each round; the reply goes to its handler, the block and its buffer go back.
OnHandle == /\ Working /\ queue # <<>>
            /\ LET b == Head(queue)
               IN /\ free' = [free EXCEPT ![b] = @ + 1]
                  /\ cb' = [cb EXCEPT ![b] = 0]
            /\ queue' = Tail(queue)
            /\ UNCHANGED <<blk, net, thread>>

OnUnLoad == /\ Working
            /\ status # "Stop" \/ "early_stop" \in Unusual
            /\ status' = IF status # "Stop" THEN "Stopping" ELSE status
            /\ unload' = "waits"
            /\ UNCHANGED <<blk, free, cb, net, queue, http>>

Unloaded == /\ unload = "waits" /\ status = "Stop"
            /\ unload' = "done"
            /\ UNCHANGED <<blk, free, cb, net, queue, http, status>>

Service == OnHandle \/ Unloaded

-----------------------------------------------------------------------------
(* The HTTP thread.                                                        *)

Start == /\ http.pc = "created"
         /\ http' = [http EXCEPT !.pc = "listen"]
         /\ status' = "Run"
         /\ UNCHANGED <<blk, free, cb, net, queue, unload>>

Leave == /\ http.pc = "listen" /\ status # "Run"
         /\ http' = [http EXCEPT !.pc = "ended"]
         /\ status' = "Stop"
         /\ UNCHANGED <<blk, free, cb, net, queue, unload>>

\* epoll_wait: what is true of the connection now; an edge is reported once.
Listen(b) ==
  /\ http.pc = "listen" /\ status = "Run"
  /\ net[b].edge
  /\ net' = [net EXCEPT ![b].edge = FALSE]
  /\ http' = [pc |-> "handle",
              ev |-> [b |-> b,
                      in |-> net[b].sent > blk[b].got \/ net[b].fin \/ net[b].st = "down",
                      out |-> net[b].room,
                      bad |-> net[b].fin \/ net[b].st = "down"]]
  /\ UNCHANGED <<blk, free, cb, queue, status, unload>>

ev == http.ev
Handles(b, st) == http.pc = "handle" /\ ev.b = b /\ blk[b].status \in st
Rest == http' = [pc |-> "listen", ev |-> NoEvent]
ThenRead == IF ev.in THEN http' = [http EXCEPT !.pc = "read"] ELSE Rest

\* writeToConnect, writeToSSLConnect.
Write(b) ==
  \/ /\ blk[b].out = 0 \/ (net[b].st = "up" /\ ~net[b].room)
     /\ ThenRead
     /\ UNCHANGED <<blk, net, queue>>
  \/ /\ blk[b].out > 0 /\ net[b].st = "up" /\ net[b].room
     /\ ThenRead
     /\ \E n \in 0..(blk[b].out - 1) :
          /\ Keep(b, IF n = 0 THEN "AlreadyWrite" ELSE blk[b].status, n, blk[b].got)
          /\ net' = [net EXCEPT ![b].room = n = 0]
  \/ /\ blk[b].out > 0 /\ net[b].st = "down"
     /\ Finish(b, "ConnectError", blk[b].out, blk[b].got)
     /\ ThenRead

\* doSSLConnect: a handshake that is done is followed by the first write; a read waits for the next event.
Handshake(b) ==
  \/ /\ net[b].st = "up" /\ net[b].hs /\ net[b].room
     /\ \E n \in 0..(blk[b].out - 1) :
          /\ Keep(b, IF n = 0 THEN "AlreadyWrite" ELSE "normal", n, blk[b].got)
          /\ net' = [net EXCEPT ![b].room = n = 0]
  \/ /\ net[b].st = "up" /\ net[b].hs /\ ~net[b].room
     /\ Keep(b, "normal", blk[b].out, blk[b].got) /\ UNCHANGED net
  \/ /\ net[b].st = "up" /\ ~net[b].hs /\ ~net[b].fin /\ ~net[b].late
     /\ Keep(b, "ssl", blk[b].out, blk[b].got) /\ UNCHANGED net
  \/ /\ net[b].st = "up" /\ ~net[b].hs /\ ~net[b].fin /\ net[b].late
     /\ Finish(b, "TimeOut", blk[b].out, blk[b].got)
  \/ /\ net[b].st = "down" \/ net[b].hs \/ net[b].fin
     /\ Finish(b, "SSLConnectError", blk[b].out, blk[b].got)

\* MUTANT of OpenFails: the failure is noted, and the block not handed back.
OpenFailsSilent(b) == /\ Handles(b, {"connecting"})
                      /\ ev.bad \/ net[b].st = "down"
                      /\ Keep(b, "ConnectError", blk[b].out, blk[b].got)
                      /\ Rest
                      /\ UNCHANGED <<free, cb, net, status, unload>>

\* onActiveConnect: a connection that is not made, and one that is.
OpenFails(b) == /\ Handles(b, {"connecting"})
                /\ ev.bad \/ net[b].st = "down"
                /\ Finish(b, "ConnectError", blk[b].out, blk[b].got)
                /\ Rest
                /\ UNCHANGED <<free, cb, status, unload>>
Opened(b) == /\ Handles(b, {"connecting"})
             /\ ~ev.bad /\ net[b].st = "up"
             /\ IF blk[b].tls THEN Handshake(b) /\ Rest
                ELSE Write(b)
             /\ UNCHANGED <<free, cb, status, unload>>

Shakes(b) == /\ Handles(b, {"ssl"})
             /\ Handshake(b) /\ Rest
             /\ UNCHANGED <<free, cb, status, unload>>

\* handleConnect: a connection that is being closed is only read.
Handle(b) == /\ Handles(b, {"normal", "AlreadyWrite"})
             /\ IF ev.bad THEN ThenRead /\ UNCHANGED <<blk, net, queue>>
                ELSE Write(b)
             /\ UNCHANGED <<free, cb, status, unload>>

\* readFromConnect, readFromSSLConnect and parseReadData: one read; what it completes is handed over.
\* When the write has failed the socket is closed, and the read fails as well.
Read(b) ==
  /\ http.pc = "read" /\ ev.b = b
  /\ Rest
  /\ LET new == net[b].sent > blk[b].got
         n == net[b].sent
     IN \/ ~new /\ net[b].st = "up" /\ ~net[b].fin /\ UNCHANGED <<blk, net, queue>>
        \/ ~new /\ net[b].fin /\ net[b].st = "up" /\ Finish(b, "CanRead", blk[b].out, blk[b].got)
        \/ net[b].st \in {"down", "none"} /\ Finish(b, "ConnectError", blk[b].out, blk[b].got)
        \/ new /\ net[b].st = "up" /\ n < Whole /\ Keep(b, blk[b].status, blk[b].out, n) /\ UNCHANGED net
        \/ new /\ net[b].st = "up" /\ n >= Whole
           /\ Finish(b, IF n = TooMuch THEN "DataError" ELSE "CanRead", blk[b].out, n)
  /\ UNCHANGED <<free, cb, status, unload>>

Http == Start \/ Leave \/ \E b \in Blocks : Listen(b) \/ OpenFails(b) \/ Opened(b) \/ Shakes(b) \/ Handle(b) \/ Read(b)

-----------------------------------------------------------------------------
(* The network and the server.                                             *)

Alone == UNCHANGED <<blk, free, cb, queue, thread>>

Accept(b) == /\ net[b].st = "wait"
             /\ net' = [net EXCEPT ![b].st = "up", ![b].room = TRUE, ![b].edge = TRUE]
             /\ Alone
Shake(b) == /\ net[b].st = "up" /\ blk[b].status = "ssl" /\ ~net[b].hs
            /\ net' = [net EXCEPT ![b].hs = TRUE, ![b].edge = TRUE]
            /\ Alone
Drain(b) == /\ net[b].st = "up" /\ ~net[b].room
            /\ net' = [net EXCEPT ![b].room = TRUE, ![b].edge = TRUE]
            /\ Alone
\* The reply, as a whole or in pieces, the last perhaps together with the end of the connection.
Answer(b) == /\ net[b].st = "up" /\ ~net[b].fin /\ net[b].sent < Whole
             /\ blk[b].out = 0 \/ ("early_answer" \in Unusual /\ blk[b].status = "normal")
             /\ \E n \in (net[b].sent + 1)..TooMuch, f \in BOOLEAN :
                  net' = [net EXCEPT ![b].sent = n, ![b].fin = f, ![b].edge = TRUE]
             /\ Alone
Close(b) == /\ net[b].st = "up" /\ ~net[b].fin
            /\ net' = [net EXCEPT ![b].fin = TRUE, ![b].edge = TRUE]
            /\ Alone
Reset(b) == /\ net[b].st \in {"wait", "up"}
            /\ net' = [net EXCEPT ![b].st = "down", ![b].edge = TRUE]
            /\ Alone
Late(b) == /\ net[b].st = "up" /\ blk[b].status = "ssl" /\ ~net[b].late
           /\ net' = [net EXCEPT ![b].late = TRUE]
           /\ Alone

Peer == \E b \in Blocks : Accept(b) \/ Shake(b) \/ Drain(b) \/ Answer(b) \/ Close(b) \/ Reset(b) \/ Late(b)

Next == \/ Service \/ Http \/ Peer \/ OnUnLoad
        \/ \E b \in Blocks, tls \in BOOLEAN, user \in {0, 1} : Connect(b, tls, user)

\* epoll lets no connection wait behind the events of others.
Spec == /\ Init /\ [][Next]_vars
        /\ WF_vars(Service) /\ WF_vars(Http) /\ \A b \in Blocks : SF_vars(Listen(b))

-----------------------------------------------------------------------------
TypeOK == /\ \A b \in Blocks : free[b] \in 0..2 /\ blk[b].got \in 0..TooMuch /\ blk[b].out \in 0..2
          /\ status \in {"Stop", "Run", "Stopping"} /\ unload \in {"no", "waits", "done"}
          /\ Len(queue) <= QueueCap

Count(b) == Cardinality({i \in DOMAIN queue : queue[i] = b})

\* A block is in the pool, on its connection or in the queue, and never in two of them; a free block
\* holds no buffer of its user.
OnePlace == \A b \in Blocks : /\ free[b] + Count(b) + (IF Open(b) THEN 1 ELSE 0) = 1
                              /\ free[b] > 0 => cb[b] = 0

\* When the service has unloaded, the thread is gone.
ThreadGone == unload = "done" => http.pc = "ended"

\* Every request whose connection is refused or reset, or whose reply has come as a whole, or that the
\* server closes after what it sent was read, ends and gives its block back.
\* (An end that comes with the last piece of an incomplete reply, or of the handshake, has no event of its own.)
Due(b) == Open(b) /\ (\/ net[b].st = "down" \/ net[b].sent >= Whole
                     \/ (net[b].fin /\ net[b].edge /\ net[b].sent = blk[b].got /\ blk[b].status # "ssl"))
Over(b) == free[b] > 0 \/ unload # "no"
Ends == \A b \in Blocks : Due(b) ~> Over(b)

\* "The timeout of the connection" (HttpBaseDefine.h:38): a request whose time is over ends.
LateEnds == \A b \in Blocks : (Open(b) /\ net[b].late) ~> Over(b)

\* "Read the last data first" (CHttpConnectMgr.cpp:256): then a connection that the server closes ends.
ClosedEnds == \A b \in Blocks : (Open(b) /\ net[b].fin) ~> Over(b)
=============================================================================
