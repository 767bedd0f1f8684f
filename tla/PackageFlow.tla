------------------------------ MODULE PackageFlow ------------------------------
(***************************************************************************)
(* Packages on a connection between two nodes: how the thread that handles *)
(* the data writes what the logic layer has (readFromLogic, write), and    *)
(* takes packages and heartbeats out of the bytes that come (handleData,   *)
(* readPkgHeader, readPkgBody), for the middleware, which finds the queue  *)
(* of the receiver for each package, and for a service, which has one      *)
(* buffer.  The bytes of a connection keep their order (StreamBuffers).    *)
(*                                                                         *)
(* A package is cut into units: the header in two, because it may come in  *)
(* pieces, the user's header, and its content.                             *)
(***************************************************************************)
EXTENDS Naturals, SequencesExt

CONSTANTS Nodes,        \* the two ends
          Given,        \* Given[n]: packages for the other end, [to |-> receiver, len |-> units of content]
          Addressees,   \* receivers that have a queue (getNodeMsgQueue)
          QueueCap,     \* packages that fill this queue
          RecvLen,      \* what a service's buffer holds, in units
          MaxMsgSize,   \* m_maxMsgSize, the same at both ends: units of a package with its header
          MaxCuts, MaxBeats,   \* bounds on the ends of the connection and on the heartbeats
          OutOfMemory   \* whether the buffers for writing may run out

VARIABLES mode,         \* mode[n]: "middleware" or "service"; never changes
          up,           \* the connection of this time
          todo,         \* todo[n]: numbers of the packages the logic layer has not submitted as read
          wire,         \* wire[n]: units that n has written and that have not come
          in,           \* in[n]: units that have come to n
          need,         \* needReadSize
          queue,        \* packages the middleware has put into the receiver's queue, a service has received
          got,          \* the packages that were handed over to n's logic layer
          refused,      \* packages thrown away: no receiver, or a full queue
          failed,       \* logicStatus is exception
          cuts, beats

ends == <<queue, got, refused>>
vars == <<mode, up, todo, wire, in, need, ends, failed, cuts, beats>>

Other(n) == CHOOSE o \in Nodes : o # n
Unit(part, cmd, of) == [part |-> part, cmd |-> cmd, of |-> of]     \* of is the package, or 0 in a heartbeat
Header(cmd, p) == <<Unit("h1", cmd, p), Unit("h2", cmd, p)>>
Size(n, p) == 1 + Given[n][p].len
PkgLen(n, unit) == 2 + IF unit.cmd = "MSG" THEN Size(n, unit.of) ELSE 0      \* the length a header of n gives
Frame(n, p) == Header("MSG", p) \o <<Unit("u", "MSG", p)>> \o [i \in 1..Given[n][p].len |-> Unit("b", "MSG", p)]

Init == /\ mode \in {[n \in Nodes |-> "middleware"], [n \in Nodes |-> "service"]}
        /\ up = TRUE
        /\ todo = [n \in Nodes |-> [i \in DOMAIN Given[n] |-> i]]
        /\ wire = [n \in Nodes |-> <<>>] /\ in = [n \in Nodes |-> <<>>]
        /\ need = [n \in Nodes |-> 0]
        /\ queue = [n \in Nodes |-> 0] /\ got = [n \in Nodes |-> <<>>] /\ refused = [n \in Nodes |-> {}]
        /\ failed = [n \in Nodes |-> FALSE]
        /\ cuts = 0 /\ beats = 0

Live(n) == up /\ ~failed[n]

-----------------------------------------------------------------------------
(* Writing.                                                                *)

\* MUTANT of Submit: the package stays in the queue.
SubmitNever(n, written) == UNCHANGED todo

\* Only what has been written is submitted as read (submitReadBuffer).
Submit(n, written) == todo' = IF written THEN [todo EXCEPT ![n] = Tail(@)] ELSE todo

\* readFromLogic: the package is written as a whole, or not, when the socket has an error, which also
\* closes the connection; without memory for the rest of it, a part stays written.
Send(n) ==
  /\ Live(n) /\ todo[n] # <<>>
  /\ LET frame == Frame(n, Head(todo[n]))
     IN \/ wire' = [wire EXCEPT ![n] = @ \o frame] /\ Submit(n, TRUE)
        \/ /\ OutOfMemory
           /\ \E k \in 0..(Len(frame) - 1) : wire' = [wire EXCEPT ![n] = @ \o SubSeq(frame, 1, k)]
           /\ Submit(n, FALSE)
  /\ UNCHANGED <<mode, up, in, need, ends, failed, cuts, beats>>

\* The connection ends: what was on its way is lost, and the handlers begin anew with the next one.
\* The package being written stays in the queue.  A connection that failed is closed in any case.
Cut == /\ up /\ (cuts < MaxCuts \/ \E n \in Nodes : failed[n])
       /\ up' = FALSE /\ cuts' = cuts + 1
       /\ wire' = [n \in Nodes |-> <<>>] /\ in' = [n \in Nodes |-> <<>>]
       /\ need' = [n \in Nodes |-> 0] /\ failed' = [n \in Nodes |-> FALSE]
       /\ \/ UNCHANGED todo
          \/ \E n \in Nodes : todo[n] # <<>> /\ Submit(n, FALSE)
       /\ UNCHANGED <<mode, ends, beats>>

Connect == /\ ~up
           /\ up' = TRUE
           /\ UNCHANGED <<mode, todo, wire, in, need, ends, failed, cuts, beats>>

\* writeHbRequestPkg: nothing can be read, and nothing has come for some time.
BeatRequest(n) == /\ Live(n) /\ beats < MaxBeats
                  /\ in[n] = <<>> \/ Len(in[n]) < 2 \/ Len(in[n]) < need[n]
                  /\ wire' = [wire EXCEPT ![n] = @ \o Header("RQ", 0)]
                  /\ beats' = beats + 1
                  /\ UNCHANGED <<mode, up, todo, in, need, ends, failed, cuts>>

Arrive(n) == /\ up /\ wire[n] # <<>>
             /\ \E k \in 1..Len(wire[n]) :
                  /\ wire' = [wire EXCEPT ![n] = SubSeq(@, k + 1, Len(@))]
                  /\ in' = [in EXCEPT ![Other(n)] = @ \o SubSeq(wire[n], 1, k)]
             /\ UNCHANGED <<mode, up, todo, need, ends, failed, cuts, beats>>

-----------------------------------------------------------------------------
(* Reading.                                                                *)

Drop(s, k) == SubSeq(s, k + 1, Len(s))

\* MUTANT of HasRoom: a body that fills the buffer is taken for too long.
HasRoomBelow(size) == size < RecvLen

\* Whether a service's buffer holds the body.
HasRoom(size) == size <= RecvLen

\* Whether the middleware puts the package into the receiver's queue (getWriteBuffer): the receiver has
\* one with room, and something follows the user's header.
Queued(n, dest, size) == size > 1 /\ dest \in Addressees /\ queue[n] < QueueCap

\* MUTANT of Body: a package for which there is no room keeps its content in the connection.
BodyStays(n, rest, size) ==
  LET p == Head(rest).of
      dest == Given[Other(n)][p].to
  IN \/ /\ mode[n] = "middleware" /\ ~Queued(n, dest, size)
        /\ in' = [in EXCEPT ![n] = Tail(rest)] /\ need' = [need EXCEPT ![n] = 0]
        /\ refused' = [refused EXCEPT ![n] = @ \cup {p}]
        /\ UNCHANGED <<queue, got>>
     \/ /\ mode[n] = "service" \/ Queued(n, dest, size)
        /\ in' = [in EXCEPT ![n] = Drop(rest, size)] /\ need' = [need EXCEPT ![n] = 0]
        /\ queue' = [queue EXCEPT ![n] = @ + 1] /\ got' = [got EXCEPT ![n] = Append(@, p)]
        /\ UNCHANGED refused

\* readPkgBody when all of the body is there: the middleware throws it away when it is not to be queued; a
\* service whose buffer is too small leaves it where it is.
Body(n, rest, size) ==
  LET p == Head(rest).of
      dest == Given[Other(n)][p].to
  IN \/ /\ mode[n] = "middleware" /\ ~Queued(n, dest, size)
        /\ in' = [in EXCEPT ![n] = Drop(rest, size)] /\ need' = [need EXCEPT ![n] = 0]
        /\ refused' = [refused EXCEPT ![n] = @ \cup {p}]
        /\ UNCHANGED <<queue, got>>
     \/ /\ mode[n] = "service" /\ ~HasRoom(size)
        /\ in' = [in EXCEPT ![n] = rest] /\ need' = [need EXCEPT ![n] = size]
        /\ UNCHANGED ends
     \/ /\ \/ mode[n] = "service" /\ HasRoom(size)
           \/ mode[n] = "middleware" /\ Queued(n, dest, size)
        /\ in' = [in EXCEPT ![n] = Drop(rest, size)] /\ need' = [need EXCEPT ![n] = 0]
        /\ queue' = [queue EXCEPT ![n] = @ + 1] /\ got' = [got EXCEPT ![n] = Append(@, p)]
        /\ UNCHANGED refused

\* MUTANT of IsHeader: the length is not tested.
IsHeaderAnyLength(n, s) == s[1].part = "h1" /\ s[2] = Unit("h2", s[1].cmd, s[1].of)

\* A header of n whose length is allowed; with a body it gives more than itself, as every Size is positive.
IsHeader(n, s) == /\ s[1].part = "h1" /\ s[2] = Unit("h2", s[1].cmd, s[1].of)
                  /\ PkgLen(n, s[1]) <= MaxMsgSize

\* readPkgHeader; the body is tried at once.  What is no header, or one of too much, makes the connection fail.
ReadHeader(n) ==
  /\ Live(n) /\ need[n] = 0 /\ Len(in[n]) >= 2
  /\ LET cmd == in[n][1].cmd
         rest == Drop(in[n], 2)
     IN \/ /\ ~IsHeader(Other(n), in[n])
           /\ failed' = [failed EXCEPT ![n] = TRUE]
           /\ UNCHANGED <<wire, in, need, ends>>
        \/ /\ IsHeader(Other(n), in[n]) /\ cmd # "MSG"
           /\ in' = [in EXCEPT ![n] = rest]
           /\ wire' = IF cmd = "RQ" THEN [wire EXCEPT ![n] = @ \o Header("RP", 0)] ELSE wire
           /\ UNCHANGED <<need, ends, failed>>
        \/ /\ IsHeader(Other(n), in[n]) /\ cmd = "MSG"
           /\ LET size == Size(Other(n), in[n][1].of)
              IN IF Len(rest) >= size THEN Body(n, rest, size)
                 ELSE /\ in' = [in EXCEPT ![n] = rest] /\ need' = [need EXCEPT ![n] = size]
                      /\ UNCHANGED ends
           /\ UNCHANGED <<wire, failed>>
  /\ UNCHANGED <<mode, up, todo, cuts, beats>>

ReadBody(n) == /\ Live(n) /\ need[n] > 0 /\ Len(in[n]) >= need[n]
               /\ Body(n, in[n], need[n])
               /\ UNCHANGED <<mode, up, todo, wire, failed, cuts, beats>>

\* The receiver takes a package from its queue.
Take(n) == /\ queue[n] > 0
           /\ queue' = [queue EXCEPT ![n] = @ - 1]
           /\ UNCHANGED <<mode, up, todo, wire, in, need, got, refused, failed, cuts, beats>>

Next == Cut \/ Connect \/ \E n \in Nodes : Send(n) \/ BeatRequest(n) \/ Arrive(n) \/ ReadHeader(n) \/ ReadBody(n) \/ Take(n)

Spec == Init /\ [][Next]_vars /\ \A n \in Nodes : WF_vars(Send(n)) /\ WF_vars(Arrive(n)) /\ WF_vars(ReadHeader(n) \/ ReadBody(n))

-----------------------------------------------------------------------------
TypeOK == \A n \in Nodes : /\ need[n] \in {0} \cup {Size(Other(n), p) : p \in DOMAIN Given[Other(n)]}
                           /\ queue[n] \in 0..Len(Given[Other(n)])
                           /\ refused[n] \subseteq DOMAIN Given[Other(n)]

\* A handler that is between two packages stands at the header of one, and one that waits for a body
\* stands at the user's header; so the connection fails over nothing but the header of a package that is
\* longer than MsgPkgMaxSize ("a single package of more than this length closes the connection",
\* CSrvMsgComm.cpp:139).
Framed == \A n \in Nodes : /\ in[n] # <<>> => in[n][1].part = IF need[n] = 0 THEN "h1" ELSE "u"
                           /\ failed[n] => need[n] = 0 /\ Len(in[n]) >= 2 /\ PkgLen(Other(n), in[n][1]) > MaxMsgSize

\* Packages are handed over in the order in which they were given, and none of them twice, across any
\* number of connections; one that is refused, or longer than MsgPkgMaxSize, is not handed over.
InOrderOnce == \A n \in Nodes : /\ \A i, j \in DOMAIN got[n] : i < j => got[n][i] < got[n][j]
                                /\ \A i \in DOMAIN got[n] : 2 + Size(Other(n), got[n][i]) <= MaxMsgSize
                                /\ ToSet(got[n]) \cap refused[n] = {}

\* A package that is given is handed over or refused, if the connection lasts and its sender does not give
\* it up, no package up to it is too long for a connection and, at a service, they fit into the buffer.
Fits(n, p) == \A q \in 1..p : /\ 2 + Size(Other(n), q) <= MaxMsgSize
                              /\ mode[n] = "service" => Size(Other(n), q) <= RecvLen
Received(n, p) == p \in ToSet(got[n]) \cup refused[n] \/ cuts > 0 \/ failed[Other(n)]
HandedOver == \A n \in Nodes : \A p \in DOMAIN Given[Other(n)] : Fits(n, p) ~> Received(n, p)

\* Not so: the header of a package that is longer than MsgPkgMaxSize makes the connection fail at its receiver,
\* which loses the package and those behind it on the wire.
NeverFails == \A n \in Nodes : ~failed[n]
=============================================================================
