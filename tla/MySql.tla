---------------------------------- MODULE MySql ----------------------------------
(***************************************************************************)
(* The MySQL client (CDBOpertaion) and the objects through which the sets  *)
(* of results are read (CQueryResult).  One call may hold several          *)
(* statements; the connection takes no further call before every set of    *)
(* results of the last one has been fetched, and every row of a set that   *)
(* is read row by row.  An object used again, or released, therefore       *)
(* fetches and drops what is left ("清空所有可能还存在的结果集").               *)
(*                                                                         *)
(* One caller.  A method runs as one step: nobody else uses the            *)
(* connection meanwhile.  The client library's side (its functions mysql_...) is modelled  *)
(* from how the code uses it.                                              *)
(***************************************************************************)
EXTENDS Naturals, Sequences, SequencesExt

CONSTANTS Objs,         \* objects for results
          MaxCalls,     \* bound on the calls
          MaxLost,      \* bound on the connections lost
          OutOfMemory   \* may there be no memory for a set of results?

single == 0    \* singleResult: one set of results
first == 1     \* multiResult: several, the first of which was fetched with the call
further == 2   \* nextToResult: several, past the first

\* What a statement comes to: rows, nothing to read, or an error, behind which
\* the server does not go on.
Kinds == {"rows", "none", "err"}
Calls == {<<k>> : k \in {"rows", "none"}} \cup ({"rows", "none"} \X Kinds) \cup {<<"rows", "none", "rows">>}

VARIABLES obj,      \* object -> its connection (TRUE when it has one), its set of results, and its state
          pend,     \* what the connection has still to give of the last call
          stream,   \* the set whose rows are still being read off the connection, or none
          calls,    \* calls made: the next one's number
          mine,     \* object -> the sets of results of the call made through it
          offered,  \* object -> those its caller was offered
          ended,    \* objects of which the caller was told that there is no more
          refused,  \* the last call through an object was refused: "commands out of sync"
          tx,       \* updates of the open transaction; <<>> when none is open
          stage,    \* how far the caller is with its transaction of two updates
          saved,    \* updates the database has for good
          lost

results == <<obj, mine, offered, ended>>
transaction == <<tx, stage, saved>>
vars == <<results, pend, stream, calls, refused, transaction, lost>>

NoSet == <<>>
Fresh == [db |-> FALSE, set |-> NoSet, status |-> single]

Init == /\ obj = [o \in Objs |-> Fresh]
        /\ pend = <<>> /\ stream = NoSet
        /\ calls = 0
        /\ mine = [o \in Objs |-> <<>>] /\ offered = [o \in Objs |-> <<>>] /\ ended = {}
        /\ refused = FALSE
        /\ tx = <<>> /\ stage = 0 /\ saved = {}
        /\ lost = 0

-----------------------------------------------------------------------------
(* The connection.                                                         *)

\* The sets of results of a call.
Sets(call) == [i \in DOMAIN call |-> [of |-> calls, at |-> i, kind |-> call[i]]]
Offers(sets) == LET upto == SelectInSeq(sets, LAMBDA r : r.kind = "err")
                IN SelectSeq(IF upto = 0 THEN sets ELSE SubSeq(sets, 1, upto - 1), LAMBDA r : r.kind = "rows")

InSyncWith(p, s) == p = <<>> /\ s = NoSet

\* mysql_next_result and mysql_store_result, until a set has rows: what is
\* fetched and what is left.
Skip(p) == SelectInSeq(p, LAMBDA r : r.kind # "none")
FetchNext(p) == IF Skip(p) = 0 \/ p[Skip(p)].kind = "err" THEN [set |-> NoSet, pend |-> <<>>]
                ELSE [set |-> <<p[Skip(p)]>>, pend |-> SubSeq(p, Skip(p) + 1, Len(p))]

-----------------------------------------------------------------------------
(* CQueryResult.                                                           *)

\* MUTANT of HoldsFirst: the set fetched with the call is given up at once.
HoldsFirstNot(o) == FALSE

\* Is the set fetched with the call the next one?
HoldsFirst(o) == obj[o].status = first /\ obj[o].set # NoSet

\* MUTANT of Drains: a set of results that is used again only frees the set it holds.
DrainsNot(o) == FALSE

\* Does the object fetch whatever the connection has left?  That fails while
\* rows of another set are still being read.
Drains(o) == obj[o].db /\ obj[o].status # single /\ stream = NoSet

\* What reset leaves on the connection: pend and stream.
PendLeft(o) == IF Drains(o) THEN <<>> ELSE pend
StreamLeft(o) == IF obj[o].db /\ stream # NoSet /\ obj[o].set = stream THEN NoSet ELSE stream

NextResult(o) ==
  /\ obj[o].db
  /\ IF obj[o].status = single THEN /\ ended' = ended \cup {o}
                                    /\ UNCHANGED <<obj, pend, offered>>
     ELSE IF HoldsFirst(o) THEN /\ obj' = [obj EXCEPT ![o].status = further]
                                /\ offered' = [offered EXCEPT ![o] = @ \o obj[o].set]
                                /\ UNCHANGED <<pend, ended>>
     ELSE IF stream # NoSet THEN /\ obj' = [obj EXCEPT ![o].status = further, ![o].set = NoSet]
                                 /\ ended' = ended \cup {o}
                                 /\ UNCHANGED <<pend, offered>>
     ELSE LET f == FetchNext(pend) IN
            /\ obj' = [obj EXCEPT ![o].status = further, ![o].set = f.set]
            /\ pend' = f.pend
            /\ offered' = [offered EXCEPT ![o] = @ \o f.set]
            /\ ended' = IF f.set = NoSet THEN ended \cup {o} ELSE ended
  /\ UNCHANGED <<stream, calls, mine, refused, transaction, lost>>

\* The rows of the set are read to the end.
GetRows(o) ==
  /\ obj[o].db /\ stream # NoSet /\ obj[o].set = stream
  /\ stream' = NoSet
  /\ UNCHANGED <<results, pend, calls, refused, transaction, lost>>

\* reset, releaseQueryResult or the destructor.
Release(o) ==
  /\ obj[o].db
  /\ obj' = [obj EXCEPT ![o] = Fresh]
  /\ pend' = PendLeft(o) /\ stream' = StreamLeft(o)
  /\ mine' = [mine EXCEPT ![o] = <<>>] /\ offered' = [offered EXCEPT ![o] = <<>>] /\ ended' = ended \ {o}
  /\ UNCHANGED <<calls, refused, transaction, lost>>

-----------------------------------------------------------------------------
(* CDBOpertaion.                                                           *)

\* A connection lost in a call is made again and the call repeated, once.  The
\* new connection knows nothing of a transaction begun on the old one.
Lose == lost < MaxLost /\ lost' = lost + 1 /\ tx' = <<>>
Executed == UNCHANGED <<lost, tx>> \/ Lose

\* The call fails: an error in its first statement, or no connection once more.
NotExecuted == Executed

\* Given by reference the object is reset before the call is made; given by pointer
\* it is a new one, on which a reset would do nothing.
Begin == calls < MaxCalls /\ calls' = calls + 1

Gets(o, state, sets, given) ==
  /\ obj' = [obj EXCEPT ![o] = state]
  /\ mine' = [mine EXCEPT ![o] = sets]
  /\ offered' = [offered EXCEPT ![o] = given]
  /\ ended' = ended \ {o}

\* The call is not carried out, or no memory is found for what it gives.
Failed(o) ==
  /\ Begin
  /\ Gets(o, Fresh, <<>>, <<>>) /\ stream' = StreamLeft(o)
  /\ IF ~InSyncWith(PendLeft(o), StreamLeft(o)) THEN /\ refused' = TRUE /\ pend' = PendLeft(o)
                                                     /\ UNCHANGED <<lost, tx>>
     ELSE /\ refused' = FALSE
          /\ \/ NotExecuted /\ pend' = <<>>
             \/ /\ OutOfMemory
                /\ \E call \in Calls : call[1] = "rows" /\ pend' = Tail(Sets(call))
                /\ UNCHANGED <<lost, tx>>
  /\ UNCHANGED <<stage, saved>>

CarriedOut(o) == /\ Begin
                 /\ InSyncWith(PendLeft(o), StreamLeft(o)) /\ Executed
                 /\ refused' = FALSE /\ UNCHANGED <<stage, saved>>

\* All rows of the one set are fetched.  A call without rows leaves the object fresh.
QueryTableAllResult(o, kind) ==
  /\ CarriedOut(o)
  /\ LET r == Sets(<<kind>>) IN
       IF kind = "rows" THEN Gets(o, [db |-> TRUE, set |-> r, status |-> single], r, r)
                        ELSE Gets(o, Fresh, <<>>, <<>>)
  /\ pend' = <<>> /\ stream' = NoSet

\* The rows are read off the connection one by one.
QueryTableResult(o, kind) ==
  /\ CarriedOut(o)
  /\ LET r == Sets(<<kind>>) IN
       IF kind = "rows" THEN Gets(o, [db |-> TRUE, set |-> r, status |-> single], r, r) /\ stream' = r
                        ELSE Gets(o, Fresh, <<>>, <<>>) /\ stream' = NoSet
  /\ pend' = <<>>

\* Several statements: the first one's set is fetched with the call.
ExecuteMultiSql(o, call) ==
  /\ CarriedOut(o)
  /\ LET sets == Sets(call)
         head == IF call[1] = "rows" THEN <<sets[1]>> ELSE NoSet
     IN Gets(o, [db |-> TRUE, set |-> head, status |-> first], Offers(sets), <<>>)
  /\ pend' = Tail(Sets(call)) /\ stream' = NoSet

\* A transaction of two updates, by statements of their own: executeSQL, modifyTable.
\* Its caller goes on while the calls succeed.
\* Without an open transaction an update is for good at once.
ExecuteSQL ==
  /\ Begin
  /\ InSyncWith(pend, stream)
  /\ stage < 4 /\ stage' = stage + 1
  /\ \E again \in BOOLEAN :
       LET open == IF again THEN <<>> ELSE tx IN
       /\ again => lost < MaxLost
       /\ lost' = lost + (IF again THEN 1 ELSE 0)
       /\ \/ stage = 0 /\ tx' = <<{}>> /\ UNCHANGED saved
          \/ stage \in {1, 2} /\ open = <<>> /\ tx' = <<>> /\ saved' = saved \cup {stage}
          \/ stage \in {1, 2} /\ open # <<>> /\ tx' = <<open[1] \cup {stage}>> /\ UNCHANGED saved
          \/ stage = 3 /\ tx' = <<>> /\ saved' = saved \cup UNION Range(open)
  /\ UNCHANGED <<results, pend, stream, refused>>

Next == \/ \E o \in Objs : \/ NextResult(o) \/ GetRows(o) \/ Release(o) \/ Failed(o)
                           \/ \E k \in {"rows", "none"} : QueryTableAllResult(o, k) \/ QueryTableResult(o, k)
                           \/ \E c \in Calls : ExecuteMultiSql(o, c)
        \/ ExecuteSQL

Spec == Init /\ [][Next]_vars

-----------------------------------------------------------------------------
TypeOK == /\ \A o \in Objs : obj[o].status \in {single, first, further} /\ Len(obj[o].set) <= 1
          /\ calls \in 0..MaxCalls /\ lost \in 0..MaxLost
          /\ stage \in 0..4 /\ saved \subseteq {1, 2}

\* What the caller was offered are the sets of results of its own call, in their order...
OwnResults == \A o \in Objs : IsPrefix(offered[o], mine[o])
\* ...and all of them by the time it is told that there is no more.
AllResults == \A o \in ended : offered[o] = mine[o]

\* Through one object calls may be made in any order, whatever its caller has
\* left unread of the last: none is refused for results still to be fetched.
NeverRefused == ~refused

\* Of a transaction whose calls all succeeded the database has both updates or none.
WholeTransaction == stage = 4 => saved \in {{}, {1, 2}}

=============================================================================
