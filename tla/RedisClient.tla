------------------------------- MODULE RedisClient -------------------------------
(***************************************************************************)
(* The Redis client (CRedis): a command is sent over one connection and    *)
(* its reply awaited; when none comes the client connects again and sends  *)
(* the command once more.  Whether the server carried the command out      *)
(* before the connection was lost, the client does not know.               *)
(*                                                                         *)
(* One caller; the object has no lock.  A value stands for its length, and *)
(* for its number where it is counted up.  A call is <<method, arguments>>;*)
(* Room is the length of the caller's buffer.  The calls of a behaviour    *)
(* are of one family, as the commands are on three kinds of keys.  The     *)
(* server's side is modelled from how the client uses the commands.        *)
(***************************************************************************)
EXTENDS Integers, Sequences, FiniteSets

CONSTANTS Keys,       \* string keys, or fields of a hash
          Values,     \* lengths of the values the callers write
          Room,       \* lengths of the callers' buffers
          MaxValue,   \* bound on the length of a stored value
          MaxList,    \* bound on the length of a list
          MaxFaults   \* bound on the connections lost and refused

NormalError == -101
NetError == -102
SpaceNotEnough == -103

Families == {"string", "hash", "list"}

VARIABLES family,
          store,      \* [val |-> key -> <<>> or <<value>>, life |-> keys with a life time, list |-> list]
          ctx,        \* m_predisContext: "null", "up", or "lost" when it is of no use any more
          pc, call, attempt,
          reply,      \* what redisCommand returned
          got,        \* what the caller got: the value returned and what was put into its arguments
          kept,       \* methods of which a reply was never released
          done,       \* how often the server carried the call out
          want,       \* store and caller's gains, had the call been carried out once
          fresh,      \* the connection was good when the call was made
          hits, faults  \* connections lost or refused in this call, and in all

vars == <<family, store, ctx, pc, call, attempt, reply, got, kept, done, want, fresh, hits, faults>>

Longer(x, y) == IF x > y THEN x ELSE y
Shorter(x, y) == IF x < y THEN x ELSE y

-----------------------------------------------------------------------------
(* Replies and what the server does, per family of commands: the outcome   *)
(* of a call at a store.                                                   *)

Error == [type |-> "error"]
Status == [type |-> "status"]
Number(n) == [type |-> "integer", n |-> n]
Bulk(vs) == [type |-> "bulk", vs |-> vs]      \* nil is the empty bulk
Array(vs) == [type |-> "array", vs |-> vs]
Outcome(s, r) == [store |-> s, reply |-> r]

One(b) == IF b THEN 1 ELSE 0
Lengths(opt) == IF opt = <<>> THEN 0 ELSE opt[1]
Put(s, k, v) == [s EXCEPT !.val[k] = <<v>>]
Has(s, k) == s.val[k] # <<>>
Erased(s, ks) == [s EXCEPT !.val = [k \in Keys |-> IF k \in ks THEN <<>> ELSE s.val[k]], !.life = @ \ ks]
Gone(s, ks) == Cardinality({k \in ks : Has(s, k)})
\* All values asked for, a nil among them as an empty one; in the order of Keys.
All(s, ks) == [k \in ks |-> Lengths(s.val[k])]

StringWrites(c, s) ==
  LET k == c[2] IN
  CASE c[1] = "setKey" -> Outcome([Put(s, k, c[3]) EXCEPT !.life = IF c[4] THEN @ \cup {k} ELSE @ \ {k}], Status)
    [] c[1] = "setKeyRange" -> LET n == Longer(Lengths(s.val[k]), c[3] + c[4])
                               IN Outcome(Put(s, k, n), Number(n))
    [] c[1] = "append" -> LET n == Lengths(s.val[k]) + c[3] IN Outcome(Put(s, k, n), Number(n))
    [] c[1] = "setKeyLifeTime" ->
         IF c[3] THEN Outcome(IF Has(s, k) THEN [s EXCEPT !.life = @ \cup {k}] ELSE s, Number(One(Has(s, k))))
                 ELSE Outcome([s EXCEPT !.life = @ \ {k}], Number(One(k \in s.life)))

StringReads(c, s) ==
  LET k == c[2] IN
  CASE c[1] = "getKey" -> Outcome(s, Bulk(s.val[k]))
    [] c[1] = "getLen" -> Outcome(s, Number(Lengths(s.val[k])))
    [] c[1] = "getKeyByRange" -> Outcome(s, Bulk(<<Shorter(c[4], Lengths(s.val[k]))>>))
    [] c[1] = "getKeyRemainLifeTime" -> Outcome(s, Number(IF ~Has(s, k) THEN -2 ELSE IF k \in s.life THEN 1 ELSE -1))
    [] c[1] = "getKeyType" -> Outcome(s, Bulk(<<1>>))

StringKeys(c, s) ==
  LET k == c[2] IN
  CASE c[1] = "delKey" -> Outcome(Erased(s, {k}), Number(One(Has(s, k))))
    [] c[1] = "hasKey" -> Outcome(s, Number(One(Has(s, k))))
    [] c[1] = "incrByFloat" -> LET n == Lengths(s.val[k]) + c[3] IN Outcome(Put(s, k, n), Bulk(<<n>>))

ManyKeys(c, s) ==
  CASE c[1] = "setMultiKey" -> Outcome([s EXCEPT !.val = [k \in Keys |-> <<c[2]>>], !.life = {}], Status)
    [] c[1] = "getMultiKey" -> Outcome(s, Array(All(s, Keys)))
    [] c[1] = "delMultiKey" -> Outcome(Erased(s, Keys), Number(Gone(s, Keys)))

HashField(c, s) ==
  LET f == c[2] IN
  CASE c[1] = "setHField" -> Outcome(Put(s, f, c[3]), Number(One(~Has(s, f))))
    [] c[1] = "getHField" -> Outcome(s, Bulk(s.val[f]))
    [] c[1] = "delHField" -> Outcome(Erased(s, {f}), Number(One(Has(s, f))))
    [] c[1] = "hasHField" -> Outcome(s, Number(One(Has(s, f))))
    [] c[1] = "incrHByFloat" -> LET n == Lengths(s.val[f]) + c[3] IN Outcome(Put(s, f, n), Bulk(<<n>>))

HashWhole(c, s) ==
  CASE c[1] = "getHAll" -> Outcome(s, Array(All(s, {k \in Keys : Has(s, k)})))
    [] c[1] = "getHFieldCount" -> Outcome(s, Number(Gone(s, Keys)))
    [] c[1] = "setMultiHField" -> Outcome([s EXCEPT !.val = [k \in Keys |-> <<c[2]>>]], Status)
    [] c[1] = "getMultiHField" -> Outcome(s, Array(All(s, Keys)))
    [] c[1] = "delMultiHField" -> Outcome(Erased(s, Keys), Number(Gone(s, Keys)))

ListEnds(c, s) ==
  LET l == s.list
      Set(m) == [s EXCEPT !.list = m]
  IN CASE c[1] = "lpushList" -> Outcome(Set(<<c[2]>> \o l), Number(Len(l) + 1))
       [] c[1] = "rpushList" -> Outcome(Set(Append(l, c[2])), Number(Len(l) + 1))
       [] c[1] = "lpopList" -> IF l = <<>> THEN Outcome(s, Bulk(<<>>)) ELSE Outcome(Set(Tail(l)), Bulk(<<l[1]>>))
       [] c[1] = "rpopList" -> IF l = <<>> THEN Outcome(s, Bulk(<<>>))
                               ELSE Outcome(Set(SubSeq(l, 1, Len(l) - 1)), Bulk(<<l[Len(l)]>>))

ListInside(c, s) ==
  LET l == s.list IN
  CASE c[1] = "indexList" -> Outcome(s, Bulk(IF l = <<>> THEN <<>> ELSE <<l[1]>>))
    [] c[1] = "lenList" -> Outcome(s, Number(Len(l)))
    [] c[1] = "rangeList" -> Outcome(s, Array(l))
    [] c[1] = "setList" -> IF l = <<>> THEN Outcome(s, Error) ELSE Outcome([s EXCEPT !.list[1] = c[2]], Status)

-----------------------------------------------------------------------------
(* The calls there are.                                                    *)

StringCalls ==
  [writes |-> {<<"setKey", k, v, t>> : k \in Keys, v \in Values, t \in BOOLEAN}
              \cup {<<"setKeyRange", k, o, v>> : k \in Keys, o \in {0, 1}, v \in Values}
              \cup {<<"append", k, v>> : k \in Keys, v \in Values}
              \cup {<<"setKeyLifeTime", k, t>> : k \in Keys, t \in BOOLEAN},
   reads |-> {<<m, k, r>> : m \in {"getKey", "getKeyType"}, k \in Keys, r \in Room}
             \cup {<<m, k>> : m \in {"getLen", "getKeyRemainLifeTime"}, k \in Keys}
             \cup {<<"getKeyByRange", k, r, n>> : k \in Keys, r \in Room, n \in Values},
   keys |-> {<<m, k>> : m \in {"delKey", "hasKey"}, k \in Keys}
            \cup {<<"incrByFloat", k, v>> : k \in Keys, v \in Values},
   many |-> {<<"setMultiKey", v>> : v \in Values} \cup {<<"getMultiKey">>, <<"delMultiKey">>},
   disk |-> {<<"asynSave">>, <<"save">>}]

HashCalls ==
  [field |-> {<<m, f, v>> : m \in {"setHField", "incrHByFloat"}, f \in Keys, v \in Values}
             \cup {<<"getHField", f, r>> : f \in Keys, r \in Room}
             \cup {<<m, f>> : m \in {"delHField", "hasHField"}, f \in Keys},
   whole |-> {<<"getHAll">>, <<"getHFieldCount">>, <<"getMultiHField">>, <<"delMultiHField">>}
             \cup {<<"setMultiHField", v>> : v \in Values}]

ListCalls ==
  [ends |-> {<<m, v>> : m \in {"lpushList", "rpushList"}, v \in Values}
            \cup {<<m, r>> : m \in {"lpopList", "rpopList"}, r \in Room},
   inside |-> {<<"indexList", r>> : r \in Room} \cup {<<"lenList">>, <<"rangeList">>}
              \cup {<<"setList", v>> : v \in Values}]

CallsOf(f) == CASE f = "string" -> UNION {StringCalls[p] : p \in DOMAIN StringCalls}
                [] f = "hash" -> UNION {HashCalls[p] : p \in DOMAIN HashCalls}
                [] f = "list" -> UNION {ListCalls[p] : p \in DOMAIN ListCalls}

Serve(c, s) == CASE c \in StringCalls.writes -> StringWrites(c, s)
                 [] c \in StringCalls.reads -> StringReads(c, s)
                 [] c \in StringCalls.keys -> StringKeys(c, s)
                 [] c \in StringCalls.many -> ManyKeys(c, s)
                 [] c \in StringCalls.disk -> Outcome(s, Status)
                 [] c \in HashCalls.field -> HashField(c, s)
                 [] c \in HashCalls.whole -> HashWhole(c, s)
                 [] c \in ListCalls.ends -> ListEnds(c, s)
                 [] c \in ListCalls.inside -> ListInside(c, s)

-----------------------------------------------------------------------------
(* What a method makes of the reply.                                       *)

Answers == {"setKeyRange", "append", "getLen", "getKeyRemainLifeTime", "delKey", "hasKey", "delMultiKey", "delHField",
            "hasHField", "getHFieldCount", "delMultiHField", "lpushList", "rpushList", "lenList"}
Copies == {"getKey", "getKeyByRange", "getHField", "lpopList", "rpopList", "indexList"}
RoomOf(c) == IF c[1] \in {"lpopList", "rpopList", "indexList"} THEN c[2] ELSE c[3]

Told(n) == [value |-> n, out |-> <<>>]
Copy(n, opt, room) == IF n > room THEN Told(SpaceNotEnough) ELSE [value |-> Lengths(opt), out |-> opt]

\* MUTANT of Result: the number the server answers is passed on by every writer.
ResultNumber(c, r) ==
  CASE r.type = "error" -> Told(NormalError)
    [] r.type = "integer" -> Told(r.n)
    [] c[1] \in Copies -> Copy(Lengths(r.vs), r.vs, RoomOf(c))
    [] c[1] = "getKeyType" -> Copy(Lengths(r.vs) + 1, r.vs, c[3])
    [] OTHER -> Told(0)

Result(c, r) ==
  CASE r.type = "error" -> Told(NormalError)
    [] c[1] \in Answers -> Told(r.n)
    [] c[1] \in Copies -> Copy(Lengths(r.vs), r.vs, RoomOf(c))
    [] c[1] = "getKeyType" -> Copy(Lengths(r.vs) + 1, r.vs, c[3])
    [] c[1] = "incrByFloat" \/ r.type = "array" -> [value |-> 0, out |-> <<r.vs>>]
    [] OTHER -> Told(0)      \* of incrHByFloat too, whose result goes into a copy

\* MUTANT of Freed: the reply is released unless its text did not fit.
FreedIfFits(c, r) == Result(c, r).value # SpaceNotEnough

\* The reply is released, but the one to setList is released only when it is an error.
Freed(c, r) == c[1] # "setList" \/ r.type = "error"

-----------------------------------------------------------------------------
Empty == [val |-> [k \in Keys |-> <<>>], life |-> {}, list |-> <<>>]

Init == /\ family \in Families
        /\ store = Empty
        /\ ctx = "up"                       \* connectSvr returned true
        /\ pc = "idle" /\ call = <<>> /\ attempt = 0
        /\ reply = <<>> /\ got = Told(0) /\ kept = {} /\ done = 0
        /\ want = [store |-> Empty, got |-> Told(0)] /\ fresh = TRUE
        /\ hits = 0 /\ faults = 0

\* The bounds: a call, carried out twice, leaves the values and the list small.
Small(s) == Len(s.list) <= MaxList /\ \A k \in Keys : Lengths(s.val[k]) <= MaxValue

Call(c) ==
  /\ pc = "idle" /\ c \in CallsOf(family)
  /\ LET once == Serve(c, store) IN
       /\ Small(Serve(c, once.store).store)
       /\ want' = [store |-> once.store, got |-> Result(c, once.reply)]
  /\ call' = c /\ pc' = "try" /\ attempt' = 1
  /\ done' = 0 /\ hits' = 0 /\ fresh' = (ctx = "up")
  /\ UNCHANGED <<family, store, ctx, reply, got, kept, faults>>

Hit == /\ faults < MaxFaults
       /\ faults' = faults + 1 /\ hits' = hits + 1
Carried == LET o == Serve(call, store) IN store' = o.store /\ done' = done + 1 /\ reply' = o.reply

\* The server answers, or refuses the command and says so.
Replied ==
  /\ pc = "try" /\ ctx = "up"
  /\ \/ Carried
     \/ reply' = Error /\ UNCHANGED <<store, done>>
  /\ pc' = "got"
  /\ UNCHANGED <<family, ctx, call, attempt, got, kept, want, fresh, hits, faults>>

\* The connection is lost before the command reaches the server, or after it was carried out.
NoReply ==
  /\ pc = "try"
  /\ \/ /\ ctx = "up" /\ Hit /\ ctx' = "lost"
        /\ \/ UNCHANGED <<store, done>>
           \/ store' = Serve(call, store).store /\ done' = done + 1
     \/ /\ ctx # "up"
        /\ UNCHANGED <<store, ctx, done, hits, faults>>
  /\ pc' = "null"
  /\ UNCHANGED <<family, call, attempt, reply, got, kept, want, fresh>>

\* MUTANT of Connectable: only a connection there is can be made again.
ConnectableIfAny == attempt = 1 /\ ctx # "null"

\* One more attempt is made, whatever the state of the connection.
Connectable == attempt = 1

Reconnect ==
  /\ pc = "null" /\ Connectable
  /\ ctx' = "up" /\ attempt' = 2 /\ pc' = "try"
  /\ UNCHANGED <<family, store, call, reply, got, kept, done, want, fresh, hits, faults>>

Refused ==
  /\ pc = "null" /\ Connectable
  /\ Hit
  /\ ctx' = "null" /\ attempt' = 2
  /\ UNCHANGED <<family, store, pc, call, reply, got, kept, done, want, fresh>>

\* No reply after all.
Fails ==
  /\ pc = "null" /\ ~Connectable
  /\ got' = Told(NetError) /\ pc' = "done"
  /\ UNCHANGED <<family, store, ctx, call, attempt, reply, kept, done, want, fresh, hits, faults>>

Finish ==
  /\ pc = "got"
  /\ got' = Result(call, reply)
  /\ kept' = IF Freed(call, reply) THEN kept ELSE kept \cup {call[1]}
  /\ pc' = "done"
  /\ UNCHANGED <<family, store, ctx, call, attempt, reply, done, want, fresh, hits, faults>>

Return ==
  /\ pc = "done"
  /\ pc' = "idle" /\ call' = <<>> /\ attempt' = 0 /\ reply' = <<>> /\ got' = Told(0)
  /\ done' = 0 /\ want' = [store |-> Empty, got |-> Told(0)] /\ hits' = 0 /\ fresh' = TRUE
  /\ UNCHANGED <<family, store, ctx, kept, faults>>

\* The server closes the idle connection.
Drop == /\ pc = "idle" /\ ctx = "up"
        /\ faults < MaxFaults /\ faults' = faults + 1
        /\ ctx' = "lost"
        /\ UNCHANGED <<family, store, pc, call, attempt, reply, got, kept, done, want, fresh, hits>>

Next == \/ \E c \in CallsOf(family) : Call(c)
        \/ Replied \/ NoReply \/ Reconnect \/ Refused \/ Fails \/ Finish \/ Return \/ Drop

Spec == Init /\ [][Next]_vars

-----------------------------------------------------------------------------
TypeOK == /\ family \in Families
          /\ ctx \in {"up", "lost", "null"} /\ pc \in {"idle", "try", "null", "got", "done"}
          /\ attempt \in 0..2 /\ done \in 0..2 /\ faults \in 0..MaxFaults
          /\ Small(store)

\* Carried out twice in a row these commands leave what they leave carried out once.
Repeatable == {"setKey", "setKeyRange", "setKeyLifeTime", "setMultiKey", "setHField", "setMultiHField", "setList",
               "getKey", "getLen", "getKeyByRange", "getKeyRemainLifeTime", "getKeyType", "hasKey", "getMultiKey",
               "getHField", "hasHField", "getHAll", "getHFieldCount", "getMultiHField",
               "indexList", "lenList", "rangeList", "asynSave", "save"}
Deletes == {"delKey", "delMultiKey", "delHField", "delMultiHField"}
Succeeded == pc = "done" /\ got.value \notin {NormalError, NetError}

\* The second attempt is not seen: a call that succeeded has done to the
\* server, and told its caller, what one execution does and tells, whichever
\* of the two attempts the server carried out.
TwiceAsOnce == Succeeded /\ call[1] \in Repeatable => store = want.store /\ got = want.got

\* A deletion leaves nothing behind, though it may tell of nothing deleted.
DeletesAll == Succeeded /\ call[1] \in Deletes => store = want.store

\* One connection lost in a call is made good by the call itself; only a call that
\* meets a second loss, or found its connection lost already, may fail for the network.
OneLossIsMadeGood == pc = "done" /\ got.value = NetError => hits >= IF fresh THEN 2 ELSE 1

\* Every reply is released, setList's excepted.
RepliesReleased == kept \subseteq {"setList"}

\* "删除成功返回1，不存在返回0": what was there is told as deleted.
DeleteTold == Succeeded /\ call[1] \in Deletes => got = want.got

\* An append, a push or a count that succeeded was done once.
DoneOnce == Succeeded => done <= 1

\* What is taken off a list is given to the caller.
TakenIsGiven == pc = "done" /\ call[1] \in {"lpopList", "rpopList"} => got.value # SpaceNotEnough

NoReplyKept == kept = {}

=============================================================================
