--------------------------- MODULE ConnectLife_proofs ---------------------------
(***************************************************************************)
(* The list of message connections, the user's walk on it, the data that   *)
(* wait in it and the end of a connection are sound for any number of      *)
(* blocks and of connections accepted, and for any patience of the sweep.  *)
(* LifeInv is the conjunction of what the threads know of a connection     *)
(* while they stand between two accesses to it.                            *)
(***************************************************************************)
EXTENDS ConnectLife, FiniteSetTheorems, SequenceTheorems, TLAPS

\* The places where each thread may be.
CtPlaces == {"events", "insert", "count", "commit", "close", "decide", "insertClosed", "countClosed", "forget",
             "ask", "sweep"}
UserPlaces == {"skip", "wait", "get", "granted", "visit", "giveUp", "advance", "callback", "act", "write",
               "buffer", "notices"}

Typed ==
  /\ TypeOK
  /\ ct.pc \in CtPlaces /\ ct = [pc |-> ct.pc, on |-> ct.on, todo |-> ct.todo]
  /\ user.pc \in UserPlaces /\ user.ret \in {"skip", "notices", "advance"}
  /\ user = [pc |-> user.pc, begin |-> user.begin, on |-> user.on, ret |-> user.ret]
  /\ notices \in Seq(Conns \X (0 .. MaxIds))

\* checkSocketTimes and the list agree, but for the connection that is just being linked.
ListAgrees ==
  /\ IsInjective(msgList) /\ Range(msgList) \subseteq connectMap
  /\ \A c \in Conns : IF conn[c].times > 0 THEN Listed(c)
                      ELSE Listed(c) => ct.pc \in {"count", "countClosed"} /\ ct.on = c

\* What the connection thread has found out about its connection still holds when it goes on,
\* as no sweep comes in between and the user never links, unlinks or reopens a connection.
CtReady ==
  /\ ct.pc \in CtPlaces \ {"events", "ask", "sweep"} => ct.on \in connectMap
  /\ ct.pc \in {"insert", "count", "commit", "close"} => conn[ct.on].fd
  /\ ct.pc \in {"insert", "insertClosed"} => conn[ct.on].times = 0 /\ ~Listed(ct.on)
  /\ ct.pc \in {"count", "countClosed"} => Listed(ct.on)
  /\ ct.pc = "commit" => conn[ct.on].times > 0
  /\ ct.pc = "sweep" <=> user.pc = "granted"

\* The user is in its walk or in a write that returns to it, or it has no walk; and what it
\* writes to is in use.
Walking == user.pc \in {"visit", "giveUp", "advance"} \/ (user.pc \in {"write", "buffer"} /\ user.ret = "advance")
UserReady ==
  /\ user.begin # NULL <=> Walking
  /\ user.pc \in {"write", "buffer", "callback"} => user.on \in connectMap

\* Nothing is left in a block that isn't in use.
Blank == \A c \in Conns \ connectMap : conn[c] = Destroyed

\* The service is told of each connection once; ids are given in their order.
Told ==
  /\ \A i, j \in DOMAIN notices : notices[i] = notices[j] => i = j
  /\ \A i \in DOMAIN notices : notices[i][2] <= connId /\ (conn[notices[i][1]].id = notices[i][2] => ~conn[notices[i][1]].fd)
  /\ \A c \in Conns : conn[c].id <= connId

LifeInv == Typed /\ ListAgrees /\ CtReady /\ UserReady /\ WalkStays /\ DataIsQueued /\ Blank /\ Told
-------------------------------------------------------------------------------
\* A connection is linked in at the head of the list.
LEMMA Linking ==
  ASSUME msgList \in Seq(Conns), IsInjective(msgList), NEW c \in Conns, ~Listed(c), msgList' = <<c>> \o msgList
  PROVE  msgList' \in Seq(Conns) /\ IsInjective(msgList') /\ Range(msgList') = Range(msgList) \cup {c}
<1>1. <<c>> \in Seq(Conns) /\ Len(<<c>>) = 1 /\ <<c>>[1] = c
    OBVIOUS
<1> PICK n \in Nat : n = Len(msgList)
    BY LenProperties
<1>2. DOMAIN msgList = 1 .. n
    BY LenProperties
<1>3. /\ msgList' \in Seq(Conns) /\ Len(msgList') = n + 1 /\ msgList'[1] = c
      /\ \A i \in 2 .. n + 1 : msgList'[i] = msgList[i - 1] /\ i - 1 \in 1 .. n
    BY <1>1, ConcatProperties
<1>4. DOMAIN msgList' = 1 .. n + 1
    BY <1>3, LenProperties
<1>5. \A i \in 1 .. n : msgList[i] # c
    BY <1>2 DEF Listed, Range
<1>6. IsInjective(msgList')
    BY <1>2, <1>3, <1>4, <1>5 DEF IsInjective
<1>7. Range(msgList') = Range(msgList) \cup {c}
    <2>1. ASSUME NEW i \in 1 .. n PROVE \E j \in 1 .. n + 1 : msgList'[j] = msgList[i]
        <3>1. i + 1 \in 2 .. n + 1 /\ i + 1 \in 1 .. n + 1 /\ (i + 1) - 1 = i
            OBVIOUS
        <3> QED
            BY <1>3, <3>1
    <2>2. ASSUME NEW i \in 1 .. n + 1 PROVE msgList'[i] = c \/ \E j \in 1 .. n : msgList[j] = msgList'[i]
        <3>1. i = 1 \/ i \in 2 .. n + 1
            OBVIOUS
        <3> QED
            BY <1>3, <3>1
    <2>3. 1 \in 1 .. n + 1
        OBVIOUS
    <2>4. ASSUME NEW x PROVE x \in Range(msgList) <=> \E i \in 1 .. n : msgList[i] = x
        BY <1>2 DEF Range
    <2>5. ASSUME NEW x PROVE x \in Range(msgList') <=> \E i \in 1 .. n + 1 : msgList'[i] = x
        BY <1>4 DEF Range
    <2>6. ASSUME NEW x PROVE x \in Range(msgList') <=> x \in Range(msgList) \/ x = c
        <3>1. x = c => x \in Range(msgList')
            BY <1>3, <2>3, <2>5
        <3>2. x \in Range(msgList) => x \in Range(msgList')
            BY <2>1, <2>4, <2>5
        <3>3. x \in Range(msgList') => x \in Range(msgList) \/ x = c
            BY <2>2, <2>4, <2>5
        <3> QED
            BY <3>1, <3>2, <3>3
    <2> QED
        BY <2>6
<1> QED
    BY <1>3, <1>6, <1>7

\* A connection is taken out of the list.
LEMMA Unlinking ==
  ASSUME msgList \in Seq(Conns), IsInjective(msgList), NEW c, msgList' = Unlinked(c)
  PROVE  msgList' \in Seq(Conns) /\ IsInjective(msgList') /\ Range(msgList') = Range(msgList) \ {c}
<1>1. CASE ~Listed(c)
    BY <1>1 DEF Unlinked, Listed
<1>2. CASE Listed(c)
    <2> PICK n \in Nat : n = Len(msgList)
        BY LenProperties
    <2>1. DOMAIN msgList = 1 .. n /\ \A i \in 1 .. n : msgList[i] \in Conns
        BY LenProperties
    <2> DEFINE k == CHOOSE i \in DOMAIN msgList : msgList[i] = c
    <2>2. k \in 1 .. n /\ msgList[k] = c
        BY <1>2, <2>1 DEF Listed, Range
    <2>3. msgList' = SubSeq(msgList, 1, k - 1) \o SubSeq(msgList, k + 1, n)
        BY <1>2 DEF Unlinked, RemoveAt
    <2> HIDE DEF k
    <2> DEFINE front == SubSeq(msgList, 1, k - 1)
               back == SubSeq(msgList, k + 1, n)
    <2>4. front \in Seq(Conns) /\ Len(front) = k - 1 /\ \A i \in 1 .. k - 1 : front[i] = msgList[i]
        <3>1. 1 \in Int /\ k - 1 \in Int /\ \A i \in 1 .. k - 1 : msgList[i] \in Conns
            BY <2>1, <2>2
        <3>2. /\ front \in Seq(Conns) /\ Len(front) = IF 1 <= k - 1 THEN k - 1 - 1 + 1 ELSE 0
              /\ \A i \in 1 .. k - 1 - 1 + 1 : front[i] = msgList[1 + i - 1]
            BY <3>1, SubSeqProperties
        <3>3. k - 1 - 1 + 1 = k - 1 /\ \A i \in 1 .. k - 1 : 1 + i - 1 = i
            BY <2>2
        <3> QED
            BY <2>2, <3>2, <3>3
    <2>5. back \in Seq(Conns) /\ Len(back) = n - k /\ \A i \in 1 .. n - k : back[i] = msgList[k + i]
        <3>1. k + 1 \in Int /\ n \in Int /\ \A i \in k + 1 .. n : msgList[i] \in Conns
            BY <2>1, <2>2
        <3>2. /\ back \in Seq(Conns) /\ Len(back) = IF k + 1 <= n THEN n - (k + 1) + 1 ELSE 0
              /\ \A i \in 1 .. n - (k + 1) + 1 : back[i] = msgList[k + 1 + i - 1]
            BY <3>1, SubSeqProperties
        <3>3. n - (k + 1) + 1 = n - k /\ \A i \in 1 .. n - k : k + 1 + i - 1 = k + i
            BY <2>2
        <3> QED
            BY <2>2, <3>2, <3>3
    <2> HIDE DEF front, back
    <2>6. /\ msgList' \in Seq(Conns) /\ Len(msgList') = n - 1
          /\ \A i \in 1 .. n - 1 : msgList'[i] = IF i <= k - 1 THEN front[i] ELSE back[i - (k - 1)]
        <3>1. msgList' = front \o back /\ (k - 1) + (n - k) = n - 1
            BY <2>2, <2>3 DEF front, back
        <3>2. /\ front \o back \in Seq(Conns) /\ Len(front \o back) = (k - 1) + (n - k)
              /\ \A i \in 1 .. (k - 1) + (n - k) : (front \o back)[i] = IF i <= k - 1 THEN front[i] ELSE back[i - (k - 1)]
            <4>1. /\ front \o back \in Seq(Conns) /\ Len(front \o back) = Len(front) + Len(back)
                  /\ \A i \in 1 .. Len(front) + Len(back) :
                       (front \o back)[i] = IF i <= Len(front) THEN front[i] ELSE back[i - Len(front)]
                BY <2>4, <2>5, ConcatProperties
            <4> QED
                BY <2>4, <2>5, <4>1
        <3> QED
            BY <3>1, <3>2
    <2>7. DOMAIN msgList' = 1 .. n - 1
        BY <2>6, LenProperties
    <2>8. ASSUME NEW i \in 1 .. n - 1
          PROVE  /\ i < k => msgList'[i] = msgList[i] /\ i \in 1 .. n
                 /\ i >= k => msgList'[i] = msgList[i + 1] /\ i + 1 \in 1 .. n
        <3>1. CASE i < k
            <4>1. i <= k - 1 /\ i \in 1 .. k - 1 /\ i \in 1 .. n /\ ~(i >= k)
                BY <2>2, <3>1
            <4>2. msgList'[i] = front[i]
                BY <2>6, <4>1
            <4>3. front[i] = msgList[i]
                BY <2>4, <4>1
            <4> QED
                BY <4>1, <4>2, <4>3
        <3>2. CASE i >= k
            <4>1. ~(i <= k - 1) /\ i - (k - 1) \in 1 .. n - k /\ k + (i - (k - 1)) = i + 1 /\ i + 1 \in 1 .. n /\ ~(i < k)
                BY <2>2, <3>2
            <4>2. msgList'[i] = back[i - (k - 1)]
                BY <2>6, <4>1
            <4> QED
                BY <2>5, <4>1, <4>2
        <3> QED
            BY <2>2, <3>1, <3>2
    <2>9. IsInjective(msgList')
        BY SMTT(60), <2>1, <2>2, <2>7, <2>8 DEF IsInjective
    <2>10. Range(msgList') = Range(msgList) \ {c}
        <3>1. ASSUME NEW i \in 1 .. n - 1 PROVE msgList'[i] # c /\ \E j \in 1 .. n : msgList[j] = msgList'[i]
            <4>1. i < k \/ i >= k
                BY <2>2
            <4>2. i < k => i # k
                BY <2>2
            <4>3. i >= k => i + 1 # k
                BY <2>2
            <4> QED
                BY <2>1, <2>2, <2>8, <4>1, <4>2, <4>3 DEF IsInjective
        <3>2. ASSUME NEW i \in 1 .. n, msgList[i] # c PROVE \E j \in 1 .. n - 1 : msgList'[j] = msgList[i]
            <4>1. i # k
                BY <2>2, <3>2
            <4>2. CASE i < k
                <5>1. i \in 1 .. n - 1
                    BY <2>2, <4>2
                <5> QED
                    BY <2>8, <4>2, <5>1
            <4>3. CASE i > k
                <5>1. i - 1 \in 1 .. n - 1 /\ i - 1 >= k /\ (i - 1) + 1 = i
                    BY <2>2, <4>3
                <5> QED
                    BY <2>8, <5>1
            <4> QED
                BY <2>2, <4>1, <4>2, <4>3
        <3>3. ASSUME NEW x PROVE x \in Range(msgList) <=> \E i \in 1 .. n : msgList[i] = x
            BY <2>1 DEF Range
        <3>4. ASSUME NEW x PROVE x \in Range(msgList') <=> \E i \in 1 .. n - 1 : msgList'[i] = x
            BY <2>7 DEF Range
        <3>5. ASSUME NEW x PROVE x \in Range(msgList') <=> x \in Range(msgList) /\ x # c
            <4>1. x \in Range(msgList') => x \in Range(msgList) /\ x # c
                BY <3>1, <3>3, <3>4
            <4>2. x \in Range(msgList) /\ x # c => x \in Range(msgList')
                BY <3>2, <3>3, <3>4
            <4> QED
                BY <4>1, <4>2
        <3> QED
            BY <3>5
    <2> QED
        BY <2>6, <2>9, <2>10
<1> QED
    BY <1>1, <1>2

\* Where the links lead: to connections in the list, or nowhere.
LEMMA LinksLead ==
  ASSUME msgList \in Seq(Conns), NEW c
  PROVE  /\ PNext(c) \in Range(msgList) \cup {NULL}
         /\ IF Range(msgList) = {} THEN ListHead = NULL ELSE ListHead \in Range(msgList)
<1> PICK n \in Nat : n = Len(msgList)
    BY LenProperties
<1>1. DOMAIN msgList = 1 .. n
    BY LenProperties
<1>2. PNext(c) \in Range(msgList) \cup {NULL}
    <2>1. CASE \E i \in 1 .. n - 1 : msgList[i] = c
        <3> PICK i \in 1 .. n - 1 : i = CHOOSE j \in 1 .. n - 1 : msgList[j] = c
            BY <2>1
        <3>1. PNext(c) = msgList[1 + i] /\ 1 + i \in 1 .. n
            BY <2>1 DEF PNext
        <3> QED
            BY <1>1, <3>1 DEF Range
    <2>2. CASE ~\E i \in 1 .. n - 1 : msgList[i] = c
        BY <2>2 DEF PNext
    <2> QED
        BY <2>1, <2>2
<1>3. CASE msgList = <<>>
    <2>1. \A i \in 1 .. n : FALSE
        BY <1>3, EmptySeq
    <2>2. Range(msgList) = {}
        BY <1>1, <2>1 DEF Range
    <2> QED
        BY <1>2, <1>3, <2>2 DEF ListHead
<1>4. CASE msgList # <<>>
    <2>1. n > 0 /\ Head(msgList) = msgList[1] /\ 1 \in 1 .. n
        BY <1>4, EmptySeq
    <2>2. msgList[1] \in Range(msgList)
        BY <1>1, <2>1 DEF Range
    <2> QED
        BY <1>2, <1>4, <2>1, <2>2 DEF ListHead
<1> QED
    BY <1>2, <1>3, <1>4

-------------------------------------------------------------------------------
Block == [id : 0..MaxIds, fd : BOOLEAN, connStatus : {"normal", "closed"},
          logicStatus : {"normal", "deleted", "exception", "sendClose"},
          writeBuff : {"none", "empty", "data"}, times : 0..(CheckTimes + 1), data : BOOLEAN]
\* Two blocks with the same fields are the same.
LEMMA SameBlock ==
  ASSUME NEW r \in Block, NEW s \in Block, r.id = s.id, r.fd = s.fd, r.connStatus = s.connStatus,
         r.logicStatus = s.logicStatus, r.writeBuff = s.writeBuff, r.times = s.times, r.data = s.data
  PROVE  r = s
<1>1. \A q \in Block : q = [id |-> q.id, fd |-> q.fd, connStatus |-> q.connStatus, logicStatus |-> q.logicStatus,
                            writeBuff |-> q.writeBuff, times |-> q.times, data |-> q.data]
    BY DEF Block
<1> QED
    BY <1>1, Zenon

\* What is in a block that isn't in use.
LEMMA DestroyedIs ==
  /\ Destroyed \in Block /\ Destroyed.id = 0 /\ Destroyed.fd = FALSE /\ Destroyed.connStatus = "normal"
  /\ Destroyed.logicStatus = "deleted" /\ Destroyed.writeBuff = "none" /\ Destroyed.times = 0 /\ Destroyed.data = FALSE
<1>1. 0 \in 0 .. MaxIds /\ 0 \in 0 .. (CheckTimes + 1)
    BY MaxIdsAssumption, CheckTimesAssumption
<1>2. Fresh(0) \in Block /\ Fresh(0).id = 0 /\ Fresh(0).connStatus = "normal" /\ Fresh(0).writeBuff = "none"
      /\ Fresh(0).times = 0 /\ Fresh(0).data = FALSE
    BY <1>1 DEF Fresh, Block
<1> QED
    BY <1>2 DEF Destroyed, Block

\* s comes after r in the life of one connection, and has data only where they are queued.
Gentle(r, s) == /\ s.id = r.id /\ (s.fd => r.fd) /\ (r.times > 0 => s.times > 0)
                /\ (s.data /\ s.connStatus = "normal" => s.times > 0 \/ (r.data /\ r.connStatus = "normal"))
\* The user writes to a block, and doesn't close, link or unlink it.
Mild(r, s) == Gentle(r, s) /\ s.fd = r.fd /\ (s.times > 0 => r.times > 0)

\* A block is a record of the fields of struct Connect.
LEMMA BlocksTyped ==
  ASSUME LifeInv
  PROVE  /\ conn \in [Conns -> Block] /\ connectMap \subseteq Conns /\ Range(msgList) \subseteq connectMap
         /\ \A c \in Conns : conn[c] \in Block /\ Mild(conn[c], conn[c]) /\ Gentle(conn[c], conn[c])
<1>1. conn \in [Conns -> Block] /\ connectMap \subseteq Conns /\ Range(msgList) \subseteq connectMap
    BY DEF LifeInv, Typed, TypeOK, ListAgrees, Block
<1>2. \A c \in Conns : conn[c] \in Block
    BY <1>1
<1> QED
    BY <1>1, <1>2 DEF Mild, Gentle

\* A step that is gentle to every block loses no data and no end of a connection.
LEMMA DataKept ==
  ASSUME LifeInv, conn' \in [Conns -> Block], \A c \in Conns : Gentle(conn[c], conn'[c]),
         \A c \in Conns \ connectMap : conn'[c] = conn[c],
         UNCHANGED <<connectMap, connId, notices>>, ListAgrees'
  PROVE  DataIsQueued' /\ Blank' /\ Told'
<1>1. connectMap \subseteq Conns
    BY BlocksTyped
<1>2. DataIsQueued'
    <2> SUFFICES ASSUME NEW c \in connectMap, conn'[c].data, conn'[c].connStatus = "normal"
                 PROVE  conn'[c].times > 0
        BY <1>1 DEF DataIsQueued, ListAgrees
    <2> QED
        BY <1>1 DEF LifeInv, DataIsQueued, Gentle
<1>3. Blank'
    BY DEF LifeInv, Blank
<1>4. \A i \in DOMAIN notices : notices[i] \in Conns \X (0 .. MaxIds) /\ notices[i][1] \in Conns
    <2>1. notices \in Seq(Conns \X (0 .. MaxIds))
        BY DEF LifeInv, Typed
    <2>2. \A i \in DOMAIN notices : notices[i] \in Conns \X (0 .. MaxIds)
        BY <2>1, LenProperties
    <2> QED
        BY <2>2
<1>5. \A c \in Conns : conn'[c].id = conn[c].id /\ (conn'[c].fd => conn[c].fd)
    BY DEF Gentle
<1>6. Told'
    BY <1>4, <1>5 DEF LifeInv, Told
<1> QED
    BY <1>2, <1>3, <1>6

\* The list agrees with the blocks as long as neither says something new.
LEMMA ListKept ==
  ASSUME LifeInv, UNCHANGED <<connectMap, msgList>>, \A c \in Conns : conn'[c].times > 0 <=> conn[c].times > 0,
         ct' = ct \/ ct.pc \notin {"count", "countClosed"}
  PROVE  ListAgrees'
BY DEF LifeInv, ListAgrees, Listed

\* The connection thread finds its connection as it left it.
LEMMA CtKept ==
  ASSUME LifeInv, conn' \in [Conns -> Block], \A c \in Conns : Mild(conn[c], conn'[c]),
         UNCHANGED <<connectMap, msgList, ct>>, user.pc = "granted" <=> user'.pc = "granted"
  PROVE  CtReady'
<1>1. \A c \in Conns : /\ conn[c].fd = conn'[c].fd /\ (conn[c].times > 0 <=> conn'[c].times > 0)
                       /\ (conn[c].times = 0 <=> conn'[c].times = 0)
    <2>1. ASSUME NEW c \in Conns PROVE conn[c].times \in Nat /\ conn'[c].times \in Nat
        <3>1. conn[c] \in Block /\ conn'[c] \in Block
            BY BlocksTyped
        <3> QED
            BY <3>1, CheckTimesAssumption DEF Block
    <2>2. \A c \in Conns : conn[c].fd = conn'[c].fd /\ (conn[c].times > 0 <=> conn'[c].times > 0)
        BY DEF Mild, Gentle
    <2> QED
        BY <2>1, <2>2
<1>2. connectMap \subseteq Conns
    BY BlocksTyped
<1>3. ct.pc \in CtPlaces \ {"events", "ask", "sweep"} => ct.on \in Conns
    BY <1>2 DEF LifeInv, CtReady
<1> QED
    BY <1>1, <1>3 DEF LifeInv, CtReady, Listed, CtPlaces

\* The user finds its walk as it left it while connections are only added.
LEMMA UserKept ==
  ASSUME LifeInv, UNCHANGED <<curConn, user>>, connectMap \subseteq connectMap', Range(msgList) \subseteq Range(msgList')
  PROVE  UserReady' /\ WalkStays'
BY DEF LifeInv, UserReady, Walking, WalkStays, Listed

\* A step of the user's that at most changes one block, and that mildly.
LEMMA MildStep ==
  ASSUME LifeInv, UNCHANGED <<connectMap, msgList, connId, ct, notices>>,
         user.pc # "granted", user'.pc # "granted",
         NEW c \in Conns, NEW r \in Block, Mild(conn[c], r), c \notin connectMap => r = conn[c],
         conn' = [conn EXCEPT ![c] = r]
  PROVE  conn' \in [Conns -> Block] /\ ListAgrees' /\ CtReady' /\ DataIsQueued' /\ Blank' /\ Told'
<1>1. conn \in [Conns -> Block]
    BY BlocksTyped
<1>2. conn' \in [Conns -> Block] /\ \A d \in Conns : conn'[d] = IF d = c THEN r ELSE conn[d]
    BY <1>1
<1>3. \A d \in Conns : Mild(conn[d], conn'[d])
    BY <1>2, BlocksTyped
<1>4. \A d \in Conns : Gentle(conn[d], conn'[d]) /\ (conn'[d].times > 0 <=> conn[d].times > 0)
    BY <1>3 DEF Mild, Gentle
<1>5. \A d \in Conns \ connectMap : conn'[d] = conn[d]
    BY <1>2
<1>6. ListAgrees'
    BY <1>4, ListKept
<1>7. CtReady'
    BY <1>2, <1>3, CtKept
<1>8. DataIsQueued' /\ Blank' /\ Told'
    BY <1>2, <1>4, <1>5, <1>6, DataKept
<1> QED
    BY <1>2, <1>6, <1>7, <1>8

\* A step of the user's that leaves all blocks alone.
LEMMA StillStep ==
  ASSUME LifeInv, UNCHANGED <<conn, connectMap, msgList, connId, ct, notices>>,
         user.pc # "granted", user'.pc # "granted"
  PROVE  conn' \in [Conns -> Block] /\ ListAgrees' /\ CtReady' /\ DataIsQueued' /\ Blank' /\ Told'
<1>1. conn' \in [Conns -> Block] /\ \A d \in Conns : Mild(conn[d], conn'[d]) /\ Gentle(conn[d], conn'[d])
    BY BlocksTyped
<1>2. ListAgrees'
    BY ListKept
<1>3. CtReady'
    BY <1>1, CtKept
<1>4. DataIsQueued' /\ Blank' /\ Told'
    BY <1>1, <1>2, DataKept
<1> QED
    BY <1>1, <1>2, <1>3, <1>4

-------------------------------------------------------------------------------
\* Where the user stands, as a record of its fields.
UserRec(u) == /\ u = [pc |-> u.pc, begin |-> u.begin, on |-> u.on, ret |-> u.ret]
              /\ u.pc \in UserPlaces /\ u.ret \in {"skip", "notices", "advance"}
              /\ u.on \in Conns \cup {NULL} /\ u.begin \in Conns \cup {NULL}

\* The types a step of the user's has to keep.
LEMMA UserTyped ==
  ASSUME LifeInv, conn' \in [Conns -> Block], UNCHANGED <<connectMap, msgList, connId, ct>>,
         curConn' \in Conns \cup {NULL}, UserRec(user'), held' \in [Conns -> 0 .. MaxIds],
         notices' \in Seq(Conns \X (0 .. MaxIds))
  PROVE  Typed'
<1>1. TypeOK'
    BY DEF LifeInv, Typed, TypeOK, UserRec, Block
<1> QED
    BY <1>1 DEF LifeInv, Typed, UserRec

\* What the types say of the user's variables.
LEMMA UserVars ==
  ASSUME LifeInv
  PROVE  /\ UserRec(user) /\ curConn \in Conns \cup {NULL} /\ held \in [Conns -> 0 .. MaxIds]
         /\ notices \in Seq(Conns \X (0 .. MaxIds)) /\ msgList \in Seq(Conns)
         /\ NULL \notin Conns /\ \A c : Listed(c) => c \in connectMap /\ c \in Conns
<1>1. /\ UserRec(user) /\ curConn \in Conns \cup {NULL} /\ held \in [Conns -> 0 .. MaxIds]
      /\ notices \in Seq(Conns \X (0 .. MaxIds)) /\ msgList \in Seq(Conns)
    BY DEF LifeInv, Typed, TypeOK, UserRec
<1> QED
    BY <1>1, BlocksTyped, NullAssumption DEF Listed

\* The links lead to blocks in use, and the head of a list that isn't empty into it.
LEMMA LinksTyped ==
  ASSUME LifeInv, NEW c
  PROVE  /\ PNext(c) \in Conns \cup {NULL} /\ ListHead \in Conns \cup {NULL}
         /\ PNext(c) # NULL => Listed(PNext(c))
         /\ ListHead # NULL => Listed(ListHead)
         /\ (\E d : Listed(d)) => ListHead # NULL
<1>1. msgList \in Seq(Conns) /\ \A d : Listed(d) => d \in Conns
    BY UserVars
<1>2. /\ PNext(c) \in Range(msgList) \cup {NULL}
      /\ IF Range(msgList) = {} THEN ListHead = NULL ELSE ListHead \in Range(msgList)
    BY <1>1, LinksLead
<1> QED
    BY <1>1, <1>2, UserVars DEF Listed

\* recv's steps before its walk: the user has no walk yet.
LEMMA SkipStep == ASSUME LifeInv, Skip PROVE LifeInv'
<1>1. user.pc = "skip" /\ user.begin = NULL
    BY DEF Skip, LifeInv, UserReady, Walking
<1>2. UserRec(user') /\ user'.begin = NULL /\ user'.pc \in {"skip", "wait"}
    BY <1>1, UserVars DEF Skip, At, UserRec, UserPlaces
<1>3. curConn' \in Conns \cup {NULL}
    BY LinksTyped, UserVars DEF Skip
<1>4. conn' \in [Conns -> Block] /\ ListAgrees' /\ CtReady' /\ DataIsQueued' /\ Blank' /\ Told'
    BY <1>1, <1>2, StillStep DEF Skip, KeepCt
<1>5. Typed'
    BY <1>2, <1>3, <1>4, UserTyped, UserVars DEF Skip, KeepCt
<1>6. UserReady' /\ WalkStays'
    BY <1>2 DEF UserReady, Walking, WalkStays
<1> QED
    BY <1>4, <1>5, <1>6 DEF LifeInv

\* waitConnecter, when no sweep is asked for.
LEMMA PassStep == ASSUME LifeInv, Pass PROVE LifeInv'
<1>1. user.pc = "wait" /\ user.begin = NULL
    BY DEF Pass, LifeInv, UserReady, Walking
<1>2. UserRec(user') /\ user'.begin = NULL /\ user'.pc = "get"
    BY <1>1, UserVars DEF Pass, At, UserRec, UserPlaces
<1>3. conn' \in [Conns -> Block] /\ ListAgrees' /\ CtReady' /\ DataIsQueued' /\ Blank' /\ Told'
    BY <1>1, <1>2, StillStep DEF Pass, KeepCt
<1>4. Typed'
    BY <1>2, <1>3, UserTyped, UserVars DEF Pass, KeepCt
<1>5. UserReady' /\ WalkStays'
    BY <1>2 DEF UserReady, Walking, WalkStays
<1> QED
    BY <1>3, <1>4, <1>5 DEF LifeInv

\* The walk begins at a connection of the list.
LEMMA GetStep == ASSUME LifeInv, Get PROVE LifeInv'
<1> DEFINE first == IF curConn = NULL \/ conn[curConn].times = 0 THEN ListHead ELSE curConn
<1>1. first \in Conns \cup {NULL} /\ (first # NULL => Listed(first))
    <2>1. CASE curConn = NULL \/ conn[curConn].times = 0
        BY <2>1, LinksTyped
    <2>2. CASE curConn # NULL /\ conn[curConn].times # 0
        <3>1. curConn \in Conns /\ conn[curConn].times \in Nat
            BY <2>2, UserVars, BlocksTyped, CheckTimesAssumption DEF Block
        <3> QED
            BY <2>2, <3>1 DEF LifeInv, ListAgrees
    <2> QED
        BY <2>1, <2>2
<1>2. /\ user.pc = "get" /\ curConn' = first
      /\ user' = [user EXCEPT !.pc = IF first = NULL THEN "notices" ELSE "visit", !.begin = first]
    BY DEF Get
<1> HIDE DEF first
<1>3. /\ UserRec(user') /\ user'.begin = first
      /\ user'.pc = IF first = NULL THEN "notices" ELSE "visit"
    BY <1>1, <1>2, UserVars DEF UserRec, UserPlaces
<1>4. conn' \in [Conns -> Block] /\ ListAgrees' /\ CtReady' /\ DataIsQueued' /\ Blank' /\ Told'
    BY <1>2, <1>3, StillStep DEF Get, KeepCt
<1>5. Typed'
    BY <1>1, <1>2, <1>3, <1>4, UserTyped, UserVars DEF Get, KeepCt
<1>6. UserReady'
    BY <1>3 DEF UserReady, Walking
<1>7. WalkStays'
    BY <1>1, <1>2, <1>3 DEF WalkStays, Get, Listed
<1> QED
    BY <1>4, <1>5, <1>6, <1>7 DEF LifeInv

\* On its walk the user stands on a connection in use.
LEMMA OnWalk ==
  ASSUME LifeInv, user.pc \in {"visit", "giveUp", "advance"}
  PROVE  /\ user.begin # NULL /\ user.begin \in Conns /\ Listed(user.begin)
         /\ curConn \in Conns /\ curConn \in connectMap /\ Listed(curConn)
         /\ conn[curConn] \in Block
<1>1. user.begin # NULL
    BY DEF LifeInv, UserReady, Walking
<1>2. Listed(curConn) /\ Listed(user.begin)
    BY <1>1 DEF LifeInv, WalkStays
<1> QED
    BY <1>1, <1>2, UserVars, BlocksTyped

\* A step of the walk that stays at its connection, and at most writes to it.
LEMMA WalkStep ==
  ASSUME LifeInv, user.pc \in {"visit", "giveUp", "advance"}, KeepCt, UNCHANGED <<msgList, curConn, held, notices>>,
         NEW r \in Block, Mild(conn[curConn], r), conn' = [conn EXCEPT ![curConn] = r],
         \/ user' = [user EXCEPT !.pc = "advance"]
         \/ user' = [user EXCEPT !.pc = "giveUp"]
         \/ user' = [user EXCEPT !.pc = "write", !.on = curConn, !.ret = "advance"]
  PROVE  LifeInv'
<1>1. user.begin # NULL /\ curConn \in Conns /\ curConn \in connectMap
    BY OnWalk
<1>2. /\ UserRec(user') /\ user'.begin = user.begin
      /\ \/ user'.pc \in {"advance", "giveUp"}
         \/ user'.pc = "write" /\ user'.on = curConn /\ user'.ret = "advance"
    BY <1>1, UserVars DEF UserRec, UserPlaces
<1>3. conn' \in [Conns -> Block] /\ ListAgrees' /\ CtReady' /\ DataIsQueued' /\ Blank' /\ Told'
    BY <1>1, <1>2, MildStep DEF KeepCt
<1>4. Typed'
    BY <1>2, <1>3, UserTyped, UserVars DEF KeepCt
<1>5. UserReady'
    BY <1>1, <1>2 DEF UserReady, Walking, KeepCt
<1>6. WalkStays'
    BY <1>2 DEF LifeInv, WalkStays, Listed
<1> QED
    BY <1>3, <1>4, <1>5, <1>6 DEF LifeInv

\* recv finds no package, and perhaps sends a heartbeat.
LEMMA VisitIdleStep == ASSUME LifeInv, VisitIdle PROVE LifeInv'
<1>1. user.pc = "visit" /\ curConn \in Conns /\ conn[curConn] \in Block
    BY OnWalk DEF VisitIdle
<1> PICK d \in {FALSE, conn[curConn].data} : conn' = [conn EXCEPT ![curConn].data = d]
    BY DEF VisitIdle
<1> DEFINE r == [conn[curConn] EXCEPT !.data = d]
<1>2. conn' = [conn EXCEPT ![curConn] = r]
    OBVIOUS
<1>3. r \in Block /\ Mild(conn[curConn], r)
    BY <1>1 DEF Block, Mild, Gentle
<1> HIDE DEF r
<1> QED
    BY <1>1, <1>2, <1>3, WalkStep DEF VisitIdle, At, WriteTo

\* recv gives a connection with a malformed package up.
LEMMA VisitBadStep == ASSUME LifeInv, VisitBad PROVE LifeInv'
<1>1. user.pc = "visit" /\ curConn \in Conns /\ conn[curConn] \in Block
    BY OnWalk DEF VisitBad
<1> DEFINE r == [conn[curConn] EXCEPT !.logicStatus = "exception"]
<1>2. conn' = [conn EXCEPT ![curConn] = r]
    BY DEF VisitBad
<1>3. r \in Block /\ Mild(conn[curConn], r)
    BY <1>1 DEF Block, Mild, Gentle
<1> HIDE DEF r
<1> QED
    BY <1>1, <1>2, <1>3, WalkStep DEF VisitBad, At

\* recv releases the write buffer of a closed connection, or of one it gave up.
LEMMA GiveUpStep == ASSUME LifeInv, GiveUp, user.pc \in {"visit", "giveUp"} PROVE LifeInv'
<1>1. curConn \in Conns /\ conn[curConn] \in Block
    BY OnWalk
<1> DEFINE r == [conn[curConn] EXCEPT !.writeBuff = "none", !.logicStatus = "deleted"]
<1>2. conn' = [conn EXCEPT ![curConn] = r]
    BY DEF GiveUp
<1>3. r \in Block /\ Mild(conn[curConn], r)
    BY <1>1 DEF Block, Mild, Gentle
<1> HIDE DEF r
<1> QED
    BY <1>1, <1>2, <1>3, WalkStep DEF GiveUp, At

\* recv passes over a connection that is given up.
LEMMA VisitNothingStep == ASSUME LifeInv, VisitNothing PROVE LifeInv'
<1>1. user.pc = "visit" /\ curConn \in Conns /\ conn[curConn] \in Block /\ Mild(conn[curConn], conn[curConn])
    BY OnWalk, BlocksTyped DEF VisitNothing
<1>2. conn' = [conn EXCEPT ![curConn] = conn[curConn]]
    BY <1>1, BlocksTyped DEF VisitNothing
<1> QED
    BY <1>1, <1>2, WalkStep DEF VisitNothing, At

\* recv has a package for the service: the data were queued, so nothing is linked.
LEMMA VisitPackageStep == ASSUME LifeInv, VisitPackage PROVE LifeInv'
<1>1. user.pc = "visit" /\ curConn \in Conns /\ curConn \in connectMap /\ conn[curConn] \in Block
    BY OnWalk DEF VisitPackage
<1>2. conn[curConn].times > 0 /\ conn[curConn].times # 0
    <2>1. conn[curConn].times > 0
        BY <1>1 DEF VisitPackage, Normal, LifeInv, DataIsQueued
    <2> QED
        BY <1>1, <2>1, CheckTimesAssumption DEF Block
<1> PICK d \in BOOLEAN : conn' = [conn EXCEPT ![curConn].data = d, ![curConn].times = 1]
    BY DEF VisitPackage
<1> DEFINE r == [conn[curConn] EXCEPT !.data = d, !.times = 1]
<1>3. conn' = [conn EXCEPT ![curConn] = r]
    BY <1>1, BlocksTyped
<1>4. r \in Block /\ r.times > 0 /\ Mild(conn[curConn], r)
    <2>1. conn[curConn].data /\ conn[curConn].connStatus = "normal"
        BY DEF VisitPackage, Normal
    <2>2. 1 \in 0 .. (CheckTimes + 1)
        BY CheckTimesAssumption
    <2>3. r \in Block /\ r.times = 1
        BY <1>1, <2>2 DEF Block
    <2>4. r.id = conn[curConn].id /\ r.fd = conn[curConn].fd
        BY <1>1 DEF Block
    <2> HIDE DEF r
    <2> QED
        BY <1>2, <2>1, <2>3, <2>4 DEF Mild, Gentle
<1> HIDE DEF r
<1>5. msgList' = msgList /\ UNCHANGED <<connectMap, connId, ct, held, notices>> /\ curConn' \in Conns \cup {NULL}
    BY <1>2, LinksTyped DEF VisitPackage, KeepCt
<1>6. UserRec(user') /\ user'.begin = NULL /\ user'.pc = "callback" /\ user'.on = curConn
    BY <1>1 DEF VisitPackage, Leave, UserRec, UserPlaces
<1>7. conn' \in [Conns -> Block] /\ ListAgrees' /\ CtReady' /\ DataIsQueued' /\ Blank' /\ Told'
    BY <1>1, <1>3, <1>4, <1>5, <1>6, MildStep
<1>8. Typed'
    BY <1>5, <1>6, <1>7, UserTyped, UserVars
<1>9. UserReady' /\ WalkStays'
    BY <1>1, <1>5, <1>6 DEF UserReady, Walking, WalkStays
<1> QED
    BY <1>7, <1>8, <1>9 DEF LifeInv

\* The walk goes on to a connection of the list, as the list isn't empty while there is a walk.
LEMMA AdvanceStep == ASSUME LifeInv, Advance PROVE LifeInv'
<1> DEFINE next == IF PNext(curConn) # NULL THEN PNext(curConn) ELSE ListHead
<1>1. user.pc = "advance" /\ user.begin # NULL /\ Listed(curConn) /\ Listed(user.begin)
    BY OnWalk DEF Advance
<1>2. next # NULL /\ Listed(next) /\ next \in Conns
    BY <1>1, LinksTyped, UserVars
<1>3. /\ curConn' = next
      /\ user' = IF next = user.begin THEN Leave("notices") ELSE [user EXCEPT !.pc = "visit"]
    BY DEF Advance
<1> HIDE DEF next
<1>4. /\ UserRec(user')
      /\ \/ user'.begin = NULL /\ user'.pc = "notices"
         \/ user'.begin = user.begin /\ user'.pc = "visit"
    BY <1>3, UserVars DEF UserRec, UserPlaces, Leave
<1>5. conn' \in [Conns -> Block] /\ ListAgrees' /\ CtReady' /\ DataIsQueued' /\ Blank' /\ Told'
    BY <1>1, <1>4, StillStep DEF Advance, KeepCt
<1>6. Typed'
    BY <1>2, <1>3, <1>4, <1>5, UserTyped, UserVars DEF Advance, KeepCt
<1>7. UserReady'
    BY <1>1, <1>4 DEF UserReady, Walking
<1>8. WalkStays'
    BY <1>1, <1>2, <1>3, <1>4 DEF WalkStays, Advance, Listed
<1> QED
    BY <1>5, <1>6, <1>7, <1>8 DEF LifeInv

\* The service keeps the connection its callback was called for.
LEMMA AttachStep == ASSUME LifeInv, Attach PROVE LifeInv'
<1>1. user.pc = "callback" /\ user.on \in Conns /\ conn[user.on].id \in 0 .. MaxIds
    <2>1. user.on \in Conns
        BY BlocksTyped DEF Attach, LifeInv, UserReady
    <2>2. conn[user.on] \in Block
        BY <2>1, BlocksTyped
    <2> QED
        BY <2>1, <2>2 DEF Attach, Block
<1>2. held' \in [Conns -> 0 .. MaxIds]
    BY <1>1, UserVars DEF Attach
<1>3. conn' \in [Conns -> Block] /\ ListAgrees' /\ CtReady' /\ DataIsQueued' /\ Blank' /\ Told'
    BY <1>1, StillStep DEF Attach, KeepCt
<1>4. Typed'
    BY <1>2, <1>3, UserTyped, UserVars DEF Attach, KeepCt
<1>5. UserReady' /\ WalkStays'
    BY UserKept DEF Attach, KeepCt
<1> QED
    BY <1>3, <1>4, <1>5 DEF LifeInv

\* The service runs outside the walk.
LEMMA OnServing ==
  ASSUME LifeInv, Serving
  PROVE  /\ user.begin = NULL /\ user.pc # "granted" /\ Known \subseteq Conns
         /\ AfterServing \in {"notices", "skip"}
         /\ UserRec(Leave(AfterServing)) /\ Leave(AfterServing).begin = NULL
         /\ Leave(AfterServing).pc \in {"notices", "skip"}
<1>1. user.begin = NULL /\ user.pc # "granted"
    BY DEF Serving, LifeInv, UserReady, Walking
<1>2. Known \subseteq Conns
    BY UserVars DEF Known, UserRec
<1>3. AfterServing \in {"notices", "skip"}
    BY DEF AfterServing
<1> QED
    BY <1>1, <1>2, <1>3 DEF Leave, UserRec, UserPlaces

\* The service hangs up on a connection, or on what is left of it; its block may be out of use.
LEMMA HangUpStep ==
  ASSUME LifeInv, Serving, NEW c \in Known, HangUpOn(c), user' = Leave(AfterServing), KeepCt,
         UNCHANGED <<msgList, held, notices>>
  PROVE  LifeInv'
<1>1. c \in Conns /\ conn[c] \in Block
    BY OnServing, BlocksTyped
<1> DEFINE r == IF conn[c].writeBuff = "data" THEN [conn[c] EXCEPT !.logicStatus = "sendClose"]
                ELSE [conn[c] EXCEPT !.writeBuff = "none", !.logicStatus = "deleted"]
<1>2. conn' = [conn EXCEPT ![c] = r]
    BY DEF HangUpOn
<1>3. r \in Block /\ Mild(conn[c], r)
    BY <1>1 DEF Block, Mild, Gentle
<1>4. c \notin connectMap => r = conn[c]
    <2> SUFFICES ASSUME c \notin connectMap PROVE r = conn[c]
        OBVIOUS
    <2>1. conn[c] = Destroyed
        BY <1>1 DEF LifeInv, Blank
    <2>2. conn[c].writeBuff = "none" /\ conn[c].logicStatus = "deleted"
        BY <2>1, DestroyedIs
    <2>3. r = [conn[c] EXCEPT !.writeBuff = "none", !.logicStatus = "deleted"]
        BY <2>2
    <2>4. /\ r.id = conn[c].id /\ r.fd = conn[c].fd /\ r.connStatus = conn[c].connStatus
          /\ r.logicStatus = conn[c].logicStatus /\ r.writeBuff = conn[c].writeBuff
          /\ r.times = conn[c].times /\ r.data = conn[c].data
        BY <1>1, <2>2, <2>3 DEF Block
    <2> HIDE DEF r
    <2> QED
        BY <1>1, <1>3, <2>4, SameBlock
<1> HIDE DEF r
<1>5. UserRec(user') /\ user'.begin = NULL /\ user'.pc \in {"notices", "skip"}
    BY OnServing
<1>6. curConn' \in Conns \cup {NULL}
    BY LinksTyped, UserVars DEF HangUpOn
<1>7. conn' \in [Conns -> Block] /\ ListAgrees' /\ CtReady' /\ DataIsQueued' /\ Blank' /\ Told'
    BY <1>1, <1>2, <1>3, <1>4, <1>5, OnServing, MildStep DEF KeepCt
<1>8. Typed'
    BY <1>5, <1>6, <1>7, UserTyped, UserVars DEF KeepCt
<1>9. UserReady' /\ WalkStays'
    BY <1>5 DEF UserReady, Walking, WalkStays
<1> QED
    BY <1>7, <1>8, <1>9 DEF LifeInv

\* CDataHandler::close.
LEMMA UserCloseStep == ASSUME LifeInv, UserClose PROVE LifeInv'
BY HangUpStep DEF UserClose

\* CDataHandler::send: a connection in normal state is in use.
LEMMA UserSendStep == ASSUME LifeInv, UserSend PROVE LifeInv'
<1> PICK c \in Known : IF Normal(c) THEN WriteTo(c, AfterServing) /\ UNCHANGED <<conn, curConn>>
                       ELSE HangUpOn(c) /\ user' = Leave(AfterServing)
    BY DEF UserSend
<1>1. CASE ~Normal(c)
    BY <1>1, HangUpStep DEF UserSend
<1>2. CASE Normal(c)
    <2>1. c \in connectMap /\ c \in Conns
        BY <1>2, OnServing DEF UserSend, LifeInv, Blank, Normal, Destroyed, Fresh
    <2>2. UserRec(user') /\ user'.begin = NULL /\ user'.pc = "write" /\ user'.on = c /\ user'.ret \in {"notices", "skip"}
        BY <1>2, <2>1, OnServing, UserVars DEF UserSend, WriteTo, UserRec, UserPlaces
    <2>3. conn' \in [Conns -> Block] /\ ListAgrees' /\ CtReady' /\ DataIsQueued' /\ Blank' /\ Told'
        BY <1>2, <2>2, OnServing, StillStep DEF UserSend, KeepCt
    <2>4. Typed'
        BY <1>2, <2>2, <2>3, UserTyped, UserVars DEF UserSend, KeepCt
    <2>5. UserReady' /\ WalkStays'
        BY <2>1, <2>2 DEF UserReady, Walking, WalkStays, UserSend, KeepCt
    <2> QED
        BY <2>3, <2>4, <2>5 DEF LifeInv
<1> QED
    BY <1>1, <1>2

\* The service does nothing with a connection.
LEMMA UserIgnoresStep == ASSUME LifeInv, UserIgnores PROVE LifeInv'
<1>1. UserRec(user') /\ user'.begin = NULL /\ user'.pc \in {"notices", "skip"}
    BY OnServing DEF UserIgnores
<1>2. conn' \in [Conns -> Block] /\ ListAgrees' /\ CtReady' /\ DataIsQueued' /\ Blank' /\ Told'
    BY <1>1, OnServing, StillStep DEF UserIgnores, KeepCt
<1>3. Typed'
    BY <1>1, <1>2, UserTyped, UserVars DEF UserIgnores, KeepCt
<1>4. UserReady' /\ WalkStays'
    BY <1>1 DEF UserReady, Walking, WalkStays
<1> QED
    BY <1>2, <1>3, <1>4 DEF LifeInv

\* A write goes on, or returns to the walk or to the service's code.
LEMMA WriteStep ==
  ASSUME LifeInv, user.pc \in {"write", "buffer"}, KeepCt, UNCHANGED <<msgList, curConn, held, notices>>,
         NEW r \in Block, Mild(conn[user.on], r), conn' = [conn EXCEPT ![user.on] = r], Written \/ At("buffer")
  PROVE  LifeInv'
<1>1. user.on \in connectMap /\ user.on \in Conns /\ (user.begin # NULL <=> user.ret = "advance")
    BY BlocksTyped DEF LifeInv, UserReady, Walking
<1>2. /\ UserRec(user') /\ user'.begin = user.begin
      /\ \/ user'.pc = user.ret
         \/ user'.pc = "buffer" /\ user'.on = user.on /\ user'.ret = user.ret
    BY UserVars DEF UserRec, UserPlaces, Written, At
<1>3. user.ret \in {"skip", "notices", "advance"}
    BY UserVars DEF UserRec
<1>4. conn' \in [Conns -> Block] /\ ListAgrees' /\ CtReady' /\ DataIsQueued' /\ Blank' /\ Told'
    BY <1>1, <1>2, <1>3, MildStep DEF KeepCt
<1>5. Typed'
    BY <1>2, <1>4, UserTyped, UserVars DEF KeepCt
<1>6. UserReady'
    BY <1>1, <1>2, <1>3 DEF UserReady, Walking, KeepCt
<1>7. WalkStays'
    BY <1>2 DEF LifeInv, WalkStays, Listed
<1> QED
    BY <1>4, <1>5, <1>6, <1>7 DEF LifeInv

\* CConnectManager::writeToSocket, as far as the socket takes the bytes.
LEMMA WriteKeeps == ASSUME LifeInv, Write PROVE LifeInv'
<1>1. user.pc = "write" /\ user.on \in Conns /\ conn[user.on] \in Block
    BY BlocksTyped DEF Write, LifeInv, UserReady
<1>2. CASE UNCHANGED conn /\ (Written \/ At("buffer"))
    <2>1. conn' = [conn EXCEPT ![user.on] = conn[user.on]] /\ Mild(conn[user.on], conn[user.on])
        BY <1>1, <1>2, BlocksTyped
    <2> QED
        BY <1>1, <1>2, <2>1, WriteStep DEF Write
<1>3. CASE conn' = [conn EXCEPT ![user.on].connStatus = "closed"] /\ Written
    <2> DEFINE r == [conn[user.on] EXCEPT !.connStatus = "closed"]
    <2>1. conn' = [conn EXCEPT ![user.on] = r]
        BY <1>3
    <2>2. r \in Block /\ Mild(conn[user.on], r)
        BY <1>1 DEF Block, Mild, Gentle
    <2> HIDE DEF r
    <2> QED
        BY <1>1, <1>3, <2>1, <2>2, WriteStep DEF Write
<1> QED
    BY <1>2, <1>3 DEF Write

\* What the socket did not take is buffered.
LEMMA BufferKeeps == ASSUME LifeInv, Buffer PROVE LifeInv'
<1>1. user.pc = "buffer" /\ user.on \in Conns /\ conn[user.on] \in Block
    BY BlocksTyped DEF Buffer, LifeInv, UserReady
<1> DEFINE r == [conn[user.on] EXCEPT !.writeBuff = "data"]
<1>2. conn' = [conn EXCEPT ![user.on] = r]
    BY DEF Buffer
<1>3. r \in Block /\ Mild(conn[user.on], r)
    BY <1>1 DEF Block, Mild, Gentle
<1> HIDE DEF r
<1> QED
    BY <1>1, <1>2, <1>3, WriteStep DEF Buffer

\* A sequence without its first element.
LEMMA TailKeeps ==
  ASSUME NEW S, NEW q \in Seq(S), q # <<>>
  PROVE  /\ Head(q) \in S /\ Tail(q) \in Seq(S)
         /\ \A i \in DOMAIN Tail(q) : Tail(q)[i] = q[i + 1] /\ i + 1 \in DOMAIN q /\ i \in Nat
<1> PICK n \in Nat : n = Len(q)
    BY LenProperties
<1>1. DOMAIN q = 1 .. n /\ n > 0
    BY LenProperties, EmptySeq
<1>2. Head(q) \in S /\ Tail(q) \in Seq(S) /\ Len(Tail(q)) = n - 1 /\ \A i \in 1 .. n - 1 : Tail(q)[i] = q[i + 1]
    BY HeadTailProperties
<1>3. DOMAIN Tail(q) = 1 .. n - 1
    BY <1>1, <1>2, LenProperties
<1> QED
    BY <1>1, <1>2, <1>3

\* The notices at the connection thread's end stay sound when the service takes one.
LEMMA TakeNoticeStep == ASSUME LifeInv, TakeNotice PROVE LifeInv'
<1>1. user.pc = "notices" /\ user.begin = NULL
    BY DEF TakeNotice, LifeInv, UserReady, Walking
<1>2. CASE notices = <<>> /\ At("act") /\ UNCHANGED <<notices, held>>
    <2>1. UserRec(user') /\ user'.begin = NULL /\ user'.pc = "act"
        BY <1>1, <1>2, UserVars DEF At, UserRec, UserPlaces
    <2>2. conn' \in [Conns -> Block] /\ ListAgrees' /\ CtReady' /\ DataIsQueued' /\ Blank' /\ Told'
        BY <1>1, <1>2, <2>1, StillStep DEF TakeNotice, KeepCt
    <2>3. Typed'
        BY <1>2, <2>1, <2>2, UserTyped, UserVars DEF TakeNotice, KeepCt
    <2>4. UserReady' /\ WalkStays'
        BY <2>1 DEF UserReady, Walking, WalkStays
    <2> QED
        BY <2>2, <2>3, <2>4 DEF LifeInv
<1>3. CASE /\ notices # <<>>
           /\ held' = IF held[Head(notices)[1]] = Head(notices)[2] THEN [held EXCEPT ![Head(notices)[1]] = 0] ELSE held
           /\ notices' = Tail(notices) /\ UNCHANGED user
    <2> DEFINE S == Conns \X (0 .. MaxIds)
    <2>1. /\ Head(notices) \in S /\ notices' \in Seq(S)
          /\ \A i \in DOMAIN notices' : notices'[i] = notices[i + 1] /\ i + 1 \in DOMAIN notices /\ i \in Nat
        <3>1. notices \in Seq(S) /\ notices # <<>> /\ notices' = Tail(notices)
            BY <1>3, UserVars
        <3> HIDE DEF S
        <3> QED
            BY <3>1, TailKeeps
    <2>2. held' \in [Conns -> 0 .. MaxIds]
        <3>1. Head(notices)[1] \in Conns /\ 0 \in 0 .. MaxIds
            BY <2>1, MaxIdsAssumption
        <3> QED
            BY <1>3, <3>1, UserVars
    <2>3. UNCHANGED <<conn, connectMap, connId, ct, msgList, curConn, user>>
        BY <1>3 DEF TakeNotice, KeepCt
    <2>4. Typed'
        BY <2>1, <2>2, <2>3, UserTyped, UserVars, BlocksTyped
    <2>5. ListAgrees' /\ CtReady' /\ UserReady' /\ WalkStays' /\ DataIsQueued' /\ Blank'
        BY <2>3 DEF LifeInv, ListAgrees, CtReady, UserReady, Walking, WalkStays, DataIsQueued, Blank, Listed
    <2>6. Told'
        <3>1. \A i, j \in DOMAIN notices' : notices'[i] = notices'[j] => i + 1 = j + 1 /\ i \in Nat /\ j \in Nat
            BY <2>1 DEF LifeInv, Told
        <3>2. \A i, j \in DOMAIN notices' : notices'[i] = notices'[j] => i = j
            BY <3>1
        <3>3. ASSUME NEW i \in DOMAIN notices'
              PROVE  /\ notices'[i][2] <= connId
                     /\ conn[notices'[i][1]].id = notices'[i][2] => ~conn[notices'[i][1]].fd
            <4>1. notices'[i] = notices[i + 1] /\ i + 1 \in DOMAIN notices
                BY <2>1
            <4> QED
                BY <4>1 DEF LifeInv, Told
        <3>4. \A c \in Conns : conn[c].id <= connId
            BY DEF LifeInv, Told
        <3> QED
            BY <2>3, <3>2, <3>3, <3>4 DEF Told
    <2> QED
        BY <2>4, <2>5, <2>6 DEF LifeInv
<1> QED
    BY <1>2, <1>3 DEF TakeNotice

\* waitConnecter hands the turn over: from here to the end of the sweep the user stands still.
LEMMA GrantStep == ASSUME LifeInv, Grant PROVE LifeInv'
<1>1. user.pc = "wait" /\ user.begin = NULL /\ ct.pc = "ask"
    BY DEF Grant, LifeInv, UserReady, Walking
<1>2. UserRec(user') /\ user'.begin = NULL /\ user'.pc = "granted"
    BY <1>1, UserVars DEF Grant, At, UserRec, UserPlaces
<1>3. ct'.pc = "sweep" /\ ct'.on = ct.on /\ ct'.todo = connectMap /\ ct' = [pc |-> ct'.pc, on |-> ct'.on, todo |-> ct'.todo]
    BY DEF Grant, LifeInv, Typed
<1>4. UNCHANGED <<conn, connectMap, msgList, curConn, connId, held, notices>>
    BY DEF Grant
<1>5. Typed'
    BY <1>2, <1>3, <1>4 DEF LifeInv, Typed, TypeOK, UserRec, CtPlaces
<1>6. ListAgrees'
    BY <1>1, <1>4, ListKept
<1>7. CtReady'
    BY <1>2, <1>3 DEF CtReady
<1>8. UserReady' /\ WalkStays'
    BY <1>2 DEF UserReady, Walking, WalkStays
<1>9. DataIsQueued' /\ Blank' /\ Told'
    BY <1>4 DEF LifeInv, DataIsQueued, Blank, Told, Listed
<1> QED
    BY <1>5, <1>6, <1>7, <1>8, <1>9 DEF LifeInv

\* Whatever the user does keeps what both threads know.
LEMMA UserKeepsLife == ASSUME LifeInv, UserStep PROVE LifeInv'
BY SkipStep, PassStep, GrantStep, GetStep, VisitIdleStep, VisitPackageStep, VisitBadStep, GiveUpStep, VisitNothingStep,
   AdvanceStep, AttachStep, UserCloseStep, UserSendStep, UserIgnoresStep, WriteKeeps, BufferKeeps, TakeNoticeStep
   DEF UserStep, Visiting, VisitClosed, GiveUpBad

-------------------------------------------------------------------------------
\* Where the connection thread stands, as a record of its fields.
CtRec(t) == t = [pc |-> t.pc, on |-> t.on, todo |-> t.todo] /\ t.pc \in CtPlaces /\ t.on \in Conns \cup {NULL}

\* What the types say of the connection thread's variables.
LEMMA CtVars ==
  ASSUME LifeInv
  PROVE  CtRec(ct) /\ ct.todo \subseteq connectMap /\ connId \in 0 .. MaxIds /\ connId \in Nat /\ MaxIds \in Nat
BY MaxIdsAssumption DEF LifeInv, Typed, TypeOK, CtRec

\* How the connection thread moves on.
LEMMA CtMoves ==
  ASSUME LifeInv, NEW pc \in CtPlaces
  PROVE  /\ Go(pc) => CtRec(ct') /\ ct'.pc = pc /\ ct'.on = ct.on /\ ct'.todo = ct.todo
         /\ Events => CtRec(ct') /\ ct'.pc = "events" /\ ct'.todo = ct.todo
         /\ \A c \in Conns : Handle(c, pc) => CtRec(ct') /\ ct'.pc = pc /\ ct'.on = c /\ ct'.todo = ct.todo
BY CtVars DEF Go, Events, Handle, CtRec, CtPlaces

\* The types a step of the connection thread's has to keep.
LEMMA CtTyped ==
  ASSUME LifeInv, conn' \in [Conns -> Block], connectMap' \subseteq Conns, msgList' \in Seq(Conns), connId' \in 0 .. MaxIds,
         CtRec(ct'), ct'.todo \subseteq connectMap', UNCHANGED <<curConn, held>>, UserRec(user'),
         notices' \in Seq(Conns \X (0 .. MaxIds))
  PROVE  Typed'
<1>1. TypeOK'
    BY UserVars DEF TypeOK, UserRec, CtRec, Block
<1> QED
    BY <1>1 DEF Typed, UserRec, CtRec

\* A step of the connection thread's that changes one block in use, gently, and nothing else of
\* what the threads share.
LEMMA GentleStep ==
  ASSUME LifeInv, KeepUser, UNCHANGED <<connectMap, msgList, connId, notices>>, CtRec(ct'), ct'.todo = ct.todo,
         NEW c \in connectMap, NEW r \in Block, Gentle(conn[c], r), conn' = [conn EXCEPT ![c] = r], ListAgrees', CtReady'
  PROVE  LifeInv'
<1>1. conn \in [Conns -> Block] /\ c \in Conns /\ connectMap \subseteq Conns
    BY BlocksTyped
<1>2. conn' \in [Conns -> Block] /\ \A d \in Conns : conn'[d] = IF d = c THEN r ELSE conn[d]
    BY <1>1
<1>3. \A d \in Conns : Gentle(conn[d], conn'[d])
    BY <1>2, BlocksTyped
<1>4. DataIsQueued' /\ Blank' /\ Told'
    BY <1>2, <1>3, DataKept
<1>5. Typed'
    BY <1>1, <1>2, CtTyped, CtVars, UserVars DEF KeepUser
<1>6. UserReady' /\ WalkStays'
    BY UserKept DEF KeepUser
<1> QED
    BY <1>4, <1>5, <1>6 DEF LifeInv

\* The same, of a step that changes no block.
LEMMA IdleStep ==
  ASSUME LifeInv, KeepUser, UNCHANGED <<conn, connectMap, msgList, connId, notices>>, CtRec(ct'), ct'.todo = ct.todo,
         ListAgrees', CtReady'
  PROVE  LifeInv'
<1>1. conn \in [Conns -> Block] /\ connectMap \subseteq Conns
    BY BlocksTyped
<1>2. DataIsQueued' /\ Blank' /\ Told'
    BY BlocksTyped, DataKept
<1>3. Typed'
    BY <1>1, CtTyped, CtVars, UserVars DEF KeepUser
<1>4. UserReady' /\ WalkStays'
    BY UserKept DEF KeepUser
<1> QED
    BY <1>2, <1>3, <1>4 DEF LifeInv

\* What a block in use says of its place in the list, unless it is just being linked.
LEMMA ListedOrNot ==
  ASSUME LifeInv, NEW c \in Conns
  PROVE  /\ conn[c].times \in Nat
         /\ conn[c].times > 0 => Listed(c)
         /\ conn[c].times = 0 /\ (ct.pc \notin {"count", "countClosed"} \/ ct.on # c) => ~Listed(c)
<1>1. conn[c] \in Block /\ conn[c].times \in Nat
    BY BlocksTyped, CheckTimesAssumption DEF Block
<1> QED
    BY <1>1 DEF LifeInv, ListAgrees

\* The user is in no sweep unless the connection thread is.
LEMMA NoSweep ==
  ASSUME LifeInv, KeepUser, ct.pc # "sweep", ct'.pc # "sweep"
  PROVE  user.pc # "granted" /\ user'.pc # "granted"
BY DEF LifeInv, CtReady, KeepUser

\* Bytes were read from a connection: it is in the list, or it is to be linked.
LEMMA ReadableStep == ASSUME LifeInv, NEW c \in Conns, Readable(c) PROVE LifeInv'
<1>1. ct.pc = "events" /\ c \in connectMap /\ conn[c].fd /\ KeepUser
      /\ UNCHANGED <<conn, connectMap, msgList, connId, notices>>
    BY DEF Readable
<1>2. /\ CtRec(ct') /\ ct'.todo = ct.todo /\ ct'.on = c
      /\ ct'.pc = IF conn[c].times = 0 THEN "insert" ELSE "commit"
    BY CtMoves DEF Readable, CtPlaces
<1>3. ListAgrees'
    BY <1>1, ListKept
<1>4. CtReady'
    <2>1. conn[c].times \in Nat /\ (conn[c].times = 0 => ~Listed(c))
        BY <1>1, ListedOrNot
    <2>2. user'.pc # "granted"
        BY <1>1, <1>2, NoSweep
    <2> QED
        BY <1>1, <1>2, <2>1, <2>2 DEF CtReady, Listed, CtPlaces
<1> QED
    BY <1>1, <1>2, <1>3, <1>4, IdleStep

\* EPOLLHUP and the like.
LEMMA HangUpEvent == ASSUME LifeInv, NEW c \in Conns, HangUp(c) PROVE LifeInv'
<1> DEFINE r == [conn[c] EXCEPT !.connStatus = "closed"]
<1>1. /\ ct.pc = "events" /\ c \in connectMap /\ conn[c].fd /\ KeepUser
      /\ UNCHANGED <<connectMap, msgList, connId, notices>> /\ conn' = [conn EXCEPT ![c] = r]
    BY DEF HangUp
<1>2. r \in Block /\ Mild(conn[c], r) /\ r.fd = conn[c].fd
    BY BlocksTyped DEF Block, Mild, Gentle
<1> HIDE DEF r
<1>3. CtRec(ct') /\ ct'.todo = ct.todo /\ ct'.on = c /\ ct'.pc = "close"
    BY CtMoves DEF HangUp, CtPlaces
<1>4. conn'[c].fd /\ \A d \in Conns : conn'[d].times > 0 <=> conn[d].times > 0
    BY <1>1, <1>2, BlocksTyped DEF Mild, Gentle
<1>5. ListAgrees'
    BY <1>1, <1>4, ListKept
<1>6. CtReady'
    BY <1>1, <1>3, <1>4, NoSweep DEF CtReady, CtPlaces
<1> QED
    BY <1>1, <1>2, <1>3, <1>5, <1>6, GentleStep DEF Mild

\* EPOLLOUT.
LEMMA WritableStep == ASSUME LifeInv, NEW c \in Conns, Writable(c) PROVE LifeInv'
<1>1. /\ ct.pc = "events" /\ c \in connectMap /\ conn[c].fd /\ KeepUser
      /\ UNCHANGED <<connectMap, msgList, connId, notices>>
    BY DEF Writable
<1> PICK w \in Flushed(c) : conn' = [conn EXCEPT ![c].writeBuff = w]
    BY DEF Writable
<1> DEFINE r == [conn[c] EXCEPT !.writeBuff = w]
<1>2. conn' = [conn EXCEPT ![c] = r]
    OBVIOUS
<1>3. r \in Block /\ Mild(conn[c], r) /\ r.fd = conn[c].fd
    <2>1. conn[c] \in Block
        BY BlocksTyped
    <2>2. w \in {"none", "empty", "data"}
        BY <2>1 DEF Flushed, Block
    <2> QED
        BY <2>1, <2>2 DEF Block, Mild, Gentle
<1> HIDE DEF r
<1>4. /\ CtRec(ct') /\ ct'.todo = ct.todo
      /\ ct'.pc = "events" \/ (ct'.pc = "close" /\ ct'.on = c)
    BY CtMoves DEF Writable, Look, CtPlaces
<1>5. conn'[c].fd /\ \A d \in Conns : conn'[d].times > 0 <=> conn[d].times > 0
    BY <1>1, <1>2, <1>3, BlocksTyped DEF Mild, Gentle
<1>6. ListAgrees'
    BY <1>1, <1>5, ListKept
<1>7. CtReady'
    BY <1>1, <1>4, <1>5, NoSweep DEF CtReady, CtPlaces
<1> QED
    BY <1>1, <1>2, <1>3, <1>4, <1>6, <1>7, GentleStep DEF Mild

\* addToMsgQueue links the connection.
LEMMA InsertStep == ASSUME LifeInv, Insert PROVE LifeInv'
<1>1. /\ ct.pc \in {"insert", "insertClosed"} /\ msgList' = <<ct.on>> \o msgList /\ KeepUser
      /\ UNCHANGED <<conn, connectMap, connId, notices>>
    BY DEF Insert
<1>2. /\ ct.on \in connectMap /\ ct.on \in Conns /\ ~Listed(ct.on) /\ conn[ct.on].times = 0
      /\ ct.pc = "insert" => conn[ct.on].fd
    BY <1>1, BlocksTyped DEF LifeInv, CtReady, CtPlaces
<1>3. msgList' \in Seq(Conns) /\ IsInjective(msgList') /\ Range(msgList') = Range(msgList) \cup {ct.on}
    BY <1>1, <1>2, UserVars, Linking DEF LifeInv, ListAgrees
<1>4. /\ CtRec(ct') /\ ct'.todo = ct.todo /\ ct'.on = ct.on
      /\ ct'.pc = IF ct.pc = "insert" THEN "count" ELSE "countClosed"
    BY CtMoves DEF Insert, CtPlaces
<1>5. ListAgrees'
    <2>1. ASSUME NEW c \in Conns
          PROVE  IF conn[c].times > 0 THEN c \in Range(msgList') ELSE c \in Range(msgList') => c = ct.on
        <3>1. conn[c].times \in Nat /\ (conn[c].times = 0 => ~Listed(c))
            BY <1>1, ListedOrNot
        <3> QED
            BY <1>3, <3>1, ListedOrNot DEF Listed
    <2>2. ct'.pc \in {"count", "countClosed"}
        BY <1>1, <1>4
    <2>3. Range(msgList') \subseteq connectMap
        BY <1>2, <1>3, BlocksTyped
    <2> QED
        BY <1>1, <1>3, <1>4, <2>1, <2>2, <2>3 DEF ListAgrees, Listed
<1>6. CtReady'
    <2>1. user'.pc # "granted"
        BY <1>1, <1>4, NoSweep
    <2> QED
        BY <1>1, <1>2, <1>3, <1>4, <2>1 DEF CtReady, Listed, CtPlaces
<1>7. DataIsQueued' /\ Blank' /\ Told'
    BY <1>1, <1>5, BlocksTyped, DataKept
<1>8. Typed'
    BY <1>1, <1>3, <1>4, BlocksTyped, CtTyped, CtVars, UserVars DEF KeepUser
<1>9. UserReady' /\ WalkStays'
    BY <1>1, <1>3, UserKept DEF KeepUser
<1> QED
    BY <1>5, <1>6, <1>7, <1>8, <1>9 DEF LifeInv

\* addToMsgQueue counts the connection it linked as queued.
LEMMA CountStep == ASSUME LifeInv, Count PROVE LifeInv'
<1> PICK t \in {1, CheckTimes + 1} : conn' = [conn EXCEPT ![ct.on].times = t]
    BY DEF Count
<1>1. ct.pc \in {"count", "countClosed"} /\ KeepUser /\ UNCHANGED <<connectMap, msgList, connId, notices>>
    BY DEF Count
<1>2. /\ ct.on \in connectMap /\ ct.on \in Conns /\ Listed(ct.on) /\ (ct.pc = "count" => conn[ct.on].fd)
      /\ conn[ct.on] \in Block
    BY <1>1, BlocksTyped DEF LifeInv, CtReady, CtPlaces
<1> DEFINE r == [conn[ct.on] EXCEPT !.times = t]
<1>3. t \in 0 .. (CheckTimes + 1) /\ t > 0
    BY CheckTimesAssumption
<1>4. conn' = [conn EXCEPT ![ct.on] = r]
    OBVIOUS
<1>5. r \in Block /\ Gentle(conn[ct.on], r) /\ r.times > 0 /\ r.fd = conn[ct.on].fd
    BY <1>2, <1>3 DEF Block, Gentle
<1> HIDE DEF r
<1>6. /\ CtRec(ct') /\ ct'.todo = ct.todo
      /\ ct'.pc = "events" \/ (ct'.pc = "commit" /\ ct'.on = ct.on /\ ct.pc = "count")
    BY CtMoves DEF Count, CtPlaces
<1>7. conn'[ct.on] = r /\ \A d \in Conns \ {ct.on} : conn'[d] = conn[d]
    BY <1>2, <1>4, BlocksTyped
<1>8. ListAgrees'
    <2>1. ASSUME NEW c \in Conns PROVE IF conn'[c].times > 0 THEN Listed(c) ELSE ~Listed(c)
        <3>1. CASE c = ct.on
            BY <1>2, <1>5, <1>7, <3>1
        <3>2. CASE c # ct.on
            BY <1>7, <3>2, ListedOrNot
        <3> QED
            BY <3>1, <3>2
    <2> QED
        BY <1>1, <2>1 DEF LifeInv, ListAgrees, Listed
<1>9. CtReady'
    <2>1. user'.pc # "granted"
        BY <1>1, <1>6, NoSweep
    <2> QED
        BY <1>1, <1>2, <1>5, <1>6, <1>7, <2>1 DEF CtReady, CtPlaces
<1> QED
    BY <1>1, <1>2, <1>4, <1>5, <1>6, <1>8, <1>9, GentleStep

\* The bytes that were read are in the buffer of a connection that is queued.
LEMMA CommitStep == ASSUME LifeInv, Commit PROVE LifeInv'
<1> DEFINE r == [conn[ct.on] EXCEPT !.data = TRUE]
<1>1. /\ ct.pc = "commit" /\ KeepUser /\ UNCHANGED <<connectMap, msgList, connId, notices>>
      /\ conn' = [conn EXCEPT ![ct.on] = r]
    BY DEF Commit
<1>2. /\ ct.on \in connectMap /\ ct.on \in Conns /\ conn[ct.on].fd /\ conn[ct.on].times > 0
      /\ conn[ct.on] \in Block
    BY <1>1, BlocksTyped DEF LifeInv, CtReady, CtPlaces
<1>3. r \in Block /\ Gentle(conn[ct.on], r) /\ r.times = conn[ct.on].times /\ r.fd = conn[ct.on].fd
    BY <1>2 DEF Block, Gentle
<1> HIDE DEF r
<1>4. /\ CtRec(ct') /\ ct'.todo = ct.todo
      /\ ct'.pc = "events" \/ (ct'.pc = "close" /\ ct'.on = ct.on)
    BY <1>2, CtMoves DEF Commit, Look, CtPlaces
<1>5. conn'[ct.on].fd /\ \A d \in Conns : conn'[d].times > 0 <=> conn[d].times > 0
    BY <1>1, <1>2, <1>3, BlocksTyped
<1>6. ListAgrees'
    BY <1>1, <1>5, ListKept
<1>7. CtReady'
    BY <1>1, <1>2, <1>4, <1>5, NoSweep DEF CtReady, CtPlaces
<1> QED
    BY <1>1, <1>2, <1>3, <1>4, <1>6, <1>7, GentleStep

\* The notice of a connection's end is the first and only one with its id.
LEMMA Noticing ==
  ASSUME LifeInv, NEW c \in Conns, conn[c].fd, notices' = Append(notices, <<c, conn[c].id>>),
         \A d \in Conns : conn'[d].fd => conn[d].fd /\ conn'[d].id = conn[d].id,
         \A d \in Conns : conn'[d].id <= connId, ~conn'[c].fd, connId' = connId
  PROVE  Told' /\ notices' \in Seq(Conns \X (0 .. MaxIds))
<1> DEFINE S == Conns \X (0 .. MaxIds)
           x == <<c, conn[c].id>>
<1>1. notices \in Seq(S) /\ x \in S
    BY BlocksTyped, UserVars DEF Block
<1> PICK n \in Nat : n = Len(notices)
    BY LenProperties
<1>2. DOMAIN notices = 1 .. n
    BY <1>1, LenProperties
<1>3. /\ notices' \in Seq(S) /\ Len(notices') = n + 1 /\ notices'[n + 1] = x
      /\ \A i \in 1 .. n : notices'[i] = notices[i]
    <2>1. notices' = Append(notices, x)
        OBVIOUS
    <2> HIDE DEF S, x
    <2>2. /\ Append(notices, x) \in Seq(S) /\ Len(Append(notices, x)) = Len(notices) + 1
          /\ \A i \in 1 .. Len(notices) : Append(notices, x)[i] = notices[i]
          /\ Append(notices, x)[Len(notices) + 1] = x
        BY <1>1, AppendProperties
    <2> QED
        BY <2>1, <2>2
<1>4. DOMAIN notices' = 1 .. n + 1
    BY <1>3, LenProperties
<1>5. \A i \in 1 .. n : notices[i] # x /\ notices[i] \in S /\ notices[i][1] \in Conns
    <2>1. \A i \in 1 .. n : notices[i] \in S
        BY <1>1, LenProperties
    <2> QED
        BY <1>2, <2>1 DEF LifeInv, Told
<1>6. \A i, j \in DOMAIN notices' : notices'[i] = notices'[j] => i = j
    <2> SUFFICES ASSUME NEW i \in 1 .. n + 1, NEW j \in 1 .. n + 1, notices'[i] = notices'[j] PROVE i = j
        BY <1>4
    <2>1. CASE i = n + 1 /\ j = n + 1
        BY <2>1
    <2>2. CASE i \in 1 .. n /\ j \in 1 .. n
        <3>1. notices'[i] = notices[i] /\ notices'[j] = notices[j] /\ i \in DOMAIN notices /\ j \in DOMAIN notices
            BY <1>2, <1>3, <2>2
        <3>2. \A k, l \in DOMAIN notices : notices[k] = notices[l] => k = l
            BY DEF LifeInv, Told
        <3> QED
            BY <3>1, <3>2
    <2>3. CASE i = n + 1 /\ j \in 1 .. n
        BY <1>3, <1>5, <2>3
    <2>4. CASE i \in 1 .. n /\ j = n + 1
        BY <1>3, <1>5, <2>4
    <2> QED
        BY <2>1, <2>2, <2>3, <2>4
<1>7. ASSUME NEW i \in DOMAIN notices'
      PROVE  notices'[i][2] <= connId /\ (conn'[notices'[i][1]].id = notices'[i][2] => ~conn'[notices'[i][1]].fd)
    <2>1. CASE i = n + 1
        <3>1. notices'[i][1] = c /\ notices'[i][2] = conn[c].id /\ conn[c].id <= connId
            BY <1>3, <2>1 DEF LifeInv, Told
        <3> QED
            BY <3>1
    <2>2. CASE i \in 1 .. n
        <3>1. notices'[i] = notices[i] /\ notices[i][1] \in Conns
            BY <1>3, <1>5, <2>2
        <3>2. notices[i][2] <= connId /\ (conn[notices[i][1]].id = notices[i][2] => ~conn[notices[i][1]].fd)
            BY <1>2, <2>2 DEF LifeInv, Told
        <3> QED
            BY <3>1, <3>2
    <2> QED
        BY <1>4, <2>1, <2>2
<1>8. Told'
    BY <1>6, <1>7 DEF Told
<1> QED
    BY <1>3, <1>8

\* closeConnect takes the socket from the connection and tells of it.
LEMMA CloseStep == ASSUME LifeInv, Close PROVE LifeInv'
<1>1. ct.pc = "close" /\ KeepUser /\ UNCHANGED <<connectMap, msgList, connId>>
    BY DEF Close
<1>2. ct.on \in connectMap /\ ct.on \in Conns /\ conn[ct.on].fd /\ conn[ct.on] \in Block
    BY <1>1, BlocksTyped DEF LifeInv, CtReady, CtPlaces
<1> PICK w \in LastFlush(ct.on) :
      conn' = [conn EXCEPT ![ct.on].fd = FALSE, ![ct.on].connStatus = "closed", ![ct.on].writeBuff = w]
    BY DEF Close
<1> DEFINE r == [conn[ct.on] EXCEPT !.fd = FALSE, !.connStatus = "closed", !.writeBuff = w]
<1>3. conn' = [conn EXCEPT ![ct.on] = r]
    BY <1>2, BlocksTyped
<1>4. w \in {"none", "empty", "data"}
    BY <1>2 DEF LastFlush, Flushed, Block
<1>5. r \in Block /\ Gentle(conn[ct.on], r) /\ r.times = conn[ct.on].times /\ ~r.fd
    BY <1>2, <1>4 DEF Block, Gentle
<1> HIDE DEF r
<1>6. CtRec(ct') /\ ct'.todo = ct.todo /\ ct'.pc = "decide" /\ ct'.on = ct.on
    BY CtMoves DEF Close, CtPlaces
<1>7. conn' \in [Conns -> Block] /\ \A d \in Conns : conn'[d] = IF d = ct.on THEN r ELSE conn[d]
    BY <1>3, <1>5, BlocksTyped
<1>8. \A d \in Conns : Gentle(conn[d], conn'[d]) /\ (conn'[d].times > 0 <=> conn[d].times > 0)
    BY <1>5, <1>7, BlocksTyped
<1>9. ListAgrees'
    BY <1>1, <1>8, ListKept
<1>10. CtReady'
    BY <1>1, <1>2, <1>6, NoSweep DEF CtReady, CtPlaces
<1>11. Told' /\ notices' \in Seq(Conns \X (0 .. MaxIds))
    <2>1. CASE notices' = notices
        <3>1. \A d \in Conns \ connectMap : conn'[d] = conn[d]
            BY <1>2, <1>7
        <3> QED
            BY <1>1, <1>7, <1>8, <1>9, <2>1, <3>1, DataKept, UserVars
    <2>2. CASE notices' = Append(notices, <<ct.on, conn[ct.on].id>>)
        <3>1. \A d \in Conns : (conn'[d].fd => conn[d].fd /\ conn'[d].id = conn[d].id) /\ conn'[d].id <= connId
            BY <1>8 DEF LifeInv, Told, Gentle
        <3>2. ~conn'[ct.on].fd
            BY <1>2, <1>5, <1>7
        <3> QED
            BY <1>1, <1>2, <2>2, <3>1, <3>2, Noticing
    <2> QED
        BY <2>1, <2>2 DEF Close
<1>12. DataIsQueued' /\ Blank'
    <2>1. DataIsQueued'
        <3> SUFFICES ASSUME NEW c \in connectMap, conn'[c].data, conn'[c].connStatus = "normal"
                     PROVE  conn'[c].times > 0
            BY <1>1, <1>9, BlocksTyped DEF DataIsQueued, ListAgrees
        <3>1. c \in Conns
            BY BlocksTyped
        <3> QED
            BY <1>8, <3>1 DEF LifeInv, DataIsQueued, Gentle
    <2>2. Blank'
        BY <1>1, <1>2, <1>7 DEF LifeInv, Blank
    <2> QED
        BY <2>1, <2>2
<1>13. Typed'
    BY <1>1, <1>6, <1>7, <1>11, BlocksTyped, CtTyped, CtVars, UserVars DEF KeepUser
<1>14. UserReady' /\ WalkStays'
    BY <1>1, UserKept DEF KeepUser
<1> QED
    BY <1>9, <1>10, <1>11, <1>12, <1>13, <1>14 DEF LifeInv

\* closeConnect decides what is to happen to the closed connection.
LEMMA DecideStep == ASSUME LifeInv, Decide PROVE LifeInv'
<1>1. ct.pc = "decide" /\ KeepUser /\ UNCHANGED <<connectMap, msgList, connId, notices>>
    BY DEF Decide
<1>2. ct.on \in connectMap /\ ct.on \in Conns /\ conn[ct.on] \in Block /\ conn[ct.on].times \in Nat
    BY <1>1, BlocksTyped, ListedOrNot DEF LifeInv, CtReady, CtPlaces
<1>3. CASE conn[ct.on].times > 0 /\ conn' = [conn EXCEPT ![ct.on].times = 1] /\ Events
    <2> DEFINE r == [conn[ct.on] EXCEPT !.times = 1]
    <2>1. conn' = [conn EXCEPT ![ct.on] = r]
        BY <1>3
    <2>2. r \in Block /\ Mild(conn[ct.on], r) /\ r.times > 0
        BY <1>2, <1>3, CheckTimesAssumption DEF Block, Mild, Gentle
    <2> HIDE DEF r
    <2>3. \A d \in Conns : conn'[d].times > 0 <=> conn[d].times > 0
        BY <1>2, <1>3, <2>1, <2>2, BlocksTyped
    <2>4. ListAgrees'
        BY <1>1, <2>3, ListKept
    <2>5. CtRec(ct') /\ ct'.todo = ct.todo /\ ct'.pc = "events"
        BY <1>3, CtMoves DEF CtPlaces
    <2>6. CtReady'
        BY <1>1, <2>5, NoSweep DEF CtReady, CtPlaces
    <2> QED
        BY <1>1, <1>2, <2>1, <2>2, <2>4, <2>5, <2>6, GentleStep DEF Mild
<1>4. CASE UNCHANGED conn /\ (Events \/ (Go("forget")) \/ (conn[ct.on].times = 0 /\ Go("insertClosed")))
    <2>1. ListAgrees'
        BY <1>1, <1>4, ListKept
    <2>2. /\ CtRec(ct') /\ ct'.todo = ct.todo
          /\ \/ ct'.pc = "events"
             \/ ct'.pc = "forget" /\ ct'.on = ct.on
             \/ ct'.pc = "insertClosed" /\ ct'.on = ct.on /\ conn[ct.on].times = 0
        BY <1>4, CtMoves DEF CtPlaces
    <2>3. user'.pc # "granted"
        BY <1>1, <2>2, NoSweep
    <2>4. conn[ct.on].times = 0 => ~Listed(ct.on)
        BY <1>1, <1>2, ListedOrNot
    <2>5. CtReady'
        BY <1>1, <1>2, <1>4, <2>2, <2>3, <2>4 DEF CtReady, CtPlaces, Listed
    <2> QED
        BY <1>1, <1>4, <2>1, <2>2, <2>5, IdleStep
<1> QED
    BY <1>2, <1>3, <1>4 DEF Decide

\* closeConnect lets a connection be deleted that has nothing left.
LEMMA ForgetStep == ASSUME LifeInv, Forget PROVE LifeInv'
<1> DEFINE r == [conn[ct.on] EXCEPT !.logicStatus = "deleted"]
<1>1. /\ ct.pc = "forget" /\ KeepUser /\ UNCHANGED <<connectMap, msgList, connId, notices>>
      /\ conn' = [conn EXCEPT ![ct.on] = r]
    BY DEF Forget
<1>2. ct.on \in connectMap /\ ct.on \in Conns /\ conn[ct.on] \in Block
    BY <1>1, BlocksTyped DEF LifeInv, CtReady, CtPlaces
<1>3. r \in Block /\ Mild(conn[ct.on], r)
    BY <1>2 DEF Block, Mild, Gentle
<1> HIDE DEF r
<1>4. \A d \in Conns : conn'[d].times > 0 <=> conn[d].times > 0
    BY <1>1, <1>2, <1>3, BlocksTyped DEF Mild, Gentle
<1>5. ListAgrees'
    BY <1>1, <1>4, ListKept
<1>6. CtRec(ct') /\ ct'.todo = ct.todo /\ ct'.pc = "events"
    BY CtMoves DEF Forget, CtPlaces
<1>7. CtReady'
    BY <1>1, <1>6, NoSweep DEF CtReady, CtPlaces
<1> QED
    BY <1>1, <1>2, <1>3, <1>5, <1>6, <1>7, GentleStep DEF Mild

\* The connection thread asks for a sweep.
LEMMA AskStep == ASSUME LifeInv, Ask PROVE LifeInv'
<1>1. ct.pc = "events" /\ KeepUser /\ UNCHANGED <<conn, connectMap, msgList, connId, notices>>
    BY DEF Ask
<1>2. CtRec(ct') /\ ct'.todo = ct.todo /\ ct'.pc = "ask"
    BY CtMoves DEF Ask, CtPlaces
<1>3. ListAgrees'
    BY <1>1, ListKept
<1>4. CtReady'
    BY <1>1, <1>2, NoSweep DEF CtReady, CtPlaces
<1> QED
    BY <1>1, <1>2, <1>3, <1>4, IdleStep

\* A block is used for a new connection, with an id that no notice has.
LEMMA AcceptStep == ASSUME LifeInv, NEW c \in Conns, Accept(c) PROVE LifeInv'
<1>1. /\ ct.pc = "events" /\ c \notin connectMap /\ connId < MaxIds /\ connId' = connId + 1
      /\ conn' = [conn EXCEPT ![c] = Fresh(connId + 1)] /\ connectMap' = connectMap \cup {c}
      /\ KeepUser /\ UNCHANGED <<msgList, ct, notices>>
    BY DEF Accept
<1> DEFINE r == Fresh(connId + 1)
<1>2. connId + 1 \in 0 .. MaxIds /\ connId \in Nat
    BY <1>1, CtVars
<1>3. r \in Block /\ r.id = connId + 1 /\ r.fd /\ r.times = 0 /\ ~r.data
    <2>1. 0 \in 0 .. (CheckTimes + 1)
        BY CheckTimesAssumption
    <2> QED
        BY <1>2, <2>1 DEF Fresh, Block
<1>4. conn' = [conn EXCEPT ![c] = r]
    BY <1>1
<1> HIDE DEF r
<1>5. conn' \in [Conns -> Block] /\ \A d \in Conns : conn'[d] = IF d = c THEN r ELSE conn[d]
    BY <1>3, <1>4, BlocksTyped
<1>6. ~Listed(c) /\ connectMap \subseteq Conns
    BY <1>1, BlocksTyped DEF Listed
<1>7. ListAgrees'
    <2>1. ASSUME NEW d \in Conns
          PROVE IF conn'[d].times > 0 THEN Listed(d) ELSE ~Listed(d)
        <3>1. CASE d = c
            BY <1>3, <1>5, <1>6, <3>1
        <3>2. CASE d # c
            BY <1>1, <1>5, <3>2, ListedOrNot
        <3> QED
            BY <3>1, <3>2
    <2> QED
        BY <1>1, <2>1 DEF LifeInv, ListAgrees, Listed
<1>8. CtReady'
    BY <1>1 DEF LifeInv, CtReady, CtPlaces, KeepUser
<1>9. DataIsQueued'
    <2> SUFFICES ASSUME NEW d \in connectMap', conn'[d].data, conn'[d].connStatus = "normal"
                 PROVE  conn'[d].times > 0 /\ Listed(d)
        BY <1>1 DEF DataIsQueued, Listed
    <2>1. d \in connectMap /\ d # c /\ d \in Conns
        BY <1>1, <1>3, <1>5, <1>6
    <2> QED
        BY <1>5, <2>1 DEF LifeInv, DataIsQueued
<1>10. Blank'
    BY <1>1, <1>5 DEF LifeInv, Blank
<1>11. Told'
    <2>1. \A d \in Conns : conn'[d].id <= connId'
        <3>1. \A d \in Conns : conn[d].id \in Nat
            BY BlocksTyped, MaxIdsAssumption DEF Block
        <3> QED
            BY <1>1, <1>2, <1>3, <1>5, <3>1 DEF LifeInv, Told
    <2>2. ASSUME NEW i \in DOMAIN notices
          PROVE  notices[i][2] <= connId' /\ (conn'[notices[i][1]].id = notices[i][2] => ~conn'[notices[i][1]].fd)
        <3>1. notices[i] \in Conns \X (0 .. MaxIds)
            BY UserVars, LenProperties
        <3>2. notices[i][1] \in Conns /\ notices[i][2] \in Nat
            BY <3>1, MaxIdsAssumption
        <3>3. notices[i][2] <= connId /\ (conn[notices[i][1]].id = notices[i][2] => ~conn[notices[i][1]].fd)
            BY DEF LifeInv, Told
        <3>4. connId' = connId + 1 /\ notices[i][2] <= connId' /\ notices[i][2] # connId + 1
            BY <1>1, <1>2, <3>2, <3>3
        <3>5. conn'[notices[i][1]].id = notices[i][2] => conn'[notices[i][1]] = conn[notices[i][1]]
            BY <1>3, <1>5, <3>2, <3>4
        <3> QED
            BY <3>3, <3>4, <3>5
    <2> QED
        BY <1>1, <2>1, <2>2 DEF LifeInv, Told
<1>12. Typed'
    BY <1>1, <1>2, <1>5, <1>6, CtTyped, CtVars, UserVars DEF KeepUser
<1>13. UserReady' /\ WalkStays'
    BY <1>1, UserKept DEF KeepUser
<1> QED
    BY <1>7, <1>8, <1>9, <1>10, <1>11, <1>12, <1>13 DEF LifeInv

-------------------------------------------------------------------------------
\* What the sweep of one connection makes of the list: as it was, with the connection linked in
\* front of it, or without the connection.
SweptList(c, r) == \/ msgList' = msgList /\ (r.times > 0 <=> conn[c].times > 0)
                   \/ msgList' = <<c>> \o msgList /\ conn[c].times = 0 /\ r.times > 0
                   \/ msgList' = Unlinked(c) /\ r.times = 0
\* And of the connection: still in use, or destroyed.
SweptMap(c, r) == \/ connectMap' = connectMap
                  \/ connectMap' = connectMap \ {c} /\ r = Destroyed /\ msgList' = Unlinked(c)
\* And of the notices: one more if it closed the socket.
SweptNotices(c, r) == \/ notices' = notices
                      \/ notices' = Append(notices, <<c, conn[c].id>>) /\ conn[c].fd /\ ~r.fd
\* A connection keeps its id while it has a socket, and its data are queued.
SweptBlock(c, r) == /\ (r.fd => conn[c].fd /\ r.id = conn[c].id) /\ r.id \in {conn[c].id, 0}
                    /\ (r.data /\ r.connStatus = "normal" => r.times > 0)

\* The sweep of one connection keeps all that holds of the others.
LEMMA SweepOne ==
  ASSUME LifeInv, NEW c \in ct.todo, ct.pc = "sweep", ct' = [ct EXCEPT !.todo = @ \ {c}], KeepUser, connId' = connId,
         NEW r \in Block, conn' = [conn EXCEPT ![c] = r],
         SweptList(c, r), SweptMap(c, r), SweptNotices(c, r), SweptBlock(c, r)
  PROVE  LifeInv'
<1>1. c \in connectMap /\ c \in Conns /\ connectMap \subseteq Conns
    BY BlocksTyped, CtVars
<1>2. conn' \in [Conns -> Block] /\ \A d \in Conns : conn'[d] = IF d = c THEN r ELSE conn[d]
    BY <1>1, BlocksTyped
<1>3. CtRec(ct') /\ ct'.pc = "sweep" /\ ct'.todo = ct.todo \ {c} /\ ct'.on = ct.on
    BY CtVars DEF CtRec
<1>4. user.pc = "granted" /\ user.begin = NULL
    BY DEF LifeInv, CtReady, UserReady, Walking
<1>5. /\ msgList' \in Seq(Conns) /\ IsInjective(msgList') /\ Range(msgList') \subseteq connectMap'
      /\ \A d \in Conns : IF conn'[d].times > 0 THEN d \in Range(msgList') ELSE d \notin Range(msgList')
    <2>1. msgList \in Seq(Conns) /\ IsInjective(msgList) /\ Range(msgList) \subseteq connectMap
        BY UserVars DEF LifeInv, ListAgrees
    <2>2. \A d \in Conns : IF conn[d].times > 0 THEN d \in Range(msgList) ELSE d \notin Range(msgList)
        BY ListedOrNot DEF Listed
    <2>3. CASE msgList' = msgList /\ (r.times > 0 <=> conn[c].times > 0) /\ connectMap' = connectMap
        BY <1>1, <1>2, <2>1, <2>2, <2>3
    <2>4. CASE msgList' = <<c>> \o msgList /\ conn[c].times = 0 /\ r.times > 0 /\ connectMap' = connectMap
        <3>1. ~Listed(c)
            BY <1>1, <2>2, <2>4 DEF Listed
        <3>2. msgList' \in Seq(Conns) /\ IsInjective(msgList') /\ Range(msgList') = Range(msgList) \cup {c}
            BY <1>1, <2>1, <2>4, <3>1, Linking
        <3> QED
            BY <1>1, <1>2, <2>1, <2>2, <2>4, <3>2
    <2>5. CASE msgList' = Unlinked(c) /\ r.times = 0 /\ (connectMap' = connectMap \/ connectMap' = connectMap \ {c})
        <3>1. msgList' \in Seq(Conns) /\ IsInjective(msgList') /\ Range(msgList') = Range(msgList) \ {c}
            BY <2>1, <2>5, Unlinking
        <3> QED
            BY <1>1, <1>2, <2>1, <2>2, <2>5, <3>1
    <2>6. SweptMap(c, r) => connectMap' = connectMap \/ (connectMap' = connectMap \ {c} /\ msgList' = Unlinked(c) /\ r.times = 0)
        BY DestroyedIs DEF SweptMap
    <2> QED
        BY <2>3, <2>4, <2>5, <2>6 DEF SweptList
<1>6. ListAgrees'
    BY <1>5 DEF ListAgrees, Listed
<1>7. CtReady'
    BY <1>3, <1>4 DEF CtReady, KeepUser, CtPlaces
<1>8. UserReady' /\ WalkStays'
    BY <1>4 DEF UserReady, Walking, WalkStays, KeepUser
<1>9. connectMap' \subseteq connectMap /\ connectMap \ {c} \subseteq connectMap'
    BY DEF SweptMap
<1>10. DataIsQueued'
    <2> SUFFICES ASSUME NEW d \in connectMap', conn'[d].data, conn'[d].connStatus = "normal"
                 PROVE  conn'[d].times > 0
        BY <1>1, <1>5, <1>9 DEF DataIsQueued, Listed
    <2>1. d \in connectMap /\ d \in Conns
        BY <1>1, <1>9
    <2> QED
        BY <1>2, <2>1 DEF LifeInv, DataIsQueued, SweptBlock
<1>11. Blank'
    BY <1>1, <1>2 DEF LifeInv, Blank, SweptMap
<1>12. Told' /\ notices' \in Seq(Conns \X (0 .. MaxIds))
    <2>1. \A d \in Conns : (conn'[d].fd => conn[d].fd /\ conn'[d].id = conn[d].id) /\ conn'[d].id <= connId
        <3>1. conn[c].id <= connId /\ 0 <= connId
            BY <1>1, CtVars DEF LifeInv, Told
        <3> QED
            BY <1>2, <3>1 DEF LifeInv, Told, SweptBlock
    <2>2. CASE notices' = notices
        <3>1. ASSUME NEW i \in DOMAIN notices
              PROVE  notices[i][2] <= connId /\ (conn'[notices[i][1]].id = notices[i][2] => ~conn'[notices[i][1]].fd)
            <4>1. notices[i] \in Conns \X (0 .. MaxIds)
                BY UserVars, LenProperties
            <4>2. notices[i][1] \in Conns
                BY <4>1
            <4> QED
                BY <2>1, <4>2 DEF LifeInv, Told
        <3> QED
            BY <2>1, <2>2, <3>1, UserVars DEF LifeInv, Told
    <2>3. CASE notices' = Append(notices, <<c, conn[c].id>>) /\ conn[c].fd /\ ~r.fd
        BY <1>1, <1>2, <2>1, <2>3, Noticing
    <2> QED
        BY <2>2, <2>3 DEF SweptNotices
<1>13. Typed'
    <2>1. ct'.todo \subseteq connectMap'
        BY <1>3, <1>9, CtVars
    <2> QED
        BY <1>1, <1>2, <1>3, <1>5, <1>9, <1>12, <2>1, CtTyped, CtVars, UserVars DEF KeepUser
<1> QED
    BY <1>6, <1>7, <1>8, <1>10, <1>11, <1>12, <1>13 DEF LifeInv

\* What closeConnect makes of a connection in a sweep, where the user can't intervene.
LEMMA Shutting ==
  ASSUME LifeInv, NEW c \in connectMap, ct.pc = "sweep", NEW w \in {"none", "empty", "data"}, notices' = ShutNotices(c)
  PROVE  /\ Shut(c, w) \in Block /\ SweptNotices(c, Shut(c, w)) /\ ~Shut(c, w).fd
         /\ SweptBlock(c, Shut(c, w))
         /\ msgList' = ShutList(c, w) => SweptList(c, Shut(c, w))
<1>1. c \in Conns /\ conn[c] \in Block /\ conn[c].times \in Nat
    BY BlocksTyped, ListedOrNot
<1>2. CASE ~conn[c].fd
    <2>1. Shut(c, w) = conn[c] /\ notices' = notices /\ ShutList(c, w) = msgList
        BY <1>2 DEF Shut, ShutNotices, ShutList
    <2>2. conn[c].data /\ conn[c].connStatus = "normal" => conn[c].times > 0
        BY DEF LifeInv, DataIsQueued
    <2> QED
        BY <1>1, <1>2, <2>1, <2>2 DEF SweptNotices, SweptBlock, SweptList
<1>3. CASE conn[c].fd
    <2> DEFINE s == Shut(c, w)
    <2>1. s = [conn[c] EXCEPT !.fd = FALSE, !.connStatus = "closed", !.writeBuff = w,
                              !.times = IF w # "none" THEN 1 ELSE conn[c].times,
                              !.logicStatus = IF w = "none" /\ conn[c].times = 0 THEN "deleted" ELSE conn[c].logicStatus]
        BY <1>1, <1>3 DEF Shut, Block
    <2>2. 1 \in 0 .. (CheckTimes + 1)
        BY CheckTimesAssumption
    <2>3. /\ s \in Block /\ ~s.fd /\ s.connStatus = "closed" /\ s.id = conn[c].id
          /\ s.times = IF w # "none" THEN 1 ELSE conn[c].times
        BY <1>1, <2>1, <2>2 DEF Block
    <2> HIDE DEF s
    <2>4. SweptNotices(c, s)
        BY <1>3, <2>3 DEF SweptNotices, ShutNotices
    <2>5. SweptBlock(c, s)
        BY <2>3 DEF SweptBlock
    <2>6. msgList' = ShutList(c, w) => SweptList(c, s)
        BY <1>1, <1>3, <2>3 DEF SweptList, ShutList
    <2> QED
        BY <2>3, <2>4, <2>5, <2>6 DEF s
<1> QED
    BY <1>2, <1>3

\* What a flush leaves of the bytes is the state of a write buffer.
LEMMA Flushing ==
  ASSUME LifeInv, NEW c \in Conns
  PROVE  Flushed(c) \subseteq {"none", "empty", "data"} /\ LastFlush(c) \subseteq {"none", "empty", "data"}
<1>1. conn[c].writeBuff \in {"none", "empty", "data"}
    <2>1. conn[c] \in Block
        BY BlocksTyped
    <2> QED
        BY <2>1 DEF Block
<1>2. Flushed(c) \subseteq {"none", "empty", "data"}
    BY <1>1 DEF Flushed
<1> QED
    BY <1>1, <1>2 DEF LastFlush

\* A connection the user gave up is closed, and destroyed once nothing of it is left.
LEMMA GivenUpStep ==
  ASSUME LifeInv, NEW c \in ct.todo, ct.pc = "sweep", ct' = [ct EXCEPT !.todo = @ \ {c}], KeepUser, connId' = connId,
         SweepGivenUp(c)
  PROVE  LifeInv'
<1>1. c \in connectMap /\ c \in Conns /\ conn[c] \in Block
    BY BlocksTyped, CtVars
<1> PICK w \in LastFlush(c) :
      IF Shut(c, w).logicStatus = "deleted" /\ Shut(c, w).writeBuff = "none"
        THEN conn' = [conn EXCEPT ![c] = Destroyed] /\ msgList' = Unlinked(c) /\ connectMap' = connectMap \ {c}
        ELSE conn' = [conn EXCEPT ![c] = Shut(c, w)] /\ msgList' = ShutList(c, w) /\ UNCHANGED connectMap
    BY DEF SweepGivenUp
<1>2. w \in {"none", "empty", "data"} /\ notices' = ShutNotices(c)
    BY <1>1, Flushing DEF SweepGivenUp
<1> DEFINE s == Shut(c, w)
<1>3. /\ s \in Block /\ SweptNotices(c, s) /\ ~s.fd /\ SweptBlock(c, s)
      /\ msgList' = ShutList(c, w) => SweptList(c, s)
    BY <1>1, <1>2, Shutting
<1>4. CASE conn' = [conn EXCEPT ![c] = Destroyed] /\ msgList' = Unlinked(c) /\ connectMap' = connectMap \ {c}
    <2>1. SweptList(c, Destroyed) /\ SweptMap(c, Destroyed) /\ SweptBlock(c, Destroyed)
        BY <1>4, DestroyedIs DEF SweptList, SweptMap, SweptBlock
    <2>2. SweptNotices(c, Destroyed)
        BY <1>3, DestroyedIs DEF SweptNotices
    <2> QED
        BY <1>4, <2>1, <2>2, DestroyedIs, SweepOne
<1>5. CASE conn' = [conn EXCEPT ![c] = s] /\ msgList' = ShutList(c, w) /\ UNCHANGED connectMap
    <2>1. SweptList(c, s) /\ SweptMap(c, s)
        BY <1>3, <1>5 DEF SweptMap
    <2> HIDE DEF s
    <2> QED
        BY <1>3, <1>5, <2>1, SweepOne
<1> QED
    BY <1>4, <1>5

\* A connection that is evicted is closed.
LEMMA EvictStep ==
  ASSUME LifeInv, NEW c \in ct.todo, ct.pc = "sweep", ct' = [ct EXCEPT !.todo = @ \ {c}], KeepUser, connId' = connId,
         SweepEvict(c)
  PROVE  LifeInv'
<1>1. c \in connectMap /\ c \in Conns
    BY BlocksTyped, CtVars
<1> PICK w \in Flushed(c) : conn' = [conn EXCEPT ![c] = Shut(c, w)] /\ msgList' = ShutList(c, w)
    BY DEF SweepEvict
<1>2. w \in {"none", "empty", "data"} /\ notices' = ShutNotices(c) /\ connectMap' = connectMap
    BY <1>1, Flushing DEF SweepEvict
<1> DEFINE s == Shut(c, w)
<1>3. s \in Block /\ SweptNotices(c, s) /\ SweptBlock(c, s) /\ SweptList(c, s) /\ SweptMap(c, s)
    BY <1>1, <1>2, Shutting DEF SweptMap
<1> HIDE DEF s
<1>4. conn' = [conn EXCEPT ![c] = s]
    BY DEF s
<1> QED
    BY <1>3, <1>4, SweepOne

\* A connection that is kept ages in the list, and leaves it only when it has no data.
LEMMA KeepStep ==
  ASSUME LifeInv, NEW c \in ct.todo, ct.pc = "sweep", ct' = [ct EXCEPT !.todo = @ \ {c}], KeepUser, connId' = connId,
         SweepKeep(c)
  PROVE  LifeInv'
<1>1. c \in connectMap /\ c \in Conns /\ conn[c] \in Block /\ conn[c].times \in Nat /\ conn[c].connStatus = "normal"
    BY BlocksTyped, CtVars, ListedOrNot DEF SweepKeep, Normal
<1>2. connectMap' = connectMap /\ notices' = notices
    BY DEF SweepKeep
<1> DEFINE Same(r) == r \in Block /\ r.id = conn[c].id /\ r.fd = conn[c].fd /\ r.times = conn[c].times
                      /\ r.data = conn[c].data
<1>3. \A r \in Backlog(c) : Same(r)
    <2>1. \A w \in {"none", "empty", "data"} : Same([conn[c] EXCEPT !.writeBuff = w])
        BY <1>1 DEF Block
    <2>2. Same([conn[c] EXCEPT !.connStatus = "closed"])
        BY <1>1 DEF Block
    <2> HIDE DEF Same
    <2> QED
        BY <1>1, <2>1, <2>2, Flushing DEF Backlog
<1>4. \A r \in Backlog(c) : \A h \in {r} \cup Heartbeat(r) : Same(h)
    <2> SUFFICES ASSUME NEW r \in Backlog(c), NEW h \in Heartbeat(r) PROVE Same(h)
        BY <1>3
    <2>1. Same(r)
        BY <1>3
    <2>2. h = [r EXCEPT !.writeBuff = "data"] \/ h = [r EXCEPT !.connStatus = "closed"]
        BY DEF Heartbeat
    <2> QED
        BY <2>1, <2>2 DEF Block
<1>5. conn[c].data => conn[c].times > 0
    BY <1>1 DEF LifeInv, DataIsQueued
<1> PICK r \in Backlog(c) :
     \/ /\ r.data
        /\ conn' = [conn EXCEPT ![c] = r] /\ UNCHANGED msgList
     \/ /\ ~r.data /\ r.times > CheckTimes
        /\ conn' = [conn EXCEPT ![c] = [r EXCEPT !.times = 0]]
        /\ msgList' = Unlinked(c)
     \/ /\ ~r.data /\ r.times \in 1..CheckTimes
        /\ conn' = [conn EXCEPT ![c] = [r EXCEPT !.times = @ + 1]] /\ UNCHANGED msgList
     \/ /\ ~r.data /\ r.times = 0
        /\ \E h \in {r} \union Heartbeat(r) : conn' = [conn EXCEPT ![c] = h]
        /\ UNCHANGED msgList
    BY DEF SweepKeep
<1>6. Same(r)
    BY <1>3
<1>7. ASSUME NEW s \in Block, s.id = conn[c].id, s.fd = conn[c].fd, s.data => s.times > 0, SweptList(c, s),
             conn' = [conn EXCEPT ![c] = s]
      PROVE  LifeInv'
    <2>1. SweptMap(c, s) /\ SweptNotices(c, s) /\ SweptBlock(c, s)
        BY <1>2, <1>7 DEF SweptMap, SweptNotices, SweptBlock
    <2> QED
        BY <1>7, <2>1, SweepOne
<1>8. CASE r.data /\ conn' = [conn EXCEPT ![c] = r] /\ UNCHANGED msgList
    <2>1. SweptList(c, r)
        BY <1>6, <1>8 DEF SweptList
    <2> QED
        BY <1>5, <1>6, <1>7, <1>8, <2>1
<1>9. CASE ~r.data /\ conn' = [conn EXCEPT ![c] = [r EXCEPT !.times = 0]] /\ msgList' = Unlinked(c)
    <2> DEFINE s == [r EXCEPT !.times = 0]
    <2>1. 0 \in 0 .. (CheckTimes + 1)
        BY CheckTimesAssumption
    <2>2. s \in Block /\ s.id = conn[c].id /\ s.fd = conn[c].fd /\ s.times = 0 /\ ~s.data
        BY <1>6, <1>9, <2>1 DEF Block
    <2>3. conn' = [conn EXCEPT ![c] = s]
        BY <1>9
    <2> HIDE DEF s
    <2>4. SweptList(c, s)
        BY <1>9, <2>2 DEF SweptList
    <2> QED
        BY <1>7, <2>2, <2>3, <2>4
<1>10. CASE ~r.data /\ r.times \in 1 .. CheckTimes /\ conn' = [conn EXCEPT ![c] = [r EXCEPT !.times = @ + 1]] /\ UNCHANGED msgList
    <2> DEFINE s == [r EXCEPT !.times = @ + 1]
    <2>1. r.times + 1 \in 0 .. (CheckTimes + 1) /\ r.times + 1 > 0 /\ r.times > 0
        BY <1>10, CheckTimesAssumption
    <2>2. s \in Block /\ s.id = conn[c].id /\ s.fd = conn[c].fd /\ s.times > 0 /\ ~s.data
        BY <1>6, <1>10, <2>1 DEF Block
    <2>3. conn' = [conn EXCEPT ![c] = s]
        BY <1>10
    <2> HIDE DEF s
    <2>4. SweptList(c, s)
        BY <1>6, <1>10, <2>1, <2>2 DEF SweptList
    <2> QED
        BY <1>7, <2>2, <2>3, <2>4
<1>11. CASE ~r.data /\ (\E h \in {r} \union Heartbeat(r) : conn' = [conn EXCEPT ![c] = h]) /\ UNCHANGED msgList
    <2> PICK h \in {r} \union Heartbeat(r) : conn' = [conn EXCEPT ![c] = h]
        BY <1>11
    <2>1. Same(h) /\ ~h.data
        BY <1>4, <1>6, <1>11
    <2>2. SweptList(c, h)
        BY <1>11, <2>1 DEF SweptList
    <2> QED
        BY <1>7, <2>1, <2>2
<1> QED
    BY <1>8, <1>9, <1>10, <1>11

\* A connection that is closed and not given up yet is left alone.
LEMMA ClosedStep ==
  ASSUME LifeInv, NEW c \in ct.todo, ct.pc = "sweep", ct' = [ct EXCEPT !.todo = @ \ {c}], KeepUser, connId' = connId,
         SweepClosed(c)
  PROVE  LifeInv'
<1>1. c \in connectMap /\ c \in Conns /\ conn[c] \in Block
    BY BlocksTyped, CtVars
<1>2. conn' = [conn EXCEPT ![c] = conn[c]] /\ UNCHANGED <<msgList, connectMap, notices>>
    BY <1>1, BlocksTyped DEF SweepClosed
<1>3. SweptList(c, conn[c]) /\ SweptMap(c, conn[c]) /\ SweptNotices(c, conn[c])
    BY <1>2 DEF SweptList, SweptMap, SweptNotices
<1>4. SweptBlock(c, conn[c])
    BY <1>1 DEF SweptBlock, LifeInv, DataIsQueued
<1> QED
    BY <1>1, <1>2, <1>3, <1>4, SweepOne

\* The sweep ends and the user goes on.
LEMMA SweepEndsStep == ASSUME LifeInv, SweepEnds PROVE LifeInv'
<1>1. /\ ct.pc = "sweep" /\ ct.todo = {} /\ Events /\ user' = [user EXCEPT !.pc = "get"]
      /\ UNCHANGED <<conn, connectMap, msgList, curConn, connId, held, notices>>
    BY DEF SweepEnds
<1>2. CtRec(ct') /\ ct'.pc = "events" /\ ct'.todo = ct.todo
    BY <1>1, CtMoves DEF CtPlaces
<1>3. user.begin = NULL
    BY <1>1 DEF LifeInv, CtReady, UserReady, Walking
<1>4. UserRec(user') /\ user'.pc = "get" /\ user'.begin = NULL
    BY <1>1, <1>3, UserVars DEF UserRec, UserPlaces
<1>5. ListAgrees'
    BY <1>1, ListKept
<1>6. CtReady'
    BY <1>2, <1>4 DEF CtReady, CtPlaces
<1>7. UserReady' /\ WalkStays'
    BY <1>4 DEF UserReady, Walking, WalkStays
<1>8. DataIsQueued' /\ Blank' /\ Told'
    BY <1>1 DEF LifeInv, DataIsQueued, Blank, Told, Listed
<1>9. Typed'
    BY <1>1, <1>2, <1>4, BlocksTyped, CtTyped, CtVars, UserVars
<1> QED
    BY <1>5, <1>6, <1>7, <1>8, <1>9 DEF LifeInv

-------------------------------------------------------------------------------
\* The program starts without connections.
LEMMA LifeInit == Init => LifeInv
<1> SUFFICES ASSUME Init PROVE LifeInv
    OBVIOUS
<1>1. /\ conn = [c \in Conns |-> Destroyed] /\ connectMap = {} /\ msgList = <<>> /\ curConn = NULL /\ connId = 0
      /\ ct = [pc |-> "events", on |-> NULL, todo |-> {}]
      /\ user = [pc |-> "skip", begin |-> NULL, on |-> NULL, ret |-> "skip"]
      /\ held = [c \in Conns |-> 0] /\ notices = <<>>
    BY DEF Init
<1>2. 0 \in 0 .. MaxIds
    BY MaxIdsAssumption
<1>3. conn \in [Conns -> Block] /\ \A c \in Conns : conn[c] = Destroyed
    BY <1>1, DestroyedIs
<1>4. \A S : <<>> \in Seq(S) /\ DOMAIN <<>> = {}
    BY LenProperties, EmptySeq
<1>5. Typed
    <2>1. TypeOK
        BY <1>1, <1>2, <1>3, <1>4 DEF TypeOK, Block
    <2> QED
        BY <1>1, <1>4, <2>1 DEF Typed, CtPlaces, UserPlaces
<1>6. ListAgrees
    <2>1. Range(msgList) = {} /\ IsInjective(msgList)
        BY <1>1, <1>4 DEF Range, IsInjective
    <2> QED
        BY <1>3, <2>1, DestroyedIs DEF ListAgrees, Listed
<1>7. CtReady /\ UserReady /\ WalkStays
    BY <1>1 DEF CtReady, UserReady, Walking, WalkStays, CtPlaces
<1>8. DataIsQueued /\ Blank
    BY <1>1, <1>3 DEF DataIsQueued, Blank
<1>9. Told
    BY <1>1, <1>3, <1>4, DestroyedIs DEF Told
<1> QED
    BY <1>5, <1>6, <1>7, <1>8, <1>9 DEF LifeInv

\* Every step of either thread keeps what both know.
LEMMA LifeNext == LifeInv /\ [Next]_vars => LifeInv'
<1> SUFFICES ASSUME LifeInv, [Next]_vars PROVE LifeInv'
    OBVIOUS
<1>1. ASSUME NEW c \in Conns, Event(c) PROVE LifeInv'
    BY <1>1, AcceptStep, ReadableStep, HangUpEvent, WritableStep DEF Event
<1>2. ASSUME NEW c \in Conns, Sweep(c) PROVE LifeInv'
    BY <1>2, GivenUpStep, EvictStep, KeepStep, ClosedStep DEF Sweep
<1>3. CASE Reading \/ Closing
    BY <1>3, InsertStep, CountStep, CommitStep, CloseStep, DecideStep, ForgetStep DEF Reading, Closing
<1>4. CASE Ask \/ SweepEnds
    BY <1>4, AskStep, SweepEndsStep
<1>5. CASE UserStep
    BY <1>5, UserKeepsLife
<1>6. CASE UNCHANGED vars
    BY <1>6 DEF vars, LifeInv, Typed, TypeOK, ListAgrees, CtReady, UserReady, Walking, WalkStays, DataIsQueued, Blank, Told, Listed
<1> QED
    BY <1>1, <1>2, <1>3, <1>4, <1>5, <1>6 DEF Next

\* What the two threads know of a connection is true at every step of theirs, whatever number of
\* connections there are (CConnectManager, CDataHandler::recv, send and close).
THEOREM LifeIsInvariant == Spec => []LifeInv
BY LifeInit, LifeNext, PTL DEF Spec

\* The list of message connections holds each connection in use at most once, checkSocketTimes
\* tells who is in it, and the user's walk stays in it, although the connection thread adds to the
\* list meanwhile and each sweep takes connections out of it (addToMsgQueue, handleConnect, run).
THEOREM ListIsSound == Spec => []ListSound
<1>1. LifeInv => ListSound
    BY DEF LifeInv, Typed, ListAgrees, ListSound, QueueSound, IsInjective
<1> QED
    BY <1>1, LifeIsInvariant, PTL

\* No data of a live connection are anywhere but in a connection of the list: the user finds them, and
\* its own call of addToMsgQueue never links anything in (CDataHandler::recv).
THEOREM DataAreQueued == Spec => []DataIsQueued
<1>1. LifeInv => DataIsQueued
    BY DEF LifeInv
<1> QED
    BY <1>1, LifeIsInvariant, PTL

\* A block goes back to the pool without a write buffer, and the service is told of a connection's
\* end at most once and only of its end (closeConnect, destroyConnect, onClosedConnect).
THEOREM EndsAreClean == Spec => []EndsClean
<1>1. LifeInv => EndsClean
    BY DestroyedIs DEF LifeInv, Blank, Told, EndsClean, BuffersReturned, ToldOnce
<1> QED
    BY <1>1, LifeIsInvariant, PTL
===============================================================================
