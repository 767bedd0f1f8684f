----------------------------- MODULE MCService_proofs -----------------------------
(***************************************************************************)
(* What the parts of a service promise, proved for every size of their     *)
(* queues and any number of requests, addresses, users, blocks and modules.*)
(* The connections that a service asks for: the chain that the connection  *)
(* thread follows is written into the blocks, and a block may be used      *)
(* again before the thread has read the link in it; ActiveInv says what    *)
(* the link is then.  The requests it sends by HTTP: ClientInv says where  *)
(* a block is.  Its life: LifeInv says what the thread has seen by the     *)
(* time the service goes on.                                               *)
(***************************************************************************)
EXTENDS MCService, FiniteSetTheorems, SequenceTheorems, TLAPS

-------------------------------------------------------------------------------
(* The connections that a service asks for.                                  *)

Block == [dest : Dests \cup {<<Bad, Bad>>}, next : Blocks \cup {None}, ok : BOOLEAN, request : 0 .. MaxRequests]
Thread == [pc : {"take", "look", "advance"}, cur : Blocks \cup {None}, ip : Addresses \cup {Bad}, chain : Seq(Blocks)]
Fates == {"none", "pending", "answered", "busy", "waits", "full", "left", "cut"}

\* The types of all variables.
Typed ==
  /\ free \in Seq(Blocks) /\ asked \in Seq(Blocks) /\ result \in Seq(Blocks)
  /\ block \in [Blocks -> Block] /\ ct \in Thread
  /\ login \in SUBSET [dest : Dests, cb : Blocks] /\ IsFiniteSet(login)
  /\ backoff \in SUBSET (Addresses \cup {Bad})
  /\ handling \in Blocks \cup {None} /\ requests \in 0 .. MaxRequests
  /\ fate \in [1 .. MaxRequests -> Fates]

\* The owners of blocks: the pool, the queue of requests, the chain, the queue of results, the
\* service's callback and the connections that are being opened.
InHand == {handling} \ {None}
Apart(F, A, C, R, H, W) ==
  /\ F \cap A = {} /\ F \cap C = {} /\ F \cap R = {} /\ F \cap H = {} /\ F \cap W = {}
  /\ A \cap C = {} /\ A \cap R = {} /\ A \cap H = {} /\ A \cap W = {}
  /\ C \cap R = {} /\ C \cap H = {} /\ C \cap W = {}
  /\ R \cap H = {} /\ R \cap W = {} /\ H \cap W = {}
OneOwner ==
  /\ IsInjective(free) /\ IsInjective(asked) /\ IsInjective(ToLookAt) /\ IsInjective(result)
  /\ \A l, m \in login : l.cb = m.cb => l = m
  /\ Apart(Range(free), Range(asked), Range(ToLookAt), Range(result), InHand, Waiting)

\* The links in the blocks are the chain, but for that of the block in hand when it has been sent back:
\* the service may have written the next request into it.
Second(s) == IF Len(s) > 1 THEN s[2] ELSE None
Linked ==
  /\ \A i \in 1 .. Len(ct.chain) : (i = 1 => ct.pc # "advance") =>
       block[ct.chain[i]].next = IF i < Len(ct.chain) THEN ct.chain[i + 1] ELSE None
  /\ ct.chain = <<>> => ct.pc = "take" /\ ct.cur = None
  /\ ct.chain # <<>> => ct.cur = Head(ct.chain)
  /\ ct.pc = "advance" => block[ct.cur].next \in {None, Second(ct.chain)}

\* What has still to be looked at is a request.
Asking == \A b \in Range(asked) \cup Range(ToLookAt) : block[b].dest \in Dests

ActiveInv == Typed /\ OneOwner /\ Linked /\ Asking /\ OneAttempt
-------------------------------------------------------------------------------
\* What a sequence of one element is.
LEMMA Single ==
  ASSUME NEW S, NEW b \in S
  PROVE  <<b>> \in Seq(S) /\ Range(<<b>>) = {b} /\ IsInjective(<<b>>) /\ <<b>> # <<>> /\ Len(<<b>>) = 1 /\ <<b>>[1] = b
<1>1. <<b>> \in Seq(S) /\ DOMAIN <<b>> = {1} /\ <<b>>[1] = b /\ Len(<<b>>) = 1
    OBVIOUS
<1> QED
    BY <1>1 DEF Range, IsInjective

\* Two sequences without an element in common.
LEMMA Joined ==
  ASSUME NEW S, NEW s \in Seq(S), NEW t \in Seq(S)
  PROVE  /\ s \o t \in Seq(S) /\ Range(s \o t) = Range(s) \cup Range(t)
         /\ IsInjective(s) /\ IsInjective(t) /\ Range(s) \cap Range(t) = {} => IsInjective(s \o t)
<1> PICK m \in Nat, n \in Nat : m = Len(s) /\ n = Len(t)
    BY LenProperties
<1> DEFINE u == s \o t
<1>1. /\ u \in Seq(S) /\ Len(u) = m + n
      /\ \A i \in 1 .. m : u[i] = s[i]
      /\ \A i \in m + 1 .. m + n : u[i] = t[i - m]
    BY ConcatProperties
<1>2. DOMAIN s = 1 .. m /\ DOMAIN t = 1 .. n /\ DOMAIN u = 1 .. m + n
    BY <1>1, LenProperties
<1> HIDE DEF u
<1>3. ASSUME NEW j \in 1 .. n PROVE j + m \in 1 .. m + n /\ u[j + m] = t[j]
    <2> PICK k \in m + 1 .. m + n : k = j + m
        OBVIOUS
    <2>1. k - m = j /\ k \in 1 .. m + n
        OBVIOUS
    <2>2. u[k] = t[k - m]
        BY <1>1
    <2> QED
        BY <2>1, <2>2
<1>4. ASSUME NEW i \in 1 .. m + n
      PROVE  (i \in 1 .. m /\ u[i] = s[i]) \/ (i - m \in 1 .. n /\ u[i] = t[i - m])
    <2>1. i \in 1 .. m \/ (i \in m + 1 .. m + n /\ i - m \in 1 .. n)
        OBVIOUS
    <2> QED
        BY <1>1, <2>1
<1>5. 1 .. m \subseteq 1 .. m + n
    OBVIOUS
<1>6. ASSUME NEW x PROVE /\ x \in Range(s) <=> \E i \in 1 .. m : s[i] = x
                         /\ x \in Range(t) <=> \E i \in 1 .. n : t[i] = x
                         /\ x \in Range(u) <=> \E i \in 1 .. m + n : u[i] = x
    BY <1>2 DEF Range
<1>7. Range(u) = Range(s) \cup Range(t)
    <2>1. ASSUME NEW x \in Range(s) PROVE x \in Range(u)
        BY <1>1, <1>5, <1>6
    <2>2. ASSUME NEW x \in Range(t) PROVE x \in Range(u)
        BY <1>3, <1>6
    <2>3. ASSUME NEW x \in Range(u) PROVE x \in Range(s) \cup Range(t)
        <3>1. PICK i \in 1 .. m + n : u[i] = x
            BY <1>6
        <3> QED
            BY <1>4, <1>6, <3>1
    <2> QED
        BY <2>1, <2>2, <2>3
<1>8. ASSUME IsInjective(s), IsInjective(t), Range(s) \cap Range(t) = {} PROVE IsInjective(u)
    <2>1. \A i, j \in 1 .. m : s[i] = s[j] => i = j
        BY <1>2, <1>8 DEF IsInjective
    <2>2. \A i, j \in 1 .. n : t[i] = t[j] => i = j
        BY <1>2, <1>8 DEF IsInjective
    <2>3. \A i \in 1 .. m, j \in 1 .. n : s[i] # t[j]
        BY <1>6, <1>8
    <2>4. ASSUME NEW i \in 1 .. m + n, NEW j \in 1 .. m + n, u[i] = u[j] PROVE i = j
        <3>1. CASE i \in 1 .. m /\ u[i] = s[i]
            BY ZenonT(60), <1>4, <2>1, <2>3, <2>4, <3>1
        <3>2. CASE i - m \in 1 .. n /\ u[i] = t[i - m]
            <4>1. j - m \in 1 .. n /\ u[j] = t[j - m]
                BY <1>4, <2>3, <2>4, <3>2
            <4>2. i - m = j - m
                BY <2>2, <2>4, <3>2, <4>1
            <4> QED
                BY <4>2
        <3> QED
            BY <1>4, <3>1, <3>2
    <2> QED
        BY <1>2, <2>4 DEF IsInjective
<1> QED
    BY <1>1, <1>7, <1>8 DEF u

\* What taking the first element leaves.
LEMMA Taken ==
  ASSUME NEW S, NEW s \in Seq(S), s # <<>>
  PROVE  /\ Head(s) \in S /\ Tail(s) \in Seq(S) /\ Len(Tail(s)) = Len(s) - 1 /\ Len(s) \in Nat \ {0}
         /\ \A i \in 1 .. Len(Tail(s)) : Tail(s)[i] = s[i + 1]
         /\ Head(s) = s[1]
         /\ Range(s) = {Head(s)} \cup Range(Tail(s))
         /\ IsInjective(s) => IsInjective(Tail(s)) /\ Head(s) \notin Range(Tail(s))
<1> PICK n \in Nat : n = Len(s)
    BY LenProperties
<1>1. n # 0
    BY EmptySeq
<1>2. DOMAIN s = 1 .. n /\ s[1] = Head(s)
    BY LenProperties
<1>3. /\ Head(s) \in S /\ Tail(s) \in Seq(S) /\ Len(Tail(s)) = n - 1
      /\ \A i \in 1 .. n - 1 : Tail(s)[i] = s[i + 1]
    BY HeadTailProperties
<1>4. DOMAIN Tail(s) = 1 .. n - 1
    BY <1>3, LenProperties
<1>5. ASSUME NEW x PROVE /\ x \in Range(s) <=> \E i \in 1 .. n : s[i] = x
                         /\ x \in Range(Tail(s)) <=> \E i \in 1 .. n - 1 : Tail(s)[i] = x
    BY <1>2, <1>4 DEF Range
<1>6. Range(s) = {Head(s)} \cup Range(Tail(s))
    <2>1. ASSUME NEW x \in Range(s) PROVE x \in {Head(s)} \cup Range(Tail(s))
        <3>1. PICK i \in 1 .. n : s[i] = x
            BY <1>5
        <3>2. CASE i = 1
            BY <1>2, <3>1, <3>2
        <3>3. CASE i # 1
            <4>1. i - 1 \in 1 .. n - 1 /\ (i - 1) + 1 = i
                BY <3>3
            <4> QED
                BY <1>3, <1>5, <3>1, <4>1
        <3> QED
            BY <3>2, <3>3
    <2>2. ASSUME NEW x \in Range(Tail(s)) PROVE x \in Range(s)
        <3>1. PICK i \in 1 .. n - 1 : Tail(s)[i] = x
            BY <1>5
        <3>2. i + 1 \in 1 .. n
            OBVIOUS
        <3> QED
            BY <1>3, <1>5, <3>1, <3>2
    <2>3. Head(s) \in Range(s)
        BY <1>1, <1>2, <1>5
    <2> QED
        BY <2>1, <2>2, <2>3
<1>7. ASSUME IsInjective(s) PROVE IsInjective(Tail(s)) /\ Head(s) \notin Range(Tail(s))
    <2>1. \A i, j \in 1 .. n : s[i] = s[j] => i = j
        BY <1>2, <1>7 DEF IsInjective
    <2>2. \A i \in 1 .. n - 1 : i + 1 \in 1 .. n /\ i + 1 # 1
        OBVIOUS
    <2>3. Head(s) \notin Range(Tail(s))
        BY <1>1, <1>2, <1>3, <1>5, <2>1, <2>2
    <2>4. ASSUME NEW i \in 1 .. n - 1, NEW j \in 1 .. n - 1, Tail(s)[i] = Tail(s)[j] PROVE i = j
        <3>1. i + 1 = j + 1
            BY <1>3, <2>1, <2>2, <2>4
        <3> QED
            BY <3>1
    <2> QED
        BY <1>4, <2>3, <2>4 DEF IsInjective
<1> QED
    BY <1>1, <1>2, <1>3, <1>6, <1>7

\* A block that is queued behind the others.
LEMMA Appended ==
  ASSUME NEW S, NEW s \in Seq(S), NEW b \in S
  PROVE  /\ Append(s, b) \in Seq(S) /\ Range(Append(s, b)) = Range(s) \cup {b}
         /\ IsInjective(s) /\ b \notin Range(s) => IsInjective(Append(s, b))
<1>1. Append(s, b) = s \o <<b>>
    BY AppendIsConcat
<1> DEFINE t == <<b>>
<1>2. t \in Seq(S) /\ Range(t) = {b} /\ IsInjective(t)
    BY Single
<1>3. Append(s, b) = s \o t
    BY <1>1
<1> HIDE DEF t
<1>4. /\ s \o t \in Seq(S) /\ Range(s \o t) = Range(s) \cup Range(t)
      /\ IsInjective(s) /\ IsInjective(t) /\ Range(s) \cap Range(t) = {} => IsInjective(s \o t)
    BY <1>2, Joined, Zenon
<1> QED
    BY <1>2, <1>3, <1>4

\* A block that is put in front of the others.
LEMMA Prepended ==
  ASSUME NEW S, NEW s \in Seq(S), NEW b \in S
  PROVE  /\ <<b>> \o s \in Seq(S) /\ Range(<<b>> \o s) = {b} \cup Range(s)
         /\ IsInjective(s) /\ b \notin Range(s) => IsInjective(<<b>> \o s)
         /\ <<b>> \o s # <<>> /\ Head(<<b>> \o s) = b /\ Tail(<<b>> \o s) = s
         /\ Len(<<b>> \o s) = Len(s) + 1
         /\ \A i \in 1 .. Len(s) : (<<b>> \o s)[i + 1] = s[i]
<1>1. /\ <<b>> \o s \in Seq(S) /\ Range(<<b>> \o s) = {b} \cup Range(s)
      /\ IsInjective(s) /\ b \notin Range(s) => IsInjective(<<b>> \o s)
    <2> DEFINE t == <<b>>
    <2>1. t \in Seq(S) /\ Range(t) = {b} /\ IsInjective(t)
        BY Single
    <2> HIDE DEF t
    <2>2. /\ t \o s \in Seq(S) /\ Range(t \o s) = Range(t) \cup Range(s)
          /\ IsInjective(t) /\ IsInjective(s) /\ Range(t) \cap Range(s) = {} => IsInjective(t \o s)
        BY <2>1, Joined, Zenon
    <2>3. /\ t \o s \in Seq(S) /\ Range(t \o s) = {b} \cup Range(s)
          /\ IsInjective(s) /\ b \notin Range(s) => IsInjective(t \o s)
        BY <2>1, <2>2
    <2> QED
        BY <2>3 DEF t
<1> PICK n \in Nat : n = Len(s)
    BY LenProperties
<1> DEFINE u == <<b>> \o s
<1>2. /\ Len(u) = n + 1 /\ u[1] = b /\ \A i \in 2 .. n + 1 : u[i] = s[i - 1]
    BY Single, ConcatProperties
<1>3. u \in Seq(S)
    BY <1>1
<1> HIDE DEF u
<1>4. u # <<>>
    BY <1>2, <1>3, EmptySeq
<1>5. Head(u) = b /\ Tail(u) \in Seq(S) /\ Len(Tail(u)) = n /\ \A i \in 1 .. n : Tail(u)[i] = u[i + 1]
    BY <1>2, <1>3, <1>4, HeadTailProperties
<1>6. ASSUME NEW i \in 1 .. n PROVE u[i + 1] = s[i]
    <2>1. i + 1 \in 2 .. n + 1 /\ (i + 1) - 1 = i
        OBVIOUS
    <2> QED
        BY <1>2, <2>1
<1>7. Tail(u) = s
    BY <1>5, <1>6, SeqEqual
<1> QED
    BY <1>1, <1>2, <1>4, <1>5, <1>6, <1>7 DEF u

-------------------------------------------------------------------------------
\* The owners of blocks own blocks of the pool, of which None is none.
LEMMA Owned ==
  ASSUME Typed
  PROVE  /\ Range(free) \subseteq Blocks /\ Range(asked) \subseteq Blocks /\ Range(result) \subseteq Blocks
         /\ Waiting \subseteq Blocks /\ None \notin Blocks
<1>1. ASSUME NEW s \in Seq(Blocks) PROVE Range(s) \subseteq Blocks
    <2>1. \A i \in 1 .. Len(s) : s[i] \in Blocks
        BY LenProperties
    <2>2. DOMAIN s = 1 .. Len(s)
        BY LenProperties
    <2> QED
        BY <2>1, <2>2 DEF Range
<1>2. Range(free) \subseteq Blocks /\ Range(asked) \subseteq Blocks /\ Range(result) \subseteq Blocks
    BY <1>1 DEF Typed
<1>3. Waiting \subseteq Blocks
    BY DEF Typed, Waiting
<1>4. None \notin Blocks
    BY DEF None, Blocks
<1> QED
    BY <1>2, <1>3, <1>4

\* What the thread stands at while it looks, and behind it.
LEMMA InChain ==
  ASSUME ActiveInv, ct.pc \in {"look", "advance"}
  PROVE  /\ ct.chain \in Seq(Blocks) /\ ct.chain # <<>> /\ ct.cur = Head(ct.chain) /\ ct.cur \in Blocks
         /\ Tail(ct.chain) \in Seq(Blocks) /\ ct.ip \in Addresses \cup {Bad}
         /\ ct.pc = "look" => /\ ToLookAt = ct.chain /\ Range(ToLookAt) = {ct.cur} \cup Range(Tail(ct.chain))
                              /\ ct.cur \notin Range(Tail(ct.chain)) /\ block[ct.cur].dest \in Dests
         /\ ct.pc = "advance" => ToLookAt = Tail(ct.chain)
         /\ IsInjective(Tail(ct.chain))
         /\ block[ct.cur].next \in {None, Second(ct.chain)}
         /\ ct.pc = "look" => block[ct.cur].next = Second(ct.chain)
<1>1. ct.chain \in Seq(Blocks) /\ ct.ip \in Addresses \cup {Bad}
    BY DEF ActiveInv, Typed, Thread
<1>2. ct.chain # <<>> /\ ct.cur = Head(ct.chain)
    BY DEF ActiveInv, Linked
<1> DEFINE s == ct.chain
<1>3. /\ Head(s) \in Blocks /\ Tail(s) \in Seq(Blocks) /\ Head(s) = s[1] /\ Len(s) \in Nat \ {0}
      /\ Range(s) = {Head(s)} \cup Range(Tail(s))
      /\ IsInjective(s) => IsInjective(Tail(s)) /\ Head(s) \notin Range(Tail(s))
    BY <1>1, <1>2, Taken
<1>4. ct.pc = "look" => ToLookAt = s /\ IsInjective(s)
    BY DEF ToLookAt, ActiveInv, OneOwner
<1>5. ct.pc = "advance" => ToLookAt = Tail(s) /\ IsInjective(Tail(s))
    BY DEF ToLookAt, ActiveInv, OneOwner
<1>6. ASSUME ct.pc = "look" PROVE block[ct.cur].dest \in Dests
    <2>1. ct.cur \in Range(ToLookAt)
        BY <1>2, <1>3, <1>4, <1>6
    <2> QED
        BY <2>1 DEF ActiveInv, Asking
<1>7. ASSUME ct.pc = "look" PROVE block[ct.cur].next = Second(s)
    <2>1. 1 \in 1 .. Len(s) /\ (1 < Len(s) <=> Len(s) > 1) /\ 1 + 1 = 2
        BY <1>3
    <2>2. block[s[1]].next = IF 1 < Len(s) THEN s[1 + 1] ELSE None
        BY <1>7, <2>1 DEF ActiveInv, Linked
    <2> QED
        BY <1>2, <1>3, <2>1, <2>2 DEF Second
<1>8. ct.pc = "advance" => block[ct.cur].next \in {None, Second(s)}
    BY DEF ActiveInv, Linked
<1> QED
    BY <1>1, <1>2, <1>3, <1>4, <1>5, <1>6, <1>7, <1>8

\* The chain is unchanged when the links in it are; the link that Advance reads may be cleared.
LEMMA ChainKept ==
  ASSUME ActiveInv, ct' = ct,
         \A b \in Range(ToLookAt) : block'[b].next = block[b].next,
         ct.cur # None => block'[ct.cur].next \in {None, block[ct.cur].next}
  PROVE  Linked' /\ ToLookAt' = ToLookAt
<1>1. ToLookAt' = ToLookAt
    BY DEF ToLookAt
<1>2. ASSUME ct.chain # <<>>, NEW i \in 1 .. Len(ct.chain), i = 1 => ct.pc # "advance"
      PROVE  ct.chain[i] \in Range(ToLookAt)
    <2> DEFINE s == ct.chain
    <2>1. s \in Seq(Blocks)
        BY DEF ActiveInv, Typed, Thread
    <2>2. DOMAIN s = 1 .. Len(s)
        BY <2>1, LenProperties
    <2>3. CASE ct.pc # "advance"
        BY <2>2, <2>3 DEF ToLookAt, Range
    <2>4. CASE ct.pc = "advance"
        <3>1. ToLookAt = Tail(s)
            BY <2>4 DEF ToLookAt
        <3>2. /\ Len(s) \in Nat \ {0} /\ Tail(s) \in Seq(Blocks) /\ Len(Tail(s)) = Len(s) - 1
              /\ \A j \in 1 .. Len(Tail(s)) : Tail(s)[j] = s[j + 1]
            BY <1>2, <2>1, Taken
        <3>3. DOMAIN Tail(s) = 1 .. Len(s) - 1
            BY <3>2, LenProperties
        <3>4. i - 1 \in 1 .. Len(s) - 1 /\ (i - 1) + 1 = i
            BY <1>2, <2>4, <3>2
        <3>5. Tail(s)[i - 1] = s[i]
            BY <3>2, <3>4
        <3> QED
            BY <3>1, <3>3, <3>4, <3>5 DEF Range
    <2> QED
        BY <2>3, <2>4
<1>3. ASSUME NEW i \in 1 .. Len(ct.chain), i = 1 => ct.pc # "advance"
      PROVE  block'[ct.chain[i]].next = IF i < Len(ct.chain) THEN ct.chain[i + 1] ELSE None
    <2>1. ct.chain # <<>>
        <3>1. Len(<<>>) = 0
            OBVIOUS
        <3> QED
            BY <3>1
    <2> QED
        BY <1>2, <1>3, <2>1 DEF ActiveInv, Linked
<1>4. ct.pc = "advance" => block'[ct.cur].next \in {None, Second(ct.chain)}
    <2>1. ct.pc = "advance" => ct.cur \in Blocks
        BY InChain
    <2>2. None \notin Blocks
        BY Owned DEF ActiveInv
    <2> QED
        BY <2>1, <2>2 DEF ActiveInv, Linked
<1> QED
    BY <1>1, <1>3, <1>4 DEF ActiveInv, Linked, Second

\* A thread that is done has nothing to look at.
LEMMA Resting ==
  ASSUME ct' = AtRest
  PROVE  /\ Linked' /\ ToLookAt' = <<>> /\ Range(ToLookAt') = {} /\ IsInjective(ToLookAt') /\ ct' \in Thread
<1>1. ct'.pc = "take" /\ ct'.chain = <<>> /\ ct'.cur = None
    BY DEF AtRest
<1>2. ToLookAt' = <<>>
    BY <1>1 DEF ToLookAt
<1>3. DOMAIN <<>> = {} /\ Len(<<>>) = 0 /\ <<>> \in Seq(Blocks)
    OBVIOUS
<1>4. Range(ToLookAt') = {} /\ IsInjective(ToLookAt')
    BY <1>2, <1>3 DEF Range, IsInjective
<1>5. Linked'
    BY <1>1, <1>3 DEF Linked
<1>6. ct' \in Thread
    BY <1>3 DEF AtRest, Thread
<1> QED
    BY <1>2, <1>4, <1>5, <1>6

\* The next in the chain.
LEMMA GoingOn ==
  ASSUME ActiveInv, ct.pc \in {"look", "advance"}, block' = block, NEW ip \in Addresses \cup {Bad},
         GoTo(block[ct.cur].next, ip)
  PROVE  /\ Linked' /\ ct' \in Thread /\ IsInjective(ToLookAt')
         /\ Range(ToLookAt') \subseteq Range(Tail(ct.chain))
<1> DEFINE s == ct.chain  b == block[ct.cur].next
<1>1. /\ s \in Seq(Blocks) /\ s # <<>> /\ Tail(s) \in Seq(Blocks) /\ b \in {None, Second(s)}
      /\ IsInjective(Tail(s))
    BY InChain
<1>2. CASE b = None
    <2>1. ct' = AtRest
        BY <1>2 DEF GoTo
    <2> QED
        BY <2>1, Resting
<1>3. CASE b # None
    <2>1. ct' = [ct EXCEPT !.pc = "look", !.cur = b, !.chain = Tail(@), !.ip = ip]
        BY <1>3 DEF GoTo
    <2>2. ct \in Thread
        BY DEF ActiveInv, Typed
    <2>3. ct'.pc = "look" /\ ct'.cur = b /\ ct'.chain = Tail(s) /\ ct'.ip = ip
        BY <2>1, <2>2 DEF Thread
    <2>4. Len(s) > 1 /\ b = s[2]
        BY <1>1, <1>3 DEF Second
    <2>5. /\ Len(s) \in Nat \ {0} /\ Len(Tail(s)) = Len(s) - 1
          /\ \A i \in 1 .. Len(Tail(s)) : Tail(s)[i] = s[i + 1]
        BY <1>1, Taken
    <2>6. Len(Tail(s)) \in Nat /\ Len(Tail(s)) >= 1
        BY <2>4, <2>5
    <2>7. Tail(s) # <<>>
        <3>1. Len(<<>>) = 0
            OBVIOUS
        <3> QED
            BY <2>6, <3>1
    <2>8. Tail(s)[1] = s[2] /\ Head(Tail(s)) = Tail(s)[1]
        BY <2>5, <2>6, Taken, <1>1, <2>7
    <2>9. b \in Blocks
        BY <1>1, <2>4, <2>7, <2>8, Taken
    <2>10. ct' \in Thread
        BY <1>1, <2>1, <2>2, <2>9 DEF Thread
    <2>11. ToLookAt' = Tail(s)
        BY <2>3 DEF ToLookAt
    <2>12. ASSUME NEW i \in 1 .. Len(Tail(s))
           PROVE  block[Tail(s)[i]].next = IF i < Len(Tail(s)) THEN Tail(s)[i + 1] ELSE None
        <3> PICK j \in 1 .. Len(s) : j = i + 1 /\ j # 1
            BY <2>5
        <3>1. block[s[j]].next = IF j < Len(s) THEN s[j + 1] ELSE None
            BY DEF ActiveInv, Linked
        <3>2. Tail(s)[i] = s[j]
            BY <2>5
        <3>3. (j < Len(s) <=> i < Len(Tail(s)))
            BY <2>5
        <3>4. i < Len(Tail(s)) => Tail(s)[i + 1] = s[j + 1]
            <4>1. i < Len(Tail(s)) => i + 1 \in 1 .. Len(Tail(s))
                BY <2>6
            <4> QED
                BY <2>5, <4>1
        <3> QED
            BY <3>1, <3>2, <3>3, <3>4
    <2>13. Linked'
        <3> DEFINE t == Tail(s)
        <3>1. ct'.chain = t /\ t # <<>> /\ ct'.cur = Head(t)
            BY <2>3, <2>4, <2>7, <2>8
        <3>2. \A i \in 1 .. Len(t) : block[t[i]].next = IF i < Len(t) THEN t[i + 1] ELSE None
            BY <2>12
        <3> HIDE DEF t
        <3> QED
            BY <2>3, <3>1, <3>2 DEF Linked
    <2> QED
        BY <1>1, <2>10, <2>11, <2>13
<1> QED
    BY <1>2, <1>3

\* A block whose outcome is noted is the same block otherwise.
LEMMA Noted ==
  ASSUME Typed, NEW b \in Blocks, NEW ok \in BOOLEAN, block' = [block EXCEPT ![b].ok = ok]
  PROVE  /\ block' \in [Blocks -> Block]
         /\ \A x \in Blocks : block'[x].next = block[x].next /\ block'[x].dest = block[x].dest
<1> DEFINE r == [block[b] EXCEPT !.ok = ok]
<1>1. block' = [block EXCEPT ![b] = r] /\ block \in [Blocks -> Block]
    BY DEF Typed
<1>2. block[b] \in Block
    BY <1>1
<1>3. r \in Block /\ r.next = block[b].next /\ r.dest = block[b].dest
    BY <1>2 DEF Block
<1> HIDE DEF r
<1> QED
    BY <1>1, <1>3

\* What becomes of a request is noted.
LEMMA Dropped ==
  ASSUME Typed, NEW D, NEW why \in Fates, fate' = Drop(D, why)
  PROVE  fate' \in [1 .. MaxRequests -> Fates]
<1>1. DOMAIN fate = 1 .. MaxRequests /\ \A r \in 1 .. MaxRequests : fate[r] \in Fates
    BY DEF Typed
<1> QED
    BY <1>1 DEF Drop

\* An outcome is queued for the service, or lost.
LEMMA Reporting ==
  ASSUME ActiveInv, NEW b \in Blocks, NEW ok \in BOOLEAN, Report(b, ok), b \notin Range(result)
  PROVE  /\ block' \in [Blocks -> Block]
         /\ \A x \in Blocks : block'[x].next = block[x].next /\ block'[x].dest = block[x].dest
         /\ result' \in Seq(Blocks) /\ IsInjective(result')
         /\ Range(result') = Range(result) \/ Range(result') = Range(result) \cup {b}
         /\ fate' \in [1 .. MaxRequests -> Fates]
<1>1. Typed /\ result \in Seq(Blocks) /\ IsInjective(result)
    BY DEF ActiveInv, Typed, OneOwner
<1>2. /\ block' \in [Blocks -> Block]
      /\ \A x \in Blocks : block'[x].next = block[x].next /\ block'[x].dest = block[x].dest
    BY <1>1, Noted DEF Report
<1>3. CASE Len(result) < QueueCap
    <2>1. result' = Append(result, b) /\ fate' = fate
        BY <1>3 DEF Report
    <2>2. result' \in Seq(Blocks) /\ IsInjective(result') /\ Range(result') = Range(result) \cup {b}
        BY <1>1, <2>1, Appended
    <2> QED
        BY <1>1, <1>2, <2>1, <2>2 DEF Typed
<1>4. CASE ~(Len(result) < QueueCap)
    <2>1. result' = result /\ fate' = Drop({b}, "full")
        BY <1>4 DEF Report
    <2>2. fate' \in [1 .. MaxRequests -> Fates]
        BY <1>1, <2>1, Dropped DEF Fates
    <2> QED
        BY <1>1, <1>2, <2>1, <2>2
<1> QED
    BY <1>3, <1>4

\* The address that a request is tried at.
LEMMA AddressTyped == ASSUME ActiveInv, ct.pc = "look" PROVE Address \in Addresses \cup {Bad}
<1>1. block[ct.cur].dest \in Dests /\ ct.ip \in Addresses \cup {Bad}
    BY InChain
<1>2. block[ct.cur].dest[1] # Bad => block[ct.cur].dest[1] \in Addresses
    BY <1>1 DEF Addresses
<1> QED
    BY <1>1, <1>2 DEF Address

-------------------------------------------------------------------------------
\* doActiveConnect: a block is taken from the pool for a request.
LEMMA RequestStep == ASSUME ActiveInv, NEW d \in Dests, Request(d) PROVE ActiveInv'
<1> DEFINE b == Head(free)  r == [dest |-> d, next |-> None, ok |-> FALSE, request |-> requests + 1]
<1>1. /\ free \in Seq(Blocks) /\ free # <<>> /\ asked \in Seq(Blocks) /\ requests \in 0 .. MaxRequests
      /\ block \in [Blocks -> Block] /\ MaxRequests \in Nat /\ requests < MaxRequests
    BY RequestsAssumption DEF Request, ActiveInv, Typed
<1>2. /\ b \in Blocks /\ Tail(free) \in Seq(Blocks) /\ Range(free) = {b} \cup Range(Tail(free))
      /\ IsInjective(free) => IsInjective(Tail(free)) /\ b \notin Range(Tail(free))
    BY <1>1, Taken
<1>3. requests + 1 \in 1 .. MaxRequests /\ requests + 1 \in 0 .. MaxRequests
    BY <1>1
<1>4. block' = [block EXCEPT ![b] = r]
    BY DEF Request
<1>5. r \in Block /\ r.dest = d /\ r.next = None
    BY <1>3 DEF Block
<1> HIDE DEF r
<1>6. IsInjective(free) /\ IsInjective(asked) /\ Apart(Range(free), Range(asked), Range(ToLookAt), Range(result), InHand, Waiting)
    BY DEF ActiveInv, OneOwner
<1>7. b \in Range(free)
    BY <1>2
<1> HIDE DEF b
<1>8. block' \in [Blocks -> Block] /\ block'[b] = r /\ \A x \in Blocks \ {b} : block'[x] = block[x]
    BY <1>1, <1>2, <1>4, <1>5
<1>9. /\ ct' = ct /\ result' = result /\ handling' = handling /\ login' = login /\ backoff' = backoff
    BY DEF Request
<1>10. b \notin Range(ToLookAt) /\ b \notin Range(asked)
    BY <1>6, <1>7 DEF Apart
<1>11. \A x \in Range(ToLookAt) : x \in Blocks
    <2>1. CASE ct.pc = "advance"
        <3>1. ToLookAt = Tail(ct.chain) /\ Tail(ct.chain) \in Seq(Blocks)
            BY <2>1, InChain
        <3> QED
            BY <3>1, LenProperties DEF Range
    <2>2. CASE ct.pc # "advance"
        <3>1. ToLookAt = ct.chain /\ ct.chain \in Seq(Blocks)
            BY <2>2 DEF ToLookAt, ActiveInv, Typed, Thread
        <3> QED
            BY <3>1, LenProperties DEF Range
    <2> QED
        BY <2>1, <2>2
<1>12. Linked' /\ ToLookAt' = ToLookAt
    <2>1. \A x \in Range(ToLookAt) : block'[x].next = block[x].next
        BY <1>8, <1>10, <1>11
    <2>2. ct.cur # None => block'[ct.cur].next \in {None, block[ct.cur].next}
        <3>1. ct.cur # None => ct.cur \in Blocks
            BY DEF ActiveInv, Typed, Thread
        <3>2. \A x \in Blocks : block'[x].next \in {None, block[x].next}
            BY <1>5, <1>8
        <3> QED
            BY <3>1, <3>2
    <2> QED
        BY <1>9, <2>1, <2>2, ChainKept
<1>13. InHand' = InHand /\ Waiting' = Waiting /\ OneAttempt'
    BY <1>9 DEF InHand, Waiting, ActiveInv, OneAttempt
<1>14. CASE Len(asked) < QueueCap
    <2>1. /\ free' = Tail(free) /\ asked' = Append(asked, b) /\ requests' = requests + 1
          /\ fate' = [fate EXCEPT ![requests + 1] = "pending"]
        BY <1>14 DEF Request, b
    <2>2. asked' \in Seq(Blocks) /\ Range(asked') = Range(asked) \cup {b} /\ IsInjective(asked')
        BY <1>1, <1>2, <1>6, <1>10, <2>1, Appended
    <2>3. fate' \in [1 .. MaxRequests -> Fates]
        BY <1>3, <2>1 DEF ActiveInv, Typed, Fates
    <2>4. Typed'
        BY <1>2, <1>3, <1>8, <1>9, <2>1, <2>2, <2>3 DEF ActiveInv, Typed
    <2>5. Apart(Range(free'), Range(asked'), Range(ToLookAt), Range(result), InHand, Waiting)
        BY <1>2, <1>6, <2>1, <2>2 DEF Apart
    <2>6. OneOwner'
        BY <1>2, <1>6, <1>9, <1>12, <1>13, <2>1, <2>2, <2>5 DEF ActiveInv, OneOwner
    <2>7. Asking'
        <3>1. \A x \in Range(asked) \cup Range(ToLookAt) : x \in Blocks \ {b}
            BY <1>10, <1>11, Owned DEF ActiveInv
        <3>2. \A x \in Range(asked) \cup Range(ToLookAt) : block'[x].dest \in Dests
            BY <1>8, <3>1 DEF ActiveInv, Asking
        <3>3. block'[b].dest \in Dests
            BY <1>5, <1>8
        <3> QED
            BY <1>12, <2>2, <3>2, <3>3 DEF Asking
    <2> QED
        BY <1>12, <1>13, <2>4, <2>6, <2>7 DEF ActiveInv
<1>15. CASE ~(Len(asked) < QueueCap)
    <2>1. free' = free /\ asked' = asked /\ requests' = requests /\ fate' = fate
        BY <1>15 DEF Request
    <2>2. Typed'
        BY <1>8, <1>9, <2>1 DEF ActiveInv, Typed
    <2>3. OneOwner'
        BY <1>6, <1>9, <1>12, <1>13, <2>1 DEF ActiveInv, OneOwner
    <2>4. Asking'
        <3>1. \A x \in Range(asked) \cup Range(ToLookAt) : x \in Blocks \ {b}
            BY <1>10, <1>11, Owned DEF ActiveInv
        <3> QED
            BY <1>8, <1>12, <2>1, <3>1 DEF ActiveInv, Asking
    <2> QED
        BY <1>12, <1>13, <2>2, <2>3, <2>4 DEF ActiveInv
<1> QED
    BY <1>14, <1>15

\* run: the requester is called for the result in front.
LEMMA AnswerStep == ASSUME ActiveInv, Answer PROVE ActiveInv'
<1>1. /\ handling = None /\ result # <<>> /\ handling' = Head(result) /\ result' = Tail(result)
      /\ fate' = [fate EXCEPT ![block[Head(result)].request] = "answered"]
      /\ UNCHANGED <<free, block, asked, ct, login, backoff, requests>>
    BY DEF Answer
<1>2. Typed /\ result \in Seq(Blocks)
    BY DEF ActiveInv, Typed
<1>3. /\ Head(result) \in Blocks /\ Tail(result) \in Seq(Blocks)
      /\ Range(result) = {Head(result)} \cup Range(Tail(result))
      /\ IsInjective(result) => IsInjective(Tail(result)) /\ Head(result) \notin Range(Tail(result))
    BY <1>1, <1>2, Taken
<1>4. fate' \in [1 .. MaxRequests -> Fates]
    BY <1>1, <1>2 DEF Typed, Fates
<1>5. Typed'
    BY <1>1, <1>2, <1>3, <1>4 DEF Typed
<1>6. Linked' /\ ToLookAt' = ToLookAt
    BY <1>1, ChainKept
<1>7. InHand = {} /\ InHand' = {Head(result)} /\ Waiting' = Waiting
    BY <1>1, <1>2, <1>3, Owned DEF InHand, Waiting
<1>8. OneOwner'
    <2>1. IsInjective(result) /\ Apart(Range(free), Range(asked), Range(ToLookAt), Range(result), InHand, Waiting)
        BY DEF ActiveInv, OneOwner
    <2>2. Apart(Range(free), Range(asked), Range(ToLookAt), Range(result'), InHand', Waiting)
        BY <1>1, <1>3, <1>7, <2>1 DEF Apart
    <2> QED
        BY <1>1, <1>3, <1>6, <1>7, <2>1, <2>2 DEF ActiveInv, OneOwner
<1>9. Asking' /\ OneAttempt'
    BY <1>1, <1>6 DEF ActiveInv, Asking, OneAttempt
<1> QED
    BY <1>5, <1>6, <1>8, <1>9 DEF ActiveInv

\* The block goes back to the front of the pool.
LEMMA ReleaseStep == ASSUME ActiveInv, Release PROVE ActiveInv'
<1>1. /\ handling # None /\ free' = <<handling>> \o free /\ handling' = None
      /\ UNCHANGED <<block, asked, result, ct, login, backoff, requests, fate>>
    BY DEF Release
<1>2. Typed /\ free \in Seq(Blocks) /\ handling \in Blocks /\ InHand = {handling} /\ InHand' = {}
    BY <1>1 DEF ActiveInv, Typed, InHand
<1>3. IsInjective(free) /\ Apart(Range(free), Range(asked), Range(ToLookAt), Range(result), InHand, Waiting)
    BY DEF ActiveInv, OneOwner
<1>4. handling \notin Range(free)
    BY <1>2, <1>3 DEF Apart
<1>5. free' \in Seq(Blocks) /\ Range(free') = {handling} \cup Range(free) /\ IsInjective(free')
    BY <1>1, <1>2, <1>3, <1>4, Prepended
<1>6. Typed'
    BY <1>1, <1>2, <1>5 DEF Typed
<1>7. Linked' /\ ToLookAt' = ToLookAt
    BY <1>1, ChainKept
<1>8. OneOwner'
    <2>1. Apart(Range(free'), Range(asked), Range(ToLookAt), Range(result), {}, Waiting)
        BY <1>2, <1>3, <1>5 DEF Apart
    <2>2. Waiting' = Waiting
        BY <1>1 DEF Waiting
    <2> QED
        BY <1>1, <1>2, <1>5, <1>7, <2>1, <2>2 DEF ActiveInv, OneOwner
<1>9. Asking' /\ OneAttempt'
    BY <1>1, <1>7 DEF ActiveInv, Asking, OneAttempt
<1> QED
    BY <1>6, <1>7, <1>8, <1>9 DEF ActiveInv

\* getActiveConnectData: a queued block is linked to those taken before.
LEMMA TakeStep == ASSUME ActiveInv, Take PROVE ActiveInv'
<1> DEFINE b == Head(asked)  r == [block[b] EXCEPT !.next = ct.cur]  s == ct.chain  t == <<b>> \o s
<1>1. /\ ct.pc = "take" /\ asked # <<>> /\ block' = [block EXCEPT ![b] = r]
      /\ ct' = [ct EXCEPT !.cur = b, !.chain = t] /\ asked' = Tail(asked)
      /\ UNCHANGED <<free, result, login, backoff, handling, requests, fate>>
    BY DEF Take
<1>2. /\ Typed /\ asked \in Seq(Blocks) /\ ct \in Thread /\ s \in Seq(Blocks) /\ block \in [Blocks -> Block]
      /\ ct.cur \in Blocks \cup {None}
    BY DEF ActiveInv, Typed, Thread
<1>3. /\ b \in Blocks /\ Tail(asked) \in Seq(Blocks) /\ Range(asked) = {b} \cup Range(Tail(asked))
      /\ IsInjective(asked) => IsInjective(Tail(asked)) /\ b \notin Range(Tail(asked))
    BY <1>1, <1>2, Taken
<1>4. r \in Block /\ r.next = ct.cur /\ r.dest = block[b].dest
    <2>1. block[b] \in Block
        BY <1>2, <1>3
    <2> QED
        BY <1>2, <2>1 DEF Block
<1>5. ToLookAt = s /\ IsInjective(s) /\ IsInjective(asked)
      /\ Apart(Range(free), Range(asked), Range(s), Range(result), InHand, Waiting)
    BY <1>1 DEF ToLookAt, ActiveInv, OneOwner
<1>6. b \in Range(asked) /\ b \notin Range(s)
    BY <1>3, <1>5 DEF Apart
<1>7. /\ t \in Seq(Blocks) /\ Range(t) = {b} \cup Range(s) /\ IsInjective(t) /\ t # <<>> /\ Head(t) = b
      /\ Len(t) = Len(s) + 1 /\ \A i \in 1 .. Len(s) : t[i + 1] = s[i]
    BY <1>2, <1>3, <1>5, <1>6, Prepended
<1>8. t[1] = b
    BY <1>7
<1> HIDE DEF b, r, t
<1>9. ct' \in Thread /\ ct'.pc = "take" /\ ct'.cur = b /\ ct'.chain = t
    BY <1>1, <1>2, <1>3, <1>7 DEF Thread
<1>10. block' \in [Blocks -> Block] /\ block'[b] = r /\ \A x \in Blocks \ {b} : block'[x] = block[x]
    BY <1>1, <1>2, <1>3, <1>4
<1>11. Typed'
    BY <1>1, <1>2, <1>3, <1>9, <1>10 DEF Typed
<1>12. ToLookAt' = t
    BY <1>9 DEF ToLookAt
<1>13. OneOwner'
    <2>1. Apart(Range(free), Range(asked'), Range(t), Range(result), InHand, Waiting)
        BY <1>1, <1>3, <1>5, <1>7 DEF Apart
    <2>2. InHand' = InHand /\ Waiting' = Waiting
        BY <1>1 DEF InHand, Waiting
    <2> QED
        BY <1>1, <1>3, <1>5, <1>7, <1>12, <2>1, <2>2 DEF ActiveInv, OneOwner
<1>14. Linked'
    <2> PICK n \in Nat : n = Len(s)
        BY <1>2, LenProperties
    <2>1. \A i \in 1 .. n : s[i] \in Blocks \ {b}
        <3>1. DOMAIN s = 1 .. n /\ \A i \in 1 .. n : s[i] \in Blocks
            BY <1>2, LenProperties
        <3> QED
            BY <1>6, <3>1 DEF Range
    <2>2. \A i \in 1 .. n : block[s[i]].next = IF i < n THEN s[i + 1] ELSE None
        BY <1>1 DEF ActiveInv, Linked
    <2>3. ASSUME NEW i \in 1 .. Len(t) PROVE block'[t[i]].next = IF i < Len(t) THEN t[i + 1] ELSE None
        <3>1. CASE i = 1
            <4>1. block'[t[i]].next = ct.cur
                BY <1>4, <1>8, <1>10, <3>1
            <4>2. CASE n = 0
                <5>1. s = <<>>
                    BY <1>2, <4>2, EmptySeq
                <5>2. ct.cur = None
                    BY <5>1 DEF ActiveInv, Linked
                <5> QED
                    BY <1>7, <3>1, <4>1, <4>2, <5>2
            <4>3. CASE n # 0
                <5>1. s # <<>> /\ 1 \in 1 .. n
                    BY <1>2, <4>3, EmptySeq
                <5>2. ct.cur = s[1]
                    BY <5>1, <1>2, Taken DEF ActiveInv, Linked
                <5>3. t[1 + 1] = s[1]
                    BY <1>7, <5>1
                <5> QED
                    BY <1>7, <3>1, <4>1, <5>1, <5>2, <5>3
            <4> QED
                BY <4>2, <4>3
        <3>2. CASE i # 1
            <4> PICK j \in 1 .. n : i = j + 1
                <5>1. i - 1 \in 1 .. n /\ i = (i - 1) + 1
                    BY <1>7, <3>2
                <5> QED
                    BY <5>1
            <4>1. t[i] = s[j] /\ (i < Len(t) <=> j < n)
                BY <1>7
            <4>2. j < n => t[i + 1] = s[j + 1]
                <5>1. j < n => j + 1 \in 1 .. n
                    OBVIOUS
                <5> QED
                    BY <1>7, <5>1
            <4>3. block'[s[j]].next = block[s[j]].next
                BY <1>10, <2>1
            <4>4. block[s[j]].next = IF j < n THEN s[j + 1] ELSE None
                BY <2>2
            <4> QED
                BY <4>1, <4>2, <4>3, <4>4
        <3> QED
            BY <3>1, <3>2
    <2> QED
        BY <1>7, <1>9, <2>3 DEF Linked
<1>15. Asking'
    <2>1. ASSUME NEW x \in Range(asked) \cup Range(s) PROVE block'[x].dest \in Dests
        <3>1. block[x].dest \in Dests
            BY <1>5 DEF ActiveInv, Asking
        <3>2. x \in Blocks
            <4>1. Range(asked) \subseteq Blocks
                BY <1>2, Owned
            <4>2. Range(s) \subseteq Blocks
                BY <1>2, LenProperties DEF Range
            <4> QED
                BY <4>1, <4>2
        <3>3. x = b => block'[x].dest = block[x].dest
            BY <1>4, <1>10
        <3>4. x # b => block'[x].dest = block[x].dest
            BY <1>10, <3>2
        <3> QED
            BY <3>1, <3>3, <3>4
    <2>2. Range(asked') \cup Range(ToLookAt') \subseteq Range(asked) \cup Range(s)
        BY <1>1, <1>3, <1>7, <1>12
    <2> QED
        BY <2>1, <2>2 DEF Asking
<1>16. OneAttempt'
    BY <1>1 DEF ActiveInv, OneAttempt
<1> QED
    BY <1>11, <1>13, <1>14, <1>15, <1>16 DEF ActiveInv

\* The queue is empty, and the thread begins with the newest.
LEMMA TakeEndsStep == ASSUME ActiveInv, TakeEnds PROVE ActiveInv'
<1>1. PICK ip \in Addresses \cup {Bad} : ct' = [ct EXCEPT !.pc = "look", !.ip = ip]
    BY DEF TakeEnds
<1>2. ct.pc = "take" /\ ct.cur # None /\ UNCHANGED <<free, block, asked, result, login, backoff, handling, requests, fate>>
    BY DEF TakeEnds
<1>3. ct \in Thread /\ Typed
    BY DEF ActiveInv, Typed
<1>4. ct' \in Thread /\ ct'.pc = "look" /\ ct'.cur = ct.cur /\ ct'.chain = ct.chain
    BY <1>1, <1>3 DEF Thread
<1>5. ToLookAt' = ToLookAt
    BY <1>2, <1>4 DEF ToLookAt
<1>6. Typed'
    BY <1>2, <1>3, <1>4 DEF Typed
<1>7. OneOwner'
    BY <1>2, <1>5 DEF ActiveInv, OneOwner, InHand, Waiting
<1>8. Linked'
    BY <1>2, <1>4 DEF ActiveInv, Linked
<1>9. Asking' /\ OneAttempt'
    BY <1>2, <1>5 DEF ActiveInv, Asking, OneAttempt
<1> QED
    BY <1>6, <1>7, <1>8, <1>9 DEF ActiveInv

\* A request is done with: the thread goes on, or rests, and nothing else moves.
LEMMA Onward ==
  ASSUME ActiveInv, UNCHANGED <<free, block, asked, result, login, backoff, handling, requests>>,
         ct' \in Thread, IsInjective(ToLookAt'), Range(ToLookAt') \subseteq Range(ToLookAt), Linked',
         fate' \in [1 .. MaxRequests -> Fates]
  PROVE  ActiveInv'
<1>1. Typed'
    BY DEF ActiveInv, Typed
<1>2. OneOwner'
    <2>1. Apart(Range(free), Range(asked), Range(ToLookAt), Range(result), InHand, Waiting)
        BY DEF ActiveInv, OneOwner
    <2>2. Apart(Range(free), Range(asked), Range(ToLookAt'), Range(result), InHand, Waiting)
        BY <2>1 DEF Apart
    <2>3. InHand' = InHand /\ Waiting' = Waiting
        BY DEF InHand, Waiting
    <2> QED
        BY <2>2, <2>3 DEF ActiveInv, OneOwner
<1>3. Asking' /\ OneAttempt'
    BY DEF ActiveInv, Asking, OneAttempt
<1> QED
    BY <1>1, <1>2, <1>3 DEF ActiveInv

\* The address or the connection is being waited for.
LEMMA PassOverStep == ASSUME ActiveInv, PassOver PROVE ActiveInv'
<1>1. /\ ct.pc = "look" /\ GoTo(block[ct.cur].next, Address)
      /\ fate' = Drop({ct.cur}, IF Busy THEN "busy" ELSE "waits")
      /\ UNCHANGED <<free, block, asked, result, login, backoff, handling, requests>>
    BY DEF PassOver
<1>2. Address \in Addresses \cup {Bad}
    BY <1>1, AddressTyped
<1>3. /\ Linked' /\ ct' \in Thread /\ IsInjective(ToLookAt')
      /\ Range(ToLookAt') \subseteq Range(Tail(ct.chain))
    <2> DEFINE ip == Address
    <2>1. ip \in Addresses \cup {Bad} /\ GoTo(block[ct.cur].next, ip)
        BY <1>1, <1>2
    <2> HIDE DEF ip
    <2> QED
        BY <1>1, <2>1, GoingOn
<1>4. Range(Tail(ct.chain)) \subseteq Range(ToLookAt)
    BY <1>1, InChain
<1>5. fate' \in [1 .. MaxRequests -> Fates]
    <2> DEFINE why == IF Busy THEN "busy" ELSE "waits"  D == {ct.cur}
    <2>1. why \in Fates
        BY DEF Fates
    <2>2. fate' = Drop(D, why)
        BY <1>1
    <2> HIDE DEF why, D
    <2> QED
        BY <2>1, <2>2, Dropped DEF ActiveInv
<1> QED
    BY <1>1, <1>3, <1>4, <1>5, Onward

\* No memory for the connection.
LEMMA NoConnectStep == ASSUME ActiveInv, NoConnect PROVE ActiveInv'
<1>1. /\ ct' = AtRest /\ fate' = Drop(Range(ct.chain), "left")
      /\ UNCHANGED <<free, block, asked, result, login, backoff, handling, requests>>
    BY DEF NoConnect
<1>2. "left" \in Fates
    BY DEF Fates
<1>3. fate' \in [1 .. MaxRequests -> Fates]
    BY <1>1, <1>2, Dropped DEF ActiveInv
<1>4. Linked' /\ Range(ToLookAt') = {} /\ IsInjective(ToLookAt') /\ ct' \in Thread
    BY <1>1, Resting
<1> QED
    BY <1>1, <1>3, <1>4, Onward

\* The link is read, as it is or as the service has cleared it.
LEMMA AdvanceStep == ASSUME ActiveInv, Advance PROVE ActiveInv'
<1>1. /\ ct.pc = "advance" /\ GoTo(block[ct.cur].next, ct.ip)
      /\ fate' = IF block[ct.cur].next = None THEN Drop(Range(Tail(ct.chain)), "cut") ELSE fate
      /\ UNCHANGED <<free, block, asked, result, login, backoff, handling, requests>>
    BY DEF Advance
<1>2. ct.ip \in Addresses \cup {Bad} /\ ToLookAt = Tail(ct.chain)
    BY <1>1, InChain
<1>3. /\ Linked' /\ ct' \in Thread /\ IsInjective(ToLookAt')
      /\ Range(ToLookAt') \subseteq Range(Tail(ct.chain))
    BY <1>1, <1>2, GoingOn
<1>4. fate' \in [1 .. MaxRequests -> Fates]
    <2>1. "cut" \in Fates /\ fate \in [1 .. MaxRequests -> Fates]
        BY DEF Fates, ActiveInv, Typed
    <2>2. Drop(Range(Tail(ct.chain)), "cut") = fate' => fate' \in [1 .. MaxRequests -> Fates]
        BY <2>1, Dropped DEF ActiveInv
    <2> QED
        BY <1>1, <2>1, <2>2
<1> QED
    BY <1>1, <1>2, <1>3, <1>4, Onward

-------------------------------------------------------------------------------
\* The thread is behind the block in hand, whose link it has not read.
LEMMA Behind ==
  ASSUME ActiveInv, ct.pc = "look", NEW ip \in Addresses \cup {Bad}, ct' = [ct EXCEPT !.pc = "advance", !.ip = ip],
         \A x \in Blocks : block'[x].next = block[x].next
  PROVE  Linked' /\ ToLookAt' = Tail(ct.chain) /\ ct' \in Thread
<1> DEFINE s == ct.chain
<1>1. ct \in Thread
    BY DEF ActiveInv, Typed
<1>2. ct' \in Thread /\ ct'.pc = "advance" /\ ct'.cur = ct.cur /\ ct'.chain = s
    BY <1>1 DEF Thread
<1>3. ToLookAt' = Tail(s)
    BY <1>2 DEF ToLookAt
<1>4. s \in Seq(Blocks) /\ s # <<>> /\ ct.cur = Head(s) /\ ct.cur \in Blocks /\ block[ct.cur].next \in {None, Second(s)}
    BY InChain
<1>5. ASSUME NEW i \in 1 .. Len(s) PROVE block'[s[i]].next = IF i < Len(s) THEN s[i + 1] ELSE None
    <2>1. s[i] \in Blocks
        BY <1>4, LenProperties
    <2> QED
        BY <2>1 DEF ActiveInv, Linked
<1>6. block'[ct.cur].next \in {None, Second(s)}
    BY <1>4
<1>7. Linked'
    BY <1>2, <1>4, <1>5, <1>6 DEF Linked, Second
<1> QED
    BY <1>2, <1>3, <1>7

\* The outcome of an attempt is known at once.
LEMMA AtOnce ==
  ASSUME ActiveInv, ct.pc = "look", NEW ok \in BOOLEAN, Report(ct.cur, ok),
         ct' = [ct EXCEPT !.pc = "advance", !.ip = Address],
         UNCHANGED <<free, asked, login, handling, requests>>,
         backoff' \subseteq Addresses \cup {Bad}
  PROVE  ActiveInv'
<1>1. /\ ToLookAt = ct.chain /\ Range(ToLookAt) = {ct.cur} \cup Range(Tail(ct.chain)) /\ ct.cur \in Blocks
      /\ ct.cur \notin Range(Tail(ct.chain)) /\ IsInjective(Tail(ct.chain)) /\ Tail(ct.chain) \in Seq(Blocks)
    BY InChain
<1>2. Apart(Range(free), Range(asked), Range(ToLookAt), Range(result), InHand, Waiting)
    BY DEF ActiveInv, OneOwner
<1>3. ct.cur \notin Range(result)
    BY <1>1, <1>2 DEF Apart
<1>4. /\ block' \in [Blocks -> Block]
      /\ \A x \in Blocks : block'[x].next = block[x].next /\ block'[x].dest = block[x].dest
      /\ result' \in Seq(Blocks) /\ IsInjective(result')
      /\ Range(result') = Range(result) \/ Range(result') = Range(result) \cup {ct.cur}
      /\ fate' \in [1 .. MaxRequests -> Fates]
    <2> DEFINE b == ct.cur
    <2>1. b \in Blocks /\ b \notin Range(result) /\ Report(b, ok)
        BY <1>1, <1>3
    <2> HIDE DEF b
    <2>2. /\ block' \in [Blocks -> Block]
          /\ \A x \in Blocks : block'[x].next = block[x].next /\ block'[x].dest = block[x].dest
          /\ result' \in Seq(Blocks) /\ IsInjective(result')
          /\ Range(result') = Range(result) \/ Range(result') = Range(result) \cup {b}
          /\ fate' \in [1 .. MaxRequests -> Fates]
        BY <2>1, Reporting
    <2> QED
        BY <2>2 DEF b
<1>5. Address \in Addresses \cup {Bad}
    BY AddressTyped
<1>6. Linked' /\ ToLookAt' = Tail(ct.chain) /\ ct' \in Thread
    <2> DEFINE ip == Address
    <2>1. ip \in Addresses \cup {Bad} /\ ct' = [ct EXCEPT !.pc = "advance", !.ip = ip]
        BY <1>5
    <2> HIDE DEF ip
    <2> QED
        BY <1>4, <2>1, Behind
<1>7. Typed'
    BY <1>4, <1>6 DEF ActiveInv, Typed
<1>8. OneOwner'
    <2>1. Apart(Range(free), Range(asked), Range(Tail(ct.chain)), Range(result'), InHand, Waiting)
        <3>1. CASE Range(result') = Range(result)
            BY <1>1, <1>2, <3>1 DEF Apart
        <3>2. CASE Range(result') = Range(result) \cup {ct.cur}
            BY <1>1, <1>2, <3>2 DEF Apart
        <3> QED
            BY <1>4, <3>1, <3>2
    <2>2. InHand' = InHand /\ Waiting' = Waiting
        BY DEF InHand, Waiting
    <2> QED
        BY <1>1, <1>4, <1>6, <2>1, <2>2 DEF ActiveInv, OneOwner
<1>9. Asking'
    <2>1. \A x \in Range(asked) \cup Range(Tail(ct.chain)) : x \in Blocks
        BY <1>1, Owned, LenProperties DEF ActiveInv, Range
    <2>2. \A x \in Range(asked) \cup Range(Tail(ct.chain)) : block[x].dest \in Dests
        BY <1>1 DEF ActiveInv, Asking
    <2> QED
        BY <1>4, <1>6, <2>1, <2>2 DEF Asking
<1>10. OneAttempt'
    BY DEF ActiveInv, OneAttempt
<1> QED
    BY <1>6, <1>7, <1>8, <1>9, <1>10 DEF ActiveInv

\* The address is invalid, or the attempt fails at once.
LEMMA FailsStep == ASSUME ActiveInv, Fails PROVE ActiveInv'
<1>1. /\ ct.pc = "look" /\ Report(ct.cur, FALSE) /\ backoff' = backoff \union {Address}
      /\ ct' = [ct EXCEPT !.pc = "advance", !.ip = Address] /\ UNCHANGED <<free, asked, login, handling, requests>>
    BY DEF Fails, Looks
<1>2. backoff' \subseteq Addresses \cup {Bad}
    BY <1>1, AddressTyped DEF ActiveInv, Typed
<1> QED
    BY <1>1, <1>2, AtOnce

\* The connection is there at once.
LEMMA SucceedsStep == ASSUME ActiveInv, Succeeds PROVE ActiveInv'
<1>1. /\ ct.pc = "look" /\ Report(ct.cur, TRUE) /\ backoff' = backoff
      /\ ct' = [ct EXCEPT !.pc = "advance", !.ip = Address] /\ UNCHANGED <<free, asked, login, handling, requests>>
    BY DEF Succeeds, Looks
<1>2. backoff' \subseteq Addresses \cup {Bad}
    BY <1>1 DEF ActiveInv, Typed
<1> QED
    BY <1>1, <1>2, AtOnce

\* The connection is being opened, and no other for the same address and user.
LEMMA ConnectingStep == ASSUME ActiveInv, Connecting PROVE ActiveInv'
<1> DEFINE new == [dest |-> block[ct.cur].dest, cb |-> ct.cur]
<1>1. /\ ct.pc = "look" /\ ~Busy /\ login' = login \cup {new} /\ ct' = [ct EXCEPT !.pc = "advance", !.ip = Address]
      /\ UNCHANGED <<free, block, asked, result, backoff, handling, requests, fate>>
    BY DEF Connecting, Looks
<1>2. /\ ToLookAt = ct.chain /\ Range(ToLookAt) = {ct.cur} \cup Range(Tail(ct.chain)) /\ ct.cur \in Blocks
      /\ ct.cur \notin Range(Tail(ct.chain)) /\ IsInjective(Tail(ct.chain)) /\ Tail(ct.chain) \in Seq(Blocks)
      /\ block[ct.cur].dest \in Dests
    BY <1>1, InChain
<1>3. Apart(Range(free), Range(asked), Range(ToLookAt), Range(result), InHand, Waiting)
    BY DEF ActiveInv, OneOwner
<1>4. Address \in Addresses \cup {Bad}
    BY <1>1, AddressTyped
<1>5. Linked' /\ ToLookAt' = Tail(ct.chain) /\ ct' \in Thread
    <2> DEFINE ip == Address
    <2>1. ip \in Addresses \cup {Bad} /\ ct' = [ct EXCEPT !.pc = "advance", !.ip = ip]
        BY <1>1, <1>4
    <2> HIDE DEF ip
    <2> QED
        BY <1>1, <2>1, Behind
<1>6. new \in [dest : Dests, cb : Blocks] /\ new.cb = ct.cur /\ new.dest = block[ct.cur].dest
    BY <1>2
<1>7. \A l \in login : l.dest # block[ct.cur].dest
    BY <1>1 DEF Busy
<1> HIDE DEF new
<1>8. login' \in SUBSET [dest : Dests, cb : Blocks] /\ IsFiniteSet(login')
    BY <1>1, <1>6, FS_AddElement DEF ActiveInv, Typed
<1>9. Typed'
    BY <1>1, <1>5, <1>8 DEF ActiveInv, Typed
<1>10. Waiting' = Waiting \cup {ct.cur}
    BY <1>1, <1>6 DEF Waiting
<1>11. ct.cur \notin Waiting
    BY <1>2, <1>3 DEF Apart
<1>12. \A l, m \in login' : l.cb = m.cb => l = m
    <2>1. \A l \in login : l.cb # new.cb
        BY <1>6, <1>11 DEF Waiting
    <2>2. \A l, m \in login : l.cb = m.cb => l = m
        BY DEF ActiveInv, OneOwner
    <2> QED
        BY <1>1, <2>1, <2>2
<1>13. OneOwner'
    <2>1. Apart(Range(free), Range(asked), Range(Tail(ct.chain)), Range(result), InHand, Waiting')
        BY <1>2, <1>3, <1>10 DEF Apart
    <2>2. InHand' = InHand
        BY <1>1 DEF InHand
    <2> QED
        BY <1>1, <1>2, <1>5, <1>12, <2>1, <2>2 DEF ActiveInv, OneOwner
<1>14. Asking'
    BY <1>1, <1>2, <1>5 DEF ActiveInv, Asking
<1>15. OneAttempt'
    BY <1>1, <1>6, <1>7 DEF ActiveInv, OneAttempt
<1> QED
    BY <1>5, <1>9, <1>13, <1>14, <1>15 DEF ActiveInv

-------------------------------------------------------------------------------
\* onActiveConnect: an attempt has ended, either way.
LEMMA Ended ==
  ASSUME ActiveInv, NEW l \in login, NEW ok \in BOOLEAN, Report(l.cb, ok), login' = login \ {l},
         UNCHANGED <<free, asked, ct, handling, requests>>, backoff' \subseteq Addresses \cup {Bad}
  PROVE  ActiveInv'
<1> DEFINE b == l.cb
<1>1. b \in Blocks /\ b \in Waiting /\ Report(b, ok)
    BY DEF ActiveInv, Typed, Waiting
<1>2. Apart(Range(free), Range(asked), Range(ToLookAt), Range(result), InHand, Waiting)
    BY DEF ActiveInv, OneOwner
<1>3. \A k, m \in login : k.cb = m.cb => k = m
    BY DEF ActiveInv, OneOwner
<1>4. Waiting' \subseteq Waiting \ {b}
    BY <1>3 DEF Waiting
<1> HIDE DEF b
<1>5. b \notin Range(result) /\ b \notin Range(asked) /\ b \notin Range(ToLookAt)
    BY <1>1, <1>2 DEF Apart
<1>6. /\ block' \in [Blocks -> Block]
      /\ \A x \in Blocks : block'[x].next = block[x].next /\ block'[x].dest = block[x].dest
      /\ result' \in Seq(Blocks) /\ IsInjective(result')
      /\ Range(result') = Range(result) \/ Range(result') = Range(result) \cup {b}
      /\ fate' \in [1 .. MaxRequests -> Fates]
    BY <1>1, <1>5, Reporting
<1>7. ToLookAt' = ToLookAt /\ Range(ToLookAt) \subseteq Blocks
    <2>1. ToLookAt' = ToLookAt
        BY DEF ToLookAt
    <2>2. ToLookAt \in Seq(Blocks)
        <3>1. ct.pc = "advance" => ToLookAt = Tail(ct.chain) /\ Tail(ct.chain) \in Seq(Blocks)
            BY InChain
        <3>2. ct.pc # "advance" => ToLookAt = ct.chain /\ ct.chain \in Seq(Blocks)
            BY DEF ToLookAt, ActiveInv, Typed, Thread
        <3> QED
            BY <3>1, <3>2
    <2>3. Range(ToLookAt) \subseteq Blocks
        BY <2>2, LenProperties DEF Range
    <2> QED
        BY <2>1, <2>3
<1>8. Linked'
    <2>1. \A x \in Range(ToLookAt) : block'[x].next = block[x].next
        BY <1>6, <1>7
    <2>2. ct.cur # None => block'[ct.cur].next \in {None, block[ct.cur].next}
        BY <1>6 DEF ActiveInv, Typed, Thread
    <2>3. ct' = ct
        OBVIOUS
    <2> QED
        BY <2>1, <2>2, <2>3, ChainKept
<1>9. login' \in SUBSET [dest : Dests, cb : Blocks] /\ IsFiniteSet(login')
    BY FS_Subset DEF ActiveInv, Typed
<1>10. Typed'
    BY <1>6, <1>9 DEF ActiveInv, Typed
<1>11. OneOwner'
    <2>1. Apart(Range(free), Range(asked), Range(ToLookAt), Range(result'), InHand, Waiting')
        <3>1. CASE Range(result') = Range(result)
            BY <1>2, <1>4, <3>1 DEF Apart
        <3>2. CASE Range(result') = Range(result) \cup {b}
            <4>1. b \notin Waiting' /\ Waiting' \subseteq Waiting
                BY <1>4
            <4>2. b \notin Range(free) /\ b \notin InHand
                BY <1>1, <1>2 DEF Apart
            <4> QED
                BY <1>2, <1>5, <3>2, <4>1, <4>2 DEF Apart
        <3> QED
            BY <1>6, <3>1, <3>2
    <2>2. InHand' = InHand
        BY DEF InHand
    <2>3. \A k, m \in login' : k.cb = m.cb => k = m
        BY <1>3
    <2> QED
        BY <1>6, <1>7, <2>1, <2>2, <2>3 DEF ActiveInv, OneOwner
<1>12. Asking'
    BY <1>6, <1>7, Owned DEF ActiveInv, Asking
<1>13. OneAttempt'
    BY DEF ActiveInv, OneAttempt
<1> QED
    BY <1>8, <1>10, <1>11, <1>12, <1>13 DEF ActiveInv

\* The connection is there, or it has failed or run out of time.
LEMMA EventsStep == ASSUME ActiveInv, Events PROVE ActiveInv'
<1>1. PICK l \in login : Opened(l) \/ OpenFails(l)
    BY DEF Events
<1>2. l.dest \in Dests /\ backoff \subseteq Addresses \cup {Bad}
    BY DEF ActiveInv, Typed
<1>3. l.dest[1] \in Addresses \cup {Bad}
    BY <1>2 DEF Addresses
<1>4. CASE Opened(l)
    <2>1. /\ Report(l.cb, TRUE) /\ login' = login \ {l} /\ backoff' \subseteq Addresses \cup {Bad}
          /\ UNCHANGED <<free, asked, ct, handling, requests>>
        BY <1>2, <1>4 DEF Opened
    <2> QED
        BY <2>1, Ended
<1>5. CASE OpenFails(l)
    <2>1. /\ Report(l.cb, FALSE) /\ login' = login \ {l} /\ backoff' \subseteq Addresses \cup {Bad}
          /\ UNCHANGED <<free, asked, ct, handling, requests>>
        BY <1>2, <1>3, <1>5 DEF OpenFails
    <2> QED
        BY <2>1, Ended
<1> QED
    BY <1>1, <1>4, <1>5

\* A step that changes neither blocks nor their owners: time passes, or nothing happens.
LEMMA StillStep ==
  ASSUME ActiveInv, UNCHANGED <<free, block, asked, result, ct, login, handling, requests, fate>>, backoff' \subseteq backoff
  PROVE  ActiveInv'
<1>1. Typed' /\ Linked' /\ Asking' /\ OneAttempt'
    BY DEF ActiveInv, Typed, Linked, Second, Asking, ToLookAt, OneAttempt
<1>2. OneOwner'
    BY DEF ActiveInv, OneOwner, ToLookAt, InHand, Waiting
<1> QED
    BY <1>1, <1>2 DEF ActiveInv

-------------------------------------------------------------------------------
\* The pool is full and nothing is asked for.
LEMMA ActiveInit == Init => ActiveInv
<1> SUFFICES ASSUME Init PROVE ActiveInv
    OBVIOUS
<1>1. /\ free = [b \in Blocks |-> b] /\ asked = <<>> /\ result = <<>> /\ ct = AtRest /\ login = {} /\ backoff = {}
      /\ block = [b \in Blocks |-> [dest |-> <<Bad, Bad>>, next |-> None, ok |-> FALSE, request |-> 0]]
      /\ handling = None /\ requests = 0 /\ fate = [r \in 1 .. MaxRequests |-> "none"]
    BY DEF Init
<1>2. MaxRequests \in Nat
    BY RequestsAssumption
<1>3. free \in Seq(Blocks) /\ IsInjective(free)
    <2>1. \A i \in 1 .. MaxRequests : free[i] = i /\ i \in Blocks
        BY <1>1 DEF Blocks
    <2>2. free = [i \in 1 .. MaxRequests |-> i]
        BY <1>1 DEF Blocks
    <2>3. free \in Seq(Blocks)
        BY <1>2, <2>2, <2>1, IsASeq DEF Blocks
    <2> QED
        BY <2>1, <2>2, <2>3 DEF IsInjective
<1>4. <<>> \in Seq(Blocks) /\ DOMAIN <<>> = {} /\ Len(<<>>) = 0
    OBVIOUS
<1>5. Range(<<>>) = {} /\ IsInjective(<<>>)
    BY <1>4 DEF Range, IsInjective
<1>6. /\ ct.pc = "take" /\ ct.chain = <<>> /\ ct.cur = None /\ ct \in Thread
    BY <1>1, <1>4 DEF AtRest, Thread
<1>7. ToLookAt = <<>>
    BY <1>6 DEF ToLookAt
<1>8. block \in [Blocks -> Block]
    BY <1>1, <1>2 DEF Block
<1>9. Typed
    <2>1. login \in SUBSET [dest : Dests, cb : Blocks] /\ IsFiniteSet(login) /\ backoff \in SUBSET (Addresses \cup {Bad})
        BY <1>1, FS_EmptySet
    <2>2. fate \in [1 .. MaxRequests -> Fates]
        BY <1>1 DEF Fates
    <2>3. handling \in Blocks \cup {None} /\ requests \in 0 .. MaxRequests
        BY <1>1, <1>2
    <2>4. asked \in Seq(Blocks) /\ result \in Seq(Blocks)
        BY <1>1, <1>4
    <2> QED
        BY <1>3, <1>6, <1>8, <2>1, <2>2, <2>3, <2>4 DEF Typed
<1>10. OneOwner
    <2>1. InHand = {} /\ Waiting = {}
        BY <1>1 DEF InHand, Waiting
    <2>2. Apart(Range(free), {}, {}, {}, {}, {})
        BY DEF Apart
    <2> QED
        BY <1>1, <1>3, <1>5, <1>7, <2>1, <2>2 DEF OneOwner
<1>11. Linked
    BY <1>4, <1>6 DEF Linked
<1>12. Asking /\ OneAttempt
    BY <1>1, <1>5, <1>7 DEF Asking, OneAttempt
<1> QED
    BY <1>9, <1>10, <1>11, <1>12 DEF ActiveInv

\* Every step of the service, of the connection thread and of time keeps the invariant.
LEMMA ActiveNext == ActiveInv /\ [Next]_vars => ActiveInv'
<1> SUFFICES ASSUME ActiveInv, [Next]_vars PROVE ActiveInv'
    OBVIOUS
<1>1. CASE \E d \in Dests : Request(d)
    BY <1>1, RequestStep
<1>2. CASE Service
    BY <1>2, AnswerStep, ReleaseStep DEF Service
<1>3. CASE Connector
    BY <1>3, TakeStep, TakeEndsStep, PassOverStep, FailsStep, SucceedsStep, ConnectingStep, NoConnectStep, AdvanceStep
       DEF Connector, Examine
<1>4. CASE Events
    BY <1>4, EventsStep
<1>5. CASE \E ip \in backoff : Elapse(ip)
    <2>1. UNCHANGED <<free, block, asked, result, ct, login, handling, requests, fate>> /\ backoff' \subseteq backoff
        BY <1>5 DEF Elapse
    <2> QED
        BY <2>1, StillStep
<1>6. CASE UNCHANGED vars
    <2>1. UNCHANGED <<free, block, asked, result, ct, login, handling, requests, fate>> /\ backoff' \subseteq backoff
        BY <1>6 DEF vars
    <2> QED
        BY <2>1, StillStep
<1> QED
    BY <1>1, <1>2, <1>3, <1>4, <1>5, <1>6 DEF Next

\* Blocks have one owner each, the links in them are the chain that the thread follows, as far as they
\* have not been read, and no two attempts are for the same connection.
THEOREM ActiveIsInvariant == Spec => []ActiveInv
<1> QED
    BY ActiveInit, ActiveNext, PTL DEF Spec

\* Owners of their own are places in one sequence that do not meet.
LEMMA OneOwnerOnePlace == ActiveInv => OnePlace
<1> SUFFICES ASSUME ActiveInv PROVE OnePlace
    OBVIOUS
<1> DEFINE inHand == IF handling = None THEN <<>> ELSE <<handling>>
           p == free \o asked  q == p \o ToLookAt  r == q \o result  places == r \o inHand
<1>1. /\ free \in Seq(Blocks) /\ asked \in Seq(Blocks) /\ result \in Seq(Blocks) /\ handling \in Blocks \cup {None}
      /\ Typed
    BY DEF ActiveInv, Typed
<1>2. ToLookAt \in Seq(Blocks)
    <2>1. ct.pc = "advance" => ToLookAt = Tail(ct.chain) /\ Tail(ct.chain) \in Seq(Blocks)
        BY InChain
    <2>2. ct.pc # "advance" => ToLookAt = ct.chain /\ ct.chain \in Seq(Blocks)
        BY DEF ToLookAt, ActiveInv, Typed, Thread
    <2> QED
        BY <2>1, <2>2
<1>3. inHand \in Seq(Blocks) /\ IsInjective(inHand) /\ Range(inHand) = InHand
    <2>1. CASE handling = None
        <3>1. <<>> \in Seq(Blocks) /\ DOMAIN <<>> = {}
            OBVIOUS
        <3> QED
            BY <2>1, <3>1 DEF Range, IsInjective, InHand
    <2>2. CASE handling # None
        <3>1. handling \in Blocks /\ InHand = {handling} /\ inHand = <<handling>>
            BY <1>1, <2>2 DEF InHand
        <3>2. <<handling>> \in Seq(Blocks) /\ Range(<<handling>>) = {handling} /\ IsInjective(<<handling>>)
            BY <3>1, Single
        <3> QED
            BY <3>1, <3>2
    <2> QED
        BY <2>1, <2>2
<1>4. /\ IsInjective(free) /\ IsInjective(asked) /\ IsInjective(ToLookAt) /\ IsInjective(result)
      /\ \A l, m \in login : l.cb = m.cb => l = m
      /\ Apart(Range(free), Range(asked), Range(ToLookAt), Range(result), InHand, Waiting)
    BY DEF ActiveInv, OneOwner
<1> HIDE DEF inHand
<1>5. p \in Seq(Blocks) /\ Range(p) = Range(free) \cup Range(asked) /\ IsInjective(p)
    BY <1>1, <1>4, Joined DEF Apart
<1> HIDE DEF p
<1>6. q \in Seq(Blocks) /\ Range(q) = Range(p) \cup Range(ToLookAt) /\ IsInjective(q)
    <2>1. Range(p) \cap Range(ToLookAt) = {}
        BY <1>4, <1>5 DEF Apart
    <2> QED
        BY <1>2, <1>4, <1>5, <2>1, Joined
<1> HIDE DEF q
<1>7. r \in Seq(Blocks) /\ Range(r) = Range(q) \cup Range(result) /\ IsInjective(r)
    <2>1. Range(q) \cap Range(result) = {}
        BY <1>4, <1>5, <1>6 DEF Apart
    <2> QED
        BY <1>1, <1>4, <1>6, <2>1, Joined
<1> HIDE DEF r
<1>8. Range(places) = Range(r) \cup InHand /\ IsInjective(places)
    <2>1. Range(r) \cap Range(inHand) = {}
        BY <1>3, <1>4, <1>5, <1>6, <1>7 DEF Apart
    <2> QED
        BY <1>3, <1>7, <2>1, Joined
<1>9. Waiting \cap Range(places) = {}
    BY <1>4, <1>5, <1>6, <1>7, <1>8 DEF Apart
<1>10. Cardinality(Waiting) = Cardinality(login)
    <2> DEFINE f == [l \in login |-> l.cb]
    <2>1. f \in Bijection(login, Waiting)
        <3>1. f \in [login -> Waiting]
            BY DEF Waiting
        <3>2. \A l, m \in login : f[l] = f[m] => l = m
            BY <1>4
        <3>3. \A b \in Waiting : \E l \in login : f[l] = b
            BY DEF Waiting
        <3> HIDE DEF f
        <3>4. f \in Injection(login, Waiting) /\ f \in Surjection(login, Waiting)
            BY <3>1, <3>2, <3>3 DEF Injection, Surjection, IsInjective
        <3> QED
            BY <3>4 DEF Bijection
    <2>2. ExistsBijection(login, Waiting)
        BY <2>1 DEF ExistsBijection
    <2>3. IsFiniteSet(login)
        BY <1>1 DEF Typed
    <2> QED
        BY <2>2, <2>3, FS_Bijection
<1> QED
    BY <1>8, <1>9, <1>10 DEF OnePlace, inHand, p, q, r

\* ActiveSound holds for any number of requests, addresses and users and any size of the queues: a
\* block is free, queued, looked at, sent back or in the service's hands, and a destination is connected
\* to once at a time (CService::doActiveConnect, CConnectManager::doActiveConnect).
THEOREM ActiveIsSound == Spec => []ActiveSound
<1>1. ActiveInv => TypeOK
    <2> SUFFICES ASSUME ActiveInv PROVE TypeOK
        OBVIOUS
    <2>1. Typed /\ ct \in Thread
        BY DEF ActiveInv, Typed
    <2>2. Range(free) \cup Range(asked) \cup Range(result) \subseteq Blocks
        BY <2>1, Owned
    <2>3. Range(fate) \subseteq Fates
        BY <2>1 DEF Typed, Range
    <2> QED
        BY <2>1, <2>2, <2>3 DEF TypeOK, Typed, Thread, Fates
<1>2. ActiveInv => ActiveSound
    BY <1>1, OneOwnerOnePlace DEF ActiveInv, ActiveSound
<1> QED
    BY <1>2, ActiveIsInvariant, PTL

-------------------------------------------------------------------------------
(* The HTTP requests that a service sends.                                   *)

TransferStatus == {"none", "connecting", "ssl", "normal", "AlreadyWrite", "ConnectError", "SSLConnectError", "TimeOut",
                   "DataError", "CanRead"}
Transfer == [status : TransferStatus, tls : BOOLEAN, out : 0..2, got : 0..3]
Socket == [st : {"none", "wait", "up", "down"}, sent : 0..3, fin : BOOLEAN, room : BOOLEAN, hs : BOOLEAN, late : BOOLEAN,
           edge : BOOLEAN]
HttpEvent == [b : HttpBlocks \cup {"none"}, in : BOOLEAN, out : BOOLEAN, bad : BOOLEAN]
BlocksTyped ==
  /\ blk \in [HttpBlocks -> Transfer] /\ net \in [HttpBlocks -> Socket]
  /\ freeBlk \in [HttpBlocks -> {0, 1}] /\ user \in [HttpBlocks -> {0, 1}] /\ queue \in Seq(HttpBlocks)
HttpTyped ==
  /\ http \in [pc : {"created", "listen", "handle", "read", "ended"}, ev : HttpEvent]
  /\ httpStatus \in {"Stop", "Run", "Stopping"} /\ unload \in {"no", "waits", "done"}

\* A block is free, in the queue, or has a connection.
Placed ==
  /\ IsInjective(queue)
  /\ \A b \in HttpBlocks : /\ freeBlk[b] = 1 => b \notin Range(queue) /\ net[b].st = "none" /\ user[b] = 0
                           /\ b \in Range(queue) => net[b].st = "none"
                           /\ freeBlk[b] = 0 => b \in Range(queue) \/ net[b].st # "none"
\* What a block without a connection knows of one is nothing; the server answers what it has been sent.
Connected(b) == /\ net[b].st = "none" => ~ net[b].edge /\ ~ net[b].fin /\ ~ net[b].hs
                /\ net[b].sent > 0 => blk[b].out = 0
\* The thread handles the event of an open connection; data come only where no more is to be written,
\* unless the connection is being closed.
AtWork ==
  /\ http.pc \in {"handle", "read"} => http.ev.b \in HttpBlocks /\ net[http.ev.b].st # "none"
  /\ http.pc = "handle" /\ http.ev.in /\ ~ http.ev.bad => blk[http.ev.b].out = 0
\* The service waits for a thread that has started.
Stopping ==
  /\ httpStatus = "Stop" <=> http.pc \in {"created", "ended"}
  /\ http.pc = "created" => unload = "no"
  /\ unload = "done" => http.pc = "ended"

ClientInv == BlocksTyped /\ HttpTyped /\ Placed /\ (\A b \in HttpBlocks : Connected(b)) /\ AtWork /\ Stopping

-------------------------------------------------------------------------------
\* A queue in which no block stands twice has room for one that is not in it.
LEMMA RoomInQueue ==
  ASSUME Cardinality(HttpBlocks) <= HttpQueueCap, NEW s \in Seq(HttpBlocks), IsInjective(s)
  PROVE  Len(s) <= HttpQueueCap /\ \A b \in HttpBlocks : b \notin Range(s) => Len(s) < HttpQueueCap
<1> PICK n \in Nat : n = Len(s)
    BY LenProperties
<1>1. DOMAIN s = 1..n /\ \A i \in 1..n : s[i] \in Range(s) /\ s[i] \in HttpBlocks
    BY LenProperties, ElementOfSeq DEF Range
<1>2. IsFiniteSet(1..n) /\ Cardinality(1..n) = n
    <2>1. IsFiniteSet(1..n) /\ Cardinality(1..n) = IF 1 > n THEN 0 ELSE n - 1 + 1
        <3>1. 1 \in Int /\ n \in Int
            OBVIOUS
        <3> QED
            BY <3>1, FS_Interval, Zenon
    <2> QED
        BY <2>1
<1>3. Cardinality(HttpBlocks) \in Nat /\ HttpQueueCap \in Nat
    BY HttpAssumption, FS_CardinalityType
<1>4. ASSUME NEW T \in SUBSET HttpBlocks, Range(s) \subseteq T PROVE n <= Cardinality(T)
    <2>1. s \in [1..n -> T]
        BY <1>1, <1>4
    <2>2. s \in Injection(1..n, T)
        BY <2>1 DEF Injection
    <2>3. IsFiniteSet(T)
        BY HttpAssumption, FS_Subset
    <2> QED
        BY <1>2, <2>2, <2>3, FS_Injection
<1>5. ASSUME NEW b \in HttpBlocks, b \notin Range(s) PROVE Len(s) < HttpQueueCap
    <2>1. Range(s) \subseteq HttpBlocks \ {b}
        BY <1>1, <1>5 DEF Range
    <2>2. Cardinality(HttpBlocks \ {b}) = Cardinality(HttpBlocks) - 1
        BY HttpAssumption, FS_RemoveElement
    <2> QED
        BY <1>3, <1>4, <2>1, <2>2
<1>6. Range(s) \subseteq HttpBlocks
    BY <1>1 DEF Range
<1>7. Len(s) <= HttpQueueCap
    BY <1>3, <1>4, <1>6
<1> QED
    BY <1>5, <1>7

\* What an assignment to fields of a block, or of its socket, leaves.
LEMMA TransferChanged ==
  ASSUME BlocksTyped, NEW b \in HttpBlocks, NEW s \in TransferStatus, NEW out \in 0..2, NEW got \in 0..3,
         blk' = [blk EXCEPT ![b].status = s, ![b].out = out, ![b].got = got]
  PROVE  blk' \in [HttpBlocks -> Transfer] /\ blk'[b].out = out /\ \A c \in HttpBlocks : c # b => blk'[c] = blk[c]
<1>1. blk[b] \in Transfer /\ blk \in [HttpBlocks -> Transfer]
    BY DEF BlocksTyped
<1> DEFINE t == [blk[b] EXCEPT !.status = s]
           u == [t EXCEPT !.out = out]
           v == [u EXCEPT !.got = got]
<1>2. t \in Transfer
    BY <1>1 DEF Transfer
<1>3. blk' = [blk EXCEPT ![b] = v]
    BY <1>1
<1> HIDE DEF t
<1>4. u \in Transfer /\ u.out = out
    BY <1>2 DEF Transfer
<1> HIDE DEF u
<1>5. v \in Transfer /\ v.out = out
    BY <1>4 DEF Transfer
<1> HIDE DEF v
<1> QED
    BY <1>1, <1>3, <1>5, ZenonT(60)

LEMMA SocketChanged ==
  ASSUME BlocksTyped, NEW b \in HttpBlocks, NEW r \in BOOLEAN, net' = [net EXCEPT ![b].room = r]
  PROVE  net' \in [HttpBlocks -> Socket]
         /\ \A c \in HttpBlocks : /\ net'[c].st = net[c].st /\ net'[c].edge = net[c].edge /\ net'[c].fin = net[c].fin
                                  /\ net'[c].hs = net[c].hs /\ net'[c].sent = net[c].sent
<1>1. net[b] \in Socket /\ net \in [HttpBlocks -> Socket]
    BY DEF BlocksTyped
<1> DEFINE t == [net[b] EXCEPT !.room = r]
<1>2. t \in Socket /\ t.st = net[b].st /\ t.edge = net[b].edge /\ t.fin = net[b].fin /\ t.hs = net[b].hs /\ t.sent = net[b].sent
    BY <1>1 DEF Socket
<1>3. net' = [net EXCEPT ![b] = t]
    BY <1>1
<1> HIDE DEF t
<1> QED
    BY <1>1, <1>2, <1>3

\* The thread rests, or goes on to read.
LEMMA HttpGoesOn ==
  ASSUME HttpTyped, http.pc \in {"handle", "read"}, Client!Rest \/ http' = [http EXCEPT !.pc = "read"],
         UNCHANGED <<httpStatus, unload>>
  PROVE  HttpTyped' /\ http'.pc \in {"listen", "read"} /\ (http'.pc = "read" => http'.ev.b = http.ev.b)
<1>1. CASE Client!Rest
    BY <1>1 DEF HttpTyped, HttpEvent, Client!Rest, Client!NoEvent
<1>2. CASE http' = [http EXCEPT !.pc = "read"]
    BY <1>2 DEF HttpTyped
<1> QED
    BY <1>1, <1>2

\* The thread hands the block of an open connection back.
LEMMA FinishStep ==
  ASSUME Cardinality(HttpBlocks) <= HttpQueueCap, ClientInv,
         NEW b \in HttpBlocks, NEW s, NEW out \in 0..2, NEW got \in 0..3,
         s \in {"ConnectError", "SSLConnectError", "TimeOut", "DataError", "CanRead"},
         http.pc \in {"handle", "read"}, http.ev.b = b, net[b].st # "none",
         Client!Finish(b, s, out, got), Client!Rest, UNCHANGED <<freeBlk, user, httpStatus, unload>>
  PROVE  ClientInv'
<1>1. b \notin Range(queue) /\ freeBlk[b] = 0 /\ queue \in Seq(HttpBlocks) /\ IsInjective(queue)
    BY DEF ClientInv, Placed, BlocksTyped
<1>2. Len(queue) < HttpQueueCap
    BY <1>1, RoomInQueue
<1>3. queue' = Append(queue, b)
    BY <1>2 DEF Client!Finish, Client!Queued
<1>4. queue' \in Seq(HttpBlocks) /\ Range(queue') = Range(queue) \cup {b} /\ IsInjective(queue')
    BY <1>1, <1>3, Appended
<1>5. net' = [net EXCEPT ![b] = Client!NoSocket]
      /\ blk' \in [HttpBlocks -> Transfer] /\ \A c \in HttpBlocks : c # b => blk'[c] = blk[c]
    <2>1. BlocksTyped /\ s \in TransferStatus
        BY DEF ClientInv, TransferStatus
    <2>2. /\ net' = [net EXCEPT ![b] = Client!NoSocket]
          /\ blk' = [blk EXCEPT ![b].status = s, ![b].out = out, ![b].got = got]
        BY DEF Client!Finish
    <2> QED
        BY <2>1, <2>2, TransferChanged
<1>6. Client!NoSocket \in Socket /\ Client!NoSocket.st = "none" /\ Client!NoSocket.sent = 0
      /\ ~ Client!NoSocket.edge /\ ~ Client!NoSocket.fin /\ ~ Client!NoSocket.hs
    BY DEF Client!NoSocket, Socket
<1> HIDE DEF Client!NoSocket
<1>7. BlocksTyped'
    BY <1>4, <1>5, <1>6 DEF ClientInv, BlocksTyped
<1>8. HttpTyped' /\ http'.pc = "listen" /\ AtWork'
    <2>1. http'.pc = "listen"
        BY DEF Client!Rest
    <2> QED
        BY <2>1, HttpGoesOn DEF ClientInv, AtWork
<1>9. net'[b].st = "none" /\ \A c \in HttpBlocks : c # b => net'[c] = net[c] /\ blk'[c] = blk[c]
    BY <1>5, <1>6 DEF ClientInv, BlocksTyped
<1>10. Placed'
    BY <1>1, <1>4, <1>9 DEF ClientInv, Placed
<1>11. \A c \in HttpBlocks : Connected(c)'
    <2>1. net'[b] = Client!NoSocket
        BY <1>5 DEF ClientInv, BlocksTyped
    <2> QED
        BY <1>6, <1>9, <2>1 DEF ClientInv, Connected
<1>12. Stopping'
    BY <1>8 DEF ClientInv, Stopping
<1> QED
    BY <1>7, <1>8, <1>10, <1>11, <1>12 DEF ClientInv

\* It writes, shakes hands or reads, and the connection stays.
LEMMA KeepStep ==
  ASSUME ClientInv, NEW b \in HttpBlocks, NEW s, NEW out \in 0..2, NEW got \in 0..3, NEW r \in BOOLEAN,
         s \in TransferStatus, out <= blk[b].out,
         http.pc \in {"handle", "read"}, http.ev.b = b, UNCHANGED queue,
         blk' = [blk EXCEPT ![b].status = s, ![b].out = out, ![b].got = got], net' = [net EXCEPT ![b].room = r],
         \/ Client!Rest
         \/ http' = [http EXCEPT !.pc = "read"],
         UNCHANGED <<freeBlk, user, httpStatus, unload>>
  PROVE  ClientInv'
<1>1. BlocksTyped /\ blk \in [HttpBlocks -> Transfer]
    BY DEF ClientInv, BlocksTyped
<1>2. blk' \in [HttpBlocks -> Transfer] /\ blk'[b].out = out /\ \A c \in HttpBlocks : c # b => blk'[c] = blk[c]
    BY <1>1, TransferChanged
<1>3. net' \in [HttpBlocks -> Socket]
      /\ \A c \in HttpBlocks : /\ net'[c].st = net[c].st /\ net'[c].edge = net[c].edge /\ net'[c].fin = net[c].fin
                               /\ net'[c].hs = net[c].hs /\ net'[c].sent = net[c].sent
    BY <1>1, SocketChanged
<1>4. \A c \in HttpBlocks : blk'[c].out <= blk[c].out /\ blk'[c].out \in Nat /\ blk[c].out \in Nat
    <2>1. ASSUME NEW c \in HttpBlocks PROVE blk[c].out \in Nat
        BY <1>1 DEF Transfer
    <2> QED
        BY <1>2, <2>1
<1>5. HttpTyped' /\ http'.pc \in {"listen", "read"} /\ (http'.pc = "read" => http'.ev.b = b)
    BY HttpGoesOn DEF ClientInv
<1>6. AtWork'
    BY <1>3, <1>5 DEF ClientInv, AtWork
<1>7. Placed'
    BY <1>3 DEF ClientInv, Placed
<1>8. ASSUME NEW c \in HttpBlocks PROVE Connected(c)'
    <2>1. Connected(c)
        BY DEF ClientInv
    <2>2. net[c].sent > 0 => blk'[c].out = 0
        <3> SUFFICES ASSUME net[c].sent > 0 PROVE blk'[c].out = 0
            OBVIOUS
        <3>1. blk[c].out = 0
            BY <2>1 DEF Connected
        <3>2. blk'[c].out <= blk[c].out /\ blk'[c].out \in Nat
            BY <1>4
        <3> QED
            BY <3>1, <3>2
    <2> QED
        BY <1>3, <2>1, <2>2 DEF Connected
<1>9. Stopping'
    BY <1>5 DEF ClientInv, Stopping
<1>10. BlocksTyped'
    BY <1>2, <1>3 DEF ClientInv, BlocksTyped
<1> QED
    BY <1>5, <1>6, <1>7, <1>8, <1>9, <1>10 DEF ClientInv

LEMMA StayStep ==
  ASSUME ClientInv, NEW b \in HttpBlocks, http.pc \in {"handle", "read"}, http.ev.b = b,
         UNCHANGED <<queue, blk, net>>,
         \/ Client!Rest
         \/ http' = [http EXCEPT !.pc = "read"],
         UNCHANGED <<freeBlk, user, httpStatus, unload>>
  PROVE  ClientInv'
<1>1. HttpTyped' /\ http'.pc \in {"listen", "read"} /\ (http'.pc = "read" => http'.ev.b = b)
    BY HttpGoesOn DEF ClientInv
<1>2. AtWork' /\ Stopping'
    BY <1>1 DEF ClientInv, AtWork, Stopping
<1>3. BlocksTyped' /\ Placed'
    BY DEF ClientInv, BlocksTyped, Placed
<1>4. \A c \in HttpBlocks : Connected(c)'
    BY DEF ClientInv, Connected
<1> QED
    BY <1>1, <1>2, <1>3, <1>4 DEF ClientInv

\* writeToConnect, when the connection is not being closed.
LEMMA WriteStep ==
  ASSUME Cardinality(HttpBlocks) <= HttpQueueCap, ClientInv, NEW b \in HttpBlocks,
         http.pc = "handle", http.ev.b = b, ~ http.ev.bad, Client!Write(b), UNCHANGED <<freeBlk, user, httpStatus, unload>>
  PROVE  ClientInv'
<1>1. blk[b] \in Transfer /\ net[b] \in Socket /\ net[b].st # "none" /\ (http.ev.in => blk[b].out = 0)
    BY DEF ClientInv, BlocksTyped, AtWork
<1>2. Client!ThenRead => Client!Rest \/ http' = [http EXCEPT !.pc = "read"]
    BY DEF Client!ThenRead, Client!ev
<1>3. CASE Client!ThenRead /\ UNCHANGED <<blk, net, queue>>
    BY <1>2, <1>3, StayStep
<1>4. ASSUME NEW n \in 0..(blk[b].out - 1), Client!ThenRead,
             Client!Keep(b, IF n = 0 THEN "AlreadyWrite" ELSE blk[b].status, n, blk[b].got),
             net' = [net EXCEPT ![b].room = n = 0]
      PROVE  ClientInv'
    <2> DEFINE s == IF n = 0 THEN "AlreadyWrite" ELSE blk[b].status
               got == blk[b].got
               r == (n = 0)
    <2>1. n \in 0..2 /\ got \in 0..3 /\ s \in TransferStatus /\ n <= blk[b].out /\ r \in BOOLEAN
        BY <1>1 DEF Transfer, TransferStatus
    <2>2. blk' = [blk EXCEPT ![b].status = s, ![b].out = n, ![b].got = got] /\ UNCHANGED queue
        BY <1>4 DEF Client!Keep
    <2>3. net' = [net EXCEPT ![b].room = r]
        BY <1>4
    <2> HIDE DEF s, got, r
    <2> QED
        BY <1>2, <1>4, <2>1, <2>2, <2>3, KeepStep
<1>5. CASE blk[b].out > 0 /\ Client!Finish(b, "ConnectError", blk[b].out, blk[b].got) /\ Client!ThenRead
    <2>1. Client!Rest
        BY <1>1, <1>5 DEF Client!ThenRead, Client!ev
    <2>2. blk[b].out \in 0..2 /\ blk[b].got \in 0..3
        BY <1>1 DEF Transfer
    <2> QED
        BY <1>1, <1>5, <2>1, <2>2, FinishStep
<1> QED
    BY <1>3, <1>4, <1>5 DEF Client!Write

\* doSSLConnect.
LEMMA HandshakeStep ==
  ASSUME Cardinality(HttpBlocks) <= HttpQueueCap, ClientInv, NEW b \in HttpBlocks,
         http.pc = "handle", http.ev.b = b, Client!Handshake(b), Client!Rest, UNCHANGED <<freeBlk, user, httpStatus, unload>>
  PROVE  ClientInv'
<1>1. blk[b] \in Transfer /\ net[b] \in Socket /\ net[b].st # "none"
    BY DEF ClientInv, BlocksTyped, AtWork
<1>2. blk[b].out \in 0..2 /\ blk[b].got \in 0..3 /\ blk[b].status \in TransferStatus
    BY <1>1 DEF Transfer, TransferStatus
<1>3. ASSUME NEW n \in 0..(blk[b].out - 1), Client!Keep(b, IF n = 0 THEN "AlreadyWrite" ELSE "normal", n, blk[b].got),
             net' = [net EXCEPT ![b].room = n = 0]
      PROVE  ClientInv'
    <2> DEFINE s == IF n = 0 THEN "AlreadyWrite" ELSE "normal"
               got == blk[b].got
               r == (n = 0)
    <2>1. n \in 0..2 /\ got \in 0..3 /\ s \in TransferStatus /\ n <= blk[b].out /\ r \in BOOLEAN
        BY <1>2 DEF TransferStatus
    <2>2. blk' = [blk EXCEPT ![b].status = s, ![b].out = n, ![b].got = got] /\ UNCHANGED queue
        BY <1>3 DEF Client!Keep
    <2>3. net' = [net EXCEPT ![b].room = r]
        BY <1>3
    <2> HIDE DEF s, got, r
    <2> QED
        BY <2>1, <2>2, <2>3, KeepStep
<1>4. ASSUME NEW s \in {"normal", "ssl"}, Client!Keep(b, s, blk[b].out, blk[b].got), UNCHANGED net PROVE ClientInv'
    <2> DEFINE out == blk[b].out
               got == blk[b].got
               r == net[b].room
    <2>1. out \in 0..2 /\ got \in 0..3 /\ s \in TransferStatus /\ out <= blk[b].out /\ r \in BOOLEAN
        BY <1>1, <1>2 DEF TransferStatus, Socket
    <2>2. blk' = [blk EXCEPT ![b].status = s, ![b].out = out, ![b].got = got] /\ UNCHANGED queue
        BY <1>4 DEF Client!Keep
    <2>3. net' = [net EXCEPT ![b].room = r]
        BY <1>1, <1>4 DEF ClientInv, BlocksTyped, Socket
    <2> HIDE DEF out, got, r
    <2> QED
        BY <2>1, <2>2, <2>3, KeepStep
<1>5. ASSUME NEW s \in {"TimeOut", "SSLConnectError"}, Client!Finish(b, s, blk[b].out, blk[b].got) PROVE ClientInv'
    BY <1>1, <1>2, <1>5, FinishStep
<1> QED
    BY <1>3, <1>4, <1>5 DEF Client!Handshake


\* What an assignment to a field of a socket leaves.
LEMMA SocketFields ==
  ASSUME NEW s \in Socket
  PROVE  /\ \A x \in {"wait", "up", "down"} : LET t == [s EXCEPT !.st = x] IN t \in Socket /\ t.st = x /\ t.sent = s.sent
         /\ \A x \in 0..3 : LET t == [s EXCEPT !.sent = x] IN t \in Socket /\ t.st = s.st
         /\ \A x \in BOOLEAN :
              /\ LET t == [s EXCEPT !.fin = x] IN t \in Socket /\ t.st = s.st /\ t.sent = s.sent
              /\ LET t == [s EXCEPT !.room = x] IN t \in Socket /\ t.st = s.st /\ t.sent = s.sent
              /\ LET t == [s EXCEPT !.hs = x] IN t \in Socket /\ t.st = s.st /\ t.sent = s.sent
              /\ LET t == [s EXCEPT !.late = x] IN t \in Socket /\ t.st = s.st /\ t.sent = s.sent
              /\ LET t == [s EXCEPT !.edge = x] IN t \in Socket /\ t.st = s.st /\ t.sent = s.sent
BY DEF Socket

\* doHttpConnect.
LEMMA ConnectStep ==
  ASSUME Unusual = {}, ClientInv, NEW b \in HttpBlocks, NEW tls \in BOOLEAN, NEW u \in {0, 1}, Client!Connect(b, tls, u)
  PROVE  ClientInv'
<1>1. /\ freeBlk[b] = 1 /\ b \notin Range(queue) /\ net[b].st = "none" /\ UNCHANGED <<queue, http, httpStatus, unload>>
      /\ b # http.ev.b \/ http.pc \notin {"handle", "read"}
    BY DEF Client!Connect, Client!thread, ClientInv, BlocksTyped, Placed, AtWork
<1>2. CASE UNCHANGED <<blk, freeBlk, user, net, queue>>
    BY <1>1, <1>2 DEF ClientInv, BlocksTyped, HttpTyped, Placed, Connected, AtWork, Stopping
<1>3. ASSUME NEW st \in {"wait", "up"}, freeBlk' = [freeBlk EXCEPT ![b] = freeBlk[b] - 1], user' = [user EXCEPT ![b] = u],
             net' = [net EXCEPT ![b] = [Client!NoSocket EXCEPT !.st = st, !.room = st = "up", !.edge = st = "up"]],
             blk' = [blk EXCEPT ![b] = [status |-> IF st = "wait" THEN "connecting" ELSE IF tls THEN "ssl" ELSE "normal",
                                        tls |-> tls, out |-> 2, got |-> 0]]
      PROVE  ClientInv'
    <2> DEFINE n == [Client!NoSocket EXCEPT !.st = st, !.room = st = "up", !.edge = st = "up"]
               t == [status |-> IF st = "wait" THEN "connecting" ELSE IF tls THEN "ssl" ELSE "normal",
                     tls |-> tls, out |-> 2, got |-> 0]
    <2>1. n \in Socket /\ n.st # "none" /\ n.sent = 0
        <3> PICK r \in BOOLEAN : r = (st = "up")
            OBVIOUS
        <3> DEFINE x == [Client!NoSocket EXCEPT !.st = st]
                   y == [x EXCEPT !.room = r]
                   z == [y EXCEPT !.edge = r]
        <3>1. Client!NoSocket \in Socket /\ Client!NoSocket.sent = 0
            BY DEF Socket, Client!NoSocket
        <3>2. x \in Socket /\ x.st = st /\ x.sent = 0
            <4>1. st \in {"wait", "up", "down"}
                OBVIOUS
            <4> QED
                BY <3>1, <4>1, SocketFields, ZenonT(60)
        <3> HIDE DEF x
        <3>3. y \in Socket /\ y.st = st /\ y.sent = 0
            BY <3>2, SocketFields, ZenonT(60)
        <3> HIDE DEF y
        <3>4. z \in Socket /\ z.st = st /\ z.sent = 0
            BY <3>3, SocketFields, ZenonT(60)
        <3>5. n = z
            BY DEF x, y
        <3> QED
            BY <3>4, <3>5
    <2>2. t \in Transfer
        BY DEF Transfer, TransferStatus
    <2>3. net' = [net EXCEPT ![b] = n] /\ blk' = [blk EXCEPT ![b] = t]
        BY <1>3
    <2> HIDE DEF n, t
    <2>4. freeBlk' = [freeBlk EXCEPT ![b] = 0]
        <3>1. freeBlk[b] - 1 = 0
            BY <1>1
        <3> QED
            BY <1>3, <3>1
    <2>5. BlocksTyped'
        BY <1>1, <1>3, <2>1, <2>2, <2>3, <2>4 DEF ClientInv, BlocksTyped
    <2>6. /\ net'[b] = n /\ freeBlk'[b] = 0
          /\ \A c \in HttpBlocks : c # b => /\ net'[c] = net[c] /\ blk'[c] = blk[c] /\ user'[c] = user[c]
                                            /\ freeBlk'[c] = freeBlk[c]
        BY <1>3, <2>3, <2>4 DEF ClientInv, BlocksTyped
    <2>7. Placed'
        BY <1>1, <2>1, <2>6 DEF ClientInv, Placed
    <2>8. ASSUME NEW c \in HttpBlocks PROVE Connected(c)'
        BY <2>1, <2>6 DEF ClientInv, Connected
    <2>9. AtWork' /\ HttpTyped' /\ Stopping'
        BY <1>1, <2>6 DEF ClientInv, AtWork, HttpTyped, Stopping
    <2> QED
        BY <2>5, <2>7, <2>8, <2>9 DEF ClientInv
<1> QED
    BY <1>2, <1>3 DEF Client!Connect

\* onHandle takes the first of the queue.
LEMMA OnHandleStep == ASSUME ClientInv, Client!OnHandle PROVE ClientInv'
<1> PICK b : b = Head(queue)
    OBVIOUS
<1>1. /\ queue # <<>> /\ queue' = Tail(queue) /\ UNCHANGED <<blk, net, http, httpStatus, unload>>
      /\ freeBlk' = [freeBlk EXCEPT ![b] = freeBlk[b] + 1] /\ user' = [user EXCEPT ![b] = 0]
    BY DEF Client!OnHandle, Client!thread
<1>2. b \in HttpBlocks /\ queue' \in Seq(HttpBlocks) /\ Range(queue) = {b} \cup Range(queue')
      /\ IsInjective(queue') /\ b \notin Range(queue')
    BY <1>1, Taken DEF ClientInv, BlocksTyped, Placed
<1>3. freeBlk[b] = 0 /\ net[b].st = "none"
    BY <1>2 DEF ClientInv, BlocksTyped, Placed
<1>4. freeBlk' = [freeBlk EXCEPT ![b] = 1]
    <2>1. freeBlk[b] + 1 = 1
        BY <1>3
    <2> QED
        BY <1>1, <2>1
<1>5. BlocksTyped'
    BY <1>1, <1>2, <1>4 DEF ClientInv, BlocksTyped
<1>6. /\ freeBlk'[b] = 1 /\ user'[b] = 0
      /\ \A c \in HttpBlocks : c # b => user'[c] = user[c] /\ freeBlk'[c] = freeBlk[c]
    BY <1>1, <1>2, <1>4 DEF ClientInv, BlocksTyped
<1>7. Placed'
    BY <1>1, <1>2, <1>3, <1>6 DEF ClientInv, Placed
<1>8. HttpTyped' /\ AtWork' /\ Stopping'
    BY <1>1 DEF ClientInv, HttpTyped, AtWork, Stopping
<1>9. ASSUME NEW c \in HttpBlocks PROVE Connected(c)'
    BY <1>1 DEF ClientInv, Connected
<1> QED
    BY <1>5, <1>7, <1>8, <1>9 DEF ClientInv

\* The thread begins and ends, and the service waits for that.
LEMMA UnLoadStep ==
  ASSUME Unusual = {}, ClientInv, Client!OnUnLoad \/ Client!Unloaded \/ Client!Start \/ Client!Leave PROVE ClientInv'
<1>1. UNCHANGED <<blk, freeBlk, user, net, queue>>
    BY DEF Client!OnUnLoad, Client!Unloaded, Client!Start, Client!Leave
<1>2. BlocksTyped' /\ Placed' /\ \A c \in HttpBlocks : Connected(c)'
    BY <1>1 DEF ClientInv, BlocksTyped, Placed, Connected
<1>3. HttpTyped' /\ AtWork' /\ Stopping'
    <2>1. CASE Client!OnUnLoad
        BY <2>1 DEF Client!OnUnLoad, ClientInv, HttpTyped, AtWork, Stopping
    <2>2. CASE Client!Unloaded
        BY <2>2 DEF Client!Unloaded, ClientInv, HttpTyped, AtWork, Stopping
    <2>3. CASE Client!Start
        BY <2>3 DEF Client!Start, ClientInv, HttpTyped, AtWork, Stopping
    <2>4. CASE Client!Leave
        BY <2>4 DEF Client!Leave, ClientInv, HttpTyped, AtWork, Stopping
    <2> QED
        BY <2>1, <2>2, <2>3, <2>4
<1> QED
    BY <1>2, <1>3 DEF ClientInv

\* An event is that of an open connection.
LEMMA ListenStep == ASSUME ClientInv, NEW b \in HttpBlocks, Client!Listen(b) PROVE ClientInv'
<1>1. net[b] \in Socket /\ net \in [HttpBlocks -> Socket] /\ net[b].edge /\ Connected(b)
      /\ UNCHANGED <<blk, freeBlk, user, queue, httpStatus, unload>> /\ net' = [net EXCEPT ![b].edge = FALSE]
    BY DEF Client!Listen, ClientInv, BlocksTyped
<1> DEFINE n == [net[b] EXCEPT !.edge = FALSE]
<1>2. n \in Socket /\ n.st = net[b].st /\ n.sent = net[b].sent /\ n.fin = net[b].fin /\ n.hs = net[b].hs /\ ~ n.edge
    BY <1>1 DEF Socket
<1>3. net' = [net EXCEPT ![b] = n]
    BY <1>1
<1> HIDE DEF n
<1>4. net'[b] = n /\ \A c \in HttpBlocks : c # b => net'[c] = net[c]
    BY <1>1, <1>3
<1>5. BlocksTyped'
    BY <1>1, <1>2, <1>3 DEF ClientInv, BlocksTyped
<1>6. Placed'
    BY <1>1, <1>2, <1>4 DEF ClientInv, Placed
<1>7. ASSUME NEW c \in HttpBlocks PROVE Connected(c)'
    BY <1>1, <1>2, <1>4 DEF ClientInv, Connected
<1>8. /\ http.pc = "listen" /\ http'.pc = "handle" /\ http'.ev.b = b
      /\ http'.ev.in = (net[b].sent > blk[b].got \/ net[b].fin \/ net[b].st = "down")
      /\ http'.ev.bad = (net[b].fin \/ net[b].st = "down")
    BY DEF Client!Listen
<1>9. HttpTyped'
    <2>1. http' = [pc |-> "handle", ev |-> [b |-> b, in |-> http'.ev.in, out |-> net[b].room, bad |-> http'.ev.bad]]
        BY DEF Client!Listen
    <2>2. net[b].room \in BOOLEAN /\ http'.ev.in \in BOOLEAN /\ http'.ev.bad \in BOOLEAN
        BY <1>1, <1>8 DEF Socket
    <2> QED
        BY <1>1, <2>1, <2>2 DEF ClientInv, HttpTyped, HttpEvent
<1>10. net[b].st # "none"
    BY <1>1 DEF Connected
<1>11. http'.ev.in /\ ~ http'.ev.bad => blk[b].out = 0
    <2>1. net[b].sent > blk[b].got => net[b].sent > 0
        <3>1. net[b].sent \in Nat /\ blk[b].got \in Nat
            BY <1>1 DEF ClientInv, BlocksTyped, Transfer, Socket
        <3> QED
            BY <3>1
    <2> QED
        BY <1>1, <1>8, <2>1 DEF Connected
<1>12. AtWork' /\ Stopping'
    BY <1>1, <1>2, <1>4, <1>8, <1>10, <1>11 DEF ClientInv, AtWork, Stopping
<1> QED
    BY <1>5, <1>6, <1>7, <1>9, <1>12 DEF ClientInv

\* The thread handles an event and reads.
LEMMA HandleStep ==
  ASSUME Cardinality(HttpBlocks) <= HttpQueueCap, ClientInv, NEW b \in HttpBlocks,
         Client!OpenFails(b) \/ Client!Opened(b) \/ Client!Shakes(b) \/ Client!Handle(b)
  PROVE  ClientInv'
<1>1. http.pc = "handle" /\ http.ev.b = b /\ UNCHANGED <<freeBlk, user, httpStatus, unload>>
    BY DEF Client!OpenFails, Client!Opened, Client!Shakes, Client!Handle, Client!Handles, Client!ev
<1>2. blk[b] \in Transfer /\ net[b].st # "none"
    BY <1>1 DEF ClientInv, BlocksTyped, AtWork
<1>3. CASE Client!OpenFails(b)
    <2>1. blk[b].out \in 0..2 /\ blk[b].got \in 0..3
        BY <1>2 DEF Transfer
    <2> QED
        BY <1>1, <1>2, <1>3, <2>1, FinishStep DEF Client!OpenFails
<1>4. CASE Client!Opened(b)
    BY <1>1, <1>4, WriteStep, HandshakeStep DEF Client!Opened, Client!ev
<1>5. CASE Client!Shakes(b)
    BY <1>1, <1>5, HandshakeStep DEF Client!Shakes
<1>6. CASE Client!Handle(b)
    <2>1. CASE http.ev.bad
        <3>1. Client!Rest \/ http' = [http EXCEPT !.pc = "read"]
            BY <1>6, <2>1 DEF Client!Handle, Client!ThenRead, Client!ev
        <3>2. UNCHANGED <<queue, blk, net>>
            BY <1>6, <2>1 DEF Client!Handle, Client!ev
        <3> QED
            BY <1>1, <3>1, <3>2, StayStep
    <2>2. CASE ~ http.ev.bad
        BY <1>1, <1>6, <2>2, WriteStep DEF Client!Handle, Client!ev
    <2> QED
        BY <2>1, <2>2
<1> QED
    BY <1>3, <1>4, <1>5, <1>6

LEMMA ReadStep ==
  ASSUME Cardinality(HttpBlocks) <= HttpQueueCap, ClientInv, NEW b \in HttpBlocks, Client!Read(b) PROVE ClientInv'
<1>1. http.pc = "read" /\ http.ev.b = b /\ Client!Rest /\ UNCHANGED <<freeBlk, user, httpStatus, unload>>
    BY DEF Client!Read, Client!ev
<1>2. blk[b] \in Transfer /\ net[b] \in Socket /\ net[b].st # "none"
    BY <1>1 DEF ClientInv, BlocksTyped, AtWork
<1>3. blk[b].out \in 0..2 /\ blk[b].got \in 0..3 /\ blk[b].status \in TransferStatus /\ net[b].sent \in 0..3 /\ net[b].room \in BOOLEAN
    BY <1>2 DEF Transfer, Socket
<1>4. CASE UNCHANGED <<blk, net, queue>>
    BY <1>1, <1>4, StayStep
<1>5. ASSUME NEW s \in {"CanRead", "ConnectError", "DataError"}, NEW got \in 0..3, Client!Finish(b, s, blk[b].out, got)
      PROVE  ClientInv'
    BY <1>1, <1>2, <1>3, <1>5, FinishStep
<1>6. CASE Client!Keep(b, blk[b].status, blk[b].out, net[b].sent) /\ UNCHANGED net
    <2> DEFINE s == blk[b].status
               out == blk[b].out
               got == net[b].sent
               r == net[b].room
    <2>1. blk' = [blk EXCEPT ![b].status = s, ![b].out = out, ![b].got = got] /\ UNCHANGED queue
        BY <1>6 DEF Client!Keep
    <2>2. net' = [net EXCEPT ![b].room = r]
        BY <1>2, <1>6 DEF ClientInv, BlocksTyped, Socket
    <2>3. out \in 0..2 /\ got \in 0..3 /\ s \in TransferStatus /\ out <= blk[b].out /\ r \in BOOLEAN
        BY <1>3
    <2> HIDE DEF s, out, got, r
    <2> QED
        BY <1>1, <2>1, <2>2, <2>3, KeepStep
<1> QED
    BY <1>3, <1>4, <1>5, <1>6 DEF Client!Read, Client!Whole, Client!TooMuch

LEMMA MorePieces == ASSUME NEW n \in 0..3, NEW k \in (n + 1)..3 PROVE k \in 0..3
OBVIOUS

\* The network and the server.
LEMMA PeerStep ==
  ASSUME Unusual = {}, ClientInv, NEW b \in HttpBlocks,
         \/ Client!Accept(b) \/ Client!Shake(b) \/ Client!Drain(b) \/ Client!Answer(b) \/ Client!Close(b) \/ Client!Reset(b)
         \/ Client!Late(b)
  PROVE  ClientInv'
<1> USE DEF Client!Accept, Client!Shake, Client!Drain, Client!Answer, Client!Close, Client!Reset, Client!Late
<1>1. UNCHANGED <<blk, freeBlk, user, queue, http, httpStatus, unload>> /\ net[b].st # "none"
    BY DEF Client!Alone, Client!thread
<1>2. net[b] \in Socket /\ net \in [HttpBlocks -> Socket]
    BY DEF ClientInv, BlocksTyped
<1>3. PICK n \in Socket : net' = [net EXCEPT ![b] = n] /\ n.st # "none" /\ (n.sent = net[b].sent \/ blk[b].out = 0)
    <2>1. CASE Client!Accept(b)
        <3> DEFINE x == [net[b] EXCEPT !.st = "up"]
                   y == [x EXCEPT !.room = TRUE]
                   z == [y EXCEPT !.edge = TRUE]
        <3>1. x \in Socket /\ x.st # "none" /\ x.sent = net[b].sent
            BY <1>2, SocketFields
        <3>2. net' = [net EXCEPT ![b] = z]
            BY <1>2, <2>1
        <3> HIDE DEF x
        <3>3. y \in Socket /\ y.st # "none" /\ y.sent = net[b].sent
            BY <3>1, SocketFields
        <3> HIDE DEF y
        <3>4. z \in Socket /\ z.st # "none" /\ z.sent = net[b].sent
            BY <3>3, SocketFields
        <3> HIDE DEF z
        <3> QED
            BY <3>2, <3>4
    <2>2. CASE Client!Shake(b)
        <3> DEFINE x == [net[b] EXCEPT !.hs = TRUE]
                   y == [x EXCEPT !.edge = TRUE]
        <3>1. x \in Socket /\ x.st # "none" /\ x.sent = net[b].sent
            BY <1>1, <1>2, SocketFields
        <3>2. net' = [net EXCEPT ![b] = y]
            BY <1>2, <2>2
        <3> HIDE DEF x
        <3>3. y \in Socket /\ y.st # "none" /\ y.sent = net[b].sent
            BY <3>1, SocketFields
        <3> HIDE DEF y
        <3> QED
            BY <3>2, <3>3
    <2>3. CASE Client!Drain(b)
        <3> DEFINE x == [net[b] EXCEPT !.room = TRUE]
                   y == [x EXCEPT !.edge = TRUE]
        <3>1. x \in Socket /\ x.st # "none" /\ x.sent = net[b].sent
            BY <1>1, <1>2, SocketFields
        <3>2. net' = [net EXCEPT ![b] = y]
            BY <1>2, <2>3
        <3> HIDE DEF x
        <3>3. y \in Socket /\ y.st # "none" /\ y.sent = net[b].sent
            BY <3>1, SocketFields
        <3> HIDE DEF y
        <3> QED
            BY <3>2, <3>3
    <2>4. CASE Client!Answer(b)
        <3>1. PICK k \in (net[b].sent + 1)..Client!TooMuch, f \in BOOLEAN :
                     net' = [net EXCEPT ![b].sent = k, ![b].fin = f, ![b].edge = TRUE]
            BY <2>4
        <3>2. k \in 0..3 /\ blk[b].out = 0
            <4>1. net[b].sent \in 0..3
                BY <1>2 DEF Socket
            <4>2. k \in 0..3
                BY <4>1, MorePieces DEF Client!TooMuch
            <4> QED
                BY <2>4, <4>2
        <3> DEFINE x == [net[b] EXCEPT !.sent = k]
                   y == [x EXCEPT !.fin = f]
                   z == [y EXCEPT !.edge = TRUE]
        <3>3. x \in Socket /\ x.st = net[b].st
            BY <1>2, <3>2 DEF Socket
        <3>4. net' = [net EXCEPT ![b] = z]
            BY <1>2, <3>1
        <3> HIDE DEF x
        <3>5. z \in Socket /\ z.st = net[b].st
            BY <3>3 DEF Socket
        <3> HIDE DEF z
        <3> QED
            BY <1>1, <3>2, <3>4, <3>5
    <2>5. CASE Client!Close(b)
        <3> DEFINE x == [net[b] EXCEPT !.fin = TRUE]
                   y == [x EXCEPT !.edge = TRUE]
        <3>1. x \in Socket /\ x.st # "none" /\ x.sent = net[b].sent
            BY <1>1, <1>2, SocketFields
        <3>2. net' = [net EXCEPT ![b] = y]
            BY <1>2, <2>5
        <3> HIDE DEF x
        <3>3. y \in Socket /\ y.st # "none" /\ y.sent = net[b].sent
            BY <3>1, SocketFields
        <3> HIDE DEF y
        <3> QED
            BY <3>2, <3>3
    <2>6. CASE Client!Reset(b)
        <3> DEFINE x == [net[b] EXCEPT !.st = "down"]
                   y == [x EXCEPT !.edge = TRUE]
        <3>1. x \in Socket /\ x.st # "none" /\ x.sent = net[b].sent
            BY <1>1, <1>2, SocketFields
        <3>2. net' = [net EXCEPT ![b] = y]
            BY <1>2, <2>6
        <3> HIDE DEF x
        <3>3. y \in Socket /\ y.st # "none" /\ y.sent = net[b].sent
            BY <3>1, SocketFields
        <3> HIDE DEF y
        <3> QED
            BY <3>2, <3>3
    <2>7. CASE Client!Late(b)
        <3> DEFINE x == [net[b] EXCEPT !.late = TRUE]
        <3>1. x \in Socket /\ x.st # "none" /\ x.sent = net[b].sent
            BY <1>1, <1>2, SocketFields
        <3>2. net' = [net EXCEPT ![b] = x]
            BY <1>2, <2>7
        <3> HIDE DEF x
        <3> QED
            BY <3>1, <3>2
    <2> QED
        BY <2>1, <2>2, <2>3, <2>4, <2>5, <2>6, <2>7
<1>4. net'[b] = n /\ \A c \in HttpBlocks : c # b => net'[c] = net[c]
    BY <1>2, <1>3
<1>5. BlocksTyped'
    BY <1>1, <1>2, <1>3 DEF ClientInv, BlocksTyped
<1>6. Placed'
    BY <1>1, <1>3, <1>4 DEF ClientInv, Placed
<1>7. ASSUME NEW c \in HttpBlocks PROVE Connected(c)'
    BY <1>1, <1>3, <1>4 DEF ClientInv, Connected
<1>8. HttpTyped' /\ AtWork' /\ Stopping'
    BY <1>1, <1>3, <1>4 DEF ClientInv, HttpTyped, AtWork, Stopping
<1> QED
    BY <1>5, <1>6, <1>7, <1>8 DEF ClientInv

LEMMA ClientNext ==
  ASSUME Unusual = {}, Cardinality(HttpBlocks) <= HttpQueueCap, ClientInv, Client!Next PROVE ClientInv'
<1>1. CASE Client!Service \/ Client!OnUnLoad
    BY <1>1, OnHandleStep, UnLoadStep DEF Client!Service
<1>2. CASE Client!Http
    BY <1>2, UnLoadStep, ListenStep, HandleStep, ReadStep DEF Client!Http
<1>3. CASE Client!Peer
    BY <1>3, PeerStep DEF Client!Peer
<1>4. ASSUME NEW b \in HttpBlocks, NEW tls \in BOOLEAN, NEW u \in {0, 1}, Client!Connect(b, tls, u) PROVE ClientInv'
    BY <1>4, ConnectStep
<1> QED
    BY <1>1, <1>2, <1>3, <1>4 DEF Client!Next

LEMMA ClientInit == Client!Init => ClientInv
<1> SUFFICES ASSUME Client!Init PROVE ClientInv
    OBVIOUS
<1>1. queue = <<>> /\ Range(queue) = {} /\ IsInjective(queue)
    BY DEF Client!Init, Range, IsInjective
<1>2. BlocksTyped
    BY DEF Client!Init, BlocksTyped, Transfer, TransferStatus, Socket, Client!NoSocket
<1>3. HttpTyped /\ AtWork /\ Stopping
    BY DEF Client!Init, HttpTyped, HttpEvent, Client!NoEvent, AtWork, Stopping
<1>4. Placed
    BY <1>1 DEF Client!Init, Placed, Client!NoSocket
<1>5. ASSUME NEW c \in HttpBlocks PROVE Connected(c)
    BY DEF Client!Init, Connected, Client!NoSocket
<1> QED
    BY <1>2, <1>3, <1>4, <1>5 DEF ClientInv

LEMMA ClientStill == ClientInv /\ UNCHANGED clientVars => ClientInv'
BY DEF ClientInv, BlocksTyped, HttpTyped, Placed, Connected, AtWork, Stopping, clientVars

\* The instance's name for it.
LEMMA SameCardinality == \A S : Client!Cardinality(S) = Cardinality(S)
BY DEF Client!Cardinality, Cardinality

\* How often a block stands in the queue.
LEMMA StandsOnce ==
  ASSUME ClientInv, NEW b \in HttpBlocks PROVE Client!Count(b) = IF b \in Range(queue) THEN 1 ELSE 0
<1>1. queue \in Seq(HttpBlocks) /\ IsInjective(queue)
    BY DEF ClientInv, BlocksTyped, Placed
<1>2. CASE b \in Range(queue)
    <2>1. PICK i \in DOMAIN queue : queue[i] = b
        BY <1>2 DEF Range
    <2>2. {j \in DOMAIN queue : queue[j] = b} = {i}
        BY <1>1, <2>1 DEF IsInjective
    <2> QED
        BY <1>2, <2>2, FS_Singleton, SameCardinality DEF Client!Count
<1>3. CASE b \notin Range(queue)
    <2>1. {j \in DOMAIN queue : queue[j] = b} = {}
        BY <1>3 DEF Range
    <2> QED
        BY <1>3, <2>1, FS_EmptySet, SameCardinality DEF Client!Count
<1> QED
    BY <1>2, <1>3

ClientInvariant == part = "client" => ClientInv

\* While the queue of the blocks that are handed back holds all of them, the server does not answer before
\* it has the whole request, no handshake fails within the call and the service does not end before its
\* thread has begun: a block is free, in use or handed back, and never two of these, a free one holds no
\* buffer of its user's, and the thread is gone when the service has unloaded, for any number of blocks
\* (CHttpConnectMgr, CHttpDataHandler::doHttpConnect and onHandle).
THEOREM ClientIsSound ==
  ASSUME Unusual = {}, Cardinality(HttpBlocks) <= HttpQueueCap PROVE PartsSpec => []ClientSound
<1>1. PartsInit => ClientInvariant
    BY ClientInit DEF PartsInit, ClientInvariant
<1>2. ClientInvariant /\ [PartsNext]_partVars => ClientInvariant'
    <2> SUFFICES ASSUME ClientInvariant, [PartsNext]_partVars, part' = "client" PROVE ClientInv'
        BY DEF ClientInvariant
    <2>1. part = part' /\ ClientInv
        BY DEF ClientInvariant, PartsNext, Alone, partVars
    <2>2. CASE Alone("client") /\ Client!Next
        BY <2>1, <2>2, ClientNext
    <2>3. CASE UNCHANGED clientVars
        BY <2>1, <2>3, ClientStill
    <2> QED
        BY <2>1, <2>2, <2>3 DEF PartsNext, Alone, partVars
<1>3. ClientInvariant => ClientSound
    <2> SUFFICES ASSUME ClientInv PROVE Client!TypeOK /\ Client!OnePlace /\ Client!ThreadGone
        BY DEF ClientInvariant, ClientSound
    <2>1. Client!TypeOK
        <3>1. ASSUME NEW b \in HttpBlocks PROVE freeBlk[b] \in 0..2 /\ blk[b].got \in 0..3 /\ blk[b].out \in 0..2
            BY DEF ClientInv, BlocksTyped, Transfer
        <3>2. Len(queue) <= HttpQueueCap
            BY RoomInQueue DEF ClientInv, BlocksTyped, Placed
        <3> QED
            BY <3>1, <3>2 DEF ClientInv, HttpTyped, Client!TypeOK, Client!TooMuch
    <2>2. Client!OnePlace
        <3> SUFFICES ASSUME NEW b \in HttpBlocks
                     PROVE  /\ freeBlk[b] + Client!Count(b) + (IF Client!Open(b) THEN 1 ELSE 0) = 1
                            /\ freeBlk[b] > 0 => user[b] = 0
            BY DEF Client!OnePlace
        <3>1. freeBlk[b] \in {0, 1} /\ (Client!Open(b) <=> net[b].st # "none")
            BY DEF ClientInv, BlocksTyped, Client!Open
        <3>2. Client!Count(b) = IF b \in Range(queue) THEN 1 ELSE 0
            BY StandsOnce
        <3> QED
            BY <3>1, <3>2 DEF ClientInv, Placed
    <2>3. Client!ThreadGone
        BY DEF ClientInv, Stopping, Client!ThreadGone
    <2> QED
        BY <2>1, <2>2, <2>3
<1> QED
    BY <1>1, <1>2, <1>3, PTL DEF PartsSpec


-------------------------------------------------------------------------------
(* The life of a service.                                                    *)

Ids == 1..Len(Registered)
\* What is done with the modules: not yet, under way, or over.
BeforeLoad == {"timer", "comm", "net", "await", "await_result", "init"}
Running == {"start", "loop", "onHandle", "reload", "updated", "crashed"}
Cleared == {"clear", "net_ends", "join", "exited"}
ServiceTyped == /\ sv = [pc |-> sv.pc, at |-> sv.at] /\ sv.at \in 1..(Len(Registered) + 1)
                /\ sv.pc \in BeforeLoad \cup {"load", "unload"} \cup Running \cup Cleared
ThreadsTyped == /\ runFlag \in BOOLEAN /\ isRunning \in BOOLEAN /\ runResult \in BOOLEAN /\ timerRun \in BOOLEAN
                /\ conn \in {"none", "created", "run", "listen", "enter", "loop", "ending", "ended"}
                /\ mgr \in {"none", "live", "freed"} /\ status \in {0, 1} /\ handler \in {"null", "set", "gone"}
                /\ timer \in {"none", "rest", "firing", "ended"}
CountsTyped ==
  /\ loads \in [Life!Modules -> {0, 1}] /\ unloads \in [Life!Modules -> {0, 1}]
  /\ config \in Nat /\ seen \in Nat /\ seen <= config
LifeTyped == ServiceTyped /\ ThreadsTyped /\ CountsTyped

\* The thread is known to run, and the service deletes the manager of none that may still come to run.
Threads ==
  /\ isRunning <=> conn \in {"run", "listen", "enter", "loop", "ending"}
  /\ ~ runResult => conn \in {"ending", "ended"}
  /\ conn = "created" => sv.pc \in {"await", "await_result"}
  /\ conn = "none" => sv.pc \notin {"await", "await_result"}
  /\ mgr = "none" => conn = "none"
  /\ mgr = "freed" => sv.pc \in {"join", "exited"} /\ conn \in {"none", "ended"}
  /\ sv.pc \in {"timer", "comm", "net"} => conn = "none" /\ mgr = "none"
  /\ sv.pc = "timer" => timer = "none"
  /\ sv.pc = "exited" => timer \in {"none", "ended"}

\* A module is called when the loop comes to the first of its ids.
Called(i) == {Registered[j] : j \in 1..(i - 1)}
Loading ==
  /\ sv.pc \in BeforeLoad => \A m \in Life!Modules : loads[m] = 0
  /\ sv.pc = "load" => \A m \in Life!Modules : loads[m] = 1 <=> m \in Called(sv.at)
  /\ sv.pc \in BeforeLoad \cup {"load"} \cup Running => \A m \in Life!Modules : unloads[m] = 0
  /\ sv.pc = "unload" => \A m \in Life!Modules : unloads[m] = 1 <=> m \in Called(sv.at)
  /\ sv.pc \in Cleared => \A m \in Life!Modules : loads[m] <= unloads[m]

LifeInv == LifeTyped /\ Threads /\ Loading
-------------------------------------------------------------------------------
\* The ids of the modules, and the modules called so far.
LEMMA Calls ==
  /\ Len(Registered) \in Nat /\ Life!ModuleIds = Ids /\ Life!Modules = {Registered[i] : i \in Ids}
  /\ Called(1) = {} /\ Called(Len(Registered) + 1) = Life!Modules
  /\ \A i \in Ids : Called(i + 1) = Called(i) \cup {Registered[i]} /\ Registered[i] \in Life!Modules
  /\ \A i \in Ids : Life!First(i) <=> Registered[i] \notin Called(i)
<1>1. Len(Registered) \in Nat /\ Life!ModuleIds = Ids
    BY RegisteredAssumption DEF Life!ModuleIds, Ids
<1>2. Life!Modules = {Registered[i] : i \in Ids}
    BY <1>1 DEF Life!Modules
<1>3. Called(1) = {}
    BY DEF Called
<1>4. Called(Len(Registered) + 1) = Life!Modules
    BY <1>1, <1>2 DEF Called, Ids
<1>5. ASSUME NEW i \in Ids PROVE Called(i + 1) = Called(i) \cup {Registered[i]} /\ Registered[i] \in Life!Modules
    <2>1. 1..((i + 1) - 1) = (1..(i - 1)) \cup {i}
        BY <1>1 DEF Ids
    <2> QED
        BY <1>2, <2>1 DEF Called
<1>6. ASSUME NEW i \in Ids PROVE Life!First(i) <=> Registered[i] \notin Called(i)
    BY DEF Called, Life!First
<1> QED
    BY <1>1, <1>2, <1>3, <1>4, <1>5, <1>6

LEMMA LifeInit == Life!Init => LifeInv
<1> SUFFICES ASSUME Life!Init PROVE LifeInv
    OBVIOUS
<1>1. LifeTyped
    <2>1. ServiceTyped
        BY Calls DEF Life!Init, ServiceTyped, BeforeLoad
    <2>2. ThreadsTyped
        BY DEF Life!Init, ThreadsTyped
    <2>3. CountsTyped
        BY DEF Life!Init, CountsTyped
    <2> QED
        BY <2>1, <2>2, <2>3 DEF LifeTyped
<1>2. Threads
    BY DEF Life!Init, Threads
<1>3. Loading
    BY DEF Life!Init, Loading, BeforeLoad, Running, Cleared
<1> QED
    BY <1>1, <1>2, <1>3 DEF LifeInv

USE DEF Life!At, Life!Go, Life!net, Life!timers, Life!modules, Life!updates

\* The start, up to the modules.
LEMMA StartStep ==
  ASSUME LifeInv, Life!StartTimer \/ Life!InitComm \/ Life!StartNet \/ Life!AwaitRunning \/ Life!AwaitResult \/ Life!OnInit
  PROVE  LifeInv'
<1>1. Len(Registered) \in Nat
    BY Calls
<1>2. LifeTyped'
    <2>1. ServiceTyped'
        BY <1>1 DEF LifeInv, LifeTyped, ServiceTyped, BeforeLoad, Running, Cleared, Life!StartTimer, Life!InitComm, Life!StartNet,
                   Life!AwaitRunning, Life!AwaitResult, Life!OnInit
    <2>2. ThreadsTyped'
        <3>1. ThreadsTyped
            BY DEF LifeInv, LifeTyped
        <3>2. CASE Life!StartTimer
            BY <3>1, <3>2, ZenonT(60) DEF ThreadsTyped, Life!StartTimer
        <3>3. CASE Life!InitComm
            BY <3>1, <3>3 DEF ThreadsTyped, Life!InitComm
        <3>4. CASE Life!StartNet
            BY <3>1, <3>4 DEF ThreadsTyped, Life!StartNet
        <3>5. CASE Life!AwaitRunning
            BY <3>1, <3>5 DEF ThreadsTyped, Life!AwaitRunning
        <3>6. CASE Life!AwaitResult
            BY <3>1, <3>6 DEF ThreadsTyped, Life!AwaitResult
        <3>7. CASE Life!OnInit
            BY <3>1, <3>7, ZenonT(60) DEF ThreadsTyped, Life!OnInit
        <3> QED
            BY <3>2, <3>3, <3>4, <3>5, <3>6, <3>7
    <2>3. CountsTyped'
        BY DEF LifeInv, LifeTyped, CountsTyped, Life!StartTimer, Life!InitComm, Life!StartNet,
                   Life!AwaitRunning, Life!AwaitResult, Life!OnInit
    <2> QED
        BY <2>1, <2>2, <2>3 DEF LifeTyped
<1>3. Threads'
    BY DEF LifeInv, LifeTyped, ServiceTyped, ThreadsTyped, CountsTyped, Threads, Life!StartTimer, Life!InitComm, Life!StartNet,
           Life!AwaitRunning, Life!AwaitResult, Life!OnInit
<1>4. Loading'
    BY Calls DEF LifeInv, LifeTyped, ServiceTyped, ThreadsTyped, CountsTyped, Loading, BeforeLoad, Running, Cleared, Life!StartTimer, Life!InitComm, Life!StartNet,
           Life!AwaitRunning, Life!AwaitResult, Life!OnInit
<1> QED
    BY <1>2, <1>3, <1>4 DEF LifeInv

\* The modules are loaded and run.
LEMMA LoadStep == ASSUME LifeInv, Life!Load PROVE LifeInv'
<1> DEFINE m == Registered[sv.at]
<1>1. Len(Registered) \in Nat /\ sv.pc = "load" /\ sv.at \in 1..(Len(Registered) + 1) /\ runFlag' \in BOOLEAN
    BY Calls DEF LifeInv, LifeTyped, ServiceTyped, ThreadsTyped, CountsTyped, Life!Load, Life!MayStop
<1>2. CASE ~ Life!Finished /\ ~ runFlag /\ Life!Step /\ Life!First(sv.at)
    <2>1. sv.at \in Ids /\ m \in Life!Modules /\ loads[m] = 0 /\ Called(sv.at + 1) = Called(sv.at) \cup {m}
        <3>1. sv.at \in Ids
            BY <1>1, <1>2 DEF Life!Finished, Ids
        <3>2. m \in Life!Modules /\ m \notin Called(sv.at) /\ Called(sv.at + 1) = Called(sv.at) \cup {m}
            BY <1>2, <3>1, Calls
        <3> QED
            BY <1>1, <3>1, <3>2 DEF LifeInv, LifeTyped, ServiceTyped, ThreadsTyped, CountsTyped, Loading
    <2>2. loads' = [loads EXCEPT ![m] = 1] /\ sv' = [sv EXCEPT !.at = sv.at + 1]
          /\ UNCHANGED <<conn, mgr, isRunning, runResult, status, handler, timer, timerRun, unloads, notified, config, seen>>
        BY <1>1, <1>2, <2>1 DEF Life!Load, Life!Step, LifeInv, LifeTyped, ServiceTyped, ThreadsTyped, CountsTyped, Life!Finished
    <2>3. sv' = [pc |-> "load", at |-> sv.at + 1] /\ sv.at + 1 \in 1..(Len(Registered) + 1)
        BY <1>1, <2>1, <2>2 DEF LifeInv, LifeTyped, ServiceTyped, ThreadsTyped, CountsTyped, Ids
    <2>4. LifeTyped'
        BY <1>1, <2>1, <2>2, <2>3 DEF LifeInv, LifeTyped, ServiceTyped, ThreadsTyped, CountsTyped
    <2>5. Threads'
        BY <1>1, <2>2, <2>3 DEF LifeInv, Threads
    <2>6. Loading'
        BY <1>1, <2>1, <2>2, <2>3 DEF LifeInv, LifeTyped, ServiceTyped, ThreadsTyped, CountsTyped, Loading, BeforeLoad, Running, Cleared
    <2> QED
        BY <2>4, <2>5, <2>6 DEF LifeInv
<1>3. CASE ~ Life!Finished /\ ~ runFlag /\ Life!Step /\ ~ Life!First(sv.at)
    <2>1. sv.at \in Ids /\ Called(sv.at + 1) = Called(sv.at)
        <3>1. sv.at \in Ids
            BY <1>1, <1>3 DEF Life!Finished, Ids
        <3>2. m \in Called(sv.at) /\ Called(sv.at + 1) = Called(sv.at) \cup {m}
            BY <1>3, <3>1, Calls, Zenon
        <3> QED
            BY <3>1, <3>2
    <2>2. UNCHANGED <<loads, conn, mgr, isRunning, runResult, status, handler, timer, timerRun, unloads, notified, config, seen>>
          /\ sv' = [sv EXCEPT !.at = sv.at + 1]
        BY <1>1, <1>3 DEF Life!Load, Life!Step, Life!Finished
    <2>3. sv' = [pc |-> "load", at |-> sv.at + 1] /\ sv.at + 1 \in 1..(Len(Registered) + 1)
        BY <1>1, <2>1, <2>2 DEF LifeInv, LifeTyped, ServiceTyped, ThreadsTyped, CountsTyped, Ids
    <2> QED
        BY <1>1, <2>1, <2>2, <2>3 DEF LifeInv, LifeTyped, ServiceTyped, ThreadsTyped, CountsTyped, Threads, Loading, BeforeLoad, Running, Cleared
<1>4. CASE (Life!Finished \/ runFlag) /\ UNCHANGED loads /\ sv' = [pc |-> "start", at |-> 1]
    BY <1>1, <1>4 DEF Life!Load, LifeInv, LifeTyped, ServiceTyped, ThreadsTyped, CountsTyped, Threads, Loading, BeforeLoad, Running, Cleared
<1> QED
    BY <1>2, <1>3, <1>4 DEF Life!Load

LEMMA RunStep ==
  ASSUME LifeInv, Life!OnRun \/ Life!Round \/ Life!TakeUpdate \/ Life!Reload \/ Life!Updated PROVE LifeInv'
<1> USE DEF LifeInv, LifeTyped, ServiceTyped, ThreadsTyped, CountsTyped
<1>1. Len(Registered) \in Nat
    BY Calls
<1>2. /\ sv.pc \in {"start", "loop", "onHandle", "reload", "updated"} /\ runFlag' \in BOOLEAN
      /\ UNCHANGED <<conn, mgr, isRunning, runResult, status, handler, timer, timerRun, loads, unloads, config>>
      /\ seen' \in {seen, config}
    BY DEF Life!OnRun, Life!Round, Life!TakeUpdate, Life!Reload, Life!Updated, Life!MayStop
<1>3. /\ sv' = [pc |-> sv'.pc, at |-> sv'.at] /\ sv'.at \in 1..(Len(Registered) + 1)
      /\ sv'.pc \in Running \cup {"unload"} /\ (sv'.pc = "unload" => sv'.at = 1)
    <2>1. CASE Life!OnRun
        BY <1>1, <2>1 DEF Life!OnRun, Life!Step, Life!Finished, Running
    <2>2. CASE Life!Round \/ Life!TakeUpdate \/ Life!Reload \/ Life!Updated
        BY <1>1, <2>2 DEF Life!Round, Life!TakeUpdate, Life!Reload, Life!Updated, Running
    <2> QED
        BY <2>1, <2>2
<1>4. LifeTyped'
    BY <1>2, <1>3
<1>5. Threads'
    BY <1>2, <1>3 DEF Threads, Running
<1>6. Loading'
    <2>1. Called(1) = {}
        BY Calls
    <2>2. \A m \in Life!Modules : unloads[m] = 0
        BY <1>2 DEF Loading, Running
    <2> QED
        BY <1>2, <1>3, <2>1, <2>2 DEF Loading, BeforeLoad, Running, Cleared
<1> QED
    BY <1>4, <1>5, <1>6

\* The modules are unloaded.
LEMMA UnloadStep == ASSUME LifeInv, Life!Unload PROVE LifeInv'
<1> DEFINE m == Registered[sv.at]
<1>1. /\ Len(Registered) \in Nat /\ sv.pc = "unload" /\ sv.at \in 1..(Len(Registered) + 1)
      /\ UNCHANGED <<runFlag, loads, conn, mgr, isRunning, runResult, status, handler, timer, timerRun, notified, config, seen>>
    BY Calls DEF LifeInv, LifeTyped, ServiceTyped, ThreadsTyped, CountsTyped, Life!Unload
<1>2. CASE ~ Life!Finished /\ Life!Step
    <2>1. sv.at \in Ids
        BY <1>1, <1>2 DEF Life!Finished, Ids
    <2>2. m \in Life!Modules /\ Called(sv.at + 1) = Called(sv.at) \cup {m} /\ (Life!First(sv.at) <=> m \notin Called(sv.at))
        BY <2>1, Calls
    <2>3. sv' = [pc |-> "unload", at |-> sv.at + 1] /\ sv.at + 1 \in 1..(Len(Registered) + 1)
        BY <1>1, <1>2, <2>1 DEF LifeInv, LifeTyped, ServiceTyped, ThreadsTyped, CountsTyped, Ids, Life!Step
    <2>4. unloads' = IF m \in Called(sv.at) THEN unloads ELSE [unloads EXCEPT ![m] = 1]
        <3>1. m \notin Called(sv.at) => unloads[m] = 0
            BY <1>1, <2>2 DEF LifeInv, LifeTyped, ServiceTyped, ThreadsTyped, CountsTyped, Loading
        <3>2. unloads' = IF Life!First(sv.at) THEN [unloads EXCEPT ![m] = unloads[m] + 1] ELSE unloads
            BY <1>1, <1>2, <2>1 DEF Life!Unload, Life!Finished, Ids
        <3>3. CASE m \in Called(sv.at)
            BY <2>2, <3>2, <3>3, Zenon
        <3>4. CASE m \notin Called(sv.at)
            <4>1. unloads[m] + 1 = 1
                BY <3>1, <3>4
            <4>2. unloads' = [unloads EXCEPT ![m] = unloads[m] + 1]
                BY <2>2, <3>2, <3>4, Zenon
            <4> QED
                BY <3>4, <4>1, <4>2
        <3> QED
            BY <3>3, <3>4
    <2> HIDE DEF m
    <2>5. LifeTyped'
        BY <1>1, <2>2, <2>3, <2>4 DEF LifeInv, LifeTyped, ServiceTyped, ThreadsTyped, CountsTyped
    <2>6. Threads'
        BY <1>1, <2>3 DEF LifeInv, Threads
    <2>7. Loading'
        BY <1>1, <2>2, <2>3, <2>4 DEF LifeInv, LifeTyped, ServiceTyped, ThreadsTyped, CountsTyped, Loading, BeforeLoad, Running, Cleared
    <2> QED
        BY <2>5, <2>6, <2>7 DEF LifeInv
<1>3. CASE Life!Finished /\ UNCHANGED unloads /\ sv' = [pc |-> "clear", at |-> 1]
    <2>1. sv.at = Len(Registered) + 1
        BY <1>1, <1>3 DEF Life!Finished
    <2>2. \A k \in Life!Modules : unloads[k] = 1
        BY <1>1, <2>1, Calls DEF LifeInv, Loading
    <2> QED
        BY <1>1, <1>3, <2>2 DEF LifeInv, LifeTyped, ServiceTyped, ThreadsTyped, CountsTyped, Threads, Loading, BeforeLoad, Running, Cleared
<1> QED
    BY <1>2, <1>3 DEF Life!Unload

\* The end.
LEMMA ClearStep == ASSUME LifeInv, Life!StopNet \/ Life!NetEnds \/ Life!Join PROVE LifeInv'
<1> USE DEF LifeInv, LifeTyped, ServiceTyped, ThreadsTyped, CountsTyped, Threads, Loading, BeforeLoad, Running, Cleared
<1>1. Len(Registered) \in Nat
    BY Calls
<1>2. CASE Life!StopNet
    <2>1. /\ sv.pc = "clear" /\ mgr \in {"none", "live"}
          /\ UNCHANGED <<runFlag, conn, mgr, isRunning, runResult, handler, timer, loads, unloads, notified, config, seen>>
          /\ status' \in {0, 1} /\ timerRun' \in BOOLEAN
          /\ sv' = [pc |-> IF mgr = "live" THEN "net_ends" ELSE "join", at |-> 1]
        BY <1>2 DEF Life!StopNet
    <2> QED
        BY <1>1, <2>1
<1>3. CASE Life!NetEnds
    <2>1. /\ sv.pc = "net_ends" /\ conn \in {"none", "ended"}
          /\ UNCHANGED <<runFlag, conn, isRunning, runResult, status, handler, timer, loads, unloads, notified, config, seen>>
          /\ mgr' = "freed" /\ timerRun' \in BOOLEAN /\ sv' = [pc |-> "join", at |-> 1]
        BY <1>3 DEF Life!NetEnds
    <2>2. LifeTyped'
        BY <1>1, <2>1
    <2>3. Threads'
        BY <2>1
    <2>4. Loading'
        BY <2>1
    <2> QED
        BY <2>2, <2>3, <2>4
<1>4. CASE Life!Join
    BY <1>1, <1>4 DEF Life!Join
<1> QED
    BY <1>2, <1>3, <1>4

\* The other threads, and what comes from outside.
LEMMA OthersStep ==
  ASSUME LifeInv, Life!Connector \/ Life!TimerThread \/ Life!ExitService \/ Life!NotifyUpdate PROVE LifeInv'
<1> USE DEF Life!Connector, Life!BeginRun, Life!SetHandler, Life!Listen, Life!EnterLoop, Life!LeaveLoop, Life!EndRun,
            Life!TimerThread, Life!Fire, Life!Fired, Life!EndTimer, Life!ExitService, Life!NotifyUpdate
<1>1. LifeTyped'
    <2>1. ServiceTyped'
        BY DEF LifeInv, LifeTyped, ServiceTyped
    <2>2. ThreadsTyped'
        <3>1. ThreadsTyped
            BY DEF LifeInv, LifeTyped
        <3>2. CASE Life!BeginRun
            BY <3>1, <3>2 DEF ThreadsTyped
        <3>3. CASE Life!SetHandler
            BY <3>1, <3>3 DEF ThreadsTyped
        <3>4. CASE Life!Listen
            BY <3>1, <3>4 DEF ThreadsTyped
        <3>5. CASE Life!EnterLoop
            BY <3>1, <3>5 DEF ThreadsTyped
        <3>6. CASE Life!LeaveLoop
            BY <3>1, <3>6 DEF ThreadsTyped
        <3>7. CASE Life!EndRun
            BY <3>1, <3>7, ZenonT(60) DEF ThreadsTyped
        <3>8. CASE Life!TimerThread
            BY <3>1, <3>8 DEF ThreadsTyped
        <3>9. CASE Life!ExitService
            BY <3>1, <3>9 DEF ThreadsTyped
        <3>10. CASE Life!NotifyUpdate
            BY <3>1, <3>10 DEF ThreadsTyped
        <3> QED
            BY <3>2, <3>3, <3>4, <3>5, <3>6, <3>7, <3>8, <3>9, <3>10
    <2>3. CountsTyped'
        BY DEF LifeInv, LifeTyped, CountsTyped
    <2> QED
        BY <2>1, <2>2, <2>3 DEF LifeTyped
<1>2. Threads'
    BY DEF LifeInv, LifeTyped, ServiceTyped, ThreadsTyped, CountsTyped, Threads
<1>3. Loading'
    BY DEF LifeInv, Loading
<1> QED
    BY <1>1, <1>2, <1>3 DEF LifeInv

LEMMA LifeNext == ASSUME LifeInv, Life!Next PROVE LifeInv'
BY StartStep, LoadStep, RunStep, UnloadStep, ClearStep, OthersStep DEF Life!Next, Life!Service

LEMMA LifeStill == LifeInv /\ UNCHANGED lifeVars => LifeInv'
BY DEF LifeInv, LifeTyped, ServiceTyped, ThreadsTyped, CountsTyped, Threads, Loading, lifeVars

LifeInvariant == part = "life" => LifeInv

\* However many modules a service has and under however many ids, each object is loaded and unloaded at
\* most once, one that is loaded is unloaded when the service ends, and neither the connection thread nor
\* that of the timers works for what has been deleted (CService::start, clear, CNetConnectThread).
THEOREM LifeIsSound == PartsSpec => []LifeSound
<1>1. PartsInit => LifeInvariant
    BY LifeInit DEF PartsInit, LifeInvariant
<1>2. LifeInvariant /\ [PartsNext]_partVars => LifeInvariant'
    <2> SUFFICES ASSUME LifeInvariant, [PartsNext]_partVars, part' = "life" PROVE LifeInv'
        BY DEF LifeInvariant
    <2>1. part = part' /\ LifeInv
        BY DEF LifeInvariant, PartsNext, Alone, partVars
    <2>2. CASE Alone("life") /\ Life!Next
        BY <2>1, <2>2, LifeNext
    <2>3. CASE UNCHANGED lifeVars
        BY <2>1, <2>3, LifeStill
    <2> QED
        BY <2>1, <2>2, <2>3 DEF PartsNext, Alone, partVars
<1>3. LifeInvariant => LifeSound
    <2> SUFFICES ASSUME LifeInv PROVE Life!TypeOK /\ Life!NoneLeftBehind /\ Life!ModulesPaired
        BY DEF LifeInvariant, LifeSound
    <2>1. Life!TypeOK
        BY DEF LifeInv, LifeTyped, ServiceTyped, ThreadsTyped, CountsTyped, Life!TypeOK
    <2>2. Life!NoneLeftBehind
        BY DEF LifeInv, Threads, Life!NoneLeftBehind
    <2>3. Life!ModulesPaired
        BY DEF LifeInv, LifeTyped, ServiceTyped, ThreadsTyped, CountsTyped, Loading, Cleared, Life!ModulesPaired
    <2> QED
        BY <2>1, <2>2, <2>3
<1> QED
    BY <1>1, <1>2, <1>3, PTL DEF PartsSpec
===================================================================================
