------------------------------- MODULE MemManager -------------------------------
(***************************************************************************)
(* The block allocator (CMemManager) over pools of equal blocks (CMemPool).*)
(* A pool's free blocks are a stack, chained through the blocks; each      *)
(* block's header points to its pool.  The manager keeps a list of pools:  *)
(* get() takes from the first pool that has a block and moves that pool to *)
(* the front, or makes a new pool; free() gives back the pools of which    *)
(* nothing is lent.  Users put back what they got, once.                   *)
(***************************************************************************)
EXTENDS Naturals, FiniteSets, SequencesExt

CONSTANTS FirstCount,  \* count, the size of the first pool
          Steps,       \* the values m_step is set to
          MaxPools     \* bound on the pools there are at a time

Pools == 1..MaxPools
None == <<>>

VARIABLES list,        \* m_pHeader and the pNext behind it
          size,        \* m_maxCount of each pool
          free,        \* the stack of each pool, m_pHead first
          step,        \* m_step
          lent         \* the blocks that users hold; a block is <<pool, place>>

vars == <<list, size, free, step, lent>>

Stack(p, n) == [k \in 1..n |-> <<p, k>>]
Unused == Pools \ ToSet(list)

Init == /\ list = <<1>>
        /\ size = [p \in Pools |-> IF p = 1 THEN FirstCount ELSE 0]
        /\ free = [p \in Pools |-> IF p = 1 THEN Stack(1, FirstCount) ELSE <<>>]
        /\ step \in Steps
        /\ lent = {}

-----------------------------------------------------------------------------
\* MUTANT of ToFront: the pools in front of the one that had a block are dropped from the list.
ToFrontOnly(i) == SubSeq(list, i, Len(list))

\* The pool at i becomes the first one.
ToFront(i) == <<list[i]>> \o RemoveAt(list, i)

\* The first pool with a free block.
Source(i) == /\ free[list[i]] # <<>>
             /\ \A j \in 1..(i - 1) : free[list[j]] = <<>>

Get == \E i \in DOMAIN list :
         /\ Source(i)
         /\ lent' = lent \cup {Head(free[list[i]])}
         /\ free' = [free EXCEPT ![list[i]] = Tail(@)]
         /\ list' = ToFront(i)
         /\ UNCHANGED <<size, step>>

\* MUTANT of NoneFree: only the first pool is looked at.
NoneFreeFirst == IF list = <<>> THEN TRUE ELSE free[Head(list)] = <<>>

NoneFree == \A p \in ToSet(list) : free[p] = <<>>

\* No pool has a block: createPool, whose first block is handed out at once.
Grow == /\ NoneFree
        /\ \E p \in Unused :
             /\ \A q \in Unused : p <= q
             /\ list' = <<p>> \o list
             /\ size' = [size EXCEPT ![p] = step]
             /\ free' = [free EXCEPT ![p] = Tail(Stack(p, step))]
             /\ lent' = lent \cup {<<p, 1>>}
        /\ UNCHANGED step

\* MUTANT of Home: a block goes to the first pool of the list.
HomeFirst(b) == Head(list)

Home(b) == b[1]                                          \* the pointer in the block's header

Put(b) == /\ b \in lent
          /\ lent' = lent \ {b}
          /\ free' = [free EXCEPT ![Home(b)] = <<b>> \o @]
          /\ UNCHANGED <<list, size, step>>

\* MUTANT of Idle: a pool that has a free block is taken for idle.
IdleAny(p) == free[p] # <<>>

Idle(p) == Len(free[p]) = size[p]                        \* CMemPool::full

Destroy(ps) == /\ list' = SelectSeq(list, LAMBDA p : p \notin ps)
               /\ size' = [p \in Pools |-> IF p \in ps THEN 0 ELSE size[p]]
               /\ free' = [p \in Pools |-> IF p \in ps THEN <<>> ELSE free[p]]

Free == /\ Destroy({p \in ToSet(list) : Idle(p)})
        /\ UNCHANGED <<step, lent>>

\* Everything is given back, what is lent as well: its users have ended.
Clear == /\ Destroy(ToSet(list))
         /\ lent' = {}
         /\ UNCHANGED step

SetStep(n) == /\ n > 1
              /\ step' = n
              /\ UNCHANGED <<list, size, free, lent>>

Next == \/ Get \/ Grow \/ Free \/ Clear
        \/ \E b \in lent : Put(b)
        \/ \E n \in Steps : SetStep(n)

Spec == Init /\ [][Next]_vars

-----------------------------------------------------------------------------
TypeOK == /\ ToSet(list) \subseteq Pools /\ IsInjective(list)
          /\ step \in Steps

\* Each block of a pool is free once or lent, and a lent block belongs to a pool that exists: neither
\* the order of the list nor free() takes a pool away from under a user.
EachBlockOnce == \A p \in Pools :
                   /\ IsInjective(free[p])
                   /\ ToSet(free[p]) \cap lent = {}
                   /\ ToSet(free[p]) \cup {b \in lent : b[1] = p} = {<<p, k>> : k \in 1..size[p]}
                   /\ size[p] > 0 <=> p \in ToSet(list)

\* The memory grows only when there is nothing left to lend, wherever in the list it may be.
NoNeedlessGrowth == [][lent' # lent /\ Len(list') > Len(list) =>
                         \A p \in ToSet(list) : size[p] = Cardinality({b \in lent : b[1] = p})]_vars
=============================================================================
