----------------------------- MODULE BoundedFifo -----------------------------
(***************************************************************************)
(* What every queue of the base library promises its callers: a bounded    *)
(* first-in first-out sequence.  A put appends one item or is refused, a   *)
(* get takes the oldest item and hands exactly that item to its caller.    *)
(***************************************************************************)
EXTENDS Naturals, Sequences

CONSTANTS Items,      (* what is queued                                     *)
          Capacity,   (* how many items the queue can hold                  *)
          Nothing     (* "no item has been returned yet"                    *)

VARIABLES queue,      (* the items put and not yet taken, oldest first      *)
          returned    (* the item the last successful get handed out        *)

vars == <<queue, returned>>

Init == queue = <<>> /\ returned = Nothing

Put(i) == /\ Len(queue) < Capacity
          /\ queue' = Append(queue, i)
          /\ UNCHANGED returned

Get == /\ queue # <<>>
       /\ returned' = Head(queue)
       /\ queue' = Tail(queue)

Next == Get \/ \E i \in Items : Put(i)

Spec == Init /\ [][Next]_vars
==============================================================================
