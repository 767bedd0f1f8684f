---------------------------------- MODULE Agenda ----------------------------------
(***************************************************************************)
(* What a set of timers promises: each has a time at which it is due; of   *)
(* those that are due by a given time, the one served is one that is due   *)
(* first, and it is put off to a later time or leaves.                     *)
(***************************************************************************)
EXTENDS Naturals

CONSTANTS Timers, Slack

VARIABLES pending,     \* the time at which each timer set is due
          clock        \* the time by which timers are served

Due(t) == /\ t \in DOMAIN pending
          /\ pending[t] <= clock + Slack
          /\ \A u \in DOMAIN pending : pending[t] <= pending[u]

Without(t) == [u \in DOMAIN pending \ {t} |-> pending[u]]

Init == pending = [t \in {} |-> 0]
Add(t, d) == t \notin DOMAIN pending /\ pending' = [u \in DOMAIN pending \cup {t} |-> IF u = t THEN d ELSE pending[u]]
Serve(t) == /\ Due(t)
            /\ \/ pending' = Without(t)
               \/ /\ t \in DOMAIN pending'
                  /\ pending'[t] > clock + Slack
                  /\ pending' = [pending EXCEPT ![t] = pending'[t]]
Dissolve == pending' = [t \in {} |-> 0]

Changes == \/ \E t \in Timers : Serve(t)
           \/ \E t \in Timers \cap DOMAIN pending' : Add(t, pending'[t])
           \/ Dissolve

Spec == Init /\ [][Changes]_pending
=============================================================================
