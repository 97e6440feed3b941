----------------------------- MODULE AtLeastOnce -----------------------------
(***************************************************************************)
(* What shared/relay.py and shared/events/bus.py promise together:         *)
(* "Delivery is at-least-once".  An event that is staged is owed to queues,*)
(* a debt is never taken back, and it is settled some time later: the      *)
(* queue's handler returned for it, or it is parked for an operator.       *)
(***************************************************************************)
CONSTANTS Events, Queues

VARIABLES
    owed,       \* pairs <<queue, event>> the bus has taken on
    settled     \* those that are handled or parked

avars == <<owed, settled>>

Promise(e, Q) ==
    /\ \A q \in Queues : <<q, e>> \notin owed
    /\ owed' = owed \cup (Q \X {e})
    /\ UNCHANGED settled

Settle(q, e) ==
    /\ <<q, e>> \in owed
    /\ settled' = settled \cup {<<q, e>>}
    /\ UNCHANGED owed

ABInit == owed = {} /\ settled = {}
ABNext ==
    \/ \E e \in Events, Q \in SUBSET Queues : Promise(e, Q)
    \/ \E e \in Events, q \in Queues : Settle(q, e)

Safety == ABInit /\ [][ABNext]_avars
Delivery == Safety /\ \A e \in Events, q \in Queues : WF_avars(Settle(q, e))

=============================================================================
