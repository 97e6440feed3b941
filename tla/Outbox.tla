------------------------------- MODULE Outbox -------------------------------
(***************************************************************************)
(* How an event travels: a service stages it in the outbox table with the  *)
(* change it announces (shared/db.py), relays drain the table onto the     *)
(* topic exchange (shared/relay.py), the broker copies it to every queue   *)
(* bound to its type, and consumers ack or reject it (shared/events/bus.py)*)
(*                                                                         *)
(* A message is an event and a copy number: each publication is a copy of  *)
(* its own, so duplicates can be told apart.  The broker and Postgres are  *)
(* durable; what fails is processes and connections.                       *)
(***************************************************************************)
EXTENDS Naturals, FiniteSets

CONSTANTS
    Events,     \* event ids
    Id,         \* [Events -> Nat]: the BIGSERIAL each one draws, in no commit order
    Key,        \* [Events -> routing keys]: the event's type
    Queues,     \* the queues of the services
    Binds,      \* [Queues -> SUBSET routing keys]
    Relays,     \* relay processes
    Batch,      \* rows one pass claims
    Consumers,  \* consumer processes
    Consumes,   \* [Consumers -> Queues]
    Prefetch,   \* messages a consumer holds at most
    MaxFaults,  \* bound: crashes and broker errors
    MaxBlips    \* bound: lost database connections

ASSUME OutboxAssumption ==
    /\ Id \in [Events -> Nat]
    /\ \A e, f \in Events : Id[e] = Id[f] => e = f
    /\ Consumes \in [Consumers -> Queues]
    /\ Batch \in Nat \ {0} /\ Prefetch \in Nat \ {0}
    /\ MaxFaults \in Nat /\ MaxBlips \in Nat

Messages == Events \X (Nat \ {0})

VARIABLES
    row,        \* the event's row: "none", "waiting", "published" or "pruned"
    owed,       \* <<queue, event>>: queues that were there, and bound, when it was staged
    claimed,    \* rows each relay has locked and not yet sent
    sent,       \* rows it has sent in the same transaction
    connected,  \* whether it still has its database connection
    declared,   \* queues that exist at the broker
    copies,     \* how often each event was accepted by the broker
    ready,      \* messages waiting in each queue
    unacked,    \* messages each consumer holds
    handled,    \* <<queue, event>>: a handler returned normally
    dlq,        \* messages in each dead-letter queue, with the queue that rejected them
    faults, blips

relay == <<claimed, sent, connected>>
broker == <<declared, copies, ready, dlq>>
vars == <<row, owed, relay, broker, unacked, handled, faults, blips>>

Locked(e) == \E r \in Relays : e \in claimed[r] \cup sent[r]
Idle(r) == claimed[r] = {} /\ sent[r] = {}

-----------------------------------------------------------------------------
(* shared/db.py.                                                            *)

Bound(q, e) == Key[e] \in Binds[q]

(* _stage, in the transaction of the change it announces.                   *)
Stage(e) ==
    /\ row[e] = "none"
    /\ row' = [row EXCEPT ![e] = "waiting"]
    /\ owed' = owed \cup ({q \in declared : Bound(q, e)} \X {e})
    /\ UNCHANGED <<relay, broker, unacked, handled, faults, blips>>

-----------------------------------------------------------------------------
(* shared/relay.py.  A pass is one transaction: its locks are released and  *)
(* its marks undone when it does not commit.                                *)

Available == {e \in Events : row[e] = "waiting" /\ ~Locked(e)}

(* Mutant: FOR UPDATE is forgotten.                                         *)
UnlockedBatch(B) ==
    B \subseteq {e \in Events : row[e] = "waiting"} /\ Cardinality(B) <= Batch

(* CLAIM: the first rows that are unpublished and not locked.               *)
FirstBatch(B) ==
    /\ B \subseteq Available
    /\ \A e \in B, f \in Available \ B : Id[e] < Id[f]
    /\ Cardinality(B) <= Batch
    /\ B # Available => Cardinality(B) = Batch

ClaimBatch(r, B) ==
    /\ connected[r] /\ Idle(r)
    /\ B # {}
    /\ FirstBatch(B)
    /\ claimed' = [claimed EXCEPT ![r] = B]
    /\ UNCHANGED <<row, owed, sent, connected, broker, unacked, handled, faults, blips>>

(* The exchange copies the message to the queues bound to its type, and     *)
(* confirms it even when there is none.                                     *)
Route(e, n) ==
    /\ copies' = [copies EXCEPT ![e] = @ + n]
    /\ ready' = [q \in Queues |->
                    IF q \in declared /\ Bound(q, e)
                    THEN ready[q] \cup ({e} \X ((copies[e] + 1)..(copies[e] + n))) ELSE ready[q]]
    /\ UNCHANGED <<declared, dlq>>

FirstClaimed(r, e) == e \in claimed[r] /\ \A f \in claimed[r] : Id[e] <= Id[f]

(* Mutant: the row is marked and the publish left to a later pass.          *)
MarkOnly(r, e) ==
    /\ FirstClaimed(r, e)
    /\ claimed' = [claimed EXCEPT ![r] = @ \ {e}]
    /\ sent' = [sent EXCEPT ![r] = @ \cup {e}]
    /\ UNCHANGED <<row, owed, connected, broker, unacked, handled, faults, blips>>

Publish(r, e) ==
    /\ FirstClaimed(r, e)
    /\ Route(e, 1)
    /\ claimed' = [claimed EXCEPT ![r] = @ \ {e}]
    /\ sent' = [sent EXCEPT ![r] = @ \cup {e}]
    /\ UNCHANGED <<row, owed, connected, unacked, handled, faults, blips>>

(* Publisher.publish: the confirm of the first attempt was lost, and the    *)
(* one retry sends the message again.                                       *)
PublishRetried(r, e) ==
    /\ FirstClaimed(r, e)
    /\ faults < MaxFaults
    /\ faults' = faults + 1
    /\ Route(e, 2)
    /\ claimed' = [claimed EXCEPT ![r] = @ \ {e}]
    /\ sent' = [sent EXCEPT ![r] = @ \cup {e}]
    /\ UNCHANGED <<row, owed, connected, unacked, handled, blips>>

(* The transaction ends: no lock is held.                                   *)
EndPass(r) ==
    /\ claimed' = [claimed EXCEPT ![r] = {}]
    /\ sent' = [sent EXCEPT ![r] = {}]

(* The retry fails too, after the broker took n copies: the pass is logged, *)
(* rolled back and tried again.                                             *)
PassFails(r, e, n) ==
    /\ FirstClaimed(r, e)
    /\ faults < MaxFaults
    /\ faults' = faults + 1
    /\ Route(e, n)
    /\ EndPass(r)
    /\ UNCHANGED <<row, owed, connected, unacked, handled, blips>>

(* Mutant: the rows that were sent stay unpublished.                        *)
CommitUnmarked(r) ==
    /\ connected[r]
    /\ claimed[r] = {} /\ sent[r] # {}
    /\ EndPass(r)
    /\ UNCHANGED <<row, owed, connected, broker, unacked, handled, faults, blips>>

Commit(r) ==
    /\ connected[r]
    /\ claimed[r] = {} /\ sent[r] # {}
    /\ row' = [e \in Events |-> IF e \in sent[r] THEN "published" ELSE row[e]]
    /\ EndPass(r)
    /\ UNCHANGED <<owed, connected, broker, unacked, handled, faults, blips>>

(* Mutant: rows older than the limit go, published or not.                  *)
PruneOld(e) ==
    /\ row[e] \in {"waiting", "published"} /\ ~Locked(e)
    /\ row' = [row EXCEPT ![e] = "pruned"]
    /\ UNCHANGED <<owed, relay, broker, unacked, handled, faults, blips>>

(* prune, after keep_hours.                                                 *)
Prune(e) ==
    /\ row[e] = "published"
    /\ row' = [row EXCEPT ![e] = "pruned"]
    /\ UNCHANGED <<owed, relay, broker, unacked, handled, faults, blips>>

(* The process dies and is started again; the signal handlers only stop it  *)
(* between two passes.                                                      *)
RelayCrash(r) ==
    /\ faults < MaxFaults
    /\ faults' = faults + 1
    /\ EndPass(r)
    /\ connected' = [connected EXCEPT ![r] = TRUE]
    /\ UNCHANGED <<row, owed, broker, unacked, handled, blips>>

(* The database connection is lost.  run opened it once, outside its loop:  *)
(* every later pass raises and is logged.                                   *)
Blip(r) ==
    /\ connected[r]
    /\ blips < MaxBlips
    /\ blips' = blips + 1
    /\ EndPass(r)
    /\ connected' = [connected EXCEPT ![r] = FALSE]
    /\ UNCHANGED <<row, owed, broker, unacked, handled, faults>>

-----------------------------------------------------------------------------
(* Consumer.                                                                *)

(* declare, on the first start of a service: queue, bindings, dead letters. *)
Declare(q) ==
    /\ q \notin declared
    /\ declared' = declared \cup {q}
    /\ UNCHANGED <<row, owed, relay, copies, ready, dlq, unacked, handled, faults, blips>>

Deliver(c, m) ==
    /\ m \in ready[Consumes[c]]
    /\ Cardinality(unacked[c]) < Prefetch
    /\ ready' = [ready EXCEPT ![Consumes[c]] = @ \ {m}]
    /\ unacked' = [unacked EXCEPT ![c] = @ \cup {m}]
    /\ UNCHANGED <<row, owed, relay, declared, copies, dlq, handled, faults, blips>>

(* _on_message: the handler returns and the message is acked.               *)
Handle(c, m) ==
    /\ m \in unacked[c]
    /\ unacked' = [unacked EXCEPT ![c] = @ \ {m}]
    /\ handled' = handled \cup {<<Consumes[c], m[1]>>}
    /\ UNCHANGED <<row, owed, relay, broker, faults, blips>>

(* The handler raises: nack without requeueing.  Every dead-letter queue is *)
(* bound to the dead-letter exchange with "#", so every one gets it.        *)
Reject(c, m) ==
    /\ m \in unacked[c]
    /\ unacked' = [unacked EXCEPT ![c] = @ \ {m}]
    /\ dlq' = [q \in Queues |-> IF q \in declared THEN dlq[q] \cup {<<Consumes[c], m>>} ELSE dlq[q]]
    /\ UNCHANGED <<row, owed, relay, declared, copies, ready, handled, faults, blips>>

(* The connection dies: what the consumer holds is queued again.            *)
Requeue(c) ==
    /\ faults < MaxFaults
    /\ faults' = faults + 1
    /\ ready' = [ready EXCEPT ![Consumes[c]] = @ \cup unacked[c]]
    /\ unacked' = [unacked EXCEPT ![c] = {}]
    /\ UNCHANGED <<row, owed, relay, declared, copies, dlq, blips>>

ConsumerCrash(c) == Requeue(c) /\ UNCHANGED handled

(* It dies after the handler returned and before the ack: the broker drops  *)
(* a connection whose thread is busy in a handler for too long, and         *)
(* basic_ack raises.                                                        *)
AckLost(c, m) ==
    /\ m \in unacked[c]
    /\ Requeue(c)
    /\ handled' = handled \cup {<<Consumes[c], m[1]>>}

-----------------------------------------------------------------------------
Init ==
    /\ row = [e \in Events |-> "none"]
    /\ owed = {}
    /\ claimed = [r \in Relays |-> {}]
    /\ sent = [r \in Relays |-> {}]
    /\ connected = [r \in Relays |-> TRUE]
    /\ declared = {}
    /\ copies = [e \in Events |-> 0]
    /\ ready = [q \in Queues |-> {}]
    /\ unacked = [c \in Consumers |-> {}]
    /\ handled = {}
    /\ dlq = [q \in Queues |-> {}]
    /\ faults = 0 /\ blips = 0

RelayStep(r) ==
    \/ \E B \in SUBSET Events : ClaimBatch(r, B)
    \/ \E e \in Events : Publish(r, e)
    \/ Commit(r)

RelayFault(r) ==
    \/ \E e \in Events : PublishRetried(r, e) \/ (\E n \in 0..2 : PassFails(r, e, n))
    \/ RelayCrash(r) \/ Blip(r)

ConsumerStep(c) ==
    \/ \E m \in ready[Consumes[c]] : Deliver(c, m)
    \/ \E m \in unacked[c] : Handle(c, m) \/ Reject(c, m)

ConsumerFault(c) == ConsumerCrash(c) \/ \E m \in unacked[c] : AckLost(c, m)

Next ==
    \/ \E e \in Events : Stage(e) \/ Prune(e)
    \/ \E r \in Relays : RelayStep(r) \/ RelayFault(r)
    \/ \E q \in Queues : Declare(q)
    \/ \E c \in Consumers : ConsumerStep(c) \/ ConsumerFault(c)

Spec == Init /\ [][Next]_vars

(* The relay's loop and the consumers go on.                                *)
Fairness ==
    /\ \A r \in Relays : WF_vars(RelayStep(r))
    /\ \A c \in Consumers : WF_vars(ConsumerStep(c))

FairSpec == Spec /\ Fairness

-----------------------------------------------------------------------------
(* Properties.                                                              *)

(* Every variable stays in its set, and no queue holds a copy that was not  *)
(* accepted.                                                                *)
TypeOK ==
    /\ row \in [Events -> {"none", "waiting", "published", "pruned"}]
    /\ owed \subseteq Queues \X Events
    /\ claimed \in [Relays -> SUBSET Events]
    /\ sent \in [Relays -> SUBSET Events]
    /\ connected \in [Relays -> BOOLEAN]
    /\ declared \subseteq Queues
    /\ copies \in [Events -> Nat]
    /\ ready \in [Queues -> SUBSET Messages]
    /\ unacked \in [Consumers -> SUBSET Messages]
    /\ handled \subseteq Queues \X Events
    /\ dlq \in [Queues -> SUBSET (Queues \X Messages)]
    /\ faults \in 0..MaxFaults
    /\ blips \in 0..MaxBlips
    /\ \A q \in Queues : \A m \in ready[q] : m[2] <= copies[m[1]]
    /\ \A c \in Consumers : \A m \in unacked[c] : m[2] <= copies[m[1]]

(* relay.py:13, SKIP LOCKED "is what makes running two relays safe: each    *)
(* claims a disjoint batch", of rows that are still to be published.        *)
DisjointBatches ==
    \A r \in Relays : \A e \in claimed[r] \cup sent[r] :
        /\ row[e] = "waiting"
        /\ connected[r]
        /\ \A s \in Relays : e \in claimed[s] \cup sent[s] => s = r
        /\ ~(e \in claimed[r] /\ e \in sent[r])

Parked(q, e) == \E d \in dlq[q] : d[1] = q /\ d[2][1] = e
Reached(q, e) ==
    \/ \E m \in ready[q] : m[1] = e
    \/ \E c \in Consumers : Consumes[c] = q /\ \E m \in unacked[c] : m[1] = e
    \/ <<q, e>> \in handled
    \/ Parked(q, e)

(* "a lost event is not recoverable while a duplicate one is": once the row *)
(* no longer says unpublished, every queue that was bound when the event    *)
(* was staged has it, waiting, in hand, handled or parked, through crashes  *)
(* of the relays and of the consumers.                                      *)
NothingLost ==
    \A p \in owed : row[p[2]] \in {"published", "pruned"} => Reached(p[1], p[2])

(* Duplicates are only ever the price of a failure: without one the broker  *)
(* is given each event once, and each failure costs at most one more copy   *)
(* (two when both attempts of a publish were taken).                        *)
DuplicatesPaidFor == \A e \in Events : copies[e] <= 1 + 2 * faults + blips

(* A message is in one place: waiting or held by one consumer of its queue. *)
OnePlace ==
    \A c \in Consumers :
        /\ unacked[c] \cap ready[Consumes[c]] = {}
        /\ \A d \in Consumers : c # d /\ Consumes[c] = Consumes[d] => unacked[c] \cap unacked[d] = {}

(* The mapping to what the two modules promise.                             *)
Settled == {p \in owed : p \in handled \/ Parked(p[1], p[2])}
A == INSTANCE AtLeastOnce WITH settled <- Settled

(* "Delivery is at-least-once" (bus.py:15): under FairSpec and with the     *)
(* database connections kept, whatever else fails.                          *)
ImplementsDelivery == A!Delivery

=============================================================================
