---------------------------- MODULE OutboxProofs ----------------------------
(***************************************************************************)
(* Nothing that is staged is lost, proved for every set of events, queues, *)
(* relays and consumers and any number of failures.                        *)
(***************************************************************************)
EXTENDS Outbox, TLAPS

(* An event is owed to queues that exist and are bound to it.              *)
OwedBound ==
    \A q \in Queues, e \in Events : <<q, e>> \in owed =>
        q \in declared /\ Bound(q, e) /\ row[e] # "none"

(* What a relay has sent is out, although its row may become waiting again *)
(* when the transaction does not commit.                                   *)
SentOut == {e \in Events : row[e] \in {"published", "pruned"} \/ \E r \in Relays : e \in sent[r]}
Delivered == \A q \in Queues, e \in Events : <<q, e>> \in owed /\ e \in SentOut => Reached(q, e)

(* Each failure pays for the copies that were sent in vain.                *)
Paid(n) == \A e \in Events : copies[e] <= n + (IF e \in SentOut THEN 1 ELSE 0)
CopiesPaid == Paid(2 * faults + blips)

IInv == TypeOK /\ DisjointBatches /\ OwedBound /\ Delivered /\ CopiesPaid

-----------------------------------------------------------------------------
(* Type correctness.                                                       *)

LEMMA InitTypeOK == Init => TypeOK
  BY OutboxAssumption DEF Init, TypeOK

LEMMA RouteTyped ==
    ASSUME TypeOK, NEW e \in Events, NEW n \in Nat, Route(e, n), unacked' = unacked
    PROVE  /\ copies' \in [Events -> Nat]
           /\ ready' \in [Queues -> SUBSET Messages]
           /\ \A q \in Queues : \A m \in ready'[q] : m[2] <= copies'[m[1]]
           /\ \A c \in Consumers : \A m \in unacked[c] : m[2] <= copies'[m[1]]
           /\ declared' = declared /\ dlq' = dlq
  <1>1. /\ copies' \in [Events -> Nat] /\ copies'[e] = copies[e] + n
        /\ \A f \in Events : f # e => copies'[f] = copies[f]
      BY DEF Route, TypeOK
  <1>2. ASSUME NEW q \in Queues
        PROVE  ready'[q] \subseteq ready[q] \cup ({e} \X ((copies[e] + 1)..(copies[e] + n)))
      BY DEF Route
  <1>3. ASSUME NEW m \in {e} \X ((copies[e] + 1)..(copies[e] + n))
        PROVE  m \in Messages /\ m[2] <= copies'[m[1]]
      BY <1>1 DEF Messages, TypeOK
  <1>4. ASSUME NEW m \in Messages, m[2] <= copies[m[1]] PROVE m[2] <= copies'[m[1]]
      BY <1>1, <1>4 DEF Messages, TypeOK
  <1>5. \A q \in Queues : \A m \in ready'[q] : m \in Messages /\ m[2] <= copies'[m[1]]
      BY <1>2, <1>3, <1>4 DEF TypeOK
  <1>6. \A c \in Consumers : \A m \in unacked[c] : m[2] <= copies'[m[1]]
      BY <1>4 DEF TypeOK
  <1>7. ready' \in [Queues -> SUBSET Messages]
      BY <1>5 DEF Route
  <1> QED BY <1>1, <1>5, <1>6, <1>7 DEF Route

LEMMA NextTypeOK == TypeOK /\ [Next]_vars => TypeOK'
  <1> SUFFICES ASSUME TypeOK, [Next]_vars PROVE TypeOK'
      OBVIOUS
  <1> USE DEF relay, broker
  <1>1. ASSUME NEW e \in Events, Stage(e) PROVE TypeOK'
      BY <1>1 DEF Stage, TypeOK
  <1>2. ASSUME NEW e \in Events, Prune(e) PROVE TypeOK'
      BY <1>2 DEF Prune, TypeOK
  <1>3. ASSUME NEW r \in Relays, NEW B \in SUBSET Events, ClaimBatch(r, B) PROVE TypeOK'
      BY <1>3 DEF ClaimBatch, TypeOK
  <1>4. ASSUME NEW r \in Relays, NEW e \in Events, Publish(r, e) PROVE TypeOK'
      BY <1>4, RouteTyped DEF Publish, TypeOK
  <1>5. ASSUME NEW r \in Relays, NEW e \in Events, PublishRetried(r, e) PROVE TypeOK'
      BY <1>5, RouteTyped, OutboxAssumption DEF PublishRetried, TypeOK
  <1>6. ASSUME NEW r \in Relays, NEW e \in Events, NEW n \in 0..2, PassFails(r, e, n) PROVE TypeOK'
      BY <1>6, RouteTyped, OutboxAssumption DEF PassFails, EndPass, TypeOK
  <1>7. ASSUME NEW r \in Relays, Commit(r) PROVE TypeOK'
      BY <1>7 DEF Commit, EndPass, TypeOK
  <1>8. ASSUME NEW r \in Relays, RelayCrash(r) PROVE TypeOK'
      BY <1>8, OutboxAssumption DEF RelayCrash, EndPass, TypeOK
  <1>9. ASSUME NEW r \in Relays, Blip(r) PROVE TypeOK'
      BY <1>9, OutboxAssumption DEF Blip, EndPass, TypeOK
  <1>10. ASSUME NEW q \in Queues, Declare(q) PROVE TypeOK'
      BY <1>10 DEF Declare, TypeOK
  <1>11. ASSUME NEW c \in Consumers, NEW m \in ready[Consumes[c]], Deliver(c, m) PROVE TypeOK'
    <2>1. Consumes[c] \in Queues /\ m \in Messages /\ m[2] <= copies[m[1]]
        BY <1>11, OutboxAssumption DEF TypeOK
    <2>2. \A q \in Queues : ready'[q] \subseteq ready[q]
        BY <1>11, <2>1 DEF Deliver, TypeOK
    <2>3. \A d \in Consumers : unacked'[d] \subseteq unacked[d] \cup {m}
        BY <1>11 DEF Deliver, TypeOK
    <2>4. ready' \in [Queues -> SUBSET Messages] /\ unacked' \in [Consumers -> SUBSET Messages]
        BY <1>11, <2>1 DEF Deliver, TypeOK
    <2> QED BY <1>11, <2>1, <2>2, <2>3, <2>4 DEF Deliver, TypeOK
  <1>12. ASSUME NEW c \in Consumers, NEW m \in unacked[c], Handle(c, m) PROVE TypeOK'
    <2>1. <<Consumes[c], m[1]>> \in Queues \X Events
        BY <1>12, OutboxAssumption DEF TypeOK, Messages
    <2>2. /\ unacked' \in [Consumers -> SUBSET Messages]
          /\ \A d \in Consumers : unacked'[d] \subseteq unacked[d]
        BY <1>12 DEF Handle, TypeOK
    <2> QED BY <1>12, <2>1, <2>2 DEF Handle, TypeOK
  <1>13. ASSUME NEW c \in Consumers, NEW m \in unacked[c], Reject(c, m) PROVE TypeOK'
    <2>1. <<Consumes[c], m>> \in Queues \X Messages
        BY <1>13, OutboxAssumption DEF TypeOK
    <2>2. /\ unacked' \in [Consumers -> SUBSET Messages]
          /\ \A d \in Consumers : unacked'[d] \subseteq unacked[d]
        BY <1>13 DEF Reject, TypeOK
    <2>3. dlq' \in [Queues -> SUBSET (Queues \X Messages)]
        BY <1>13, <2>1 DEF Reject, TypeOK
    <2> QED BY <1>13, <2>2, <2>3 DEF Reject, TypeOK
  <1>14. ASSUME NEW c \in Consumers, Requeue(c), handled' \subseteq Queues \X Events PROVE TypeOK'
    <2>1. Consumes[c] \in Queues
        BY OutboxAssumption
    <2>2. /\ \A q \in Queues : ready'[q] \subseteq ready[q] \cup unacked[c]
          /\ \A d \in Consumers : unacked'[d] \subseteq unacked[d]
          /\ ready' \in [Queues -> SUBSET Messages] /\ unacked' \in [Consumers -> SUBSET Messages]
        BY <1>14, <2>1 DEF Requeue, TypeOK
    <2>3. faults' \in 0..MaxFaults
        BY <1>14, OutboxAssumption DEF Requeue, TypeOK
    <2> QED BY <1>14, <2>2, <2>3 DEF Requeue, TypeOK
  <1>15. ASSUME NEW c \in Consumers, ConsumerFault(c) PROVE TypeOK'
    <2>1. CASE ConsumerCrash(c)
        BY <1>14, <2>1 DEF ConsumerCrash, TypeOK
    <2>2. ASSUME NEW m \in unacked[c], AckLost(c, m) PROVE TypeOK'
      <3>1. <<Consumes[c], m[1]>> \in Queues \X Events
          BY OutboxAssumption DEF TypeOK, Messages
      <3> QED BY <1>14, <2>2, <3>1 DEF AckLost, TypeOK
    <2> QED BY <1>15, <2>1, <2>2 DEF ConsumerFault
  <1>16. CASE UNCHANGED vars
      BY <1>16 DEF vars, TypeOK
  <1> QED
      BY <1>1, <1>2, <1>3, <1>4, <1>5, <1>6, <1>7, <1>8, <1>9, <1>10, <1>11, <1>12, <1>13,
         <1>15, <1>16 DEF Next, RelayStep, RelayFault, ConsumerStep

-----------------------------------------------------------------------------
(* The relays' batches.                                                    *)

LEMMA PassEnds ==
    ASSUME TypeOK, DisjointBatches, NEW r \in Relays, EndPass(r), row' = row,
           connected' = [connected EXCEPT ![r] = connected'[r]]
    PROVE  DisjointBatches'
  <1>1. ASSUME NEW s \in Relays, NEW e \in claimed'[s] \cup sent'[s]
        PROVE  s # r /\ claimed'[s] = claimed[s] /\ sent'[s] = sent[s] /\ connected'[s] = connected[s]
      BY <1>1 DEF EndPass, TypeOK
  <1> QED BY <1>1 DEF DisjointBatches

LEMMA SendInBatch ==
    ASSUME TypeOK, DisjointBatches, NEW r \in Relays, NEW e \in Events, FirstClaimed(r, e),
           claimed' = [claimed EXCEPT ![r] = @ \ {e}], sent' = [sent EXCEPT ![r] = @ \cup {e}],
           UNCHANGED <<row, connected>>
    PROVE  DisjointBatches'
  <1>1. e \in claimed[r] /\ e \notin sent[r]
      BY DEF FirstClaimed, DisjointBatches
  <1>2. ASSUME NEW s \in Relays
        PROVE  /\ claimed'[s] \cup sent'[s] = claimed[s] \cup sent[s]
               /\ claimed'[s] \cap sent'[s] = claimed[s] \cap sent[s]
    <2>1. CASE s = r
        BY <1>1, <2>1 DEF TypeOK
    <2>2. CASE s # r
        BY <2>2 DEF TypeOK
    <2> QED BY <2>1, <2>2
  <1> QED BY <1>2 DEF DisjointBatches

LEMMA NextDisjoint == TypeOK /\ DisjointBatches /\ [Next]_vars => DisjointBatches'
  <1> SUFFICES ASSUME TypeOK, DisjointBatches, [Next]_vars PROVE DisjointBatches'
      OBVIOUS
  <1> USE DEF relay, broker
  <1>1. ASSUME NEW e \in Events, Stage(e) \/ Prune(e) PROVE DisjointBatches'
      BY <1>1 DEF Stage, Prune, TypeOK, DisjointBatches
  <1>2. ASSUME NEW r \in Relays, NEW B \in SUBSET Events, ClaimBatch(r, B) PROVE DisjointBatches'
    <2>1. /\ claimed'[r] = B /\ sent'[r] = {} /\ connected' = connected /\ connected[r]
          /\ \A s \in Relays : sent'[s] = sent[s] /\ (s # r => claimed'[s] = claimed[s])
        BY <1>2 DEF ClaimBatch, Idle, TypeOK
    <2>2. \A e \in B : row[e] = "waiting" /\ \A s \in Relays : e \notin claimed[s] \cup sent[s]
        BY <1>2 DEF ClaimBatch, FirstBatch, Available, Locked
    <2> QED BY <1>2, <2>1, <2>2 DEF ClaimBatch, DisjointBatches
  <1>3. ASSUME NEW r \in Relays, NEW e \in Events, Publish(r, e) \/ PublishRetried(r, e)
        PROVE  DisjointBatches'
      BY <1>3, SendInBatch DEF Publish, PublishRetried
  <1>4. ASSUME NEW r \in Relays, NEW e \in Events, NEW n \in 0..2, PassFails(r, e, n)
        PROVE  DisjointBatches'
    <2>1. connected' = [connected EXCEPT ![r] = connected'[r]]
        BY <1>4 DEF PassFails, TypeOK
    <2> QED BY <1>4, <2>1, PassEnds DEF PassFails
  <1>5. ASSUME NEW r \in Relays, Commit(r) PROVE DisjointBatches'
    <2>1. ASSUME NEW s \in Relays, NEW e \in claimed'[s] \cup sent'[s]
          PROVE  /\ s # r /\ claimed'[s] = claimed[s] /\ sent'[s] = sent[s]
                 /\ e \in Events /\ e \notin sent[r]
        BY <1>5, <2>1 DEF Commit, EndPass, TypeOK, DisjointBatches
    <2> QED BY <1>5, <2>1 DEF Commit, DisjointBatches
  <1>6. ASSUME NEW r \in Relays, RelayCrash(r) \/ Blip(r) PROVE DisjointBatches'
    <2>1. connected' = [connected EXCEPT ![r] = connected'[r]]
        BY <1>6 DEF RelayCrash, Blip, TypeOK
    <2> QED BY <1>6, <2>1, PassEnds DEF RelayCrash, Blip
  <1>7. CASE UNCHANGED <<row, claimed, sent, connected>>
      BY <1>7 DEF DisjointBatches
  <1> QED
      BY <1>1, <1>2, <1>3, <1>4, <1>5, <1>6, <1>7
         DEF Next, RelayStep, RelayFault, ConsumerStep, Declare, Deliver, Handle, Reject,
             ConsumerFault, ConsumerCrash, AckLost, Requeue, vars

LEMMA NextOwedBound == TypeOK /\ OwedBound /\ [Next]_vars => OwedBound'
  <1> SUFFICES ASSUME TypeOK, OwedBound, [Next]_vars PROVE OwedBound'
      OBVIOUS
  <1> USE DEF relay, broker
  <1>1. declared \subseteq declared' /\ \A e \in Events : row[e] # "none" => row'[e] # "none"
    <2>1. ASSUME NEW r \in Relays, Commit(r)
          PROVE  \A e \in Events : row[e] # "none" => row'[e] # "none"
        BY <2>1 DEF Commit
    <2>2. ASSUME NEW f \in Events, Stage(f) \/ Prune(f)
          PROVE  \A e \in Events : row[e] # "none" => row'[e] # "none"
        BY <2>2 DEF Stage, Prune, TypeOK
    <2> QED BY <2>1, <2>2
            DEF Next, RelayStep, RelayFault, ConsumerStep, Stage, Prune, ClaimBatch, Publish,
                PublishRetried, PassFails, Route, Commit, RelayCrash, Blip, Declare, Deliver, Handle,
                Reject, ConsumerFault, ConsumerCrash, AckLost, Requeue, vars
  <1>2. ASSUME NEW f \in Events, Stage(f) PROVE OwedBound'
    <2>1. row'[f] = "waiting" /\ declared' = declared
        BY <1>2 DEF Stage, TypeOK
    <2>2. ASSUME NEW q \in Queues, NEW e \in Events, <<q, e>> \in owed'
          PROVE  <<q, e>> \in owed \/ (e = f /\ q \in declared /\ Bound(q, f))
        BY <1>2, <2>2 DEF Stage
    <2> QED BY <1>1, <2>1, <2>2 DEF OwedBound, Bound
  <1>3. CASE owed' = owed
      BY <1>1, <1>3 DEF OwedBound, Bound
  <1> QED
      BY <1>2, <1>3
         DEF Next, RelayStep, RelayFault, ConsumerStep, Prune, ClaimBatch, Publish,
             PublishRetried, PassFails, Commit, RelayCrash, Blip, Declare, Deliver, Handle,
             Reject, ConsumerFault, ConsumerCrash, AckLost, Requeue, vars

-----------------------------------------------------------------------------
(* What has reached a queue stays there until it is handled or parked.     *)

LEMMA RouteKeeps ==
    ASSUME TypeOK, NEW f \in Events, NEW n \in Nat, Route(f, n)
    PROVE  \A q \in Queues : ready[q] \subseteq ready'[q] /\ dlq' = dlq
  BY DEF Route

LEMMA ReachedStays ==
    ASSUME TypeOK, [Next]_vars, NEW q \in declared, NEW e \in Events, Reached(q, e)
    PROVE  Reached(q, e)'
  <1> USE DEF relay, broker
  <1>0. q \in Queues
      BY DEF TypeOK
  <1>1. ASSUME ready[q] \subseteq ready'[q], unacked' = unacked, handled' = handled, dlq' = dlq
        PROVE  Reached(q, e)'
      BY <1>1 DEF Reached, Parked
  <1>2. ASSUME NEW r \in Relays, NEW f \in Events,
               Publish(r, f) \/ PublishRetried(r, f) \/ \E n \in 0..2 : PassFails(r, f, n)
        PROVE  Reached(q, e)'
    <2>1. PICK n \in Nat : Route(f, n)
        BY <1>2 DEF Publish, PublishRetried, PassFails
    <2> QED BY <1>0, <1>1, <1>2, <2>1, RouteKeeps DEF Publish, PublishRetried, PassFails
  <1>3. ASSUME NEW c \in Consumers, NEW m \in ready[Consumes[c]], Deliver(c, m)
        PROVE  Reached(q, e)'
    <2>1. /\ m \in unacked'[c] /\ handled' = handled /\ dlq' = dlq
          /\ \A d \in Consumers : unacked[d] \subseteq unacked'[d]
          /\ \A x \in ready[q] : x \in ready'[q] \/ (x = m /\ Consumes[c] = q)
        BY <1>0, <1>3, OutboxAssumption DEF Deliver, TypeOK
    <2> QED BY <2>1 DEF Reached, Parked
  <1>4. ASSUME NEW c \in Consumers, NEW m \in unacked[c], Handle(c, m) PROVE Reached(q, e)'
    <2>1. /\ handled \subseteq handled' /\ dlq' = dlq /\ ready' = ready
          /\ <<Consumes[c], m[1]>> \in handled'
          /\ \A d \in Consumers : \A x \in unacked[d] : x \in unacked'[d] \/ (d = c /\ x = m)
        BY <1>4 DEF Handle, TypeOK
    <2> QED BY <2>1 DEF Reached, Parked
  <1>5. ASSUME NEW c \in Consumers, NEW m \in unacked[c], Reject(c, m) PROVE Reached(q, e)'
    <2>1. /\ handled' = handled /\ ready' = ready
          /\ dlq[q] \subseteq dlq'[q] /\ <<Consumes[c], m>> \in dlq'[q]
          /\ \A d \in Consumers : \A x \in unacked[d] : x \in unacked'[d] \/ (d = c /\ x = m)
        BY <1>0, <1>5 DEF Reject, TypeOK
    <2>2. Consumes[c] = q /\ m[1] = e => Parked(q, e)'
        BY <2>1 DEF Parked
    <2>3. Parked(q, e) => Parked(q, e)'
        BY <2>1 DEF Parked
    <2> QED BY <2>1, <2>2, <2>3 DEF Reached
  <1>6. ASSUME NEW c \in Consumers, ConsumerFault(c) PROVE Reached(q, e)'
    <2>0. Requeue(c) /\ handled \subseteq handled'
        BY <1>6 DEF ConsumerFault, ConsumerCrash, AckLost
    <2>1. /\ dlq' = dlq /\ ready[q] \subseteq ready'[q]
          /\ \A d \in Consumers : d # c => unacked'[d] = unacked[d]
          /\ Consumes[c] = q => unacked[c] \subseteq ready'[q]
        BY <1>0, <2>0, OutboxAssumption DEF Requeue, TypeOK
    <2> QED BY <2>0, <2>1 DEF Reached, Parked
  <1>7. CASE UNCHANGED <<ready, unacked, handled, dlq>>
      BY <1>1, <1>7
  <1> QED
      BY <1>2, <1>3, <1>4, <1>5, <1>6, <1>7
         DEF Next, RelayStep, RelayFault, ConsumerStep, Stage, Prune, ClaimBatch, Commit, RelayCrash,
             Blip, Declare, vars

-----------------------------------------------------------------------------
(* What is sent out has reached the queues it is owed to.                  *)

(* An event comes out only by being published, by a relay that claimed it. *)
LEMMA OnlyPublished ==
    ASSUME TypeOK, DisjointBatches, [Next]_vars, NEW e \in Events, e \in SentOut', e \notin SentOut
    PROVE  \E r \in Relays : Publish(r, e) \/ PublishRetried(r, e)
  <1> USE DEF relay, broker
  <1>1. ASSUME NEW r \in Relays, EndPass(r), row' = row PROVE FALSE
    <2>1. \A s \in Relays : sent'[s] \subseteq sent[s]
        BY <1>1 DEF EndPass, TypeOK
    <2> QED BY <1>1, <2>1 DEF SentOut
  <1>2. ASSUME NEW r \in Relays, Commit(r) PROVE FALSE
    <2>1. \A s \in Relays : sent'[s] \subseteq sent[s]
        BY <1>2 DEF Commit, EndPass, TypeOK
    <2>2. row'[e] = row[e] \/ e \in sent[r]
        BY <1>2 DEF Commit
    <2> QED BY <2>1, <2>2 DEF SentOut
  <1>3. ASSUME NEW f \in Events, Stage(f) \/ Prune(f) PROVE FALSE
      BY <1>3 DEF Stage, Prune, SentOut, TypeOK
  <1>4. ASSUME NEW r \in Relays, NEW f \in Events, Publish(r, f) \/ PublishRetried(r, f)
        PROVE  f = e
    <2>1. \A s \in Relays : sent'[s] \subseteq sent[s] \cup {f}
        BY <1>4 DEF Publish, PublishRetried, TypeOK
    <2> QED BY <1>4, <2>1 DEF Publish, PublishRetried, SentOut
  <1>5. ASSUME sent' = sent, row' = row PROVE FALSE
      BY <1>5 DEF SentOut
  <1> QED
      BY <1>1, <1>2, <1>3, <1>4, <1>5
         DEF Next, RelayStep, RelayFault, ConsumerStep, ClaimBatch, PassFails, RelayCrash, Blip,
             Declare, Deliver, Handle, Reject, ConsumerFault, ConsumerCrash, AckLost, Requeue, vars

LEMMA RouteReaches ==
    ASSUME TypeOK, NEW e \in Events, NEW n \in Nat \ {0}, Route(e, n),
           NEW q \in Queues, q \in declared, Bound(q, e)
    PROVE  Reached(q, e)'
  <1>1. <<e, copies[e] + 1>> \in ready'[q]
    <2>1. copies[e] + 1 \in (copies[e] + 1)..(copies[e] + n)
        BY DEF TypeOK
    <2> QED BY <2>1 DEF Route
  <1>2. \E m \in ready'[q] : m[1] = e
      BY <1>1
  <1> QED BY <1>2 DEF Reached

LEMMA NextDelivered == IInv /\ [Next]_vars => Delivered'
  <1> SUFFICES ASSUME IInv, [Next]_vars,
                      NEW q \in Queues, NEW e \in Events, <<q, e>> \in owed', e \in SentOut'
               PROVE  Reached(q, e)'
      BY DEF Delivered
  <1> USE DEF relay, broker
  <1>0. TypeOK /\ DisjointBatches /\ OwedBound /\ Delivered
      BY DEF IInv
  <1>1. <<q, e>> \in owed
    <2>1. ASSUME NEW f \in Events, Stage(f), <<q, e>> \notin owed PROVE FALSE
      <3>1. e = f /\ row[e] = "none" /\ row'[e] = "waiting" /\ sent' = sent
          BY <2>1, <1>0 DEF Stage, TypeOK
      <3>2. \E r \in Relays : e \in sent[r]
          BY <3>1 DEF SentOut
      <3> QED BY <3>1, <3>2, <1>0 DEF DisjointBatches
    <2>2. CASE owed' = owed
        BY <2>2
    <2> QED
        BY <2>1, <2>2
           DEF Next, RelayStep, RelayFault, ConsumerStep, Prune, ClaimBatch, Publish,
               PublishRetried, PassFails, Commit, RelayCrash, Blip, Declare, Deliver, Handle,
               Reject, ConsumerFault, ConsumerCrash, AckLost, Requeue, vars
  <1>2. q \in declared /\ Bound(q, e)
      BY <1>0, <1>1 DEF OwedBound
  <1>3. CASE e \in SentOut
      BY <1>0, <1>1, <1>2, <1>3, ReachedStays DEF Delivered
  <1>4. CASE e \notin SentOut
    <2>1. Route(e, 1) \/ Route(e, 2)
        BY <1>0, <1>4, OnlyPublished DEF Publish, PublishRetried
    <2> QED BY <1>0, <1>2, <2>1, RouteReaches
  <1> QED BY <1>3, <1>4

-----------------------------------------------------------------------------
(* What the copies cost.                                                   *)

LEMMA NextCopiesPaid == TypeOK /\ DisjointBatches /\ CopiesPaid /\ [Next]_vars => CopiesPaid'
  <1> SUFFICES ASSUME TypeOK, DisjointBatches, CopiesPaid, [Next]_vars, NEW e \in Events
               PROVE  copies'[e] <= 2 * faults' + blips' + (IF e \in SentOut' THEN 1 ELSE 0)
      BY DEF CopiesPaid, Paid
  <1> USE DEF relay, broker
  <1>0. /\ copies[e] \in Nat /\ faults \in Nat /\ blips \in Nat
        /\ copies[e] <= 2 * faults + blips + (IF e \in SentOut THEN 1 ELSE 0)
      BY OutboxAssumption DEF TypeOK, CopiesPaid, Paid
  <1>1. ASSUME copies' = copies, faults' = faults, blips' = blips, e \in SentOut => e \in SentOut'
        PROVE  copies'[e] <= 2 * faults' + blips' + (IF e \in SentOut' THEN 1 ELSE 0)
      BY <1>0, <1>1
  <1>2. ASSUME NEW r \in Relays, NEW f \in Events, FirstClaimed(r, f), NEW n \in Nat, Route(f, n)
        PROVE  /\ f \notin SentOut
               /\ copies'[f] = copies[f] + n
               /\ e # f => copies'[e] = copies[e]
    <2>1. row[f] = "waiting" /\ \A s \in Relays : f \notin sent[s]
        BY <1>2 DEF FirstClaimed, DisjointBatches
    <2>2. f \notin SentOut
        BY <2>1 DEF SentOut
    <2> QED BY <1>2, <2>2 DEF Route, TypeOK
  <1>3. ASSUME NEW r \in Relays, NEW f \in Events, Publish(r, f) \/ PublishRetried(r, f)
        PROVE  f \in SentOut' /\ (e \in SentOut => e \in SentOut')
    <2>1. f \in sent'[r] /\ \A s \in Relays : sent[s] \subseteq sent'[s]
        BY <1>3 DEF Publish, PublishRetried, TypeOK
    <2>2. row' = row
        BY <1>3 DEF Publish, PublishRetried
    <2> QED BY <2>1, <2>2 DEF SentOut
  <1>4. ASSUME NEW r \in Relays, NEW f \in Events, Publish(r, f)
        PROVE  copies'[e] <= 2 * faults' + blips' + (IF e \in SentOut' THEN 1 ELSE 0)
    <2>1. /\ f \notin SentOut /\ copies'[f] = copies[f] + 1 /\ (e # f => copies'[e] = copies[e])
          /\ faults' = faults /\ blips' = blips
        BY <1>4, <1>2 DEF Publish
    <2> QED BY <1>0, <1>3, <1>4, <2>1
  <1>5. ASSUME NEW r \in Relays, NEW f \in Events, PublishRetried(r, f)
        PROVE  copies'[e] <= 2 * faults' + blips' + (IF e \in SentOut' THEN 1 ELSE 0)
    <2>1. /\ f \notin SentOut /\ copies'[f] = copies[f] + 2 /\ (e # f => copies'[e] = copies[e])
          /\ faults' = faults + 1 /\ blips' = blips
        BY <1>5, <1>2 DEF PublishRetried
    <2> QED BY <1>0, <1>3, <1>5, <2>1
  <1>6. ASSUME NEW r \in Relays, NEW f \in Events, NEW n \in 0..2, PassFails(r, f, n)
        PROVE  copies'[e] <= 2 * faults' + blips' + (IF e \in SentOut' THEN 1 ELSE 0)
    <2>1. /\ f \notin SentOut /\ copies'[f] = copies[f] + n /\ (e # f => copies'[e] = copies[e])
          /\ faults' = faults + 1 /\ blips' = blips
        BY <1>6, <1>2 DEF PassFails
    <2> QED BY <1>0, <2>1
  <1>7. ASSUME NEW r \in Relays, Commit(r) PROVE e \in SentOut => e \in SentOut'
    <2>1. \A s \in Relays : s # r => sent'[s] = sent[s]
        BY <1>7 DEF Commit, EndPass, TypeOK
    <2>2. (e \in sent[r] => row'[e] = "published") /\ (e \notin sent[r] => row'[e] = row[e])
        BY <1>7 DEF Commit
    <2> QED BY <2>1, <2>2 DEF SentOut
  <1>8. ASSUME copies' = copies,
               (faults' = faults + 1 /\ blips' = blips) \/ (faults' = faults /\ blips' = blips + 1)
        PROVE  copies'[e] <= 2 * faults' + blips' + (IF e \in SentOut' THEN 1 ELSE 0)
      BY <1>0, <1>8
  <1>9. ASSUME NEW f \in Events, Stage(f) \/ Prune(f) PROVE e \in SentOut => e \in SentOut'
      BY <1>9 DEF Stage, Prune, SentOut, TypeOK
  <1>10. ASSUME sent' = sent, row' = row PROVE e \in SentOut => e \in SentOut'
      BY <1>10 DEF SentOut
  <1>11. ASSUME NEW f \in Events, Stage(f) \/ Prune(f)
         PROVE  copies'[e] <= 2 * faults' + blips' + (IF e \in SentOut' THEN 1 ELSE 0)
      BY <1>1, <1>9, <1>11 DEF Stage, Prune
  <1>12. ASSUME NEW r \in Relays, Commit(r)
         PROVE  copies'[e] <= 2 * faults' + blips' + (IF e \in SentOut' THEN 1 ELSE 0)
      BY <1>1, <1>7, <1>12 DEF Commit
  <1>13. ASSUME NEW r \in Relays, RelayCrash(r) \/ Blip(r)
         PROVE  copies'[e] <= 2 * faults' + blips' + (IF e \in SentOut' THEN 1 ELSE 0)
      BY <1>8, <1>13 DEF RelayCrash, Blip
  <1>14. ASSUME NEW c \in Consumers, ConsumerFault(c)
         PROVE  copies'[e] <= 2 * faults' + blips' + (IF e \in SentOut' THEN 1 ELSE 0)
      BY <1>8, <1>14 DEF ConsumerFault, ConsumerCrash, AckLost, Requeue
  <1>15. CASE UNCHANGED <<copies, faults, blips, sent, row>>
      BY <1>1, <1>10, <1>15
  <1> QED
      BY <1>4, <1>5, <1>6, <1>11, <1>12, <1>13, <1>14, <1>15
         DEF Next, RelayStep, RelayFault, ConsumerStep, ClaimBatch, Declare, Deliver, Handle, Reject,
             vars

-----------------------------------------------------------------------------
LEMMA InitIInv == Init => IInv
  <1> SUFFICES ASSUME Init PROVE IInv
      OBVIOUS
  <1>1. TypeOK
      BY InitTypeOK
  <1>2. DisjointBatches
      BY DEF Init, DisjointBatches
  <1>3. OwedBound /\ Delivered
      BY DEF Init, OwedBound, Delivered
  <1>4. CopiesPaid
      BY DEF Init, CopiesPaid, Paid
  <1> QED BY <1>1, <1>2, <1>3, <1>4 DEF IInv

(* The inductive invariant: the batches of the relays, the debts of the    *)
(* outbox and the copies at the broker, together.                          *)
THEOREM Invariance == Spec => []IInv
  <1>1. IInv /\ [Next]_vars => IInv'
      BY NextTypeOK, NextDisjoint, NextOwedBound, NextDelivered, NextCopiesPaid DEF IInv
  <1> QED BY InitIInv, <1>1, PTL DEF Spec

(* Every variable of relays, broker and consumers keeps its type, and no   *)
(* queue holds a copy the broker did not accept (bus.py).                  *)
THEOREM TypeCorrect == Spec => []TypeOK
  <1>1. IInv => TypeOK
      BY DEF IInv
  <1> QED BY Invariance, <1>1, PTL

(* However many relays run, SKIP LOCKED gives them disjoint batches of     *)
(* unpublished rows (relay.py, CLAIM).                                     *)
THEOREM BatchesDisjoint == Spec => []DisjointBatches
  <1>1. IInv => DisjointBatches
      BY DEF IInv
  <1> QED BY Invariance, <1>1, PTL

(* A row that is published or pruned was received by every queue it was    *)
(* owed to, and is waiting, held, handled or parked there: relay_once      *)
(* marks a row after the broker confirmed it, in one transaction.          *)
THEOREM EventsNotLost == Spec => []NothingLost
  <1>1. IInv => NothingLost
    <2> SUFFICES ASSUME IInv, NEW p \in owed, row[p[2]] \in {"published", "pruned"}
                 PROVE  Reached(p[1], p[2])
        BY DEF NothingLost
    <2>1. p[1] \in Queues /\ p[2] \in Events /\ p = <<p[1], p[2]>>
        BY DEF IInv, TypeOK
    <2>2. p[2] \in SentOut
        BY <2>1 DEF SentOut
    <2> QED BY <2>1, <2>2 DEF IInv, Delivered
  <1> QED BY Invariance, <1>1, PTL

(* The broker is given an event again only because of a failure: a lost    *)
(* confirm, a failed pass, a crash, a lost connection.                     *)
THEOREM DuplicatesBounded == Spec => []DuplicatesPaidFor
  <1>1. IInv => DuplicatesPaidFor
    <2> SUFFICES ASSUME IInv, NEW e \in Events PROVE copies[e] <= 1 + 2 * faults + blips
        BY DEF DuplicatesPaidFor
    <2>1. copies[e] \in Nat /\ faults \in Nat /\ blips \in Nat
        BY OutboxAssumption DEF IInv, TypeOK
    <2>2. copies[e] <= 2 * faults + blips + (IF e \in SentOut THEN 1 ELSE 0)
        BY DEF IInv, CopiesPaid, Paid
    <2> QED BY <2>1, <2>2
  <1> QED BY Invariance, <1>1, PTL

-----------------------------------------------------------------------------
(* Where a message is.                                                     *)

LEMMA NextOnePlace == TypeOK /\ OnePlace /\ [Next]_vars => OnePlace'
  <1> SUFFICES ASSUME TypeOK, OnePlace, [Next]_vars PROVE OnePlace'
      OBVIOUS
  <1> USE DEF relay, broker
  <1>0. \A c \in Consumers : Consumes[c] \in Queues
      BY OutboxAssumption
  <1>1. ASSUME ready' = ready, \A c \in Consumers : unacked'[c] \subseteq unacked[c]
        PROVE  OnePlace'
      BY <1>1 DEF OnePlace
  <1>2. ASSUME NEW f \in Events, NEW n \in Nat, Route(f, n), unacked' = unacked PROVE OnePlace'
    <2>1. ASSUME NEW c \in Consumers, NEW m \in unacked[c], m \in ready'[Consumes[c]] PROVE FALSE
      <3>1. m \in {f} \X ((copies[f] + 1)..(copies[f] + n))
          BY <1>0, <1>2, <2>1 DEF Route, OnePlace
      <3>2. m[1] = f /\ m[2] > copies[f]
          BY <3>1 DEF TypeOK
      <3>3. m[2] <= copies[m[1]] /\ copies[f] \in Nat /\ m[2] \in Nat
          BY DEF TypeOK, Messages
      <3> QED BY <3>2, <3>3
    <2> QED BY <1>2, <2>1 DEF OnePlace
  <1>3. ASSUME NEW r \in Relays, NEW f \in Events,
               Publish(r, f) \/ PublishRetried(r, f) \/ \E n \in 0..2 : PassFails(r, f, n)
        PROVE  OnePlace'
    <2>1. unacked' = unacked /\ \E n \in Nat : Route(f, n)
        BY <1>3 DEF Publish, PublishRetried, PassFails
    <2> QED BY <1>2, <2>1
  <1>4. ASSUME NEW c \in Consumers, NEW m \in ready[Consumes[c]], Deliver(c, m) PROVE OnePlace'
    <2>1. /\ unacked'[c] = unacked[c] \cup {m}
          /\ \A d \in Consumers : d # c => unacked'[d] = unacked[d]
          /\ m \notin ready'[Consumes[c]]
          /\ \A q \in Queues : ready'[q] \subseteq ready[q]
        BY <1>0, <1>4 DEF Deliver, TypeOK
    <2>2. \A d \in Consumers : Consumes[d] = Consumes[c] => m \notin unacked[d]
        BY <1>4 DEF OnePlace
    <2> QED BY <1>0, <2>1, <2>2 DEF OnePlace
  <1>5. ASSUME NEW c \in Consumers, NEW m \in unacked[c], Handle(c, m) \/ Reject(c, m)
        PROVE  OnePlace'
    <2>1. ready' = ready /\ \A d \in Consumers : unacked'[d] \subseteq unacked[d]
        BY <1>5 DEF Handle, Reject, TypeOK
    <2> QED BY <1>1, <2>1
  <1>6. ASSUME NEW c \in Consumers, ConsumerFault(c) PROVE OnePlace'
    <2>1. /\ unacked'[c] = {}
          /\ \A d \in Consumers : d # c => unacked'[d] = unacked[d]
          /\ ready'[Consumes[c]] = ready[Consumes[c]] \cup unacked[c]
          /\ \A q \in Queues : q # Consumes[c] => ready'[q] = ready[q]
        BY <1>0, <1>6 DEF ConsumerFault, ConsumerCrash, AckLost, Requeue, TypeOK
    <2> QED BY <1>0, <2>1 DEF OnePlace
  <1>7. CASE UNCHANGED <<ready, unacked>>
      BY <1>1, <1>7
  <1> QED
      BY <1>3, <1>4, <1>5, <1>6, <1>7
         DEF Next, RelayStep, RelayFault, ConsumerStep, Stage, Prune, ClaimBatch, Commit, RelayCrash,
             Blip, Declare, vars

(* The broker gives a message to one consumer at a time, and again only    *)
(* after that one is gone (bus.py, Consumer.run).                          *)
THEOREM MessagesInOnePlace == Spec => []OnePlace
  <1>1. Init => OnePlace
      BY DEF Init, OnePlace
  <1>2. TypeOK /\ OnePlace /\ [Next]_vars => OnePlace'
      BY NextOnePlace
  <1> QED BY TypeCorrect, <1>1, <1>2, PTL DEF Spec

-----------------------------------------------------------------------------
(* Implementing AtLeastOnce, without its fairness.                         *)

(* What is handled or parked was accepted by the broker, and what the      *)
(* broker accepted was staged.                                             *)
Accepted ==
    /\ \A e \in Events : copies[e] > 0 => row[e] # "none"
    /\ \A q \in Queues, e \in Events : <<q, e>> \in handled \/ Parked(q, e) => copies[e] > 0

LEMMA NextAccepted == TypeOK /\ DisjointBatches /\ Accepted /\ [Next]_vars => Accepted'
  <1> SUFFICES ASSUME TypeOK, DisjointBatches, Accepted, [Next]_vars PROVE Accepted'
      OBVIOUS
  <1> USE DEF relay, broker
  <1>1. ASSUME copies' = copies, handled' = handled, dlq' = dlq,
               \A e \in Events : row[e] # "none" => row'[e] # "none"
        PROVE  Accepted'
      BY <1>1 DEF Accepted, Parked
  <1>2. ASSUME NEW f \in Events, Stage(f) \/ Prune(f) PROVE Accepted'
      BY <1>1, <1>2 DEF Stage, Prune, TypeOK
  <1>3. ASSUME NEW r \in Relays, Commit(r) PROVE Accepted'
      BY <1>1, <1>3 DEF Commit
  <1>4. ASSUME NEW r \in Relays, NEW f \in Events,
               Publish(r, f) \/ PublishRetried(r, f) \/ \E n \in 0..2 : PassFails(r, f, n)
        PROVE  Accepted'
    <2>1. row[f] = "waiting" /\ row' = row /\ handled' = handled
        BY <1>4 DEF Publish, PublishRetried, PassFails, FirstClaimed, DisjointBatches
    <2>2. PICK n \in Nat : Route(f, n)
        BY <1>4 DEF Publish, PublishRetried, PassFails
    <2>3. dlq' = dlq /\ \A e \in Events : copies'[e] >= copies[e] /\ (e # f => copies'[e] = copies[e])
        BY <2>2 DEF Route, TypeOK
    <2>4. \A e \in Events : copies[e] \in Nat /\ copies'[e] \in Nat
        BY <2>2 DEF Route, TypeOK
    <2> QED BY <2>1, <2>3, <2>4 DEF Accepted, Parked
  <1>5. ASSUME NEW c \in Consumers, NEW m \in unacked[c]
        PROVE  m[1] \in Events /\ copies[m[1]] > 0
      BY DEF TypeOK, Messages
  <1>6. ASSUME NEW c \in Consumers, NEW m \in unacked[c], Handle(c, m) \/ AckLost(c, m)
        PROVE  Accepted'
    <2>1. row' = row /\ copies' = copies /\ dlq' = dlq /\ handled' = handled \cup {<<Consumes[c], m[1]>>}
        BY <1>6 DEF Handle, AckLost, Requeue
    <2>2. \A q \in Queues, e \in Events : Parked(q, e)' => Parked(q, e)
        BY <2>1 DEF Parked
    <2> QED BY <1>5, <2>1, <2>2 DEF Accepted
  <1>7. ASSUME NEW c \in Consumers, NEW m \in unacked[c], Reject(c, m) PROVE Accepted'
    <2>1. /\ row' = row /\ copies' = copies /\ handled' = handled
          /\ \A q \in Queues : dlq'[q] \subseteq dlq[q] \cup {<<Consumes[c], m>>}
        BY <1>7 DEF Reject
    <2>2. \A q \in Queues, e \in Events : Parked(q, e)' => Parked(q, e) \/ e = m[1]
        BY <2>1 DEF Parked
    <2> QED BY <1>5, <2>1, <2>2 DEF Accepted
  <1>8. CASE UNCHANGED <<row, copies, handled, dlq>>
      BY <1>1, <1>8
  <1> QED
      BY <1>2, <1>3, <1>4, <1>6, <1>7, <1>8
         DEF Next, RelayStep, RelayFault, ConsumerStep, ConsumerFault, ClaimBatch, RelayCrash, Blip,
             Declare, Deliver, ConsumerCrash, Requeue, vars

LEMMA AlwaysAccepted == Spec => []Accepted
  <1>1. Init => Accepted
      BY DEF Init, Accepted, Parked
  <1>2. TypeOK /\ DisjointBatches /\ Accepted /\ [Next]_vars => Accepted'
      BY NextAccepted
  <1> QED BY TypeCorrect, BatchesDisjoint, <1>1, <1>2, PTL DEF Spec

(* A staged event becomes a debt, a handled or a parked one settles it, and*)
(* every other step of db.py, relay.py and bus.py is a stutter.            *)
LEMMA StepImplements ==
    ASSUME IInv, Accepted, [Next]_vars
    PROVE  [A!ABNext]_(A!avars)
  <1> USE DEF relay, broker
  <1>0. TypeOK /\ OwedBound
      BY DEF IInv
  <1>1. ASSUME owed' = owed, handled' = handled, dlq' = dlq PROVE UNCHANGED A!avars
      BY <1>1 DEF A!avars, Settled, Parked
  <1>2. ASSUME NEW f \in Events, Stage(f) PROVE A!ABNext
    <2> DEFINE Q == {q \in declared : Bound(q, f)}
    <2>1. Q \in SUBSET Queues /\ row[f] = "none"
        BY <1>0, <1>2 DEF TypeOK, Stage
    <2>2. \A q \in Queues : <<q, f>> \notin owed
        BY <1>0, <2>1 DEF OwedBound
    <2>3. owed' = owed \cup (Q \X {f})
        BY <1>2 DEF Stage
    <2>4. ASSUME NEW p \in Q \X {f} PROVE p \notin handled /\ ~Parked(p[1], p[2])
      <3>1. p[1] \in Queues /\ p[2] = f /\ p = <<p[1], f>>
          BY <2>1
      <3>2. ~(copies[f] > 0)
          BY <2>1 DEF Accepted
      <3>3. \A q \in Queues : <<q, f>> \notin handled /\ ~Parked(q, f)
          BY <3>2 DEF Accepted
      <3> QED BY <3>1, <3>3
    <2>5. Settled' = Settled
      <3>1. handled' = handled /\ dlq' = dlq
          BY <1>2 DEF Stage
      <3>2. \A p : Parked(p[1], p[2])' <=> Parked(p[1], p[2])
          BY <3>1 DEF Parked
      <3> QED BY <2>3, <2>4, <3>1, <3>2 DEF Settled
    <2>6. A!Promise(f, Q)
        BY <2>2, <2>3, <2>5 DEF A!Promise
    <2> QED BY <2>1, <2>6 DEF A!ABNext
  <1>3. ASSUME NEW c \in Consumers, NEW m \in unacked[c], owed' = owed,
               Settled' = Settled \/ (<<Consumes[c], m[1]>> \in owed
                                      /\ Settled' = Settled \cup {<<Consumes[c], m[1]>>})
        PROVE  [A!ABNext]_(A!avars)
    <2>1. Consumes[c] \in Queues /\ m[1] \in Events
        BY <1>0, OutboxAssumption DEF TypeOK, Messages
    <2>2. CASE Settled' = Settled
        BY <1>3, <2>2 DEF A!avars
    <2>3. CASE /\ <<Consumes[c], m[1]>> \in owed
               /\ Settled' = Settled \cup {<<Consumes[c], m[1]>>}
      <3>1. A!Settle(Consumes[c], m[1])
          BY <1>3, <2>3 DEF A!Settle
      <3> QED BY <2>1, <3>1 DEF A!ABNext
    <2> QED BY <1>3, <2>2, <2>3
  <1>4. ASSUME NEW c \in Consumers, NEW m \in unacked[c], Handle(c, m) \/ AckLost(c, m)
        PROVE  [A!ABNext]_(A!avars)
    <2> DEFINE s == <<Consumes[c], m[1]>>
    <2>1. owed' = owed /\ dlq' = dlq /\ handled' = handled \cup {s}
        BY <1>4 DEF Handle, AckLost, Requeue
    <2>2. \A p : Parked(p[1], p[2])' <=> Parked(p[1], p[2])
        BY <2>1 DEF Parked
    <2>3. Settled' = Settled \cup ({s} \cap owed)
        BY <2>1, <2>2 DEF Settled
    <2> HIDE DEF s
    <2>4. Settled' = Settled \/ (s \in owed /\ Settled' = Settled \cup {s})
        BY <2>3
    <2> QED BY <1>3, <2>1, <2>4 DEF s
  <1>5. ASSUME NEW c \in Consumers, NEW m \in unacked[c], Reject(c, m)
        PROVE  [A!ABNext]_(A!avars)
    <2> DEFINE s == <<Consumes[c], m[1]>>
    <2>1. /\ owed' = owed /\ handled' = handled
          /\ \A q \in Queues : dlq'[q] = IF q \in declared THEN dlq[q] \cup {<<Consumes[c], m>>}
                                                           ELSE dlq[q]
        BY <1>5 DEF Reject
    <2>2. ASSUME NEW p \in owed
          PROVE  Parked(p[1], p[2])' <=> Parked(p[1], p[2]) \/ p = s
      <3>1. p[1] \in Queues /\ p[2] \in Events /\ p = <<p[1], p[2]>>
          BY <1>0 DEF TypeOK
      <3>2. p[1] \in declared
          BY <1>0, <3>1 DEF OwedBound
      <3>3. dlq'[p[1]] = dlq[p[1]] \cup {<<Consumes[c], m>>}
          BY <2>1, <3>1, <3>2
      <3>4. p = s <=> p[1] = Consumes[c] /\ p[2] = m[1]
          BY <3>1
      <3> DEFINE d == <<Consumes[c], m>>
      <3>5. d[1] = Consumes[c] /\ d[2][1] = m[1]
          OBVIOUS
      <3> HIDE DEF s, d
      <3>6. dlq'[p[1]] = dlq[p[1]] \cup {d}
          BY <3>3 DEF d
      <3> QED BY <3>4, <3>5, <3>6 DEF Parked
    <2> HIDE DEF s
    <2>3. Settled' = Settled \cup ({s} \cap owed)
        BY <2>1, <2>2 DEF Settled
    <2>4. Settled' = Settled \/ (s \in owed /\ Settled' = Settled \cup {s})
        BY <2>3
    <2> QED BY <1>3, <2>1, <2>4 DEF s
  <1>6. CASE UNCHANGED <<owed, handled, dlq>>
      BY <1>1, <1>6
  <1> QED
      BY <1>2, <1>4, <1>5, <1>6
         DEF Next, RelayStep, RelayFault, ConsumerStep, Prune, ClaimBatch, Publish, PublishRetried,
             PassFails, Route, Commit, RelayCrash, Blip, Declare, Deliver, ConsumerFault,
             ConsumerCrash, Requeue, vars

(* The outbox, the relays and the bus implement at-least-once delivery: no *)
(* debt to a queue is ever taken back, and it is settled only by a handler *)
(* that returned or by the queue's dead letters.                           *)
THEOREM ImplementsAtLeastOnce == Spec => A!Safety
  <1>1. Init => A!ABInit
      BY DEF Init, A!ABInit, Settled
  <1>2. IInv /\ Accepted /\ [Next]_vars => [A!ABNext]_(A!avars)
      BY StepImplements
  <1> QED BY Invariance, AlwaysAccepted, <1>1, <1>2, PTL DEF Spec, A!Safety

=============================================================================
