------------------------- MODULE NotificationsProofs -------------------------
(***************************************************************************)
(* Send-once, proved for every set of channels, events and workers and     *)
(* every amount of redelivery, failure and deletion.                       *)
(***************************************************************************)
EXTENDS Notifications, TLAPS

(* A worker that holds a pair knows whether the channel confirmed it: the  *)
(* claim was only possible while no copy was confirmed, and no other       *)
(* worker can send meanwhile.                                              *)
Held ==
    \A w \in Workers : pc[w] \in Holding =>
        /\ channel[cur[w]] # "none"
        /\ confirmed[Pair(w)] = IF out[w] = "accepted" THEN 1 ELSE 0

(* What a worker has read is still to be told to channels that asked.      *)
MayTell(c, e) == ChannelTenant[c] = EventTenant[e] /\ Wants(c, EventType[e])
Entitled ==
    \A w \in Workers :
        /\ \A c \in todo[w] : ~At(w, "idle") /\ channel[c] # "none" /\ MayTell(c, ev[w])
        /\ pc[w] \in Holding => MayTell(cur[w], ev[w])

Core == ClaimExclusive /\ Held /\ ConfirmedOnce /\ RowTruthful
IInv == TypeOK /\ Core /\ Entitled /\ OnlySubscribed

-----------------------------------------------------------------------------
(* Type correctness.                                                       *)

LEMMA InitTypeOK == Init => TypeOK
  BY ChannelAssumption, NotifyBoundAssumption
     DEF Init, TypeOK, RowTypeOK, BusTypeOK, WorkerTypeOK, At, Holding

LEMMA ReturnTyped ==
    ASSUME WorkerTypeOK, NEW w \in Workers, Return(w), staged' = staged
    PROVE  WorkerTypeOK'
  BY DEF WorkerTypeOK, Return, At, Holding

LEMMA NextChannelTyped ==
    ASSUME WorkerTypeOK, NEW w \in Workers, ~At(w, "idle"), NextChannel(w), staged' = staged
    PROVE  WorkerTypeOK'
  BY DEF WorkerTypeOK, NextChannel, At, Holding

LEMMA HeldPair ==
    ASSUME TypeOK, NEW w \in Workers, pc[w] \in Holding
    PROVE  cur[w] \in Channels /\ ev[w] \in Events /\ Pair(w) \in Pairs
  BY DEF TypeOK, BusTypeOK, WorkerTypeOK, At, Holding, Pair, Pairs

LEMMA NextTypeOK == TypeOK /\ [Next]_vars => TypeOK'
  <1> SUFFICES ASSUME TypeOK, [Next]_vars PROVE TypeOK'
      OBVIOUS
  <1> USE DEF rows, sent, bus, wrk
  <1>1. ASSUME NEW c \in Channels, CreateChannel(c) PROVE TypeOK'
      BY <1>1 DEF CreateChannel, TypeOK, RowTypeOK, BusTypeOK, WorkerTypeOK, At
  <1>2. ASSUME NEW c \in Channels, DeleteChannel(c) PROVE TypeOK'
      BY <1>2 DEF DeleteChannel, TypeOK, RowTypeOK, BusTypeOK, WorkerTypeOK, At
  <1>3. ASSUME NEW w \in Workers, ReadChannels(w) PROVE TypeOK'
    <2>1. Subscribed(ev[w]) \subseteq Channels
        BY DEF Subscribed
    <2>2. WorkerTypeOK'
        BY <1>3, <2>1 DEF ReadChannels, TypeOK, WorkerTypeOK, At, Holding
    <2> QED BY <1>3, <2>2 DEF ReadChannels, TypeOK, RowTypeOK, BusTypeOK
  <1>4. ASSUME NEW w \in Workers, NEW c \in Channels, Claim(w, c) PROVE TypeOK'
    <2>1. WorkerTypeOK'
        BY <1>4, ChannelAssumption DEF Claim, TypeOK, WorkerTypeOK, At, Holding
    <2> QED BY <1>4, <2>1 DEF Claim, TypeOK, RowTypeOK, BusTypeOK
  <1>5. ASSUME NEW w \in Workers, NEW c \in Channels, SkipClaimed(w, c) PROVE TypeOK'
      BY <1>5 DEF SkipClaimed, TypeOK, RowTypeOK, BusTypeOK, WorkerTypeOK, At, Holding
  <1>6. ASSUME NEW w \in Workers, NEW c \in Channels, ClaimDeleted(w, c) PROVE TypeOK'
    <2>1. ev[w] \in staged
        BY <1>6 DEF ClaimDeleted, TypeOK, WorkerTypeOK, At
    <2> QED BY <1>6, <2>1, ReturnTyped DEF ClaimDeleted, TypeOK, RowTypeOK, BusTypeOK
  <1>7. ASSUME NEW w \in Workers, NEW o \in AllResults, Send(w, o) PROVE TypeOK'
    <2>1. WorkerTypeOK'
        BY <1>7 DEF Send, AllResults, WebhookResults, EmailResults, TypeOK, WorkerTypeOK, At, Holding
    <2>2. RowTypeOK'
        BY <1>7, HeldPair DEF Send, TypeOK, RowTypeOK, At, Holding
    <2> QED BY <1>7, <2>1, <2>2 DEF Send, TypeOK, BusTypeOK
  <1>8. ASSUME NEW w \in Workers, Record(w) PROVE TypeOK'
    <2>1. CASE out[w] # "accepted" /\ Retryable(out[w])
      <3>1. WorkerTypeOK'
          BY <1>8, <2>1 DEF Record, Goto, TypeOK, WorkerTypeOK, At, Holding
      <3> QED BY <1>8, <3>1 DEF Record, TypeOK, RowTypeOK, BusTypeOK
    <2>2. CASE ~(out[w] # "accepted" /\ Retryable(out[w]))
        BY <1>8, <2>2, NextChannelTyped DEF Record, At, TypeOK, RowTypeOK, BusTypeOK
    <2> QED BY <2>1, <2>2
  <1>9. ASSUME NEW w \in Workers, Release(w) PROVE TypeOK'
      BY <1>9, HeldPair, NextChannelTyped DEF Release, At, Holding, TypeOK, RowTypeOK, BusTypeOK
  <1>10. ASSUME NEW w \in Workers, Ack(w) PROVE TypeOK'
      BY <1>10, ReturnTyped DEF Ack, TypeOK, RowTypeOK, BusTypeOK
  <1>11. ASSUME NEW w \in Workers, Crash(w) PROVE TypeOK'
    <2>1. ev[w] \in staged
        BY <1>11 DEF Crash, TypeOK, WorkerTypeOK, At
    <2> QED BY <1>11, <2>1, ReturnTyped, NotifyBoundAssumption DEF Crash, TypeOK, RowTypeOK, BusTypeOK
  <1>12. ASSUME NEW w \in Workers, Raise(w) PROVE TypeOK'
    <2>1. ev[w] \in staged
        BY <1>12 DEF Raise, TypeOK, WorkerTypeOK, At
    <2> QED BY <1>12, <2>1, ReturnTyped, NotifyBoundAssumption DEF Raise, TypeOK, RowTypeOK, BusTypeOK
  <1>13. ASSUME NEW w \in Workers, NEW e \in Events, Receive(w, e) PROVE TypeOK'
    <2>1. WorkerTypeOK'
        BY <1>13 DEF Receive, TypeOK, BusTypeOK, WorkerTypeOK, At, Holding
    <2> QED BY <1>13, <2>1 DEF Receive, TypeOK, RowTypeOK, BusTypeOK
  <1>14. ASSUME NEW e \in Events, Publish(e) PROVE TypeOK'
      BY <1>14 DEF Publish, TypeOK, RowTypeOK, BusTypeOK, WorkerTypeOK, At
  <1>15. ASSUME NEW e \in Events, Redeliver(e) PROVE TypeOK'
      BY <1>15, NotifyBoundAssumption DEF Redeliver, TypeOK, RowTypeOK, BusTypeOK, WorkerTypeOK, At
  <1>17. ASSUME NEW w \in Workers, SendRaises(w) PROVE TypeOK'
    <2>1. ev[w] \in staged
        BY <1>17 DEF SendRaises, TypeOK, WorkerTypeOK, At
    <2> QED BY <1>17, <2>1, ReturnTyped DEF SendRaises, TypeOK, RowTypeOK, BusTypeOK
  <1>16. CASE UNCHANGED vars
      BY <1>16 DEF vars, TypeOK, RowTypeOK, BusTypeOK, WorkerTypeOK, At
  <1> QED
      BY <1>1, <1>2, <1>3, <1>4, <1>5, <1>6, <1>7, <1>8, <1>9, <1>10, <1>11, <1>12, <1>13,
         <1>14, <1>15, <1>16, <1>17 DEF Next, WorkerStep, AllResults

-----------------------------------------------------------------------------
(* The steps that neither touch a row nor take or tell a pair.             *)

Same(u) == pc'[u] = pc[u] /\ cur'[u] = cur[u] /\ ev'[u] = ev[u] /\ out'[u] = out[u]

LEMMA QuietKept ==
    ASSUME TypeOK, Core, UNCHANGED <<channel, row, confirmed>>, staged \subseteq staged',
           \A u \in Workers : pc'[u] \in Holding => Same(u)
    PROVE  Core'
  <1>1. ASSUME NEW u \in Workers, pc'[u] \in Holding
        PROVE  pc[u] \in Holding /\ Pair(u)' = Pair(u) /\ Same(u)
      BY <1>1 DEF Same, Pair
  <1>2. ClaimExclusive'
      BY <1>1 DEF Core, ClaimExclusive, Same, At
  <1>3. Held'
      BY <1>1 DEF Core, Held, Same
  <1>4. ConfirmedOnce'
      BY DEF Core, ConfirmedOnce
  <1>5. RowTruthful'
      BY DEF Core, RowTruthful
  <1> QED BY <1>2, <1>3, <1>4, <1>5 DEF Core

LEMMA ReturnSame ==
    ASSUME TypeOK, NEW w \in Workers, Return(w), NEW u \in Workers, pc'[u] \in Holding
    PROVE  Same(u)
  BY DEF Return, Same, Holding, TypeOK, WorkerTypeOK

LEMMA QuietCore ==
    ASSUME TypeOK, Core, NEW w \in Workers,
           \/ ReadChannels(w) \/ SendRaises(w) \/ Ack(w) \/ Crash(w) \/ Raise(w)
           \/ \E c \in Channels : SkipClaimed(w, c) \/ ClaimDeleted(w, c)
           \/ \E e \in Events : Receive(w, e)
    PROVE  Core'
  <1> USE DEF rows, sent, bus, wrk
  <1>1. CASE ReadChannels(w)
    <2>1. \A u \in Workers : pc'[u] \in Holding => Same(u)
        BY <1>1 DEF ReadChannels, Same, Holding, TypeOK, WorkerTypeOK
    <2> QED BY <1>1, <2>1, QuietKept DEF ReadChannels
  <1>2. CASE Ack(w)
      BY <1>2, ReturnSame, QuietKept DEF Ack
  <1>3. CASE Crash(w)
      BY <1>3, ReturnSame, QuietKept DEF Crash
  <1>4. CASE Raise(w)
      BY <1>4, ReturnSame, QuietKept DEF Raise
  <1>5. ASSUME NEW c \in Channels, SkipClaimed(w, c) PROVE Core'
    <2>1. \A u \in Workers : Same(u)
        BY <1>5 DEF SkipClaimed, Same
    <2> QED BY <1>5, <2>1, QuietKept DEF SkipClaimed
  <1>6. ASSUME NEW c \in Channels, ClaimDeleted(w, c) PROVE Core'
      BY <1>6, ReturnSame, QuietKept DEF ClaimDeleted
  <1>7. ASSUME NEW e \in Events, Receive(w, e) PROVE Core'
    <2>1. \A u \in Workers : pc'[u] \in Holding => Same(u)
        BY <1>7 DEF Receive, Same, Holding, TypeOK, WorkerTypeOK
    <2> QED BY <1>7, <2>1, QuietKept DEF Receive
  <1>8. CASE SendRaises(w)
      BY <1>8, ReturnSame, QuietKept DEF SendRaises
  <1> QED BY <1>1, <1>2, <1>3, <1>4, <1>5, <1>6, <1>7, <1>8

LEMMA BusCore ==
    ASSUME TypeOK, Core, NEW e \in Events, Publish(e) \/ Redeliver(e)
    PROVE  Core'
  <1>1. \A u \in Workers : Same(u)
      BY DEF Publish, Redeliver, wrk, Same
  <1> QED BY <1>1, QuietKept DEF Publish, Redeliver, rows, sent, wrk

-----------------------------------------------------------------------------
(* The steps that do.                                                      *)

LEMMA CreateCore ==
    ASSUME TypeOK, Core, NEW c \in Channels, CreateChannel(c)
    PROVE  Core'
  <1> USE DEF rows, sent, bus, wrk
  <1>1. ASSUME NEW u \in Workers, pc'[u] \in Holding
        PROVE  /\ pc[u] \in Holding /\ Pair(u)' = Pair(u) /\ cur[u] \in Channels
               /\ cur[u] # c
      BY <1>1, HeldPair DEF CreateChannel, Pair, Core, Held
  <1>2. \A d \in Channels : d # c => channel'[d] = channel[d]
      BY DEF CreateChannel, TypeOK, RowTypeOK
  <1>3. channel[c] = "none" /\ channel'[c] = "live"
      BY DEF CreateChannel, TypeOK, RowTypeOK
  <1>4. ClaimExclusive'
      BY <1>1, <1>2 DEF CreateChannel, Core, ClaimExclusive, At
  <1>5. Held'
      BY <1>1, <1>2 DEF CreateChannel, Core, Held
  <1>6. ASSUME NEW p \in Pairs, channel[p[1]] = "none" PROVE row[p] = "none" /\ confirmed[p] = 0
      BY <1>6 DEF Core, RowTruthful, ConfirmedOnce, TypeOK, RowTypeOK
  <1>7. ASSUME NEW p \in Pairs PROVE p[1] \in Channels /\ (p[1] # c => channel'[p[1]] = channel[p[1]])
      BY <1>2 DEF Pairs
  <1>8. ConfirmedOnce'
      BY <1>3, <1>6, <1>7 DEF CreateChannel, Core, ConfirmedOnce
  <1>9. RowTruthful'
      BY <1>3, <1>7 DEF CreateChannel, Core, RowTruthful
  <1> QED BY <1>4, <1>5, <1>8, <1>9 DEF Core

LEMMA DeleteCore ==
    ASSUME TypeOK, Core, NEW c \in Channels, DeleteChannel(c)
    PROVE  Core'
  <1> USE DEF rows, sent, bus, wrk
  <1>1. ASSUME NEW p \in Pairs
        PROVE  /\ p[1] = c => channel'[p[1]] = "deleted" /\ row'[p] = "none"
               /\ p[1] # c => channel'[p[1]] = channel[p[1]] /\ row'[p] = row[p]
      BY DEF DeleteChannel, TypeOK, RowTypeOK, Pairs
  <1>2. ASSUME NEW u \in Workers, pc'[u] \in Holding
        PROVE  /\ pc[u] \in Holding /\ Pair(u)' = Pair(u) /\ Pair(u) \in Pairs
               /\ Pair(u)[1] = cur[u] /\ cur'[u] = cur[u] /\ out'[u] = out[u]
      BY <1>2, HeldPair DEF DeleteChannel, Pair
  <1>3. ClaimExclusive'
      BY <1>1, <1>2 DEF DeleteChannel, Core, ClaimExclusive, At
  <1>4. Held'
      BY <1>1, <1>2 DEF DeleteChannel, Core, Held
  <1>5. ConfirmedOnce'
      BY <1>1 DEF DeleteChannel, Core, ConfirmedOnce
  <1>6. RowTruthful'
      BY <1>1 DEF DeleteChannel, Core, RowTruthful
  <1> QED BY <1>3, <1>4, <1>5, <1>6 DEF Core

LEMMA ClaimCore ==
    ASSUME TypeOK, Core, NEW w \in Workers, NEW c \in Channels, Claim(w, c)
    PROVE  Core'
  <1> USE DEF rows, sent, bus, wrk
  <1> DEFINE q == <<c, ev[w]>>
  <1>1. q \in Pairs /\ q[1] = c /\ q[2] \in staged
      BY DEF Claim, TypeOK, BusTypeOK, WorkerTypeOK, At, Pairs
  <1>2. row[q] = "none" /\ channel[c] = "live" /\ confirmed[q] = 0
      BY <1>1 DEF Claim, Core, ConfirmedOnce, TypeOK, RowTypeOK
  <1>3. row'[q] = "sending" /\ \A p \in Pairs : p # q => row'[p] = row[p]
      BY <1>1 DEF Claim, TypeOK, RowTypeOK
  <1>4. pc'[w] = "send" /\ cur'[w] = c /\ out'[w] = out[w] /\ Pair(w)' = q /\ out[w] = "none"
      BY DEF Claim, Pair, TypeOK, WorkerTypeOK, At
  <1>5. ASSUME NEW u \in Workers, u # w, pc'[u] \in Holding
        PROVE  /\ Same(u) /\ pc[u] \in Holding /\ Pair(u)' = Pair(u) /\ Pair(u) \in Pairs
               /\ Pair(u) # q
    <2>1. Same(u) /\ Pair(u)' = Pair(u) /\ pc[u] \in Holding
        BY <1>5 DEF Claim, Same, Pair, TypeOK, WorkerTypeOK
    <2>2. Pair(u) = q => cur[u] = c
        BY DEF Pair
    <2>3. channel[cur[u]] # "deleted" => row[Pair(u)] # "none"
        BY <2>1 DEF Core, ClaimExclusive
    <2> QED BY <2>1, <2>2, <2>3, <1>2, HeldPair
  <1>6. ClaimExclusive'
    <2>1. ASSUME NEW u \in Workers, u # w, pc'[u] \in Holding
          PROVE  channel[cur[u]] # "deleted" =>
                    row[Pair(u)] = IF pc[u] = "release" THEN "failed" ELSE "sending"
        BY <1>5, <2>1 DEF Core, ClaimExclusive, At
    <2> QED BY <1>3, <1>4, <1>5, <2>1 DEF Claim, Core, ClaimExclusive, At, Same
  <1>7. Held'
      BY <1>2, <1>4, <1>5 DEF Claim, Core, Held, Same
  <1>8. ConfirmedOnce'
      BY <1>1, <1>2, <1>3 DEF Claim, Core, ConfirmedOnce
  <1>9. RowTruthful'
      BY <1>1, <1>2, <1>3 DEF Claim, Core, RowTruthful
  <1> QED BY <1>6, <1>7, <1>8, <1>9 DEF Core

(* What the other workers hold is not the pair this one works on.          *)
LEMMA OthersHold ==
    ASSUME TypeOK, Core, NEW w \in Workers, pc[w] \in Holding, NEW u \in Workers, u # w,
           pc[u] \in Holding
    PROVE  Pair(u) \in Pairs /\ Pair(u) # Pair(w)
  BY HeldPair DEF Core, ClaimExclusive

LEMMA SendCore ==
    ASSUME TypeOK, Core, NEW w \in Workers, NEW o \in AllResults, Send(w, o)
    PROVE  Core'
  <1> USE DEF rows, sent, bus, wrk
  <1> DEFINE q == Pair(w)
  <1>1. q \in Pairs /\ pc[w] = "send" /\ pc[w] \in Holding /\ q[1] = cur[w] /\ out[w] = "none"
      BY HeldPair DEF Send, At, Holding, Pair, TypeOK, WorkerTypeOK
  <1>2. confirmed[q] = 0
      BY <1>1 DEF Core, Held
  <1>3. /\ confirmed'[q] = IF o = "accepted" THEN 1 ELSE 0
        /\ \A p \in Pairs : p # q => confirmed'[p] = confirmed[p]
      BY <1>1, <1>2 DEF Send, TypeOK, RowTypeOK
  <1>4. pc'[w] = "record" /\ out'[w] = o /\ cur'[w] = cur[w] /\ Pair(w)' = q
      BY DEF Send, Pair, TypeOK, WorkerTypeOK
  <1>5. ASSUME NEW u \in Workers, u # w, pc'[u] \in Holding
        PROVE  /\ Same(u) /\ pc[u] \in Holding /\ Pair(u)' = Pair(u)
               /\ Pair(u) \in Pairs /\ Pair(u) # q
    <2>1. Same(u) /\ Pair(u)' = Pair(u) /\ pc[u] \in Holding
        BY <1>5 DEF Send, Same, Pair, TypeOK, WorkerTypeOK
    <2> QED BY <1>1, <1>5, <2>1, OthersHold
  <1>6. channel[cur[w]] # "deleted" => row[q] = "sending"
      BY <1>1 DEF Core, ClaimExclusive, At
  <1>7. ClaimExclusive'
    <2>1. ASSUME NEW u \in Workers, u # w, pc'[u] \in Holding
          PROVE  channel[cur[u]] # "deleted" =>
                    row[Pair(u)] = IF pc[u] = "release" THEN "failed" ELSE "sending"
        BY <1>5, <2>1 DEF Core, ClaimExclusive, At
    <2>2. /\ row' = row /\ channel' = channel
          /\ channel'[cur'[w]] # "deleted" => row'[Pair(w)'] = "sending"
        BY <1>4, <1>6 DEF Send
    <2>3. ASSUME NEW u \in Workers, NEW v \in Workers, pc'[u] \in Holding, pc'[v] \in Holding,
                 Pair(u)' = Pair(v)'
          PROVE  u = v
        BY <1>1, <1>4, <1>5, <2>3 DEF Core, ClaimExclusive
    <2>4. ASSUME NEW u \in Workers, pc'[u] \in Holding, channel'[cur'[u]] # "deleted"
          PROVE  row'[Pair(u)'] = IF pc'[u] = "release" THEN "failed" ELSE "sending"
      <3>1. CASE u = w
          BY <1>4, <2>2, <2>4, <3>1
      <3>2. CASE u # w
          BY <1>5, <2>1, <2>2, <2>4, <3>2 DEF Same
      <3> QED BY <3>1, <3>2
    <2> QED BY <2>3, <2>4 DEF ClaimExclusive, At
  <1>8. Held'
      BY <1>1, <1>3, <1>4, <1>5 DEF Send, Core, Held, Same
  <1>9. ConfirmedOnce'
      BY <1>1, <1>3, <1>6 DEF Send, Core, ConfirmedOnce
  <1>10. row[q] \notin {"sent", "failed"}
    <2>1. row[q] # "none" => channel[cur[w]] = "live"
        BY <1>1 DEF Core, RowTruthful
    <2> QED BY <1>6, <2>1
  <1>11. RowTruthful'
      BY <1>1, <1>3, <1>10 DEF Send, Core, RowTruthful
  <1> QED BY <1>7, <1>8, <1>9, <1>11 DEF Core

LEMMA RecordCore ==
    ASSUME TypeOK, Core, NEW w \in Workers, Record(w)
    PROVE  Core'
  <1> USE DEF rows, sent, bus, wrk
  <1> DEFINE q == Pair(w)
  <1>1. q \in Pairs /\ pc[w] = "record" /\ pc[w] \in Holding /\ q[1] = cur[w]
      BY HeldPair DEF Record, At, Holding, Pair
  <1>2. confirmed[q] = IF out[w] = "accepted" THEN 1 ELSE 0
      BY <1>1 DEF Core, Held
  <1>3. channel[cur[w]] # "deleted" => row[q] = "sending"
      BY <1>1 DEF Core, ClaimExclusive, At
  <1>4. row[q] # "none" => row[q] = "sending" /\ channel[cur[w]] = "live" /\ q[2] \in staged
      BY <1>1, <1>3 DEF Core, RowTruthful
  <1>5. /\ row'[q] = IF row[q] = "none" THEN "none" ELSE IF out[w] = "accepted" THEN "sent" ELSE "failed"
        /\ \A p \in Pairs : p # q => row'[p] = row[p]
      BY <1>1 DEF Record, TypeOK, RowTypeOK
  <1>6. ASSUME NEW u \in Workers, u # w, pc'[u] \in Holding
        PROVE  /\ Same(u) /\ pc[u] \in Holding /\ Pair(u)' = Pair(u)
               /\ Pair(u) \in Pairs /\ Pair(u) # q
    <2>1. Same(u)
        BY <1>6 DEF Record, Goto, NextChannel, Same, TypeOK, WorkerTypeOK
    <2> QED BY <1>1, <1>6, <2>1, OthersHold DEF Same, Pair
  <1>7. pc'[w] \in Holding => /\ pc'[w] = "release" /\ out[w] # "accepted"
                             /\ cur' = cur /\ out' = out /\ ev' = ev
      BY DEF Record, Goto, NextChannel, Holding, TypeOK, WorkerTypeOK
  <1>8. ClaimExclusive'
    <2>1. ASSUME NEW u \in Workers, u # w, pc'[u] \in Holding
          PROVE  channel[cur[u]] # "deleted" =>
                    row[Pair(u)] = IF pc[u] = "release" THEN "failed" ELSE "sending"
        BY <1>6, <2>1 DEF Core, ClaimExclusive, At
    <2>2. pc'[w] \in Holding => Pair(w)' = q
        BY <1>7 DEF Pair
    <2> QED BY <1>3, <1>5, <1>6, <1>7, <2>1, <2>2 DEF Record, Core, ClaimExclusive, At, Same
  <1>9. Held'
    <2>1. pc'[w] \in Holding => Pair(w)' = q
        BY <1>7 DEF Pair
    <2> QED BY <1>1, <1>2, <1>6, <1>7, <2>1 DEF Record, Core, Held, Same
  <1>10. ConfirmedOnce'
      BY <1>1, <1>2, <1>3, <1>5 DEF Record, Core, ConfirmedOnce
  <1>11. RowTruthful'
      BY <1>1, <1>2, <1>4, <1>5 DEF Record, Core, RowTruthful
  <1> QED BY <1>8, <1>9, <1>10, <1>11 DEF Core

LEMMA ReleaseCore ==
    ASSUME TypeOK, Core, NEW w \in Workers, Release(w)
    PROVE  Core'
  <1> USE DEF rows, sent, bus, wrk
  <1> DEFINE q == Pair(w)
  <1>1. q \in Pairs /\ pc[w] \in Holding /\ out[w] # "accepted"
      BY HeldPair DEF Release, At, Holding, TypeOK, WorkerTypeOK
  <1>2. confirmed[q] = 0
      BY <1>1 DEF Core, Held
  <1>3. row'[q] = "none" /\ \A p \in Pairs : p # q => row'[p] = row[p]
      BY <1>1 DEF Release, TypeOK, RowTypeOK
  <1>4. ASSUME NEW u \in Workers, pc'[u] \in Holding
        PROVE  /\ u # w /\ Same(u) /\ pc[u] \in Holding /\ Pair(u)' = Pair(u)
               /\ Pair(u) \in Pairs /\ Pair(u) # q
    <2>1. u # w /\ Same(u)
        BY <1>4 DEF Release, NextChannel, Same, Holding, TypeOK, WorkerTypeOK
    <2> QED BY <1>1, <1>4, <2>1, OthersHold DEF Same, Pair
  <1>5. ClaimExclusive'
      BY <1>3, <1>4 DEF Release, Core, ClaimExclusive, At, Same
  <1>6. Held'
      BY <1>4 DEF Release, Core, Held, Same
  <1>7. ConfirmedOnce'
      BY <1>1, <1>2, <1>3 DEF Release, Core, ConfirmedOnce
  <1>8. RowTruthful'
      BY <1>1, <1>3 DEF Release, Core, RowTruthful
  <1> QED BY <1>5, <1>6, <1>7, <1>8 DEF Core

LEMMA NextCore == TypeOK /\ Core /\ [Next]_vars => Core'
  <1> SUFFICES ASSUME TypeOK, Core, [Next]_vars PROVE Core'
      OBVIOUS
  <1>1. CASE UNCHANGED vars
    <2>1. \A u \in Workers : Same(u)
        BY <1>1 DEF vars, wrk, Same
    <2> QED BY <1>1, <2>1, QuietKept DEF vars, rows, sent, bus
  <1> QED BY <1>1, QuietCore, BusCore, CreateCore, DeleteCore, ClaimCore, SendCore, RecordCore,
             ReleaseCore DEF Next, WorkerStep, AllResults

-----------------------------------------------------------------------------
(* Who is told.                                                            *)

EntitledTo(w) ==
    /\ \A c \in todo[w] : ~At(w, "idle") /\ channel[c] # "none" /\ MayTell(c, ev[w])
    /\ pc[w] \in Holding => MayTell(cur[w], ev[w])

LEMMA NextEntitled == TypeOK /\ Entitled /\ [Next]_vars => Entitled'
  <1> SUFFICES ASSUME TypeOK, Entitled, [Next]_vars, NEW u \in Workers PROVE EntitledTo(u)'
      BY DEF Entitled, EntitledTo
  <1> USE DEF rows, sent, bus, wrk
  <1>1. EntitledTo(u) /\ todo[u] \subseteq Channels
      BY DEF Entitled, EntitledTo, TypeOK, WorkerTypeOK
  <1>2. \A c \in Channels : channel[c] # "none" => channel'[c] # "none"
    <2>1. ASSUME NEW c \in Channels, CreateChannel(c) \/ DeleteChannel(c)
          PROVE  \A d \in Channels : channel[d] # "none" => channel'[d] # "none"
        BY <2>1 DEF CreateChannel, DeleteChannel, TypeOK, RowTypeOK
    <2> QED BY <2>1 DEF Next, WorkerStep, ReadChannels, Claim, SkipClaimed, ClaimDeleted, Send, SendRaises, Record,
                        Release, Ack, Crash, Raise, Receive, Publish, Redeliver, vars
  <1>3. ASSUME todo'[u] \subseteq todo[u], ev'[u] = ev[u], pc'[u] # "idle",
               pc'[u] \in Holding => pc[u] \in Holding /\ cur'[u] = cur[u]
        PROVE  EntitledTo(u)'
      BY <1>1, <1>2, <1>3 DEF EntitledTo, At, MayTell, Wants
  <1>4. ASSUME NEW w \in Workers, Return(w) PROVE EntitledTo(u)'
    <2>1. CASE u = w
        BY <1>4, <2>1 DEF Return, EntitledTo, Holding, TypeOK, WorkerTypeOK
    <2>2. CASE u # w
      <3>1. pc'[u] = pc[u] /\ ev'[u] = ev[u] /\ todo'[u] = todo[u] /\ cur'[u] = cur[u]
          BY <1>4, <2>2 DEF Return, TypeOK, WorkerTypeOK
      <3> QED BY <1>1, <1>2, <3>1 DEF EntitledTo, At, MayTell, Wants
    <2> QED BY <2>1, <2>2
  <1>5. ASSUME pc'[u] = pc[u], ev'[u] = ev[u], todo'[u] = todo[u], cur'[u] = cur[u]
        PROVE  EntitledTo(u)'
      BY <1>1, <1>2, <1>5 DEF EntitledTo, At, MayTell, Wants
  <1>6. ASSUME NEW w \in Workers, ReadChannels(w) PROVE EntitledTo(u)'
    <2>1. CASE u = w
      <3>1. pc'[u] = "next" /\ ev'[u] = ev[u] /\ channel' = channel /\ todo'[u] = Subscribed(ev[u])
          BY <1>6, <2>1 DEF ReadChannels, TypeOK, WorkerTypeOK
      <3>2. \A c \in Subscribed(ev[u]) : channel[c] # "none" /\ MayTell(c, ev[u])
          BY DEF Subscribed, MayTell
      <3> QED BY <3>1, <3>2 DEF EntitledTo, At, Holding, MayTell, Wants
    <2>2. CASE u # w
        BY <1>5, <1>6, <2>2 DEF ReadChannels, TypeOK, WorkerTypeOK
    <2> QED BY <2>1, <2>2
  <1>7. ASSUME NEW w \in Workers, NEW c \in Channels, Claim(w, c) PROVE EntitledTo(u)'
    <2>1. CASE u = w
      <3>1. pc'[u] = "send" /\ ev'[u] = ev[u] /\ cur'[u] = c /\ todo'[u] \subseteq todo[u] /\ c \in todo[u]
          BY <1>7, <2>1 DEF Claim, TypeOK, WorkerTypeOK
      <3> QED BY <1>1, <1>2, <3>1 DEF EntitledTo, At, MayTell, Wants
    <2>2. CASE u # w
        BY <1>5, <1>7, <2>2 DEF Claim, TypeOK, WorkerTypeOK
    <2> QED BY <2>1, <2>2
  <1>8. ASSUME NEW w \in Workers, NEW c \in Channels, SkipClaimed(w, c) PROVE EntitledTo(u)'
    <2>1. CASE u = w
        BY <1>3, <1>8, <2>1 DEF SkipClaimed, At, Holding, TypeOK, WorkerTypeOK
    <2>2. CASE u # w
        BY <1>5, <1>8, <2>2 DEF SkipClaimed, TypeOK, WorkerTypeOK
    <2> QED BY <2>1, <2>2
  <1>9. ASSUME NEW w \in Workers, NEW o \in AllResults, Send(w, o) PROVE EntitledTo(u)'
    <2>1. CASE u = w
        BY <1>3, <1>9, <2>1 DEF Send, At, Holding, TypeOK, WorkerTypeOK
    <2>2. CASE u # w
        BY <1>5, <1>9, <2>2 DEF Send, TypeOK, WorkerTypeOK
    <2> QED BY <2>1, <2>2
  <1>10. ASSUME NEW w \in Workers, Record(w) \/ Release(w) PROVE EntitledTo(u)'
    <2>1. CASE u = w
        BY <1>3, <1>10, <2>1 DEF Record, Release, Goto, NextChannel, At, Holding, TypeOK, WorkerTypeOK
    <2>2. CASE u # w
        BY <1>5, <1>10, <2>2 DEF Record, Release, Goto, NextChannel, TypeOK, WorkerTypeOK
    <2> QED BY <2>1, <2>2
  <1>11. ASSUME NEW w \in Workers, NEW e \in Events, Receive(w, e) PROVE EntitledTo(u)'
    <2>1. CASE u = w
      <3>1. todo[u] = {} /\ todo'[u] = {} /\ pc'[u] = "read"
          BY <1>1, <1>11, <2>1 DEF Receive, EntitledTo, At, TypeOK, WorkerTypeOK
      <3> QED BY <3>1 DEF EntitledTo, Holding
    <2>2. CASE u # w
        BY <1>5, <1>11, <2>2 DEF Receive, TypeOK, WorkerTypeOK
    <2> QED BY <2>1, <2>2
  <1>12. CASE UNCHANGED wrk
      BY <1>5, <1>12
  <1> QED
      BY <1>4, <1>6, <1>7, <1>8, <1>9, <1>10, <1>11, <1>12
         DEF Next, WorkerStep, AllResults, CreateChannel, DeleteChannel, ClaimDeleted, SendRaises, Ack, Crash,
             Raise, Publish, Redeliver, vars

LEMMA NextOnlySubscribed == TypeOK /\ Entitled /\ OnlySubscribed /\ [Next]_vars => OnlySubscribed'
  <1> SUFFICES ASSUME TypeOK, Entitled, OnlySubscribed, [Next]_vars PROVE OnlySubscribed'
      OBVIOUS
  <1> USE DEF rows, sent, bus, wrk
  <1>1. ASSUME NEW w \in Workers, NEW o \in AllResults, Send(w, o) PROVE OnlySubscribed'
    <2>1. Pair(w) \in Pairs /\ Pair(w) = <<cur[w], ev[w]>> /\ MayTell(cur[w], ev[w])
        BY <1>1, HeldPair DEF Send, At, Holding, Pair, Entitled
    <2>2. \A p \in Pairs : p # Pair(w) => confirmed'[p] = confirmed[p] /\ unsure'[p] = unsure[p]
        BY <1>1, <2>1 DEF Send, TypeOK, RowTypeOK
    <2> QED BY <2>1, <2>2 DEF OnlySubscribed, MayTell, Wants
  <1>2. CASE UNCHANGED <<confirmed, unsure>>
      BY <1>2 DEF OnlySubscribed, Wants
  <1> QED
      BY <1>1, <1>2
         DEF Next, WorkerStep, AllResults, CreateChannel, DeleteChannel, ReadChannels, Claim,
             SkipClaimed, ClaimDeleted, SendRaises, Record, Release, Ack, Crash, Raise, Receive, Publish,
             Redeliver, vars

-----------------------------------------------------------------------------
(* Without a fault.                                                        *)

Telling(w, p) == pc[w] \in {"send", "record"} /\ Pair(w) = p

LEMMA NoFaultBefore == TypeOK /\ [Next]_vars /\ faults' = 0 => faults = 0
  <1> SUFFICES ASSUME TypeOK, [Next]_vars, faults' = 0 PROVE faults = 0
      OBVIOUS
  <1> USE DEF rows, sent, bus, wrk
  <1>1. faults \in Nat
      BY NotifyBoundAssumption DEF TypeOK, BusTypeOK
  <1>2. ASSUME NEW w \in Workers, Crash(w) \/ Raise(w) PROVE FALSE
      BY <1>1, <1>2 DEF Crash, Raise
  <1>3. ASSUME NEW w \in Workers, WorkerStep(w) PROVE faults' = faults
      BY <1>3 DEF WorkerStep, ReadChannels, Claim, SkipClaimed, ClaimDeleted, Send, SendRaises, Record,
                  Release, Ack
  <1> QED BY <1>2, <1>3 DEF Next, CreateChannel, DeleteChannel, Receive, Publish, Redeliver, vars

(* A worker that tells a channel goes on until it has recorded the result  *)
(* or the email it tells it by cannot be built.                            *)
LEMMA TellingStays ==
    ASSUME TypeOK, [Next]_vars, faults' = 0, NEW w \in Workers, NEW p \in Pairs, Telling(w, p),
           ~Record(w), ~SendRaises(w)
    PROVE  Telling(w, p)'
  <1> USE DEF rows, sent, bus, wrk, Telling, Pair
  <1>1. /\ pc[w] \in {"send", "record"} /\ faults \in Nat /\ Pair(w) = p
        /\ pc \in [Workers -> {"idle", "read", "next"} \cup Holding]
        /\ ev \in [Workers -> Events \cup {NoEvent}]
        /\ cur \in [Workers -> Channels \cup {NoChannel}]
      BY NotifyBoundAssumption DEF TypeOK, WorkerTypeOK, BusTypeOK
  <1>2. ASSUME NEW v \in Workers, ReadChannels(v) \/ Ack(v) PROVE Telling(w, p)'
      BY <1>1, <1>2 DEF ReadChannels, Ack, Return, At
  <1>3. ASSUME NEW v \in Workers, NEW c \in Channels,
               Claim(v, c) \/ SkipClaimed(v, c) \/ ClaimDeleted(v, c)
        PROVE  Telling(w, p)'
      BY <1>1, <1>3 DEF Claim, SkipClaimed, ClaimDeleted, Return, At
  <1>4. ASSUME NEW v \in Workers, NEW o \in AllResults, Send(v, o) PROVE Telling(w, p)'
      BY <1>1, <1>4 DEF Send, At
  <1>5. ASSUME NEW v \in Workers, Record(v) \/ Release(v) PROVE Telling(w, p)'
      BY <1>1, <1>5 DEF Record, Release, NextChannel, Goto, At
  <1>6. ASSUME NEW v \in Workers, Crash(v) \/ Raise(v) PROVE FALSE
      BY <1>1, <1>6 DEF Crash, Raise
  <1>7. ASSUME NEW v \in Workers, NEW e \in Events, Receive(v, e) PROVE Telling(w, p)'
      BY <1>1, <1>7 DEF Receive, At
  <1>8. CASE UNCHANGED wrk
      BY <1>1, <1>8
  <1>9. ASSUME NEW v \in Workers, SendRaises(v) PROVE Telling(w, p)'
      BY <1>1, <1>9 DEF SendRaises, Return, At
  <1> QED BY <1>2, <1>3, <1>4, <1>5, <1>6, <1>7, <1>8, <1>9
          DEF Next, WorkerStep, CreateChannel, DeleteChannel, Publish, Redeliver, vars, AllResults

(* What parked an event stays: a deleted channel is not created again, an  *)
(* address or a title does not change, and nothing empties the dead        *)
(* letters.                                                                *)
LEMMA PastKept ==
    ASSUME TypeOK, [Next]_vars
    PROVE  /\ unfit \subseteq unfit' /\ dead \subseteq dead'
           /\ \A c \in Channels : channel[c] = "deleted" => channel'[c] = "deleted"
  <1> USE DEF rows, sent, bus, wrk
  <1>1. ASSUME NEW c \in Channels, CreateChannel(c) \/ DeleteChannel(c)
        PROVE  \A d \in Channels : channel[d] = "deleted" => channel'[d] = "deleted"
      BY <1>1 DEF CreateChannel, DeleteChannel, TypeOK, RowTypeOK
  <1>2. \A c \in Channels : channel[c] = "deleted" => channel'[c] = "deleted"
      BY <1>1 DEF Next, WorkerStep, ReadChannels, Claim, SkipClaimed, ClaimDeleted, Send, SendRaises,
                  Record, Release, Ack, Crash, Raise, Receive, Publish, Redeliver, vars
  <1>3. unfit \subseteq unfit'
      BY DEF Next, WorkerStep, CreateChannel, DeleteChannel, ReadChannels, Claim, SkipClaimed,
             ClaimDeleted, Send, SendRaises, Record, Release, Ack, Crash, Raise, Receive, Publish,
             Redeliver, vars
  <1>4. dead \subseteq dead'
      BY DEF Next, WorkerStep, CreateChannel, DeleteChannel, ReadChannels, Claim, SkipClaimed,
             ClaimDeleted, Send, SendRaises, Record, Release, Ack, Crash, Raise, Receive, Publish,
             Redeliver, vars
  <1> QED BY <1>2, <1>3, <1>4

(* The row of an email that cannot be built stays, until its channel goes. *)
LEMMA StuckStays ==
    ASSUME TypeOK, [Next]_vars, NEW c \in Channels, NEW e \in Events, Stuck(c, e),
           ~\E w \in Workers : (Record(w) \/ Release(w)) /\ Pair(w) = <<c, e>>
    PROVE  Stuck(c, e)' \/ channel'[c] = "deleted"
  <1> USE DEF rows, sent, bus, wrk
  <1> DEFINE p == <<c, e>>
  <1>1. p \in Pairs /\ row[p] = "sending" /\ row \in [Pairs -> {"none", "sending", "sent", "failed"}]
      BY DEF Pairs, Stuck, TypeOK, RowTypeOK
  <1>2. Unbuildable(c, e)' /\ e \in dead'
      BY PastKept DEF Unbuildable, Stuck
  <1>3. ASSUME NEW d \in Channels, DeleteChannel(d) PROVE row'[p] = "sending" \/ channel'[c] = "deleted"
      BY <1>1, <1>3 DEF DeleteChannel, TypeOK, RowTypeOK
  <1>4. ASSUME NEW w \in Workers, Record(w) \/ Release(w) PROVE row'[p] = "sending"
      BY <1>1, <1>4 DEF Record, Release
  <1>5. ASSUME NEW w \in Workers, NEW d \in Channels, Claim(w, d) PROVE row'[p] = "sending"
      BY <1>1, <1>5 DEF Claim
  <1>6. row'[p] = "sending" \/ channel'[c] = "deleted"
      BY <1>1, <1>3, <1>4, <1>5
         DEF Next, WorkerStep, CreateChannel, ReadChannels, SkipClaimed, ClaimDeleted, Send, SendRaises,
             Ack, Crash, Raise, Receive, Publish, Redeliver, vars
  <1> QED BY <1>2, <1>6 DEF Stuck

LEMMA NextSending ==
    ASSUME TypeOK, FaultFree, [Next]_vars, faults' = 0, NEW p \in Pairs, row'[p] = "sending"
    PROVE  Stuck(p[1], p[2])' \/ \E w \in Workers : Telling(w, p)'
  <1> USE DEF rows, sent, bus, wrk
  <1>1. /\ faults = 0 /\ row \in [Pairs -> {"none", "sending", "sent", "failed"}]
        /\ p[1] \in Channels /\ p[2] \in Events /\ p = <<p[1], p[2]>>
      BY NoFaultBefore DEF TypeOK, RowTypeOK, Pairs
  <1>2. CASE row[p] = "sending" /\ Stuck(p[1], p[2])
    <2>1. Unbuildable(p[1], p[2])' /\ p[2] \in dead'
        BY <1>2, PastKept DEF Unbuildable, Stuck
    <2> QED BY <1>1, <2>1 DEF Stuck
  <1>3. CASE row[p] = "sending" /\ ~Stuck(p[1], p[2])
    <2>1. PICK w \in Workers : Telling(w, p)
        BY <1>1, <1>3 DEF FaultFree, Telling
    <2>2. ~Record(w)
        BY <1>1, <2>1 DEF Telling, Record
    <2>3. CASE SendRaises(w)
      <3>1. cur[w] = p[1] /\ ev[w] = p[2]
          BY <1>1, <2>1 DEF Telling, Pair
      <3>2. Unbuildable(p[1], p[2])' /\ p[2] \in dead'
          BY <2>3, <3>1, PastKept DEF SendRaises, Unbuildable
      <3> QED BY <1>1, <3>2 DEF Stuck
    <2> QED BY <2>1, <2>2, <2>3, TellingStays
  <1>4. CASE row[p] # "sending"
    <2>1. ASSUME NEW w \in Workers, Record(w) \/ Release(w) PROVE FALSE
        BY <1>1, <1>4, <2>1 DEF Record, Release
    <2>2. ASSUME NEW c \in Channels, DeleteChannel(c) PROVE FALSE
        BY <1>1, <1>4, <2>2 DEF DeleteChannel
    <2>3. PICK w \in Workers, c \in Channels : Claim(w, c)
        BY <1>4, <2>1, <2>2
           DEF Next, WorkerStep, CreateChannel, ReadChannels, SkipClaimed, ClaimDeleted, Send, SendRaises,
               Ack, Crash, Raise, Receive, Publish, Redeliver, vars
    <2>4. p = <<c, ev[w]>>
        BY <1>1, <1>4, <2>3 DEF Claim
    <2>5. Telling(w, p)'
        BY <2>3, <2>4 DEF Claim, Telling, Pair, TypeOK, WorkerTypeOK
    <2> QED BY <2>5
  <1> QED BY <1>2, <1>3, <1>4

(* A worker that got past the send could build its email, and an address   *)
(* or a title is what it was when the worker read it.                      *)
StuckAlone ==
    \A w \in Workers : pc[w] \in {"record", "release"} => ~Unbuildable(cur[w], ev[w])

LEMMA NextStuckAlone == TypeOK /\ Core /\ StuckAlone /\ [Next]_vars => StuckAlone'
  <1> SUFFICES ASSUME TypeOK, Core, StuckAlone, [Next]_vars,
                      NEW u \in Workers, pc'[u] \in {"record", "release"}
               PROVE  ~Unbuildable(cur[u], ev[u])'
      BY DEF StuckAlone, Unbuildable
  <1> USE DEF rows, sent, bus, wrk
  <1>1. /\ pc \in [Workers -> {"idle", "read", "next"} \cup Holding]
        /\ ev \in [Workers -> Events \cup {NoEvent}]
        /\ cur \in [Workers -> Channels \cup {NoChannel}]
        /\ pc[u] # "idle" => ev[u] \in staged
        /\ pc[u] \in Holding => channel[cur[u]] # "none"
      BY DEF TypeOK, WorkerTypeOK, At, Core, Held
  <1>2. /\ cur'[u] = cur[u] /\ ev'[u] = ev[u] /\ pc[u] \in Holding
        /\ ~Unbuildable(cur[u], ev[u])
    <2>1. ASSUME NEW w \in Workers, NEW o \in AllResults, Send(w, o)
          PROVE  /\ cur'[u] = cur[u] /\ ev'[u] = ev[u] /\ pc[u] \in Holding
                 /\ ~Unbuildable(cur[u], ev[u])
        BY <1>1, <2>1 DEF Send, At, Holding, StuckAlone
    <2>2. ASSUME NEW w \in Workers, Record(w)
          PROVE  cur'[u] = cur[u] /\ ev'[u] = ev[u] /\ pc[u] \in {"record", "release"}
        BY <1>1, <2>2 DEF Record, Goto, NextChannel, At
    <2>3. ASSUME NEW w \in Workers, Release(w)
          PROVE  cur'[u] = cur[u] /\ ev'[u] = ev[u] /\ pc[u] \in {"record", "release"}
        BY <1>1, <2>3 DEF Release, NextChannel, At
    <2>4. ASSUME NEW w \in Workers, Return(w)
          PROVE  cur'[u] = cur[u] /\ ev'[u] = ev[u] /\ pc[u] \in {"record", "release"}
        BY <1>1, <2>4 DEF Return
    <2>5. ASSUME NEW w \in Workers, NEW c \in Channels, Claim(w, c) \/ SkipClaimed(w, c)
          PROVE  cur'[u] = cur[u] /\ ev'[u] = ev[u] /\ pc[u] \in {"record", "release"}
        BY <1>1, <2>5 DEF Claim, SkipClaimed, At
    <2>6. ASSUME NEW w \in Workers, ReadChannels(w)
          PROVE  cur'[u] = cur[u] /\ ev'[u] = ev[u] /\ pc[u] \in {"record", "release"}
        BY <1>1, <2>6 DEF ReadChannels, At
    <2>7. ASSUME NEW w \in Workers, NEW e \in Events, Receive(w, e)
          PROVE  cur'[u] = cur[u] /\ ev'[u] = ev[u] /\ pc[u] \in {"record", "release"}
        BY <1>1, <2>7 DEF Receive, At
    <2>8. CASE UNCHANGED wrk
        BY <2>8 DEF StuckAlone, Holding
    <2>9. CASE cur'[u] = cur[u] /\ ev'[u] = ev[u] /\ pc[u] \in {"record", "release"}
        BY <2>9 DEF StuckAlone, Holding
    <2> QED
        BY <2>1, <2>2, <2>3, <2>4, <2>5, <2>6, <2>7, <2>8, <2>9
           DEF Next, WorkerStep, AllResults, CreateChannel, DeleteChannel, ClaimDeleted, SendRaises, Ack,
               Crash, Raise, Publish, Redeliver, vars
  <1>3. cur[u] \in unfit' => cur[u] \in unfit
    <2>1. ASSUME NEW c \in Channels, CreateChannel(c) PROVE cur[u] \in unfit' => cur[u] \in unfit
        BY <1>1, <1>2, <2>1 DEF CreateChannel
    <2>2. ASSUME NEW e \in Events, Publish(e) PROVE cur[u] \in unfit' => cur[u] \in unfit
        BY <1>1, <1>2, <2>2, ChannelAssumption, HeldPair DEF Publish
    <2> QED BY <2>1, <2>2 DEF Next, WorkerStep, DeleteChannel, ReadChannels, Claim, SkipClaimed,
                              ClaimDeleted, Send, SendRaises, Record, Release, Ack, Crash, Raise,
                              Receive, Redeliver, vars
  <1>4. ev[u] \in unfit' => ev[u] \in unfit
    <2>1. ASSUME NEW c \in Channels, CreateChannel(c) PROVE ev[u] \in unfit' => ev[u] \in unfit
        BY <1>1, <1>2, <2>1, ChannelAssumption, HeldPair DEF CreateChannel
    <2>2. ASSUME NEW e \in Events, Publish(e) PROVE ev[u] \in unfit' => ev[u] \in unfit
        BY <1>1, <1>2, <2>2 DEF Publish, Holding
    <2> QED BY <2>1, <2>2 DEF Next, WorkerStep, DeleteChannel, ReadChannels, Claim, SkipClaimed,
                              ClaimDeleted, Send, SendRaises, Record, Release, Ack, Crash, Raise,
                              Receive, Redeliver, vars
  <1> QED BY <1>2, <1>3, <1>4 DEF Unbuildable

LEMMA NextParked ==
    ASSUME TypeOK, Core, StuckAlone, FaultFree, [Next]_vars, faults' = 0, NEW e \in dead'
    PROVE  Parked(e)'
  <1> USE DEF rows, sent, bus, wrk
  <1>1. CASE e \in dead
    <2>1. PICK c \in Channels : channel[c] = "deleted" \/ Stuck(c, e)
        BY <1>1, NoFaultBefore DEF FaultFree, Parked
    <2>2. ~\E w \in Workers : (Record(w) \/ Release(w)) /\ Pair(w) = <<c, e>> /\ Stuck(c, e)
        BY DEF Record, Release, At, Pair, StuckAlone, Stuck
    <2>3. e \in Events
        BY <1>1 DEF TypeOK, BusTypeOK
    <2> QED BY <1>1, <2>1, <2>2, <2>3, PastKept, StuckStays DEF Parked
  <1>2. CASE e \notin dead
    <2>1. ASSUME NEW w \in Workers, Raise(w) PROVE FALSE
        BY <2>1, NotifyBoundAssumption DEF Raise, TypeOK, BusTypeOK
    <2>2. ASSUME NEW w \in Workers, NEW c \in Channels, ClaimDeleted(w, c) PROVE Parked(e)'
        BY <2>2 DEF ClaimDeleted, Parked
    <2>3. ASSUME NEW w \in Workers, SendRaises(w) PROVE Parked(e)'
      <3>1. e = ev[w] /\ cur[w] \in Channels
          BY <1>2, <2>3, HeldPair DEF SendRaises, At, Holding
      <3>2. channel[cur[w]] # "deleted" => row[<<cur[w], e>>] = "sending"
          BY <2>3, <3>1 DEF SendRaises, At, Holding, Core, ClaimExclusive, Pair
      <3> QED BY <2>3, <3>1, <3>2 DEF SendRaises, Parked, Stuck, Unbuildable
    <2> QED BY <1>2, <2>1, <2>2, <2>3
           DEF Next, WorkerStep, CreateChannel, DeleteChannel, ReadChannels, Claim, SkipClaimed, Send,
               Record, Release, Ack, Crash, Receive, Publish, Redeliver, vars
  <1> QED BY <1>1, <1>2

LEMMA NextFaultFree == TypeOK /\ Core /\ StuckAlone /\ FaultFree /\ [Next]_vars => FaultFree'
  BY NextSending, NextParked DEF FaultFree, Telling

-----------------------------------------------------------------------------
(* The theorems.                                                           *)

(* IInv holds in every reachable state.                                    *)
THEOREM Invariance == Spec => []IInv
  <1>1. Init => IInv
    <2> SUFFICES ASSUME Init PROVE IInv
        OBVIOUS
    <2>1. TypeOK
        BY InitTypeOK
    <2>2. Core
        BY DEF Init, Core, ClaimExclusive, Held, ConfirmedOnce, RowTruthful, Holding
    <2>3. Entitled /\ OnlySubscribed
        BY DEF Init, Entitled, OnlySubscribed, Holding
    <2> QED BY <2>1, <2>2, <2>3 DEF IInv
  <1>2. IInv /\ [Next]_vars => IInv'
      BY NextTypeOK, NextCore, NextEntitled, NextOnlySubscribed DEF IInv
  <1> QED BY <1>1, <1>2, PTL DEF Spec

(* TypeOK: what waits or is parked was published, and a worker is at a     *)
(* channel exactly while it claims, sends, records and releases.           *)
THEOREM TypeCorrect == Spec => []TypeOK
  BY Invariance, PTL DEF IInv

(* ClaimExclusive: the unique index of notification_deliveries lets one    *)
(* worker at a time tell a channel of an event.                            *)
THEOREM OneClaimant == Spec => []ClaimExclusive
  BY Invariance, PTL DEF IInv, Core

(* ConfirmedOnce: a channel that answered for an event is never sent it    *)
(* again.                                                                  *)
THEOREM SentOnce == Spec => []ConfirmedOnce
  BY Invariance, PTL DEF IInv, Core

(* RowTruthful: the deliveries a tenant sees say what happened.            *)
THEOREM RecordsTruthful == Spec => []RowTruthful
  BY Invariance, PTL DEF IInv, Core

(* OnlySubscribed: no channel is told of another tenant's event, or of one *)
(* it did not ask for.                                                     *)
THEOREM ToldIfSubscribed == Spec => []OnlySubscribed
  BY Invariance, PTL DEF IInv

(* FaultFree: without a crash or a database error an event is parked only  *)
(* when a channel was deleted under its worker or an email cannot be built *)
(* (channels.send_email), and only the row of such an email is left saying *)
(* sending (worker.handle, store.claim and store.finish).                  *)
THEOREM FaultFreeTruth == Spec => []FaultFree
  <1>1. Init => FaultFree /\ StuckAlone
      BY DEF Init, FaultFree, StuckAlone
  <1>2. IInv => TypeOK /\ Core
      BY DEF IInv
  <1> QED BY <1>1, <1>2, NextFaultFree, NextStuckAlone, Invariance, PTL DEF Spec

=============================================================================
