---------------------------- MODULE Notifications ----------------------------
(***************************************************************************)
(* services/notifications: channels that tenants subscribe, and a worker   *)
(* that tells each of them of an event once.  worker.handle reads the      *)
(* channels, then for each one claims the pair (channel, event) through a  *)
(* unique index, sends, and records the outcome; each of these is a        *)
(* transaction or a network call of its own, and one action here.          *)
(*                                                                         *)
(* The order of the channels (created_at) is left open.  The test endpoint *)
(* sends a sample and stores nothing; no operation makes a channel         *)
(* inactive.                                                               *)
(***************************************************************************)
EXTENDS Naturals, FiniteSets

CONSTANTS
    Channels,       \* ids of the channels that are ever created
    Events,         \* event ids, as staged in the outbox
    Workers,        \* worker processes, all consumers of notifications.events
    ChannelTenant,  \* [Channels -> tenants], with a value for "no tenant"
    EventTenant,    \* [Events -> tenants]
    EventType,      \* [Events -> Subscribable]
    Asked,          \* [Channels -> SUBSET Subscribable], empty for everything
    Emails,         \* the channels whose kind is email, the others are webhooks
    Smtp,           \* whether SMTP_HOST is configured
    MaxExtras,      \* bound: redeliveries
    MaxFaults       \* bound: crashes and handler errors

Subscribable == {"report.rendered", "workflow.completed"}
Pairs == Channels \X Events
Titled == {e \in Events : EventType[e] = "report.rendered"}
NoEvent == "noevent"
NoChannel == "nochannel"

ASSUME ChannelAssumption ==
    /\ NoEvent \notin Events /\ NoChannel \notin Channels
    /\ Channels \cap Events = {}
    /\ EventType \in [Events -> Subscribable]
    /\ Asked \in [Channels -> SUBSET Subscribable]
    /\ Emails \subseteq Channels
    /\ Smtp \in BOOLEAN
ASSUME NotifyBoundAssumption == MaxExtras \in Nat /\ MaxFaults \in Nat

VARIABLES
    channel,    \* the row of each channel: "none", "live" or "deleted"
    unfit,      \* email addresses (their channels) and report titles (their
                \* events) with a line break in them, which no email can carry
    row,        \* notification_deliveries.status by pair, "none" without a row
    confirmed,  \* copies a channel took and answered for
    unsure,     \* copies a channel took whose answer never arrived
    released,   \* pairs handed back after a failure
    staged,     \* events ever published
    queue,      \* events on their way to a worker
    dead,       \* events in the dead-letter queue
    pc, ev,     \* where each worker is, and with which event
    todo,       \* the channels it has still to tell
    cur, out,   \* the channel it is telling, and what the send returned
    extras, faults

rows == <<channel, unfit, row>>
sent == <<confirmed, unsure, released>>
bus == <<staged, queue, dead, extras, faults>>
wrk == <<pc, ev, todo, cur, out>>
vars == <<rows, sent, bus, wrk>>

At(w, l) == pc[w] = l
Pair(w) == <<cur[w], ev[w]>>
Goto(w, l) == pc' = [pc EXCEPT ![w] = l] /\ UNCHANGED <<ev, todo, cur, out>>
Return(w) ==
    /\ pc' = [pc EXCEPT ![w] = "idle"]
    /\ ev' = [ev EXCEPT ![w] = NoEvent]
    /\ todo' = [todo EXCEPT ![w] = {}]
    /\ cur' = [cur EXCEPT ![w] = NoChannel]
    /\ out' = [out EXCEPT ![w] = "none"]

-----------------------------------------------------------------------------
(* deliver.py and channels.py.                                              *)

Wants(c, t) == Asked[c] = {} \/ t \in Asked[c]

(* What a send can come to.  An answer below 400 is accepted, a status of   *)
(* RETRYABLE_STATUS busy, any other refused; an exception has no status,    *)
(* whether or not the far side took the message (an SMTP failure after the  *)
(* message was taken is the lost answer too); netguard.check_url blocks a   *)
(* target that no longer resolves to an allowed address.                    *)
WebhookResults == {"accepted", "busy", "refused", "unanswered", "lost", "blocked"}
EmailResults == IF Smtp THEN {"accepted", "unanswered", "lost"} ELSE {"unconfigured"}
Results(c) == IF c \in Emails THEN EmailResults ELSE WebhookResults

NoStatus == {"unanswered", "lost", "blocked", "unconfigured"}

(* send_email builds the message after it found SMTP_HOST and before its    *)
(* try block: a header of EmailMessage refuses a line break, and the        *)
(* exception leaves send and handle.  A webhook's body is JSON.             *)
Unbuildable(c, e) == Smtp /\ c \in Emails /\ (c \in unfit \/ e \in unfit)

(* deliver.retryable: no status at all counts as a bad minute.              *)
Retryable(o) == o \in NoStatus \cup {"busy"}

-----------------------------------------------------------------------------
(* api.py.                                                                  *)

(* An email target only has to hold an "@": a line break passes.            *)
CreateChannel(c) ==
    /\ channel[c] = "none"
    /\ channel' = [channel EXCEPT ![c] = "live"]
    /\ \E bad \in SUBSET (Emails \cap {c}) : unfit' = unfit \cup bad
    /\ UNCHANGED <<row, sent, bus, wrk>>

(* Mutant: the deliveries of a deleted channel outlive it.                  *)
DeleteUncascaded(c) ==
    /\ channel[c] = "live"
    /\ channel' = [channel EXCEPT ![c] = "deleted"]
    /\ UNCHANGED <<unfit, row, sent, bus, wrk>>

(* ON DELETE CASCADE takes the channel's deliveries along.                  *)
DeleteChannel(c) ==
    /\ channel[c] = "live"
    /\ channel' = [channel EXCEPT ![c] = "deleted"]
    /\ row' = [p \in Pairs |-> IF p[1] = c THEN "none" ELSE row[p]]
    /\ UNCHANGED <<unfit, sent, bus, wrk>>

-----------------------------------------------------------------------------
(* worker.handle.                                                           *)

Receive(w, e) ==
    /\ At(w, "idle")
    /\ e \in queue
    /\ queue' = queue \ {e}
    /\ pc' = [pc EXCEPT ![w] = "read"]
    /\ ev' = [ev EXCEPT ![w] = e]
    /\ UNCHANGED <<rows, sent, staged, dead, extras, faults, todo, cur, out>>

(* Mutant: a message without a tenant goes to every tenant's channels.      *)
SubscribedToAll(e) == {c \in Channels : channel[c] = "live" /\ Wants(c, EventType[e])}

(* store.channels_for: IS NOT DISTINCT FROM, so no tenant matches no tenant.*)
Subscribed(e) ==
    {c \in Channels : /\ channel[c] = "live"
                      /\ ChannelTenant[c] = EventTenant[e]
                      /\ Wants(c, EventType[e])}

ReadChannels(w) ==
    /\ At(w, "read")
    /\ pc' = [pc EXCEPT ![w] = "next"]
    /\ todo' = [todo EXCEPT ![w] = Subscribed(ev[w])]
    /\ UNCHANGED <<rows, sent, bus, ev, cur, out>>

(* Mutant: a conflict is taken for a claim.                                 *)
ClaimAnyway(w, c) ==
    /\ At(w, "next") /\ c \in todo[w]
    /\ channel[c] = "live"
    /\ row' = [row EXCEPT ![<<c, ev[w]>>] = "sending"]
    /\ pc' = [pc EXCEPT ![w] = "send"]
    /\ cur' = [cur EXCEPT ![w] = c]
    /\ todo' = [todo EXCEPT ![w] = @ \ {c}]
    /\ UNCHANGED <<channel, unfit, sent, bus, ev, out>>

(* store.claim: INSERT ... ON CONFLICT DO NOTHING RETURNING id.             *)
Claim(w, c) ==
    /\ At(w, "next") /\ c \in todo[w]
    /\ channel[c] = "live" /\ row[<<c, ev[w]>>] = "none"
    /\ row' = [row EXCEPT ![<<c, ev[w]>>] = "sending"]
    /\ pc' = [pc EXCEPT ![w] = "send"]
    /\ cur' = [cur EXCEPT ![w] = c]
    /\ todo' = [todo EXCEPT ![w] = @ \ {c}]
    /\ UNCHANGED <<channel, unfit, sent, bus, ev, out>>

SkipClaimed(w, c) ==
    /\ At(w, "next") /\ c \in todo[w]
    /\ row[<<c, ev[w]>>] # "none"
    /\ todo' = [todo EXCEPT ![w] = @ \ {c}]
    /\ UNCHANGED <<rows, sent, bus, pc, ev, cur, out>>

(* The channel was deleted since it was read: the insert breaks its foreign *)
(* key, the handler raises and the message is dead-lettered.                *)
ClaimDeleted(w, c) ==
    /\ At(w, "next") /\ c \in todo[w]
    /\ channel[c] = "deleted"
    /\ dead' = dead \cup {ev[w]}
    /\ Return(w)
    /\ UNCHANGED <<rows, sent, staged, queue, extras, faults>>

(* Mutant: an exception of the transport is not caught.                     *)
SendUncaught(w, o) ==
    /\ At(w, "send") /\ ~Unbuildable(cur[w], ev[w])
    /\ o \in Results(cur[w])
    /\ confirmed' = [confirmed EXCEPT ![Pair(w)] = @ + (IF o = "accepted" THEN 1 ELSE 0)]
    /\ unsure' = [unsure EXCEPT ![Pair(w)] = @ + (IF o = "lost" THEN 1 ELSE 0)]
    /\ IF o \in NoStatus
       THEN Return(w) /\ dead' = dead \cup {ev[w]}
       ELSE /\ pc' = [pc EXCEPT ![w] = "record"]
            /\ out' = [out EXCEPT ![w] = o]
            /\ UNCHANGED <<dead, ev, todo, cur>>
    /\ UNCHANGED <<rows, released, staged, queue, extras, faults>>

Send(w, o) ==
    /\ At(w, "send") /\ ~Unbuildable(cur[w], ev[w])
    /\ o \in Results(cur[w])
    /\ confirmed' = [confirmed EXCEPT ![Pair(w)] = @ + (IF o = "accepted" THEN 1 ELSE 0)]
    /\ unsure' = [unsure EXCEPT ![Pair(w)] = @ + (IF o = "lost" THEN 1 ELSE 0)]
    /\ pc' = [pc EXCEPT ![w] = "record"]
    /\ out' = [out EXCEPT ![w] = o]
    /\ UNCHANGED <<rows, released, bus, ev, todo, cur>>

(* The exception of send: the row stays as it was claimed, the channels     *)
(* after this one are not tried, and the message is dead-lettered.          *)
SendRaises(w) ==
    /\ At(w, "send") /\ Unbuildable(cur[w], ev[w])
    /\ dead' = dead \cup {ev[w]}
    /\ Return(w)
    /\ UNCHANGED <<rows, sent, staged, queue, extras, faults>>

NextChannel(w) ==
    /\ pc' = [pc EXCEPT ![w] = "next"]
    /\ cur' = [cur EXCEPT ![w] = NoChannel]
    /\ out' = [out EXCEPT ![w] = "none"]
    /\ UNCHANGED <<ev, todo>>

(* Mutants: a success falls through to the release; a failure ends the loop.*)
RecordFallsThrough(w) ==
    /\ At(w, "record")
    /\ row' = [row EXCEPT ![Pair(w)] =
                  IF @ = "none" THEN @ ELSE IF out[w] = "accepted" THEN "sent" ELSE "failed"]
    /\ Goto(w, "release")
    /\ UNCHANGED <<channel, unfit, sent, bus>>
RecordStops(w) ==
    /\ At(w, "record")
    /\ row' = [row EXCEPT ![Pair(w)] =
                  IF @ = "none" THEN @ ELSE IF out[w] = "accepted" THEN "sent" ELSE "failed"]
    /\ IF out[w] # "accepted" THEN Return(w) ELSE NextChannel(w)
    /\ UNCHANGED <<channel, unfit, sent, bus>>

(* store.finish: an UPDATE, of no row when the channel is gone.             *)
Record(w) ==
    /\ At(w, "record")
    /\ row' = [row EXCEPT ![Pair(w)] =
                  IF @ = "none" THEN @ ELSE IF out[w] = "accepted" THEN "sent" ELSE "failed"]
    /\ IF out[w] # "accepted" /\ Retryable(out[w]) THEN Goto(w, "release") ELSE NextChannel(w)
    /\ UNCHANGED <<channel, unfit, sent, bus>>

Release(w) ==
    /\ At(w, "release")
    /\ row' = [row EXCEPT ![Pair(w)] = "none"]
    /\ released' = released \cup {Pair(w)}
    /\ NextChannel(w)
    /\ UNCHANGED <<channel, unfit, confirmed, unsure, bus>>

(* The handler returns and the consumer acks, whatever the sends came to.   *)
Ack(w) ==
    /\ At(w, "next") /\ todo[w] = {}
    /\ Return(w)
    /\ UNCHANGED <<rows, sent, bus>>

-----------------------------------------------------------------------------
(* Faults and the bus.                                                      *)

Crash(w) ==
    /\ ~At(w, "idle")
    /\ faults < MaxFaults
    /\ faults' = faults + 1
    /\ queue' = queue \cup {ev[w]}
    /\ Return(w)
    /\ UNCHANGED <<rows, sent, staged, dead, extras>>

(* A store call fails.                                                      *)
Raise(w) ==
    /\ pc[w] \in {"read", "next", "record", "release"}
    /\ faults < MaxFaults
    /\ faults' = faults + 1
    /\ dead' = dead \cup {ev[w]}
    /\ Return(w)
    /\ UNCHANGED <<rows, sent, staged, queue, extras>>

(* The title of a report ends in the start URL as the caller typed it.      *)
Publish(e) ==
    /\ e \notin staged
    /\ staged' = staged \cup {e}
    /\ queue' = queue \cup {e}
    /\ \E bad \in SUBSET ({e} \cap Titled) : unfit' = unfit \cup bad
    /\ UNCHANGED <<channel, row, sent, dead, extras, faults, wrk>>

Redeliver(e) ==
    /\ e \in staged
    /\ extras < MaxExtras
    /\ extras' = extras + 1
    /\ queue' = queue \cup {e}
    /\ UNCHANGED <<rows, sent, staged, dead, faults, wrk>>

-----------------------------------------------------------------------------
Init ==
    /\ channel = [c \in Channels |-> "none"]
    /\ unfit = {}
    /\ row = [p \in Pairs |-> "none"]
    /\ confirmed = [p \in Pairs |-> 0]
    /\ unsure = [p \in Pairs |-> 0]
    /\ released = {}
    /\ staged = {} /\ queue = {} /\ dead = {}
    /\ pc = [w \in Workers |-> "idle"]
    /\ ev = [w \in Workers |-> NoEvent]
    /\ todo = [w \in Workers |-> {}]
    /\ cur = [w \in Workers |-> NoChannel]
    /\ out = [w \in Workers |-> "none"]
    /\ extras = 0 /\ faults = 0

WorkerStep(w) ==
    \/ ReadChannels(w)
    \/ \E c \in Channels : Claim(w, c) \/ SkipClaimed(w, c) \/ ClaimDeleted(w, c)
    \/ \E o \in WebhookResults \cup EmailResults : Send(w, o)
    \/ SendRaises(w) \/ Record(w) \/ Release(w) \/ Ack(w)

Next ==
    \/ \E c \in Channels : CreateChannel(c) \/ DeleteChannel(c)
    \/ \E w \in Workers : WorkerStep(w) \/ Crash(w) \/ Raise(w)
    \/ \E w \in Workers, e \in Events : Receive(w, e)
    \/ \E e \in Events : Publish(e) \/ Redeliver(e)

Spec == Init /\ [][Next]_vars

(* A worker goes on with what it started, and the broker delivers.          *)
Fairness ==
    /\ \A w \in Workers : WF_vars(WorkerStep(w))
    /\ WF_vars(\E w \in Workers, e \in Events : Receive(w, e))

FairSpec == Spec /\ Fairness

-----------------------------------------------------------------------------
(* Properties.                                                              *)

Holding == {"send", "record", "release"}
AllResults == WebhookResults \cup EmailResults

RowTypeOK ==
    /\ channel \in [Channels -> {"none", "live", "deleted"}]
    /\ unfit \subseteq Emails \cup Titled
    /\ row \in [Pairs -> {"none", "sending", "sent", "failed"}]
    /\ confirmed \in [Pairs -> Nat]
    /\ unsure \in [Pairs -> Nat]
    /\ released \subseteq Pairs

BusTypeOK ==
    /\ staged \subseteq Events
    /\ queue \subseteq staged
    /\ dead \subseteq staged
    /\ extras \in 0..MaxExtras
    /\ faults \in 0..MaxFaults

WorkerTypeOK ==
    /\ pc \in [Workers -> {"idle", "read", "next"} \cup Holding]
    /\ ev \in [Workers -> Events \cup {NoEvent}]
    /\ todo \in [Workers -> SUBSET Channels]
    /\ cur \in [Workers -> Channels \cup {NoChannel}]
    /\ out \in [Workers -> AllResults \cup {"none"}]
    /\ \A w \in Workers :
          /\ ~At(w, "idle") => ev[w] \in staged
          /\ pc[w] \in Holding <=> cur[w] # NoChannel
          /\ pc[w] \in {"record", "release"} <=> out[w] # "none"
          /\ At(w, "release") => Retryable(out[w]) /\ out[w] # "accepted"

(* Every variable stays in its set, what waits or is parked was published,  *)
(* and a worker holds a channel exactly while it tells it of an event.      *)
TypeOK == RowTypeOK /\ BusTypeOK /\ WorkerTypeOK

(* store.claim, "the difference between one email and two": no two workers  *)
(* ever hold the same pair, through redeliveries, crashes, releases and the *)
(* deletion of the channel, and a held pair has its row while the channel   *)
(* lives.                                                                   *)
ClaimExclusive ==
    \A w \in Workers : pc[w] \in Holding =>
        /\ \A v \in Workers : pc[v] \in Holding /\ Pair(v) = Pair(w) => v = w
        /\ channel[cur[w]] # "deleted" =>
              row[Pair(w)] = IF At(w, "release") THEN "failed" ELSE "sending"

(* A channel that answered for an event is never sent it again: it confirms *)
(* one copy, and its row is then never free to claim while it exists.       *)
ConfirmedOnce ==
    \A p \in Pairs :
        /\ confirmed[p] <= 1
        /\ confirmed[p] = 1 /\ channel[p[1]] # "deleted" => row[p] \in {"sending", "sent"}

(* The row is the record of what happened: sent means that the channel took *)
(* it, failed that it never answered for it.                                *)
RowTruthful ==
    \A p \in Pairs :
        /\ row[p] = "sent" => confirmed[p] = 1
        /\ row[p] = "failed" => confirmed[p] = 0
        /\ row[p] # "none" => channel[p[1]] = "live" /\ p[2] \in staged

(* Whatever a channel was sent belongs to its tenant and is of a type it    *)
(* asked for.                                                               *)
OnlySubscribed ==
    \A p \in Pairs : confirmed[p] + unsure[p] > 0 =>
        ChannelTenant[p[1]] = EventTenant[p[2]] /\ Wants(p[1], EventType[p[2]])

(* A send of this event raised and left its row saying sending.             *)
Stuck(c, e) == Unbuildable(c, e) /\ row[<<c, e>>] = "sending" /\ e \in dead

(* What parks an event while nothing fails: the race of a deletion with the *)
(* worker, or an email that cannot be built.                                *)
Parked(e) == e \in dead /\ \E c \in Channels : channel[c] = "deleted" \/ Stuck(c, e)

(* Without faults an event is dead-lettered for no other reason, and a row  *)
(* that says sending has a worker at it or is that of the email that could  *)
(* not be built.                                                            *)
FaultFree ==
    faults = 0 =>
        /\ \A e \in dead : Parked(e)
        /\ \A p \in Pairs : row[p] = "sending" =>
              \/ Stuck(p[1], p[2])
              \/ \E w \in Workers : pc[w] \in {"send", "record"} /\ Pair(w) = p

(* Under FairSpec, every channel that is subscribed when an event is        *)
(* published is tried with it, unless it is deleted, the event is parked    *)
(* as above, or a worker or its database fails.                             *)
EveryChannelTried ==
    \A c \in Channels, e \in Events :
        e \in queue /\ c \in Subscribed(e) ~>
            \/ row[<<c, e>>] \in {"sent", "failed"} \/ <<c, e>> \in released
            \/ channel[c] = "deleted" \/ Parked(e) \/ faults > 0

(* services/notifications/worker.py:66, "Hand the pair back and let the     *)
(* message be redelivered": a pair that was handed back is tried again.     *)
ReleasedRetried ==
    \A c \in Channels, e \in Events :
        <<c, e>> \in released /\ row[<<c, e>>] = "none"
            ~> row[<<c, e>>] # "none" \/ channel[c] = "deleted" \/ e \in dead

=============================================================================
