---------------------------- MODULE MCAutomation ----------------------------
(***************************************************************************)
(* A day of three hours of two ticks, a week of three days, months of two  *)
(* days and fewer.  On day 0 the clocks leave out the hour 1, on day 2     *)
(* they show the hour 1 twice.                                             *)
(***************************************************************************)
EXTENDS Automation

Months == <<2, 1, 2, 3, 2>>
Summer == [t \in 0..54 |-> IF t \in 2..13 THEN 2 ELSE 0]

Daily(h) == [cadence |-> "daily", hour |-> h, weekday |-> 0, day_of_month |-> 1]
Weekly(h, d) == [cadence |-> "weekly", hour |-> h, weekday |-> d, day_of_month |-> 1]
Monthly(h, d) == [cadence |-> "monthly", hour |-> h, weekday |-> 0, day_of_month |-> d]
Plans ==
    [d0 |-> Daily(0), d1 |-> Daily(1), w1 |-> Weekly(1, 2), m3 |-> Monthly(1, 3),
     night |-> Daily(1), old |-> Daily(0)]

ByHand == {<<"by hand", 1>>}
Request(id) == [kind |-> "report.requested", about |-> <<"by hand", 1>>, report |-> id]

(* Schedules alone; and the documents of a nightly run or of a workflow     *)
(* started by hand, with and without a request on the bus.                  *)
Alone == {{}, {"d1"}, {"m3"}, {"d0", "old"}}
FirstStates ==
    {[stored |-> S, asked |-> {}, kept |-> "postgres"] : S \in Alone}
    \cup {[stored |-> {"night"}, asked |-> {}, kept |-> k] : k \in {"files", "postgres"}}
    \cup {[stored |-> {"night"}, asked |-> {Request("given")}, kept |-> k] : k \in {"files", "postgres"}}
    \cup {[stored |-> {"night"}, asked |-> {Request("")}, kept |-> "files"]}

(* The schedules are watched over the whole calendar, one or two of them,   *)
(* with transactions that end within a tick; the documents of the nightly   *)
(* run on its first day, with two of the things that can happen to them, or *)
(* of the workflow started by hand before, with one more.                   *)
Untouched == queue = {} /\ disk = Empty /\ \A p \in Processes : pc[p] = "idle"
Quiet ==
    IF "night" \in DOMAIN rows
    THEN /\ clock' <= 2 /\ edits' = 0 /\ aborts' = 0
         /\ faults' + extras' + calls' <= IF clock > 0 THEN 2 ELSE 1
         /\ clock' # clock => Untouched
         /\ clock > 0 => \A p \in Processes : event'[p].about \in staged \cup {<<>>}
         /\ finished' \subseteq IF clock > 0 THEN staged ELSE ByHand
    ELSE /\ UNCHANGED reportVars /\ edits' + aborts' <= 2
         /\ DOMAIN rows = {} \/ DOMAIN rows' \subseteq DOMAIN rows
         /\ \A p \in Schedulers : txn'[p] = Idle \/ clock' <= txn'[p].now + 1
=============================================================================
