------------------------------ MODULE Scheduler ------------------------------
(***************************************************************************)
(* schedules.py and scheduler.py: the rows of the table schedules and the  *)
(* processes that turn the due ones into requests for workflows, any       *)
(* number of them, each in transactions of its own.                        *)
(***************************************************************************)
EXTENDS Calendar, SequencesExt

CONSTANTS
    Schedules,          \* the ids of schedules
    Plan,               \* the cadence of each
    Outdated,           \* those whose inputs the contract no longer accepts
    Schedulers,         \* the scheduler processes
    Batch,              \* SCHEDULER_BATCH
    MaxClock, MaxAborts, MaxEdits   \* bounds on time, on failures and on edits

ASSUME SchedulerAssumption ==
    /\ Batch \in Nat \ {0} /\ MaxClock \in Times /\ Outdated \subseteq Schedules
    /\ MaxAborts \in Nat /\ MaxEdits \in Nat
    /\ Plan \in [Schedules -> Planned]

SlotsOf == [s \in Schedules |-> Slots(Plan[s])]

(* The calendar is long enough: each plan means a time after every moment.  *)
ASSUME SlotAssumption ==
    \A s \in Schedules :
        SlotsOf[s] \subseteq Int /\ \A t \in 0..MaxClock : \E u \in SlotsOf[s] : u > t

VARIABLES
    clock,              \* what every process calls now
    rows,               \* the table: a function on the stored schedules
    txn,                \* what each scheduler has claimed, at which time
    staged,             \* the outbox: <<schedule, run>> for each request
    aborts, edits

schedVars == <<clock, rows, txn, staged, aborts, edits>>

Idle == [now |-> 0, claimed |-> {}]

(* A schedule made at a time; last is last_run_at or, before the first run, *)
(* created_at.                                                              *)
Row(s, now) == [active |-> TRUE, next |-> next_run(Plan[s], now), last |-> now, runs |-> 0]

SchedInit(stored) ==
    /\ clock = 0
    /\ rows = [s \in stored |-> Row(s, 0)]
    /\ txn = [p \in Schedulers |-> Idle]
    /\ staged = {} /\ aborts = 0 /\ edits = 0

Tick ==
    /\ clock < MaxClock /\ clock' = clock + 1
    /\ UNCHANGED <<rows, txn, staged, aborts, edits>>

Locked == UNION {txn[p].claimed : p \in Schedulers}

(* create: the first run is the next time the cadence names.                *)
Create(s) ==
    /\ s \notin DOMAIN rows /\ <<s, 1>> \notin staged /\ edits < MaxEdits
    /\ rows' = [x \in DOMAIN rows \cup {s} |->
                  IF x = s THEN Row(s, clock) ELSE rows[x]]
    /\ edits' = edits + 1
    /\ UNCHANGED <<clock, txn, staged, aborts>>

(* delete and set_active wait for the lock of the row.  set_active leaves   *)
(* next_run_at where it was.                                                *)
Delete(s) ==
    /\ s \in DOMAIN rows \ Locked /\ edits < MaxEdits
    /\ rows' = [x \in DOMAIN rows \ {s} |-> rows[x]]
    /\ edits' = edits + 1
    /\ UNCHANGED <<clock, txn, staged, aborts>>

SetActive(s) ==
    /\ s \in DOMAIN rows \ Locked /\ edits < MaxEdits
    /\ rows' = [rows EXCEPT ![s].active = ~@]
    /\ edits' = edits + 1
    /\ UNCHANGED <<clock, txn, staged, aborts>>

-----------------------------------------------------------------------------
(* fire_due                                                                 *)

Due == {s \in DOMAIN rows : rows[s].active /\ rows[s].next <= clock}

(* Mutant: SELECT without FOR UPDATE SKIP LOCKED.                           *)
ClaimUnlocked(p) ==
    /\ txn[p] = Idle /\ Due # {}
    /\ txn' = [txn EXCEPT ![p] = [now |-> clock, claimed |-> Due]]
    /\ UNCHANGED <<clock, rows, staged, aborts, edits>>

(* SELECT ... ORDER BY next_run_at FOR UPDATE SKIP LOCKED LIMIT.            *)
Claim(p) ==
    LET free == Due \ Locked
    IN  /\ txn[p] = Idle /\ free # {}
        /\ \E claimed \in SUBSET free :
             /\ Cardinality(claimed) = Min({Batch, Cardinality(free)})
             /\ \A s \in claimed, u \in free \ claimed : rows[s].next <= rows[u].next
             /\ txn' = [txn EXCEPT ![p] = [now |-> clock, claimed |-> claimed]]
        /\ UNCHANGED <<clock, rows, staged, aborts, edits>>

(* Mutant: a schedule that fell behind moves by one occurrence.             *)
catch_up_from_next(s, now) == next_run(Plan[s], rows[s].next)

catch_up(s, now) == next_run(Plan[s], now)

(* Mutant: a row the contract refuses is left to be tried again.            *)
CommitRefused(p) ==
    LET claimed == txn[p].claimed
        now == txn[p].now
    IN  /\ claimed # {}
        /\ rows' = [s \in DOMAIN rows |->
                      IF s \in claimed \ Outdated
                      THEN [rows[s] EXCEPT !.next = catch_up(s, now), !.last = now, !.runs = @ + 1]
                      ELSE rows[s]]
        /\ staged' = staged \cup {<<s, rows[s].runs + 1>> : s \in claimed \ Outdated}
        /\ txn' = [txn EXCEPT ![p] = Idle]
        /\ UNCHANGED <<clock, aborts, edits>>

(* The loop over the rows and the commit: a row the contract refuses is     *)
(* switched off, every other one is staged and moved on.                    *)
Commit(p) ==
    LET claimed == txn[p].claimed
        now == txn[p].now
        good == claimed \ Outdated
    IN  /\ claimed # {}
        /\ rows' = [s \in DOMAIN rows |->
                      CASE s \in good -> [rows[s] EXCEPT !.next = catch_up(s, now), !.last = now,
                                                          !.runs = @ + 1]
                        [] s \in claimed \cap Outdated -> [rows[s] EXCEPT !.active = FALSE]
                        [] OTHER -> rows[s]]
        /\ staged' = staged \cup {<<s, rows[s].runs + 1>> : s \in good}
        /\ txn' = [txn EXCEPT ![p] = Idle]
        /\ UNCHANGED <<clock, aborts, edits>>

(* The process dies or the tick raises: the transaction is rolled back.     *)
Abort(p) ==
    /\ txn[p] # Idle /\ aborts < MaxAborts
    /\ txn' = [txn EXCEPT ![p] = Idle]
    /\ aborts' = aborts + 1
    /\ UNCHANGED <<clock, rows, staged, edits>>

SchedStep ==
    \/ \E s \in Schedules : Create(s) \/ Delete(s) \/ SetActive(s)
    \/ \E p \in Schedulers : Claim(p) \/ Commit(p) \/ Abort(p)

-----------------------------------------------------------------------------
(* schedules.py:8-17, at every moment, before, in and after a change of the *)
(* clocks and a short month: the next run of each plan is the first time    *)
(* its cadence means, and strictly later (schedules.py:105).                *)
NextRunIsNextSlot ==
    \A s \in Schedules : next_run(Plan[s], clock) = FirstSlotAfter(SlotsOf[s], clock)

(* schedules.py:158, "one run, not seven", and 275-282: a schedule fires    *)
(* only when a time its cadence means has come since it fired last, or was  *)
(* made, whatever was late, paused and resumed, claimed by two schedulers   *)
(* or rolled back in between.                                               *)
RunPerSlot ==
    [][\A s \in DOMAIN rows \cap DOMAIN rows' :
         rows'[s].runs > rows[s].runs =>
             \E t \in SlotsOf[s] : rows[s].last < t /\ t <= rows'[s].last]_schedVars

(* A stored, active schedule that is due fires, is switched off or goes     *)
(* away, however many others are due, as long as a scheduler ticks          *)
(* (scheduler.py:46-60).                                                    *)
DueFires == \A s \in Schedules : (s \in Due) ~> (s \notin Due)
=============================================================================
