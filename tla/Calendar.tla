------------------------------ MODULE Calendar ------------------------------
(***************************************************************************)
(* schedules.py: when a schedule fires next.  Time is UTC, in ticks.  A    *)
(* zone is the offset of its clocks at each tick; a wall-clock time is a   *)
(* number of ticks too, and where the clocks change one such time is two   *)
(* instants or none.  The lengths of hours, days, weeks and months are     *)
(* parameters.                                                             *)
(*                                                                         *)
(* A plan is [cadence, hour, weekday, day_of_month].                       *)
(***************************************************************************)
EXTENDS Integers, Sequences, FiniteSetsExt

CONSTANTS
    TicksPerHour, HoursPerDay, DaysPerWeek,
    MonthLengths,       \* a sequence, of the months from time 0 on
    Offset,             \* a function from instants to what the clocks add
    Horizon             \* the last instant considered

ASSUME CalendarAssumption ==
    /\ TicksPerHour \in Nat \ {0} /\ HoursPerDay \in Nat \ {0} /\ DaysPerWeek \in Nat \ {0}
    /\ MonthLengths \in Seq(Nat \ {0}) /\ Len(MonthLengths) > 0
    /\ Horizon \in Nat /\ Offset \in [0..Horizon -> Int]

Times == 0..Horizon
TicksPerDay == TicksPerHour * HoursPerDay

(* datetime, with its fold: astimezone into the zone and out of it.         *)
Wall(t) == t + Offset[t]
FoldOf == [t \in Times |-> IF \E u \in 0..(t - 1) : Wall(u) = Wall(t) THEN 1 ELSE 0]
Instants ==
    [wall \in 0..Wall(Horizon), fold \in {0, 1} |->
        LET at == {t \in Times : Wall(t) = wall}
            late == Min({t \in Times : Wall(t) > wall})
        IN  CASE at # {} -> IF fold = 0 THEN Min(at) ELSE Max(at)
              [] at = {} -> wall - Offset[IF fold = 0 THEN late - 1 ELSE late]]
Fold(t) == FoldOf[t]
Instant(wall, fold) == Instants[wall, fold]

Planned ==
    [cadence : {"daily", "weekly", "monthly"}, hour : 0..(HoursPerDay - 1),
     weekday : 0..(DaysPerWeek - 1), day_of_month : Nat \ {0}]

At(day, hour) == day * TicksPerDay + hour * TicksPerHour
Day(wall) == wall \div TicksPerDay
Weekday(day) == day % DaysPerWeek
FirstDays[month \in 1..(Len(MonthLengths) + 1)] ==
    IF month = 1 THEN 0 ELSE FirstDays[month - 1] + MonthLengths[month - 1]
FirstDay(month) == FirstDays[month]
Month(day) == Max({m \in 1..Len(MonthLengths) : FirstDay(m) <= day})

(* What is asked of a zone: a full hour that the clocks have passed stays   *)
(* passed (they may go back to it, never behind it); what they leave out    *)
(* begins with a full hour or holds none; and after a time they show twice  *)
(* every full hour to the end of the next month is shown once.              *)
FullHours == {At(d, h) : d \in 0..(Day(Wall(Horizon)) - 1), h \in 0..(HoursPerDay - 1)}

ASSUME ClockAssumption ==
    /\ \A t \in Times : Wall(t) \in Nat
    /\ \A hour \in FullHours :
         /\ Instant(hour, 0) \in Times
         /\ \A t \in Times :
              /\ Wall(t) < hour <=> t < Instant(hour, 0)
              /\ Fold(t) = 1 /\ Wall(t) < hour /\ Month(Day(hour)) <= Month(Day(Wall(t))) + 1
                  => Instant(hour, 1) = Instant(hour, 0)

(* _monthly: the day of this month or, when that has passed, of the next,   *)
(* each cut to the length of its month.                                     *)
monthly(moment, hour, day_of_month) ==
    LET this == Month(Day(moment))
        In(m) == At(FirstDay(m) + Min({day_of_month, MonthLengths[m]}) - 1, hour)
    IN  IF In(this) > moment THEN In(this) ELSE In(this + 1)

(* Mutant: the arithmetic done in UTC.                                      *)
next_run_utc(plan, after) ==
    LET today == At(Day(after), plan.hour)
        ahead == (plan.weekday - Weekday(Day(after))) % DaysPerWeek
        week == today + ahead * TicksPerDay
    IN  CASE plan.cadence = "daily" -> IF today > after THEN today ELSE today + TicksPerDay
          [] plan.cadence = "weekly" ->
               IF week > after THEN week ELSE week + DaysPerWeek * TicksPerDay
          [] plan.cadence = "monthly" -> monthly(after, plan.hour, plan.day_of_month)

(* next_run.  replace keeps the fold of the moment and += forgets it.       *)
next_run(plan, after) ==
    LET moment == Wall(after)
        today == At(Day(moment), plan.hour)
        ahead == (plan.weekday - Weekday(Day(moment))) % DaysPerWeek
        week == today + ahead * TicksPerDay
    IN  CASE plan.cadence = "daily" ->
               IF today > moment THEN Instant(today, Fold(after))
               ELSE Instant(today + TicksPerDay, 0)
          [] plan.cadence = "weekly" ->
               Instant(IF week > moment THEN week ELSE week + DaysPerWeek * TicksPerDay, 0)
          [] plan.cadence = "monthly" ->
               Instant(monthly(moment, plan.hour, plan.day_of_month), Fold(after))

-----------------------------------------------------------------------------
(* What the cadence means: the instants at which a clock on the wall of the *)
(* zone shows the hour of a day that is meant, for the first time that day; *)
(* a time the clocks leave out is as long after the last one they show.     *)
Meant(plan, day) ==
    CASE plan.cadence = "daily" -> TRUE
      [] plan.cadence = "weekly" -> Weekday(day) = plan.weekday
      [] plan.cadence = "monthly" ->
           day = FirstDay(Month(day)) + Min({plan.day_of_month, MonthLengths[Month(day)]}) - 1

Slots(plan) ==
    {Instant(At(d, plan.hour), 0) : d \in {x \in 0..(Day(Wall(Horizon)) - 1) : Meant(plan, x)}}

FirstSlotAfter(slots, after) == Min({t \in slots : t > after})
=============================================================================
