-------------------------- MODULE SchedulerProofs --------------------------
(***************************************************************************)
(* One run for each time a cadence means, proved for every set of          *)
(* schedules and of scheduler processes, every batch size and every order  *)
(* of edits, claims, commits and rolled back transactions.  It rests on    *)
(* next_run, which names the next time its cadence means for every length  *)
(* of hours, days, weeks and months and every zone whose clocks change as  *)
(* ClockAssumption says.                                                   *)
(***************************************************************************)
EXTENDS Automation, WellFoundedInduction, TLAPS

Moments == 0..MaxClock

(* A row waits for a time its cadence means, later than its last run.      *)
Waiting(s) ==
    /\ rows[s] \in [active : BOOLEAN, next : Nat, last : Nat, runs : Nat]
    /\ rows[s].next \in SlotsOf[s] /\ rows[s].next > rows[s].last

(* What a transaction holds: rows that are there, due when it read the     *)
(* clock, and in no other transaction.                                     *)
Holds(p) ==
    /\ txn[p].claimed \subseteq DOMAIN rows
    /\ \A s \in txn[p].claimed : rows[s].next <= txn[p].now

Apart ==
    \A p \in Schedulers, q \in Schedulers : p # q => txn[p].claimed \cap txn[q].claimed = {}

SchedTypeOK ==
    /\ clock \in Moments
    /\ DOMAIN rows \subseteq Schedules /\ rows = [s \in DOMAIN rows |-> rows[s]]
    /\ txn \in [Schedulers -> [now : Moments, claimed : SUBSET Schedules]]

SchedInv ==
    /\ SchedTypeOK /\ Apart
    /\ \A s \in DOMAIN rows : Waiting(s)
    /\ \A p \in Schedulers : Holds(p)

OneRun(s) ==
    rows'[s].runs > rows[s].runs =>
        \E t \in SlotsOf[s] : rows[s].last < t /\ t <= rows'[s].last

-----------------------------------------------------------------------------
(* Numbers.                                                                *)

LEMMA Least ==
    ASSUME NEW T, T \subseteq Nat, T # {}
    PROVE  \E x \in T : \A y \in T : x <= y
  <1> DEFINE R == OpToRel(<, Nat)
  <1>1. IsWellFoundedOn(R, Nat)
      BY NatLessThanWellFounded
  <1>2. R = {ss \in Nat \X Nat : ss[1] < ss[2]}
      BY DEF OpToRel
  <1> HIDE DEF R
  <1>3. PICK x \in T : \A y \in T : ~(<<y, x>> \in R)
      BY <1>1, WFMin
  <1>4. ASSUME NEW y \in T PROVE x <= y
    <2>1. x \in Nat /\ y \in Nat
        BY <1>4
    <2>2. y < x => <<y, x>> \in R
        BY <1>2, <2>1
    <2> QED BY <1>3, <2>1, <2>2
  <1> QED BY <1>4

LEMMA Upwards ==
    ASSUME NEW n \in Nat, NEW A, 0 \in A, \A k \in 0..(n - 1) : k \in A => k + 1 \in A
    PROVE  \A k \in 0..n : k \in A
  <1> DEFINE T == {k \in 0..n : k \notin A}
  <1> SUFFICES ASSUME T # {} PROVE FALSE
      OBVIOUS
  <1>1. T \subseteq Nat
      OBVIOUS
  <1>2. PICK x \in T : \A y \in T : x <= y
      BY <1>1, Least
  <1>3. x - 1 \in 0..(n - 1) /\ x - 1 + 1 = x
      BY <1>2
  <1>4. x - 1 \in A
      BY <1>2, <1>3
  <1> QED BY <1>2, <1>3, <1>4

-----------------------------------------------------------------------------
(* Days and hours.                                                         *)

LEMMA DayLength == TicksPerDay \in Nat /\ TicksPerDay >= 1
  <1>1. TicksPerHour \in Nat /\ TicksPerHour >= 1 /\ HoursPerDay \in Nat /\ HoursPerDay >= 1
      BY CalendarAssumption
  <1> QED BY <1>1 DEF TicksPerDay

(* An hour of a day lies between the midnights of the day.                 *)
LEMMA HourOfDay ==
    ASSUME NEW d \in Int, NEW h \in 0..(HoursPerDay - 1)
    PROVE  /\ At(d, h) \in Int /\ d * TicksPerDay <= At(d, h) /\ At(d, h) < (d + 1) * TicksPerDay
           /\ \A n \in Int : At(d, h) + n * TicksPerDay = At(d + n, h)
  <1>1. TicksPerHour \in Nat /\ TicksPerHour >= 1 /\ HoursPerDay \in Nat /\ TicksPerDay \in Nat
      BY CalendarAssumption, DayLength
  <1>2. h * TicksPerHour \in Nat /\ h * TicksPerHour < TicksPerDay
    <2>1. h \in Nat /\ h + 1 <= HoursPerDay
        BY <1>1
    <2>2. (h + 1) * TicksPerHour <= HoursPerDay * TicksPerHour
        BY <1>1, <2>1
    <2>3. (h + 1) * TicksPerHour = h * TicksPerHour + TicksPerHour
        BY <1>1, <2>1
    <2> QED BY <1>1, <2>1, <2>2, <2>3 DEF TicksPerDay
  <1>3. d * TicksPerDay \in Int /\ (d + 1) * TicksPerDay = d * TicksPerDay + TicksPerDay
      BY <1>1
  <1>4. \A n \in Int : n * TicksPerDay \in Int /\ (d + n) * TicksPerDay = d * TicksPerDay + n * TicksPerDay
      BY <1>1
  <1> QED BY <1>1, <1>2, <1>3, <1>4 DEF At

(* Day is the day whose midnights lie around a time.                       *)
LEMMA DayOfTime ==
    ASSUME NEW t \in Nat
    PROVE  Day(t) \in Nat /\ Day(t) * TicksPerDay <= t /\ t < (Day(t) + 1) * TicksPerDay
  BY DayLength DEF Day

LEMMA Scaled ==
    ASSUME NEW d \in Int, NEW e \in Int, d <= e
    PROVE  d * TicksPerDay <= e * TicksPerDay
  BY DayLength

LEMMA DayOfHour ==
    ASSUME NEW d \in Nat, NEW h \in 0..(HoursPerDay - 1)
    PROVE  Day(At(d, h)) = d
  <1> DEFINE e == Day(At(d, h))
  <1>0. d \in Int
      OBVIOUS
  <1>1. d * TicksPerDay <= At(d, h) /\ At(d, h) < (d + 1) * TicksPerDay /\ At(d, h) \in Int
      BY <1>0, HourOfDay
  <1>2. d * TicksPerDay \in Nat
      BY DayLength
  <1>3. e \in Nat /\ e * TicksPerDay <= At(d, h) /\ At(d, h) < (e + 1) * TicksPerDay
      BY <1>1, <1>2, DayOfTime
  <1> HIDE DEF e
  <1>4. d + 1 <= e => (d + 1) * TicksPerDay <= e * TicksPerDay
      BY <1>3, Scaled
  <1>5. e + 1 <= d => (e + 1) * TicksPerDay <= d * TicksPerDay
      BY <1>3, Scaled
  <1>6. (d + 1) * TicksPerDay \in Int /\ (e + 1) * TicksPerDay \in Int /\ e * TicksPerDay \in Int
      BY <1>3, DayLength
  <1> QED BY <1>1, <1>2, <1>3, <1>4, <1>5, <1>6 DEF e

(* Later days have later hours; an hour that is still to come is of today  *)
(* or a later day, and every hour of a later day is.                       *)
LEMMA HourAhead ==
    ASSUME NEW t \in Nat, NEW d \in Int, NEW h \in 0..(HoursPerDay - 1)
    PROVE  /\ At(d, h) > t => d >= Day(t)
           /\ d > Day(t) => At(d, h) > t
  <1>1. d * TicksPerDay <= At(d, h) /\ At(d, h) < (d + 1) * TicksPerDay /\ At(d, h) \in Int
      BY HourOfDay
  <1>2. Day(t) \in Nat /\ Day(t) * TicksPerDay <= t /\ t < (Day(t) + 1) * TicksPerDay
      BY DayOfTime
  <1>3. d + 1 <= Day(t) => (d + 1) * TicksPerDay <= Day(t) * TicksPerDay
      BY <1>2, Scaled
  <1>4. Day(t) + 1 <= d => (Day(t) + 1) * TicksPerDay <= d * TicksPerDay
      BY <1>2, Scaled
  <1>5. /\ (d + 1) * TicksPerDay \in Int /\ d * TicksPerDay \in Int
        /\ Day(t) * TicksPerDay \in Int /\ (Day(t) + 1) * TicksPerDay \in Int
      BY <1>2, DayLength
  <1> QED BY <1>1, <1>2, <1>3, <1>4, <1>5

LEMMA HoursInOrder ==
    ASSUME NEW d \in Int, NEW e \in Int, d < e, NEW h \in 0..(HoursPerDay - 1)
    PROVE  At(d, h) < At(e, h)
  <1>1. At(d, h) < (d + 1) * TicksPerDay /\ At(d, h) \in Int
      BY HourOfDay
  <1>2. e * TicksPerDay <= At(e, h) /\ At(e, h) \in Int
      BY HourOfDay
  <1>3. (d + 1) * TicksPerDay <= e * TicksPerDay
      BY Scaled
  <1>4. (d + 1) * TicksPerDay \in Int /\ e * TicksPerDay \in Int
      BY DayLength
  <1> QED BY <1>1, <1>2, <1>3, <1>4

-----------------------------------------------------------------------------
(* Weekdays.                                                               *)

LEMMA WeekRemainder ==
    ASSUME NEW d \in Int
    PROVE  /\ Weekday(d) \in 0..(DaysPerWeek - 1)
           /\ d = DaysPerWeek * (d \div DaysPerWeek) + Weekday(d) /\ d \div DaysPerWeek \in Int
  BY CalendarAssumption DEF Weekday

(* Two days of one name are whole weeks apart.                             *)
LEMMA WeeksApart ==
    ASSUME NEW d \in Int, NEW e \in Int, Weekday(d) = Weekday(e), d < e
    PROVE  e >= d + DaysPerWeek
  <1> DEFINE n == DaysPerWeek
             p == d \div n
             q == e \div n
  <1>1. n \in Nat /\ n >= 1 /\ p \in Int /\ q \in Int
      BY CalendarAssumption, WeekRemainder
  <1>2. d - e = n * p - n * q
    <2>1. d = n * p + Weekday(d) /\ e = n * q + Weekday(e) /\ Weekday(d) \in Int
        BY WeekRemainder
    <2>2. n * p \in Int /\ n * q \in Int
        BY <1>1
    <2> QED BY <2>1, <2>2
  <1> HIDE DEF p, q
  <1>3. n * p - n * q = n * (p - q)
      BY <1>1
  <1>4. p - q <= -1
    <2>1. p - q >= 0 => n * (p - q) >= 0
        BY <1>1
    <2> QED BY <1>1, <1>2, <1>3, <2>1
  <1>5. n * (p - q) <= n * (-1)
      BY <1>1, <1>4
  <1> QED BY <1>1, <1>2, <1>3, <1>5

(* So many weeks and days after the start of a week.                       *)
LEMMA WeekdayAt ==
    ASSUME NEW q \in Int, NEW r \in 0..(DaysPerWeek - 1)
    PROVE  Weekday(DaysPerWeek * q + r) = r
  <1> DEFINE n == DaysPerWeek
             d == n * q + r
             p == d \div n
  <1>1. n \in Nat /\ n >= 1 /\ d \in Int
      BY CalendarAssumption
  <1>2. d = n * p + Weekday(d) /\ Weekday(d) \in 0..(n - 1) /\ p \in Int
      BY <1>1, WeekRemainder
  <1>3. n * q - n * p = Weekday(d) - r
    <2>1. n * q \in Int /\ n * p \in Int
        BY <1>1, <1>2
    <2> QED BY <1>1, <1>2, <2>1
  <1> HIDE DEF p, d
  <1>4. n * q - n * p = n * (q - p)
      BY <1>1, <1>2
  <1>5. q - p >= 1 => n * (q - p) >= n
      BY <1>1, <1>2
  <1>6. q - p <= -1 => n * (q - p) <= n * (-1)
      BY <1>1, <1>2
  <1>7. q = p
      BY <1>1, <1>2, <1>3, <1>4, <1>5, <1>6
  <1>8. Weekday(d) = r
      BY <1>1, <1>2, <1>3, <1>7
  <1> QED BY <1>8 DEF d

(* The weekday is reached after the remainder of the difference.           *)
LEMMA DaysAhead ==
    ASSUME NEW d \in Int, NEW w \in 0..(DaysPerWeek - 1)
    PROVE  LET ahead == (w - Weekday(d)) % DaysPerWeek
           IN  ahead \in 0..(DaysPerWeek - 1) /\ Weekday(d + ahead) = w
  <1> DEFINE n == DaysPerWeek
             q == d \div n
             r == Weekday(d)
             ahead == (w - r) % n
  <1>1. n \in Nat /\ n >= 1
      BY CalendarAssumption
  <1>2. r \in 0..(n - 1) /\ d = n * q + r /\ q \in Int
      BY WeekRemainder
  <1> HIDE DEF q, r
  <1>3. CASE w >= r
    <2>1. w - r \in 0..(n - 1) /\ n * 0 + (w - r) = w - r
        BY <1>1, <1>2, <1>3
    <2>2. ahead = w - r
        BY <2>1, WeekdayAt DEF Weekday
    <2>3. d + ahead = n * q + w
        BY <1>1, <1>2, <2>2
    <2>4. Weekday(n * q + w) = w
        BY <1>2, WeekdayAt
    <2> QED BY <2>1, <2>2, <2>3, <2>4 DEF r
  <1>4. CASE w < r
    <2>1. w - r + n \in 0..(n - 1) /\ n * (-1) + (w - r + n) = w - r
        BY <1>1, <1>2, <1>4
    <2>2. ahead = w - r + n
        BY <2>1, WeekdayAt DEF Weekday
    <2>3. d + ahead = n * (q + 1) + w
        BY <1>1, <1>2, <2>2
    <2>4. Weekday(n * (q + 1) + w) = w
        BY <1>2, WeekdayAt
    <2> QED BY <2>1, <2>2, <2>3, <2>4 DEF r
  <1> QED BY <1>1, <1>2, <1>3, <1>4

-----------------------------------------------------------------------------
(* Months.                                                                 *)

LEMMA Months ==
    /\ Len(MonthLengths) \in Nat /\ Len(MonthLengths) >= 1
    /\ \A m \in 1..Len(MonthLengths) : MonthLengths[m] \in Nat /\ MonthLengths[m] >= 1
  BY CalendarAssumption

LEMMA FirstDayStep ==
    FirstDay(1) = 0 /\ \A m \in 1..Len(MonthLengths) : FirstDay(m + 1) = FirstDay(m) + MonthLengths[m]
  <1> DEFINE n == Len(MonthLengths)
             Counts(g, k) == g = [m \in 1..(k + 1) |-> IF m = 1 THEN 0 ELSE g[m - 1] + MonthLengths[m - 1]]
             A == {k \in 0..n : \E g : Counts(g, k)}
  <1>0. n \in Nat
      BY Months
  <1>1. 0 \in A
    <2>1. Counts([m \in 1..1 |-> 0], 0)
        OBVIOUS
    <2> HIDE DEF Counts
    <2>2. 0 \in 0..n /\ \E g : Counts(g, 0)
        BY <1>0, <2>1
    <2> QED BY <2>2
  <1>2. ASSUME NEW k \in 0..(n - 1), k \in A PROVE k + 1 \in A
    <2>1. PICK g : Counts(g, k)
        BY <1>2
    <2> DEFINE more == [m \in 1..(k + 2) |-> IF m = k + 2 THEN g[k + 1] + MonthLengths[k + 1] ELSE g[m]]
    <2>2. \A m \in 1..(k + 1) : more[m] = g[m]
        OBVIOUS
    <2>3. ASSUME NEW m \in 1..(k + 2)
          PROVE  more[m] = IF m = 1 THEN 0 ELSE more[m - 1] + MonthLengths[m - 1]
      <3>1. CASE m = k + 2
        <4>1. more[m] = g[k + 1] + MonthLengths[k + 1] /\ m # 1 /\ m - 1 = k + 1 /\ k + 1 \in 1..(k + 1)
            BY <3>1
        <4> HIDE DEF more
        <4> QED BY <2>2, <4>1
      <3>2. CASE m # k + 2
        <4>1. m \in 1..(k + 1) /\ (m # 1 => m - 1 \in 1..(k + 1))
            BY <3>2
        <4>2. g[m] = IF m = 1 THEN 0 ELSE g[m - 1] + MonthLengths[m - 1]
            BY <2>1, <4>1
        <4> HIDE DEF more
        <4> QED BY <2>2, <4>1, <4>2
      <3> QED BY <3>1, <3>2
    <2>4. more = [m \in 1..(k + 2) |-> IF m = 1 THEN 0 ELSE more[m - 1] + MonthLengths[m - 1]]
      <3>1. more = [m \in 1..(k + 2) |-> more[m]]
          OBVIOUS
      <3> HIDE DEF more
      <3> QED BY <2>3, <3>1
    <2>5. k + 1 + 1 = k + 2 /\ k + 1 \in 0..n
        BY <1>0
    <2>6. Counts(more, k + 1)
        BY <2>4, <2>5
    <2> QED BY <2>5, <2>6
  <1>3. \E g : Counts(g, n)
    <2> HIDE DEF A
    <2>1. \A k \in 0..n : k \in A
        BY <1>0, <1>1, <1>2, Upwards
    <2>2. n \in A
        BY <1>0, <2>1
    <2> QED BY <2>2 DEF A
  <1>4. Counts(FirstDays, n)
      BY <1>3 DEF FirstDays
  <1>5. \A m \in 1..(n + 1) : FirstDays[m] = IF m = 1 THEN 0 ELSE FirstDays[m - 1] + MonthLengths[m - 1]
      BY <1>4
  <1>6. 1 \in 1..(n + 1)
      BY <1>0
  <1>7. ASSUME NEW m \in 1..n PROVE FirstDays[m + 1] = FirstDays[m] + MonthLengths[m]
    <2>1. m + 1 \in 1..(n + 1) /\ m + 1 # 1 /\ m + 1 - 1 = m
        BY <1>0
    <2> QED BY <1>5, <2>1
  <1> QED BY <1>5, <1>6, <1>7 DEF FirstDay

LEMMA FirstDayNat == \A m \in 1..(Len(MonthLengths) + 1) : FirstDay(m) \in Nat
  <1> DEFINE n == Len(MonthLengths)
             A == {k \in 0..n : FirstDay(k + 1) \in Nat}
  <1>0. n \in Nat
      BY Months
  <1>1. 0 \in A
      BY <1>0, FirstDayStep
  <1>2. ASSUME NEW k \in 0..(n - 1), k \in A PROVE k + 1 \in A
    <2>1. k + 1 \in 1..n /\ k + 1 \in 0..n
        OBVIOUS
    <2>2. FirstDay(k + 1 + 1) = FirstDay(k + 1) + MonthLengths[k + 1] /\ MonthLengths[k + 1] \in Nat
        BY <2>1, FirstDayStep, Months
    <2> QED BY <1>2, <2>1, <2>2
  <1> HIDE DEF A
  <1>3. \A k \in 0..n : k \in A
      BY <1>0, <1>1, <1>2, Upwards
  <1>4. ASSUME NEW m \in 1..(n + 1) PROVE FirstDay(m) \in Nat
    <2>1. m - 1 \in 0..n /\ m - 1 + 1 = m
        BY <1>0
    <2> QED BY <1>3, <2>1 DEF A
  <1> QED BY <1>4

(* A month begins after every earlier one has ended.                       *)
LEMMA MonthsInOrder ==
    ASSUME NEW m \in 1..Len(MonthLengths), NEW k \in (m + 1)..(Len(MonthLengths) + 1)
    PROVE  FirstDay(m) + MonthLengths[m] <= FirstDay(k)
  <1> DEFINE n == Len(MonthLengths)
             A == {i \in 0..(n - m) : FirstDay(m) + MonthLengths[m] <= FirstDay(m + 1 + i)}
  <1>0. n \in Nat /\ m \in Nat /\ n - m \in Nat /\ FirstDay(m) \in Nat /\ MonthLengths[m] \in Nat
      BY Months, FirstDayNat
  <1>1. 0 \in A
    <2>1. FirstDay(m + 1 + 0) = FirstDay(m) + MonthLengths[m]
        BY <1>0, FirstDayStep
    <2> QED BY <1>0, <2>1
  <1>2. ASSUME NEW i \in 0..((n - m) - 1), i \in A PROVE i + 1 \in A
    <2>1. m + 1 + i \in 1..n /\ i + 1 \in 0..(n - m) /\ m + 1 + i + 1 = m + 1 + (i + 1)
        BY <1>0
    <2>2. FirstDay(m + 1 + i + 1) = FirstDay(m + 1 + i) + MonthLengths[m + 1 + i]
        BY <2>1, FirstDayStep
    <2>3. FirstDay(m + 1 + i) \in Nat /\ MonthLengths[m + 1 + i] \in Nat
      <3>1. m + 1 + i \in 1..(n + 1)
          BY <2>1
      <3> QED BY <2>1, <3>1, Months, FirstDayNat
    <2> QED BY <1>0, <1>2, <2>1, <2>2, <2>3
  <1> HIDE DEF A
  <1>3. \A i \in 0..(n - m) : i \in A
      BY <1>0, <1>1, <1>2, Upwards
  <1>4. k - (m + 1) \in 0..(n - m) /\ m + 1 + (k - (m + 1)) = k
      BY <1>0
  <1> QED BY <1>3, <1>4 DEF A

LEMMA MonthOfDay ==
    ASSUME NEW d \in Nat
    PROVE  /\ Month(d) \in 1..Len(MonthLengths) /\ FirstDay(Month(d)) <= d
           /\ \A m \in 1..Len(MonthLengths) : FirstDay(m) <= d => m <= Month(d)
  <1> DEFINE n == Len(MonthLengths)
             T == {m \in 1..n : FirstDay(m) <= d}
             U == {n - m : m \in T}
  <1>0. n \in Nat /\ n >= 1 /\ FirstDay(1) = 0
      BY Months, FirstDayStep
  <1>1. 1 \in T
      BY <1>0
  <1>2. U \subseteq Nat /\ U # {}
      BY <1>0, <1>1
  <1>3. PICK x \in U : \A y \in U : x <= y
      BY <1>2, Least
  <1>4. PICK m \in T : x = n - m
      BY <1>3
  <1>5. \A k \in T : m >= k
    <2> TAKE k \in T
    <2>1. n - m <= n - k
        BY <1>3, <1>4
    <2> QED BY <1>0, <2>1
  <1>6. \E z \in T : \A k \in T : z >= k
      BY <1>5
  <1>7. Max(T) \in T /\ \A k \in T : Max(T) >= k
    <2> HIDE DEF T
    <2> QED BY <1>6 DEF Max
  <1>8. Month(d) = Max(T)
      BY DEF Month
  <1> HIDE DEF T
  <1> DEFINE z == Max(T)
  <1>9. z \in T /\ \A k \in T : z >= k
      BY <1>7
  <1> HIDE DEF z
  <1>10. z \in 1..n /\ FirstDay(z) <= d
      BY <1>9 DEF T
  <1>11. \A k \in 1..n : FirstDay(k) <= d => k <= z
      BY <1>9, <1>10 DEF T
  <1> QED BY <1>8, <1>10, <1>11 DEF z

(* The day that is meant of a month is a day of that month.                *)
LEMMA DayOfMonth ==
    ASSUME NEW m \in 1..Len(MonthLengths), NEW n \in Nat \ {0}
    PROVE  LET d == FirstDay(m) + Min({n, MonthLengths[m]}) - 1
           IN  /\ d \in Nat /\ FirstDay(m) <= d /\ d < FirstDay(m) + MonthLengths[m] /\ Month(d) = m
  <1> DEFINE l == MonthLengths[m]
             a == Min({n, l})
             d == FirstDay(m) + a - 1
  <1>0. l \in Nat /\ l >= 1 /\ FirstDay(m) \in Nat /\ m \in Nat /\ m \in 1..(Len(MonthLengths) + 1)
      BY Months, FirstDayNat
  <1>1. a \in 1..l
    <2>1. \E x \in {n, l} : \A y \in {n, l} : x <= y
        BY <1>0
    <2>2. a \in {n, l} /\ \A y \in {n, l} : a <= y
        BY <2>1 DEF Min
    <2> QED BY <1>0, <2>2
  <1> HIDE DEF a
  <1>2. d \in Nat /\ FirstDay(m) <= d /\ d < FirstDay(m) + l
      BY <1>0, <1>1
  <1>3. Month(d) = m
    <2>1. /\ Month(d) \in 1..Len(MonthLengths) /\ FirstDay(Month(d)) <= d /\ m <= Month(d)
        BY <1>2, MonthOfDay
    <2>2. ~(Month(d) >= m + 1)
      <3> SUFFICES ASSUME Month(d) >= m + 1 PROVE FALSE
          OBVIOUS
      <3>1. Month(d) \in (m + 1)..(Len(MonthLengths) + 1)
          BY <2>1, <1>0, Months
      <3>2. FirstDay(m) + l <= FirstDay(Month(d))
          BY <3>1, MonthsInOrder
      <3>3. FirstDay(Month(d)) \in Nat
          BY <2>1, FirstDayNat
      <3> QED BY <1>0, <1>2, <2>1, <3>2, <3>3
    <2> QED BY <1>0, <2>1, <2>2
  <1> QED BY <1>2, <1>3 DEF a

-----------------------------------------------------------------------------
(* Times that are meant.                                                   *)

CalendarDays == 0..(Day(Wall(Horizon)) - 1)

(* d is the next day with a time that plan means, when the clocks show now. *)
NextDay(plan, now, d) ==
    /\ d \in CalendarDays /\ Meant(plan, d) /\ At(d, plan.hour) > now
    /\ \A e \in CalendarDays : Meant(plan, e) /\ At(e, plan.hour) > now => d <= e

LEMMA Clocks ==
    /\ Times \subseteq Nat /\ Horizon \in Times
    /\ \A t \in Times : Wall(t) \in Nat
    /\ CalendarDays \subseteq Nat
    /\ \A d \in CalendarDays, h \in 0..(HoursPerDay - 1) : At(d, h) \in FullHours /\ At(d, h) \in Nat
  <1>1. Times \subseteq Nat /\ Horizon \in Times
      BY CalendarAssumption DEF Times
  <1>2. \A t \in Times : Wall(t) \in Nat
      BY ClockAssumption
  <1>3. Day(Wall(Horizon)) \in Nat
      BY <1>1, <1>2, DayOfTime
  <1>4. CalendarDays \subseteq Nat
      BY <1>3 DEF CalendarDays
  <1>5. ASSUME NEW d \in CalendarDays, NEW h \in 0..(HoursPerDay - 1)
        PROVE  At(d, h) \in FullHours /\ At(d, h) \in Nat
    <2>1. d \in Nat /\ d \in Int /\ d * TicksPerDay \in Nat
        BY <1>4, DayLength
    <2>2. At(d, h) \in Int /\ d * TicksPerDay <= At(d, h)
        BY <2>1, HourOfDay
    <2> QED BY <2>1, <2>2 DEF FullHours, CalendarDays
  <1> QED BY <1>1, <1>2, <1>4, <1>5

(* Only today and later days have times ahead, and no day is missing.      *)
LEMMA DaysLeft ==
    ASSUME NEW now \in Nat, NEW h \in 0..(HoursPerDay - 1)
    PROVE  /\ \A e \in CalendarDays : At(e, h) > now => e >= Day(now)
           /\ \A e \in CalendarDays : \A d \in 0..e : d \in CalendarDays
  <1>1. ASSUME NEW e \in CalendarDays, At(e, h) > now PROVE e >= Day(now)
    <2>1. e \in Int
        BY Clocks
    <2> QED BY <1>1, <2>1, HourAhead
  <1>2. Day(Wall(Horizon)) \in Nat
      BY Clocks, DayOfTime
  <1>3. \A e \in CalendarDays : \A d \in 0..e : d \in CalendarDays
      BY <1>2 DEF CalendarDays
  <1> QED BY <1>1, <1>3

LEMMA HoursShown ==
    ASSUME NEW d \in CalendarDays, NEW h \in 0..(HoursPerDay - 1)
    PROVE  /\ Instant(At(d, h), 0) \in Times
           /\ \A t \in Times : At(d, h) > Wall(t) <=> Instant(At(d, h), 0) > t
  <1>1. At(d, h) \in FullHours /\ At(d, h) \in Nat
      BY Clocks
  <1>2. Instant(At(d, h), 0) \in Times /\ \A t \in Times : Wall(t) < At(d, h) <=> t < Instant(At(d, h), 0)
      BY <1>1, ClockAssumption
  <1> QED BY <1>1, <1>2, Clocks

LEMMA SlotsInOrder ==
    ASSUME NEW d \in CalendarDays, NEW e \in CalendarDays, d <= e, NEW h \in 0..(HoursPerDay - 1)
    PROVE  Instant(At(d, h), 0) <= Instant(At(e, h), 0)
  <1> DEFINE x == Instant(At(d, h), 0)
             y == Instant(At(e, h), 0)
  <1>1. d \in Int /\ e \in Int
      BY Clocks
  <1>2. x \in Times /\ y \in Times /\ x \in Nat /\ y \in Nat
      BY HoursShown, Clocks
  <1>3. CASE d = e
      BY <1>2, <1>3
  <1>4. CASE d # e
    <2>1. At(d, h) < At(e, h)
        BY <1>1, <1>4, HoursInOrder
    <2>2. ~(At(e, h) > Wall(y)) /\ Wall(y) \in Nat
        BY <1>2, HoursShown, Clocks
    <2>3. ~(At(d, h) > Wall(y))
        BY <2>1, <2>2, Clocks
    <2>4. ~(x > y)
        BY <1>2, <2>3, HoursShown
    <2> QED BY <1>2, <2>4
  <1> QED BY <1>3, <1>4

LEMMA FirstSlot ==
    ASSUME NEW plan \in Planned, NEW t \in Times, NEW d, NextDay(plan, Wall(t), d)
    PROVE  FirstSlotAfter(Slots(plan), t) = Instant(At(d, plan.hour), 0)
  <1> DEFINE h == plan.hour
             x == Instant(At(d, h), 0)
             T == {u \in Slots(plan) : u > t}
  <1>1. h \in 0..(HoursPerDay - 1)
      BY DEF Planned
  <1>2. Slots(plan) = {Instant(At(e, h), 0) : e \in {z \in CalendarDays : Meant(plan, z)}}
      BY DEF Slots, CalendarDays
  <1>3. x \in T /\ x \in Nat
    <2>1. d \in CalendarDays /\ Meant(plan, d) /\ At(d, h) > Wall(t)
        BY DEF NextDay
    <2>2. x > t /\ x \in Times
        BY <1>1, <2>1, HoursShown
    <2> QED BY <1>2, <2>1, <2>2, Clocks
  <1>4. ASSUME NEW y \in T PROVE x <= y /\ y \in Nat
    <2>1. PICK e \in CalendarDays : Meant(plan, e) /\ y = Instant(At(e, h), 0)
        BY <1>2, <1>4
    <2>2. At(e, h) > Wall(t) /\ y \in Times
        BY <1>1, <1>4, <2>1, HoursShown
    <2>3. d <= e /\ d \in CalendarDays
        BY <2>1, <2>2 DEF NextDay
    <2> QED BY <1>1, <2>1, <2>2, <2>3, SlotsInOrder, Clocks
  <1>5. Min(T) = x
    <2> HIDE DEF T, x
    <2>1. Min(T) \in T /\ \A y \in T : Min(T) <= y
      <3>1. \E z \in T : \A y \in T : z <= y
          BY <1>3, <1>4
      <3> QED BY <3>1 DEF Min
    <2>2. Min(T) <= x /\ x <= Min(T) /\ Min(T) \in Nat
        BY <1>3, <1>4, <2>1
    <2> QED BY <1>3, <2>2
  <1> QED BY <1>5 DEF FirstSlotAfter

(* The fold of the moment does not matter to the hours of two months.      *)
LEMMA FoldForgotten ==
    ASSUME NEW t \in Times, NEW d \in CalendarDays, NEW h \in 0..(HoursPerDay - 1),
           At(d, h) > Wall(t), Month(d) <= Month(Day(Wall(t))) + 1
    PROVE  Instant(At(d, h), Fold(t)) = Instant(At(d, h), 0)
  <1>1. At(d, h) \in FullHours /\ At(d, h) \in Nat /\ d \in Nat /\ Wall(t) \in Nat
      BY Clocks
  <1>2. Fold(t) \in {0, 1}
      BY DEF Fold, FoldOf
  <1>3. Day(At(d, h)) = d
      BY <1>1, DayOfHour
  <1>4. CASE Fold(t) = 1
    <2>1. Wall(t) < At(d, h)
        BY <1>1
    <2> QED BY <1>1, <1>3, <1>4, <2>1, ClockAssumption
  <1> QED BY <1>2, <1>4

(* The next time of each cadence.                                          *)
LEMMA DailyRight ==
    ASSUME NEW plan \in Planned, plan.cadence = "daily", NEW t \in Times,
           \E e \in CalendarDays : Meant(plan, e) /\ At(e, plan.hour) > Wall(t)
    PROVE  next_run(plan, t) = FirstSlotAfter(Slots(plan), t)
  <1> DEFINE h == plan.hour
             now == Wall(t)
             today == Day(now)
  <1>1. h \in 0..(HoursPerDay - 1) /\ now \in Nat /\ today \in Nat /\ today \in Int
      BY Clocks, DayOfTime DEF Planned
  <1>2. PICK last \in CalendarDays : Meant(plan, last) /\ At(last, h) > now
      OBVIOUS
  <1>3. \A e \in CalendarDays : At(e, h) > now => e >= today
      BY <1>1, DaysLeft
  <1>4. \A d \in 0..last : d \in CalendarDays
      BY <1>1, <1>2, DaysLeft
  <1>5. \A d : Meant(plan, d)
      BY DEF Meant
  <1>6. At(today, h) + TicksPerDay = At(today + 1, h)
    <2>1. At(today, h) + 1 * TicksPerDay = At(today + 1, h)
        BY <1>1, HourOfDay
    <2> QED BY <2>1, DayLength
  <1>7. next_run(plan, t) =
            IF At(today, h) > now THEN Instant(At(today, h), Fold(t))
            ELSE Instant(At(today, h) + TicksPerDay, 0)
      BY DEF next_run
  <1> HIDE DEF now, today, h
  <1>8. last \in Nat /\ last >= today
      BY <1>2, <1>3, Clocks
  <1>9. CASE At(today, h) > now
    <2>1. today \in CalendarDays
        BY <1>1, <1>4, <1>8
    <2>2. NextDay(plan, now, today)
        BY <1>3, <1>5, <1>9, <2>1 DEF NextDay, h
    <2>3. Month(today) <= Month(today) + 1
        BY <1>1, MonthOfDay
    <2>4. Instant(At(today, h), Fold(t)) = Instant(At(today, h), 0)
        BY <1>1, <1>9, <2>1, <2>3, FoldForgotten DEF now, today
    <2> QED BY <1>7, <1>9, <2>2, <2>4, FirstSlot DEF now, h
  <1>10. CASE ~(At(today, h) > now)
    <2>1. last # today
        BY <1>2, <1>10
    <2>2. today + 1 \in CalendarDays /\ At(today + 1, h) > now
      <3>1. today + 1 \in 0..last
          BY <1>1, <1>8, <2>1
      <3> QED BY <1>1, <1>4, <3>1, HourAhead DEF today
    <2>3. \A e \in CalendarDays : At(e, h) > now => today + 1 <= e
      <3> TAKE e \in CalendarDays
      <3> HAVE At(e, h) > now
      <3>1. e >= today /\ e # today /\ e \in Nat
          BY <1>3, <1>10, Clocks
      <3> QED BY <1>1, <3>1
    <2>4. NextDay(plan, now, today + 1)
        BY <1>5, <2>2, <2>3 DEF NextDay, h
    <2> QED BY <1>6, <1>7, <1>10, <2>4, FirstSlot DEF now, h
  <1> QED BY <1>9, <1>10

LEMMA WeeklyRight ==
    ASSUME NEW plan \in Planned, plan.cadence = "weekly", NEW t \in Times,
           \E e \in CalendarDays : Meant(plan, e) /\ At(e, plan.hour) > Wall(t)
    PROVE  next_run(plan, t) = FirstSlotAfter(Slots(plan), t)
  <1> DEFINE h == plan.hour
             now == Wall(t)
             today == Day(now)
             ahead == (plan.weekday - Weekday(today)) % DaysPerWeek
             d == today + ahead
  <1>1. h \in 0..(HoursPerDay - 1) /\ now \in Nat /\ today \in Nat /\ today \in Int
        /\ plan.weekday \in 0..(DaysPerWeek - 1)
      BY Clocks, DayOfTime DEF Planned
  <1>2. PICK last \in CalendarDays : Meant(plan, last) /\ At(last, h) > now
      OBVIOUS
  <1>3. \A e \in CalendarDays : At(e, h) > now => e >= today
      BY <1>1, DaysLeft
  <1>4. \A z \in 0..last : z \in CalendarDays
      BY <1>1, <1>2, DaysLeft
  <1>5. \A z : Meant(plan, z) <=> Weekday(z) = plan.weekday
      BY DEF Meant
  <1>6. ahead \in 0..(DaysPerWeek - 1) /\ Weekday(d) = plan.weekday
      BY <1>1, DaysAhead
  <1>7. next_run(plan, t) =
            LET week == At(today, h) + ahead * TicksPerDay
            IN  Instant(IF week > now THEN week ELSE week + DaysPerWeek * TicksPerDay, 0)
      BY DEF next_run
  <1> HIDE DEF now, today, h, ahead
  <1>8. DaysPerWeek \in Nat /\ DaysPerWeek >= 1 /\ ahead \in Nat /\ d \in Nat /\ d \in Int
      BY <1>1, <1>6, CalendarAssumption
  <1>9. At(today, h) + ahead * TicksPerDay = At(d, h)
      BY <1>1, <1>8, HourOfDay
  <1>10. At(d, h) + DaysPerWeek * TicksPerDay = At(d + DaysPerWeek, h)
      BY <1>1, <1>8, HourOfDay
  <1> HIDE DEF d
  <1>11. \A e \in CalendarDays : Meant(plan, e) /\ At(e, h) > now => e >= d
    <2> TAKE e \in CalendarDays
    <2> HAVE Meant(plan, e) /\ At(e, h) > now
    <2>1. e >= today /\ e \in Int /\ Weekday(e) = Weekday(d)
        BY <1>3, <1>5, <1>6, Clocks
    <2>2. e < d => d >= e + DaysPerWeek
        BY <1>8, <2>1, WeeksApart
    <2>3. d < today + DaysPerWeek
        BY <1>1, <1>6, <1>8 DEF d
    <2> QED BY <1>1, <1>8, <2>1, <2>2, <2>3
  <1>12. CASE At(d, h) > now
    <2>1. last >= d /\ last \in Nat
        BY <1>2, <1>11, Clocks
    <2>2. d \in CalendarDays
        BY <1>4, <1>8, <2>1
    <2>3. NextDay(plan, now, d)
        BY <1>5, <1>6, <1>11, <1>12, <2>2 DEF NextDay, h
    <2>4. next_run(plan, t) = Instant(At(d, h), 0)
        BY <1>7, <1>9, <1>12
    <2> QED BY <2>3, <2>4, FirstSlot DEF now, h
  <1>13. CASE ~(At(d, h) > now)
    <2>1. \A e \in CalendarDays : Meant(plan, e) /\ At(e, h) > now => e >= d + DaysPerWeek
      <3> TAKE e \in CalendarDays
      <3> HAVE Meant(plan, e) /\ At(e, h) > now
      <3>1. e >= d /\ e # d /\ e \in Int /\ Weekday(e) = Weekday(d)
          BY <1>5, <1>6, <1>11, <1>13, Clocks
      <3> QED BY <1>8, <3>1, WeeksApart
    <2>2. last >= d + DaysPerWeek /\ last \in Nat
        BY <1>2, <2>1, Clocks
    <2>3. d + DaysPerWeek \in CalendarDays
        BY <1>4, <1>8, <2>2
    <2>4. Weekday(d + DaysPerWeek) = plan.weekday
      <3>1. /\ d = DaysPerWeek * (d \div DaysPerWeek) + Weekday(d)
            /\ d \div DaysPerWeek \in Int /\ Weekday(d) \in 0..(DaysPerWeek - 1)
          BY <1>8, WeekRemainder
      <3> DEFINE q == d \div DaysPerWeek
      <3>2. d + DaysPerWeek = DaysPerWeek * (q + 1) + Weekday(d)
        <4> HIDE DEF q
        <4>1. DaysPerWeek * (q + 1) = DaysPerWeek * q + DaysPerWeek /\ DaysPerWeek * q \in Int
            BY <1>8, <3>1 DEF q
        <4> QED BY <1>8, <3>1, <4>1 DEF q
      <3> QED BY <1>6, <3>1, <3>2, WeekdayAt
    <2>5. At(d + DaysPerWeek, h) > now
      <3>1. d >= today /\ d + DaysPerWeek > today /\ d + DaysPerWeek \in Int
          BY <1>1, <1>8 DEF d
      <3> QED BY <1>1, <3>1, HourAhead DEF today
    <2>6. NextDay(plan, now, d + DaysPerWeek)
        BY <1>5, <2>1, <2>3, <2>4, <2>5 DEF NextDay, h
    <2>7. next_run(plan, t) = Instant(At(d + DaysPerWeek, h), 0)
        BY <1>7, <1>9, <1>10, <1>13
    <2> QED BY <2>6, <2>7, FirstSlot DEF now, h
  <1> QED BY <1>12, <1>13

LEMMA MonthlyRight ==
    ASSUME NEW plan \in Planned, plan.cadence = "monthly", NEW t \in Times,
           \E e \in CalendarDays : Meant(plan, e) /\ At(e, plan.hour) > Wall(t)
    PROVE  next_run(plan, t) = FirstSlotAfter(Slots(plan), t)
  <1> DEFINE h == plan.hour
             now == Wall(t)
             this == Month(Day(now))
             n == Len(MonthLengths)
             Of(m) == FirstDay(m) + Min({plan.day_of_month, MonthLengths[m]}) - 1
  <1>1. /\ h \in 0..(HoursPerDay - 1) /\ now \in Nat /\ Day(now) \in Nat /\ n \in Nat
        /\ this \in 1..n /\ FirstDay(this) <= Day(now)
      BY Clocks, DayOfTime, MonthOfDay, Months DEF Planned
  <1>2. PICK last \in CalendarDays : Meant(plan, last) /\ At(last, h) > now
      OBVIOUS
  <1>3. \A e \in CalendarDays : At(e, h) > now => e >= Day(now)
      BY <1>1, DaysLeft
  <1>4. \A d \in 0..last : d \in CalendarDays
      BY <1>1, <1>2, DaysLeft
  <1>5. \A d : Meant(plan, d) <=> d = Of(Month(d))
      BY DEF Meant
  <1>6. ASSUME NEW m \in 1..n
        PROVE  /\ Of(m) \in Nat /\ FirstDay(m) <= Of(m) /\ Of(m) < FirstDay(m) + MonthLengths[m]
               /\ Month(Of(m)) = m /\ FirstDay(m) \in Nat /\ MonthLengths[m] \in Nat
    <2>1. plan.day_of_month \in Nat \ {0} /\ m \in 1..(n + 1)
        BY <1>1 DEF Planned
    <2> QED BY <1>6, <2>1, DayOfMonth, FirstDayNat, Months
  <1>7. next_run(plan, t) = Instant(IF At(Of(this), h) > now THEN At(Of(this), h)
                                    ELSE At(Of(this + 1), h), Fold(t))
      BY DEF next_run, monthly
  <1> HIDE DEF now, this, h, n, Of
  <1>8. last \in Nat
      BY <1>2, Clocks
  (* A day that is ahead is of this month or a later one, and no earlier   *)
  (* than the day of any month before its own.                             *)
  <1>9. ASSUME NEW e \in CalendarDays, Meant(plan, e), At(e, h) > now
        PROVE  Month(e) \in this..n /\ e = Of(Month(e))
    <2>1. e \in Nat /\ e >= Day(now)
        BY <1>3, <1>9, Clocks
    <2>2. FirstDay(this) \in Nat /\ FirstDay(this) <= e
        BY <1>1, <1>6, <2>1
    <2>3. Month(e) \in 1..n /\ this <= Month(e)
        BY <1>1, <2>1, <2>2, MonthOfDay DEF n
    <2> QED BY <1>1, <1>5, <1>9, <2>3
  <1>10. ASSUME NEW m \in 1..n, NEW k \in m..n PROVE Of(m) <= Of(k)
    <2>1. CASE k = m
        BY <1>6, <2>1
    <2>2. CASE k # m
      <3>1. k \in (m + 1)..(n + 1) /\ k \in 1..n
          BY <1>1, <2>2
      <3>2. FirstDay(m) + MonthLengths[m] <= FirstDay(k)
          BY <3>1, MonthsInOrder DEF n
      <3> QED BY <1>6, <3>1, <3>2
    <2> QED BY <2>1, <2>2
  (* The next day, once its month m is known.                              *)
  <1>11. ASSUME NEW m \in this..n, m <= this + 1, At(Of(m), h) > now,
                \A e \in CalendarDays : Meant(plan, e) /\ At(e, h) > now => Month(e) >= m
         PROVE  Instant(At(Of(m), h), Fold(t)) = FirstSlotAfter(Slots(plan), t)
    <2>1. m \in 1..n
        BY <1>1
    <2>2. \A e \in CalendarDays : Meant(plan, e) /\ At(e, h) > now => Of(m) <= e
      <3> TAKE e \in CalendarDays
      <3> HAVE Meant(plan, e) /\ At(e, h) > now
      <3>1. Month(e) \in m..n /\ e = Of(Month(e))
          BY <1>1, <1>9, <1>11
      <3> QED BY <1>10, <2>1, <3>1
    <2>3. Of(m) \in CalendarDays
      <3>1. Of(m) \in 0..last
          BY <1>2, <1>6, <1>8, <2>1, <2>2
      <3> QED BY <1>4, <3>1
    <2>4. Month(Of(m)) = m /\ Meant(plan, Of(m))
        BY <1>5, <1>6, <2>1
    <2>5. NextDay(plan, now, Of(m))
        BY <1>11, <2>2, <2>3, <2>4 DEF NextDay, h
    <2>6. Instant(At(Of(m), h), Fold(t)) = Instant(At(Of(m), h), 0)
        BY <1>1, <1>11, <2>3, <2>4, FoldForgotten DEF now, this
    <2> QED BY <2>5, <2>6, FirstSlot DEF now, h
  <1>12. CASE At(Of(this), h) > now
    <2>1. this \in this..n /\ this <= this + 1
        BY <1>1
    <2>2. \A e \in CalendarDays : Meant(plan, e) /\ At(e, h) > now => Month(e) >= this
        BY <1>1, <1>9
    <2> QED BY <1>7, <1>11, <1>12, <2>1, <2>2
  <1>13. CASE ~(At(Of(this), h) > now)
    <2>1. \A e \in CalendarDays : Meant(plan, e) /\ At(e, h) > now => Month(e) >= this + 1
      <3> TAKE e \in CalendarDays
      <3> HAVE Meant(plan, e) /\ At(e, h) > now
      <3>1. Month(e) \in this..n /\ e = Of(Month(e))
          BY <1>9
      <3>2. Month(e) # this
          BY <1>13, <3>1
      <3> QED BY <1>1, <3>1, <3>2
    <2>2. this + 1 \in this..n /\ this + 1 \in 1..n
      <3>1. Month(last) \in this..n /\ Month(last) >= this + 1
          BY <1>2, <1>9, <2>1
      <3> QED BY <1>1, <3>1
    <2>3. At(Of(this + 1), h) > now
      <3>1. Day(now) < FirstDay(this + 1)
        <4>1. FirstDay(this + 1) <= Day(now) => this + 1 <= this
            BY <1>1, <2>2, MonthOfDay DEF this, n
        <4> QED BY <1>1, <1>6, <2>2, <4>1
      <3>2. Of(this + 1) > Day(now) /\ Of(this + 1) \in Int
          BY <1>1, <1>6, <2>2, <3>1
      <3> QED BY <1>1, <3>2, HourAhead
    <2> QED BY <1>7, <1>11, <1>13, <2>1, <2>2, <2>3, <1>1
  <1> QED BY <1>12, <1>13

(* next_run names the first time its plan means after any moment that has  *)
(* one in the calendar.                                                    *)
LEMMA NextRunRight ==
    ASSUME NEW plan \in Planned, NEW t \in Times, \E u \in Slots(plan) : u > t
    PROVE  next_run(plan, t) = FirstSlotAfter(Slots(plan), t)
  <1>1. PICK e \in CalendarDays : Meant(plan, e) /\ Instant(At(e, plan.hour), 0) > t
      BY DEF Slots, CalendarDays
  <1>2. plan.hour \in 0..(HoursPerDay - 1) /\ plan.cadence \in {"daily", "weekly", "monthly"}
      BY DEF Planned
  <1>3. At(e, plan.hour) > Wall(t)
      BY <1>1, <1>2, HoursShown
  <1> QED BY <1>1, <1>2, <1>3, DailyRight, WeeklyRight, MonthlyRight

-----------------------------------------------------------------------------
(* The first slot after a moment.                                          *)

LEMMA MomentsNat == Moments \subseteq Nat /\ 0 \in Moments /\ MaxClock \in Nat
  BY SchedulerAssumption, CalendarAssumption DEF Moments, Times

LEMMA RightAt ==
    ASSUME NEW s \in Schedules, NEW t \in Moments
    PROVE  next_run(Plan[s], t) = FirstSlotAfter(SlotsOf[s], t)
  <1>1. t \in Times /\ Plan[s] \in Planned
      BY SchedulerAssumption, CalendarAssumption DEF Moments, Times
  <1>2. \E u \in Slots(Plan[s]) : u > t
      BY SlotAssumption DEF Moments, SlotsOf
  <1> QED BY <1>1, <1>2, NextRunRight DEF SlotsOf

LEMMA SlotAfter ==
    ASSUME NEW s \in Schedules, NEW t \in Moments
    PROVE  LET u == FirstSlotAfter(SlotsOf[s], t) IN u \in SlotsOf[s] /\ u \in Nat /\ u > t
  <1> DEFINE T == {u \in SlotsOf[s] : u > t}
  <1>1. SlotsOf[s] \subseteq Int /\ \E u \in SlotsOf[s] : u > t
      BY SlotAssumption DEF Moments
  <1>2. T \subseteq Nat /\ T # {}
      BY <1>1, MomentsNat
  <1> HIDE DEF T
  <1>3. Min(T) \in T
      BY <1>2, Least DEF Min
  <1> QED BY <1>2, <1>3 DEF FirstSlotAfter, T

(* A row as create and fire_due write it.                                  *)
LEMMA RowWaits ==
    ASSUME NEW s \in Schedules, NEW t \in Moments
    PROVE  LET u == next_run(Plan[s], t) IN u \in SlotsOf[s] /\ u \in Nat /\ u > t
  BY SlotAfter, RightAt

LEMMA NewRowWaits ==
    ASSUME NEW s \in Schedules, NEW t \in Moments
    PROVE  /\ Row(s, t) \in [active : BOOLEAN, next : Nat, last : Nat, runs : Nat]
           /\ Row(s, t).next \in SlotsOf[s] /\ Row(s, t).next > Row(s, t).last
  BY RowWaits, MomentsNat DEF Row

-----------------------------------------------------------------------------
(* The steps.                                                              *)

LEMMA SchedInvInit == Init => SchedInv
  <1> SUFFICES ASSUME Init PROVE SchedInv
      OBVIOUS
  <1>1. PICK start \in Starts : SchedInit(start.stored)
      BY DEF Init
  <1>2. start.stored \subseteq Schedules
      BY <1>1, StartAssumption DEF SchedInit
  <1>3. ASSUME NEW s \in DOMAIN rows PROVE Waiting(s)
      BY <1>1, <1>2, <1>3, NewRowWaits, MomentsNat DEF SchedInit, Waiting
  <1>4. SchedTypeOK
      BY <1>1, <1>2, MomentsNat DEF SchedInit, SchedTypeOK, Idle
  <1>5. Apart /\ \A p \in Schedulers : Holds(p)
      BY <1>1 DEF SchedInit, Apart, Holds, Idle
  <1> QED BY <1>3, <1>4, <1>5 DEF SchedInv

(* What a step that only edits rows nobody has claimed must show.          *)
LEMMA EditKept ==
    ASSUME SchedInv, UNCHANGED <<clock, txn>>,
           DOMAIN rows' \subseteq Schedules, rows' = [s \in DOMAIN rows' |-> rows'[s]],
           \A s \in Locked : s \in DOMAIN rows => s \in DOMAIN rows' /\ rows'[s] = rows[s],
           \A s \in DOMAIN rows' : Waiting(s)',
           \A s \in DOMAIN rows \cap DOMAIN rows' : rows'[s].runs = rows[s].runs
    PROVE  SchedInv' /\ \A s \in DOMAIN rows \cap DOMAIN rows' : OneRun(s)
  <1>1. SchedTypeOK' /\ Apart'
      BY DEF SchedInv, SchedTypeOK, Apart
  <1>2. ASSUME NEW p \in Schedulers PROVE Holds(p)'
    <2>1. txn[p].claimed \subseteq Locked
        BY DEF Locked
    <2>2. Holds(p)
        BY DEF SchedInv
    <2> QED BY <2>1, <2>2 DEF Holds
  <1>3. ASSUME NEW s \in DOMAIN rows \cap DOMAIN rows' PROVE OneRun(s)
    <2>1. rows'[s].runs = rows[s].runs /\ rows[s].runs \in Nat
        BY <1>3 DEF SchedInv, Waiting
    <2> QED BY <2>1 DEF OneRun
  <1> QED BY <1>1, <1>2, <1>3 DEF SchedInv

LEMMA EditStep ==
    ASSUME SchedInv, NEW s \in Schedules, Create(s) \/ Delete(s) \/ SetActive(s)
    PROVE  SchedInv' /\ \A x \in DOMAIN rows \cap DOMAIN rows' : OneRun(x)
  <1>1. DOMAIN rows \subseteq Schedules /\ clock \in Moments /\ \A x \in DOMAIN rows : Waiting(x)
      BY DEF SchedInv, SchedTypeOK
  <1>2. CASE Create(s)
    <2>1. DOMAIN rows' = DOMAIN rows \cup {s} /\ rows'[s] = Row(s, clock)
        BY <1>2 DEF Create
    <2>2. \A x \in DOMAIN rows : rows'[x] = rows[x]
        BY <1>2 DEF Create
    <2>3. Waiting(s)'
        BY <1>1, <2>1, NewRowWaits DEF Waiting
    <2>4. \A x \in DOMAIN rows' : Waiting(x)'
        BY <1>1, <2>1, <2>2, <2>3 DEF Waiting
    <2>5. rows' = [x \in DOMAIN rows' |-> rows'[x]]
        BY <1>2 DEF Create
    <2> QED BY <1>1, <1>2, <2>1, <2>2, <2>4, <2>5, EditKept DEF Create
  <1>3. CASE Delete(s)
    <2>1. DOMAIN rows' = DOMAIN rows \ {s} /\ s \notin Locked
        BY <1>3 DEF Delete
    <2>2. \A x \in DOMAIN rows' : rows'[x] = rows[x]
        BY <1>3 DEF Delete
    <2>3. \A x \in DOMAIN rows' : Waiting(x)'
        BY <1>1, <2>1, <2>2 DEF Waiting
    <2>4. rows' = [x \in DOMAIN rows' |-> rows'[x]]
        BY <1>3 DEF Delete
    <2> QED BY <1>1, <1>3, <2>1, <2>2, <2>3, <2>4, EditKept DEF Delete
  <1>4. CASE SetActive(s)
    <2>1. s \in DOMAIN rows /\ s \notin Locked /\ rows' = [rows EXCEPT ![s].active = ~@]
        BY <1>4 DEF SetActive
    <2>2. DOMAIN rows' = DOMAIN rows /\ \A x \in DOMAIN rows : x # s => rows'[x] = rows[x]
        BY <2>1
    <2>3. rows'[s] = [rows[s] EXCEPT !.active = ~@]
        BY <2>1
    <2>4. Waiting(s)' /\ rows'[s].runs = rows[s].runs
        BY <1>1, <2>1, <2>3 DEF Waiting
    <2>5. \A x \in DOMAIN rows' : Waiting(x)'
        BY <1>1, <2>2, <2>4 DEF Waiting
    <2>6. rows' = [x \in DOMAIN rows' |-> rows'[x]]
        BY <2>1
    <2> QED BY <1>1, <1>4, <2>1, <2>2, <2>4, <2>5, <2>6, EditKept DEF SetActive
  <1> QED BY <1>2, <1>3, <1>4

LEMMA ClaimStep ==
    ASSUME SchedInv, NEW p \in Schedulers, Claim(p)
    PROVE  SchedInv'
  <1>1. PICK claimed \in SUBSET (Due \ Locked) :
            txn' = [txn EXCEPT ![p] = [now |-> clock, claimed |-> claimed]]
      BY DEF Claim
  <1>2. UNCHANGED <<clock, rows>>
      BY DEF Claim
  <1>3. txn'[p] = [now |-> clock, claimed |-> claimed] /\ \A q \in Schedulers : q # p => txn'[q] = txn[q]
      BY <1>1 DEF SchedInv, SchedTypeOK
  <1>4. claimed \subseteq DOMAIN rows /\ \A s \in claimed : rows[s].next <= clock
      BY <1>1 DEF Due
  <1>5. SchedTypeOK'
      BY <1>1, <1>2, <1>4 DEF SchedInv, SchedTypeOK
  <1>6. \A q \in Schedulers : claimed \cap txn[q].claimed = {}
      BY <1>1 DEF Locked
  <1>7. Apart'
      BY <1>3, <1>6 DEF SchedInv, Apart
  <1>8. ASSUME NEW q \in Schedulers PROVE Holds(q)'
    <2>1. CASE q = p
        BY <1>2, <1>3, <1>4, <2>1 DEF Holds
    <2>2. CASE q # p
        BY <1>2, <1>3, <2>2 DEF SchedInv, Holds
    <2> QED BY <2>1, <2>2
  <1>9. \A s \in DOMAIN rows' : Waiting(s)'
      BY <1>2 DEF SchedInv, Waiting
  <1> QED BY <1>5, <1>7, <1>8, <1>9 DEF SchedInv

LEMMA AbortStep ==
    ASSUME SchedInv, NEW p \in Schedulers, Abort(p)
    PROVE  SchedInv'
  <1>1. UNCHANGED <<clock, rows>> /\ txn' = [txn EXCEPT ![p] = Idle]
      BY DEF Abort
  <1>2. txn'[p] = Idle /\ \A q \in Schedulers : q # p => txn'[q] = txn[q]
      BY <1>1 DEF SchedInv, SchedTypeOK
  <1>3. SchedTypeOK'
      BY <1>1, MomentsNat DEF SchedInv, SchedTypeOK, Idle
  <1>4. Apart' /\ \A q \in Schedulers : Holds(q)'
      BY <1>1, <1>2 DEF SchedInv, Apart, Holds, Idle
  <1>5. \A s \in DOMAIN rows' : Waiting(s)'
      BY <1>1 DEF SchedInv, Waiting
  <1> QED BY <1>3, <1>4, <1>5 DEF SchedInv

LEMMA CommitStep ==
    ASSUME SchedInv, NEW p \in Schedulers, Commit(p)
    PROVE  SchedInv' /\ \A s \in DOMAIN rows \cap DOMAIN rows' : OneRun(s)
  <1> DEFINE mine == txn[p].claimed
             now == txn[p].now
  <1>1. /\ clock' = clock /\ txn' = [txn EXCEPT ![p] = Idle] /\ mine # {}
        /\ DOMAIN rows' = DOMAIN rows /\ rows' = [s \in DOMAIN rows' |-> rows'[s]]
      BY DEF Commit
  <1>2. txn'[p] = Idle /\ \A q \in Schedulers : q # p => txn'[q] = txn[q]
      BY <1>1 DEF SchedInv, SchedTypeOK
  <1>3. /\ now \in Moments /\ mine \subseteq DOMAIN rows
        /\ \A s \in mine : rows[s].next <= now
      BY <1>1 DEF SchedInv, SchedTypeOK, Holds
  <1>4. ASSUME NEW s \in DOMAIN rows, s \notin mine PROVE rows'[s] = rows[s]
      BY <1>4 DEF Commit
  <1>5. ASSUME NEW s \in mine \ Outdated PROVE Waiting(s)' /\ OneRun(s)
    <2>1. rows'[s] = [rows[s] EXCEPT !.next = catch_up(s, now), !.last = now, !.runs = @ + 1]
        BY <1>3, <1>5 DEF Commit
    <2>2. s \in Schedules /\ Waiting(s) /\ rows[s].next <= now
        BY <1>3, <1>5 DEF SchedInv, SchedTypeOK
    <2>3. catch_up(s, now) \in SlotsOf[s] /\ catch_up(s, now) \in Nat /\ catch_up(s, now) > now
        BY <1>3, <2>2, RowWaits DEF catch_up
    <2>4. rows'[s].next = catch_up(s, now) /\ rows'[s].last = now
        BY <2>1, <2>2 DEF Waiting
    <2>5. Waiting(s)'
      <3>1. now \in Nat
          BY <1>3, MomentsNat
      <3>2. rows[s].runs \in Nat
          BY <2>2 DEF Waiting
      <3>3. rows'[s] = [active |-> rows[s].active, next |-> catch_up(s, now), last |-> now,
                        runs |-> rows[s].runs + 1]
          BY <2>1, <2>2 DEF Waiting
      <3>4. rows[s].runs + 1 \in Nat /\ rows[s].active \in BOOLEAN
          BY <2>2, <3>2 DEF Waiting
      <3>5. rows'[s] \in [active : BOOLEAN, next : Nat, last : Nat, runs : Nat]
          BY <2>3, <3>1, <3>3, <3>4
      <3> QED BY <2>3, <2>4, <3>5 DEF Waiting
    <2>6. OneRun(s)
        BY <2>2, <2>4 DEF OneRun, Waiting
    <2> QED BY <2>5, <2>6
  <1>6. ASSUME NEW s \in mine \cap Outdated PROVE Waiting(s)' /\ OneRun(s)
    <2>1. rows'[s] = [rows[s] EXCEPT !.active = FALSE]
        BY <1>3, <1>6 DEF Commit
    <2>2. Waiting(s)
        BY <1>3, <1>6 DEF SchedInv
    <2>3. Waiting(s)' /\ rows'[s].runs = rows[s].runs /\ rows[s].runs \in Nat
        BY <2>1, <2>2 DEF Waiting
    <2> QED BY <2>3 DEF OneRun
  <1>7. ASSUME NEW s \in DOMAIN rows, s \notin mine PROVE Waiting(s)' /\ OneRun(s)
    <2>1. Waiting(s) /\ rows'[s] = rows[s] /\ rows[s].runs \in Nat
        BY <1>4, <1>7 DEF SchedInv, Waiting
    <2> QED BY <2>1 DEF Waiting, OneRun
  <1>8. SchedTypeOK'
      BY <1>1, MomentsNat DEF SchedInv, SchedTypeOK, Idle
  <1>9. Apart'
      BY <1>2 DEF SchedInv, Apart, Idle
  <1>10. ASSUME NEW q \in Schedulers PROVE Holds(q)'
    <2>1. CASE q = p
        BY <1>2, <2>1 DEF Holds, Idle
    <2>2. CASE q # p
      <3>1. \A s \in txn[q].claimed : s \in DOMAIN rows /\ rows'[s] = rows[s]
          BY <1>4, <2>2 DEF SchedInv, Apart, Holds
      <3> QED BY <1>1, <1>2, <2>2, <3>1 DEF SchedInv, Holds
    <2> QED BY <2>1, <2>2
  <1> QED BY <1>1, <1>5, <1>6, <1>7, <1>8, <1>9, <1>10 DEF SchedInv

LEMMA StillKept ==
    ASSUME SchedInv, UNCHANGED <<rows, txn>>, clock' \in Moments
    PROVE  SchedInv'
  <1>1. SchedTypeOK' /\ Apart'
      BY DEF SchedInv, SchedTypeOK, Apart
  <1>2. \A s \in DOMAIN rows' : Waiting(s)'
      BY DEF SchedInv, Waiting
  <1>3. \A p \in Schedulers : Holds(p)'
      BY DEF SchedInv, Holds
  <1> QED BY <1>1, <1>2, <1>3 DEF SchedInv

LEMMA SameRuns ==
    ASSUME SchedInv, rows' = rows
    PROVE  \A s \in DOMAIN rows \cap DOMAIN rows' : OneRun(s)
  <1>1. ASSUME NEW s \in DOMAIN rows PROVE OneRun(s)
    <2>1. rows[s].runs \in Nat
        BY <1>1 DEF SchedInv, Waiting
    <2> QED BY <2>1 DEF OneRun
  <1> QED BY <1>1

LEMMA SchedInvNext ==
    ASSUME SchedInv, [Next]_vars
    PROVE  SchedInv' /\ \A s \in DOMAIN rows \cap DOMAIN rows' : OneRun(s)
  <1>1. CASE Tick
    <2>1. clock' \in Moments
        BY <1>1, MomentsNat DEF Tick, SchedInv, SchedTypeOK, Moments
    <2> QED BY <1>1, <2>1, StillKept, SameRuns DEF Tick
  <1>2. ASSUME NEW s \in Schedules, Create(s) \/ Delete(s) \/ SetActive(s)
        PROVE  SchedInv' /\ \A x \in DOMAIN rows \cap DOMAIN rows' : OneRun(x)
      BY <1>2, EditStep
  <1>3. ASSUME NEW p \in Schedulers, Claim(p) \/ Abort(p)
        PROVE  SchedInv' /\ \A x \in DOMAIN rows \cap DOMAIN rows' : OneRun(x)
    <2>1. rows' = rows
        BY <1>3 DEF Claim, Abort
    <2> QED BY <1>3, <2>1, ClaimStep, AbortStep, SameRuns
  <1>4. ASSUME NEW p \in Schedulers, Commit(p)
        PROVE  SchedInv' /\ \A x \in DOMAIN rows \cap DOMAIN rows' : OneRun(x)
      BY <1>4, CommitStep
  <1>5. CASE UNCHANGED schedVars
    <2>1. UNCHANGED <<clock, rows, txn>>
        BY <1>5 DEF schedVars
    <2>2. clock' \in Moments
        BY <2>1 DEF SchedInv, SchedTypeOK
    <2> QED BY <2>1, <2>2, StillKept, SameRuns
  <1> QED BY <1>1, <1>2, <1>3, <1>4, <1>5 DEF Next, SchedStep, Quiescent, vars

-----------------------------------------------------------------------------
(* The theorem.                                                            *)

(* NextRunIsNextSlot: at every moment the next run of each plan is the      *)
(* first time its cadence means, in its zone, over changes of the clocks    *)
(* and short months (next_run, schedules.py).                               *)
THEOREM NextRunIsNext == Spec => []NextRunIsNextSlot
  <1>1. Spec => Init /\ [][Next]_vars
      BY PTL DEF Spec
  <1>2. SchedInv /\ [Next]_vars => SchedInv'
      BY SchedInvNext
  <1>3. SchedInv => NextRunIsNextSlot
      BY RightAt DEF SchedInv, SchedTypeOK, NextRunIsNextSlot
  <1> QED BY <1>1, <1>2, <1>3, SchedInvInit, PTL

(* RunPerSlot: fire_due fires a schedule only when a time its cadence means *)
(* has come since its last run, whatever was late, paused, claimed twice or *)
(* rolled back (schedules.py).                                              *)
THEOREM OneRunPerSlot == Spec => RunPerSlot
  <1>1. Spec => Init /\ [][Next]_vars
      BY PTL DEF Spec
  <1>2. SchedInv /\ [Next]_vars => SchedInv'
      BY SchedInvNext
  <1>3. SchedInv /\ [Next]_vars =>
           [\A s \in DOMAIN rows \cap DOMAIN rows' :
                rows'[s].runs > rows[s].runs =>
                    \E t \in SlotsOf[s] : rows[s].last < t /\ t <= rows'[s].last]_schedVars
      BY SchedInvNext DEF OneRun
  <1> QED BY <1>1, <1>2, <1>3, SchedInvInit, PTL DEF RunPerSlot

=============================================================================
