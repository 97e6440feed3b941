CONSTANTS
    TicksPerHour = 2
    HoursPerDay = 3
    DaysPerWeek = 3
    MonthLengths <- Months
    Offset <- Summer
    Horizon = 54
    Schedules = {"d0", "d1", "w1", "m3", "night", "old"}
    Plan <- Plans
    Outdated = {"old"}
    Schedulers = {"s1", "s2"}
    Batch = 1
    MaxClock = 18
    MaxAborts = 1
    MaxEdits = 2
    Ids = {"r0", "r1", "r2", "r3", "r4"}
    Workers = {"w1", "w2"}
    RecentLimit = 2
    SeenMax = 1
    MaxFaults = 1
    MaxExtras = 1
    MaxCalls = 2
    Manual <- ByHand
    Starts <- FirstStates
SPECIFICATION Spec
ACTION_CONSTRAINT Quiet
INVARIANTS NextRunIsNextSlot  FinishedHasDocument LinkWorks
PROPERTIES RunPerSlot DueFires
