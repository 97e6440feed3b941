----------------------------- MODULE JobService -----------------------------
(***************************************************************************)
(* The seven job services (services/crawl, keyword, serp, internal_links,  *)
(* content, optimizer, competitor).  They share one life cycle: worker.py's*)
(* handle checks for a duplicate, creates the row and calls the run_...    *)
(* function of api.py, which marks the row running, does the work, writes  *)
(* the outcome and stages the completion event in one transaction          *)
(* (shared/db.py).  They differ in what the work reads: the analyses fetch *)
(* reports of other jobs over HTTP (shared/upstream.py).                   *)
(*                                                                         *)
(* A thread is one worker process or one background task of an API; a job  *)
(* is the id the caller chose, and stands for its request event too (the   *)
(* orchestrator stages one request for each job).                          *)
(***************************************************************************)
EXTENDS Naturals, FiniteSets, Sequences

CONSTANTS
    Jobs,       \* job ids, of all the services
    Service,    \* [Jobs -> Services]
    Tenant,     \* [Jobs -> tenants], NoTenant for a job without one
    NoTenant,
    Reads,      \* [Jobs -> Seq(Jobs)]: the reports a job's work fetches, in order
    Workers,    \* worker processes, each the consumer of its service's queue
    ApiTasks,   \* background tasks of the services' HTTP routes
    Serves,     \* [Threads -> Services]
    SeenMax,    \* worker._SEEN_MAX
    Misfits,    \* jobs whose completion payload may break its contract
    MaxExtras,  \* bound: redeliveries
    MaxFaults   \* bound: crashes, handler errors and unreachable services

Engines == {"crawl", "keyword", "serp"}
Analyses == {"links", "content", "optimizer", "competitor"}
Services == Engines \cup Analyses
Threads == Workers \cup ApiTasks

(* How many reports a request names: the own crawl, then a keyword study    *)
(* (optional for a plan), or the crawls of at least one competitor.         *)
ReadCount(s, n) ==
    \/ s \in Engines /\ n = 0
    \/ s = "links" /\ n = 1
    \/ s = "content" /\ n = 2
    \/ s = "optimizer" /\ n \in {1, 2}
    \/ s = "competitor" /\ n >= 2

NoJob == "nojob"
ASSUME JobAssumption ==
    /\ NoJob \notin Jobs
    /\ Service \in [Jobs -> Services]
    /\ Reads \in [Jobs -> Seq(Jobs)]
    /\ \A j \in Jobs : ReadCount(Service[j], Len(Reads[j]))
    /\ Serves \in [Threads -> Services]
    /\ Workers \cap ApiTasks = {}
ASSUME ContractAssumption == Misfits \subseteq Jobs
ASSUME JobBoundAssumption ==
    /\ SeenMax \in Nat \ {0}
    /\ MaxExtras \in Nat
    /\ MaxFaults \in Nat

(* The error column, by what it means to a caller.                          *)
Errors == {"engine", "unknown", "unavailable"}
Terminal == {"completed", "failed"}
Announcements == Terminal \cup {"refused"}

VARIABLES
    row,        \* status of the job's row, "none" before it exists
    error,      \* its error column, "none" when null
    reports,    \* the jobs whose result column is set
    basis,      \* the jobs whose reports a stored report was computed from
    outcomes,   \* for each end of a run of the job, in order: the status its
                \* completion event announced, "refused" when none was staged
    requested,  \* jobs whose request event was staged
    queue,      \* request events on their way to a worker
    dead,       \* request events in the dead-letter queue
    pc, job,    \* where each thread is, and with which job
    read,       \* the position of the report it fetches next
    got,        \* the positions it has reports of
    why,        \* the error it will save, "none" for a success
    seen,       \* worker._seen
    extras,     \* redeliveries so far
    faults      \* faults so far

rows == <<row, error, reports, basis, outcomes>>
bus == <<requested, queue, dead, extras, faults>>
thr == <<pc, job, read, got, why>>
vars == <<rows, bus, thr, seen>>

At(t, l) == pc[t] = l
Goto(t, l) == pc' = [pc EXCEPT ![t] = l] /\ UNCHANGED <<job, read, got, why>>
Start(t, l, j) ==
    /\ pc' = [pc EXCEPT ![t] = l]
    /\ job' = [job EXCEPT ![t] = j]
    /\ UNCHANGED <<read, got, why>>
Return(t) ==
    /\ pc' = [pc EXCEPT ![t] = "idle"]
    /\ job' = [job EXCEPT ![t] = NoJob]
    /\ read' = [read EXCEPT ![t] = 0]
    /\ got' = [got EXCEPT ![t] = {}]
    /\ why' = [why EXCEPT ![t] = "none"]

-----------------------------------------------------------------------------
(* What each service's work does with an answer that is not a report:       *)
(* Fatal says that the n-th answer a ends the run as failed.                *)

(* internal_links.run_analysis and content.run_analysis need every report.  *)
LinksFatal(n, a) == TRUE
ContentFatal(n, a) == TRUE
(* optimizer.source.fetch_research: a plan can do without keywords.         *)
PlanFatal(n, a) == n = 1
(* competitor.run_comparison: a competitor's crawl that is unknown is named *)
(* in the report and left out; any other error is not caught there.         *)
ComparisonFatal(n, a) == n = 1 \/ a = "unavailable"

Fatal(j, n, a) ==
    \/ Service[j] = "links" /\ LinksFatal(n, a)
    \/ Service[j] = "content" /\ ContentFatal(n, a)
    \/ Service[j] = "optimizer" /\ PlanFatal(n, a)
    \/ Service[j] = "competitor" /\ ComparisonFatal(n, a)

(* competitor.analyze raises NoComparison without a competitor's report.    *)
NoComparison(j, reads) == Service[j] = "competitor" /\ reads \subseteq {1}

(* Mutant: the tenant does not travel with the request.                     *)
VisibleToAll(j, s) == row[s] # "none"

(* PostgresJobStore.get with the caller's tenant; none means no filter.     *)
Visible(j, s) ==
    /\ row[s] # "none"
    /\ Tenant[j] # NoTenant => Tenant[s] = Tenant[j]

(* Mutant: a record without a report is an empty report.                    *)
AnswerAnyRecord(j, s) == IF Visible(j, s) THEN "report" ELSE "unknown"

(* upstream.fetch_report, when the sibling service answers at all.          *)
Answer(j, s) ==
    IF ~Visible(j, s) THEN "unknown"
    ELSE IF s \in reports THEN "report" ELSE "unavailable"

-----------------------------------------------------------------------------
(* worker.handle.                                                           *)

(* worker._remember; a job posted over HTTP has no event to remember.       *)
Remember(t) ==
    seen' = [seen EXCEPT ![t] =
                IF job[t] \notin requested THEN @
                ELSE IF Cardinality(@) >= SeenMax THEN {job[t]} ELSE @ \cup {job[t]}]

Receive(t, j) ==
    /\ At(t, "idle")
    /\ j \in queue /\ Service[j] = Serves[t]
    /\ queue' = queue \ {j}
    /\ Start(t, "handle", j)
    /\ UNCHANGED <<rows, requested, dead, extras, faults, seen>>

DropSeen(t) ==
    /\ At(t, "handle")
    /\ job[t] \in seen[t]
    /\ Return(t)
    /\ UNCHANGED <<rows, bus, seen>>

(* Mutant: only a running job is a duplicate.                               *)
KnownRunning(j) == row[j] = "running"

(* "already running" and "already completed" both count as handled.         *)
Known(j) == row[j] \in {"running", "completed"}

SkipKnown(t) ==
    /\ At(t, "handle")
    /\ job[t] \notin seen[t]
    /\ Known(job[t])
    /\ Remember(t) /\ Return(t)
    /\ UNCHANGED <<rows, bus>>

(* The row is only read here: another thread may act before it is written.  *)
Accept(t) ==
    /\ At(t, "handle")
    /\ job[t] \notin seen[t]
    /\ ~Known(job[t])
    /\ Goto(t, IF row[job[t]] = "none" THEN "create" ELSE "mark")
    /\ UNCHANGED <<rows, bus, seen>>

(* PostgresJobStore.create: INSERT ... ON CONFLICT (id) DO NOTHING.         *)
CreateJob(t) ==
    /\ At(t, "create")
    /\ row' = [row EXCEPT ![job[t]] = IF @ = "none" THEN "queued" ELSE @]
    /\ Goto(t, "mark")
    /\ UNCHANGED <<error, reports, basis, outcomes, bus, seen>>

(* The HTTP route: the row is created with a fresh id, the caller gets 202, *)
(* and the run is a background task of this process.                        *)
PostJob(t, j) ==
    /\ At(t, "idle")
    /\ Service[j] = Serves[t]
    /\ row[j] = "none" /\ j \notin requested
    /\ row' = [row EXCEPT ![j] = "queued"]
    /\ Start(t, "mark", j)
    /\ UNCHANGED <<error, reports, basis, outcomes, bus, seen>>

-----------------------------------------------------------------------------
(* run_crawl, run_research, run_check, run_analysis, run_plan,              *)
(* run_comparison.                                                          *)

MarkRunning(t) ==
    /\ At(t, "mark")
    /\ row' = [row EXCEPT ![job[t]] = "running"]
    /\ pc' = [pc EXCEPT ![t] = "work"]
    /\ read' = [read EXCEPT ![t] = 1]
    /\ UNCHANGED <<error, reports, basis, outcomes, bus, job, got, why, seen>>

Reading(t) == At(t, "work") /\ read[t] <= Len(Reads[job[t]])
Source(t) == Reads[job[t]][read[t]]

ReadOn(t) == read' = [read EXCEPT ![t] = @ + 1] /\ UNCHANGED <<pc, job, why>>
Fail(t, a) ==
    /\ pc' = [pc EXCEPT ![t] = "save"]
    /\ why' = [why EXCEPT ![t] = a]
    /\ UNCHANGED <<job, read, got>>

(* Mutant: an error of the fetch is raised past the try block.              *)
WithoutUncaught(t, a) ==
    IF Fatal(job[t], read[t], a) THEN Return(t)
    ELSE ReadOn(t) /\ UNCHANGED got

(* The run goes on with an answer that is not a report, or ends.            *)
Without(t, a) ==
    IF Fatal(job[t], read[t], a)
    THEN Fail(t, a) ELSE ReadOn(t) /\ UNCHANGED got

(* One GET; the reports are fetched one after the other, each as it is then.*)
Fetch(t) ==
    /\ Reading(t)
    /\ IF Answer(job[t], Source(t)) = "report"
       THEN ReadOn(t) /\ got' = [got EXCEPT ![t] = @ \cup {read[t]}]
       ELSE Without(t, Answer(job[t], Source(t)))
    /\ UNCHANGED <<rows, bus, seen>>

(* The sibling service cannot be reached, or answers with an error.         *)
Unreachable(t) ==
    /\ Reading(t)
    /\ faults < MaxFaults
    /\ faults' = faults + 1
    /\ Without(t, "unavailable")
    /\ UNCHANGED <<rows, requested, queue, dead, extras, seen>>

(* The engine or the analysis itself; any exception fails the run.          *)
Compute(t, ok) ==
    /\ At(t, "work")
    /\ read[t] > Len(Reads[job[t]])
    /\ ok => ~NoComparison(job[t], got[t])
    /\ IF ok THEN Goto(t, "save") ELSE Fail(t, "engine")
    /\ UNCHANGED <<rows, bus, seen>>

(* Mutant: the event is left to a later step.                               *)
SaveUnstaged(t, valid) ==
    LET j == job[t] ok == why[t] = "none" IN
    /\ row' = [row EXCEPT ![j] = IF ok THEN "completed" ELSE "failed"]
    /\ error' = [error EXCEPT ![j] = why[t]]
    /\ reports' = IF ok THEN reports \cup {j} ELSE reports
    /\ basis' = IF ok THEN [basis EXCEPT ![j] = {Reads[j][n] : n \in got[t]}] ELSE basis
    /\ UNCHANGED outcomes

(* store.complete or store.fail: a failure leaves an older result in place, *)
(* a completion clears the error; the event is staged in the same commit,   *)
(* unless _publishable finds that its payload breaks the contract: then the *)
(* row ends all the same and nothing is told.                               *)
SaveOutcome(t, valid) ==
    LET j == job[t] ok == why[t] = "none" IN
    /\ row' = [row EXCEPT ![j] = IF ok THEN "completed" ELSE "failed"]
    /\ error' = [error EXCEPT ![j] = why[t]]
    /\ reports' = IF ok THEN reports \cup {j} ELSE reports
    /\ basis' = IF ok THEN [basis EXCEPT ![j] = {Reads[j][n] : n \in got[t]}] ELSE basis
    /\ outcomes' = [outcomes EXCEPT ![j] = Append(@, IF valid THEN row'[j] ELSE "refused")]

Save(t) ==
    /\ At(t, "save")
    /\ \E valid \in BOOLEAN : (valid \/ job[t] \in Misfits) /\ SaveOutcome(t, valid)
    /\ Remember(t) /\ Return(t)
    /\ UNCHANGED bus

-----------------------------------------------------------------------------
(* Faults and the bus.                                                      *)

(* The process dies: its memory is gone and its unacked message returns to  *)
(* the queue; a background task has no message to return.                   *)
Crash(t) ==
    /\ faults < MaxFaults
    /\ faults' = faults + 1
    /\ queue' = queue \cup ({job[t]} \cap requested)
    /\ seen' = [seen EXCEPT ![t] = {}]
    /\ Return(t)
    /\ UNCHANGED <<rows, requested, dead, extras>>

(* A store call of the handler raises: nack without requeueing.             *)
Raise(t) ==
    /\ pc[t] \in {"handle", "create", "mark", "save"}
    /\ faults < MaxFaults
    /\ faults' = faults + 1
    /\ dead' = dead \cup ({job[t]} \cap requested)
    /\ Return(t)
    /\ UNCHANGED <<rows, requested, queue, extras, seen>>

Request(j) ==
    /\ j \notin requested /\ row[j] = "none"
    /\ requested' = requested \cup {j}
    /\ queue' = queue \cup {j}
    /\ UNCHANGED <<rows, dead, extras, faults, thr, seen>>

(* The relay publishes twice, or the broker gives the message out again     *)
(* because a long run kept its worker from answering heartbeats.            *)
Redeliver(j) ==
    /\ j \in requested
    /\ extras < MaxExtras
    /\ extras' = extras + 1
    /\ queue' = queue \cup {j}
    /\ UNCHANGED <<rows, requested, dead, faults, thr, seen>>

-----------------------------------------------------------------------------
Init ==
    /\ row = [j \in Jobs |-> "none"]
    /\ error = [j \in Jobs |-> "none"]
    /\ reports = {}
    /\ basis = [j \in Jobs |-> {}]
    /\ outcomes = [j \in Jobs |-> <<>>]
    /\ requested = {} /\ queue = {} /\ dead = {}
    /\ pc = [t \in Threads |-> "idle"]
    /\ job = [t \in Threads |-> NoJob]
    /\ read = [t \in Threads |-> 0]
    /\ got = [t \in Threads |-> {}]
    /\ why = [t \in Threads |-> "none"]
    /\ seen = [t \in Threads |-> {}]
    /\ extras = 0 /\ faults = 0

ThreadStep(t) ==
    \/ DropSeen(t) \/ SkipKnown(t) \/ Accept(t) \/ CreateJob(t)
    \/ MarkRunning(t) \/ Fetch(t) \/ Compute(t, TRUE) \/ Compute(t, FALSE) \/ Save(t)

Next ==
    \/ \E t \in Threads : ThreadStep(t) \/ Unreachable(t) \/ Crash(t) \/ Raise(t)
    \/ \E t \in Workers, j \in Jobs : Receive(t, j)
    \/ \E t \in ApiTasks, j \in Jobs : PostJob(t, j)
    \/ \E j \in Jobs : Request(j) \/ Redeliver(j)

Spec == Init /\ [][Next]_vars

(* A worker goes on with what it started and consumes its queue.            *)
Fairness ==
    /\ \A t \in Threads : WF_vars(ThreadStep(t))
    /\ \A t \in Workers : WF_vars(\E j \in Jobs : Receive(t, j))

FairSpec == Spec /\ Fairness

-----------------------------------------------------------------------------
(* Properties.                                                              *)

RowTypeOK ==
    /\ row \in [Jobs -> {"none", "queued", "running"} \cup Terminal]
    /\ error \in [Jobs -> Errors \cup {"none"}]
    /\ reports \subseteq Jobs
    /\ basis \in [Jobs -> SUBSET Jobs]
    /\ outcomes \in [Jobs -> Seq(Announcements)]

BusTypeOK ==
    /\ requested \subseteq Jobs
    /\ queue \subseteq requested
    /\ dead \subseteq requested
    /\ extras \in 0..MaxExtras
    /\ faults \in 0..MaxFaults

ThreadTypeOK ==
    /\ seen \in [Threads -> SUBSET Jobs]
    /\ pc \in [Threads -> {"idle", "handle", "create", "mark", "work", "save"}]
    /\ job \in [Threads -> Jobs \cup {NoJob}]
    /\ read \in [Threads -> Nat]
    /\ got \in [Threads -> SUBSET Nat]
    /\ why \in [Threads -> Errors \cup {"none"}]
    /\ \A t \in Threads :
          /\ At(t, "idle") => job[t] = NoJob
          /\ pc[t] \notin {"work", "save"} => read[t] = 0 /\ got[t] = {} /\ why[t] = "none"
          /\ At(t, "work") => read[t] > 0 /\ why[t] = "none"
          /\ ~At(t, "idle") =>
                /\ job[t] \in Jobs
                /\ Service[job[t]] = Serves[t]
                /\ job[t] \in requested <=> t \in Workers
                /\ got[t] \subseteq 1..Len(Reads[job[t]])
                /\ read[t] <= Len(Reads[job[t]]) + 1

(* Every variable stays in its set; what waits or is parked was requested;  *)
(* a thread reads no further than its request goes and holds a job of its   *)
(* own service, an API task only one that is not on the bus.                *)
TypeOK == RowTypeOK /\ BusTypeOK /\ ThreadTypeOK

(* The transactional outbox of shared.db: the status of a row and the last  *)
(* completion event staged for it always agree, unless the contract refused *)
(* the event of that very end, and a job that never ended announced nothing.*)
(* A crash, a lost race or a rerun cannot separate them: the refusal by     *)
(* _publishable is the only way a finished row goes unannounced.            *)
OutcomeAnnounced ==
    \A j \in Jobs :
        /\ row[j] \in {"none", "queued"} => outcomes[j] = <<>>
        /\ row[j] \in Terminal =>
              /\ outcomes[j] # <<>>
              /\ outcomes[j][Len(outcomes[j])] \in {row[j], "refused"}
              /\ error[j] = "none" <=> row[j] = "completed"

(* shared/upstream.py, "The tenant travels with every request": no report   *)
(* of a tenant is ever computed from another tenant's report.               *)
TenantIsolation ==
    \A j \in reports : \A s \in basis[j] : Tenant[j] # NoTenant => Tenant[s] = Tenant[j]

(* What a stored report rests on: reports that exist, the own crawl first,  *)
(* for content the keyword study too, for a comparison at least one         *)
(* competitor's crawl.  None rests on a job that had not finished.          *)
BasisComplete ==
    \A j \in reports :
        /\ basis[j] \subseteq reports
        /\ Service[j] \in Analyses => Reads[j][1] \in basis[j]
        /\ Service[j] = "content" => Reads[j][2] \in basis[j]
        /\ Service[j] = "competitor" => \E n \in 2..Len(Reads[j]) : Reads[j][n] \in basis[j]

(* With one worker for each service, a row has a report exactly while it is *)
(* completed: no duplicate delivery reruns a job that produced one, and no  *)
(* failure keeps one.                                                       *)
ReportIffCompleted == \A j \in Jobs : j \in reports <=> row[j] = "completed"

(* Without faults a row that says running has a thread at work on it.       *)
RunningHasRunner ==
    faults = 0 => \A j \in Jobs : row[j] = "running" =>
        \E t \in Threads : job[t] = j /\ pc[t] \in {"work", "save"}

CompletedKept ==
    \A j \in Jobs : row[j] = "completed" =>
        row'[j] = "completed" /\ outcomes'[j] = outcomes[j] /\ basis'[j] = basis[j]

(* crawl/worker.py:27, a redelivered request does not "re-run a crawl that  *)
(* already ran": a completed job is final and is announced once.            *)
CompletedStays == [][CompletedKept]_vars

(* Under FairSpec and without faults, every job that is requested over the  *)
(* bus or over HTTP ends, whatever the contract says of its event.          *)
EveryJobEnds ==
    \A j \in Jobs : j \in requested \/ row[j] # "none" ~> row[j] \in Terminal

(* services/crawl/api.py:170: no status write "would leave the crawl stuck  *)
(* as "running"".  A message in the dead-letter queue is an operator's.     *)
NeverStuck ==
    \A j \in Jobs : j \in requested /\ row[j] = "running" ~> row[j] \in Terminal \/ dead # {}

=============================================================================
