---------------------------- MODULE Orchestrator ----------------------------
(***************************************************************************)
(* The workflow state machine of agents/orchestrator: planner.py decides   *)
(* the steps of a site audit, engine.py dispatches one step, waits for its *)
(* completion event and advances, store.py keeps workflows and their steps *)
(* in Postgres, worker.py handles the events.                              *)
(*                                                                         *)
(* An instance is one thread running a handler: a worker process (its      *)
(* consumer is single-threaded) or a background task of the API.  Every    *)
(* database transaction of a handler is one action, so a crash, an error   *)
(* or another instance can come between any two of them.                   *)
(*                                                                         *)
(* The bus is at-least-once: a staged event arrives some time later, in    *)
(* any order, may arrive again, and goes back to the queue when the process *)
(* holding it dies before its ack.  A lost connection (the broker requeues *)
(* while the handler goes on, whose ack then kills the process) is a       *)
(* Redeliver followed by a Crash.                                          *)
(***************************************************************************)
EXTENDS Naturals, FiniteSets

CONSTANTS
    Workflows,      \* workflow ids
    Instances,      \* handler threads, of any number of orchestrator processes
    InputSet,       \* what a caller may ask for, see Inputs
    MaxRivals,      \* planner.MAX_COMPETITORS
    SeenMax,        \* worker._SEEN_MAX
    MaxExtras,      \* bound: redeliveries, reruns of a job and completions nobody awaits
    MaxFaults       \* bound: crashes and handler errors

OwnKinds == {"crawl", "keyword_research", "serp_check", "link_analysis",
             "content_analysis", "optimizer_plan"}
RivalKinds == {"competitor_crawl", "competitor_check"}
Kinds == OwnKinds \cup RivalKinds

(* rivals: how many competitor urls survive planner.competitors;           *)
(* plannable: planner.plan accepts the inputs (a start_url is there);      *)
(* refused: the kinds whose dispatch raises, because no seed or no domain  *)
(* can be derived or because the request breaks its event contract.        *)
Inputs == [rivals: 0..MaxRivals, plannable: BOOLEAN, refused: SUBSET Kinds]

ASSUME InputAssumption == InputSet \subseteq Inputs
ASSUME BoundAssumption ==
    /\ MaxRivals \in Nat
    /\ SeenMax \in Nat \ {0}
    /\ MaxExtras \in Nat
    /\ MaxFaults \in Nat

BaseLength == 6
Slots == 1..(BaseLength + MaxRivals + 1)

StepStatus == {"pending", "dispatched", "completed", "failed", "skipped"}
Terminal == {"completed", "failed"}
WorkflowStatus == {"none", "queued", "running"} \cup Terminal

(* Events the orchestrator consumes.  A completion carries its job, which  *)
(* is a step of a workflow or NoStep (a crawl started through the crawl    *)
(* API); n is the run that produced it, keywords whether its top_keywords  *)
(* yield a term to rank-check.  "posted" is a request made over HTTP, which*)
(* is a handler's work but never a message.                                *)
NoStep == <<>>
Jobs == Workflows \X Slots
Requested(w) == [type |-> "requested", wf |-> w]
Posted(w) == [type |-> "posted", wf |-> w]
Finished(w) == [type |-> "finished", wf |-> w]
Done(j, n, ok, kw) == [type |-> "done", job |-> j, n |-> n, ok |-> ok, keywords |-> kw]

RequestedEvents == {Requested(w) : w \in Workflows}
PostedRequests == {Posted(w) : w \in Workflows}
FinishedEvents == {Finished(w) : w \in Workflows}
StepEvents == {Done(j, n, ok, kw) : j \in Jobs, n \in 1..(1 + MaxExtras), ok \in BOOLEAN, kw \in BOOLEAN}
StrayEvents == {Done(NoStep, 1, TRUE, FALSE)}
Events == RequestedEvents \cup FinishedEvents \cup StepEvents \cup StrayEvents
NoEvent == [type |-> "none"]

VARIABLES
    inputs,     \* [Workflows -> InputSet]: what each caller asked for
    wf,         \* workflows.status, "none" before the row exists
    step,       \* workflow_steps.status by workflow and position, "absent" without a row
    result,     \* workflow_steps.result: "none", "bare", or "keywords"
    requests,   \* how many request events were staged for each step's job
    announced,  \* how many workflow.completed events were staged
    report,     \* the step statuses the stored report shows, NoReport before it exists
    summary,    \* source of the report's summary: "none", "rules" or "ai"
    runs,       \* how many runs of a step's job a service has finished
    staged,     \* events ever committed for the orchestrator to consume
    queue,      \* those on their way to it: in the outbox or in orchestrator.events
    dead,       \* events parked in the dead-letter queue
    inst,       \* each instance's program counter and the event it handles
    seen,       \* worker._seen of each instance
    extras,     \* redeliveries, reruns and stray completions so far
    faults      \* crashes and handler errors so far

store == <<wf, step, result, requests, announced, report, summary>>
bus == <<runs, staged, queue, dead, extras, faults>>
vars == <<inputs, store, bus, inst, seen>>

NoReport == [p \in {} |-> "none"]
Idle == [pc |-> "idle", ev |-> NoEvent]

-----------------------------------------------------------------------------
(* The plan: planner._site_audit.  Six fixed steps, then one crawl for each *)
(* competitor and, if there are any, the comparison.                        *)

BaseKind == <<"crawl", "keyword_research", "serp_check", "link_analysis",
              "content_analysis", "optimizer_plan">>
Rivals(w) == inputs[w].rivals
PlanLength(w) == IF Rivals(w) = 0 THEN BaseLength ELSE BaseLength + Rivals(w) + 1
Kind(w, p) ==
    IF p <= BaseLength THEN BaseKind[p]
    ELSE IF p <= BaseLength + Rivals(w) THEN "competitor_crawl"
    ELSE "competitor_check"
Plan(w) == [p \in Slots |-> IF p <= PlanLength(w) THEN "pending" ELSE "absent"]

(* Mutant: no kind is optional.                                             *)
NoOptionalKinds == {}

(* engine.OPTIONAL_KINDS: a failure of one of these is not the audit's.     *)
OptionalKinds == {"competitor_crawl"}

-----------------------------------------------------------------------------
(* What the state machine reads, as functions of the step rows s.           *)

(* Mutants: only a failed crawl is fatal; the rows are read without their   *)
(* ORDER BY position.                                                       *)
FatalCrawlOnly(w, s) == s[1] = "failed"
AnyPending(s, p) == s[p] = "pending"

Fatal(w, s) == \E p \in Slots : s[p] = "failed" /\ Kind(w, p) \notin OptionalKinds
InFlight(s) == \E p \in Slots : s[p] = "dispatched"
NextPending(s, p) == s[p] = "pending" /\ \A q \in 1..(p - 1) : s[q] # "pending"
NonePending(s) == \A p \in Slots : s[p] # "pending"

HasResult(w, k) == \E p \in Slots : Kind(w, p) = k /\ result[w][p] # "none"
ResearchFound(w) ==
    \E p \in Slots : Kind(w, p) = "keyword_research" /\ result[w][p] = "keywords"
RivalCrawled(w, s) ==
    \E p \in Slots : Kind(w, p) = "competitor_crawl" /\ s[p] = "completed"

(* engine.NoWorkToDo: the step has nothing to act on.                       *)
NoWorkToDo(w, s, k) ==
    \/ k = "serp_check" /\ ~ResearchFound(w)
    \/ k \in {"link_analysis", "content_analysis", "optimizer_plan", "competitor_check"}
       /\ ~HasResult(w, "crawl")
    \/ k = "content_analysis" /\ ~HasResult(w, "keyword_research")
    \/ k = "competitor_check" /\ ~RivalCrawled(w, s)

(* Any other exception while the request event is built or validated.       *)
Refused(w, k) == k \in inputs[w].refused
CanDispatch(w, s, k) == ~NoWorkToDo(w, s, k) /\ ~Refused(w, k)

(* shared/contracts/events/workflow.completed.json lists the kinds a step   *)
(* of the event may have; validate_event refuses the payload otherwise.     *)
ContractKinds == OwnKinds
ContractAccepts(w) == \A p \in 1..PlanLength(w) : Kind(w, p) \in ContractKinds

-----------------------------------------------------------------------------
(* engine.advance, one transaction under the workflow's row lock.           *)

(* shared.db._stage: events go out with the transaction, or not at all.     *)
Stage(E) == staged' = staged \cup E /\ queue' = queue \cup E

(* Mutant: the payload is not validated against its contract.               *)
FinishUnvalidated(w, s, status) ==
    /\ wf' = [wf EXCEPT ![w] = status]
    /\ step' = [step EXCEPT ![w] = s]
    /\ report' = [report EXCEPT ![w] = s]
    /\ summary' = [summary EXCEPT ![w] = "rules"]
    /\ announced' = [announced EXCEPT ![w] = @ + 1]
    /\ Stage({Finished(w)})
    /\ UNCHANGED <<result, requests>>

(* engine._finish: report, event and status in one commit, from the rows s. *)
(* A payload the contract refuses is logged and not staged.                 *)
Finish(w, s, status) ==
    /\ wf' = [wf EXCEPT ![w] = status]
    /\ step' = [step EXCEPT ![w] = s]
    /\ report' = [report EXCEPT ![w] = s]
    /\ summary' = [summary EXCEPT ![w] = "rules"]
    /\ announced' = [announced EXCEPT ![w] = @ + (IF ContractAccepts(w) THEN 1 ELSE 0)]
    /\ Stage(IF ContractAccepts(w) THEN {Finished(w)} ELSE {})
    /\ UNCHANGED <<result, requests>>

(* Mutant: the request is staged and mark_dispatched forgotten.             *)
DispatchUnmarked(w, s, p) ==
    /\ wf' = [wf EXCEPT ![w] = "running"]
    /\ step' = [step EXCEPT ![w] = s]
    /\ requests' = [requests EXCEPT ![w][p] = @ + 1]
    /\ UNCHANGED <<result, announced, report, summary, staged, queue>>

(* The request is staged and the step marked in the same commit.            *)
Dispatch(w, s, p) ==
    /\ wf' = [wf EXCEPT ![w] = "running"]
    /\ step' = [step EXCEPT ![w] = [s EXCEPT ![p] = "dispatched"]]
    /\ requests' = [requests EXCEPT ![w][p] = @ + 1]
    /\ UNCHANGED <<result, announced, report, summary, staged, queue>>

(* Mutant: a skipped step returns as if an event were to follow.            *)
SkipOnly(w, p) ==
    /\ step' = [step EXCEPT ![w][p] = "skipped"]
    /\ UNCHANGED <<wf, result, requests, announced, report, summary, staged, queue>>

(* A step with nothing to do is skipped and the next one tried, once; any   *)
(* exception of that second attempt, NoWorkToDo included, fails the audit.  *)
SkipThenTry(w, p) ==
    LET s == [step[w] EXCEPT ![p] = "skipped"] IN
    IF NonePending(s) THEN Finish(w, s, "completed")
    ELSE \E q \in Slots :
            /\ NextPending(s, q)
            /\ IF CanDispatch(w, s, Kind(w, q)) THEN Dispatch(w, s, q)
               ELSE Finish(w, s, "failed")

TryStep(w, p) ==
    IF NoWorkToDo(w, step[w], Kind(w, p)) THEN SkipThenTry(w, p)
    ELSE IF Refused(w, Kind(w, p)) THEN Finish(w, step[w], "failed")
    ELSE Dispatch(w, step[w], p)

AdvanceTx(w) ==
    IF wf[w] = "none" \/ wf[w] \in Terminal THEN UNCHANGED <<store, staged, queue>>
    ELSE IF Fatal(w, step[w]) THEN Finish(w, step[w], "failed")
    ELSE IF InFlight(step[w]) THEN UNCHANGED <<store, staged, queue>>
    ELSE IF NonePending(step[w]) THEN Finish(w, step[w], "completed")
    ELSE \E p \in Slots : NextPending(step[w], p) /\ TryStep(w, p)

-----------------------------------------------------------------------------
(* The handlers: worker.handle, engine.start, engine.on_completion.         *)

At(i, pc) == inst[i].pc = pc
Goto(i, pc) == inst' = [inst EXCEPT ![i].pc = pc]
WorkflowOf(i) == IF inst[i].ev.type = "done" THEN inst[i].ev.job[1] ELSE inst[i].ev.wf

(* worker._remember: a full set is emptied before the id is added.          *)
Remember(i) ==
    seen' = [seen EXCEPT ![i] =
                IF inst[i].ev \notin Events THEN @
                ELSE IF Cardinality(@) >= SeenMax THEN {inst[i].ev} ELSE @ \cup {inst[i].ev}]
Return(i) == inst' = [inst EXCEPT ![i] = Idle]

(* api.create_workflow: the plan is tried first, so an unplannable request  *)
(* is a 422 and nothing else; run_workflow then calls engine.start.         *)
PostWorkflow(i, w) ==
    /\ At(i, "idle")
    /\ wf[w] = "none" /\ Requested(w) \notin staged
    /\ \A j \in Instances : inst[j].ev # Posted(w)
    /\ inputs[w].plannable
    /\ inst' = [inst EXCEPT ![i] = [pc |-> "create", ev |-> Posted(w)]]
    /\ UNCHANGED <<inputs, store, bus, seen>>

(* The broker hands a message to an idle consumer.                          *)
Receive(i, e) ==
    /\ At(i, "idle")
    /\ e \in queue
    /\ queue' = queue \ {e}
    /\ inst' = [inst EXCEPT ![i] = [pc |-> "handle", ev |-> e]]
    /\ UNCHANGED <<inputs, store, runs, staged, dead, extras, faults, seen>>

(* worker.handle: an id this process remembers is acked at once.            *)
DropSeen(i) ==
    /\ At(i, "handle")
    /\ inst[i].ev \in seen[i]
    /\ Return(i)
    /\ UNCHANGED <<inputs, store, bus, seen>>

Handling(i, type) ==
    /\ At(i, "handle")
    /\ inst[i].ev.type = type
    /\ inst[i].ev \notin seen[i]

(* worker._start: a workflow that exists already is skipped; planner.plan   *)
(* raises on inputs it cannot plan, which dead-letters the message.         *)
StartExisting(i) ==
    /\ Handling(i, "requested")
    /\ wf[WorkflowOf(i)] # "none"
    /\ Remember(i) /\ Return(i)
    /\ UNCHANGED <<inputs, store, bus>>

StartUnplannable(i) ==
    /\ Handling(i, "requested")
    /\ wf[WorkflowOf(i)] = "none"
    /\ ~inputs[WorkflowOf(i)].plannable
    /\ dead' = dead \cup {inst[i].ev}
    /\ Return(i)
    /\ UNCHANGED <<inputs, store, runs, staged, queue, extras, faults, seen>>

StartPlanned(i) ==
    /\ Handling(i, "requested")
    /\ wf[WorkflowOf(i)] = "none"
    /\ inputs[WorkflowOf(i)].plannable
    /\ Goto(i, "create")
    /\ UNCHANGED <<inputs, store, bus, seen>>

(* Mutant: the insert is an upsert.                                         *)
CreateUpsert(i) ==
    /\ At(i, "create")
    /\ wf' = [wf EXCEPT ![WorkflowOf(i)] = "queued"]
    /\ step' = [step EXCEPT ![WorkflowOf(i)] = Plan(WorkflowOf(i))]
    /\ Goto(i, "setrunning")
    /\ UNCHANGED <<inputs, result, requests, announced, report, summary, bus, seen>>

(* store.create: the workflow and its whole plan, in one transaction.       *)
Create(i) ==
    /\ At(i, "create")
    /\ wf[WorkflowOf(i)] = "none"
    /\ wf' = [wf EXCEPT ![WorkflowOf(i)] = "queued"]
    /\ step' = [step EXCEPT ![WorkflowOf(i)] = Plan(WorkflowOf(i))]
    /\ Goto(i, "setrunning")
    /\ UNCHANGED <<inputs, result, requests, announced, report, summary, bus, seen>>

(* The primary key refuses a second row: the handler raises and the message *)
(* is dead-lettered.                                                        *)
CreateConflict(i) ==
    /\ At(i, "create")
    /\ wf[WorkflowOf(i)] # "none"
    /\ dead' = dead \cup ({inst[i].ev} \cap Events)
    /\ Return(i)
    /\ UNCHANGED <<inputs, store, runs, staged, queue, extras, faults, seen>>

(* engine.start: set_status "running", unconditionally.                     *)
SetRunning(i) ==
    /\ At(i, "setrunning")
    /\ wf' = [wf EXCEPT ![WorkflowOf(i)] = "running"]
    /\ Goto(i, "advance")
    /\ UNCHANGED <<inputs, step, result, requests, announced, report, summary, bus, seen>>

(* Mutant: mark_step without AND status = 'dispatched'.                     *)
MatchesAnyStatus(e) == e.job # NoStep

(* engine.on_completion, first transaction: store.mark_step updates the     *)
(* step only while it is dispatched.                                        *)
Matches(e) == e.job # NoStep /\ step[e.job[1]][e.job[2]] = "dispatched"

(* Mutant: the status of the event is not passed on to mark_step.           *)
MarkCompleted(i) ==
    /\ Handling(i, "done")
    /\ Matches(inst[i].ev)
    /\ LET e == inst[i].ev IN
        /\ step' = [step EXCEPT ![e.job[1]][e.job[2]] = "completed"]
        /\ result' = [result EXCEPT ![e.job[1]][e.job[2]] = IF e.keywords THEN "keywords" ELSE "bare"]
    /\ Goto(i, "advance")
    /\ UNCHANGED <<inputs, wf, requests, announced, report, summary, bus, seen>>

MarkStep(i) ==
    /\ Handling(i, "done")
    /\ Matches(inst[i].ev)
    /\ LET e == inst[i].ev IN
        /\ step' = [step EXCEPT ![e.job[1]][e.job[2]] = IF e.ok THEN "completed" ELSE "failed"]
        /\ result' = [result EXCEPT ![e.job[1]][e.job[2]] = IF e.keywords THEN "keywords" ELSE "bare"]
    /\ Goto(i, "advance")
    /\ UNCHANGED <<inputs, wf, requests, announced, report, summary, bus, seen>>

(* Mutant: a completion that matches no step is an error.                   *)
RejectCompletion(i) ==
    /\ Handling(i, "done")
    /\ ~Matches(inst[i].ev)
    /\ dead' = dead \cup {inst[i].ev}
    /\ Return(i)
    /\ UNCHANGED <<inputs, store, runs, staged, queue, extras, faults, seen>>

IgnoreCompletion(i) ==
    /\ Handling(i, "done")
    /\ ~Matches(inst[i].ev)
    /\ Remember(i) /\ Return(i)
    /\ UNCHANGED <<inputs, store, bus>>

(* Second transaction of start and on_completion, then remember and ack.    *)
Advance(i) ==
    /\ At(i, "advance")
    /\ AdvanceTx(WorkflowOf(i))
    /\ Remember(i) /\ Return(i)
    /\ UNCHANGED <<inputs, runs, dead, extras, faults>>

(* worker._summarise: read the report, ask the model with no lock held,     *)
(* then store.save_summary, which only touches a finished workflow.         *)
SummaryDone(i) ==
    /\ Handling(i, "finished")
    /\ summary[WorkflowOf(i)] = "ai"
    /\ Remember(i) /\ Return(i)
    /\ UNCHANGED <<inputs, store, bus>>

AskModel(i) ==
    /\ Handling(i, "finished")
    /\ summary[WorkflowOf(i)] # "ai"
    /\ Goto(i, "enrich")
    /\ UNCHANGED <<inputs, store, bus, seen>>

KeepRules(i) ==
    /\ At(i, "enrich")
    /\ Remember(i) /\ Return(i)
    /\ UNCHANGED <<inputs, store, bus>>

SaveSummary(i) ==
    /\ At(i, "enrich")
    /\ summary' = [summary EXCEPT ![WorkflowOf(i)] =
                      IF wf[WorkflowOf(i)] \in Terminal THEN "ai" ELSE @]
    /\ Remember(i) /\ Return(i)
    /\ UNCHANGED <<inputs, wf, step, result, requests, announced, report, bus>>

-----------------------------------------------------------------------------
(* Faults, and the rest of the platform as the orchestrator sees it.        *)

(* The process dies: its transaction rolls back, its memory is gone, and an *)
(* unacked message returns to the queue.                                    *)
Crash(i) ==
    /\ faults < MaxFaults
    /\ faults' = faults + 1
    /\ queue' = queue \cup ({inst[i].ev} \cap Events)
    /\ seen' = [seen EXCEPT ![i] = {}]
    /\ Return(i)
    /\ UNCHANGED <<inputs, store, runs, staged, dead, extras>>

(* A handler raises (the database or the broker fails it): Consumer nacks   *)
(* without requeueing, so the message is dead-lettered.                     *)
Raise(i) ==
    /\ ~At(i, "idle")
    /\ faults < MaxFaults
    /\ faults' = faults + 1
    /\ dead' = dead \cup ({inst[i].ev} \cap Events)
    /\ Return(i)
    /\ UNCHANGED <<inputs, store, runs, staged, queue, extras, seen>>

(* The scheduler or the gateway stages a workflow.requested.                *)
RequestWorkflow(w) ==
    /\ wf[w] = "none" /\ Requested(w) \notin staged
    /\ \A j \in Instances : inst[j].ev # Posted(w)
    /\ Stage({Requested(w)})
    /\ UNCHANGED <<inputs, store, runs, dead, extras, faults, inst, seen>>

(* A service finishes a requested job, and may run it again when its own    *)
(* request is redelivered.  Only research that succeeded reports keywords.  *)
ServiceFinishes(w, p, ok, kw) ==
    /\ requests[w][p] > 0
    /\ kw => ok /\ Kind(w, p) = "keyword_research"
    /\ runs[w][p] > 0 => extras < MaxExtras
    /\ extras' = IF runs[w][p] > 0 THEN extras + 1 ELSE extras
    /\ runs' = [runs EXCEPT ![w][p] = @ + 1]
    /\ Stage({Done(<<w, p>>, runs[w][p] + 1, ok, kw)})
    /\ UNCHANGED <<inputs, store, dead, faults, inst, seen>>

(* A crawl no workflow asked for completes.                                 *)
StrayFinishes ==
    /\ extras < MaxExtras
    /\ ~(StrayEvents \subseteq staged)
    /\ extras' = extras + 1
    /\ Stage(StrayEvents)
    /\ UNCHANGED <<inputs, store, runs, dead, faults, inst, seen>>

(* The relay publishes an event again, or the broker delivers it again.     *)
Redeliver(e) ==
    /\ e \in staged
    /\ extras < MaxExtras
    /\ extras' = extras + 1
    /\ queue' = queue \cup {e}
    /\ UNCHANGED <<inputs, store, runs, staged, dead, faults, inst, seen>>

-----------------------------------------------------------------------------
Init ==
    /\ inputs \in [Workflows -> InputSet]
    /\ wf = [w \in Workflows |-> "none"]
    /\ step = [w \in Workflows |-> [p \in Slots |-> "absent"]]
    /\ result = [w \in Workflows |-> [p \in Slots |-> "none"]]
    /\ requests = [w \in Workflows |-> [p \in Slots |-> 0]]
    /\ announced = [w \in Workflows |-> 0]
    /\ report = [w \in Workflows |-> NoReport]
    /\ summary = [w \in Workflows |-> "none"]
    /\ runs = [w \in Workflows |-> [p \in Slots |-> 0]]
    /\ staged = {} /\ queue = {} /\ dead = {}
    /\ inst = [i \in Instances |-> Idle]
    /\ seen = [i \in Instances |-> {}]
    /\ extras = 0 /\ faults = 0

HandlerStep(i) ==
    \/ DropSeen(i) \/ StartExisting(i) \/ StartUnplannable(i) \/ StartPlanned(i)
    \/ Create(i) \/ CreateConflict(i) \/ SetRunning(i)
    \/ MarkStep(i) \/ IgnoreCompletion(i) \/ Advance(i)
    \/ SummaryDone(i) \/ AskModel(i) \/ KeepRules(i) \/ SaveSummary(i)

Next ==
    \/ \E i \in Instances : HandlerStep(i) \/ Crash(i) \/ Raise(i)
    \/ \E i \in Instances, w \in Workflows : PostWorkflow(i, w)
    \/ \E i \in Instances : \E e \in queue : Receive(i, e)
    \/ \E w \in Workflows : RequestWorkflow(w)
    \/ \E w \in Workflows, p \in Slots, ok \in BOOLEAN, kw \in BOOLEAN :
            ServiceFinishes(w, p, ok, kw)
    \/ StrayFinishes
    \/ \E e \in staged : Redeliver(e)

Spec == Init /\ [][Next]_vars

(* The scheduling a healthy platform gives: the relay and the broker deliver *)
(* what is staged, a handler that started goes on, and a service answers     *)
(* every job it is asked for.  Nothing makes a fault or a duplicate happen.  *)
Fairness ==
    /\ \A i \in Instances : WF_vars(HandlerStep(i))
    /\ WF_vars(\E i \in Instances, e \in queue : Receive(i, e))
    /\ WF_vars(\E w \in Workflows, p \in Slots : runs[w][p] = 0 /\
                  \E ok \in BOOLEAN, kw \in BOOLEAN : ServiceFinishes(w, p, ok, kw))

FairSpec == Spec /\ Fairness

-----------------------------------------------------------------------------
(* Properties.                                                               *)

Settled == {"completed", "failed", "skipped"}
Busy(i, w) == inst[i].pc \in {"setrunning", "advance"} /\ WorkflowOf(i) = w

StoreTypeOK ==
    /\ inputs \in [Workflows -> InputSet]
    /\ wf \in [Workflows -> WorkflowStatus]
    /\ step \in [Workflows -> [Slots -> StepStatus \cup {"absent"}]]
    /\ result \in [Workflows -> [Slots -> {"none", "bare", "keywords"}]]
    /\ requests \in [Workflows -> [Slots -> Nat]]
    /\ announced \in [Workflows -> Nat]
    /\ report \in [Workflows -> [Slots -> StepStatus \cup {"absent"}] \cup {NoReport}]
    /\ summary \in [Workflows -> {"none", "rules", "ai"}]

BusTypeOK ==
    /\ runs \in [Workflows -> [Slots -> Nat]]
    /\ \A w \in Workflows, p \in Slots : runs[w][p] <= 1 + extras
    /\ staged \subseteq Events
    /\ queue \subseteq staged
    /\ dead \subseteq staged
    /\ extras \in 0..MaxExtras
    /\ faults \in 0..MaxFaults

(* What an instance can hold at each program counter.                        *)
Starting == RequestedEvents \cup PostedRequests
InstTypeOK ==
    /\ inst \in [Instances -> [pc: {"idle", "handle", "create", "setrunning", "advance", "enrich"},
                               ev: Events \cup PostedRequests \cup {NoEvent}]]
    /\ \A i \in Instances :
          /\ At(i, "idle") <=> inst[i].ev = NoEvent
          /\ At(i, "handle") => inst[i].ev \in Events
          /\ At(i, "create") \/ At(i, "setrunning") => inst[i].ev \in Starting
          /\ At(i, "advance") => inst[i].ev \in Starting \cup StepEvents
          /\ At(i, "enrich") => inst[i].ev \in FinishedEvents
          /\ inst[i].ev \in Events => inst[i].ev \in staged
    /\ seen \in [Instances -> SUBSET Events]

(* Every variable stays in its set; what is on its way, held or parked was   *)
(* staged by a committed transaction; a report is a whole row of statuses.   *)
TypeOK == StoreTypeOK /\ BusTypeOK /\ InstTypeOK

(* engine.advance, "is what would let two instances both see the same        *)
(* pending step and dispatch it twice": a workflow has at most one step in   *)
(* flight, everything before it is settled and everything after it untouched,*)
(* whatever is delivered twice, late or to whom.                             *)
OneInFlight ==
    \A w \in Workflows, p \in Slots : step[w][p] = "dispatched" =>
        /\ wf[w] = "running"
        /\ \A q \in Slots :
              /\ q < p => step[w][q] \in Settled
              /\ q > p => step[w][q] \in {"pending", "absent"}

(* The transactional outbox of advance: a job is requested exactly once, in  *)
(* the commit that makes its step dispatched; a pending or skipped step was  *)
(* never requested.  No crash, redelivery or rerun changes that.             *)
RequestedOnce ==
    \A w \in Workflows, p \in Slots :
        requests[w][p] = IF step[w][p] \in {"dispatched", "completed", "failed"} THEN 1 ELSE 0

(* engine._finish: workflow.completed is staged once, with the terminal      *)
(* status, and only for a payload its contract accepts.                      *)
AnnouncedOnce ==
    \A w \in Workflows :
        announced[w] = IF wf[w] \in Terminal /\ ContractAccepts(w) THEN 1 ELSE 0

(* engine._finish builds report and event from the rows read under the lock: *)
(* the stored report of a finished audit never disagrees with its steps, not *)
(* even after a completion that came late.                                   *)
ReportMatchesSteps ==
    \A w \in Workflows :
        IF wf[w] \in Terminal THEN report[w] = step[w] /\ summary[w] # "none"
        ELSE report[w] = NoReport /\ summary[w] = "none"

(* What may fail an audit: a step of the site's own analysis that failed, or *)
(* the next step's request being refused.  A competitor's site being down    *)
(* does not (OPTIONAL_KINDS), nor does a step with nothing to act on         *)
(* (NoWorkToDo), although the second attempt in advance would turn a second  *)
(* NoWorkToDo into a failure.                                                *)
FailureJustified ==
    \A w \in Workflows : wf[w] = "failed" =>
        \/ \E p \in Slots : step[w][p] = "failed" /\ Kind(w, p) # "competitor_crawl"
        \/ \E p \in Slots : NextPending(step[w], p) /\ Refused(w, Kind(w, p))

(* What a completed audit has done: every step is settled, no step but a     *)
(* competitor's crawl failed, and only the rank check and the comparison can *)
(* have had nothing to do.                                                   *)
CompletedAudit ==
    \A w \in Workflows : wf[w] = "completed" =>
        \A p \in 1..PlanLength(w) :
            /\ step[w][p] \in Settled
            /\ step[w][p] = "failed" => Kind(w, p) = "competitor_crawl"
            /\ step[w][p] = "skipped" => Kind(w, p) \in {"serp_check", "competitor_check"}

(* The row lock of store.claim is never contended: at most one handler is    *)
(* between its first and its last transaction on a workflow, and then        *)
(* nothing of that workflow is in flight and it is not finished.             *)
UniqueAdvancer ==
    \A w \in Workflows, i \in Instances : Busy(i, w) =>
        /\ \A j \in Instances : Busy(j, w) => i = j
        /\ wf[w] \in {"queued", "running"}
        /\ ~InFlight(step[w])

(* Without faults nothing but a workflow.requested reaches the dead-letter   *)
(* queue, and only when its inputs cannot be planned or its workflow exists. *)
DeadJustified ==
    faults = 0 =>
        \A e \in dead : e \in RequestedEvents /\ (~inputs[e.wf].plannable \/ wf[e.wf] # "none")

FinalKept ==
    \A w \in Workflows : wf[w] \in Terminal =>
        /\ wf'[w] = wf[w] /\ step'[w] = step[w] /\ result'[w] = result[w]
        /\ report'[w] = report[w] /\ (summary[w] = "ai" => summary'[w] = "ai")

StepMoves ==
    {<<"absent", "pending">>, <<"pending", "dispatched">>, <<"pending", "skipped">>,
     <<"dispatched", "completed">>, <<"dispatched", "failed">>}
ForwardOnly ==
    \A w \in Workflows, p \in Slots :
        step'[w][p] # step[w][p] => <<step[w][p], step'[w][p]>> \in StepMoves

(* A finished audit is final: engine.start's unconditional set_status, a     *)
(* late completion or a second workflow.requested never reopens it, and the  *)
(* model's summary is never replaced by the rule-based one.                  *)
FinalStays == [][FinalKept]_vars

(* A step only moves forward, one status at a time.                          *)
StepsMoveForward == [][ForwardOnly]_vars

(* Under FairSpec and without faults, an audit that is asked for with inputs *)
(* the planner accepts ends, completed or failed: no early return of the     *)
(* handlers leaves it waiting for an event that nobody will send.            *)
EveryAuditEnds ==
    \A w \in Workflows :
        /\ Requested(w) \in staged /\ inputs[w].plannable ~> wf[w] \in Terminal
        /\ wf[w] # "none" ~> wf[w] \in Terminal

(* engine.py:12, "A completion event that arrives twice advances the         *)
(* workflow once": an audit whose step was marked and that has nothing in    *)
(* flight moves on, if need be on the redelivery after a crash.  A message   *)
(* in the dead-letter queue is an operator's to replay.                      *)
CompletionAdvances ==
    \A w \in Workflows :
        wf[w] = "running" /\ step[w][1] \in Settled /\ ~InFlight(step[w])
            ~> InFlight(step[w]) \/ wf[w] \in Terminal \/ dead # {}

(* services/reporting/worker.py:6, "a finished audit gets a document whether *)
(* or not a person thought to press a button": every finished audit is       *)
(* announced with workflow.completed, which that document waits for.         *)
EveryFinishAnnounced ==
    \A w \in Workflows : wf[w] \in Terminal => announced[w] = 1

(* The mapping to Audit: an outcome per settled row, the dispatched row as   *)
(* the job that is out, and what services said in the events they staged.    *)
Skippable == {"serp_check", "competitor_check"}
Outcomes(s) == [p \in Slots |-> IF s[p] \in Settled THEN s[p] ELSE "open"]
JobOut(s) == IF InFlight(s) THEN CHOOSE p \in Slots : s[p] = "dispatched" ELSE 0
Answers == {e \in staged : e.type = "done" /\ e.job # NoStep}
Answer(e) == IF e.ok THEN "completed" ELSE "failed"

AuditPlan == [w \in Workflows |-> [p \in 1..PlanLength(w) |-> Kind(w, p)]]
AuditRefused == [w \in Workflows |-> inputs[w].refused]
AuditStatus == [w \in Workflows |-> IF wf[w] \in {"queued", "running"} THEN "open" ELSE wf[w]]
AuditOutcome == [w \in Workflows |-> Outcomes(step[w])]
AuditJob == [w \in Workflows |-> JobOut(step[w])]
AuditSaid == {<<e.job, Answer(e)>> : e \in Answers}
AuditReport == [w \in Workflows |-> IF wf[w] \in Terminal THEN Outcomes(report[w]) ELSE NoReport]

A == INSTANCE Audit WITH
    MayFail <- {"competitor_crawl"}, MaySkip <- Skippable,
    plan <- AuditPlan, refused <- AuditRefused, status <- AuditStatus,
    outcome <- AuditOutcome, job <- AuditJob, said <- AuditSaid, report <- AuditReport

(* "Dispatch a step, wait for its completion event, dispatch the next"       *)
(* (engine.py:3): with handlers, redeliveries, crashes and events that are   *)
(* late or repeated, an audit does nothing that one without them could not.  *)
FollowsAudit == A!ASpec

=============================================================================
