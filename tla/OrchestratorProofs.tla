------------------------- MODULE OrchestratorProofs -------------------------
(***************************************************************************)
(* What engine.py promises in its first lines, proved for every number of  *)
(* workflows, handlers and competitors and every amount of redelivery and  *)
(* failure.                                                                *)
(***************************************************************************)
EXTENDS Orchestrator, TLAPS

(* The rows of a workflow are worked through in order: what comes after an *)
(* unfinished step is untouched, and the plan has no holes.                *)
Ordered(s) ==
    \A p \in Slots, q \in Slots : q < p =>
        /\ s[q] \in {"pending", "dispatched"} => s[p] \in {"pending", "absent"}
        /\ s[q] = "absent" => s[p] = "absent"
InOrder == \A w \in Workflows : Ordered(step[w])

DispatchedRuns ==
    \A w \in Workflows, p \in Slots : step[w][p] = "dispatched" => wf[w] = "running"

Untouched ==
    \A w \in Workflows, p \in Slots : wf[w] = "none" => step[w][p] = "absent"

(* The handler between two transactions on a workflow is alone there, and  *)
(* the workflow is as its first transaction left it.                       *)
Carrier ==
    \A w \in Workflows, i \in Instances : Busy(i, w) =>
        /\ \A j \in Instances : Busy(j, w) => i = j
        /\ At(i, "setrunning") => wf[w] = "queued"
        /\ At(i, "advance") => wf[w] = "running"
        /\ \A p \in Slots : step[w][p] # "dispatched"

StoreInv == InOrder /\ DispatchedRuns /\ Untouched /\ RequestedOnce
            /\ AnnouncedOnce /\ ReportMatchesSteps
IInv == TypeOK /\ StoreInv /\ Carrier

-----------------------------------------------------------------------------
(* Events and the types they carry.                                        *)

LEMMA EventFacts ==
    /\ \A e \in RequestedEvents : e.type = "requested" /\ e.wf \in Workflows
    /\ \A e \in PostedRequests : e.type = "posted" /\ e.wf \in Workflows
    /\ \A e \in FinishedEvents : e.type = "finished" /\ e.wf \in Workflows
    /\ \A e \in StepEvents : e.type = "done" /\ e.job \in Jobs /\ e.job # NoStep
    /\ \A e \in StrayEvents : e.type = "done" /\ e.job = NoStep
    /\ NoEvent.type = "none"
  BY DEF RequestedEvents, Requested, PostedRequests, Posted, FinishedEvents, Finished,
         StepEvents, StrayEvents, Done, Jobs, NoStep, NoEvent

LEMMA EventsTyped ==
    /\ \A w \in Workflows : Requested(w) \in Events /\ Finished(w) \in Events
    /\ \A w \in Workflows : Posted(w) \in PostedRequests
    /\ StrayEvents \subseteq Events
    /\ NoEvent \notin Events
    /\ PostedRequests \cap Events = {}
  BY EventFacts
     DEF Events, RequestedEvents, PostedRequests, FinishedEvents, NoEvent

LEMMA JobFacts == \A j \in Jobs : j[1] \in Workflows /\ j[2] \in Slots
  BY DEF Jobs

LEMMA SlotFacts == Slots \subseteq Nat
  BY BoundAssumption DEF Slots, BaseLength

-----------------------------------------------------------------------------
(* Type correctness, action by action.                                     *)

LEMMA StageTyped ==
    ASSUME BusTypeOK, NEW E \in SUBSET Events, Stage(E), runs' = runs, dead' = dead,
           extras' = extras, faults' = faults
    PROVE  BusTypeOK'
  BY DEF BusTypeOK, Stage

LEMMA InitTypeOK == Init => TypeOK
  <1> SUFFICES ASSUME Init PROVE TypeOK
      OBVIOUS
  <1>1. StoreTypeOK
      BY DEF Init, StoreTypeOK, WorkflowStatus
  <1>2. BusTypeOK
      BY BoundAssumption DEF Init, BusTypeOK
  <1>3. InstTypeOK
      BY EventsTyped DEF Init, InstTypeOK, Idle, At
  <1> QED BY <1>1, <1>2, <1>3 DEF TypeOK

(* The handler's own step: its counter and event move as InstTypeOK says.  *)
LEMMA ReturnTyped ==
    ASSUME InstTypeOK, NEW i \in Instances, Return(i), staged \subseteq staged', 
           seen' \in [Instances -> SUBSET Events]
    PROVE  InstTypeOK'
  BY EventsTyped DEF InstTypeOK, Return, Idle, At, Starting

LEMMA GotoTyped ==
    ASSUME InstTypeOK, NEW i \in Instances, NEW pc \in {"create", "setrunning", "advance", "enrich"},
           Goto(i, pc), staged \subseteq staged', seen' = seen,
           pc \in {"create", "setrunning"} => inst[i].ev \in Starting,
           pc = "advance" => inst[i].ev \in Starting \cup StepEvents,
           pc = "enrich" => inst[i].ev \in FinishedEvents,
           inst[i].ev # NoEvent
    PROVE  InstTypeOK'
  BY EventsTyped DEF InstTypeOK, Goto, At, Starting

LEMMA RememberTyped ==
    ASSUME InstTypeOK, NEW i \in Instances, Remember(i)
    PROVE  seen' \in [Instances -> SUBSET Events]
  BY DEF InstTypeOK, Remember

LEMMA ParkedTyped ==
    ASSUME BusTypeOK, InstTypeOK, NEW i \in Instances, dead' = dead \cup ({inst[i].ev} \cap Events),
           UNCHANGED <<runs, staged, queue, extras>>, faults' \in 0..MaxFaults
    PROVE  BusTypeOK'
  BY DEF BusTypeOK, InstTypeOK

LEMMA WorkflowOfTyped ==
    ASSUME InstTypeOK, NEW i \in Instances,
           inst[i].pc \in {"create", "setrunning", "advance", "enrich"}
    PROVE  WorkflowOf(i) \in Workflows
  BY EventFacts, JobFacts DEF InstTypeOK, WorkflowOf, Starting, At

LEMMA HandlingTyped ==
    ASSUME InstTypeOK, NEW i \in Instances
    PROVE  /\ Handling(i, "requested") => inst[i].ev \in RequestedEvents /\ WorkflowOf(i) \in Workflows
           /\ Handling(i, "finished") => inst[i].ev \in FinishedEvents /\ WorkflowOf(i) \in Workflows
           /\ Handling(i, "done") => inst[i].ev \in StepEvents \cup StrayEvents
  BY EventFacts DEF InstTypeOK, Handling, WorkflowOf, Events, At

LEMMA FinishTyped ==
    ASSUME StoreTypeOK, BusTypeOK, NEW w \in Workflows,
           NEW s \in [Slots -> StepStatus \cup {"absent"}], NEW status \in Terminal,
           Finish(w, s, status), UNCHANGED <<inputs, runs, dead, extras, faults>>
    PROVE  StoreTypeOK' /\ BusTypeOK' /\ staged \subseteq staged'
  <1>1. StoreTypeOK'
      BY DEF StoreTypeOK, Finish, WorkflowStatus
  <1>2. (IF ContractAccepts(w) THEN {Finished(w)} ELSE {}) \in SUBSET Events
      BY EventsTyped
  <1>3. BusTypeOK'
      BY <1>2, StageTyped DEF Finish
  <1> QED BY <1>1, <1>3 DEF Finish, Stage

LEMMA DispatchTyped ==
    ASSUME StoreTypeOK, BusTypeOK, NEW w \in Workflows, NEW p \in Slots,
           NEW s \in [Slots -> StepStatus \cup {"absent"}],
           Dispatch(w, s, p), UNCHANGED <<inputs, runs, dead, extras, faults>>
    PROVE  StoreTypeOK' /\ BusTypeOK' /\ staged \subseteq staged'
  <1>1. StoreTypeOK'
      BY DEF StoreTypeOK, Dispatch, WorkflowStatus, StepStatus
  <1>2. BusTypeOK'
      BY DEF BusTypeOK, Dispatch
  <1> QED BY <1>1, <1>2 DEF Dispatch

LEMMA AdvanceTyped ==
    ASSUME StoreTypeOK, BusTypeOK, NEW w \in Workflows, AdvanceTx(w),
           UNCHANGED <<inputs, runs, dead, extras, faults>>
    PROVE  StoreTypeOK' /\ BusTypeOK' /\ staged \subseteq staged'
  <1> DEFINE Skipped(p) == [step[w] EXCEPT ![p] = "skipped"]
  <1>1. step[w] \in [Slots -> StepStatus \cup {"absent"}]
      BY DEF StoreTypeOK
  <1>2. \A p \in Slots : Skipped(p) \in [Slots -> StepStatus \cup {"absent"}]
      BY <1>1 DEF StepStatus
  <1>3. CASE UNCHANGED <<store, staged, queue>>
      BY <1>3 DEF store, StoreTypeOK, BusTypeOK
  <1>4. CASE Finish(w, step[w], "failed") \/ Finish(w, step[w], "completed")
      BY <1>1, <1>4, FinishTyped DEF Terminal
  <1>5. ASSUME NEW p \in Slots, TryStep(w, p)
        PROVE  StoreTypeOK' /\ BusTypeOK' /\ staged \subseteq staged'
    <2>1. CASE Dispatch(w, step[w], p)
        BY <2>1, <1>1, DispatchTyped
    <2>2. CASE SkipThenTry(w, p)
        BY <2>2, <1>2, DispatchTyped, FinishTyped DEF SkipThenTry, Terminal
    <2> QED BY <2>1, <2>2, <1>4, <1>5 DEF TryStep
  <1> QED BY <1>3, <1>4, <1>5 DEF AdvanceTx

LEMMA HandlerTyped ==
    ASSUME TypeOK, NEW i \in Instances, HandlerStep(i)
    PROVE  TypeOK'
  <1> USE DEF TypeOK
  <1>0. BusTypeOK /\ UNCHANGED bus => BusTypeOK'
      BY DEF bus, BusTypeOK
  <1>s. StoreTypeOK /\ UNCHANGED <<inputs, store>> => StoreTypeOK'
      BY DEF store, StoreTypeOK
  <1>1. CASE DropSeen(i)
      BY <1>1, <1>0, <1>s, ReturnTyped DEF DropSeen, InstTypeOK, bus
  <1>2. CASE StartExisting(i) \/ IgnoreCompletion(i) \/ SummaryDone(i) \/ KeepRules(i)
      BY <1>2, <1>0, <1>s, ReturnTyped, RememberTyped
         DEF StartExisting, IgnoreCompletion, SummaryDone, KeepRules, bus
  <1>3. CASE StartUnplannable(i)
    <2>1. inst[i].ev \in Events
        BY <1>3 DEF StartUnplannable, Handling, InstTypeOK
    <2>2. BusTypeOK'
        BY <1>3, <2>1, ParkedTyped DEF StartUnplannable, BusTypeOK
    <2> QED BY <1>3, <2>2, <1>s, ReturnTyped DEF StartUnplannable, InstTypeOK
  <1>4. CASE StartPlanned(i)
    <2>1. inst[i].ev \in Starting /\ inst[i].ev # NoEvent
        BY <1>4, HandlingTyped, EventFacts DEF StartPlanned, Starting
    <2> QED BY <1>4, <2>1, <1>0, <1>s, GotoTyped DEF StartPlanned, bus
  <1>5. CASE Create(i)
    <2>1. inst[i].ev \in Starting /\ inst[i].ev # NoEvent /\ WorkflowOf(i) \in Workflows
        BY <1>5, WorkflowOfTyped, EventFacts DEF Create, InstTypeOK, Starting, At
    <2>2. StoreTypeOK'
        BY <1>5, <2>1 DEF Create, StoreTypeOK, Plan, StepStatus, WorkflowStatus
    <2> QED BY <1>5, <2>1, <2>2, <1>0, GotoTyped DEF Create, bus
  <1>6. CASE CreateConflict(i)
    <2>1. BusTypeOK'
        BY <1>6, ParkedTyped DEF CreateConflict, BusTypeOK
    <2> QED BY <1>6, <2>1, <1>s, ReturnTyped DEF CreateConflict, InstTypeOK
  <1>7. CASE SetRunning(i)
    <2>1. inst[i].ev \in Starting /\ inst[i].ev # NoEvent /\ WorkflowOf(i) \in Workflows
        BY <1>7, WorkflowOfTyped, EventFacts DEF SetRunning, InstTypeOK, Starting, At
    <2>2. StoreTypeOK'
        BY <1>7, <2>1 DEF SetRunning, StoreTypeOK, WorkflowStatus
    <2> QED BY <1>7, <2>1, <2>2, <1>0, GotoTyped DEF SetRunning, bus
  <1>8. CASE MarkStep(i)
    <2>1. inst[i].ev \in StepEvents
        BY <1>8, HandlingTyped, EventFacts DEF MarkStep, Matches
    <2>2. inst[i].ev # NoEvent /\ inst[i].ev.job[1] \in Workflows /\ inst[i].ev.job[2] \in Slots
        BY <2>1, EventFacts, JobFacts
    <2>3. StoreTypeOK'
        BY <1>8, <2>2 DEF MarkStep, StoreTypeOK, StepStatus
    <2> QED BY <1>8, <2>1, <2>2, <2>3, <1>0, GotoTyped DEF MarkStep, bus
  <1>9. CASE Advance(i)
    <2>1. WorkflowOf(i) \in Workflows
        BY <1>9, WorkflowOfTyped DEF Advance, At
    <2>2. StoreTypeOK' /\ BusTypeOK' /\ staged \subseteq staged'
        BY <1>9, <2>1, AdvanceTyped DEF Advance
    <2> QED BY <1>9, <2>2, ReturnTyped, RememberTyped DEF Advance
  <1>10. CASE AskModel(i)
    <2>1. inst[i].ev \in FinishedEvents /\ inst[i].ev # NoEvent
        BY <1>10, HandlingTyped, EventFacts DEF AskModel
    <2> QED BY <1>10, <2>1, <1>0, <1>s, GotoTyped DEF AskModel, bus
  <1>11. CASE SaveSummary(i)
    <2>1. StoreTypeOK'
        BY <1>11, WorkflowOfTyped DEF SaveSummary, StoreTypeOK, At
    <2> QED BY <1>11, <2>1, <1>0, ReturnTyped, RememberTyped DEF SaveSummary, bus
  <1> QED BY <1>1, <1>2, <1>3, <1>4, <1>5, <1>6, <1>7, <1>8, <1>9, <1>10, <1>11 DEF HandlerStep

LEMMA NextTyped == TypeOK /\ [Next]_vars => TypeOK'
  <1> SUFFICES ASSUME TypeOK, [Next]_vars PROVE TypeOK'
      OBVIOUS
  <1> USE DEF TypeOK
  <1>s. UNCHANGED <<inputs, store>> => StoreTypeOK'
      BY DEF store, StoreTypeOK
  <1>i. UNCHANGED <<inst, seen>> /\ staged \subseteq staged' => InstTypeOK'
      BY DEF InstTypeOK, At
  <1>1. ASSUME NEW i \in Instances, HandlerStep(i) PROVE TypeOK'
      BY <1>1, HandlerTyped
  <1>2. ASSUME NEW i \in Instances, Crash(i) PROVE TypeOK'
    <2>1. BusTypeOK'
        BY <1>2, BoundAssumption DEF Crash, BusTypeOK, InstTypeOK
    <2>2. seen' \in [Instances -> SUBSET Events]
        BY <1>2 DEF Crash, InstTypeOK
    <2> QED BY <1>2, <2>1, <2>2, <1>s, ReturnTyped DEF Crash
  <1>3. ASSUME NEW i \in Instances, Raise(i) PROVE TypeOK'
    <2>1. faults' \in 0..MaxFaults
        BY <1>3, BoundAssumption DEF Raise, BusTypeOK
    <2>2. BusTypeOK'
        BY <1>3, <2>1, ParkedTyped DEF Raise
    <2> QED BY <1>3, <2>2, <1>s, ReturnTyped DEF Raise, InstTypeOK
  <1>4. ASSUME NEW i \in Instances, NEW w \in Workflows, PostWorkflow(i, w) PROVE TypeOK'
    <2>1. InstTypeOK'
        BY <1>4, EventsTyped, EventFacts DEF PostWorkflow, InstTypeOK, At, Starting, bus
    <2> QED BY <1>4, <2>1, <1>s DEF PostWorkflow, bus, BusTypeOK
  <1>5. ASSUME NEW i \in Instances, NEW e \in queue, Receive(i, e) PROVE TypeOK'
    <2>1. e \in Events /\ e \in staged /\ e # NoEvent
        BY EventsTyped DEF BusTypeOK
    <2>2. InstTypeOK'
        BY <1>5, <2>1 DEF Receive, InstTypeOK, At, Starting
    <2> QED BY <1>5, <2>2, <1>s DEF Receive, BusTypeOK
  <1>6. ASSUME NEW w \in Workflows, RequestWorkflow(w) PROVE TypeOK'
    <2>1. BusTypeOK'
        BY <1>6, StageTyped, EventsTyped DEF RequestWorkflow
    <2> QED BY <1>6, <2>1, <1>s, <1>i DEF RequestWorkflow, Stage
  <1>7. ASSUME NEW w \in Workflows, NEW p \in Slots, NEW ok \in BOOLEAN, NEW kw \in BOOLEAN,
               ServiceFinishes(w, p, ok, kw)
        PROVE  TypeOK'
    <2>1. runs[w][p] \in Nat /\ runs[w][p] <= 1 + extras /\ extras \in Nat /\ extras <= MaxExtras
        BY BoundAssumption DEF BusTypeOK
    <2>2. runs[w][p] + 1 \in 1..(1 + MaxExtras)
        BY <1>7, <2>1, BoundAssumption DEF ServiceFinishes
    <2>3. Done(<<w, p>>, runs[w][p] + 1, ok, kw) \in Events
        BY <2>2 DEF Events, StepEvents, Jobs
    <2>4. BusTypeOK'
        BY <1>7, <2>1, <2>3, BoundAssumption DEF ServiceFinishes, BusTypeOK, Stage
    <2> QED BY <1>7, <2>4, <1>s, <1>i DEF ServiceFinishes, Stage
  <1>8. CASE StrayFinishes
    <2>1. BusTypeOK'
        BY <1>8, EventsTyped, BoundAssumption DEF StrayFinishes, BusTypeOK, Stage
    <2> QED BY <1>8, <2>1, <1>s, <1>i DEF StrayFinishes, Stage
  <1>9. ASSUME NEW e \in staged, Redeliver(e) PROVE TypeOK'
    <2>1. BusTypeOK'
        BY <1>9, BoundAssumption DEF Redeliver, BusTypeOK
    <2> QED BY <1>9, <2>1, <1>s, <1>i DEF Redeliver
  <1>10. CASE UNCHANGED vars
    <2>1. UNCHANGED <<inputs, store, inst, seen>> /\ UNCHANGED bus /\ staged' = staged
        BY <1>10 DEF vars, bus
    <2>2. BusTypeOK'
        BY <2>1 DEF bus, BusTypeOK
    <2> QED BY <2>1, <2>2, <1>s, <1>i
  <1> QED BY <1>1, <1>2, <1>3, <1>4, <1>5, <1>6, <1>7, <1>8, <1>9, <1>10 DEF Next

(* Type correctness of every reachable state of the orchestrator, for any  *)
(* number of workflows, handlers, competitors, redeliveries and faults.    *)
THEOREM TypeCorrect == Spec => []TypeOK
  <1>1. Init => TypeOK
      BY InitTypeOK
  <1>2. TypeOK /\ [Next]_vars => TypeOK'
      BY NextTyped
  <1> QED BY <1>1, <1>2, PTL DEF Spec

-----------------------------------------------------------------------------
(* The inductive invariant.  StoreInv is about the database alone and      *)
(* Carrier about who may write to it next; MarkStep and Advance need both. *)

LEMMA InitInv == Init => IInv
  <1> SUFFICES ASSUME Init PROVE IInv
      OBVIOUS
  <1>1. InOrder /\ DispatchedRuns /\ Untouched /\ RequestedOnce
      BY DEF Init, InOrder, Ordered, DispatchedRuns, Untouched, RequestedOnce
  <1>2. AnnouncedOnce /\ ReportMatchesSteps
      BY DEF Init, AnnouncedOnce, ReportMatchesSteps, Terminal
  <1>3. Carrier
      BY DEF Init, Carrier, Busy, Idle
  <1> QED BY <1>1, <1>2, <1>3, InitTypeOK DEF IInv, StoreInv

LEMMA ContractStable ==
    ASSUME inputs' = inputs
    PROVE  \A w \in Workflows : ContractAccepts(w)' <=> ContractAccepts(w)
  BY DEF ContractAccepts, PlanLength, Kind, Rivals

LEMMA StoreStutter ==
    ASSUME StoreInv, UNCHANGED <<inputs, store>>
    PROVE  StoreInv'
  <1>1. UNCHANGED <<wf, step, requests, announced, report, summary>>
      BY DEF store
  <1> QED BY <1>1, ContractStable
          DEF StoreInv, InOrder, Ordered, DispatchedRuns, Untouched, RequestedOnce,
              AnnouncedOnce, ReportMatchesSteps

(* Rows that a transaction of advance may start from: in order, nothing in *)
(* flight, and those of the store but for pending steps it skipped.        *)
Clean(w, s) ==
    /\ s \in [Slots -> StepStatus \cup {"absent"}]
    /\ Ordered(s)
    /\ \A p \in Slots : s[p] # "dispatched"
    /\ \A p \in Slots : s[p] = step[w][p] \/ (s[p] = "skipped" /\ step[w][p] = "pending")

LEMMA FinishInv ==
    ASSUME StoreTypeOK, StoreInv, NEW w \in Workflows, NEW s, Clean(w, s), wf[w] = "running",
           NEW status \in Terminal, Finish(w, s, status), inputs' = inputs
    PROVE  StoreInv'
  <1>1. InOrder' /\ DispatchedRuns' /\ Untouched'
      BY DEF StoreInv, StoreTypeOK, Finish, Clean, InOrder, Ordered, DispatchedRuns, Untouched, Terminal
  <1>2. RequestedOnce'
      BY DEF StoreInv, StoreTypeOK, Finish, Clean, RequestedOnce
  <1>3. AnnouncedOnce'
      BY ContractStable DEF StoreInv, StoreTypeOK, Finish, AnnouncedOnce, Terminal
  <1>4. ReportMatchesSteps'
      BY DEF StoreInv, StoreTypeOK, Finish, ReportMatchesSteps
  <1> QED BY <1>1, <1>2, <1>3, <1>4 DEF StoreInv

LEMMA DispatchInv ==
    ASSUME StoreTypeOK, StoreInv, NEW w \in Workflows, NEW s, Clean(w, s), wf[w] = "running",
           NEW p \in Slots, NextPending(s, p), Dispatch(w, s, p), inputs' = inputs
    PROVE  StoreInv'
  <1> DEFINE t == [s EXCEPT ![p] = "dispatched"]
  <1>0. /\ step' = [step EXCEPT ![w] = t]
        /\ t \in [Slots -> StepStatus \cup {"absent"}]
      BY DEF Dispatch, Clean, StepStatus
  <1>1. Ordered(t)
    <2> SUFFICES ASSUME NEW r \in Slots, NEW q \in Slots, q < r
                 PROVE  /\ t[q] \in {"pending", "dispatched"} => t[r] \in {"pending", "absent"}
                        /\ t[q] = "absent" => t[r] = "absent"
        BY DEF Ordered
    <2>1. \A k \in Slots : k < p => s[k] # "pending"
        BY SlotFacts DEF NextPending, Slots
    <2>2. s[p] = "pending"
        BY DEF NextPending
    <2>3. /\ s[q] \in {"pending", "dispatched"} => s[r] \in {"pending", "absent"}
          /\ s[q] = "absent" => s[r] = "absent"
        BY DEF Clean, Ordered
    <2>4. s[q] # "dispatched" /\ s[r] # "dispatched"
        BY DEF Clean
    <2>5. CASE r = p
        BY <2>1, <2>2, <2>3, <2>4, <2>5, SlotFacts DEF Clean
    <2>6. CASE r # p
        BY <2>2, <2>3, <2>4, <2>6, SlotFacts DEF Clean
    <2> QED BY <2>5, <2>6
  <1>2. InOrder'
      BY <1>0, <1>1 DEF StoreInv, StoreTypeOK, InOrder, Ordered
  <1>3. DispatchedRuns' /\ Untouched'
      BY <1>0 DEF StoreInv, StoreTypeOK, Dispatch, DispatchedRuns, Untouched
  <1>4. RequestedOnce'
      BY <1>0 DEF StoreInv, StoreTypeOK, Dispatch, Clean, RequestedOnce, NextPending
  <1>5. AnnouncedOnce'
      BY ContractStable DEF StoreInv, StoreTypeOK, Dispatch, AnnouncedOnce, Terminal
  <1>6. ReportMatchesSteps'
      BY <1>0 DEF StoreInv, StoreTypeOK, Dispatch, ReportMatchesSteps, Terminal
  <1> QED BY <1>2, <1>3, <1>4, <1>5, <1>6 DEF StoreInv

Others(w) == \A v \in Workflows \ {w} : wf'[v] = wf[v] /\ step'[v] = step[v]

LEMMA AdvanceInv ==
    ASSUME StoreTypeOK, StoreInv, NEW w \in Workflows, wf[w] = "running",
           \A p \in Slots : step[w][p] # "dispatched", AdvanceTx(w), inputs' = inputs
    PROVE  StoreInv' /\ Others(w)
  <1> DEFINE Skipped(p) == [step[w] EXCEPT ![p] = "skipped"]
  <1>1. Clean(w, step[w])
      BY DEF Clean, StoreTypeOK, StoreInv, InOrder
  <1>2. ASSUME NEW p \in Slots, NextPending(step[w], p)
        PROVE  Clean(w, Skipped(p))
    <2>1. \A k \in Slots : k < p => step[w][k] # "pending"
        BY <1>2, SlotFacts DEF NextPending, Slots
    <2>2. Skipped(p) \in [Slots -> StepStatus \cup {"absent"}] /\ step[w][p] = "pending"
        BY <1>2 DEF StoreTypeOK, StepStatus, NextPending
    <2>3. Ordered(Skipped(p))
        BY <1>1, <2>1, <2>2, SlotFacts DEF Clean, Ordered
    <2> QED BY <1>1, <2>2, <2>3 DEF Clean
  <1>3. ASSUME NEW s, Clean(w, s), NEW status \in Terminal, Finish(w, s, status)
        PROVE  StoreInv' /\ Others(w)
      BY <1>3, FinishInv DEF Finish, StoreTypeOK, Others
  <1>4. ASSUME NEW s, Clean(w, s), NEW p \in Slots, NextPending(s, p), Dispatch(w, s, p)
        PROVE  StoreInv' /\ Others(w)
      BY <1>4, DispatchInv DEF Dispatch, StoreTypeOK, Others
  <1>5. CASE UNCHANGED <<store, staged, queue>>
      BY <1>5, StoreStutter DEF store, Others
  <1>6. CASE Finish(w, step[w], "failed") \/ Finish(w, step[w], "completed")
      BY <1>1, <1>3, <1>6 DEF Terminal
  <1>7. ASSUME NEW p \in Slots, NextPending(step[w], p), TryStep(w, p)
        PROVE  StoreInv' /\ Others(w)
    <2>1. CASE Dispatch(w, step[w], p)
        BY <2>1, <1>1, <1>4, <1>7
    <2>2. CASE SkipThenTry(w, p)
      <3>1. CASE Finish(w, Skipped(p), "completed") \/ Finish(w, Skipped(p), "failed")
          BY <3>1, <1>2, <1>3, <1>7 DEF Terminal
      <3>2. ASSUME NEW q \in Slots, NextPending(Skipped(p), q), Dispatch(w, Skipped(p), q)
            PROVE  StoreInv' /\ Others(w)
          BY <3>2, <1>2, <1>4, <1>7
      <3> QED BY <2>2, <3>1, <3>2 DEF SkipThenTry
    <2> QED BY <2>1, <2>2, <1>6, <1>7 DEF TryStep
  <1> QED BY <1>5, <1>6, <1>7 DEF AdvanceTx

(* A step that leaves the workflows alone and makes no handler busy.       *)
LEMMA CarrierKept ==
    ASSUME Carrier, UNCHANGED <<wf, step>>,
           \A j \in Instances : inst'[j] = inst[j] \/ inst'[j].pc \notin {"setrunning", "advance"}
    PROVE  Carrier'
  BY DEF Carrier, Busy, At, WorkflowOf

LEMMA HandlerInv ==
    ASSUME IInv, NEW i \in Instances, HandlerStep(i)
    PROVE  StoreInv' /\ Carrier'
  <1> USE DEF IInv, TypeOK
  <1>r. Return(i) => \A j \in Instances : inst'[j] = inst[j] \/ inst'[j].pc \notin {"setrunning", "advance"}
      BY DEF InstTypeOK, Return, Idle
  <1>g. ASSUME NEW pc \in {"create", "enrich"}, Goto(i, pc)
        PROVE  \A j \in Instances : inst'[j] = inst[j] \/ inst'[j].pc \notin {"setrunning", "advance"}
      BY <1>g DEF InstTypeOK, Goto
  <1>1. CASE DropSeen(i) \/ StartExisting(i) \/ StartUnplannable(i) \/ CreateConflict(i)
             \/ IgnoreCompletion(i) \/ SummaryDone(i) \/ KeepRules(i)
    <2>1. UNCHANGED <<inputs, store>> /\ Return(i)
        BY <1>1 DEF DropSeen, StartExisting, StartUnplannable, CreateConflict, IgnoreCompletion,
                    SummaryDone, KeepRules
    <2> QED BY <2>1, <1>r, StoreStutter, CarrierKept DEF store
  <1>2. CASE StartPlanned(i) \/ AskModel(i)
    <2>1. UNCHANGED <<inputs, store>> /\ (Goto(i, "create") \/ Goto(i, "enrich"))
        BY <1>2 DEF StartPlanned, AskModel
    <2> QED BY <2>1, <1>g, StoreStutter, CarrierKept DEF store
  <1>3. CASE Create(i)
    <2> DEFINE w == WorkflowOf(i)
    <2>1. w \in Workflows
        BY <1>3, WorkflowOfTyped DEF Create, At
    <2> HIDE DEF w
    <2>2. /\ wf[w] = "none" /\ wf' = [wf EXCEPT ![w] = "queued"]
          /\ step' = [step EXCEPT ![w] = Plan(w)]
          /\ UNCHANGED <<inputs, requests, announced, report, summary>>
        BY <1>3 DEF Create, w
    <2>3. /\ Plan(w) \in [Slots -> StepStatus \cup {"absent"}] /\ Ordered(Plan(w))
          /\ \A p \in Slots : Plan(w)[p] \in {"pending", "absent"}
      <3>1. inputs[w].rivals \in Nat
          BY <2>1, InputAssumption, BoundAssumption DEF StoreTypeOK, Inputs
      <3>2. PlanLength(w) \in Nat
          BY <3>1 DEF PlanLength, Rivals, BaseLength
      <3> QED BY <3>2, SlotFacts DEF Plan, Ordered, StepStatus
    <2>4. \A p \in Slots : step[w][p] = "absent" /\ requests[w][p] = 0
        BY <2>1, <2>2 DEF StoreInv, Untouched, RequestedOnce
    <2>5. StoreInv'
      <3>1. InOrder' /\ DispatchedRuns' /\ Untouched'
          BY <2>1, <2>2, <2>3 DEF StoreInv, StoreTypeOK, InOrder, Ordered, DispatchedRuns, Untouched
      <3>2. RequestedOnce'
          BY <2>1, <2>2, <2>3, <2>4 DEF StoreInv, StoreTypeOK, RequestedOnce
      <3>3. AnnouncedOnce'
          BY <2>1, <2>2, ContractStable DEF StoreInv, StoreTypeOK, AnnouncedOnce, Terminal
      <3>4. ReportMatchesSteps'
          BY <2>1, <2>2 DEF StoreInv, StoreTypeOK, ReportMatchesSteps, Terminal
      <3> QED BY <3>1, <3>2, <3>3, <3>4 DEF StoreInv
    <2>6. \A j \in Instances : ~Busy(j, w)
        BY <2>1, <2>2 DEF Carrier, Busy, At
    <2>7. /\ \A j \in Instances \ {i} : inst'[j] = inst[j]
          /\ inst'[i].pc = "setrunning" /\ inst'[i].ev = inst[i].ev
        BY <1>3 DEF Create, Goto, InstTypeOK
    <2>8. /\ \A j \in Instances \ {i}, v \in Workflows : Busy(j, v)' <=> Busy(j, v)
          /\ \A v \in Workflows : Busy(i, v)' <=> v = w
        BY <2>7 DEF Busy, WorkflowOf, w
    <2>9. Carrier'
      <3> SUFFICES ASSUME NEW v \in Workflows, NEW k \in Instances, Busy(k, v)'
                   PROVE  /\ \A j \in Instances : Busy(j, v)' => k = j
                          /\ inst'[k].pc = "setrunning" => wf'[v] = "queued"
                          /\ inst'[k].pc = "advance" => wf'[v] = "running"
                          /\ \A q \in Slots : step'[v][q] # "dispatched"
          BY DEF Carrier, At
      <3>1. CASE v = w
          BY <3>1, <2>1, <2>2, <2>3, <2>6, <2>7, <2>8 DEF StoreTypeOK
      <3>2. CASE v # w
        <4>1. k # i /\ Busy(k, v) /\ inst'[k] = inst[k] /\ wf'[v] = wf[v] /\ step'[v] = step[v]
            BY <3>2, <2>1, <2>2, <2>7, <2>8 DEF StoreTypeOK
        <4> QED BY <3>2, <4>1, <2>8 DEF Carrier, At
      <3> QED BY <3>1, <3>2
    <2> QED BY <2>5, <2>9
  <1>4. CASE SetRunning(i)
    <2> DEFINE w == WorkflowOf(i)
    <2>1. w \in Workflows
        BY <1>4, WorkflowOfTyped DEF SetRunning, At
    <2>2. Busy(i, w) /\ At(i, "setrunning")
        BY <1>4 DEF SetRunning, At, Busy
    <2> HIDE DEF w
    <2>3. /\ wf[w] = "queued" /\ wf' = [wf EXCEPT ![w] = "running"]
          /\ UNCHANGED <<inputs, step, requests, announced, report, summary>>
        BY <1>4, <2>1, <2>2 DEF SetRunning, w, Carrier
    <2>5. StoreInv'
      <3>1. InOrder' /\ DispatchedRuns' /\ Untouched' /\ RequestedOnce'
          BY <2>1, <2>3 DEF StoreInv, StoreTypeOK, InOrder, Ordered, DispatchedRuns, Untouched, RequestedOnce
      <3>2. AnnouncedOnce' /\ ReportMatchesSteps'
          BY <2>1, <2>3, ContractStable DEF StoreInv, StoreTypeOK, AnnouncedOnce, ReportMatchesSteps, Terminal
      <3> QED BY <3>1, <3>2 DEF StoreInv
    <2>7. /\ \A j \in Instances \ {i} : inst'[j] = inst[j]
          /\ inst'[i].pc = "advance" /\ inst'[i].ev = inst[i].ev
        BY <1>4 DEF SetRunning, Goto, InstTypeOK
    <2>8. /\ \A j \in Instances \ {i}, v \in Workflows : Busy(j, v)' <=> Busy(j, v)
          /\ \A v \in Workflows : Busy(i, v)' <=> v = w
        BY <2>7 DEF Busy, WorkflowOf, w
    <2>9. Carrier'
      <3> SUFFICES ASSUME NEW v \in Workflows, NEW k \in Instances, Busy(k, v)'
                   PROVE  /\ \A j \in Instances : Busy(j, v)' => k = j
                          /\ inst'[k].pc = "setrunning" => wf'[v] = "queued"
                          /\ inst'[k].pc = "advance" => wf'[v] = "running"
                          /\ \A q \in Slots : step'[v][q] # "dispatched"
          BY DEF Carrier, At
      <3>1. CASE v = w
        <4>1. \A j \in Instances : Busy(j, v) => j = i
            BY <3>1, <2>1, <2>2 DEF Carrier
        <4>2. \A j \in Instances : Busy(j, v)' => j = i
            BY <4>1, <2>8
        <4>3. wf'[v] = "running" /\ inst'[i].pc = "advance"
            BY <3>1, <2>1, <2>3, <2>7 DEF StoreTypeOK
        <4>4. \A q \in Slots : step'[v][q] # "dispatched"
            BY <3>1, <2>1, <2>2, <2>3 DEF Carrier
        <4> QED BY <4>2, <4>3, <4>4
      <3>2. CASE v # w
        <4>1. k # i /\ Busy(k, v) /\ inst'[k] = inst[k] /\ wf'[v] = wf[v] /\ step'[v] = step[v]
            BY <3>2, <2>1, <2>3, <2>7, <2>8 DEF StoreTypeOK
        <4> QED BY <3>2, <4>1, <2>8 DEF Carrier, At
      <3> QED BY <3>1, <3>2
    <2> QED BY <2>5, <2>9
  <1>5. CASE MarkStep(i)
    <2> DEFINE w == inst[i].ev.job[1]
               p == inst[i].ev.job[2]
    <2>1. inst[i].ev \in StepEvents
        BY <1>5, HandlingTyped, EventFacts DEF MarkStep, Matches
    <2>2. w \in Workflows /\ p \in Slots /\ inst[i].ev.type = "done"
        BY <2>1, EventFacts, JobFacts
    <2> HIDE DEF w, p
    <2>3. PICK r \in {"completed", "failed"} :
            /\ step[w][p] = "dispatched"
            /\ step' = [step EXCEPT ![w] = [step[w] EXCEPT ![p] = r]]
            /\ UNCHANGED <<inputs, wf, requests, announced, report, summary>>
        BY <1>5, <2>2 DEF MarkStep, Matches, StoreTypeOK, w, p
    <2>4. /\ wf[w] = "running"
          /\ \A q \in Slots : step[w][q] = "dispatched" => q = p
      <3>1. wf[w] = "running"
          BY <2>2, <2>3 DEF StoreInv, DispatchedRuns
      <3>2. \A q \in Slots : step[w][q] = "dispatched" => ~(q < p) /\ ~(p < q)
          BY <2>2, <2>3 DEF StoreInv, InOrder, Ordered
      <3> QED BY <3>1, <3>2, <2>2, SlotFacts
    <2>5. StoreInv'
      <3>1. InOrder'
          BY <2>2, <2>3, SlotFacts DEF StoreInv, StoreTypeOK, InOrder, Ordered
      <3>2. DispatchedRuns' /\ Untouched'
          BY <2>2, <2>3, <2>4 DEF StoreInv, StoreTypeOK, DispatchedRuns, Untouched
      <3>3. RequestedOnce'
          BY <2>2, <2>3 DEF StoreInv, StoreTypeOK, RequestedOnce
      <3>4. AnnouncedOnce'
          BY <2>3, ContractStable DEF StoreInv, AnnouncedOnce
      <3>5. ReportMatchesSteps'
          BY <2>2, <2>3, <2>4 DEF StoreInv, StoreTypeOK, ReportMatchesSteps, Terminal
      <3> QED BY <3>1, <3>2, <3>3, <3>4, <3>5 DEF StoreInv
    <2>6. \A j \in Instances : ~Busy(j, w)
        BY <2>2, <2>3 DEF Carrier
    <2>7. /\ \A j \in Instances \ {i} : inst'[j] = inst[j]
          /\ inst'[i].pc = "advance" /\ inst'[i].ev = inst[i].ev
        BY <1>5 DEF MarkStep, Goto, InstTypeOK
    <2>8. /\ \A j \in Instances \ {i}, v \in Workflows : Busy(j, v)' <=> Busy(j, v)
          /\ \A v \in Workflows : Busy(i, v)' <=> v = w
        BY <2>2, <2>7 DEF Busy, WorkflowOf, w
    <2>9. Carrier'
      <3> SUFFICES ASSUME NEW v \in Workflows, NEW k \in Instances, Busy(k, v)'
                   PROVE  /\ \A j \in Instances : Busy(j, v)' => k = j
                          /\ inst'[k].pc = "setrunning" => wf'[v] = "queued"
                          /\ inst'[k].pc = "advance" => wf'[v] = "running"
                          /\ \A q \in Slots : step'[v][q] # "dispatched"
          BY DEF Carrier, At
      <3>1. CASE v = w
          BY <3>1, <2>2, <2>3, <2>4, <2>6, <2>7, <2>8 DEF StoreTypeOK
      <3>2. CASE v # w
        <4>1. k # i /\ Busy(k, v) /\ inst'[k] = inst[k] /\ wf'[v] = wf[v] /\ step'[v] = step[v]
            BY <3>2, <2>2, <2>3, <2>7, <2>8 DEF StoreTypeOK
        <4> QED BY <3>2, <4>1, <2>8 DEF Carrier, At
      <3> QED BY <3>1, <3>2
    <2> QED BY <2>5, <2>9
  <1>6. CASE Advance(i)
    <2> DEFINE w == WorkflowOf(i)
    <2>1. w \in Workflows
        BY <1>6, WorkflowOfTyped DEF Advance, At
    <2>2. Busy(i, w) /\ At(i, "advance")
        BY <1>6 DEF Advance, At, Busy
    <2> HIDE DEF w
    <2>3. wf[w] = "running" /\ \A p \in Slots : step[w][p] # "dispatched"
        BY <2>1, <2>2 DEF Carrier
    <2>4. StoreInv' /\ \A v \in Workflows \ {w} : wf'[v] = wf[v] /\ step'[v] = step[v]
        BY <1>6, <2>1, <2>3, AdvanceInv DEF Advance, Others, w
    <2>5. /\ \A j \in Instances \ {i} : inst'[j] = inst[j]
          /\ inst'[i].pc = "idle"
        BY <1>6 DEF Advance, Return, Idle, InstTypeOK
    <2>6. \A j \in Instances, v \in Workflows : Busy(j, v)' => Busy(j, v) /\ j # i /\ v # w
        BY <2>1, <2>2, <2>5 DEF Busy, WorkflowOf, Carrier
    <2> QED BY <2>4, <2>5, <2>6 DEF Carrier, At
  <1>7. CASE SaveSummary(i)
    <2>1. /\ UNCHANGED <<inputs, wf, step, requests, announced, report>> /\ Return(i)
          /\ \A w \in Workflows : summary'[w] = summary[w]
                                   \/ (wf[w] \in Terminal /\ summary'[w] = "ai")
        BY <1>7, WorkflowOfTyped DEF SaveSummary, StoreTypeOK, At
    <2>2. StoreInv'
        BY <2>1, ContractStable
           DEF StoreInv, InOrder, Ordered, DispatchedRuns, Untouched, RequestedOnce,
               AnnouncedOnce, ReportMatchesSteps
    <2> QED BY <2>1, <2>2, <1>r, CarrierKept
  <1> QED BY <1>1, <1>2, <1>3, <1>4, <1>5, <1>6, <1>7 DEF HandlerStep

LEMMA NextInv == IInv /\ [Next]_vars => IInv'
  <1> SUFFICES ASSUME IInv, [Next]_vars PROVE IInv'
      OBVIOUS
  <1> USE DEF IInv, TypeOK
  <1>t. TypeOK'
      BY NextTyped
  <1>k. ASSUME UNCHANGED <<inputs, store>>,
               \A j \in Instances : inst'[j] = inst[j] \/ inst'[j].pc \notin {"setrunning", "advance"}
        PROVE  IInv'
      BY <1>t, <1>k, StoreStutter, CarrierKept DEF store
  <1>1. ASSUME NEW i \in Instances, HandlerStep(i) PROVE IInv'
      BY <1>1, <1>t, HandlerInv
  <1>2. ASSUME NEW i \in Instances, Crash(i) \/ Raise(i) PROVE IInv'
    <2>1. UNCHANGED <<inputs, store>> /\ Return(i)
        BY <1>2 DEF Crash, Raise
    <2> QED BY <2>1, <1>k DEF Return, Idle, InstTypeOK
  <1>3. ASSUME NEW i \in Instances, NEW w \in Workflows, PostWorkflow(i, w) PROVE IInv'
      BY <1>3, <1>k DEF PostWorkflow, InstTypeOK
  <1>4. ASSUME NEW i \in Instances, NEW e \in queue, Receive(i, e) PROVE IInv'
      BY <1>4, <1>k DEF Receive, InstTypeOK
  <1>5. CASE UNCHANGED <<inputs, store, inst>>
      BY <1>5, <1>k
  <1>6. ASSUME NEW w \in Workflows, RequestWorkflow(w) PROVE IInv'
      BY <1>6, <1>5 DEF RequestWorkflow
  <1>7. ASSUME NEW w \in Workflows, NEW p \in Slots, NEW ok \in BOOLEAN, NEW kw \in BOOLEAN,
               ServiceFinishes(w, p, ok, kw)
        PROVE  IInv'
      BY <1>7, <1>5 DEF ServiceFinishes
  <1>8. CASE StrayFinishes \/ \E e \in staged : Redeliver(e)
      BY <1>8, <1>5 DEF StrayFinishes, Redeliver
  <1>9. CASE UNCHANGED vars
      BY <1>9, <1>5 DEF vars
  <1> QED BY <1>1, <1>2, <1>3, <1>4, <1>6, <1>7, <1>8, <1>9 DEF Next

(* The inductive invariant holds in every reachable state.                 *)
THEOREM Invariance == Spec => []IInv
  <1> QED BY InitInv, NextInv, PTL DEF Spec

(* Whatever is delivered twice, late, out of order or to another process,  *)
(* a workflow has at most one step in flight and works through its plan in *)
(* order (engine.advance under store.claim's row lock).                    *)
THEOREM AtMostOneInFlight == Spec => []OneInFlight
  <1>1. IInv => OneInFlight
      BY SlotFacts DEF IInv, StoreInv, TypeOK, StoreTypeOK, InOrder, Ordered, DispatchedRuns,
                       OneInFlight, Settled, StepStatus
  <1> QED BY <1>1, Invariance, PTL

(* Every job is requested exactly once, with the commit that dispatches    *)
(* its step: the outbox guarantee of engine.advance.                       *)
THEOREM JobsRequestedOnce == Spec => []RequestedOnce
  <1>1. IInv => RequestedOnce
      BY DEF IInv, StoreInv
  <1> QED BY <1>1, Invariance, PTL

(* The end of an audit is announced exactly once, unless the contract      *)
(* refuses the payload, and never before the audit is finished.            *)
THEOREM EndAnnouncedOnce == Spec => []AnnouncedOnce
  <1>1. IInv => AnnouncedOnce
      BY DEF IInv, StoreInv
  <1> QED BY <1>1, Invariance, PTL

(* The report of a finished audit shows its steps as they are.             *)
THEOREM ReportsTruthful == Spec => []ReportMatchesSteps
  <1>1. IInv => ReportMatchesSteps
      BY DEF IInv, StoreInv
  <1> QED BY <1>1, Invariance, PTL

(* The workflow's row lock is never contended: one handler at most is      *)
(* between its transactions on a workflow.                                 *)
THEOREM AdvancerUnique == Spec => []UniqueAdvancer
  <1>1. IInv => UniqueAdvancer
      BY DEF IInv, Carrier, UniqueAdvancer, Busy, At, InFlight
  <1> QED BY <1>1, Invariance, PTL

-----------------------------------------------------------------------------
(* What no step may do.                                                    *)

LEMMA AdvanceMoves ==
    ASSUME StoreTypeOK, NEW w \in Workflows, wf[w] = "running", AdvanceTx(w)
    PROVE  FinalKept /\ ForwardOnly
  <1> DEFINE Skipped(p) == [step[w] EXCEPT ![p] = "skipped"]
             From(s) == /\ s \in [Slots -> StepStatus \cup {"absent"}]
                        /\ \A p \in Slots : s[p] = step[w][p] \/ (s[p] = "skipped" /\ step[w][p] = "pending")
  <1>1. From(step[w])
      BY DEF StoreTypeOK
  <1>2. ASSUME NEW p \in Slots, NextPending(step[w], p) PROVE From(Skipped(p))
      BY <1>2 DEF StoreTypeOK, StepStatus, NextPending
  <1>3. ASSUME NEW s, From(s), NEW status, Finish(w, s, status) PROVE FinalKept /\ ForwardOnly
    <2>1. FinalKept
        BY <1>3 DEF Finish, StoreTypeOK, FinalKept, Terminal
    <2>2. ForwardOnly
        BY <1>3 DEF Finish, StoreTypeOK, ForwardOnly, StepMoves
    <2> QED BY <2>1, <2>2
  <1>4. ASSUME NEW s, From(s), NEW p \in Slots, NextPending(s, p), Dispatch(w, s, p)
        PROVE  FinalKept /\ ForwardOnly
    <2>1. FinalKept
        BY <1>4 DEF Dispatch, StoreTypeOK, FinalKept, Terminal
    <2>2. ForwardOnly
        BY <1>4 DEF Dispatch, StoreTypeOK, ForwardOnly, StepMoves, NextPending
    <2> QED BY <2>1, <2>2
  <1> HIDE DEF From
  <1>5. CASE UNCHANGED <<store, staged, queue>>
      BY <1>5 DEF store, FinalKept, ForwardOnly
  <1>6. CASE Finish(w, step[w], "failed") \/ Finish(w, step[w], "completed")
      BY <1>1, <1>3, <1>6
  <1>7. ASSUME NEW p \in Slots, NextPending(step[w], p), TryStep(w, p)
        PROVE  FinalKept /\ ForwardOnly
    <2>1. CASE Dispatch(w, step[w], p)
        BY <2>1, <1>1, <1>4, <1>7
    <2>2. CASE SkipThenTry(w, p)
      <3>1. CASE Finish(w, Skipped(p), "completed") \/ Finish(w, Skipped(p), "failed")
          BY <3>1, <1>2, <1>3, <1>7
      <3>2. ASSUME NEW q \in Slots, NextPending(Skipped(p), q), Dispatch(w, Skipped(p), q)
            PROVE  FinalKept /\ ForwardOnly
          BY <3>2, <1>2, <1>4, <1>7
      <3> QED BY <2>2, <3>1, <3>2 DEF SkipThenTry
    <2> QED BY <2>1, <2>2, <1>6, <1>7 DEF TryStep
  <1> QED BY <1>5, <1>6, <1>7 DEF AdvanceTx

LEMMA StepMovesKept == IInv /\ [Next]_vars => FinalKept /\ ForwardOnly
  <1> SUFFICES ASSUME IInv, [Next]_vars PROVE FinalKept /\ ForwardOnly
      OBVIOUS
  <1> USE DEF IInv, TypeOK
  <1>0. CASE UNCHANGED store
      BY <1>0 DEF store, FinalKept, ForwardOnly
  <1>1. ASSUME NEW i \in Instances, Create(i) PROVE FinalKept /\ ForwardOnly
    <2> DEFINE w == WorkflowOf(i)
    <2>1. w \in Workflows
        BY <1>1, WorkflowOfTyped DEF Create, At
    <2> HIDE DEF w
    <2>2. /\ wf[w] = "none" /\ wf' = [wf EXCEPT ![w] = "queued"]
          /\ step' = [step EXCEPT ![w] = Plan(w)]
          /\ UNCHANGED <<result, report, summary>>
        BY <1>1 DEF Create, w
    <2>3. \A p \in Slots : step[w][p] = "absent" /\ Plan(w)[p] \in {"pending", "absent"}
        BY <2>1, <2>2 DEF StoreInv, Untouched, Plan
    <2> QED BY <2>1, <2>2, <2>3 DEF FinalKept, ForwardOnly, StepMoves, StoreTypeOK, Terminal
  <1>2. ASSUME NEW i \in Instances, SetRunning(i) PROVE FinalKept /\ ForwardOnly
    <2>1. WorkflowOf(i) \in Workflows
        BY <1>2, WorkflowOfTyped DEF SetRunning, At
    <2>2. wf[WorkflowOf(i)] = "queued"
        BY <1>2, <2>1 DEF SetRunning, Carrier, Busy, At
    <2> QED BY <1>2, <2>1, <2>2 DEF SetRunning, FinalKept, ForwardOnly, StoreTypeOK, Terminal
  <1>3. ASSUME NEW i \in Instances, MarkStep(i) PROVE FinalKept /\ ForwardOnly
    <2> DEFINE w == inst[i].ev.job[1]
               p == inst[i].ev.job[2]
    <2>1. inst[i].ev \in StepEvents
        BY <1>3, HandlingTyped, EventFacts DEF MarkStep, Matches
    <2>2. w \in Workflows /\ p \in Slots
        BY <2>1, EventFacts, JobFacts
    <2> HIDE DEF w, p
    <2>3. PICK r \in {"completed", "failed"}, x \in {"keywords", "bare"} :
            /\ step[w][p] = "dispatched"
            /\ step' = [step EXCEPT ![w] = [step[w] EXCEPT ![p] = r]]
            /\ result' = [result EXCEPT ![w] = [result[w] EXCEPT ![p] = x]]
            /\ UNCHANGED <<wf, report, summary>>
        BY <1>3, <2>2 DEF MarkStep, Matches, StoreTypeOK, w, p
    <2>4. wf[w] = "running"
        BY <2>2, <2>3 DEF StoreInv, DispatchedRuns
    <2>5. FinalKept
        BY <2>2, <2>3, <2>4 DEF FinalKept, StoreTypeOK, Terminal
    <2>6. ForwardOnly
        BY <2>2, <2>3 DEF ForwardOnly, StepMoves, StoreTypeOK
    <2> QED BY <2>5, <2>6
  <1>4. ASSUME NEW i \in Instances, Advance(i) PROVE FinalKept /\ ForwardOnly
    <2>1. WorkflowOf(i) \in Workflows
        BY <1>4, WorkflowOfTyped DEF Advance, At
    <2>2. wf[WorkflowOf(i)] = "running"
        BY <1>4, <2>1 DEF Advance, Carrier, Busy, At
    <2> QED BY <1>4, <2>1, <2>2, AdvanceMoves DEF Advance
  <1>5. ASSUME NEW i \in Instances, SaveSummary(i) PROVE FinalKept /\ ForwardOnly
    <2>1. UNCHANGED <<wf, step, result, report>>
          /\ \A w \in Workflows : summary'[w] = summary[w] \/ summary'[w] = "ai"
        BY <1>5, WorkflowOfTyped DEF SaveSummary, StoreTypeOK, At
    <2> QED BY <2>1 DEF FinalKept, ForwardOnly
  <1>6. ASSUME NEW i \in Instances, HandlerStep(i) PROVE FinalKept /\ ForwardOnly
      BY <1>0, <1>1, <1>2, <1>3, <1>4, <1>5, <1>6
         DEF HandlerStep, DropSeen, StartExisting, StartUnplannable, StartPlanned, CreateConflict,
             IgnoreCompletion, SummaryDone, AskModel, KeepRules
  <1> QED BY <1>0, <1>6 DEF Next, Crash, Raise, PostWorkflow, Receive, RequestWorkflow,
                            ServiceFinishes, StrayFinishes, Redeliver, vars

(* A finished audit is final: neither engine.start's unconditional         *)
(* set_status nor a late completion or request reopens it or changes its   *)
(* steps, and the model's summary is never lost.                           *)
THEOREM FinishedIsFinal == Spec => FinalStays
  <1>1. IInv /\ [Next]_vars => [FinalKept]_vars
      BY StepMovesKept
  <1> QED BY <1>1, Invariance, PTL DEF Spec, FinalStays

(* A step never goes back or skips a status.                               *)
THEOREM StepsOnlyForward == Spec => StepsMoveForward
  <1>1. IInv /\ [Next]_vars => [ForwardOnly]_vars
      BY StepMovesKept
  <1> QED BY <1>1, Invariance, PTL DEF Spec, StepsMoveForward

-----------------------------------------------------------------------------
(* How an audit ends.  The invariant says why each row is where it is:     *)
(* results come with completions, only the rank check and the comparison   *)
(* are ever skipped, and the rows are those of the plan.                   *)

ResultsKept ==
    \A w \in Workflows, p \in Slots :
        step[w][p] \in {"completed", "failed"} => result[w][p] # "none"

SkippedKinds ==
    \A w \in Workflows, p \in Slots : step[w][p] = "skipped" => Kind(w, p) \in Skippable

PlanRows ==
    \A w \in Workflows, p \in Slots :
        wf[w] # "none" => (step[w][p] = "absent" <=> p > PlanLength(w))

EndInv == ResultsKept /\ SkippedKinds /\ PlanRows /\ FailureJustified /\ CompletedAudit

LEMMA PlanFacts ==
    ASSUME StoreTypeOK, NEW w \in Workflows
    PROVE  /\ Rivals(w) \in Nat /\ PlanLength(w) \in Nat /\ PlanLength(w) >= 6
           /\ 1..PlanLength(w) \subseteq Slots
           /\ PlanLength(w) = IF Rivals(w) = 0 THEN 6 ELSE Rivals(w) + 7
  <1>1. inputs[w].rivals \in 0..MaxRivals
      BY InputAssumption DEF StoreTypeOK, Inputs
  <1> QED BY <1>1, BoundAssumption DEF PlanLength, Rivals, Slots, BaseLength

LEMMA KindFacts ==
    ASSUME StoreTypeOK, NEW w \in Workflows
    PROVE  /\ Kind(w, 1) = "crawl" /\ Kind(w, 2) = "keyword_research" /\ Kind(w, 3) = "serp_check"
           /\ Kind(w, 4) = "link_analysis" /\ Kind(w, 5) = "content_analysis"
           /\ Kind(w, 6) = "optimizer_plan"
           /\ \A p \in Slots : p > 6 => Kind(w, p) = IF p <= 6 + Rivals(w) THEN "competitor_crawl"
                                                     ELSE "competitor_check"
  BY PlanFacts, SlotFacts DEF Kind, BaseKind, BaseLength

LEMMA KindStable ==
    ASSUME inputs' = inputs
    PROVE  \A w \in Workflows :
             /\ PlanLength(w)' = PlanLength(w)
             /\ \A p \in Slots : Kind(w, p)' = Kind(w, p)
             /\ \A k \in Kinds : Refused(w, k)' <=> Refused(w, k)
  BY DEF Kind, PlanLength, Rivals, Refused

LEMMA KindTyped ==
    ASSUME StoreTypeOK, NEW w \in Workflows, NEW p \in Slots
    PROVE  Kind(w, p) \in Kinds
  <1>1. p \in 1..6 \/ p > 6
      BY SlotFacts DEF Slots
  <1> QED BY <1>1, KindFacts DEF Kinds, OwnKinds, RivalKinds

(* With no fatal row, nothing in flight and p the next pending step, the   *)
(* crawl and the research before p have delivered, so that only the rank   *)
(* check and the comparison can find nothing to do.                        *)
Ready(w, p) ==
    /\ \A q \in Slots : step[w][q] # "dispatched"
    /\ ~Fatal(w, step[w])
    /\ NextPending(step[w], p)

LEMMA Delivered ==
    ASSUME StoreTypeOK, StoreInv, EndInv, NEW w \in Workflows, wf[w] = "running",
           NEW p \in Slots, Ready(w, p)
    PROVE  /\ p <= PlanLength(w)
           /\ p > 1 => HasResult(w, "crawl")
           /\ p > 2 => HasResult(w, "keyword_research")
  <1>1. p <= PlanLength(w)
      BY PlanFacts, SlotFacts DEF EndInv, PlanRows, Ready, NextPending
  <1>2. \A q \in Slots : q < p => step[w][q] \in {"completed", "failed", "skipped"}
    <2> TAKE q \in Slots
    <2> HAVE q < p
    <2>1. step[w][q] # "pending" /\ step[w][q] # "dispatched"
        BY SlotFacts DEF Ready, NextPending, Slots
    <2>2. step[w][q] # "absent"
        BY <1>1, PlanFacts, SlotFacts DEF EndInv, PlanRows
    <2> QED BY <2>1, <2>2 DEF StoreTypeOK, StepStatus
  <1>3. ASSUME NEW q \in {1, 2}, q < p PROVE result[w][q] # "none"
    <2>1. q \in Slots /\ Kind(w, q) \in {"crawl", "keyword_research"}
        BY PlanFacts, KindFacts
    <2>2. step[w][q] # "skipped"
        BY <2>1 DEF EndInv, SkippedKinds, Skippable
    <2>3. step[w][q] \in {"completed", "failed"}
        BY <1>2, <1>3, <2>1, <2>2
    <2> QED BY <2>1, <2>3 DEF EndInv, ResultsKept
  <1>4. 1 \in Slots /\ 2 \in Slots /\ Kind(w, 1) = "crawl" /\ Kind(w, 2) = "keyword_research"
      BY PlanFacts, KindFacts
  <1>5. p > 1 => HasResult(w, "crawl")
      BY <1>3, <1>4, SlotFacts DEF HasResult
  <1>6. p > 2 => HasResult(w, "keyword_research")
      BY <1>3, <1>4, SlotFacts DEF HasResult
  <1> QED BY <1>1, <1>5, <1>6

LEMMA NothingToDo ==
    ASSUME StoreTypeOK, StoreInv, EndInv, NEW w \in Workflows, wf[w] = "running",
           NEW p \in Slots, Ready(w, p), NEW s, NoWorkToDo(w, s, Kind(w, p))
    PROVE  Kind(w, p) \in Skippable /\ p \in {3, PlanLength(w)}
  <1>1. p \in 1..6 \/ p > 6
      BY SlotFacts DEF Slots
  <1>2. p <= PlanLength(w) /\ (p > 1 => HasResult(w, "crawl"))
        /\ (p > 2 => HasResult(w, "keyword_research"))
      BY Delivered
  <1>3. CASE p \in 1..6
      BY <1>2, <1>3, KindFacts DEF NoWorkToDo, Skippable
  <1>4. CASE p > 6
      BY <1>2, <1>4, KindFacts, PlanFacts, SlotFacts DEF NoWorkToDo, Skippable
  <1> QED BY <1>1, <1>3, <1>4

(* The second attempt of advance: after a skip, the next step has its      *)
(* inputs, and only a refusal can fail the audit.                          *)
LEMMA SecondAttempt ==
    ASSUME StoreTypeOK, StoreInv, EndInv, NEW w \in Workflows, wf[w] = "running",
           NEW p \in Slots, Ready(w, p), NoWorkToDo(w, step[w], Kind(w, p)),
           NEW s, s = [step[w] EXCEPT ![p] = "skipped"],
           NEW q \in Slots, NextPending(s, q)
    PROVE  ~NoWorkToDo(w, s, Kind(w, q))
  <1>1. p \in {3, PlanLength(w)} /\ step[w][p] = "pending"
      BY NothingToDo DEF Ready, NextPending
  <1>2. step[w] \in [Slots -> StepStatus \cup {"absent"}]
      BY DEF StoreTypeOK
  <1>3. q # p /\ step[w][q] = "pending"
      BY <1>1, <1>2 DEF NextPending
  <1>4. q <= PlanLength(w) /\ ~(q < p)
      BY <1>3, PlanFacts, SlotFacts DEF EndInv, PlanRows, Ready, NextPending, Slots
  <1>5. p = 3
      BY <1>1, <1>3, <1>4, PlanFacts, SlotFacts
  <1>6. step[w][4] # "absent" /\ 4 \in Slots
      BY PlanFacts DEF EndInv, PlanRows
  <1>7. step[w][4] = "pending"
      BY <1>1, <1>5, <1>6 DEF StoreInv, InOrder, Ordered
  <1>8. q = 4
    <2>1. q \in Nat /\ q > 3
        BY <1>3, <1>4, <1>5, SlotFacts
    <2>2. s[4] = "pending"
        BY <1>2, <1>5, <1>6, <1>7
    <2>3. ~(4 \in 1..(q - 1))
        BY <2>2 DEF NextPending
    <2> QED BY <2>1, <2>3
  <1>9. HasResult(w, "crawl")
      BY <1>5, Delivered
  <1> QED BY <1>8, <1>9, KindFacts DEF NoWorkToDo

(* The rows s of w may become its rows: some steps that can be skipped are. *)
Grown(w, s) ==
    /\ s \in [Slots -> StepStatus \cup {"absent"}]
    /\ \A p \in Slots :
         s[p] = step[w][p] \/ (s[p] = "skipped" /\ step[w][p] = "pending" /\ Kind(w, p) \in Skippable)

(* What _finish is given: rows that justify the status it writes.          *)
Earned(w, s, status) ==
    \/ /\ status = "failed"
       /\ \/ Fatal(w, s)
          \/ \E p \in Slots : NextPending(s, p) /\ Refused(w, Kind(w, p))
    \/ /\ status = "completed"
       /\ ~Fatal(w, s) /\ NonePending(s)

LEMMA FinishEnds ==
    ASSUME StoreTypeOK, EndInv, NEW w \in Workflows, wf[w] = "running",
           NEW s, Grown(w, s), \A p \in Slots : s[p] # "dispatched",
           NEW status, Earned(w, s, status), Finish(w, s, status), inputs' = inputs
    PROVE  EndInv'
  <1>1. /\ wf'[w] = status /\ step'[w] = s /\ result' = result
        /\ \A v \in Workflows \ {w} : wf'[v] = wf[v] /\ step'[v] = step[v]
      BY DEF Finish, StoreTypeOK
  <1>2. ResultsKept'
      BY <1>1 DEF EndInv, ResultsKept, Grown
  <1>3. SkippedKinds'
      BY <1>1, KindStable DEF EndInv, SkippedKinds, Grown
  <1>4. PlanRows'
      BY <1>1, KindStable DEF EndInv, PlanRows, Grown
  <1>5. FailureJustified'
    <2> SUFFICES ASSUME NEW v \in Workflows, wf'[v] = "failed"
                 PROVE  \/ \E p \in Slots : step'[v][p] = "failed" /\ Kind(v, p) # "competitor_crawl"
                        \/ \E p \in Slots : NextPending(step'[v], p) /\ Refused(v, Kind(v, p))
        BY KindStable, KindTyped DEF FailureJustified, NextPending
    <2>1. CASE v = w
        BY <1>1, <2>1 DEF Earned, Fatal, OptionalKinds
    <2>2. CASE v # w
        BY <1>1, <2>2 DEF EndInv, FailureJustified
    <2> QED BY <2>1, <2>2
  <1>6. CompletedAudit'
    <2> SUFFICES ASSUME NEW v \in Workflows, wf'[v] = "completed", NEW p \in 1..PlanLength(v)
                 PROVE  /\ step'[v][p] \in Settled
                        /\ step'[v][p] = "failed" => Kind(v, p) = "competitor_crawl"
                        /\ step'[v][p] = "skipped" => Kind(v, p) \in {"serp_check", "competitor_check"}
      <3>1. \A v \in Workflows : 1..PlanLength(v) \subseteq Slots
          BY PlanFacts
      <3> QED BY <3>1, KindStable DEF CompletedAudit
    <2>0. p \in Slots
        BY PlanFacts
    <2>1. CASE v = w
      <3>1. s[p] # "absent"
          BY <2>0, <2>1, PlanFacts, SlotFacts DEF EndInv, PlanRows, Grown
      <3>2. s[p] # "pending" /\ s[p] # "dispatched" /\ ~Fatal(w, s)
          BY <1>1, <2>0, <2>1 DEF Earned, NonePending
      <3>3. s[p] \in Settled
          BY <2>0, <3>1, <3>2 DEF Grown, StepStatus, Settled
      <3>4. s[p] = "failed" => Kind(w, p) = "competitor_crawl"
          BY <2>0, <3>2 DEF Fatal, OptionalKinds
      <3>5. s[p] = "skipped" => Kind(w, p) \in Skippable
          BY <2>0 DEF Grown, EndInv, SkippedKinds
      <3> QED BY <1>1, <2>1, <3>3, <3>4, <3>5 DEF Skippable
    <2>2. CASE v # w
        BY <1>1, <2>2 DEF EndInv, CompletedAudit
    <2> QED BY <2>1, <2>2
  <1> QED BY <1>2, <1>3, <1>4, <1>5, <1>6 DEF EndInv

(* A step of a running workflow changes its rows but no finished one.      *)
LEMMA RunningEnds ==
    ASSUME StoreTypeOK, EndInv, NEW w \in Workflows, NEW s, inputs' = inputs,
           wf'[w] \in {"queued", "running"}, step'[w] = s,
           \A p \in Slots : s[p] \in {"completed", "failed"} => result'[w][p] # "none",
           \A p \in Slots : s[p] = "skipped" => Kind(w, p) \in Skippable,
           \A p \in Slots : s[p] = "absent" <=> p > PlanLength(w),
           \A v \in Workflows \ {w} : wf'[v] = wf[v] /\ step'[v] = step[v] /\ result'[v] = result[v]
    PROVE  EndInv'
  <1>1. ResultsKept'
      BY DEF EndInv, ResultsKept
  <1>2. SkippedKinds'
      BY KindStable DEF EndInv, SkippedKinds
  <1>3. PlanRows'
      BY KindStable DEF EndInv, PlanRows
  <1>4. FailureJustified'
      BY KindStable, KindTyped DEF EndInv, FailureJustified, NextPending
  <1>5. CompletedAudit'
    <2>1. \A v \in Workflows : 1..PlanLength(v) \subseteq Slots
        BY PlanFacts
    <2> QED BY <2>1, KindStable DEF EndInv, CompletedAudit
  <1> QED BY <1>1, <1>2, <1>3, <1>4, <1>5 DEF EndInv

LEMMA DispatchEnds ==
    ASSUME StoreTypeOK, EndInv, NEW w \in Workflows, wf[w] = "running",
           NEW s, Grown(w, s), NEW p \in Slots, NextPending(s, p), Dispatch(w, s, p), inputs' = inputs
    PROVE  EndInv'
  <1> DEFINE t == [s EXCEPT ![p] = "dispatched"]
  <1>1. /\ wf'[w] = "running" /\ step'[w] = t /\ result' = result
        /\ \A v \in Workflows \ {w} : wf'[v] = wf[v] /\ step'[v] = step[v]
      BY DEF Dispatch, StoreTypeOK
  <1>2. /\ \A q \in Slots : t[q] = IF q = p THEN "dispatched" ELSE s[q]
        /\ s[p] = "pending"
      BY DEF Grown, NextPending
  <1> HIDE DEF t
  <1>3. \A q \in Slots : t[q] \in {"completed", "failed"} => result'[w][q] # "none"
      BY <1>1, <1>2 DEF Grown, EndInv, ResultsKept
  <1>4. \A q \in Slots : t[q] = "skipped" => Kind(w, q) \in Skippable
      BY <1>2 DEF Grown, EndInv, SkippedKinds
  <1>5. \A q \in Slots : t[q] = "absent" <=> q > PlanLength(w)
    <2> TAKE q \in Slots
    <2>1. step[w][q] = "absent" <=> q > PlanLength(w)
        BY DEF EndInv, PlanRows
    <2>2. t[q] = "absent" <=> step[w][q] = "absent"
        BY <1>2 DEF Grown
    <2> QED BY <2>1, <2>2
  <1> QED BY <1>1, <1>3, <1>4, <1>5, RunningEnds

LEMMA AdvanceEnds ==
    ASSUME StoreTypeOK, StoreInv, EndInv, NEW w \in Workflows, wf[w] = "running",
           \A p \in Slots : step[w][p] # "dispatched", AdvanceTx(w), inputs' = inputs
    PROVE  EndInv'
  <1>1. Grown(w, step[w])
      BY DEF Grown, StoreTypeOK
  <1>2. CASE Fatal(w, step[w])
      BY <1>1, <1>2, FinishEnds DEF AdvanceTx, Terminal, Earned
  <1>3. CASE ~Fatal(w, step[w]) /\ NonePending(step[w])
      BY <1>1, <1>3, FinishEnds DEF AdvanceTx, Terminal, Earned, InFlight
  <1>4. ASSUME ~Fatal(w, step[w]), NEW p \in Slots, NextPending(step[w], p), TryStep(w, p)
        PROVE  EndInv'
    <2> DEFINE k == Kind(w, p)
               s == [step[w] EXCEPT ![p] = "skipped"]
    <2>0. Ready(w, p)
        BY <1>4 DEF Ready
    <2>1. CASE ~NoWorkToDo(w, step[w], k) /\ Refused(w, k)
      <3>1. Earned(w, step[w], "failed") /\ Finish(w, step[w], "failed")
          BY <1>4, <2>1 DEF TryStep, Earned
      <3> QED BY <1>1, <3>1, FinishEnds
    <2>2. CASE ~NoWorkToDo(w, step[w], k) /\ ~Refused(w, k)
      <3>1. Dispatch(w, step[w], p)
          BY <1>4, <2>2 DEF TryStep
      <3> QED BY <1>1, <1>4, <3>1, DispatchEnds
    <2>3. CASE NoWorkToDo(w, step[w], k)
      <3>1. k \in Skippable
          BY <2>0, <2>3, NothingToDo
      <3>2. /\ s \in [Slots -> StepStatus \cup {"absent"}]
            /\ \A q \in Slots : s[q] = IF q = p THEN "skipped" ELSE step[w][q]
            /\ step[w][p] = "pending"
          BY <1>4 DEF StoreTypeOK, StepStatus, NextPending
      <3>3. SkipThenTry(w, p)
          BY <1>4, <2>3 DEF TryStep
      <3>4. CASE NonePending(s)
        <4>1. Finish(w, s, "completed")
            BY <3>3, <3>4 DEF SkipThenTry
        <4> HIDE DEF s, k
        <4>2. Grown(w, s) /\ (\A q \in Slots : s[q] # "dispatched") /\ ~Fatal(w, s)
            BY <3>1, <3>2, <1>4 DEF Grown, Fatal, k
        <4>3. Earned(w, s, "completed")
            BY <3>4, <4>2 DEF Earned
        <4> QED BY <4>1, <4>2, <4>3, FinishEnds
      <3>5. CASE ~NonePending(s)
        <4>1. PICK q \in Slots :
                /\ NextPending(s, q)
                /\ IF CanDispatch(w, s, Kind(w, q)) THEN Dispatch(w, s, q) ELSE Finish(w, s, "failed")
            BY <3>3, <3>5 DEF SkipThenTry
        <4>2. ~NoWorkToDo(w, s, Kind(w, q))
            BY <2>0, <2>3, <4>1, SecondAttempt
        <4> HIDE DEF s, k
        <4>3. Grown(w, s) /\ (\A r \in Slots : s[r] # "dispatched")
            BY <3>1, <3>2 DEF Grown, k
        <4>4. CASE Refused(w, Kind(w, q))
          <5>1. Earned(w, s, "failed") /\ Finish(w, s, "failed")
              BY <4>1, <4>4 DEF Earned, CanDispatch
          <5> QED BY <4>3, <5>1, FinishEnds
        <4>5. CASE ~Refused(w, Kind(w, q))
            BY <4>1, <4>2, <4>3, <4>5, DispatchEnds DEF CanDispatch
        <4> QED BY <4>4, <4>5
      <3> QED BY <3>4, <3>5
    <2> QED BY <2>1, <2>2, <2>3
  <1> QED BY <1>2, <1>3, <1>4 DEF AdvanceTx, InFlight, Terminal

LEMMA NextEnds == IInv /\ EndInv /\ [Next]_vars => EndInv'
  <1> SUFFICES ASSUME IInv, EndInv, [Next]_vars PROVE EndInv'
      OBVIOUS
  <1> USE DEF IInv, TypeOK
  <1>0. ASSUME UNCHANGED <<inputs, wf, step, result>> PROVE EndInv'
    <2>1. ResultsKept' /\ SkippedKinds' /\ PlanRows'
        BY <1>0, KindStable DEF EndInv, ResultsKept, SkippedKinds, PlanRows
    <2>2. FailureJustified'
        BY <1>0, KindStable, KindTyped DEF EndInv, FailureJustified, NextPending
    <2>3. \A v \in Workflows : 1..PlanLength(v) \subseteq Slots
        BY PlanFacts
    <2>4. CompletedAudit'
        BY <1>0, <2>3, KindStable DEF EndInv, CompletedAudit
    <2> QED BY <2>1, <2>2, <2>4 DEF EndInv
  <1>1. ASSUME NEW i \in Instances, Create(i) PROVE EndInv'
    <2> DEFINE w == WorkflowOf(i)
    <2>1. w \in Workflows
        BY <1>1, WorkflowOfTyped DEF Create, At
    <2>2. /\ inputs' = inputs /\ wf'[w] = "queued" /\ step'[w] = Plan(w) /\ result' = result
          /\ \A v \in Workflows \ {w} : wf'[v] = wf[v] /\ step'[v] = step[v]
        BY <1>1, <2>1 DEF Create, StoreTypeOK
    <2> HIDE DEF w
    <2>3. \A p \in Slots : Plan(w)[p] = IF p <= PlanLength(w) THEN "pending" ELSE "absent"
        BY DEF Plan
    <2>4. \A p \in Slots : Plan(w)[p] = "absent" <=> p > PlanLength(w)
        BY <2>1, <2>3, PlanFacts, SlotFacts
    <2> QED BY <2>1, <2>2, <2>3, <2>4, RunningEnds
  <1>2. ASSUME NEW i \in Instances, SetRunning(i) PROVE EndInv'
    <2> DEFINE w == WorkflowOf(i)
    <2>1. w \in Workflows
        BY <1>2, WorkflowOfTyped DEF SetRunning, At
    <2>2. /\ inputs' = inputs /\ wf'[w] = "running" /\ step' = step /\ result' = result
          /\ \A v \in Workflows \ {w} : wf'[v] = wf[v]
          /\ wf[w] = "queued"
        BY <1>2, <2>1 DEF SetRunning, StoreTypeOK, Carrier, Busy, At
    <2> HIDE DEF w
    <2> QED BY <2>1, <2>2, RunningEnds DEF EndInv, ResultsKept, SkippedKinds, PlanRows
  <1>3. ASSUME NEW i \in Instances, MarkStep(i) PROVE EndInv'
    <2> DEFINE w == inst[i].ev.job[1]
               p == inst[i].ev.job[2]
    <2>1. inst[i].ev \in StepEvents
        BY <1>3, HandlingTyped, EventFacts DEF MarkStep, Matches
    <2>2. w \in Workflows /\ p \in Slots
        BY <2>1, EventFacts, JobFacts
    <2> HIDE DEF w, p
    <2>3. PICK r \in {"completed", "failed"}, x \in {"keywords", "bare"} :
            /\ step[w][p] = "dispatched"
            /\ step' = [step EXCEPT ![w] = [step[w] EXCEPT ![p] = r]]
            /\ result' = [result EXCEPT ![w] = [result[w] EXCEPT ![p] = x]]
            /\ UNCHANGED <<inputs, wf>>
        BY <1>3, <2>2 DEF MarkStep, Matches, StoreTypeOK, w, p
    <2>4. wf[w] = "running"
        BY <2>2, <2>3 DEF StoreInv, DispatchedRuns
    <2>5. /\ \A q \in Slots : step'[w][q] = IF q = p THEN r ELSE step[w][q]
          /\ \A q \in Slots : result'[w][q] = IF q = p THEN x ELSE result[w][q]
          /\ \A v \in Workflows \ {w} : step'[v] = step[v] /\ result'[v] = result[v]
        BY <2>2, <2>3 DEF StoreTypeOK
    <2>6. \A q \in Slots : step'[w][q] \in {"completed", "failed"} => result'[w][q] # "none"
        BY <2>2, <2>5 DEF EndInv, ResultsKept
    <2>7. \A q \in Slots : step'[w][q] = "skipped" => Kind(w, q) \in Skippable
        BY <2>2, <2>5 DEF EndInv, SkippedKinds
    <2>8. \A q \in Slots : step'[w][q] = "absent" <=> q > PlanLength(w)
        BY <2>2, <2>3, <2>4, <2>5 DEF EndInv, PlanRows
    <2>9. inputs' = inputs /\ wf'[w] = "running" /\ \A v \in Workflows : wf'[v] = wf[v]
        BY <2>3, <2>4
    <2> QED BY <2>2, <2>5, <2>6, <2>7, <2>8, <2>9, RunningEnds
  <1>4. ASSUME NEW i \in Instances, Advance(i) PROVE EndInv'
    <2>1. WorkflowOf(i) \in Workflows
        BY <1>4, WorkflowOfTyped DEF Advance, At
    <2>2. wf[WorkflowOf(i)] = "running" /\ \A p \in Slots : step[WorkflowOf(i)][p] # "dispatched"
        BY <1>4, <2>1 DEF Advance, Carrier, Busy, At
    <2> QED BY <1>4, <2>1, <2>2, AdvanceEnds DEF Advance
  <1>5. ASSUME NEW i \in Instances, HandlerStep(i) PROVE EndInv'
      BY <1>0, <1>1, <1>2, <1>3, <1>4, <1>5
         DEF HandlerStep, DropSeen, StartExisting, StartUnplannable, StartPlanned, CreateConflict,
             IgnoreCompletion, SummaryDone, AskModel, KeepRules, SaveSummary, store
  <1> QED BY <1>0, <1>5 DEF Next, Crash, Raise, PostWorkflow, Receive, RequestWorkflow,
                            ServiceFinishes, StrayFinishes, Redeliver, vars, store

LEMMA InitEnds == Init => EndInv
  <1> SUFFICES ASSUME Init PROVE EndInv
      OBVIOUS
  <1>1. ResultsKept /\ SkippedKinds /\ PlanRows
      BY DEF Init, ResultsKept, SkippedKinds, PlanRows
  <1>2. FailureJustified /\ CompletedAudit
      BY DEF Init, FailureJustified, CompletedAudit
  <1> QED BY <1>1, <1>2 DEF EndInv

LEMMA EndInvariance == Spec => []EndInv
  <1> QED BY InitEnds, NextEnds, Invariance, PTL DEF Spec

(* An audit fails only for a step of the site's own analysis that failed   *)
(* or a request that was refused: the second attempt of engine.advance     *)
(* never turns a step that has nothing to do into a failure.               *)
THEOREM FailuresJustified == Spec => []FailureJustified
  <1>1. EndInv => FailureJustified
      BY DEF EndInv
  <1> QED BY <1>1, EndInvariance, PTL

(* A completed audit has settled its whole plan, and only the rank check   *)
(* and the comparison can have been skipped.                               *)
THEOREM CompletedMeansDone == Spec => []CompletedAudit
  <1>1. EndInv => CompletedAudit
      BY DEF EndInv
  <1> QED BY <1>1, EndInvariance, PTL

(* Without faults only a workflow.requested is ever dead-lettered, and     *)
(* only when its inputs cannot be planned or its workflow exists already.  *)
THEOREM DeadLettersJustified == Spec => []DeadJustified
  <1>1. Init => DeadJustified
      BY DEF Init, DeadJustified
  <1>2. ASSUME TypeOK, DeadJustified, [Next]_vars PROVE DeadJustified'
    <2> USE DEF TypeOK
    <2>1. ASSUME UNCHANGED <<inputs, dead, faults>>,
                 \A w \in Workflows : wf[w] # "none" => wf'[w] # "none"
          PROVE  DeadJustified'
        BY <1>2, <2>1, EventFacts DEF DeadJustified
    <2>2. ASSUME NEW i \in Instances, StartUnplannable(i) \/ CreateConflict(i)
          PROVE  DeadJustified'
      <3>1. /\ UNCHANGED <<inputs, wf, faults>>
            /\ dead' \subseteq dead \cup ({inst[i].ev} \cap Events)
          BY <1>2, <2>2, HandlingTyped DEF StartUnplannable, CreateConflict, store, Events
      <3>2. inst[i].ev \in Events =>
                inst[i].ev \in RequestedEvents
                /\ (~inputs[inst[i].ev.wf].plannable \/ wf[inst[i].ev.wf] # "none")
          BY <1>2, <2>2, HandlingTyped, EventFacts, EventsTyped
             DEF StartUnplannable, CreateConflict, InstTypeOK, Starting, WorkflowOf, At
      <3> QED BY <1>2, <3>1, <3>2 DEF DeadJustified
    <2>3. ASSUME NEW i \in Instances, Crash(i) \/ Raise(i) PROVE DeadJustified'
        BY <1>2, <2>3 DEF Crash, Raise, BusTypeOK, DeadJustified
    <2>4. ASSUME NEW i \in Instances, Create(i) \/ SetRunning(i) \/ Advance(i) PROVE DeadJustified'
      <3>1. WorkflowOf(i) \in Workflows /\ UNCHANGED <<inputs, dead, faults>>
          BY <1>2, <2>4, WorkflowOfTyped DEF Create, SetRunning, Advance, At, bus
      <3>2. ASSUME NEW w \in Workflows, AdvanceTx(w), NEW v \in Workflows, wf[v] # "none"
            PROVE  wf'[v] # "none"
        <4>1. ASSUME NEW s, NEW status \in Terminal, Finish(w, s, status) PROVE wf'[v] # "none"
            BY <1>2, <3>2, <4>1 DEF Finish, StoreTypeOK, Terminal
        <4>2. ASSUME NEW s, NEW p, Dispatch(w, s, p) PROVE wf'[v] # "none"
            BY <1>2, <3>2, <4>2 DEF Dispatch, StoreTypeOK
        <4>3. ASSUME NEW p \in Slots, TryStep(w, p) PROVE wf'[v] # "none"
            BY <4>1, <4>2, <4>3 DEF TryStep, SkipThenTry, Terminal
        <4> QED BY <3>2, <4>1, <4>3 DEF AdvanceTx, Terminal, store
      <3>3. \A w \in Workflows : wf[w] # "none" => wf'[w] # "none"
          BY <1>2, <2>4, <3>1, <3>2 DEF Create, SetRunning, Advance, StoreTypeOK
      <3> QED BY <2>1, <3>1, <3>3
    <2>5. ASSUME NEW i \in Instances, HandlerStep(i) PROVE DeadJustified'
        BY <2>1, <2>2, <2>4, <2>5
           DEF HandlerStep, DropSeen, StartExisting, StartPlanned, MarkStep, IgnoreCompletion,
               SummaryDone, AskModel, KeepRules, SaveSummary, store, bus
    <2> QED BY <1>2, <2>1, <2>3, <2>5
            DEF Next, PostWorkflow, Receive, RequestWorkflow, ServiceFinishes, StrayFinishes,
                Redeliver, vars, store, bus
  <1> QED BY <1>1, <1>2, TypeCorrect, PTL DEF Spec

-----------------------------------------------------------------------------
(* Implementing Audit: the mapped variables follow the rows of one workflow.*)

LEMMA OutcomeMoves ==
    ASSUME StoreTypeOK, NEW w \in Workflows, NEW s, step' = [step EXCEPT ![w] = s]
    PROVE  /\ AuditOutcome' = [AuditOutcome EXCEPT ![w] = Outcomes(s)]
           /\ AuditJob' = [AuditJob EXCEPT ![w] = JobOut(s)]
  BY DEF AuditOutcome, AuditJob, StoreTypeOK

LEMMA SaidKept ==
    ASSUME NEW E \in SUBSET (FinishedEvents \cup RequestedEvents \cup StrayEvents), staged' = staged \cup E
    PROVE  AuditSaid' = AuditSaid
  <1>1. \A e \in E : e.type # "done" \/ e.job = NoStep
      BY EventFacts
  <1>2. Answers' = Answers
      BY <1>1 DEF Answers
  <1> QED BY <1>2 DEF AuditSaid

LEMMA FixedKept ==
    ASSUME inputs' = inputs
    PROVE  AuditPlan' = AuditPlan /\ AuditRefused' = AuditRefused
  BY DEF AuditPlan, AuditRefused, Kind, PlanLength, Rivals

(* The rows s are those of w with p the first step that is not settled, and *)
(* the step before p skipped, if it had nothing to do.                      *)
Stands(w, s, p) ==
    /\ s \in [Slots -> StepStatus \cup {"absent"}]
    /\ p \in 1..(PlanLength(w) + 1)
    /\ \A q \in Slots : IF q < p THEN s[q] \in Settled ELSE s[q] \in {"pending", "absent"}
    /\ \A q \in Slots :
         \/ s[q] = step[w][q]
         \/ q = p - 1 /\ s[q] = "skipped" /\ step[w][q] = "pending" /\ Kind(w, q) \in Skippable

LEMMA StandsReached ==
    ASSUME StoreTypeOK, NEW w \in Workflows, NEW s, NEW p, Stands(w, s, p)
    PROVE  A!Reached(w, p) /\ A!Passed(w, p) = Outcomes(s)
  <1>0. 1..PlanLength(w) \subseteq Slots /\ PlanLength(w) \in Nat /\ p \in Nat
      BY PlanFacts DEF Stands
  <1>1. \A q \in Slots : AuditOutcome[w][q] = IF step[w][q] \in Settled THEN step[w][q] ELSE "open"
      BY DEF AuditOutcome, Outcomes
  <1>2. \A q \in 1..PlanLength(w) : AuditPlan[w][q] = Kind(w, q)
      BY DEF AuditPlan
  <1>3. A!Reached(w, p)
    <2> SUFFICES ASSUME NEW q \in 1..(p - 1), AuditOutcome[w][q] = "open"
                 PROVE  q = p - 1 /\ AuditPlan[w][q] \in Skippable
        BY DEF A!Reached
    <2>1. q \in 1..PlanLength(w) /\ q \in Slots /\ q < p
        BY <1>0 DEF Stands
    <2>2. s[q] \in Settled /\ step[w][q] \notin Settled
        BY <1>1, <2>1 DEF Stands, Settled
    <2>3. q = p - 1 /\ Kind(w, q) \in Skippable
        BY <2>1, <2>2 DEF Stands
    <2> QED BY <1>2, <2>1, <2>3
  <1>4. ASSUME NEW q \in Slots
        PROVE  (IF q < p /\ AuditOutcome[w][q] = "open" THEN "skipped" ELSE AuditOutcome[w][q])
               = IF s[q] \in Settled THEN s[q] ELSE "open"
    <2>1. CASE q < p
        BY <1>1, <2>1 DEF Stands, Settled
    <2>2. CASE ~(q < p)
      <3>1. s[q] = step[w][q] \/ q = p - 1
          BY DEF Stands
      <3>2. q \in Nat
          BY SlotFacts
      <3>3. s[q] = step[w][q]
          BY <1>0, <2>2, <3>1, <3>2
      <3> QED BY <1>1, <2>2, <3>3 
    <2> QED BY <2>1, <2>2
  <1> QED BY <1>3, <1>4 DEF A!Passed, Outcomes

LEMMA DoomedFatal ==
    ASSUME StoreTypeOK, EndInv, NEW w \in Workflows, wf[w] = "running"
    PROVE  A!Doomed(w) <=> Fatal(w, step[w])
  <1>0. 1..PlanLength(w) \subseteq Slots /\ PlanLength(w) \in Nat
      BY PlanFacts
  <1>1. DOMAIN AuditPlan[w] = 1..PlanLength(w) /\ \A p \in 1..PlanLength(w) : AuditPlan[w][p] = Kind(w, p)
      BY DEF AuditPlan
  <1>2. \A p \in Slots : AuditOutcome[w][p] = "failed" <=> step[w][p] = "failed"
      BY DEF AuditOutcome, Outcomes, Settled
  <1>3. \A p \in Slots : step[w][p] = "failed" => p \in 1..PlanLength(w)
    <2> TAKE p \in Slots
    <2> HAVE step[w][p] = "failed"
    <2>1. p \in Nat /\ p >= 1 /\ ~(p > PlanLength(w))
        BY SlotFacts DEF EndInv, PlanRows, Slots
    <2> QED BY <1>0, <2>1
  <1> QED BY <1>0, <1>1, <1>2, <1>3 DEF A!Doomed, A!Planned, Fatal, OptionalKinds

(* Where advance stands when it reads the rows, and after it skipped a step.*)
LEMMA StandsNext ==
    ASSUME StoreTypeOK, StoreInv, EndInv, NEW w \in Workflows, wf[w] = "running",
           \A q \in Slots : step[w][q] # "dispatched",
           NEW p \in Slots, NextPending(step[w], p)
    PROVE  p \in 1..PlanLength(w) /\ Stands(w, step[w], p)
  <1>0. step[w] \in [Slots -> StepStatus \cup {"absent"}] /\ step[w][p] = "pending"
      BY DEF StoreTypeOK, NextPending
  <1>1. p \in 1..PlanLength(w) /\ PlanLength(w) \in Nat
      BY <1>0, PlanFacts, SlotFacts DEF EndInv, PlanRows, Slots
  <1>2. ASSUME NEW q \in Slots, q < p PROVE step[w][q] \in Settled
    <2>1. q \in 1..(p - 1) /\ ~(q > PlanLength(w))
        BY <1>1, <1>2, SlotFacts DEF Slots
    <2>2. step[w][q] # "pending" /\ step[w][q] # "absent"
        BY <2>1 DEF NextPending, EndInv, PlanRows
    <2> QED BY <1>0, <2>2 DEF StepStatus, Settled
  <1>3. ASSUME NEW q \in Slots, ~(q < p) PROVE step[w][q] \in {"pending", "absent"}
    <2>1. q = p \/ p < q
        BY <1>3, SlotFacts
    <2> QED BY <1>0, <2>1 DEF StoreInv, InOrder, Ordered
  <1> QED BY <1>0, <1>1, <1>2, <1>3 DEF Stands

LEMMA StandsEnd ==
    ASSUME StoreTypeOK, StoreInv, EndInv, NEW w \in Workflows, wf[w] = "running",
           \A q \in Slots : step[w][q] # "dispatched", NonePending(step[w])
    PROVE  Stands(w, step[w], PlanLength(w) + 1)
  <1>0. step[w] \in [Slots -> StepStatus \cup {"absent"}] /\ PlanLength(w) \in Nat
      BY PlanFacts DEF StoreTypeOK
  <1>1. \A q \in Slots : step[w][q] = "absent" <=> ~(q < PlanLength(w) + 1)
      BY <1>0, SlotFacts DEF EndInv, PlanRows
  <1>2. \A q \in Slots : step[w][q] \in Settled \/ step[w][q] = "absent"
      BY <1>0 DEF NonePending, StepStatus, Settled
  <1>3. PlanLength(w) + 1 \in 1..(PlanLength(w) + 1)
      BY <1>0
  <1> QED BY <1>0, <1>1, <1>2, <1>3 DEF Stands, Settled

(* Skipping the step where it stands moves it on by one.                    *)
LEMMA StandsSkipped ==
    ASSUME StoreTypeOK, StoreInv, EndInv, NEW w \in Workflows, wf[w] = "running",
           \A q \in Slots : step[w][q] # "dispatched",
           NEW p \in Slots, NextPending(step[w], p), Kind(w, p) \in Skippable,
           NEW s, s = [step[w] EXCEPT ![p] = "skipped"]
    PROVE  /\ p + 1 \in 1..(PlanLength(w) + 1) /\ Stands(w, s, p + 1)
           /\ \A q \in Slots : NextPending(s, q) => q = p + 1
           /\ NonePending(s) => p = PlanLength(w)
  <1>0. p \in 1..PlanLength(w) /\ Stands(w, step[w], p)
      BY StandsNext
  <1>1. PlanLength(w) \in Nat /\ p \in Nat /\ step[w][p] = "pending"
      BY SlotFacts, PlanFacts DEF NextPending
  <1>2. /\ s \in [Slots -> StepStatus \cup {"absent"}]
        /\ \A q \in Slots : s[q] = IF q = p THEN "skipped" ELSE step[w][q]
      BY DEF StoreTypeOK, StepStatus
  <1>3. \A q \in Slots : q \in Nat /\ (q < p + 1 <=> q < p \/ q = p)
      BY <1>1, SlotFacts
  <1>4. \A q \in Slots : IF q < p + 1 THEN s[q] \in Settled ELSE s[q] \in {"pending", "absent"}
      BY <1>0, <1>2, <1>3 DEF Stands, Settled
  <1>5. p + 1 \in 1..(PlanLength(w) + 1) /\ p = (p + 1) - 1
      BY <1>0, <1>1
  <1>6. Stands(w, s, p + 1)
      BY <1>1, <1>2, <1>4, <1>5 DEF Stands
  <1>7. ASSUME NEW q \in Slots, NextPending(s, q) PROVE q = p + 1
    <2>1. q \in Nat /\ s[q] = "pending" /\ q >= p + 1
        BY <1>1, <1>3, <1>4, <1>7 DEF NextPending, Settled
    <2>2. SUFFICES ASSUME q > p + 1 PROVE FALSE
        BY <1>1, <2>1
    <2>3. p + 1 \in Slots /\ p + 1 \in 1..(q - 1)
        BY <1>1, <2>1, <2>2, BoundAssumption DEF Slots, BaseLength
    <2>4. step[w][p + 1] # "pending"
        BY <1>1, <1>2, <1>7, <2>3 DEF NextPending
    <2>5. step[w][p + 1] = "absent"
        BY <1>1, <1>4, <1>2, <2>3, <2>4
    <2>6. p + 1 > PlanLength(w)
        BY <2>3, <2>5 DEF EndInv, PlanRows
    <2>7. step[w][q] = "pending"
        BY <1>1, <1>2, <2>1
    <2>8. ~(q > PlanLength(w))
        BY <2>7 DEF EndInv, PlanRows
    <2> QED BY <1>1, <2>1, <2>2, <2>6, <2>8
  <1>8. ASSUME NonePending(s), p # PlanLength(w) PROVE FALSE
    <2>1. p + 1 \in 1..PlanLength(w) /\ p + 1 \in Slots
        BY <1>0, <1>1, <1>8, PlanFacts
    <2>2. s[p + 1] = "absent"
        BY <1>4, <1>8, <2>1, <1>1 DEF NonePending
    <2>3. step[w][p + 1] = "absent"
        BY <1>1, <1>2, <2>1, <2>2
    <2>4. p + 1 > PlanLength(w)
        BY <2>1, <2>3 DEF EndInv, PlanRows
    <2> QED BY <1>1, <2>1, <2>4
  <1> QED BY <1>5, <1>6, <1>7, <1>8

(* The transactions of advance, as steps of Audit.                          *)
LEMMA DispatchAsks ==
    ASSUME StoreTypeOK, EndInv, NEW w \in Workflows, wf[w] = "running",
           \A q \in Slots : step[w][q] # "dispatched", ~Fatal(w, step[w]),
           NEW p \in 1..PlanLength(w), NEW s, Stands(w, s, p), s[p] = "pending",
           ~Refused(w, Kind(w, p)), Dispatch(w, s, p), inputs' = inputs
    PROVE  A!Ask(w)
  <1> DEFINE t == [s EXCEPT ![p] = "dispatched"]
  <1>0. /\ p \in Slots /\ s \in [Slots -> StepStatus \cup {"absent"}]
        /\ p \in Nat /\ p # 0
      BY PlanFacts, SlotFacts DEF Stands
  <1>1. /\ step' = [step EXCEPT ![w] = t]
        /\ wf' = [wf EXCEPT ![w] = "running"]
        /\ requests' = [requests EXCEPT ![w][p] = @ + 1]
        /\ UNCHANGED <<announced, report, staged>>
      BY DEF Dispatch
  <1>2. \A q \in Slots : t[q] = IF q = p THEN "dispatched" ELSE s[q]
      BY <1>0
  <1>3. \A q \in Slots : s[q] # "dispatched"
      BY DEF Stands
  <1> HIDE DEF t
  <1>4. Outcomes(t) = Outcomes(s)
      BY <1>0, <1>2 DEF Outcomes, Settled
  <1>5. JobOut(t) = p
      BY <1>0, <1>2, <1>3 DEF JobOut, InFlight
  <1>6. AuditOutcome' = [AuditOutcome EXCEPT ![w] = A!Passed(w, p)]
        /\ AuditJob' = [AuditJob EXCEPT ![w] = p]
    <2>1. AuditOutcome' = [AuditOutcome EXCEPT ![w] = Outcomes(t)]
          /\ AuditJob' = [AuditJob EXCEPT ![w] = JobOut(t)]
        BY <1>1, OutcomeMoves
    <2>2. A!Passed(w, p) = Outcomes(s)
        BY StandsReached
    <2> QED BY <1>4, <1>5, <2>1, <2>2
  <1>7. A!Idle(w) /\ ~A!Doomed(w)
    <2>1. AuditStatus[w] = "open" /\ AuditJob[w] = 0
        BY DEF AuditStatus, AuditJob, JobOut, InFlight
    <2> QED BY <2>1, DoomedFatal DEF A!Idle, A!NoJob
  <1>8. A!AtTurn(w, p) /\ AuditPlan[w][p] \notin AuditRefused[w]
    <2>1. AuditPlan[w][p] = Kind(w, p) /\ p \in DOMAIN AuditPlan[w]
        BY DEF AuditPlan
    <2>2. AuditRefused[w] = inputs[w].refused
        BY DEF AuditRefused
    <2>3. AuditOutcome[w][p] = "open"
      <3>1. step[w][p] = s[p]
          BY <1>0 DEF Stands
      <3> QED BY <1>0, <3>1 DEF AuditOutcome, Outcomes, Settled
    <2> QED BY <2>1, <2>2, <2>3, StandsReached DEF A!AtTurn, A!Planned, Refused
  <1>9. UNCHANGED <<AuditPlan, AuditRefused, AuditStatus, AuditSaid, AuditReport>>
    <2>1. AuditStatus' = AuditStatus /\ AuditReport' = AuditReport
        BY <1>1 DEF AuditStatus, AuditReport, StoreTypeOK, Terminal
    <2>2. AuditSaid' = AuditSaid
        BY <1>1 DEF AuditSaid, Answers
    <2> QED BY <2>1, <2>2, FixedKept
  <1>10. p \in A!Planned(w)
      BY <1>8 DEF A!AtTurn
  <1> QED BY <1>0, <1>1, <1>6, <1>7, <1>8, <1>9, <1>10 DEF A!Ask

LEMMA FinishEndsAudit ==
    ASSUME StoreTypeOK, EndInv, NEW w \in Workflows, wf[w] = "running",
           \A q \in Slots : step[w][q] # "dispatched",
           NEW s \in [Slots -> StepStatus \cup {"absent"}], \A q \in Slots : s[q] # "dispatched",
           NEW status \in Terminal, Finish(w, s, status), inputs' = inputs
    PROVE  A!Idle(w) /\ A!End(w, status, Outcomes(s))
  <1>1. /\ wf' = [wf EXCEPT ![w] = status]
        /\ step' = [step EXCEPT ![w] = s]
        /\ report' = [report EXCEPT ![w] = s]
        /\ UNCHANGED requests
      BY DEF Finish
  <1>2. \E n \in {0, 1} : announced' = [announced EXCEPT ![w] = @ + n]
      BY DEF Finish
  <1>3. AuditOutcome' = [AuditOutcome EXCEPT ![w] = Outcomes(s)]
      BY <1>1, OutcomeMoves
  <1>4. JobOut(s) = 0 /\ JobOut(step[w]) = 0
      BY DEF JobOut, InFlight
  <1>5. AuditJob' = AuditJob /\ AuditJob[w] = 0
    <2>1. AuditJob[w] = 0
        BY <1>4 DEF AuditJob
    <2> QED BY <1>1, <1>4, <2>1, OutcomeMoves DEF AuditJob
  <1>6. AuditStatus' = [AuditStatus EXCEPT ![w] = status] /\ AuditStatus[w] = "open"
      BY <1>1 DEF AuditStatus, StoreTypeOK, Terminal
  <1>7. AuditReport' = [AuditReport EXCEPT ![w] = Outcomes(s)]
      BY <1>1 DEF AuditReport, StoreTypeOK
  <1>8. AuditSaid' = AuditSaid
    <2>1. staged' = staged \cup (IF ContractAccepts(w) THEN {Finished(w)} ELSE {})
        BY DEF Finish, Stage
    <2>2. (IF ContractAccepts(w) THEN {Finished(w)} ELSE {})
            \in SUBSET (FinishedEvents \cup RequestedEvents \cup StrayEvents)
        BY DEF FinishedEvents
    <2> QED BY <2>1, <2>2, SaidKept
  <1> QED BY <1>1, <1>2, <1>3, <1>5, <1>6, <1>7, <1>8, FixedKept DEF A!End, A!Idle, A!NoJob

LEMMA FinishCompletes ==
    ASSUME StoreTypeOK, EndInv, NEW w \in Workflows, wf[w] = "running",
           \A q \in Slots : step[w][q] # "dispatched", ~Fatal(w, step[w]),
           NEW s, Stands(w, s, PlanLength(w) + 1), Finish(w, s, "completed"), inputs' = inputs
    PROVE  A!Complete(w)
  <1>0. PlanLength(w) \in Nat /\ PlanLength(w) >= 6
      BY PlanFacts
  <1>1. \A q \in Slots : s[q] # "dispatched"
      BY DEF Stands, Settled
  <1>2. A!Idle(w) /\ A!End(w, "completed", Outcomes(s))
      BY <1>1, FinishEndsAudit DEF Stands, Terminal
  <1>3. A!Reached(w, PlanLength(w) + 1) /\ A!Passed(w, PlanLength(w) + 1) = Outcomes(s)
      BY <1>0, StandsReached
  <1>4. DOMAIN AuditPlan[w] = 1..PlanLength(w)
      BY DEF AuditPlan
  <1>5. PlanLength(w) \in A!Planned(w) /\ PlanLength(w) + 1 \notin A!Planned(w)
      BY <1>0, <1>4 DEF A!Planned
  <1> QED BY <1>2, <1>3, <1>5, DoomedFatal DEF A!Complete

LEMMA FinishRefused ==
    ASSUME StoreTypeOK, EndInv, NEW w \in Workflows, wf[w] = "running",
           \A q \in Slots : step[w][q] # "dispatched", ~Fatal(w, step[w]),
           NEW p \in 1..PlanLength(w), NEW s, Stands(w, s, p), s[p] = "pending",
           Refused(w, Kind(w, p)), Finish(w, s, "failed"), inputs' = inputs
    PROVE  A!FailOfRequest(w)
  <1>0. p \in Slots /\ p \in Nat
      BY PlanFacts, SlotFacts
  <1>1. \A q \in Slots : s[q] # "dispatched"
      BY DEF Stands, Settled
  <1>2. A!Idle(w) /\ A!End(w, "failed", Outcomes(s))
      BY <1>1, FinishEndsAudit DEF Stands, Terminal
  <1>3. A!Reached(w, p) /\ A!Passed(w, p) = Outcomes(s)
      BY StandsReached
  <1>4. p \in A!Planned(w) /\ AuditPlan[w][p] \in AuditRefused[w]
      BY DEF AuditPlan, AuditRefused, A!Planned, Refused
  <1>5. AuditOutcome[w][p] = "open"
    <2>1. step[w][p] = s[p]
        BY <1>0 DEF Stands
    <2> QED BY <1>0, <2>1 DEF AuditOutcome, Outcomes, Settled
  <1> QED BY <1>2, <1>3, <1>4, <1>5, DoomedFatal DEF A!FailOfRequest, A!AtTurn

LEMMA AdvanceImplements ==
    ASSUME StoreTypeOK, StoreInv, EndInv, NEW w \in Workflows, wf[w] = "running",
           \A p \in Slots : step[w][p] # "dispatched", AdvanceTx(w), inputs' = inputs
    PROVE  A!Complete(w) \/ A!FailOfStep(w) \/ A!FailOfRequest(w) \/ A!Ask(w)
  <1>0. step[w] \in [Slots -> StepStatus \cup {"absent"}] /\ ~InFlight(step[w])
      BY DEF StoreTypeOK, InFlight
  <1>1. CASE Fatal(w, step[w])
    <2>1. Finish(w, step[w], "failed")
        BY <1>0, <1>1 DEF AdvanceTx, Terminal
    <2>2. A!Idle(w) /\ A!End(w, "failed", AuditOutcome[w])
        BY <1>0, <2>1, FinishEndsAudit DEF Terminal, AuditOutcome
    <2> QED BY <1>1, <2>2, DoomedFatal DEF A!FailOfStep
  <1>2. CASE ~Fatal(w, step[w]) /\ NonePending(step[w])
    <2>1. Finish(w, step[w], "completed")
        BY <1>0, <1>2 DEF AdvanceTx, Terminal
    <2> QED BY <1>2, <2>1, StandsEnd, FinishCompletes
  <1>3. ASSUME ~Fatal(w, step[w]), NEW p \in Slots, NextPending(step[w], p), TryStep(w, p)
        PROVE  A!Complete(w) \/ A!FailOfRequest(w) \/ A!Ask(w)
    <2> DEFINE k == Kind(w, p)
               s == [step[w] EXCEPT ![p] = "skipped"]
    <2>0. p \in 1..PlanLength(w) /\ Stands(w, step[w], p) /\ step[w][p] = "pending"
        BY <1>3, StandsNext DEF NextPending
    <2>1. CASE ~NoWorkToDo(w, step[w], k) /\ Refused(w, k)
      <3>1. Finish(w, step[w], "failed")
          BY <2>1, <1>3 DEF TryStep
      <3> QED BY <1>3, <2>0, <2>1, <3>1, FinishRefused
    <2>2. CASE ~NoWorkToDo(w, step[w], k) /\ ~Refused(w, k)
      <3>1. Dispatch(w, step[w], p)
          BY <1>3, <2>2 DEF TryStep
      <3> QED BY <1>3, <2>0, <2>2, <3>1, DispatchAsks
    <2>3. CASE NoWorkToDo(w, step[w], k)
      <3>0. Ready(w, p)
          BY <1>3 DEF Ready
      <3>1. k \in Skippable
          BY <2>3, <3>0, NothingToDo
      <3>2. SkipThenTry(w, p)
          BY <1>3, <2>3 DEF TryStep
      <3>3. /\ p + 1 \in 1..(PlanLength(w) + 1) /\ Stands(w, s, p + 1)
            /\ \A q \in Slots : NextPending(s, q) => q = p + 1
            /\ NonePending(s) => p = PlanLength(w)
          BY <1>3, <3>1, StandsSkipped
      <3>4. CASE NonePending(s)
        <4>1. Finish(w, s, "completed")
            BY <3>2, <3>4 DEF SkipThenTry
        <4>2. Stands(w, s, PlanLength(w) + 1)
            BY <3>3, <3>4
        <4> HIDE DEF s
        <4> QED BY <1>3, <4>1, <4>2, FinishCompletes
      <3>5. CASE ~NonePending(s)
        <4>1. PICK q \in Slots :
                /\ NextPending(s, q)
                /\ IF CanDispatch(w, s, Kind(w, q)) THEN Dispatch(w, s, q) ELSE Finish(w, s, "failed")
            BY <3>2, <3>5 DEF SkipThenTry
        <4>2. ~NoWorkToDo(w, s, Kind(w, q))
            BY <2>3, <3>0, <4>1, SecondAttempt
        <4>3. q = p + 1 /\ Stands(w, s, q) /\ s[q] = "pending"
            BY <3>3, <4>1 DEF NextPending
        <4> HIDE DEF s, k
        <4>4. q \in 1..PlanLength(w)
          <5>1. s[q] = step[w][q]
              BY <4>3, SlotFacts DEF Stands
          <5>2. q \in Nat /\ q >= 1 /\ ~(q > PlanLength(w))
              BY <4>3, <5>1, SlotFacts DEF EndInv, PlanRows, Slots
          <5> QED BY <5>2, PlanFacts
        <4>5. CASE Refused(w, Kind(w, q))
          <5>1. Finish(w, s, "failed")
              BY <4>1, <4>5 DEF CanDispatch
          <5> QED BY <1>3, <4>3, <4>4, <4>5, <5>1, FinishRefused
        <4>6. CASE ~Refused(w, Kind(w, q))
          <5>1. Dispatch(w, s, q)
              BY <4>1, <4>2, <4>6 DEF CanDispatch
          <5> QED BY <1>3, <4>3, <4>4, <4>6, <5>1, DispatchAsks
        <4> QED BY <4>5, <4>6
      <3> QED BY <3>4, <3>5
    <2> QED BY <2>1, <2>2, <2>3
  <1> QED BY <1>0, <1>1, <1>2, <1>3 DEF AdvanceTx, Terminal

LEMMA CreateOpens ==
    ASSUME StoreTypeOK, StoreInv, NEW i \in Instances, WorkflowOf(i) \in Workflows, Create(i)
    PROVE  A!Open(WorkflowOf(i))
  <1> DEFINE w == WorkflowOf(i)
  <1>1. /\ w \in Workflows /\ wf[w] = "none"
        /\ wf' = [wf EXCEPT ![w] = "queued"] /\ step' = [step EXCEPT ![w] = Plan(w)]
        /\ UNCHANGED <<inputs, requests, report, announced, staged>>
      BY DEF Create, bus
  <1> HIDE DEF w
  <1>2. \A p \in Slots : Plan(w)[p] \in {"pending", "absent"} /\ step[w][p] = "absent"
      BY <1>1 DEF Plan, StoreInv, Untouched
  <1>3. Outcomes(Plan(w)) = AuditOutcome[w] /\ JobOut(Plan(w)) = AuditJob[w]
      BY <1>1, <1>2 DEF Outcomes, JobOut, AuditOutcome, AuditJob, Settled, InFlight
  <1>4. AuditOutcome' = AuditOutcome /\ AuditJob' = AuditJob
      BY <1>1, <1>3, OutcomeMoves DEF AuditOutcome, AuditJob
  <1>5. AuditStatus' = [AuditStatus EXCEPT ![w] = "open"] /\ AuditStatus[w] = "none"
      BY <1>1 DEF AuditStatus, StoreTypeOK
  <1>6. AuditReport' = AuditReport
      BY <1>1 DEF AuditReport, StoreTypeOK, Terminal
  <1>7. AuditSaid' = AuditSaid
      BY <1>1 DEF AuditSaid, Answers
  <1> QED BY <1>1, <1>4, <1>5, <1>6, <1>7, FixedKept DEF A!Open, w

LEMMA MarkTakes ==
    ASSUME IInv, NEW i \in Instances, MarkStep(i)
    PROVE  \E w \in Workflows, o \in {"completed", "failed"} : A!Take(w, o)
  <1> DEFINE e == inst[i].ev
             w == e.job[1]
             p == e.job[2]
             o == Answer(e)
  <1> USE DEF IInv, TypeOK
  <1>1. e \in StepEvents /\ e \in staged /\ e.type = "done"
      BY HandlingTyped, EventFacts DEF MarkStep, Matches, InstTypeOK, Events
  <1>2. w \in Workflows /\ p \in Slots /\ e.job = <<w, p>>
      BY <1>1, EventFacts, JobFacts DEF Jobs
  <1>3. /\ step[w][p] = "dispatched"
        /\ step' = [step EXCEPT ![w] = [step[w] EXCEPT ![p] = o]]
        /\ o \in {"completed", "failed"}
        /\ UNCHANGED <<inputs, wf, requests, announced, report, staged>>
      BY <1>2 DEF MarkStep, Matches, StoreTypeOK, Answer, bus
  <1>4. <<<<w, p>>, o>> \in AuditSaid
    <2>1. e \in Answers
        BY <1>1, <1>2 DEF Answers, NoStep
    <2> QED BY <1>2, <2>1 DEF AuditSaid
  <1> HIDE DEF e, w, p, o
  <1>5. \A q \in Slots : step[w][q] = "dispatched" => q = p
      BY <1>2, <1>3, SlotFacts DEF StoreInv, InOrder, Ordered, StoreTypeOK
  <1>6. AuditJob[w] = p /\ p # 0
      BY <1>2, <1>3, <1>5 DEF AuditJob, JobOut, InFlight, Slots
  <1> DEFINE t == [step[w] EXCEPT ![p] = o]
  <1>7. \A q \in Slots : t[q] = IF q = p THEN o ELSE step[w][q]
      BY <1>2 DEF StoreTypeOK
  <1>8. step' = [step EXCEPT ![w] = t]
      BY <1>3
  <1> HIDE DEF t
  <1>9. JobOut(t) = 0
      BY <1>3, <1>5, <1>7 DEF JobOut, InFlight
  <1>10. Outcomes(t) = [AuditOutcome[w] EXCEPT ![p] = o]
      BY <1>2, <1>3, <1>7 DEF Outcomes, AuditOutcome, Settled
  <1>11. /\ AuditOutcome' = [AuditOutcome EXCEPT ![w] = [AuditOutcome[w] EXCEPT ![p] = o]]
         /\ AuditJob' = [AuditJob EXCEPT ![w] = 0]
    <2>1. /\ AuditOutcome' = [AuditOutcome EXCEPT ![w] = Outcomes(t)]
          /\ AuditJob' = [AuditJob EXCEPT ![w] = JobOut(t)]
        BY <1>2, <1>8, OutcomeMoves
    <2> QED BY <1>9, <1>10, <2>1
  <1>12. UNCHANGED <<AuditStatus, AuditSaid, AuditReport>>
      BY <1>3 DEF AuditStatus, AuditSaid, AuditReport, Answers
  <1>13. A!Take(w, o)
      BY <1>3, <1>4, <1>6, <1>11, <1>12, FixedKept DEF A!Take, A!NoJob
  <1> QED BY <1>2, <1>3, <1>13

LEMMA ServiceSays ==
    ASSUME NEW w \in Workflows, NEW p \in Slots, NEW ok \in BOOLEAN, NEW kw \in BOOLEAN,
           ServiceFinishes(w, p, ok, kw)
    PROVE  A!Say(w)
  <1> DEFINE e == Done(<<w, p>>, runs[w][p] + 1, ok, kw)
             o == Answer(e)
  <1>1. e.type = "done" /\ e.job = <<w, p>> /\ o \in {"completed", "failed"}
      BY DEF Done, Answer
  <1>2. staged' = staged \cup {e} /\ requests[w][p] > 0 /\ UNCHANGED <<inputs, store>>
      BY DEF ServiceFinishes, Stage
  <1> HIDE DEF e, o
  <1>3. Answers' = Answers \cup {e}
    <2>1. e.job # NoStep
        BY <1>1 DEF NoStep
    <2> QED BY <1>1, <1>2, <2>1 DEF Answers
  <1>4. AuditSaid' = AuditSaid \cup {<<<<w, p>>, o>>}
      BY <1>1, <1>3 DEF AuditSaid, o
  <1>5. UNCHANGED <<AuditStatus, AuditOutcome, AuditJob, AuditReport>>
      BY <1>2 DEF store, AuditStatus, AuditOutcome, AuditJob, AuditReport
  <1>6. <<<<w, p>>, o>> \in A!Asked(w) \X {"completed", "failed"}
      BY <1>1, <1>2 DEF A!Asked
  <1> QED BY <1>2, <1>4, <1>5, <1>6, FixedKept DEF A!Say, store

(* Every other step, of a handler, the bus or a process, is a stutter.      *)
LEMMA StepImplementsAudit ==
    ASSUME IInv, EndInv, [Next]_vars
    PROVE  [A!ANext]_(A!avars)
  <1> USE DEF IInv, TypeOK
  <1>0. ASSUME UNCHANGED <<inputs, wf, step, requests, announced, report>>, AuditSaid' = AuditSaid
        PROVE  UNCHANGED A!avars
    <2>1. UNCHANGED <<AuditStatus, AuditOutcome, AuditJob, AuditReport>>
        BY <1>0 DEF AuditStatus, AuditOutcome, AuditJob, AuditReport
    <2> QED BY <1>0, <2>1, FixedKept DEF A!avars
  <1>1. ASSUME UNCHANGED <<inputs, wf, step, requests, announced, report, staged>>
        PROVE  UNCHANGED A!avars
    <2>1. AuditSaid' = AuditSaid
        BY <1>1 DEF AuditSaid, Answers
    <2> QED BY <1>0, <1>1, <2>1
  <1>2. ASSUME NEW i \in Instances, Create(i) PROVE A!ANext
    <2>1. WorkflowOf(i) \in Workflows
        BY <1>2, WorkflowOfTyped DEF Create, At
    <2> QED BY <1>2, <2>1, CreateOpens DEF A!ANext
  <1>3. ASSUME NEW i \in Instances, SetRunning(i) PROVE UNCHANGED A!avars
    <2>1. WorkflowOf(i) \in Workflows
        BY <1>3, WorkflowOfTyped DEF SetRunning, At
    <2>2. /\ wf' = [wf EXCEPT ![WorkflowOf(i)] = "running"] /\ wf[WorkflowOf(i)] = "queued"
          /\ UNCHANGED <<inputs, step, requests, announced, report, staged>>
        BY <1>3, <2>1 DEF SetRunning, Carrier, Busy, At, bus
    <2>3. AuditStatus' = AuditStatus /\ AuditReport' = AuditReport
        BY <2>1, <2>2 DEF AuditStatus, AuditReport, StoreTypeOK, Terminal
    <2>4. UNCHANGED <<AuditOutcome, AuditJob, AuditSaid>>
        BY <2>2 DEF AuditOutcome, AuditJob, AuditSaid, Answers
    <2> QED BY <2>2, <2>3, <2>4, FixedKept DEF A!avars
  <1>4. ASSUME NEW i \in Instances, MarkStep(i) PROVE A!ANext
      BY <1>4, MarkTakes DEF A!ANext
  <1>5. ASSUME NEW i \in Instances, Advance(i) PROVE A!ANext
    <2>1. WorkflowOf(i) \in Workflows
        BY <1>5, WorkflowOfTyped DEF Advance, At
    <2>2. wf[WorkflowOf(i)] = "running" /\ \A p \in Slots : step[WorkflowOf(i)][p] # "dispatched"
        BY <1>5, <2>1 DEF Advance, Carrier, Busy, At
    <2>3. \/ A!Complete(WorkflowOf(i)) \/ A!FailOfStep(WorkflowOf(i))
          \/ A!FailOfRequest(WorkflowOf(i)) \/ A!Ask(WorkflowOf(i))
        BY <1>5, <2>1, <2>2, AdvanceImplements DEF Advance
    <2> QED BY <2>1, <2>3 DEF A!ANext
  <1>6. ASSUME NEW i \in Instances, HandlerStep(i) PROVE [A!ANext]_(A!avars)
      BY <1>1, <1>2, <1>3, <1>4, <1>5, <1>6
         DEF HandlerStep, DropSeen, StartExisting, StartUnplannable, StartPlanned, CreateConflict,
             IgnoreCompletion, SummaryDone, AskModel, KeepRules, SaveSummary, store, bus
  <1>7. ASSUME NEW w \in Workflows, NEW p \in Slots, NEW ok \in BOOLEAN, NEW kw \in BOOLEAN,
               ServiceFinishes(w, p, ok, kw)
        PROVE  A!ANext
      BY <1>7, ServiceSays DEF A!ANext
  <1>8. ASSUME StrayFinishes \/ \E w \in Workflows : RequestWorkflow(w)
        PROVE  UNCHANGED A!avars
    <2>1. PICK E \in SUBSET (FinishedEvents \cup RequestedEvents \cup StrayEvents) :
              staged' = staged \cup E
        BY <1>8 DEF StrayFinishes, RequestWorkflow, Stage, RequestedEvents
    <2>2. UNCHANGED <<inputs, wf, step, requests, announced, report>>
        BY <1>8 DEF StrayFinishes, RequestWorkflow, store
    <2> QED BY <1>0, <2>1, <2>2, SaidKept
  <1> QED BY <1>1, <1>6, <1>7, <1>8
          DEF Next, Crash, Raise, PostWorkflow, Receive, Redeliver, vars, store, bus

(* The orchestrator implements Audit: whatever is delivered twice, late or  *)
(* to another process, and wherever a process dies, every job is asked for  *)
(* in its turn, every outcome is one its service reported, and every end    *)
(* has its reason and its report.                                           *)
THEOREM ImplementsAudit == Spec => FollowsAudit
  <1>1. Init => A!AInit
    <2> SUFFICES ASSUME Init PROVE A!AInit
        OBVIOUS
    <2>1. AuditStatus = [w \in Workflows |-> "none"] /\ AuditReport = [w \in Workflows |-> NoReport]
        BY DEF Init, AuditStatus, AuditReport, Terminal
    <2>2. AuditOutcome = [w \in Workflows |-> [p \in Slots |-> "open"]]
        BY DEF Init, AuditOutcome, Outcomes, Settled
    <2>3. AuditJob = [w \in Workflows |-> 0]
        BY DEF Init, AuditJob, JobOut, InFlight
    <2>4. AuditSaid = {}
        BY DEF Init, AuditSaid, Answers
    <2> QED BY <2>1, <2>2, <2>3, <2>4 DEF Init, A!AInit, A!NoJob
  <1>2. IInv /\ EndInv /\ [Next]_vars => [A!ANext]_(A!avars)
      BY StepImplementsAudit
  <1> QED BY <1>1, <1>2, Invariance, EndInvariance, PTL DEF Spec, FollowsAudit, A!ASpec
=============================================================================
