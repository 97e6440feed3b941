----------------------------- MODULE Automation -----------------------------
(***************************************************************************)
(* From a schedule to the document of the audit it started: the scheduler  *)
(* stages a request, the orchestrator runs the workflow and announces its  *)
(* end, and the reporting service, which neither of them knows, renders    *)
(* it.  The way of the request through outbox, bus and orchestrator is     *)
(* what the modules Outbox and Orchestrator are about; here a workflow     *)
(* that was requested ends at some time.                                   *)
(***************************************************************************)
EXTENDS Scheduler, Reporting

CONSTANTS
    Manual,             \* workflows a person asked for, without a schedule
    Starts              \* [stored, asked, kept]: schedules, events and store at the start

ASSUME StartAssumption ==
    \A start \in Starts :
        /\ start.stored \subseteq Schedules /\ start.kept \in {"files", "postgres"}
        /\ \A e \in start.asked : e.kind = "report.requested" /\ e.report \notin Ids
        /\ \A e, f \in start.asked : e.report = f.report => e.report = "" \/ e = f

vars == <<schedVars, reportVars>>

Init == \E start \in Starts : SchedInit(start.stored) /\ ReportInit(start.asked, start.kept)

(* The last tick has passed and nobody has anything to do.                  *)
Quiescent ==
    /\ clock = MaxClock /\ Due = {} /\ queue = {}
    /\ \A p \in Schedulers : txn[p] = Idle
    /\ \A p \in Processes : pc[p] = "idle"
    /\ UNCHANGED vars

Next ==
    \/ (Tick \/ SchedStep) /\ UNCHANGED reportVars
    \/ ReportStep /\ UNCHANGED schedVars
    \/ \E w \in (staged \cup Manual) \ finished : Announce(w) /\ UNCHANGED schedVars
    \/ \E w \in staged \cup Manual : Ask(w) /\ UNCHANGED schedVars
    \/ Quiescent

(* Each scheduler goes round its loop, and a transaction ends: run never    *)
(* returns (scheduler.py:46-60).                                            *)
Spec ==
    /\ Init /\ [][Next]_vars
    /\ \A p \in Schedulers :
         /\ WF_vars(Claim(p) /\ UNCHANGED reportVars)
         /\ WF_vars(Commit(p) /\ UNCHANGED reportVars)
=============================================================================
