-------------------------------- MODULE Audit --------------------------------
(***************************************************************************)
(* What agents/orchestrator promises of one audit to those who ask for it, *)
(* with no processes, messages or transactions in it ("The engine owns no  *)
(* state of its own", engine.py:3).  An audit works through its plan in    *)
(* order, with one job out at a time.  A service may answer a job it was   *)
(* asked for any number of times; the audit takes one of its answers.  It  *)
(* ends once, for a reason its rows show, and its report is those rows.    *)
(***************************************************************************)
EXTENDS Naturals

CONSTANTS
    Workflows, Slots,   \* audits, and the positions a plan can have
    MayFail,            \* the kinds whose failure is not the audit's
    MaySkip,            \* the kinds that can turn out to have nothing to do
    NoReport

VARIABLES
    plan,       \* the kinds of each audit's steps, in order
    refused,    \* the kinds for which the audit cannot make a request
    status,     \* "none", "open", "completed" or "failed"
    outcome,    \* of each step: "open", "completed", "failed" or "skipped"
    job,        \* the step a service works on for the audit, or NoJob
    requests,   \* how many times each step was asked for
    said,       \* what services reported: <<<<audit, step>>, outcome>>
    report,     \* the outcomes the report shows
    announced   \* how many times the end was announced

avars == <<plan, refused, status, outcome, job, requests, said, report, announced>>

NoJob == 0
Planned(w) == DOMAIN plan[w]
Doomed(w) == \E p \in Planned(w) : outcome[w][p] = "failed" /\ plan[w][p] \notin MayFail
Idle(w) == status[w] = "open" /\ job[w] = NoJob

(* Step p is next: all before it is settled, except that the step just     *)
(* before it may be one with nothing to do, which is then skipped.         *)
Reached(w, p) ==
    \A q \in 1..(p - 1) :
        outcome[w][q] = "open" => q = p - 1 /\ plan[w][q] \in MaySkip
Passed(w, p) ==
    [q \in Slots |-> IF q < p /\ outcome[w][q] = "open" THEN "skipped" ELSE outcome[w][q]]
AtTurn(w, p) == p \in Planned(w) /\ outcome[w][p] = "open" /\ Reached(w, p)

-----------------------------------------------------------------------------
Open(w) ==
    /\ status[w] = "none"
    /\ status' = [status EXCEPT ![w] = "open"]
    /\ UNCHANGED <<plan, refused, outcome, job, requests, said, report, announced>>

Ask(w) ==
    /\ Idle(w) /\ ~Doomed(w)
    /\ \E p \in Planned(w) :
          /\ AtTurn(w, p) /\ plan[w][p] \notin refused[w]
          /\ outcome' = [outcome EXCEPT ![w] = Passed(w, p)]
          /\ job' = [job EXCEPT ![w] = p]
          /\ requests' = [requests EXCEPT ![w][p] = @ + 1]
    /\ UNCHANGED <<plan, refused, status, said, report, announced>>

(* Services answer jobs they were asked for, for the first time or again.   *)
Asked(w) == {w} \X {p \in Slots : requests[w][p] > 0}
Say(w) ==
    /\ said \subseteq said' /\ said' \subseteq said \cup (Asked(w) \X {"completed", "failed"})
    /\ UNCHANGED <<plan, refused, status, outcome, job, requests, report, announced>>

Take(w, o) ==
    /\ job[w] # NoJob
    /\ <<<<w, job[w]>>, o>> \in said
    /\ outcome' = [outcome EXCEPT ![w][job[w]] = o]
    /\ job' = [job EXCEPT ![w] = NoJob]
    /\ UNCHANGED <<plan, refused, status, requests, said, report, announced>>

(* The audit ends, with the outcomes o, and is announced at most once.     *)
End(w, verdict, o) ==
    /\ status' = [status EXCEPT ![w] = verdict]
    /\ outcome' = [outcome EXCEPT ![w] = o]
    /\ report' = [report EXCEPT ![w] = o]
    /\ \E n \in {0, 1} : announced' = [announced EXCEPT ![w] = @ + n]
    /\ UNCHANGED <<plan, refused, job, requests, said>>

Complete(w) ==
    /\ Idle(w) /\ ~Doomed(w)
    /\ \E p \in Planned(w) :
          /\ p + 1 \notin Planned(w) /\ Reached(w, p + 1)
          /\ End(w, "completed", Passed(w, p + 1))

FailOfStep(w) == Idle(w) /\ Doomed(w) /\ End(w, "failed", outcome[w])

FailOfRequest(w) ==
    /\ Idle(w) /\ ~Doomed(w)
    /\ \E p \in Planned(w) :
          /\ AtTurn(w, p) /\ plan[w][p] \in refused[w]
          /\ End(w, "failed", Passed(w, p))

-----------------------------------------------------------------------------
AInit ==
    /\ status = [w \in Workflows |-> "none"]
    /\ outcome = [w \in Workflows |-> [p \in Slots |-> "open"]]
    /\ job = [w \in Workflows |-> NoJob]
    /\ requests = [w \in Workflows |-> [p \in Slots |-> 0]]
    /\ said = {}
    /\ report = [w \in Workflows |-> NoReport]
    /\ announced = [w \in Workflows |-> 0]

ANext ==
    \E w \in Workflows :
        \/ Open(w) \/ Ask(w) \/ Say(w) \/ Complete(w) \/ FailOfStep(w) \/ FailOfRequest(w)
        \/ \E o \in {"completed", "failed"} : Take(w, o)

ASpec == AInit /\ [][ANext]_avars

=============================================================================
