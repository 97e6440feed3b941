------------------------------ MODULE Reporting ------------------------------
(***************************************************************************)
(* reporting/worker.py and reporting/api.py: documents about workflows,    *)
(* made when one is asked for and when a workflow is announced as          *)
(* finished.  The store is the table reports, or files in a directory that *)
(* the processes share, each with a cache of its own (shared/store.py).    *)
(*                                                                         *)
(* An event is [kind, about, report]: workflow.completed, or               *)
(* report.requested with the id of the report or "".  A record is [about,  *)
(* auto, status, whole]: auto when no one asked for it, whole when the     *)
(* workflow was finished when it was rendered.                             *)
(***************************************************************************)
EXTENDS Integers, FiniteSets, SequencesExt

CONSTANTS
    Ids,                \* bound: the report ids that can be drawn
    Workers,            \* the bus workers; "api" is the API process
    RecentLimit,        \* 200 in worker.py
    SeenMax,            \* _SEEN_MAX
    MaxFaults, MaxExtras, MaxCalls      \* bounds on failures, redeliveries, calls of the API

ASSUME ReportingAssumption ==
    /\ RecentLimit \in Nat \ {0} /\ SeenMax \in Nat \ {0} /\ "api" \notin Workers /\ "" \notin Ids
    /\ MaxFaults \in Nat /\ MaxExtras \in Nat /\ MaxCalls \in Nat

Processes == Workers \cup {"api"}

VARIABLES
    backend,            \* where the documents are kept: "files" or "postgres"
    asked,              \* the report.requested there are, which may come twice
    finished,           \* the workflows that have ended
    queue,              \* the events waiting, with their multiplicity
    disk,               \* the stored records, a function on their ids
    order,              \* their ids, the last one written (files) or made last
    memory,             \* FileJobStore._memory of each process
    seen,               \* worker._seen of each process
    pc, event, report, outcome,     \* of each process: what it does and with what
    published,          \* [report, about, status] of each report.rendered sent or staged
    dead,               \* the events in the dead-letter queue
    faults, extras, calls,
    raced, stale, rerun, spoiled, lost  \* workflows and reports the properties except

storeVars == <<disk, order, memory>>
threadVars == <<pc, event, report, outcome, seen>>
ghosts == <<raced, stale, rerun, spoiled, lost>>
reportVars ==
    <<asked, backend, finished, queue, storeVars, threadVars, published, dead, faults, extras,
      calls, ghosts>>

None == [kind |-> "none", about |-> <<>>, report |-> ""]
Completed(w) == [kind |-> "workflow.completed", about |-> w, report |-> ""]
Empty == [x \in {} |-> 0]

ReportInit(requests, kept) ==
    /\ asked = requests /\ backend = kept /\ finished = {} /\ queue = requests
    /\ disk = Empty /\ order = <<>> /\ memory = [p \in Processes |-> Empty]
    /\ pc = [p \in Processes |-> "idle"] /\ event = [p \in Processes |-> None]
    /\ report = [p \in Processes |-> ""] /\ outcome = [p \in Processes |-> "none"]
    /\ seen = [p \in Processes |-> {}] /\ published = {} /\ dead = {}
    /\ faults = 0 /\ extras = 0 /\ calls = 0
    /\ raced = {} /\ stale = {} /\ rerun = {} /\ spoiled = {} /\ lost = {}

-----------------------------------------------------------------------------
(* shared/store.py and shared/db.py                                         *)

Put(f, id, record) == [x \in DOMAIN f \cup {id} |-> IF x = id THEN record ELSE f[x]]

(* Mutant: a process knows only the records it made.                        *)
get_own(p, id) ==
    LET known == IF backend = "files" THEN memory[p] ELSE disk
    IN  IF id \in DOMAIN known THEN {known[id]} ELSE {}

(* get: what is in memory, however old, or else the file; the row.  The set *)
(* is empty when there is no such record.                                   *)
get(p, id) ==
    IF backend = "files" /\ id \in DOMAIN memory[p] THEN {memory[p][id]}
    ELSE IF id \in DOMAIN disk THEN {disk[id]} ELSE {}

(* The cache of p after a get.                                              *)
Cached(p, id) ==
    IF backend = "files" /\ get(p, id) # {}
    THEN [memory EXCEPT ![p] = Put(@, id, CHOOSE r \in get(p, id) : TRUE)] ELSE memory

(* _write: a file that cannot be written is let go, and the copy in memory  *)
(* is ahead of it; a row is written or the call raises (Raise).             *)
Written(p, id, record, last) ==
    /\ memory' = IF backend = "files" THEN [memory EXCEPT ![p] = Put(@, id, record)] ELSE memory
    /\ \/ /\ disk' = Put(disk, id, record)
          /\ order' = IF last THEN Append(RemoveFirst(order, id), id) ELSE order
          /\ UNCHANGED <<faults, lost>>
       \/ /\ backend = "files" /\ faults < MaxFaults /\ faults' = faults + 1
          /\ lost' = lost \cup {record.about}
          /\ UNCHANGED <<disk, order>>

(* create: an INSERT that leaves a row with the id alone, or a new file.    *)
Stored(p, id, record) ==
    IF backend = "postgres" /\ id \in DOMAIN disk THEN UNCHANGED <<storeVars, faults, lost>>
    ELSE Written(p, id, record, TRUE)

(* update: the record as this process knows it, written whole.              *)
Updated(p, id, record) == Written(p, id, record, backend = "files")

recent(limit) == {order[i] : i \in {j \in 1..Len(order) : j > Len(order) - limit}}

(* uuid4: an id that no record and no process has; Drawable bounds them.    *)
Used ==
    DOMAIN disk \cup {report[p] : p \in Processes} \cup (UNION {DOMAIN memory[p] : p \in Processes})
NewId == CHOOSE id \in Ids \ Used : TRUE
Drawable == Ids \ Used # {}

-----------------------------------------------------------------------------
(* The orchestrator, seen from here: a workflow ends and is announced.      *)
Announce(w) ==
    /\ w \notin finished
    /\ finished' = finished \cup {w}
    /\ queue' = queue \cup {Completed(w)}
    /\ UNCHANGED <<asked, backend, storeVars, threadVars, published, dead, faults, extras, calls,
                   ghosts>>

(* The bus delivers at least once.                                          *)
Redeliver(e) ==
    /\ e \notin queue /\ extras < MaxExtras
    /\ queue' = queue \cup {e} /\ extras' = extras + 1
    /\ UNCHANGED <<asked, backend, finished, storeVars, threadVars, published, dead, faults,
                   calls, ghosts>>

Goto(p, where) == pc' = [pc EXCEPT ![p] = where]

(* handle, up to the choice between _on_workflow and _on_request.           *)
Receive(p, e) ==
    /\ p \in Workers /\ pc[p] = "idle" /\ e \in queue
    /\ queue' = queue \ {e}
    /\ event' = [event EXCEPT ![p] = e]
    /\ CASE e \in seen[p] -> Goto(p, "ack") /\ UNCHANGED report
         [] e \notin seen[p] /\ e.kind = "workflow.completed" -> Goto(p, "search") /\ UNCHANGED report
         [] e \notin seen[p] /\ e.kind # "workflow.completed" ->
              /\ Goto(p, "look") /\ (e.report = "" => Drawable)
              /\ report' = [report EXCEPT ![p] = IF e.report = "" THEN NewId ELSE e.report]
    /\ UNCHANGED <<asked, backend, finished, storeVars, outcome, seen, published, dead, faults,
                   extras, calls, ghosts>>

(* Others that have searched for the same workflow and not yet created.     *)
Rivals(p) ==
    {q \in Workers \ {p} : event[q] = event[p] /\ pc[q] \in {"look", "make"}}

(* Mutant: no search for an earlier document.                               *)
SearchNothing(p) ==
    /\ pc[p] = "search" /\ Drawable
    /\ Goto(p, "look") /\ report' = [report EXCEPT ![p] = NewId]
    /\ UNCHANGED <<asked, backend, finished, queue, storeVars, event, outcome, seen, published,
                   dead, faults, extras, calls, ghosts>>

(* _on_workflow: the search for an earlier document.                        *)
Search(p) ==
    LET w == event[p].about
    IN  /\ pc[p] = "search"
        /\ IF \E id \in recent(RecentLimit) : disk[id].about = w
           THEN Goto(p, "ack") /\ UNCHANGED <<report, raced>>
           ELSE /\ Goto(p, "look") /\ Drawable
                /\ report' = [report EXCEPT ![p] = NewId]
                /\ raced' = IF Rivals(p) # {} THEN raced \cup {w} ELSE raced
        /\ UNCHANGED <<asked, backend, finished, queue, storeVars, event, outcome, seen,
                       published, dead, faults, extras, calls, stale, rerun, spoiled, lost>>

(* _render: what is already known of the report.                            *)
Look(p) ==
    LET known == get(p, report[p])
    IN  /\ pc[p] = "look"
        /\ Goto(p, IF known = {} THEN "make"
                   ELSE IF \E r \in known : r.status \in {"running", "completed"} THEN "ack"
                   ELSE "start")
        /\ memory' = Cached(p, report[p])
        /\ UNCHANGED <<asked, backend, finished, queue, disk, order, event, report, outcome,
                       seen, published, dead, faults, extras, calls, ghosts>>

(* create and mark_running ask nothing of the record they replace: the      *)
(* reports that another delivery of their event has begun or completed, and *)
(* that are begun again.                                                    *)
Begun(p) ==
    IF report[p] \in DOMAIN disk /\ disk[report[p]].status \in {"running", "completed"}
    THEN rerun \cup {report[p]} ELSE rerun

Make(p) ==
    /\ pc[p] = "make" /\ Goto(p, "start") /\ rerun' = Begun(p)
    /\ Stored(p, report[p], [about |-> event[p].about, auto |-> event[p].kind = "workflow.completed",
                             status |-> "queued", whole |-> FALSE])
    /\ UNCHANGED <<asked, backend, finished, queue, event, report, outcome, seen, published,
                   dead, extras, calls, raced, stale, spoiled>>

(* POST /v1/reports: a record, and a background task for it.                *)
Ask(w) ==
    /\ pc["api"] = "idle" /\ calls < MaxCalls /\ calls' = calls + 1 /\ Drawable
    /\ Stored("api", NewId, [about |-> w, auto |-> FALSE, status |-> "queued", whole |-> FALSE])
    /\ Goto("api", "start")
    /\ event' = [event EXCEPT !["api"] = [kind |-> "asked", about |-> w, report |-> NewId]]
    /\ report' = [report EXCEPT !["api"] = NewId]
    /\ UNCHANGED <<asked, backend, finished, queue, outcome, seen, published, dead, extras,
                   raced, stale, rerun, spoiled>>

(* GET /v1/reports/{id}.                                                    *)
Peek(id) ==
    /\ id \in DOMAIN disk /\ id \notin DOMAIN memory["api"]
    /\ backend = "files" /\ calls < MaxCalls /\ calls' = calls + 1
    /\ memory' = Cached("api", id)
    /\ stale' = IF disk[id].status # "completed" THEN stale \cup {id} ELSE stale
    /\ UNCHANGED <<asked, backend, finished, queue, disk, order, threadVars, published, dead,
                   faults, extras, raced, rerun, spoiled, lost>>

-----------------------------------------------------------------------------
(* run_report                                                               *)

Own(p) == CHOOSE r \in get(p, report[p]) : TRUE

Start(p) ==
    /\ pc[p] = "start" /\ Goto(p, "fetch") /\ rerun' = Begun(p)
    /\ Updated(p, report[p], [Own(p) EXCEPT !.status = "running"])
    /\ UNCHANGED <<asked, backend, finished, queue, event, report, outcome, seen, published,
                   dead, extras, calls, raced, stale, spoiled>>

(* fetch_workflow answers with the workflow as it is, or fails.             *)
Fetch(p) ==
    LET w == event[p].about
    IN  /\ pc[p] = "fetch" /\ Goto(p, "save")
        /\ \/ /\ outcome' = [outcome EXCEPT ![p] = IF w \in finished THEN "whole" ELSE "partial"]
              /\ spoiled' = IF w \in finished THEN spoiled ELSE spoiled \cup {w}
              /\ UNCHANGED faults
           \/ /\ faults < MaxFaults /\ faults' = faults + 1
              /\ outcome' = [outcome EXCEPT ![p] = "failed"]
              /\ spoiled' = spoiled \cup {w}
        /\ UNCHANGED <<asked, backend, finished, queue, storeVars, event, report, seen,
                       published, dead, extras, calls, raced, stale, rerun, lost>>

Ending(p) == IF outcome[p] = "failed" THEN "failed" ELSE "completed"

Rendered(p) == [report |-> report[p], about |-> event[p].about, status |-> Ending(p)]

(* Mutant: complete stores the status and not the result.                   *)
SaveStatus(p) ==
    /\ pc[p] = "save" /\ Goto(p, "ack")
    /\ Updated(p, report[p], [Own(p) EXCEPT !.status = Ending(p)])
    /\ published' = published \cup {Rendered(p)}
    /\ UNCHANGED <<asked, backend, finished, queue, event, report, outcome, seen, dead, extras,
                   calls, raced, stale, rerun, spoiled>>

(* complete or fail; the event is staged with the row, or sent afterwards,  *)
(* unless its contract refuses it (_publishable).                           *)
Save(p) ==
    /\ pc[p] = "save"
    /\ Updated(p, report[p], [Own(p) EXCEPT !.status = Ending(p),
                  !.whole = IF outcome[p] = "failed" THEN @ ELSE outcome[p] = "whole"])
    /\ \/ backend = "postgres" /\ published' = published \cup {Rendered(p)} /\ Goto(p, "ack")
       \/ backend = "files" /\ Goto(p, "emit") /\ UNCHANGED published
       \/ Goto(p, "ack") /\ UNCHANGED published
    /\ UNCHANGED <<asked, backend, finished, queue, event, report, outcome, seen, dead, extras,
                   calls, raced, stale, rerun, spoiled>>

(* _emit: a broker that does not answer is logged.                          *)
Emit(p) ==
    /\ pc[p] = "emit" /\ Goto(p, "ack")
    /\ \/ published' = published \cup {Rendered(p)} /\ UNCHANGED faults
       \/ faults < MaxFaults /\ faults' = faults + 1 /\ UNCHANGED published
    /\ UNCHANGED <<asked, backend, finished, queue, storeVars, event, report, outcome, seen,
                   dead, extras, calls, ghosts>>

Rest(p) ==
    /\ Goto(p, "idle")
    /\ event' = [event EXCEPT ![p] = None] /\ report' = [report EXCEPT ![p] = ""]
    /\ outcome' = [outcome EXCEPT ![p] = "none"]

(* _remember and the ack.                                                   *)
Ack(p) ==
    /\ pc[p] = "ack" /\ Rest(p)
    /\ seen' = [seen EXCEPT ![p] =
                  IF p = "api" THEN {}
                  ELSE (IF Cardinality(@) >= SeenMax THEN {} ELSE @) \cup {event[p]}]
    /\ UNCHANGED <<asked, backend, finished, queue, storeVars, published, dead, faults, extras,
                   calls, ghosts>>

(* The database does not answer: a bus worker dead-letters the event, a     *)
(* task of the API ends.                                                    *)
Raise(p) ==
    /\ backend = "postgres" /\ pc[p] \in {"search", "look", "make", "start", "save"} /\ faults < MaxFaults
    /\ faults' = faults + 1 /\ Rest(p)
    /\ dead' = IF p = "api" THEN dead ELSE dead \cup {event[p]}
    /\ spoiled' = spoiled \cup {event[p].about}
    /\ UNCHANGED <<asked, backend, finished, queue, storeVars, seen, published, extras, calls,
                   raced, stale, rerun, lost>>

(* The process dies: the event it had not acked is delivered again.         *)
Crash(p) ==
    /\ pc[p] # "idle" /\ faults < MaxFaults
    /\ faults' = faults + 1 /\ Rest(p)
    /\ queue' = IF p = "api" THEN queue ELSE queue \cup {event[p]}
    /\ memory' = [memory EXCEPT ![p] = Empty]
    /\ seen' = [seen EXCEPT ![p] = {}]
    /\ spoiled' = IF pc[p] \in {"start", "fetch", "save"} THEN spoiled \cup {event[p].about} ELSE spoiled
    /\ stale' = IF p = "api" THEN {} ELSE stale
    /\ UNCHANGED <<asked, backend, finished, disk, order, published, dead, extras, calls, raced,
                   rerun, lost>>

Work(p) ==
    \/ Search(p) \/ Look(p) \/ Make(p) \/ Start(p) \/ Fetch(p) \/ Save(p) \/ Emit(p) \/ Ack(p)

ReportStep ==
    \/ \E p \in Processes : Work(p) \/ Raise(p) \/ Crash(p) \/ \E e \in queue : Receive(p, e)
    \/ \E e \in asked \cup {Completed(w) : w \in finished} : Redeliver(e)
    \/ \E id \in DOMAIN disk : Peek(id)

-----------------------------------------------------------------------------
(* worker.py:67-69, "One automatic document per workflow": redeliveries and *)
(* restarts make no second one, unless two workers had searched before      *)
(* either had created its record, a file could not be written, or there are *)
(* more documents than the search looks at.                                 *)
OneAutomaticDocument ==
    Len(order) <= RecentLimit =>
        \A a, b \in DOMAIN disk :
            (disk[a].auto /\ disk[b].auto /\ disk[a].about = disk[b].about)
                => a = b \/ disk[a].about \in raced \cup lost

(* worker.py:5-7, "a finished audit gets a document whether or not a person *)
(* thought to press a button": once its event was acked there is a document *)
(* of the finished workflow, unless it was asked for before the workflow    *)
(* ended, or a failure met its making.                                      *)
FinishedHasDocument ==
    \A w \in finished :
        \/ w \in spoiled \cup lost \/ Completed(w) \in queue
        \/ \E p \in Processes : event[p].about = w
        \/ \E id \in DOMAIN disk : disk[id].about = w /\ disk[id].whole

(* A report that was announced is one the API can serve, with the status    *)
(* that was announced: the record is durable first, and the API reads       *)
(* through to the files another process wrote (shared/store.py:184-194).    *)
(* Only a report the API had read before it was done stays as it was then,  *)
(* one that could not be written stays unknown, and one that two deliveries *)
(* of its request had both looked for is put back to running by the slower; *)
(* no other is ever begun again, however often its event is delivered.      *)
LinkWorks ==
    /\ \A e \in published :
        (e.status = "completed" /\ e.report \notin stale \cup rerun /\ e.about \notin lost)
            => \E r \in get("api", e.report) : r.status = "completed"
    /\ rerun \cap Ids = {}
=============================================================================
