--------------------------- MODULE ReportingProofs ---------------------------
(***************************************************************************)
(* The documents of the reporting service, proved for every set of         *)
(* workers, workflows and requests, both stores, and every number of       *)
(* crashes, failed writes, redeliveries and calls of the API.              *)
(***************************************************************************)
EXTENDS SchedulerProofs, SequenceTheorems

Rendering == {"start", "fetch", "save"}
Steps == {"idle", "search", "look", "make", "emit", "ack"} \cup Rendering

IsRecord(r) ==
    /\ r = [about |-> r.about, auto |-> r.auto, status |-> r.status, whole |-> r.whole]
    /\ r.auto \in BOOLEAN /\ r.whole \in BOOLEAN

-----------------------------------------------------------------------------
(* Names: which ids events and processes have.  An id that was drawn       *)
(* belongs to the one process that drew it; one that a request names may   *)
(* be with as many workers as there are deliveries of the request, and     *)
(* with nothing but deliveries of that request.                            *)

Requested ==
    /\ \A e \in asked : e.kind = "report.requested" /\ e.report \notin Ids
    /\ \A e, f \in asked : e.report = f.report => e.report = "" \/ e = f

Named(e) ==
    /\ e.kind \in {"workflow.completed", "report.requested"} /\ e.report \notin Ids
    /\ e.kind = "workflow.completed" => e = Completed(e.about)
    /\ e.kind = "report.requested" => e \in asked

ProcessShape(p) ==
    /\ pc[p] \in Steps
    /\ pc[p] \in {"idle", "search"} => report[p] = ""
    /\ pc[p] \in {"look", "make", "emit"} \cup Rendering => report[p] # ""
    /\ pc[p] = "idle" => event[p] = None
    /\ pc[p] = "search" => event[p].kind = "workflow.completed"

WorkerShape(p) ==
    /\ pc[p] # "idle" => Named(event[p])
    /\ report[p] \in Ids \cup {"", event[p].report}
    /\ pc[p] # "idle" /\ event[p].report # "" => report[p] \in {"", event[p].report}

ApiShape ==
    /\ pc["api"] \in {"idle", "emit", "ack"} \cup Rendering
    /\ report["api"] \in Ids \cup {""} /\ event["api"].report = report["api"]
    /\ pc["api"] # "idle" => event["api"].kind = "asked"

OneHolder == \A p, q \in Processes : report[p] = report[q] /\ report[p] \in Ids => p = q

Names ==
    /\ DOMAIN pc = Processes /\ DOMAIN event = Processes
    /\ DOMAIN report = Processes /\ DOMAIN outcome = Processes /\ DOMAIN seen = Processes
    /\ \A p \in Processes : ProcessShape(p)
    /\ \A p \in Workers : WorkerShape(p)
    /\ ApiShape
    /\ \A e \in queue : Named(e)
    /\ Requested /\ OneHolder

-----------------------------------------------------------------------------
(* Store: what the records of one id have in common, wherever they are,    *)
(* and which of them a process knows.                                      *)

StoreShape ==
    /\ backend \in {"files", "postgres"}
    /\ DOMAIN memory = Processes
    /\ \A id \in DOMAIN disk : IsRecord(disk[id])
    /\ \A p \in Processes : \A id \in DOMAIN memory[p] : IsRecord(memory[p][id])
    /\ backend = "postgres" => \A p \in Processes : DOMAIN memory[p] = {}
    /\ order \in Seq(DOMAIN disk) /\ \A id \in DOMAIN disk : \E i \in 1..Len(order) : order[i] = id

Alike(r, s) == r.about = s.about /\ r.auto = s.auto

Agree ==
    /\ \A p \in Processes : \A id \in DOMAIN disk \cap DOMAIN memory[p] : Alike(disk[id], memory[p][id])
    /\ \A p, q \in Processes : \A id \in DOMAIN memory[p] \cap DOMAIN memory[q] :
          Alike(memory[p][id], memory[q][id])

(* A record that the event has had made, and every record of the id is one. *)
MadeFor(r, e) == r.about = e.about /\ r.auto = (e.kind = "workflow.completed")
About(id, e) ==
    /\ id \in DOMAIN disk => MadeFor(disk[id], e)
    /\ \A p \in Processes : id \in DOMAIN memory[p] => MadeFor(memory[p][id], e)

Requests == \A e \in asked : e.report # "" => About(e.report, e)

(* No one has a record of the id.                                          *)
Fresh(id) == id \notin DOMAIN disk /\ \A p \in Processes : id \notin DOMAIN memory[p]

Work1(p) ==
    /\ report[p] # "" => About(report[p], event[p])
    /\ pc[p] \in {"look", "make"} /\ report[p] \in Ids => Fresh(report[p])
    /\ pc[p] = "start" /\ report[p] \in Ids \cap DOMAIN disk => disk[report[p]].status = "queued"
    /\ pc[p] \in Rendering => get(p, report[p]) # {}

(* A record that only a process knows is one that could not be written.    *)
Unwritten ==
    \A p \in Processes : \A id \in DOMAIN memory[p] \ DOMAIN disk : memory[p][id].about \in lost

Store == StoreShape /\ Agree /\ Requests /\ (\A p \in Processes : Work1(p)) /\ Unwritten

-----------------------------------------------------------------------------
(* Runs: who renders a report has the one record of it that is running, or *)
(* the report was begun again, or its record could not be written.  No id  *)
(* that was drawn is ever begun again.                                     *)

Running(p) == pc[p] \in {"fetch", "save"}
RendersAlone(p) ==
    /\ report[p] \in DOMAIN disk /\ disk[report[p]].status = "running"
    /\ \A q \in Processes : Running(q) /\ report[q] = report[p] => q = p

Runs ==
    /\ \A p \in Processes : Running(p) => event[p].about \in lost \/ report[p] \in rerun \/ RendersAlone(p)
    /\ rerun \cap Ids = {}

-----------------------------------------------------------------------------
(* Links.                                                                  *)

Good(e) == e.status = "completed" /\ e.about \notin lost /\ e.report \notin rerun
Durable(id, w) == id \in DOMAIN disk /\ disk[id].status = "completed" /\ disk[id].about = w
Takers == {report[p] : p \in Workers} \cup {e.report : e \in asked}

Links ==
    /\ \A e \in published : Good(e) => Durable(e.report, e.about)
    /\ \A e \in published : Good(e) /\ e.report \in DOMAIN memory["api"] \ stale =>
          memory["api"][e.report].status = "completed"
    /\ \A p \in Processes : pc[p] = "emit" /\ outcome[p] # "failed" =>
          \/ event[p].about \in lost \/ report[p] \in rerun
          \/ Durable(report[p], event[p].about)
    /\ pc["api"] = "emit" /\ outcome["api"] # "failed" =>
          report["api"] \in DOMAIN memory["api"] /\ memory["api"][report["api"]].status = "completed"
    /\ \A id \in (Takers \cap DOMAIN memory["api"]) \ stale :
          id = "" \/ memory["api"][id].status = "completed"

-----------------------------------------------------------------------------
(* One automatic document.                                                 *)

Making(p) == pc[p] \in {"look", "make"} /\ event[p].kind = "workflow.completed"
AutoOf(w) == {id \in DOMAIN disk : disk[id].auto /\ disk[id].about = w}

Automatic ==
    /\ OneAutomaticDocument
    /\ \A p, q \in Workers : Making(p) /\ Making(q) /\ event[p] = event[q] =>
          p = q \/ event[p].about \in raced
    /\ \A p \in Workers : Making(p) /\ Len(order) <= RecentLimit =>
          event[p].about \in raced \cup lost \/ AutoOf(event[p].about) = {}

-----------------------------------------------------------------------------
(* The document of a finished workflow.                                    *)

InHand(w) == \E p \in Processes : pc[p] \in Rendering /\ event[p].about = w
HasWhole(w) == \E id \in DOMAIN disk : disk[id].about = w /\ disk[id].whole
Settled(w) == w \in spoiled \cup lost \/ HasWhole(w) \/ InHand(w)
Taken(w) == \E p \in Workers : event[p] = Completed(w) /\ pc[p] \in {"search", "look", "make"}

Documents ==
    /\ \A id \in DOMAIN disk : Settled(disk[id].about)
    /\ \A p \in Processes : pc[p] = "save" => outcome[p] = "whole" \/ event[p].about \in spoiled
    /\ \A p \in Workers : pc[p] \in {"emit", "ack"} /\ event[p].kind = "workflow.completed" =>
          Settled(event[p].about)
    /\ \A p \in Workers : \A e \in seen[p] : e.kind = "workflow.completed" => Settled(e.about)
    /\ \A w \in finished : Settled(w) \/ Taken(w) \/ Completed(w) \in queue

-----------------------------------------------------------------------------
(* Names, step by step.                                                    *)

LEMMA ProcessFacts ==
    /\ Workers \subseteq Processes /\ "api" \in Processes /\ "api" \notin Workers /\ "" \notin Ids
    /\ \A p \in Processes : p \in Workers \/ p = "api"
  BY ReportingAssumption DEF Processes

LEMMA NewIdFresh == Drawable => NewId \in Ids \ Used /\ NewId # ""
  BY ReportingAssumption DEF Drawable, NewId

LEMMA ReportFacts ==
    ASSUME Names
    PROVE  \A p, q \in Processes : report[p] = report[q] /\ report[p] \in Ids => p = q
  BY DEF Names, OneHolder

LEMMA NamedFacts ==
    ASSUME Names
    PROVE  /\ \A e \in queue : Named(e) /\ e.report \notin Ids
           /\ \A p \in Workers : pc[p] # "idle" => Named(event[p])
  BY DEF Names, WorkerShape, Named

LEMMA HeldFacts ==
    ASSUME Names
    PROVE  /\ \A p \in Workers : report[p] \in Ids \cup {"", event[p].report}
           /\ report["api"] \in Ids \cup {""}
  BY DEF Names, WorkerShape, ApiShape

LEMMA CompletedFacts ==
    ASSUME NEW w
    PROVE  Completed(w).kind = "workflow.completed" /\ Completed(w).about = w /\ Completed(w).report = ""
  BY DEF Completed

(* An id that was not drawn is the one that the request of its holder has. *)
LEMMA GivenFacts ==
    ASSUME Names, NEW p \in Processes, report[p] # "", report[p] \notin Ids
    PROVE  p \in Workers /\ pc[p] # "idle" /\ event[p] \in asked /\ event[p].report = report[p]
  <1>1. p \in Workers /\ event[p].report = report[p] /\ pc[p] # "idle"
      BY ProcessFacts, HeldFacts DEF Names, ProcessShape
  <1>2. Named(event[p])
      BY <1>1, NamedFacts
  <1>3. event[p].kind # "workflow.completed"
    <2> SUFFICES ASSUME event[p].kind = "workflow.completed" PROVE FALSE
        OBVIOUS
    <2>1. PICK w : event[p] = Completed(w)
        BY <1>2 DEF Named
    <2>2. event[p].report = ""
        BY <2>1, CompletedFacts
    <2> QED BY <1>1, <2>2
  <1> QED BY <1>1, <1>2, <1>3 DEF Named

(* Two that have to do with one report have the same request.              *)
LEMMA SameRequest ==
    ASSUME Names, NEW p \in Processes, NEW q \in Processes, report[p] = report[q], report[p] # "", p # q
    PROVE  report[p] \notin Ids /\ event[p] = event[q] /\ event[p] \in asked
  <1>1. report[p] \notin Ids
      BY ReportFacts
  <1>2. /\ event[p] \in asked /\ event[p].report = report[p]
        /\ event[q] \in asked /\ event[q].report = report[p]
      BY <1>1, GivenFacts
  <1> QED BY <1>1, <1>2 DEF Names, Requested

(* A step in the middle of the work.                                       *)
LEMMA MoveNames ==
    ASSUME Names, NEW p \in Processes, NEW l \in {"look", "make", "emit", "ack"} \cup Rendering,
           pc[p] # "idle", report[p] # "" \/ l = "ack", p = "api" => l \notin {"look", "make"},
           Goto(p, l), UNCHANGED <<event, report, queue, asked>>, DOMAIN outcome' = Processes, seen' = seen
    PROVE  Names'
  <1>1. pc'[p] = l /\ \A q \in Processes : q # p => pc'[q] = pc[q]
      BY DEF Names, Goto
  <1>2. ASSUME NEW q \in Processes PROVE ProcessShape(q)'
    <2>1. CASE q = p
        BY <1>1, <2>1 DEF Names, ProcessShape, Steps, Rendering
    <2>2. CASE q # p
        BY <1>1, <2>2 DEF Names, ProcessShape
    <2> QED BY <2>1, <2>2
  <1>3. \A q \in Workers : WorkerShape(q)'
      BY <1>1, ProcessFacts DEF Names, WorkerShape, Named
  <1>4. ApiShape'
      BY <1>1, ProcessFacts DEF Names, ApiShape, Rendering
  <1>5. OneHolder' /\ Requested' /\ \A e \in queue' : Named(e)'
      BY DEF Names, OneHolder, Named, Requested
  <1> QED BY <1>1, <1>2, <1>3, <1>4, <1>5 DEF Names, Goto

LEMMA RestNames ==
    ASSUME Names, NEW p \in Processes, Rest(p), pc[p] # "idle", DOMAIN seen' = Processes, asked' = asked,
           \/ queue' = queue
           \/ p \in Workers /\ queue' = queue \cup {event[p]}
    PROVE  Names'
  <1>1. /\ pc'[p] = "idle" /\ event'[p] = None /\ report'[p] = ""
        /\ \A q \in Processes : q # p => pc'[q] = pc[q] /\ event'[q] = event[q] /\ report'[q] = report[q]
        /\ DOMAIN pc' = Processes /\ DOMAIN event' = Processes /\ DOMAIN report' = Processes
        /\ DOMAIN outcome' = Processes
      BY DEF Names, Rest, Goto
  <1>2. ASSUME NEW q \in Processes PROVE ProcessShape(q)'
    <2>1. CASE q = p
        BY <1>1, <2>1 DEF ProcessShape, Steps, Rendering
    <2>2. CASE q # p
        BY <1>1, <2>2 DEF Names, ProcessShape
    <2> QED BY <2>1, <2>2
  <1>3. ASSUME NEW q \in Workers PROVE WorkerShape(q)'
    <2>1. CASE q = p
        BY <1>1, <2>1, ProcessFacts DEF WorkerShape, None
    <2>2. CASE q # p
        BY <1>1, <2>2, ProcessFacts DEF Names, WorkerShape, Named
    <2> QED BY <2>1, <2>2
  <1>4. ApiShape'
    <2>1. CASE p = "api"
      <3>1. None.report = ""
          BY DEF None
      <3> QED BY <1>1, <2>1, <3>1 DEF ApiShape
    <2>2. CASE p # "api"
        BY <1>1, <2>2, ProcessFacts DEF Names, ApiShape
    <2> QED BY <2>1, <2>2
  <1>5. \A e \in queue' : Named(e)'
      BY NamedFacts DEF Named
  <1>6. OneHolder'
    <2> SUFFICES ASSUME NEW q \in Processes, NEW r \in Processes, report'[q] = report'[r], report'[q] \in Ids
                 PROVE  q = r
        BY DEF OneHolder
    <2>1. q # p /\ r # p
        BY <1>1, ProcessFacts
    <2> QED BY <1>1, <2>1, ReportFacts
  <1>7. Requested'
      BY DEF Names, Requested
  <1> QED BY <1>1, <1>2, <1>3, <1>4, <1>5, <1>6, <1>7 DEF Names

(* A worker takes an id: one that was drawn, or the one the request names. *)
LEMMA TakeNames ==
    ASSUME Names, NEW p \in Workers, NEW id, Goto(p, "look"),
           report' = [report EXCEPT ![p] = id], id # "",
           DOMAIN event' = Processes, \A q \in Processes : q # p => event'[q] = event[q],
           Named(event'[p]), queue' \subseteq queue,
           \/ id \in Ids \ Used /\ event'[p].report = ""
           \/ id = event'[p].report,
           UNCHANGED <<outcome, seen, asked>>
    PROVE  Names'
  <1>1. /\ pc'[p] = "look" /\ report'[p] = id /\ p \in Processes
        /\ \A q \in Processes : q # p => pc'[q] = pc[q] /\ event'[q] = event[q] /\ report'[q] = report[q]
        /\ DOMAIN pc' = Processes /\ DOMAIN event' = Processes /\ DOMAIN report' = Processes
        /\ DOMAIN outcome' = Processes /\ DOMAIN seen' = Processes
      BY ProcessFacts DEF Names, Goto
  <1>2. ASSUME NEW q \in Processes PROVE ProcessShape(q)'
    <2>1. CASE q = p
        BY <1>1, <2>1 DEF ProcessShape, Steps, Rendering
    <2>2. CASE q # p
        BY <1>1, <2>2 DEF Names, ProcessShape
    <2> QED BY <2>1, <2>2
  <1>3. ASSUME NEW q \in Workers PROVE WorkerShape(q)'
    <2>1. CASE q = p
        BY <1>1, <2>1 DEF WorkerShape, Named
    <2>2. CASE q # p
        BY <1>1, <2>2, ProcessFacts DEF Names, WorkerShape, Named
    <2> QED BY <2>1, <2>2
  <1>4. ApiShape'
      BY <1>1, ProcessFacts DEF Names, ApiShape
  <1>5. Requested' /\ \A e \in queue' : Named(e)'
      BY DEF Names, Named, Requested
  <1>6. \A q \in Processes : q # p /\ id \in Ids => report[q] # id
    <2>1. CASE id \in Ids \ Used
      <3>1. \A q \in Processes : report[q] \in Used
          BY DEF Used
      <3> QED BY <2>1, <3>1
    <2>2. CASE id = event'[p].report
        BY <2>2 DEF Named
    <2> QED BY <2>1, <2>2
  <1>7. OneHolder'
      BY <1>1, <1>6, ReportFacts DEF OneHolder
  <1> QED BY <1>1, <1>2, <1>3, <1>4, <1>5, <1>7 DEF Names

LEMMA AskNames == ASSUME Names, NEW w, Ask(w) PROVE Names'
  <1>1. NewId \in Ids \ Used /\ NewId # ""
      BY NewIdFresh DEF Ask
  <1>2. /\ pc'["api"] = "start" /\ report'["api"] = NewId
        /\ event'["api"] = [kind |-> "asked", about |-> w, report |-> NewId]
        /\ \A q \in Workers : pc'[q] = pc[q] /\ event'[q] = event[q] /\ report'[q] = report[q]
        /\ DOMAIN pc' = Processes /\ DOMAIN event' = Processes /\ DOMAIN report' = Processes
        /\ UNCHANGED <<outcome, seen, queue, asked>>
      BY ProcessFacts DEF Ask, Names, Goto
  <1>3. ASSUME NEW q \in Processes PROVE ProcessShape(q)'
    <2>1. CASE q = "api"
        BY <1>1, <1>2, <2>1 DEF ProcessShape, Steps, Rendering
    <2>2. CASE q \in Workers
        BY <1>2, <2>2, ProcessFacts DEF Names, ProcessShape
    <2> QED BY <2>1, <2>2, ProcessFacts
  <1>4. \A q \in Workers : WorkerShape(q)'
      BY <1>2 DEF Names, WorkerShape, Named
  <1>5. ApiShape'
    <2>1. event'["api"].report = NewId /\ event'["api"].kind = "asked"
        BY <1>2
    <2> QED BY <1>1, <1>2, <2>1 DEF ApiShape, Rendering
  <1>6. \A q \in Workers : report'[q] # NewId
    <2>1. \A q \in Processes : report[q] \in Used
        BY DEF Used
    <2> QED BY <1>1, <1>2, <2>1, ProcessFacts
  <1>7. OneHolder'
      BY <1>2, <1>6, ReportFacts, ProcessFacts DEF OneHolder
  <1>8. Requested' /\ \A e \in queue' : Named(e)'
      BY <1>2 DEF Names, Named, Requested
  <1> QED BY <1>2, <1>3, <1>4, <1>5, <1>7, <1>8 DEF Names

(* The bus, the events that may come, and what comes again.                *)
LEMMA EnqueueNames ==
    ASSUME Names, NEW e, Named(e), queue' = queue \cup {e}, UNCHANGED <<threadVars, asked>>
    PROVE  Names'
  <1>1. UNCHANGED <<pc, event, report, outcome, seen>>
      BY DEF threadVars
  <1>2. (\A p \in Processes : ProcessShape(p)') /\ (\A p \in Workers : WorkerShape(p)') /\ ApiShape'
      BY <1>1 DEF Names, ProcessShape, WorkerShape, ApiShape, Named
  <1>3. OneHolder' /\ Requested' /\ \A f \in queue' : Named(f)'
      BY <1>1 DEF Names, OneHolder, Requested, Named
  <1> QED BY <1>1, <1>2, <1>3 DEF Names

LEMMA Deliverable ==
    ASSUME Names
    PROVE  (\A w : Named(Completed(w))) /\ \A e \in asked : Named(e)
  <1>1. \A w : Named(Completed(w))
      BY CompletedFacts, ProcessFacts DEF Named
  <1>2. \A e \in asked : Named(e)
      BY DEF Names, Requested, Named
  <1> QED BY <1>1, <1>2

LEMMA SameNames == ASSUME Names, UNCHANGED <<threadVars, queue, asked>> PROVE Names'
  <1>1. UNCHANGED <<pc, event, report, outcome, seen, queue>>
      BY DEF threadVars
  <1>2. (\A p \in Processes : ProcessShape(p)') /\ (\A p \in Workers : WorkerShape(p)') /\ ApiShape'
      BY <1>1 DEF Names, ProcessShape, WorkerShape, ApiShape, Named
  <1>3. OneHolder' /\ Requested' /\ \A f \in queue' : Named(f)'
      BY <1>1 DEF Names, OneHolder, Requested, Named
  <1> QED BY <1>1, <1>2, <1>3 DEF Names

(* What Next does to the documents.                                        *)
Step ==
    \/ \E p \in Processes : Work(p) \/ Raise(p) \/ Crash(p) \/ \E e \in queue : Receive(p, e)
    \/ \E w : Announce(w) \/ Ask(w)
    \/ \E e \in asked \cup {Completed(w) : w \in finished} : Redeliver(e)
    \/ \E id : Peek(id)

LEMMA StepCases == [Next]_vars => Step \/ UNCHANGED reportVars
  BY DEF Next, Step, ReportStep, Quiescent, vars

(* An event comes, from the orchestrator or once more.                     *)
LEMMA Arrivals ==
    ASSUME Names, \/ \E w : Announce(w)
                  \/ \E e \in asked \cup {Completed(w) : w \in finished} : Redeliver(e)
    PROVE  /\ \E e : Named(e) /\ queue' = queue \cup {e}
           /\ UNCHANGED <<asked, backend, storeVars, threadVars, published, ghosts>>
           /\ \A w \in finished' \ finished : Completed(w) \in queue'
  <1>1. ASSUME NEW w, Announce(w)
        PROVE  /\ \E e : Named(e) /\ queue' = queue \cup {e}
               /\ UNCHANGED <<asked, backend, storeVars, threadVars, published, ghosts>>
               /\ \A v \in finished' \ finished : Completed(v) \in queue'
    <2>1. Named(Completed(w)) /\ queue' = queue \cup {Completed(w)}
        BY <1>1, Deliverable DEF Announce
    <2>2. finished' = finished \cup {w}
        BY <1>1 DEF Announce
    <2> QED BY <1>1, <2>1, <2>2 DEF Announce
  <1>2. ASSUME NEW e \in asked \cup {Completed(w) : w \in finished}, Redeliver(e)
        PROVE  /\ Named(e) /\ queue' = queue \cup {e} /\ finished' = finished
               /\ UNCHANGED <<asked, backend, storeVars, threadVars, published, ghosts>>
      BY <1>2, Deliverable DEF Redeliver
  <1> QED BY <1>1, <1>2

LEMMA ReceiveNames ==
    ASSUME Names, NEW p \in Processes, NEW e \in queue, Receive(p, e)
    PROVE  Names'
  <1>1. /\ p \in Workers /\ pc[p] = "idle" /\ queue' = queue \ {e} /\ event' = [event EXCEPT ![p] = e]
        /\ event'[p] = e /\ Named(e) /\ UNCHANGED <<outcome, seen, asked>>
      BY NamedFacts DEF Receive, Names
  <1>2. CASE e \notin seen[p] /\ e.kind # "workflow.completed"
    <2> DEFINE id == IF e.report = "" THEN NewId ELSE e.report
    <2>1. Goto(p, "look") /\ report' = [report EXCEPT ![p] = id] /\ (e.report = "" => Drawable)
        BY <1>2 DEF Receive
    <2>2. id # "" /\ ((id \in Ids \ Used /\ e.report = "") \/ id = e.report)
        BY <2>1, NewIdFresh
    <2> HIDE DEF id
    <2>3. /\ queue' \subseteq queue
          /\ DOMAIN event' = Processes /\ \A q \in Processes : q # p => event'[q] = event[q]
        BY <1>1 DEF Names
    <2>4. (id \in Ids \ Used /\ event'[p].report = "") \/ id = event'[p].report
        BY <1>1, <2>2
    <2> QED BY <1>1, <2>1, <2>2, <2>3, <2>4, TakeNames
  <1>3. ASSUME NEW l \in {"ack", "search"}, Goto(p, l), report' = report,
               l = "search" => e.kind = "workflow.completed"
        PROVE  Names'
    <2>1. /\ pc'[p] = l /\ report'[p] = ""
          /\ \A q \in Processes : q # p => pc'[q] = pc[q] /\ event'[q] = event[q]
          /\ DOMAIN pc' = Processes /\ DOMAIN event' = Processes
        BY <1>1, <1>3 DEF Names, Goto, ProcessShape
    <2>2. ASSUME NEW q \in Processes PROVE ProcessShape(q)'
      <3>1. CASE q = p
          BY <1>1, <1>3, <2>1, <3>1 DEF ProcessShape, Steps, Rendering
      <3>2. CASE q # p
          BY <1>3, <2>1, <3>2 DEF Names, ProcessShape
      <3> QED BY <3>1, <3>2
    <2>3. ASSUME NEW q \in Workers PROVE WorkerShape(q)'
      <3>1. CASE q = p
          BY <1>1, <2>1, <3>1 DEF WorkerShape, Named
      <3>2. CASE q # p
          BY <1>1, <1>3, <2>1, <3>2, ProcessFacts DEF Names, WorkerShape, Named
      <3> QED BY <3>1, <3>2
    <2>4. ApiShape'
        BY <1>1, <1>3, <2>1, ProcessFacts DEF Names, ApiShape
    <2>5. OneHolder' /\ Requested'
        BY <1>1, <1>3 DEF Names, OneHolder, Requested
    <2>6. \A f \in queue' : Named(f)'
        BY <1>1, NamedFacts DEF Named
    <2> QED BY <1>1, <1>3, <2>1, <2>2, <2>3, <2>4, <2>5, <2>6 DEF Names
  <1>4. CASE e \in seen[p]
      BY <1>3, <1>4 DEF Receive
  <1>5. CASE e \notin seen[p] /\ e.kind = "workflow.completed"
      BY <1>3, <1>5 DEF Receive
  <1> QED BY <1>2, <1>4, <1>5

LEMMA SearchNames ==
    ASSUME Names, NEW p \in Processes, Search(p)
    PROVE  Names'
  <1>1. pc[p] = "search" /\ UNCHANGED <<event, queue, outcome, seen, asked>>
      BY DEF Search
  <1>2. CASE Goto(p, "ack") /\ report' = report
      BY <1>1, <1>2, MoveNames DEF Names
  <1>3. CASE Goto(p, "look") /\ Drawable /\ report' = [report EXCEPT ![p] = NewId]
    <2>1. p \in Workers /\ event[p].kind = "workflow.completed"
        BY <1>1, ProcessFacts DEF Names, ApiShape, ProcessShape, Rendering
    <2>2. Named(event[p]) /\ event[p].report = ""
      <3>1. Named(event[p])
          BY <1>1, <2>1, NamedFacts
      <3>2. event[p] = Completed(event[p].about)
          BY <2>1, <3>1 DEF Named
      <3> QED BY <3>1, <3>2, CompletedFacts
    <2>3. event' = event /\ DOMAIN event' = Processes
        BY <1>1 DEF Names
    <2> QED BY <1>1, <1>3, <2>1, <2>2, <2>3, NewIdFresh, TakeNames
  <1> QED BY <1>2, <1>3 DEF Search

LEMMA NextNames == ASSUME Names, [Next]_vars PROVE Names'
  <1>1. CASE UNCHANGED reportVars
      BY <1>1, SameNames DEF reportVars
  <1>2. ASSUME NEW p \in Processes, Look(p) \/ Make(p) \/ Start(p) \/ Fetch(p) \/ Save(p) \/ Emit(p)
        PROVE  Names'
    <2>1. pc[p] \in {"look", "make", "start", "fetch", "save", "emit"} /\ report[p] # ""
        BY <1>2 DEF Names, ProcessShape, Look, Make, Start, Fetch, Save, Emit, Rendering
    <2>2. \E l \in {"make", "ack", "start", "fetch", "save", "emit"} :
              Goto(p, l) /\ (pc[p] # "look" => l # "make")
        BY <1>2 DEF Look, Make, Start, Fetch, Save, Emit
    <2>3. UNCHANGED <<event, report, queue, seen, asked>>
        BY <1>2 DEF Look, Make, Start, Fetch, Save, Emit
    <2>4. DOMAIN outcome' = Processes
        BY <1>2 DEF Look, Make, Start, Fetch, Save, Emit, Names
    <2>5. p = "api" => pc[p] # "look"
        BY DEF Names, ApiShape, Rendering
    <2> QED BY <2>1, <2>2, <2>3, <2>4, <2>5, MoveNames DEF Rendering
  <1>3. ASSUME NEW p \in Processes, Ack(p) PROVE Names'
    <2>1. DOMAIN seen' = Processes /\ queue' = queue /\ asked' = asked
        BY <1>3 DEF Ack, Names
    <2> QED BY <1>3, <2>1, RestNames DEF Ack
  <1>4. ASSUME NEW p \in Processes, Raise(p) PROVE Names'
      BY <1>4, RestNames DEF Raise, Names
  <1>5. ASSUME NEW p \in Processes, Crash(p) PROVE Names'
    <2>1. DOMAIN seen' = Processes /\ asked' = asked
        BY <1>5 DEF Crash, Names
    <2>2. queue' = queue \/ (p \in Workers /\ queue' = queue \cup {event[p]})
      <3>1. CASE p = "api"
          BY <1>5, <3>1 DEF Crash
      <3>2. CASE p \in Workers
          BY <1>5, <3>2, ProcessFacts DEF Crash
      <3> QED BY <3>1, <3>2, ProcessFacts
    <2> QED BY <1>5, <2>1, <2>2, RestNames DEF Crash
  <1>6. CASE \/ \E w : Announce(w)
             \/ \E e \in asked \cup {Completed(w) : w \in finished} : Redeliver(e)
      BY <1>6, Arrivals, EnqueueNames
  <1>7. ASSUME NEW id, Peek(id) PROVE Names'
      BY <1>7, SameNames DEF Peek
  <1> QED BY <1>1, <1>2, <1>3, <1>4, <1>5, <1>6, <1>7, StepCases, AskNames, SearchNames, ReceiveNames
          DEF Step, Work

(* The id that was written goes to the end of the order.                  *)
Moved(s, t, S, id) ==
    /\ t \in Seq(S \cup {id}) /\ Len(s) <= Len(t)
    /\ \A i \in 1..Len(s) : \E j \in 1..Len(t) : t[j] = s[i]
    /\ \E j \in 1..Len(t) : t[j] = id

LEMMA MovedLast ==
    ASSUME NEW S, NEW s, NEW id, NEW t, s \in Seq(S), t = Append(RemoveFirst(s, id), id)
    PROVE  Moved(s, t, S, id)
  <1>1. CASE ~ \E i \in 1..Len(s) : s[i] = id
    <2>1. t = Append(s, id)
        BY <1>1 DEF RemoveFirst
    <2>2. /\ t \in Seq(S \cup {id}) /\ Len(t) = Len(s) + 1 /\ t[Len(s) + 1] = id
          /\ \A i \in 1..Len(s) : t[i] = s[i]
        BY <2>1
    <2> QED BY <2>2 DEF Moved
  <1>2. CASE \E i \in 1..Len(s) : s[i] = id
    <2>1. PICK k \in 1..Len(s) : s[k] = id /\ t = Append(RemoveAt(s, k), id)
      <3> DEFINE I == { i \in 1..Len(s) : s[i] = id }
      <3>1. I # {} /\ I \subseteq Nat
          BY <1>2
      <3>2. SelectInSeq(s, LAMBDA v : v = id) = Min(I)
          BY <3>1 DEF SelectInSeq
      <3>3. Min(I) \in I
          BY <3>1, Least DEF Min
      <3> QED BY <1>2, <3>2, <3>3 DEF RemoveFirst
    <2> DEFINE a == SubSeq(s, 1, k - 1)
               b == SubSeq(s, k + 1, Len(s))
    <2>2. a \in Seq(S) /\ Len(a) = k - 1 /\ \A i \in 1..(k - 1) : a[i] = s[i]
      <3>1. k - 1 \in Int /\ \A i \in 1..(k - 1) : s[i] \in S
          OBVIOUS
      <3> QED BY <3>1, SubSeqProperties
    <2>3. b \in Seq(S) /\ Len(b) = Len(s) - k /\ \A i \in 1..(Len(s) - k) : b[i] = s[k + i]
      <3>1. k + 1 \in Int /\ Len(s) \in Int /\ \A i \in (k + 1)..Len(s) : s[i] \in S
          OBVIOUS
      <3>2. /\ b \in Seq(S) /\ Len(b) = IF k + 1 <= Len(s) THEN Len(s) - (k + 1) + 1 ELSE 0
            /\ \A i \in 1..(Len(s) - (k + 1) + 1) : b[i] = s[k + 1 + i - 1]
          BY <3>1, SubSeqProperties
      <3> QED BY <3>2
    <2>4. t = Append(a \o b, id)
        BY <2>1 DEF RemoveAt
    <2> HIDE DEF a, b
    <2>5. /\ Len(t) = Len(s) /\ t[Len(s)] = id
          /\ \A i \in 1..(k - 1) : t[i] = a[i]
          /\ \A i \in 1..(Len(s) - k) : t[k - 1 + i] = b[i]
      <3> DEFINE c == a \o b
      <3>1. c \in Seq(S) /\ Len(c) = Len(s) - 1
        <4>1. a \in Seq(S) /\ b \in Seq(S)
            BY <2>2, <2>3
        <4>2. c \in Seq(S) /\ Len(c) = Len(a) + Len(b)
            BY <4>1, ConcatProperties
        <4>3. k \in Int /\ Len(s) \in Int
            OBVIOUS
        <4> QED BY <2>2, <2>3, <4>2, <4>3
      <3>2. \A i \in 1..(k - 1) : c[i] = a[i]
          BY <2>2, <2>3, <3>1
      <3>3. \A i \in 1..(Len(s) - k) : c[k - 1 + i] = b[i]
          BY <2>2, <2>3, <3>1
      <3>4. Len(t) = Len(s) /\ t[Len(s)] = id /\ \A i \in 1..(Len(s) - 1) : t[i] = c[i]
          BY <2>4, <3>1
      <3>5. \A i \in 1..(k - 1) : i \in 1..(Len(s) - 1)
          OBVIOUS
      <3>6. \A i \in 1..(Len(s) - k) : k - 1 + i \in 1..(Len(s) - 1)
          OBVIOUS
      <3> HIDE DEF c
      <3> QED BY <3>2, <3>3, <3>4, <3>5, <3>6
    <2>6. t \in Seq(S \cup {id})
        BY <2>2, <2>3, <2>4
    <2>7. ASSUME NEW i \in 1..Len(s) PROVE \E j \in 1..Len(t) : t[j] = s[i]
      <3>1. CASE i < k
          BY <2>2, <2>5, <3>1
      <3>2. CASE i = k
          BY <2>1, <2>5, <3>2
      <3>3. CASE i > k
        <4>1. i - k \in 1..(Len(s) - k) /\ k - 1 + (i - k) = i - 1 /\ k + (i - k) = i /\ i - 1 \in 1..Len(s)
            BY <3>3
        <4>2. t[i - 1] = b[i - k] /\ b[i - k] = s[i]
            BY <2>3, <2>5, <4>1
        <4> QED BY <2>5, <4>1, <4>2
      <3> QED BY <3>1, <3>2, <3>3
    <2>8. Len(s) \in 1..Len(t) /\ Len(s) <= Len(t)
        BY <2>5
    <2> QED BY <2>5, <2>6, <2>7, <2>8 DEF Moved
  <1> QED BY <1>1, <1>2

-----------------------------------------------------------------------------
(* Store: what is known of an id after a step.                             *)

LEMMA StoreFacts ==
    ASSUME Store
    PROVE  /\ StoreShape /\ Agree /\ Requests /\ Unwritten /\ backend \in {"files", "postgres"}
           /\ DOMAIN memory = Processes /\ \A p \in Processes : Work1(p)
           /\ backend = "postgres" => \A p \in Processes : DOMAIN memory[p] = {}
  BY DEF Store, StoreShape

Untouched(x) ==
    /\ x \in DOMAIN disk' <=> x \in DOMAIN disk
    /\ x \in DOMAIN disk => disk'[x] = disk[x]
    /\ \A q \in Processes :
          /\ x \in DOMAIN memory'[q] <=> x \in DOMAIN memory[q]
          /\ x \in DOMAIN memory[q] => memory'[q][x] = memory[q][x]

LEMMA UntouchedAbout == ASSUME NEW x, NEW e, Untouched(x), About(x, e) PROVE About(x, e)'
  BY DEF Untouched, About, MadeFor

SameThread(q) == pc'[q] = pc[q] /\ event'[q] = event[q] /\ report'[q] = report[q]

LEMMA UntouchedWork ==
    ASSUME NEW q \in Processes, Work1(q), SameThread(q), Untouched(report[q]), backend' = backend
    PROVE  Work1(q)'
  <1> USE DEF SameThread, Untouched
  <1>1. (report[q] # "" => About(report[q], event[q]))'
      BY DEF Work1, About, MadeFor
  <1>2. (pc[q] \in {"look", "make"} /\ report[q] \in Ids => Fresh(report[q]))'
      BY DEF Work1, Fresh
  <1>3. (pc[q] = "start" /\ report[q] \in Ids \cap DOMAIN disk => disk[report[q]].status = "queued")'
      BY DEF Work1
  <1>4. (pc[q] \in Rendering => get(q, report[q]) # {})'
      BY DEF Work1, get
  <1> QED BY <1>1, <1>2, <1>3, <1>4 DEF Work1

(* Steps that leave the store alone.                                       *)
LEMMA QuietStore ==
    ASSUME Names, Store, UNCHANGED <<asked, backend, storeVars, lost>>, NEW p \in Processes,
           \A q \in Processes : q # p => SameThread(q), Work1(p)'
    PROVE  Store'
  <1>1. \A x : Untouched(x)
      BY DEF storeVars, Untouched
  <1>2. ASSUME NEW q \in Processes PROVE Work1(q)'
    <2>1. CASE q # p
        BY <1>1, <2>1, StoreFacts, UntouchedWork
    <2> QED BY <2>1
  <1>3. Requests'
    <2> SUFFICES ASSUME NEW e \in asked', e.report # "" PROVE About(e.report, e)'
        BY DEF Requests
    <2>1. About(e.report, e)
        BY StoreFacts DEF Requests
    <2> QED BY <1>1, <2>1, UntouchedAbout
  <1>4. StoreShape' /\ Agree' /\ Unwritten'
    <2>1. UNCHANGED <<backend, disk, order, memory, lost>>
        BY DEF storeVars
    <2> QED BY <2>1, StoreFacts DEF StoreShape, Agree, Unwritten, Alike, IsRecord
  <1> QED BY <1>2, <1>3, <1>4 DEF Store

(* An id that was drawn is known nowhere.                                  *)
LEMMA NewIdUnknown ==
    ASSUME NEW id \in Ids \ Used, NEW e
    PROVE  About(id, e) /\ Fresh(id)
  <1>1. \A q \in Processes : id \notin DOMAIN memory[q]
      BY DEF Used
  <1>2. id \notin DOMAIN disk
      BY DEF Used
  <1> QED BY <1>1, <1>2 DEF About, Fresh

LEMMA ReceiveStore ==
    ASSUME Names, Store, NEW p \in Processes, NEW e \in queue, Receive(p, e)
    PROVE  Store'
  <1>1. /\ p \in Workers /\ event'[p] = e
        /\ UNCHANGED <<asked, backend, storeVars, lost, disk, memory>>
      BY DEF Receive, Names, storeVars, ghosts
  <1>2. \A q \in Processes : q # p => SameThread(q)
      BY DEF Receive, Names, SameThread, Goto
  <1>3. Work1(p)'
    <2>1. CASE e \notin seen[p] /\ e.kind # "workflow.completed"
      <3>1. pc'[p] = "look" /\ (e.report = "" => Drawable)
          BY <2>1 DEF Receive, Names, Goto
      <3>2. report'[p] = IF e.report = "" THEN NewId ELSE e.report
          BY <2>1 DEF Receive, Names
      <3>3. CASE e.report = ""
        <4>1. PICK id \in Ids \ Used : report'[p] = id
            BY <3>1, <3>2, <3>3, NewIdFresh
        <4>2. About(id, e) /\ Fresh(id)
            BY NewIdUnknown
        <4> QED BY <1>1, <3>1, <4>1, <4>2 DEF Work1, About, Fresh, MadeFor, Rendering
      <3>4. CASE e.report # ""
        <4>1. Named(e) /\ e.report \notin Ids /\ report'[p] = e.report
            BY <3>2, <3>4, NamedFacts
        <4>2. About(e.report, e)
            BY <2>1, <3>4, <4>1, StoreFacts DEF Named, Requests
        <4> QED BY <1>1, <3>1, <4>1, <4>2 DEF Work1, About, MadeFor, Rendering
      <3> QED BY <3>3, <3>4
    <2>2. CASE ~(e \notin seen[p] /\ e.kind # "workflow.completed")
      <3>1. pc'[p] \in {"ack", "search"} /\ report' = report /\ pc[p] = "idle"
          BY <2>2 DEF Receive, Names, Goto
      <3>2. report'[p] = ""
          BY <3>1 DEF Names, ProcessShape
      <3> QED BY <3>1, <3>2 DEF Work1, Rendering
    <2> QED BY <2>1, <2>2
  <1> QED BY <1>1, <1>2, <1>3, QuietStore

LEMMA SearchStore ==
    ASSUME Names, Store, NEW p \in Processes, Search(p)
    PROVE  Store'
  <1>1. /\ pc[p] = "search" /\ report[p] = ""
        /\ UNCHANGED <<asked, backend, storeVars, lost, disk, memory, event>>
      BY DEF Search, Names, ProcessShape, storeVars
  <1>2. \A q \in Processes : q # p => SameThread(q)
      BY DEF Search, Names, SameThread, Goto
  <1>3. Work1(p)'
    <2>1. CASE pc'[p] = "ack" /\ report' = report
        BY <1>1, <2>1 DEF Work1, Rendering
    <2>2. CASE pc'[p] = "look" /\ Drawable /\ report'[p] = NewId
      <3>1. PICK id \in Ids \ Used : report'[p] = id
          BY <2>2, NewIdFresh
      <3>2. About(id, event[p]) /\ Fresh(id)
          BY NewIdUnknown
      <3> QED BY <1>1, <2>2, <3>1, <3>2 DEF Work1, About, Fresh, MadeFor, Rendering
    <2> QED BY <2>1, <2>2 DEF Search, Names, Goto
  <1> QED BY <1>1, <1>2, <1>3, QuietStore

LEMMA RestStore ==
    ASSUME Names, Store, NEW p \in Processes, Ack(p) \/ Raise(p)
    PROVE  Store'
  <1>1. Rest(p) /\ UNCHANGED <<asked, backend, storeVars, lost>>
      BY DEF Ack, Raise, ghosts
  <1>2. /\ pc'[p] = "idle" /\ report'[p] = ""
        /\ \A q \in Processes : q # p => SameThread(q)
      BY <1>1 DEF Rest, Names, SameThread, Goto
  <1>3. Work1(p)'
      BY <1>2 DEF Work1, Rendering
  <1> QED BY <1>1, <1>2, <1>3, QuietStore

LEMMA RunStore ==
    ASSUME Names, Store, NEW p \in Processes, Fetch(p) \/ Emit(p)
    PROVE  Store'
  <1>1. UNCHANGED <<asked, backend, storeVars, disk, memory, lost, event, report>>
      BY DEF Fetch, Emit, ghosts, storeVars
  <1>2. /\ (pc[p] = "fetch" /\ pc'[p] = "save") \/ (pc[p] = "emit" /\ pc'[p] = "ack")
        /\ \A q \in Processes : q # p => SameThread(q)
      BY DEF Fetch, Emit, Names, SameThread, Goto
  <1>3. Work1(p)'
      BY <1>1, <1>2, StoreFacts DEF Work1, Rendering, About, MadeFor, get
  <1> QED BY <1>1, <1>2, <1>3, QuietStore

LEMMA SameStore ==
    ASSUME Names, Store, UNCHANGED <<asked, backend, storeVars, threadVars, lost>>
    PROVE  Store'
  <1>1. /\ UNCHANGED <<pc, event, report, disk, memory>> /\ "api" \in Processes
        /\ \A q \in Processes : SameThread(q)
      BY ProcessFacts DEF threadVars, SameThread, storeVars
  <1>2. \A x : Untouched(x)
      BY <1>1 DEF Untouched
  <1>3. Work1("api")'
      BY <1>1, <1>2, StoreFacts, UntouchedWork
  <1> QED BY <1>1, <1>3, QuietStore

(* Steps that write the record of one id, or read it into a cache.  An id  *)
(* that was drawn is with p alone; the others that have to do with one     *)
(* that was not have the same request.                                     *)
Sole(p, id) == id \in Ids => \A q \in Processes \ {p} : report[q] # id

LEMMA SoleHolder ==
    ASSUME Names, NEW p \in Processes
    PROVE  Sole(p, report[p])
  BY ReportFacts DEF Sole

LEMMA SoleDrawn ==
    ASSUME NEW p, NEW id \in Ids \ Used
    PROVE  Sole(p, id)
  BY DEF Used, Sole

LEMMA TouchStore ==
    ASSUME Names, Store, NEW p \in Processes, NEW id, Sole(p, id), report'[p] = id, id # "",
           UNCHANGED <<asked, backend>>,
           \A q \in Processes : q # p => SameThread(q), id \notin Ids => event'[p] \in asked /\ event'[p].report = id,
           \A x : x # id => Untouched(x), DOMAIN disk \subseteq DOMAIN disk',
           \A q \in Processes : q # p => memory'[q] = memory[q],
           StoreShape', Agree', Unwritten', Work1(p)'
    PROVE  Store'
  <1>1. PICK d : d = event'[p] /\ About(id, d)'
      BY DEF Work1, About, MadeFor
  <1>2. ASSUME NEW e \in asked, e.report = id PROVE About(id, e)'
    <2>1. id \notin Ids
        BY <1>2 DEF Names, Requested
    <2>2. e = d
        BY <1>1, <1>2, <2>1 DEF Names, Requested
    <2> QED BY <1>1, <2>2
  <1>3. ASSUME NEW q \in Processes PROVE Work1(q)'
    <2>1. CASE q # p /\ report[q] # id
        BY <2>1, StoreFacts, UntouchedWork
    <2>2. CASE q # p /\ report[q] = id
      <3>1. SameThread(q) /\ id \notin Ids /\ memory'[q] = memory[q]
          BY <2>2 DEF Sole
      <3>2. PICK e \in asked : e = event[q] /\ e.report = id
          BY <2>2, <3>1, GivenFacts
      <3>3. About(id, e)'
          BY <1>2, <3>2
      <3>4. (report[q] # "" => About(report[q], event[q]))'
        <4>1. report'[q] = id /\ event'[q] = e
            BY <2>2, <3>1, <3>2 DEF SameThread
        <4> QED BY <3>3, <4>1 DEF About, MadeFor
      <3>5. (pc[q] \in Rendering => get(q, report[q]) # {})'
        <4>1. pc[q] \in Rendering => get(q, id) # {}
            BY <2>2, StoreFacts DEF Work1
        <4> QED BY <2>2, <3>1, <4>1 DEF SameThread, get
      <3> QED BY <2>2, <3>1, <3>4, <3>5 DEF Work1, SameThread
    <2> QED BY <2>1, <2>2
  <1>4. Requests'
    <2> SUFFICES ASSUME NEW e \in asked, e.report # "" PROVE About(e.report, e)'
        BY DEF Requests
    <2>1. CASE e.report = id
        BY <1>2, <2>1
    <2>2. CASE e.report # id
        BY <2>2, StoreFacts, UntouchedAbout DEF Requests
    <2> QED BY <2>1, <2>2
  <1> QED BY <1>3, <1>4 DEF Store

(* What Written does to the copy of p and to the store.                    *)
Copied(p, id, r) ==
    /\ DOMAIN memory' = Processes
    /\ \A q \in Processes : q # p => memory'[q] = memory[q]
    /\ backend = "postgres" => memory'[p] = memory[p]
    /\ backend = "files" =>
          /\ DOMAIN memory'[p] = DOMAIN memory[p] \cup {id} /\ memory'[p][id] = r
          /\ \A x \in DOMAIN memory[p] : x # id => memory'[p][x] = memory[p][x]

Filed(id, r) ==
    /\ DOMAIN disk' = DOMAIN disk \cup {id} /\ disk'[id] = r /\ lost' = lost
    /\ \A x \in DOMAIN disk : x # id => disk'[x] = disk[x]
Dropped(r) == backend = "files" /\ disk' = disk /\ order' = order /\ lost' = lost \cup {r.about}

LEMMA WrittenCopy ==
    ASSUME StoreShape, NEW p \in Processes, NEW id, NEW r, NEW last \in BOOLEAN, Written(p, id, r, last)
    PROVE  Copied(p, id, r)
  <1>1. CASE backend = "files"
    <2>1. memory' = [memory EXCEPT ![p] = Put(@, id, r)]
        BY <1>1 DEF Written
    <2>2. /\ DOMAIN memory' = Processes /\ memory'[p] = Put(memory[p], id, r)
          /\ \A q \in Processes : q # p => memory'[q] = memory[q]
        BY <2>1 DEF StoreShape
    <2>3. /\ DOMAIN memory'[p] = DOMAIN memory[p] \cup {id} /\ memory'[p][id] = r
          /\ \A x \in DOMAIN memory[p] : x # id => memory'[p][x] = memory[p][x]
        BY <2>2 DEF Put
    <2> QED BY <1>1, <2>2, <2>3 DEF Copied
  <1>2. CASE backend = "postgres"
      BY <1>2 DEF Written, Copied, StoreShape
  <1> QED BY <1>1, <1>2 DEF StoreShape

LEMMA WrittenStore ==
    ASSUME StoreShape, NEW p \in Processes, NEW id, NEW r, NEW last \in BOOLEAN, Written(p, id, r, last)
    PROVE  Filed(id, r) \/ Dropped(r)
  <1>1. CASE disk' = Put(disk, id, r) /\ lost' = lost
      BY <1>1 DEF Filed, Put
  <1>2. CASE backend = "files" /\ lost' = lost \cup {r.about} /\ UNCHANGED <<disk, order>>
      BY <1>2 DEF Dropped
  <1> QED BY <1>1, <1>2 DEF Written

LEMMA WrittenOrder ==
    ASSUME StoreShape, NEW p \in Processes, NEW id, NEW r, NEW last \in BOOLEAN, Written(p, id, r, last),
           last \/ id \in DOMAIN disk
    PROVE  /\ order' \in Seq(DOMAIN disk') /\ Len(order) <= Len(order')
           /\ \A x \in DOMAIN disk' : \E i \in 1..Len(order') : order'[i] = x
  <1>1. /\ order \in Seq(DOMAIN disk) /\ Len(order) \in Nat
        /\ \A x \in DOMAIN disk : \E i \in 1..Len(order) : order[i] = x
      BY DEF StoreShape
  <1>2. CASE Dropped(r)
      BY <1>1, <1>2 DEF Dropped
  <1>3. CASE disk' = Put(disk, id, r) /\ last /\ order' = Append(RemoveFirst(order, id), id)
    <2>1. DOMAIN disk' = DOMAIN disk \cup {id}
        BY <1>3 DEF Put
    <2>2. /\ order' \in Seq(DOMAIN disk \cup {id}) /\ Len(order) <= Len(order')
          /\ \A i \in 1..Len(order) : \E j \in 1..Len(order') : order'[j] = order[i]
          /\ \E j \in 1..Len(order') : order'[j] = id
      <3>1. Moved(order, order', DOMAIN disk, id)
          BY <1>1, <1>3, MovedLast
      <3> QED BY <3>1 DEF Moved
    <2>3. ASSUME NEW x \in DOMAIN disk' PROVE \E i \in 1..Len(order') : order'[i] = x
      <3>1. CASE x = id
          BY <2>2, <3>1
      <3>2. CASE x \in DOMAIN disk
        <4>1. PICK i \in 1..Len(order) : order[i] = x
            BY <1>1, <3>2
        <4> QED BY <2>2, <4>1
      <3> QED BY <2>1, <3>1, <3>2
    <2> QED BY <2>1, <2>2, <2>3
  <1>4. CASE disk' = Put(disk, id, r) /\ ~last /\ order' = order
    <2>1. DOMAIN disk' = DOMAIN disk
        BY <1>4 DEF Put
    <2> QED BY <1>1, <1>4, <2>1
  <1> QED BY <1>2, <1>3, <1>4 DEF Written, Dropped

(* The records of an id that agree with r.                                 *)
LikeOthers(id, r) ==
    /\ id \in DOMAIN disk => Alike(disk[id], r)
    /\ \A q \in Processes : id \in DOMAIN memory[q] => Alike(memory[q][id], r)

LEMMA WrittenFacts ==
    ASSUME Store, NEW p \in Processes, NEW id, NEW r, NEW last \in BOOLEAN, Written(p, id, r, last),
           last \/ id \in DOMAIN disk, IsRecord(r), LikeOthers(id, r), backend' = backend
    PROVE  /\ StoreShape' /\ Agree' /\ Unwritten' /\ LikeOthers(id, r)'
           /\ \A x : x # id => Untouched(x)
           /\ get(p, id)' = {r}
           /\ lost \subseteq lost' /\ DOMAIN disk \subseteq DOMAIN disk'
           /\ \A q \in Processes : q # p => memory'[q] = memory[q]
  <1>1. Copied(p, id, r) /\ (Filed(id, r) \/ Dropped(r))
      BY StoreFacts, WrittenCopy, WrittenStore
  <1>2. backend \in {"files", "postgres"} /\ (backend = "postgres" => DOMAIN memory[p] = {})
      BY StoreFacts
  <1>3. \A x : x # id => Untouched(x)
      BY <1>1, <1>2 DEF Copied, Filed, Dropped, Untouched
  <1>4. ASSUME NEW q \in Processes
        PROVE  /\ DOMAIN memory'[q] \subseteq DOMAIN memory[q] \cup {id}
               /\ id \in DOMAIN memory'[q] => memory'[q][id] = r \/ (id \in DOMAIN memory[q] /\ memory'[q][id] = memory[q][id])
               /\ \A x \in DOMAIN memory'[q] : x # id => x \in DOMAIN memory[q] /\ memory'[q][x] = memory[q][x]
      BY <1>1, <1>2 DEF Copied
  <1>5. /\ DOMAIN disk \subseteq DOMAIN disk' /\ DOMAIN disk' \subseteq DOMAIN disk \cup {id}
        /\ id \in DOMAIN disk' => disk'[id] = r \/ (id \in DOMAIN disk /\ disk'[id] = disk[id])
        /\ \A x \in DOMAIN disk' : x # id => x \in DOMAIN disk /\ disk'[x] = disk[x]
      BY <1>1 DEF Filed, Dropped
  <1>6. LikeOthers(id, r)'
    <2>1. Alike(r, r)
        BY DEF Alike
    <2> QED BY <1>4, <1>5, <2>1 DEF LikeOthers
  <1>7. StoreShape'
    <2>1. \A x \in DOMAIN disk' : IsRecord(disk'[x])
        BY <1>5, StoreFacts DEF StoreShape
    <2>2. \A q \in Processes : \A x \in DOMAIN memory'[q] : IsRecord(memory'[q][x])
        BY <1>4, StoreFacts DEF StoreShape
    <2>3. order' \in Seq(DOMAIN disk') /\ \A x \in DOMAIN disk' : \E i \in 1..Len(order') : order'[i] = x
        BY StoreFacts, WrittenOrder
    <2>4. backend' = "postgres" => \A q \in Processes : DOMAIN memory'[q] = {}
        BY <1>1, StoreFacts DEF Copied
    <2> QED BY <1>1, <2>1, <2>2, <2>3, <2>4, StoreFacts DEF StoreShape, Copied
  <1>8. Agree'
    <2>1. ASSUME NEW q \in Processes, NEW x \in DOMAIN disk' \cap DOMAIN memory'[q]
          PROVE  Alike(disk'[x], memory'[q][x])
      <3>1. CASE x # id
          BY <1>4, <1>5, <3>1, StoreFacts DEF Agree
      <3>2. CASE x = id
          BY <1>6, <3>2 DEF LikeOthers, Alike
      <3> QED BY <3>1, <3>2
    <2>2. ASSUME NEW q \in Processes, NEW s \in Processes, NEW x \in DOMAIN memory'[q] \cap DOMAIN memory'[s]
          PROVE  Alike(memory'[q][x], memory'[s][x])
      <3>1. CASE x # id
          BY <1>4, <3>1, StoreFacts DEF Agree
      <3>2. CASE x = id
          BY <1>6, <3>2 DEF LikeOthers, Alike
      <3> QED BY <3>1, <3>2
    <2> QED BY <2>1, <2>2 DEF Agree, Alike
  <1>9. Unwritten'
    <2>1. ASSUME NEW q \in Processes, NEW x \in DOMAIN memory'[q] \ DOMAIN disk'
          PROVE  memory'[q][x].about \in lost'
      <3>1. CASE x # id
          BY <1>1, <1>4, <1>5, <3>1, StoreFacts DEF Unwritten, Filed, Dropped
      <3>2. CASE x = id
        <4>1. Dropped(r)
            BY <1>1, <3>2 DEF Filed
        <4>2. Alike(memory'[q][id], r)
            BY <1>6, <3>2 DEF LikeOthers
        <4> QED BY <3>2, <4>1, <4>2 DEF Dropped, Alike
      <3> QED BY <3>1, <3>2
    <2> QED BY <2>1 DEF Unwritten
  <1>10. get(p, id)' = {r}
      BY <1>1, <1>2 DEF get, Copied, Filed, Dropped
  <1> QED BY <1>1, <1>3, <1>5, <1>6, <1>7, <1>8, <1>9, <1>10 DEF Filed, Dropped, Copied

(* Steps that write.                                                       *)
LEMMA WriteStore ==
    ASSUME Names, Store, NEW p \in Processes, NEW id, NEW r, NEW last \in BOOLEAN, Written(p, id, r, last),
           last \/ id \in DOMAIN disk, IsRecord(r), LikeOthers(id, r), Sole(p, id), report'[p] = id, id # "",
           UNCHANGED <<asked, backend>>, \A q \in Processes : q # p => SameThread(q),
           id \notin Ids => event'[p] \in asked /\ event'[p].report = id, MadeFor(r, event'[p]),
           pc'[p] \notin {"look", "make"}, pc'[p] = "start" => r.status = "queued" /\ (id \in Ids => id \notin DOMAIN disk)
    PROVE  Store'
  <1>1. /\ StoreShape' /\ Agree' /\ Unwritten' /\ LikeOthers(id, r)'
        /\ \A x : x # id => Untouched(x)
        /\ get(p, id)' = {r}
        /\ lost \subseteq lost' /\ DOMAIN disk \subseteq DOMAIN disk'
        /\ \A q \in Processes : q # p => memory'[q] = memory[q]
    <2>1. Store /\ Written(p, id, r, last) /\ (last \/ id \in DOMAIN disk) /\ IsRecord(r) /\ LikeOthers(id, r)
        OBVIOUS
    <2>2. backend' = backend
        OBVIOUS
    <2> QED BY ONLY <2>1, <2>2, WrittenFacts, p \in Processes, last \in BOOLEAN
  <1>2. Filed(id, r) \/ Dropped(r)
      BY StoreFacts, WrittenStore
  <1>3. PICK d : d = event'[p] /\ MadeFor(r, d)
      OBVIOUS
  <1>4. About(id, d)'
      BY <1>1, <1>3 DEF LikeOthers, Alike, About, MadeFor
  <1>5. (report[p] # "" => About(report[p], event[p]))'
      BY <1>3, <1>4 DEF About, MadeFor
  <1>6. (pc[p] \in Rendering => get(p, report[p]) # {})'
    <2>1. get(p, report[p])' = {r}
        BY <1>1 DEF get
    <2> QED BY <2>1
  <1>7. (pc[p] = "start" /\ report[p] \in Ids \cap DOMAIN disk => disk[report[p]].status = "queued")'
      BY <1>2 DEF Filed, Dropped
  <1>8. Work1(p)'
      BY <1>5, <1>6, <1>7 DEF Work1
  <1> QED BY <1>1, <1>8, TouchStore

LEMMA OwnFacts ==
    ASSUME Names, Store, NEW p \in Processes, pc[p] \in Rendering
    PROVE  /\ IsRecord(Own(p)) /\ get(p, report[p]) = {Own(p)} /\ LikeOthers(report[p], Own(p))
           /\ MadeFor(Own(p), event[p]) /\ (backend # "files" => report[p] \in DOMAIN disk)
  <1> DEFINE id == report[p]
  <1>1. Work1(p) /\ id # ""
      BY StoreFacts DEF Names, ProcessShape
  <1>2. PICK r : r \in get(p, id)
      BY <1>1 DEF Work1
  <1>3. get(p, id) = {r} /\ Own(p) = r
      BY <1>2 DEF get, Own
  <1>4. \/ backend = "files" /\ id \in DOMAIN memory[p] /\ r = memory[p][id]
        \/ id \in DOMAIN disk /\ r = disk[id]
      BY <1>2 DEF get
  <1>5. backend # "files" => id \in DOMAIN disk
      BY <1>4
  <1>6. IsRecord(r)
      BY <1>4, StoreFacts DEF StoreShape
  <1>7. LikeOthers(id, r)
      BY <1>4, StoreFacts DEF LikeOthers, Agree, Alike
  <1>8. MadeFor(r, event[p])
      BY <1>1, <1>4 DEF Work1, About
  <1> QED BY <1>3, <1>5, <1>6, <1>7, <1>8

(* What is written for an event is like what there was for it.             *)
LEMMA MadeAlike ==
    ASSUME NEW id, NEW e, NEW r, About(id, e), MadeFor(r, e) PROVE LikeOthers(id, r)
  BY DEF About, MadeFor, LikeOthers, Alike

(* Whose report it is, and what it needs to be written.                    *)
LEMMA WriterFacts ==
    ASSUME Names, Store, NEW p \in Processes, report[p] # "", event' = event, report' = report
    PROVE  /\ Sole(p, report[p]) /\ report'[p] = report[p] /\ About(report[p], event[p])
           /\ report[p] \notin Ids => event'[p] \in asked /\ event'[p].report = report[p]
  BY SoleHolder, GivenFacts, StoreFacts DEF Work1

Started(p) == [Own(p) EXCEPT !.status = "running"]

LEMMA StartWrites ==
    ASSUME Names, Store, NEW p \in Processes, Start(p)
    PROVE  /\ IsRecord(Started(p)) /\ Started(p).status = "running" /\ MadeFor(Started(p), event[p])
           /\ LikeOthers(report[p], Started(p)) /\ (backend = "files" \/ report[p] \in DOMAIN disk)
           /\ Written(p, report[p], Started(p), backend = "files")
  <1>1. pc[p] \in Rendering
      BY DEF Start, Rendering
  <1>2. PICK o : /\ o = Own(p) /\ IsRecord(o) /\ LikeOthers(report[p], o) /\ MadeFor(o, event[p])
                 /\ backend # "files" => report[p] \in DOMAIN disk
      BY <1>1, OwnFacts
  <1>3. PICK r : r = Started(p)
      OBVIOUS
  <1>4. r = [about |-> o.about, auto |-> o.auto, status |-> "running", whole |-> o.whole]
      BY <1>2, <1>3 DEF IsRecord, Started
  <1>5. IsRecord(r) /\ r.status = "running" /\ r.about = o.about /\ r.auto = o.auto
      BY <1>2, <1>4 DEF IsRecord
  <1>6. Written(p, report[p], r, backend = "files")
      BY <1>3 DEF Start, Updated, Started
  <1>7. LikeOthers(report[p], r) /\ MadeFor(r, event[p])
      BY <1>2, <1>5 DEF LikeOthers, Alike, MadeFor
  <1> QED BY <1>2, <1>3, <1>5, <1>6, <1>7

LEMMA StartStore == ASSUME Names, Store, NEW p \in Processes, Start(p) PROVE Store'
  <1>1. report[p] # ""
      BY DEF Start, Names, ProcessShape, Rendering
  <1>2. /\ IsRecord(Started(p)) /\ MadeFor(Started(p), event[p]) /\ LikeOthers(report[p], Started(p))
        /\ (backend = "files" \/ report[p] \in DOMAIN disk) /\ Written(p, report[p], Started(p), backend = "files")
      BY StartWrites
  <1>3. UNCHANGED <<asked, backend, event, report>>
      BY DEF Start
  <1>4. pc'[p] = "fetch" /\ \A q \in Processes : q # p => SameThread(q)
      BY <1>3 DEF Start, Goto, Names, SameThread
  <1>5. /\ Sole(p, report[p]) /\ report'[p] = report[p]
        /\ report[p] \notin Ids => event'[p] \in asked /\ event'[p].report = report[p]
      BY <1>1, <1>3, WriterFacts
  <1>6. MadeFor(Started(p), event'[p]) /\ (backend = "files") \in BOOLEAN
      BY <1>2, <1>3
  <1> QED BY <1>1, <1>2, <1>3, <1>4, <1>5, <1>6, WriteStore

(* The record that Save writes.                                            *)
Outcome(p) ==
    [Own(p) EXCEPT !.status = Ending(p),
                   !.whole = IF outcome[p] = "failed" THEN @ ELSE outcome[p] = "whole"]

LEMMA OutcomeFacts ==
    ASSUME Names, Store, NEW p \in Processes, pc[p] \in Rendering
    PROVE  /\ IsRecord(Outcome(p)) /\ LikeOthers(report[p], Outcome(p)) /\ MadeFor(Outcome(p), event[p])
           /\ Outcome(p).status = Ending(p) /\ (outcome[p] = "whole" => Outcome(p).whole)
  <1>1. PICK o : o = Own(p) /\ IsRecord(o) /\ LikeOthers(report[p], o) /\ MadeFor(o, event[p])
      BY OwnFacts
  <1>2. PICK u : u = Outcome(p)
      OBVIOUS
  <1>3. PICK b \in BOOLEAN : b = IF outcome[p] = "failed" THEN o.whole ELSE outcome[p] = "whole"
      BY <1>1 DEF IsRecord
  <1>4. u = [about |-> o.about, auto |-> o.auto, status |-> Ending(p), whole |-> b]
      BY <1>1, <1>2, <1>3 DEF IsRecord, Outcome
  <1>5. /\ IsRecord(u) /\ u.about = o.about /\ u.auto = o.auto /\ u.status = Ending(p)
        /\ outcome[p] = "whole" => u.whole
      BY <1>1, <1>3, <1>4 DEF IsRecord
  <1>6. LikeOthers(report[p], u) /\ MadeFor(u, event[p])
      BY <1>1, <1>5 DEF LikeOthers, Alike, MadeFor
  <1> QED BY <1>2, <1>5, <1>6

LEMMA SaveWrites ==
    ASSUME NEW p \in Processes, Save(p)
    PROVE  /\ Written(p, report[p], Outcome(p), backend = "files") /\ pc[p] = "save"
           /\ UNCHANGED <<asked, backend, finished, queue, event, report, outcome, seen, raced, stale,
                          rerun, spoiled>>
  BY DEF Save, Updated, Outcome

LEMMA SaveStore == ASSUME Names, Store, NEW p \in Processes, Save(p) PROVE Store'
  <1>1. pc[p] \in Rendering /\ report[p] # ""
      BY DEF Save, Names, ProcessShape, Rendering
  <1>2. backend = "files" \/ report[p] \in DOMAIN disk
      BY <1>1, OwnFacts
  <1>3. IsRecord(Outcome(p)) /\ LikeOthers(report[p], Outcome(p)) /\ MadeFor(Outcome(p), event[p])
      BY <1>1, OutcomeFacts
  <1>4. Written(p, report[p], Outcome(p), backend = "files") /\ UNCHANGED <<asked, backend, event, report>>
      BY SaveWrites
  <1>5. pc'[p] \in {"ack", "emit"} /\ \A q \in Processes : q # p => SameThread(q)
      BY <1>4 DEF Save, Goto, Names, SameThread
  <1>6. /\ Sole(p, report[p]) /\ report'[p] = report[p]
        /\ report[p] \notin Ids => event'[p] \in asked /\ event'[p].report = report[p]
      BY <1>1, <1>4, WriterFacts
  <1>7. MadeFor(Outcome(p), event'[p]) /\ (backend = "files") \in BOOLEAN
      BY <1>3, <1>4
  <1> QED BY <1>1, <1>2, <1>3, <1>4, <1>5, <1>6, <1>7, WriteStore

(* A record is made, where there is none or, for a second delivery of the  *)
(* request, where there is one.                                            *)
Made(p) ==
    [about |-> event[p].about, auto |-> event[p].kind = "workflow.completed", status |-> "queued", whole |-> FALSE]

LEMMA MakeWrites ==
    ASSUME Names, Store, NEW p \in Processes, Make(p)
    PROVE  /\ IsRecord(Made(p)) /\ MadeFor(Made(p), event[p]) /\ Made(p).status = "queued"
           /\ LikeOthers(report[p], Made(p)) /\ (report[p] \in Ids => Fresh(report[p]))
           /\ \/ Written(p, report[p], Made(p), TRUE)
              \/ UNCHANGED storeVars /\ lost' = lost /\ report[p] \in DOMAIN disk
  <1>1. pc[p] = "make" /\ Work1(p) /\ report[p] # ""
      BY StoreFacts DEF Make, Names, ProcessShape
  <1>2. IsRecord(Made(p)) /\ MadeFor(Made(p), event[p]) /\ Made(p).status = "queued"
      BY DEF Made, IsRecord, MadeFor
  <1>3. LikeOthers(report[p], Made(p))
      BY <1>1, <1>2, MadeAlike DEF Work1
  <1>4. Stored(p, report[p], Made(p))
      BY DEF Make, Made
  <1> QED BY <1>1, <1>2, <1>3, <1>4 DEF Work1, Stored

LEMMA MakeStore == ASSUME Names, Store, NEW p \in Processes, Make(p) PROVE Store'
  <1>1. report[p] # ""
      BY DEF Make, Names, ProcessShape
  <1>2. /\ IsRecord(Made(p)) /\ MadeFor(Made(p), event[p]) /\ Made(p).status = "queued"
        /\ LikeOthers(report[p], Made(p)) /\ (report[p] \in Ids => Fresh(report[p]))
      BY MakeWrites
  <1>3. UNCHANGED <<asked, backend, event, report>>
      BY DEF Make
  <1>4. pc'[p] = "start" /\ \A q \in Processes : q # p => SameThread(q)
      BY <1>3 DEF Make, Goto, Names, SameThread
  <1>5. /\ Sole(p, report[p]) /\ report'[p] = report[p] /\ About(report[p], event[p])
        /\ report[p] \notin Ids => event'[p] \in asked /\ event'[p].report = report[p]
      BY <1>1, <1>3, WriterFacts
  <1>6. CASE Written(p, report[p], Made(p), TRUE)
    <2>1. MadeFor(Made(p), event'[p]) /\ (report[p] \in Ids => report[p] \notin DOMAIN disk)
        BY <1>2, <1>3 DEF Fresh
    <2> QED BY <1>1, <1>2, <1>3, <1>4, <1>5, <1>6, <2>1, WriteStore
  <1>7. CASE UNCHANGED storeVars /\ lost' = lost /\ report[p] \in DOMAIN disk
    <2>1. report[p] \notin Ids /\ UNCHANGED <<disk, memory>>
        BY <1>2, <1>7 DEF Fresh, storeVars
    <2>2. About(report[p], event[p])'
        BY <1>3, <1>5, <2>1 DEF About, MadeFor
    <2>3. get(p, report[p])' # {}
        BY <1>3, <1>7, <2>1 DEF get
    <2>4. Work1(p)'
        BY <1>3, <1>4, <2>1, <2>2, <2>3 DEF Work1
    <2> QED BY <1>3, <1>4, <1>7, <2>4, QuietStore
  <1> QED BY <1>6, <1>7, MakeWrites

NewRecord(w) == [about |-> w, auto |-> FALSE, status |-> "queued", whole |-> FALSE]

LEMMA AskWrites ==
    ASSUME Names, Store, NEW w, Ask(w)
    PROVE  /\ Written("api", NewId, NewRecord(w), TRUE) /\ IsRecord(NewRecord(w))
           /\ NewRecord(w).status = "queued" /\ NewRecord(w).about = w /\ NewRecord(w).auto = FALSE
           /\ NewId \in Ids \ Used /\ NewId # "" /\ NewId \notin DOMAIN disk
           /\ LikeOthers(NewId, NewRecord(w)) /\ Sole("api", NewId)
  <1>1. NewId \in Ids \ Used /\ NewId # ""
      BY NewIdFresh DEF Ask
  <1>2. PICK id \in Ids \ Used : id = NewId
      BY <1>1
  <1>3. Fresh(id) /\ Sole("api", id)
      BY NewIdUnknown, SoleDrawn
  <1>4. /\ IsRecord(NewRecord(w)) /\ NewRecord(w).status = "queued"
        /\ NewRecord(w).about = w /\ NewRecord(w).auto = FALSE
      BY DEF IsRecord, NewRecord
  <1>5. Stored("api", NewId, NewRecord(w))
      BY DEF Ask, NewRecord
  <1>6. LikeOthers(id, NewRecord(w)) /\ id \notin DOMAIN disk
      BY <1>3 DEF Fresh, LikeOthers
  <1> QED BY <1>1, <1>2, <1>3, <1>4, <1>5, <1>6 DEF Stored

LEMMA AskStore == ASSUME Names, Store, NEW w, Ask(w) PROVE Store'
  <1>1. /\ Written("api", NewId, NewRecord(w), TRUE) /\ IsRecord(NewRecord(w))
        /\ NewRecord(w).status = "queued" /\ NewRecord(w).about = w /\ NewRecord(w).auto = FALSE
        /\ NewId \in Ids /\ NewId # "" /\ NewId \notin DOMAIN disk
        /\ LikeOthers(NewId, NewRecord(w)) /\ Sole("api", NewId)
      BY AskWrites
  <1>2. UNCHANGED <<asked, backend>> /\ "api" \in Processes
      BY ProcessFacts DEF Ask
  <1>3. /\ pc'["api"] = "start" /\ report'["api"] = NewId
        /\ event'["api"].about = w /\ event'["api"].kind = "asked"
        /\ \A q \in Processes : q # "api" => SameThread(q)
      BY <1>2 DEF Ask, Goto, Names, SameThread
  <1>4. MadeFor(NewRecord(w), event'["api"])
      BY <1>1, <1>3 DEF MadeFor
  <1> QED BY <1>1, <1>2, <1>3, <1>4, WriteStore

(* A record is read into the cache of p.                                   *)
Caches(p, id) ==
    /\ id \in DOMAIN disk /\ backend = "files" /\ UNCHANGED <<backend, disk, order, lost>>
    /\ memory' = [memory EXCEPT ![p] = Put(@, id, disk[id])]

LEMMA CacheFacts ==
    ASSUME Store, NEW p \in Processes, NEW id, Caches(p, id)
    PROVE  /\ StoreShape' /\ Agree' /\ Unwritten' /\ (\A x : x # id => Untouched(x))
           /\ memory'[p][id] = disk[id] /\ DOMAIN memory'[p] = DOMAIN memory[p] \cup {id}
           /\ \A x \in DOMAIN memory[p] : x # id => memory'[p][x] = memory[p][x]
           /\ \A q \in Processes : q # p => memory'[q] = memory[q]
           /\ \A e : About(id, e) => About(id, e)'
  <1>1. DOMAIN memory = Processes
      BY StoreFacts
  <1>2. /\ DOMAIN memory' = Processes /\ memory'[p] = Put(memory[p], id, disk[id])
        /\ \A q \in Processes : q # p => memory'[q] = memory[q]
      BY <1>1 DEF Caches
  <1>3. /\ DOMAIN memory'[p] = DOMAIN memory[p] \cup {id} /\ memory'[p][id] = disk[id]
        /\ \A x \in DOMAIN memory[p] : x # id => memory'[p][x] = memory[p][x]
      BY <1>2 DEF Put
  <1>4. UNCHANGED <<backend, disk, order, lost>> /\ backend = "files" /\ id \in DOMAIN disk
      BY DEF Caches
  <1>5. StoreShape'
      BY <1>2, <1>3, <1>4, StoreFacts DEF StoreShape
  <1>6. \A x : x # id => Untouched(x)
      BY <1>2, <1>3, <1>4 DEF Untouched
  <1>7. Agree'
    <2>1. ASSUME NEW q \in Processes, NEW x \in DOMAIN disk \cap DOMAIN memory'[q]
          PROVE  Alike(disk[x], memory'[q][x])
      <3>1. Alike(disk[x], disk[x])
          BY DEF Alike
      <3> QED BY <1>2, <1>3, <3>1, StoreFacts DEF Agree
    <2>2. ASSUME NEW q \in Processes, NEW s \in Processes, NEW x \in DOMAIN memory'[q] \cap DOMAIN memory'[s]
          PROVE  Alike(memory'[q][x], memory'[s][x])
      <3>1. CASE x = id
          BY <1>4, <2>1, <3>1 DEF Alike
      <3>2. CASE x # id
          BY <1>2, <1>3, <3>2, StoreFacts DEF Agree
      <3> QED BY <3>1, <3>2
    <2> QED BY <1>4, <2>1, <2>2 DEF Agree, Alike
  <1>8. Unwritten'
      BY <1>2, <1>3, <1>4, StoreFacts DEF Unwritten
  <1>9. \A e : About(id, e) => About(id, e)'
      BY <1>2, <1>3, <1>4 DEF About, MadeFor
  <1> QED BY <1>2, <1>3, <1>5, <1>6, <1>7, <1>8, <1>9

(* What Look finds: nothing, a copy of its own, or the record.             *)
LEMMA LookCases ==
    ASSUME Names, Store, NEW p \in Processes, Look(p)
    PROVE  /\ pc'[p] \in {"make", "ack", "start"} /\ (Fresh(report[p]) => pc'[p] = "make")
           /\ pc'[p] = "start" => get(p, report[p]) # {}
           /\ Caches(p, report[p]) \/ (UNCHANGED <<backend, disk, order, lost>> /\ \A x : Untouched(x))
           /\ \A q \in Processes : q # p => memory'[q] = memory[q]
  <1> DEFINE id == report[p]
  <1>1. UNCHANGED <<backend, disk, order, lost>> /\ memory' = Cached(p, id) /\ DOMAIN memory = Processes
      BY StoreFacts DEF Look, ghosts
  <1>2. pc' = [pc EXCEPT ![p] = IF get(p, id) = {} THEN "make"
                   ELSE IF \E r \in get(p, id) : r.status \in {"running", "completed"} THEN "ack"
                   ELSE "start"] /\ DOMAIN pc = Processes
      BY DEF Look, Goto, Names
  <1>3. Fresh(id) => get(p, id) = {}
      BY DEF Fresh, get
  <1>4. pc'[p] \in {"make", "ack", "start"} /\ (pc'[p] = "start" => get(p, id) # {})
      BY <1>2
  <1>5. Fresh(id) => pc'[p] = "make"
      BY <1>2, <1>3
  <1>6. \A q \in Processes : q # p => memory'[q] = memory[q]
      BY <1>1 DEF Cached
  <1>7. CASE memory' = memory
      BY <1>1, <1>4, <1>5, <1>6, <1>7 DEF Untouched
  <1>8. CASE backend = "files" /\ get(p, id) # {}
    <2>1. PICK r : get(p, id) = {r} /\ r \in get(p, id)
        BY <1>8 DEF get
    <2>2. memory'[p] = Put(memory[p], id, r)
      <3>1. (CHOOSE s \in get(p, id) : TRUE) = r
          BY <2>1
      <3> QED BY <1>1, <1>8, <3>1 DEF Cached
    <2>3. CASE id \in DOMAIN memory[p]
      <3>1. r = memory[p][id]
          BY <1>8, <2>1, <2>3 DEF get
      <3>2. /\ DOMAIN memory'[p] = DOMAIN memory[p]
            /\ \A x \in DOMAIN memory[p] : memory'[p][x] = memory[p][x]
          BY <2>2, <2>3, <3>1 DEF Put
      <3>3. \A x : Untouched(x)
          BY <1>1, <1>6, <3>2 DEF Untouched
      <3> QED BY <1>1, <1>4, <1>5, <1>6, <3>3
    <2>4. CASE id \notin DOMAIN memory[p]
      <3>1. id \in DOMAIN disk /\ r = disk[id]
          BY <1>8, <2>1, <2>4 DEF get
      <3>2. (CHOOSE s \in get(p, id) : TRUE) = r
          BY <2>1
      <3>3. memory' = [memory EXCEPT ![p] = Put(@, id, disk[id])]
          BY <1>1, <1>8, <3>1, <3>2 DEF Cached
      <3>4. Caches(p, id)
          BY <1>1, <1>8, <3>1, <3>3 DEF Caches
      <3> QED BY <1>4, <1>5, <1>6, <3>4
    <2> QED BY <2>3, <2>4
  <1> QED BY <1>1, <1>7, <1>8 DEF Cached

LEMMA LookStore == ASSUME Names, Store, NEW p \in Processes, Look(p) PROVE Store'
  <1>1. PICK id : id = report[p]
      OBVIOUS
  <1>2. /\ pc[p] = "look" /\ Work1(p) /\ id # "" /\ UNCHANGED <<asked, event, report>>
      BY <1>1, StoreFacts DEF Look, Names, ProcessShape
  <1>3. \A q \in Processes : q # p => SameThread(q)
      BY <1>2 DEF Look, Goto, Names, SameThread
  <1>4. /\ pc'[p] \in {"make", "ack", "start"} /\ (Fresh(id) => pc'[p] = "make")
        /\ pc'[p] = "start" => get(p, id) # {}
      BY <1>1, LookCases
  <1>5. id \in Ids => Fresh(id)
      BY <1>1, <1>2 DEF Work1
  <1>6. PICK d : d = event[p] /\ About(id, d)
      BY <1>1, <1>2 DEF Work1
  <1>7. ASSUME About(id, d)', UNCHANGED <<backend, disk, order, lost>>, get(p, id) # {} => get(p, id)' # {},
               id \in Ids => Fresh(id)'
        PROVE  Work1(p)'
    <2>1. (report[p] # "" => About(report[p], event[p]))'
        BY <1>1, <1>2, <1>6, <1>7 DEF About, MadeFor
    <2>2. (pc[p] \in {"look", "make"} /\ report[p] \in Ids => Fresh(report[p]))'
        BY <1>1, <1>2, <1>7 DEF Fresh
    <2>3. (pc[p] = "start" /\ report[p] \in Ids \cap DOMAIN disk => disk[report[p]].status = "queued")'
        BY <1>1, <1>2, <1>4, <1>5
    <2>4. (pc[p] \in Rendering => get(p, report[p]) # {})'
        BY <1>1, <1>2, <1>4, <1>7 DEF Rendering, get
    <2> QED BY <2>1, <2>2, <2>3, <2>4 DEF Work1
  <1>8. /\ Sole(p, id) /\ report'[p] = id
        /\ id \notin Ids => event'[p] \in asked /\ event'[p].report = id
      BY <1>1, <1>2, WriterFacts
  <1>9. CASE UNCHANGED <<backend, disk, order, lost>> /\ \A x : Untouched(x)
    <2>1. /\ About(id, d)' /\ (get(p, id) # {} => get(p, id)' # {})
          /\ id \in Ids => Fresh(id)'
        BY <1>5, <1>6, <1>9, UntouchedAbout DEF Untouched, get, Fresh
    <2>2. Work1(p)'
        BY <1>7, <1>9, <2>1
    <2>3. StoreShape' /\ Agree' /\ Unwritten'
      <3>1. DOMAIN memory' = Processes
          BY StoreFacts DEF Look, Cached
      <3>2. \A q \in Processes : DOMAIN memory'[q] = DOMAIN memory[q]
          BY <1>9 DEF Untouched
      <3>3. \A q \in Processes : \A x \in DOMAIN memory[q] : memory'[q][x] = memory[q][x]
          BY <1>9 DEF Untouched
      <3>4. StoreShape'
          BY <1>9, <3>1, <3>2, <3>3, StoreFacts DEF StoreShape, IsRecord
      <3>5. Agree' /\ Unwritten'
          BY <1>9, <3>2, <3>3, StoreFacts DEF Agree, Alike, Unwritten
      <3> QED BY <3>4, <3>5
    <2>4. \A q \in Processes : q # p => memory'[q] = memory[q]
        BY LookCases
    <2> QED BY <1>2, <1>3, <1>8, <1>9, <2>2, <2>3, <2>4, TouchStore
  <1>10. CASE Caches(p, id)
    <2>1. /\ StoreShape' /\ Agree' /\ Unwritten' /\ (\A x : x # id => Untouched(x))
          /\ memory'[p][id] = disk[id] /\ DOMAIN memory'[p] = DOMAIN memory[p] \cup {id}
          /\ \A q \in Processes : q # p => memory'[q] = memory[q]
          /\ About(id, d)'
        BY <1>6, <1>10, CacheFacts
    <2>2. UNCHANGED <<backend, disk, order, lost>> /\ id \notin Ids /\ id \in DOMAIN disk
        BY <1>5, <1>10 DEF Caches, Fresh
    <2>3. get(p, id)' # {}
        BY <2>1, <2>2 DEF get
    <2>4. Work1(p)'
        BY <1>7, <2>1, <2>2, <2>3
    <2> QED BY <1>2, <1>3, <1>8, <2>1, <2>2, <2>4, TouchStore
  <1> QED BY <1>1, <1>9, <1>10, LookCases

LEMMA PeekCaches ==
    ASSUME Store, NEW id, Peek(id)
    PROVE  /\ Caches("api", id) /\ UNCHANGED <<asked, queue, pc, event, report, outcome, seen>>
           /\ id \notin DOMAIN memory["api"]
  <1>1. id \in DOMAIN disk /\ id \notin DOMAIN memory["api"] /\ backend = "files"
      BY DEF Peek
  <1>2. get("api", id) = {disk[id]}
      BY <1>1 DEF get
  <1>3. (CHOOSE r \in get("api", id) : TRUE) = disk[id]
      BY <1>2
  <1>4. memory' = [memory EXCEPT !["api"] = Put(@, id, disk[id])]
      BY <1>1, <1>2, <1>3 DEF Peek, Cached
  <1> QED BY <1>1, <1>4 DEF Peek, Caches, threadVars

LEMMA PeekStore == ASSUME Names, Store, NEW id, Peek(id) PROVE Store'
  <1>1. /\ Caches("api", id) /\ UNCHANGED <<asked, pc, event, report, backend, disk, lost>>
        /\ id \in DOMAIN disk /\ id \notin DOMAIN memory["api"]
      BY PeekCaches DEF Caches
  <1>2. /\ StoreShape' /\ Agree' /\ Unwritten' /\ (\A x : x # id => Untouched(x))
        /\ \A q \in Processes : q # "api" => memory'[q] = memory[q]
        /\ DOMAIN memory'["api"] = DOMAIN memory["api"] \cup {id}
        /\ \A e : About(id, e) => About(id, e)'
      BY <1>1, ProcessFacts, CacheFacts
  <1>3. ASSUME NEW x, NEW e, About(x, e) PROVE About(x, e)'
      BY <1>2, <1>3, UntouchedAbout
  <1>4. ASSUME NEW q \in Processes PROVE Work1(q)'
    <2>1. Work1(q) /\ SameThread(q)
        BY <1>1, StoreFacts DEF SameThread
    <2>2. CASE report[q] # id
        BY <1>1, <1>2, <2>1, <2>2, UntouchedWork
    <2>3. CASE report[q] = id
      <3>1. ~(pc[q] \in {"look", "make"} /\ report[q] \in Ids)
          BY <1>1, <2>1, <2>3 DEF Work1, Fresh
      <3>2. (report[q] # "" => About(report[q], event[q]))'
        <4>1. PICK e : e = event[q]
            OBVIOUS
        <4>2. id # "" => About(id, e)'
            BY <1>3, <2>1, <2>3, <4>1 DEF Work1
        <4> QED BY <1>1, <2>3, <4>1, <4>2 DEF About, MadeFor
      <3>3. get(q, report[q]) # {} => get(q, report[q])' # {}
        <4>1. DOMAIN memory[q] \subseteq DOMAIN memory'[q]
            BY <1>2
        <4> QED BY <1>1, <4>1 DEF get
      <3> QED BY <1>1, <2>1, <3>1, <3>2, <3>3 DEF Work1
    <2> QED BY <2>2, <2>3
  <1>5. Requests'
    <2> SUFFICES ASSUME NEW e \in asked, e.report # "" PROVE About(e.report, e)'
        BY <1>1 DEF Requests
    <2> QED BY <1>3, StoreFacts DEF Requests
  <1> QED BY <1>2, <1>4, <1>5 DEF Store

LEMMA CrashStore == ASSUME Names, Store, NEW p \in Processes, Crash(p) PROVE Store'
  <1>1. /\ UNCHANGED <<asked, backend, disk, order, lost>> /\ DOMAIN memory' = Processes
        /\ DOMAIN memory'[p] = {} /\ \A q \in Processes : q # p => memory'[q] = memory[q]
      BY StoreFacts DEF Crash, Empty
  <1>2. /\ pc'[p] = "idle" /\ report'[p] = ""
        /\ \A q \in Processes : q # p => SameThread(q)
      BY DEF Crash, Rest, Names, SameThread, Goto
  <1>3. ASSUME NEW x, NEW e, About(x, e) PROVE About(x, e)'
      BY <1>1, <1>3 DEF About, MadeFor
  <1>4. ASSUME NEW q \in Processes PROVE Work1(q)'
    <2>1. CASE q = p
        BY <1>2, <2>1 DEF Work1, Rendering
    <2>2. CASE q # p
      <3>1. Work1(q) /\ SameThread(q)
          BY <1>2, <2>2, StoreFacts
      <3>2. get(q, report[q])' = get(q, report[q])
          BY <1>1, <2>2, <3>1 DEF get, SameThread
      <3>3. (report[q] # "" => About(report[q], event[q]))'
          BY <1>1, <3>1 DEF Work1, About, MadeFor, SameThread
      <3>4. (pc[q] \in {"look", "make"} /\ report[q] \in Ids => Fresh(report[q]))'
          BY <1>1, <3>1 DEF Work1, Fresh, SameThread
      <3> QED BY <1>1, <3>1, <3>2, <3>3, <3>4 DEF Work1, SameThread
    <2> QED BY <2>1, <2>2
  <1>5. Requests'
    <2> SUFFICES ASSUME NEW e \in asked, e.report # "" PROVE About(e.report, e)'
        BY <1>1 DEF Requests
    <2> QED BY <1>3, StoreFacts DEF Requests
  <1>6. StoreShape' /\ Agree' /\ Unwritten'
      BY <1>1, StoreFacts DEF StoreShape, Agree, Unwritten, Alike, IsRecord
  <1> QED BY <1>4, <1>5, <1>6 DEF Store

LEMMA NextStore == ASSUME Names, Store, [Next]_vars PROVE Store'
  <1>1. CASE UNCHANGED reportVars
      BY <1>1, SameStore DEF reportVars, ghosts
  <1>2. CASE \/ \E w : Announce(w)
             \/ \E e \in asked \cup {Completed(w) : w \in finished} : Redeliver(e)
      BY <1>2, Arrivals, SameStore DEF ghosts
  <1> QED BY <1>1, <1>2, StepCases, ReceiveStore, SearchStore, RestStore, RunStore, StartStore, SaveStore,
             MakeStore, AskStore, LookStore, PeekStore, CrashStore
          DEF Step, Work

LEMMA InitNames == Init => Names /\ Store
  <1> SUFFICES ASSUME Init PROVE Names /\ Store
      OBVIOUS
  <1>1. PICK start \in Starts : ReportInit(start.asked, start.kept)
      BY DEF Init
  <1>2. /\ start.kept \in {"files", "postgres"}
        /\ \A e \in start.asked : e.kind = "report.requested" /\ e.report \notin Ids
        /\ \A e, f \in start.asked : e.report = f.report => e.report = "" \/ e = f
      BY StartAssumption
  <1>3. /\ asked = start.asked /\ queue = asked /\ backend = start.kept /\ disk = Empty /\ order = <<>>
        /\ memory = [p \in Processes |-> Empty] /\ pc = [p \in Processes |-> "idle"]
        /\ event = [p \in Processes |-> None] /\ report = [p \in Processes |-> ""]
        /\ outcome = [p \in Processes |-> "none"] /\ seen = [p \in Processes |-> {}]
      BY <1>1 DEF ReportInit
  <1>4. None.report = "" /\ DOMAIN Empty = {}
      BY DEF None, Empty
  <1>5. Names
    <2>1. \A p \in Processes : ProcessShape(p)
        BY <1>3 DEF ProcessShape, Steps, Rendering
    <2>2. \A p \in Workers : WorkerShape(p)
        BY <1>3, ProcessFacts DEF WorkerShape
    <2>3. ApiShape
        BY <1>3, <1>4, ProcessFacts DEF ApiShape
    <2>4. Requested /\ \A e \in queue : Named(e)
        BY <1>2, <1>3 DEF Named, Requested
    <2>5. OneHolder
        BY <1>3, ProcessFacts DEF OneHolder
    <2> QED BY <1>3, <2>1, <2>2, <2>3, <2>4, <2>5 DEF Names
  <1>6. Store
    <2>1. DOMAIN disk = {} /\ \A p \in Processes : DOMAIN memory[p] = {}
        BY <1>3, <1>4
    <2>2. Requests
        BY <2>1 DEF Requests, About
    <2>3. \A p \in Processes : Work1(p)
        BY <1>3 DEF Work1, Rendering
    <2>4. Agree /\ Unwritten
        BY <2>1 DEF Agree, Unwritten
    <2>5. order \in Seq(DOMAIN disk)
      <3>1. order = <<>>
          BY <1>3
      <3>2. \A S : <<>> \in Seq(S)
          OBVIOUS
      <3> QED BY <3>1, <3>2
    <2>6. DOMAIN memory = Processes /\ backend \in {"files", "postgres"}
        BY <1>2, <1>3
    <2>7. StoreShape
        BY <2>1, <2>5, <2>6 DEF StoreShape
    <2> QED BY <2>2, <2>3, <2>4, <2>7 DEF Store
  <1> QED BY <1>5, <1>6

-----------------------------------------------------------------------------
(* Runs, step by step.                                                     *)

LEMMA BegunFacts ==
    ASSUME Store, NEW p \in Processes, Make(p) \/ Start(p)
    PROVE  /\ rerun \subseteq rerun' /\ (report[p] \in Ids => rerun' = rerun) /\ rerun' \subseteq rerun \cup {report[p]}
           /\ report[p] \in DOMAIN disk /\ disk[report[p]].status \in {"running", "completed"} =>
                 report[p] \in rerun'
  <1>1. rerun' = Begun(p) /\ pc[p] \in {"make", "start"} /\ Work1(p)
      BY StoreFacts DEF Make, Start
  <1>2. report[p] \in Ids /\ report[p] \in DOMAIN disk => disk[report[p]].status = "queued"
      BY <1>1 DEF Work1, Fresh
  <1> QED BY <1>1, <1>2 DEF Begun

LEMMA QuietRuns ==
    ASSUME Runs, disk' = disk, lost \subseteq lost', rerun \subseteq rerun', rerun' \cap Ids = {},
           \A q \in Processes : Running(q)' => Running(q) /\ event'[q] = event[q] /\ report'[q] = report[q]
    PROVE  Runs'
  <1> SUFFICES ASSUME NEW p \in Processes, Running(p)'
               PROVE  (event[p].about \in lost \/ report[p] \in rerun \/ RendersAlone(p))'
      BY DEF Runs
  <1>1. event[p].about \in lost \/ report[p] \in rerun \/ RendersAlone(p)
      BY DEF Runs
  <1>2. RendersAlone(p) => RendersAlone(p)'
      BY DEF RendersAlone
  <1> QED BY <1>1, <1>2

LEMMA WriteRuns ==
    ASSUME Names, Store, Runs, NEW p \in Processes, NEW id, NEW r, NEW last \in BOOLEAN,
           Written(p, id, r, last), last \/ id \in DOMAIN disk, IsRecord(r), LikeOthers(id, r), backend' = backend,
           report'[p] = id, id # "", \A q \in Processes : q # p => SameThread(q),
           rerun \subseteq rerun', rerun' \cap Ids = {},
           \/ Running(p) /\ report[p] = id
           \/ id \in DOMAIN disk => disk[id].status # "running" \/ id \in rerun',
           Running(p)' => r.status = "running" /\ event'[p] = event[p] /\ report[p] = id /\ event[p].about = r.about
    PROVE  Runs'
  <1>1. (\A x : x # id => Untouched(x)) /\ lost \subseteq lost' /\ (Filed(id, r) \/ Dropped(r))
    <2>1. Store /\ Written(p, id, r, last) /\ (last \/ id \in DOMAIN disk) /\ IsRecord(r) /\ LikeOthers(id, r)
        OBVIOUS
    <2>2. backend' = backend /\ StoreShape
        BY StoreFacts
    <2> QED BY ONLY <2>1, <2>2, WrittenFacts, WrittenStore, p \in Processes, last \in BOOLEAN
  <1>2. ASSUME NEW q \in Processes, q # p, Running(q)'
        PROVE  (event[q].about \in lost \/ report[q] \in rerun \/ RendersAlone(q))'
    <2>1. Running(q) /\ SameThread(q)
        BY <1>2 DEF Running, SameThread
    <2>2. event[q].about \in lost \/ report[q] \in rerun \/ RendersAlone(q)
        BY <2>1 DEF Runs
    <2>3. CASE RendersAlone(q) /\ report[q] # id
      <3>1. report'[q] = report[q] /\ Untouched(report[q])
          BY <1>1, <2>1, <2>3 DEF SameThread
      <3>2. \A s \in Processes : Running(s)' /\ report'[s] = report[q] => s = q
          BY <2>3 DEF RendersAlone, SameThread, Running
      <3>3. RendersAlone(q)'
          BY <2>3, <3>1, <3>2 DEF RendersAlone, Untouched
      <3> QED BY <3>3
    <2>4. CASE RendersAlone(q) /\ report[q] = id
      <3>1. ~(Running(p) /\ report[p] = id)
          BY <1>2, <2>4 DEF RendersAlone
      <3>2. id \in rerun'
          BY <2>4, <3>1 DEF RendersAlone
      <3> QED BY <2>1, <2>4, <3>2 DEF SameThread
    <2> QED BY <1>1, <2>1, <2>2, <2>3, <2>4 DEF SameThread
  <1>3. ASSUME Running(p)' PROVE (event[p].about \in lost \/ report[p] \in rerun \/ RendersAlone(p))'
    <2>1. /\ r.status = "running" /\ event'[p] = event[p] /\ report[p] = id /\ event[p].about = r.about
        BY <1>3
    <2>2. CASE Dropped(r)
        BY <2>1, <2>2 DEF Dropped
    <2>3. CASE Running(p)
      <3>1. event[p].about \in lost \/ report[p] \in rerun \/ RendersAlone(p)
          BY <2>3 DEF Runs
      <3>2. CASE RendersAlone(p) /\ Filed(id, r)
        <4>1. \A s \in Processes : Running(s)' /\ report'[s] = id => s = p
            BY <2>1, <3>2 DEF RendersAlone, SameThread, Running
        <4>2. RendersAlone(p)'
            BY <2>1, <3>2, <4>1 DEF RendersAlone, Filed
        <4> QED BY <4>2
      <3> QED BY <1>1, <2>1, <2>2, <3>1, <3>2
    <2>4. CASE ~Running(p) /\ Filed(id, r)
      <3>1. id \in DOMAIN disk => disk[id].status # "running" \/ id \in rerun'
          BY <2>4
      <3>2. CASE \A s \in Processes : Running(s) /\ report[s] = id => s = p
        <4>1. \A s \in Processes : Running(s)' /\ report'[s] = id => s = p
            BY <3>2 DEF SameThread, Running
        <4>2. RendersAlone(p)'
            BY <2>1, <2>4, <4>1 DEF RendersAlone, Filed
        <4> QED BY <4>2
      <3>3. ASSUME NEW s \in Processes, Running(s), report[s] = id, s # p
            PROVE  event'[p].about \in lost' \/ report'[p] \in rerun'
        <4>1. event[s].about \in lost \/ id \in rerun \/ RendersAlone(s)
            BY <3>3 DEF Runs
        <4>2. event[s] = event[p]
            BY <2>1, <3>3, SameRequest
        <4>3. RendersAlone(s) => id \in rerun'
            BY <3>1, <3>3 DEF RendersAlone
        <4> QED BY <1>1, <2>1, <4>1, <4>2, <4>3
      <3> QED BY <3>2, <3>3
    <2> QED BY <1>1, <2>2, <2>3, <2>4
  <1> QED BY <1>2, <1>3 DEF Runs

LEMMA MakeRuns == ASSUME Names, Store, Runs, NEW p \in Processes, Make(p) PROVE Runs'
  <1>1. report[p] # "" /\ UNCHANGED <<backend, event, report>>
      BY DEF Make, Names, ProcessShape
  <1>2. pc'[p] = "start" /\ \A q \in Processes : q # p => SameThread(q)
      BY <1>1 DEF Make, Goto, Names, SameThread
  <1>3. ~Running(p)' /\ report'[p] = report[p] /\ backend' = backend
      BY <1>1, <1>2 DEF Running
  <1>4. /\ rerun \subseteq rerun' /\ rerun' \cap Ids = {}
        /\ report[p] \in DOMAIN disk => disk[report[p]].status # "running" \/ report[p] \in rerun'
      BY BegunFacts DEF Runs
  <1>5. CASE Written(p, report[p], Made(p), TRUE)
    <2>1. IsRecord(Made(p)) /\ LikeOthers(report[p], Made(p))
        BY MakeWrites
    <2> QED BY <1>1, <1>2, <1>3, <1>4, <1>5, <2>1, WriteRuns
  <1>6. CASE UNCHANGED storeVars /\ lost' = lost
    <2>1. disk' = disk /\ \A q \in Processes : Running(q)' => Running(q) /\ event'[q] = event[q] /\ report'[q] = report[q]
        BY <1>1, <1>2, <1>3, <1>6 DEF storeVars, SameThread, Running
    <2> QED BY <1>4, <1>6, <2>1, QuietRuns
  <1> QED BY <1>5, <1>6, MakeWrites

LEMMA AskRuns == ASSUME Names, Store, Runs, NEW w, Ask(w) PROVE Runs'
  <1>1. /\ Written("api", NewId, NewRecord(w), TRUE) /\ IsRecord(NewRecord(w))
        /\ NewId # "" /\ NewId \notin DOMAIN disk /\ LikeOthers(NewId, NewRecord(w))
      BY AskWrites
  <1>2. UNCHANGED <<backend, rerun>> /\ backend' = backend /\ "api" \in Processes
      BY ProcessFacts DEF Ask
  <1>3. /\ pc'["api"] = "start" /\ report'["api"] = NewId
        /\ \A q \in Processes : q # "api" => SameThread(q)
      BY <1>2 DEF Ask, Goto, Names, SameThread
  <1>4. ~Running("api")' /\ rerun \subseteq rerun' /\ rerun' \cap Ids = {}
      BY <1>2, <1>3 DEF Running, Runs
  <1> QED BY <1>1, <1>2, <1>3, <1>4, WriteRuns

LEMMA StartRuns == ASSUME Names, Store, Runs, NEW p \in Processes, Start(p) PROVE Runs'
  <1>1. report[p] # "" /\ UNCHANGED <<backend, event, report>>
      BY DEF Start, Names, ProcessShape, Rendering
  <1>2. /\ IsRecord(Started(p)) /\ Started(p).status = "running" /\ Started(p).about = event[p].about
        /\ LikeOthers(report[p], Started(p)) /\ ((backend = "files") \/ report[p] \in DOMAIN disk)
        /\ Written(p, report[p], Started(p), backend = "files") /\ (backend = "files") \in BOOLEAN
      BY StartWrites DEF MadeFor
  <1>3. \A q \in Processes : q # p => SameThread(q)
      BY <1>1 DEF Start, Goto, Names, SameThread
  <1>4. /\ rerun \subseteq rerun' /\ rerun' \cap Ids = {}
        /\ report[p] \in DOMAIN disk => disk[report[p]].status # "running" \/ report[p] \in rerun'
      BY BegunFacts DEF Runs
  <1>5. report'[p] = report[p] /\ event'[p] = event[p] /\ backend' = backend
      BY <1>1
  <1> QED BY <1>1, <1>2, <1>3, <1>4, <1>5, WriteRuns

LEMMA SaveRuns == ASSUME Names, Store, Runs, NEW p \in Processes, Save(p) PROVE Runs'
  <1>1. pc[p] \in Rendering /\ report[p] # "" /\ Running(p)
      BY DEF Save, Names, ProcessShape, Rendering, Running
  <1>2. backend = "files" \/ report[p] \in DOMAIN disk
      BY <1>1, OwnFacts
  <1>3. IsRecord(Outcome(p)) /\ LikeOthers(report[p], Outcome(p))
      BY <1>1, OutcomeFacts
  <1>4. /\ Written(p, report[p], Outcome(p), backend = "files") /\ (backend = "files") \in BOOLEAN
        /\ UNCHANGED <<backend, event, report, rerun>>
      BY SaveWrites
  <1>5. pc'[p] \in {"ack", "emit"} /\ \A q \in Processes : q # p => SameThread(q)
      BY <1>4 DEF Save, Goto, Names, SameThread
  <1>6. /\ ~Running(p)' /\ rerun \subseteq rerun' /\ rerun' \cap Ids = {}
        /\ report'[p] = report[p] /\ backend' = backend
      BY <1>4, <1>5 DEF Running, Runs
  <1> QED BY <1>1, <1>2, <1>3, <1>4, <1>5, <1>6, WriteRuns

LEMMA OtherRuns ==
    ASSUME Names, Store, Runs, NEW p \in Processes,
           \/ Search(p) \/ Look(p) \/ Fetch(p) \/ Emit(p) \/ Ack(p) \/ Raise(p) \/ Crash(p)
           \/ \E e \in queue : Receive(p, e)
    PROVE  Runs'
  <1>1. disk' = disk /\ lost' = lost /\ rerun' = rerun
      BY DEF Search, Look, Fetch, Emit, Ack, Raise, Crash, Receive, ghosts, storeVars
  <1>2. \A q \in Processes : q # p => SameThread(q)
      BY DEF Search, Look, Fetch, Emit, Ack, Raise, Crash, Receive, Rest, Goto, Names, SameThread
  <1>3. Running(p)' => Running(p) /\ event'[p] = event[p] /\ report'[p] = report[p]
    <2>1. CASE Fetch(p)
        BY <2>1 DEF Fetch, Running
    <2>2. CASE Search(p) \/ Emit(p) \/ Ack(p) \/ Raise(p) \/ Crash(p)
        BY <2>2 DEF Search, Emit, Ack, Raise, Crash, Rest, Goto, Names, Running
    <2>3. CASE Look(p)
        BY <2>3, LookCases DEF Running
    <2>4. ASSUME NEW e \in queue, Receive(p, e) PROVE pc'[p] \in {"ack", "search", "look"}
      <3>1. Goto(p, "ack") \/ Goto(p, "search") \/ Goto(p, "look")
          BY <2>4 DEF Receive
      <3> QED BY <3>1 DEF Goto, Names
    <2> QED BY <2>1, <2>2, <2>3, <2>4 DEF Running
  <1>4. \A q \in Processes : Running(q)' => Running(q) /\ event'[q] = event[q] /\ report'[q] = report[q]
      BY <1>2, <1>3 DEF SameThread, Running
  <1> QED BY <1>1, <1>4, QuietRuns DEF Runs

LEMMA NextRuns == ASSUME Names, Store, Runs, [Next]_vars PROVE Runs'
  <1>1. ASSUME UNCHANGED <<disk, lost, rerun, pc, event, report>> PROVE Runs'
      BY <1>1, QuietRuns DEF Running, Runs
  <1>2. CASE UNCHANGED reportVars
      BY <1>1, <1>2 DEF reportVars, storeVars, threadVars, ghosts
  <1>3. CASE \/ \E w : Announce(w)
             \/ \E e \in asked \cup {Completed(w) : w \in finished} : Redeliver(e)
      BY <1>1, <1>3, Arrivals DEF storeVars, threadVars, ghosts
  <1>4. ASSUME NEW id, Peek(id) PROVE Runs'
      BY <1>1, <1>4 DEF Peek, threadVars
  <1> QED BY <1>2, <1>3, <1>4, StepCases, StartRuns, AskRuns, MakeRuns, SaveRuns, OtherRuns
          DEF Step, Work

LEMMA InitRuns == Init => Runs
  <1> SUFFICES ASSUME Init PROVE Runs
      OBVIOUS
  <1>1. PICK start \in Starts : ReportInit(start.asked, start.kept)
      BY DEF Init
  <1>2. pc = [p \in Processes |-> "idle"] /\ rerun = {}
      BY <1>1 DEF ReportInit
  <1> QED BY <1>2 DEF Runs, Running

-----------------------------------------------------------------------------
(* Links: a document that was announced stays as it was announced.         *)

KeepsDurable == \A x, w : Durable(x, w) /\ w \notin lost' /\ x \notin rerun' => Durable(x, w)'
ApiKnows(x) == x \in DOMAIN memory["api"] \ stale => memory["api"][x].status = "completed"

ApiKeeps ==
    \A x : \/ ApiKnows(x)'
           \/ x \in DOMAIN memory["api"] \ stale /\ memory'["api"][x] = memory["api"][x]
           \/ x \notin Takers' /\ \A w : Durable(x, w) => w \in lost \/ x \in rerun'

TakersStay == \A x \in Takers' : x \in Takers \cup {""} \/ x \notin DOMAIN memory'["api"]

Announced ==
    \A e \in published' : e \in published \/ (Good(e)' => Durable(e.report, e.about)' /\ ApiKnows(e.report)')

Emitting(p) == pc[p] = "emit" /\ outcome[p] # "failed"
Emittable ==
    \A p \in Processes : Emitting(p)' =>
        \/ Emitting(p) /\ event'[p] = event[p] /\ report'[p] = report[p]
        \/ event'[p].about \in lost' \/ report'[p] \in rerun'
        \/ \E x, w : x = report'[p] /\ w = event'[p].about /\ Durable(x, w)'

LEMMA KeepLinks ==
    ASSUME Links, lost \subseteq lost', rerun \subseteq rerun', KeepsDurable, ApiKeeps, TakersStay, Announced, Emittable,
           (Emitting("api") => report["api"] \in DOMAIN memory["api"] /\ memory["api"][report["api"]].status = "completed")'
    PROVE  Links'
  <1>1. ASSUME NEW e \in published', Good(e)'
        PROVE  Durable(e.report, e.about)' /\ ApiKnows(e.report)'
    <2>1. CASE e \in published
      <3>1. Good(e) /\ e.about \notin lost' /\ e.about \notin lost /\ e.report \notin rerun'
          BY <1>1 DEF Good
      <3>2. Durable(e.report, e.about)
          BY <2>1, <3>1 DEF Links
      <3>3. Durable(e.report, e.about)'
          BY <3>1, <3>2 DEF KeepsDurable
      <3>4. e.report \in DOMAIN memory["api"] \ stale => memory["api"][e.report].status = "completed"
          BY <2>1, <3>1 DEF Links
      <3>5. ApiKnows(e.report)'
          BY <3>1, <3>2, <3>4 DEF ApiKeeps, ApiKnows
      <3> QED BY <3>3, <3>5
    <2>2. CASE e \notin published
        BY <1>1, <2>2 DEF Announced
    <2> QED BY <2>1, <2>2
  <1>2. ASSUME NEW p \in Processes, Emitting(p)'
        PROVE  (event[p].about \in lost \/ report[p] \in rerun \/ Durable(report[p], event[p].about))'
    <2>1. CASE Emitting(p) /\ event'[p] = event[p] /\ report'[p] = report[p]
      <3>1. PICK x, w : x = report[p] /\ w = event[p].about
          OBVIOUS
      <3>2. w \in lost \/ x \in rerun \/ Durable(x, w)
          BY <2>1, <3>1 DEF Links, Emitting
      <3>3. w \in lost' \/ x \in rerun' \/ Durable(x, w)'
          BY <3>2 DEF KeepsDurable
      <3> QED BY <2>1, <3>1, <3>3 DEF Durable
    <2>2. CASE \E x, w : x = report'[p] /\ w = event'[p].about /\ Durable(x, w)'
        BY <2>2 DEF Durable
    <2> QED BY <1>2, <2>1, <2>2 DEF Emittable
  <1>3. ASSUME NEW x \in (Takers' \cap DOMAIN memory'["api"]) \ stale', x # ""
        PROVE  memory'["api"][x].status = "completed"
    <2>1. x \in Takers
        BY <1>3 DEF TakersStay
    <2> QED BY <1>3, <2>1 DEF Links, ApiKeeps, ApiKnows
  <1>4. \A e \in published' : Good(e)' => Durable(e.report, e.about)'
      BY <1>1
  <1>5. \A e \in published' : Good(e)' /\ e.report \in DOMAIN memory'["api"] \ stale' =>
            memory'["api"][e.report].status = "completed"
      BY <1>1 DEF ApiKnows
  <1> QED BY <1>2, <1>3, <1>4, <1>5 DEF Links, Emitting, Good, Durable, Takers

LEMMA KeepAnnounced == ASSUME published' = published PROVE Announced
  BY DEF Announced

(* Steps that leave the files and the cache of the API alone.              *)
LEMMA QuietLinks ==
    ASSUME Links, Names, disk' = disk, lost' = lost, rerun' = rerun, memory'["api"] = memory["api"], stale' = stale,
           TakersStay, Announced,
           \A p \in Processes : Emitting(p)' => Emitting(p) /\ event'[p] = event[p] /\ report'[p] = report[p]
    PROVE  Links'
  <1>1. KeepsDurable
      BY DEF KeepsDurable, Durable
  <1>2. ApiKeeps
      BY DEF ApiKeeps, ApiKnows
  <1>3. Emittable
      BY DEF Emittable
  <1>4. (Emitting("api") => report["api"] \in DOMAIN memory["api"] /\ memory["api"][report["api"]].status = "completed")'
      BY ProcessFacts DEF Links, Emitting
  <1> QED BY <1>1, <1>2, <1>3, <1>4, KeepLinks

LEMMA TakersOfSame == ASSUME UNCHANGED <<report, asked>> PROVE TakersStay
  BY DEF Takers, TakersStay

LEMMA RestTakers == ASSUME Names, NEW p \in Processes, Rest(p), asked' = asked PROVE TakersStay
  <1>1. report'[p] = "" /\ \A q \in Processes : q # p => report'[q] = report[q]
      BY DEF Rest, Names
  <1>2. ASSUME NEW q \in Workers PROVE report'[q] \in Takers \cup {""}
      BY <1>1, ProcessFacts DEF Takers
  <1> QED BY <1>2 DEF TakersStay, Takers

LEMMA RestLinks ==
    ASSUME Names, Links, Store, NEW p \in Processes, Ack(p) \/ Raise(p) \/ (Crash(p) /\ p # "api")
    PROVE  Links'
  <1>1. /\ Rest(p) /\ UNCHANGED <<asked, disk, lost, rerun, stale, published>>
        /\ memory'["api"] = memory["api"]
      BY StoreFacts, ProcessFacts DEF Ack, Raise, Crash, ghosts, storeVars
  <1>3. \A q \in Processes : Emitting(q)' => Emitting(q) /\ event'[q] = event[q] /\ report'[q] = report[q]
      BY <1>1 DEF Rest, Goto, Names, Emitting
  <1> QED BY <1>1, <1>3, RestTakers, KeepAnnounced, QuietLinks

LEMMA ApiCrashLinks == ASSUME Names, Links, Store, Crash("api") PROVE Links'
  <1>1. /\ Rest("api") /\ UNCHANGED <<asked, disk, lost, rerun, published>> /\ DOMAIN memory'["api"] = {}
        /\ pc'["api"] = "idle"
      BY StoreFacts, ProcessFacts DEF Crash, Empty, Rest, Goto, Names
  <1>2. KeepsDurable /\ ApiKeeps
      BY <1>1 DEF KeepsDurable, Durable, ApiKeeps, ApiKnows
  <1>3. TakersStay /\ Announced
      BY <1>1, KeepAnnounced DEF TakersStay
  <1>4. \A q \in Processes : Emitting(q)' => Emitting(q) /\ event'[q] = event[q] /\ report'[q] = report[q]
      BY <1>1 DEF Rest, Goto, Names, Emitting
  <1>5. Emittable
      BY <1>4 DEF Emittable
  <1>6. ~Emitting("api")'
      BY <1>1 DEF Emitting
  <1> QED BY <1>1, <1>2, <1>3, <1>5, <1>6, KeepLinks

LEMMA ReceiveLinks ==
    ASSUME Names, Links, Store, NEW p \in Processes, NEW e \in queue, Receive(p, e)
    PROVE  Links'
  <1>1. /\ UNCHANGED <<asked, disk, memory, lost, rerun, stale, published, outcome>>
        /\ event' = [event EXCEPT ![p] = e] /\ p \in Workers
      BY DEF Receive, ghosts, storeVars
  <1>2. pc'[p] # "emit" /\ \A q \in Processes : q # p => SameThread(q)
      BY DEF Receive, Names, SameThread, Goto
  <1>3. report'[p] \in {report[p], e.report} \/ report'[p] \notin DOMAIN memory'["api"]
    <2>1. CASE e \notin seen[p] /\ e.kind # "workflow.completed"
      <3>1. report'[p] = (IF e.report = "" THEN NewId ELSE e.report) /\ (e.report = "" => Drawable)
          BY <2>1 DEF Receive, Names
      <3>2. Drawable => NewId \notin DOMAIN memory["api"]
          BY NewIdFresh, ProcessFacts DEF Used
      <3> QED BY <1>1, <3>1, <3>2
    <2>2. CASE ~(e \notin seen[p] /\ e.kind # "workflow.completed")
        BY <2>2 DEF Receive
    <2> QED BY <2>1, <2>2
  <1>4. TakersStay
    <2>1. e.report \in Takers \cup {""}
      <3>1. Named(e) /\ (e.kind = "workflow.completed" => e = Completed(e.about))
          BY NamedFacts DEF Named
      <3> QED BY <3>1, CompletedFacts DEF Named, Takers
    <2>2. ASSUME NEW q \in Workers
          PROVE  report'[q] \in Takers \cup {""} \/ report'[q] \notin DOMAIN memory'["api"]
      <3>1. CASE q = p
          BY <1>1, <1>3, <2>1, <3>1 DEF Takers
      <3>2. CASE q # p
          BY <1>2, <3>2, ProcessFacts DEF Takers, SameThread
      <3> QED BY <3>1, <3>2
    <2>3. \A f \in asked' : f.report \in Takers
        BY <1>1 DEF Takers
    <2> QED BY <2>2, <2>3 DEF TakersStay, Takers
  <1>5. \A q \in Processes : Emitting(q)' => Emitting(q) /\ event'[q] = event[q] /\ report'[q] = report[q]
      BY <1>1, <1>2 DEF SameThread, Emitting
  <1> QED BY <1>1, <1>4, <1>5, KeepAnnounced, QuietLinks

LEMMA SearchLinks == ASSUME Names, Links, Store, NEW p \in Processes, Search(p) PROVE Links'
  <1>1. UNCHANGED <<asked, disk, memory, lost, rerun, stale, published, outcome, event>> /\ pc[p] = "search"
      BY DEF Search, storeVars
  <1>2. pc'[p] # "emit" /\ \A q \in Processes : q # p => SameThread(q)
      BY DEF Search, Names, SameThread, Goto
  <1>3. report'[p] = report[p] \/ report'[p] \notin DOMAIN memory'["api"]
    <2>1. Drawable => NewId \notin DOMAIN memory["api"]
        BY NewIdFresh, ProcessFacts DEF Used
    <2> QED BY <1>1, <2>1 DEF Search, Names
  <1>4. TakersStay
    <2>1. \A q \in Workers : report'[q] \in Takers \/ report'[q] \notin DOMAIN memory'["api"]
        BY <1>2, <1>3, ProcessFacts DEF Takers, SameThread
    <2>2. \A f \in asked' : f.report \in Takers
        BY <1>1 DEF Takers
    <2> QED BY <2>1, <2>2 DEF TakersStay, Takers
  <1>5. \A q \in Processes : Emitting(q)' => Emitting(q) /\ event'[q] = event[q] /\ report'[q] = report[q]
      BY <1>1, <1>2 DEF SameThread, Emitting
  <1> QED BY <1>1, <1>4, <1>5, KeepAnnounced, QuietLinks

LEMMA FetchLinks == ASSUME Names, Links, NEW p \in Processes, Fetch(p) PROVE Links'
  <1>1. UNCHANGED <<asked, disk, memory, lost, rerun, stale, published, event, report>>
      BY DEF Fetch, storeVars
  <1>2. \A q \in Processes : Emitting(q)' => Emitting(q) /\ event'[q] = event[q] /\ report'[q] = report[q]
      BY <1>1 DEF Fetch, Goto, Names, Emitting
  <1> QED BY <1>1, <1>2, TakersOfSame, KeepAnnounced, QuietLinks

LEMMA LookLinks == ASSUME Names, Links, Store, NEW p \in Processes, Look(p) PROVE Links'
  <1>1. UNCHANGED <<asked, disk, lost, rerun, stale, published, outcome, event, report>> /\ p # "api"
      BY DEF Look, ghosts, Names, ApiShape, Rendering
  <1>2. memory'["api"] = memory["api"]
      BY <1>1, StoreFacts, ProcessFacts DEF Look, Cached
  <1>3. pc'[p] # "emit" /\ \A q \in Processes : q # p => pc'[q] = pc[q]
      BY DEF Look, Names, Goto
  <1>4. \A q \in Processes : Emitting(q)' => Emitting(q) /\ event'[q] = event[q] /\ report'[q] = report[q]
      BY <1>1, <1>3 DEF Emitting
  <1> QED BY <1>1, <1>2, <1>4, TakersOfSame, KeepAnnounced, QuietLinks

LEMMA EnqueueLinks ==
    ASSUME Names, Links, UNCHANGED <<asked, storeVars, threadVars, published, ghosts>>
    PROVE  Links'
  <1>1. UNCHANGED <<asked, disk, memory, lost, rerun, stale, published, pc, outcome, event, report>>
      BY DEF ghosts, storeVars, threadVars
  <1>2. \A q \in Processes : Emitting(q)' => Emitting(q) /\ event'[q] = event[q] /\ report'[q] = report[q]
      BY <1>1 DEF Emitting
  <1> QED BY <1>1, <1>2, TakersOfSame, KeepAnnounced, QuietLinks

LEMMA RenderedFacts ==
    ASSUME NEW p
    PROVE  Rendered(p).report = report[p] /\ Rendered(p).about = event[p].about /\ Rendered(p).status = Ending(p)
  BY DEF Rendered

LEMMA EmitLinks == ASSUME Names, Links, Store, NEW p \in Processes, Emit(p) PROVE Links'
  <1>1. UNCHANGED <<asked, disk, memory, lost, rerun, stale, outcome, event, report>> /\ pc[p] = "emit" /\ report[p] # ""
      BY DEF Emit, ghosts, storeVars, Names, ProcessShape
  <1>2. \A q \in Processes : Emitting(q)' => Emitting(q) /\ event'[q] = event[q] /\ report'[q] = report[q]
      BY <1>1 DEF Emit, Goto, Names, Emitting
  <1>3. PICK e : e = Rendered(p) /\ e.report = report[p] /\ e.about = event[p].about /\ e.status = Ending(p)
      BY RenderedFacts
  <1>4. Good(e) => Durable(e.report, e.about) /\ ApiKnows(e.report)
    <2> SUFFICES ASSUME Good(e) PROVE Durable(e.report, e.about) /\ ApiKnows(e.report)
        OBVIOUS
    <2>1. outcome[p] # "failed" /\ event[p].about \notin lost /\ report[p] \notin rerun
        BY <1>3 DEF Good, Ending
    <2>2. Durable(report[p], event[p].about)
        BY <1>1, <2>1 DEF Links
    <2>3. ApiKnows(report[p])
      <3>1. CASE p = "api"
          BY <1>1, <2>1, <3>1 DEF Links, ApiKnows
      <3>2. CASE p \in Workers
        <4>1. report[p] \in Takers
            BY <3>2 DEF Takers
        <4> QED BY <1>1, <4>1 DEF Links, ApiKnows
      <3> QED BY <3>1, <3>2, ProcessFacts
    <2> QED BY <1>3, <2>2, <2>3
  <1>5. Announced
    <2>1. published' = published \/ published' = published \cup {e}
        BY <1>3 DEF Emit
    <2> QED BY <1>1, <1>4, <2>1 DEF Announced, Good, Durable, ApiKnows
  <1> QED BY <1>1, <1>2, <1>5, TakersOfSame, QuietLinks

LEMMA PeekLinks == ASSUME Names, Links, Store, NEW id, Peek(id) PROVE Links'
  <1>1. /\ Caches("api", id) /\ UNCHANGED <<asked, pc, event, report, outcome, disk, lost>>
        /\ id \notin DOMAIN memory["api"]
      BY PeekCaches DEF Caches
  <1>2. /\ memory'["api"][id] = disk[id] /\ DOMAIN memory'["api"] = DOMAIN memory["api"] \cup {id}
        /\ \A x \in DOMAIN memory["api"] : x # id => memory'["api"][x] = memory["api"][x]
      BY <1>1, CacheFacts, ProcessFacts
  <1>3. published' = published /\ rerun' = rerun /\ stale' = IF disk[id].status # "completed" THEN stale \cup {id} ELSE stale
      BY DEF Peek
  <1>4. KeepsDurable
      BY <1>1 DEF KeepsDurable, Durable
  <1>5. ApiKeeps
    <2>1. ASSUME NEW x
          PROVE ApiKnows(x)' \/ (x \in DOMAIN memory["api"] \ stale /\ memory'["api"][x] = memory["api"][x])
      <3>1. CASE x = id
          BY <1>2, <1>3, <3>1 DEF ApiKnows
      <3>2. CASE x # id
          BY <1>2, <1>3, <3>2 DEF ApiKnows
      <3> QED BY <3>1, <3>2
    <2> QED BY <2>1 DEF ApiKeeps
  <1>6. Emittable
      BY <1>1 DEF Emittable, Emitting
  <1>7. (Emitting("api") => report["api"] \in DOMAIN memory["api"] /\ memory["api"][report["api"]].status = "completed")'
      BY <1>1, <1>2 DEF Links, Emitting
  <1> QED BY <1>1, <1>3, <1>4, <1>5, <1>6, <1>7, KeepLinks, TakersOfSame, KeepAnnounced

(* A record that was announced as done is not written again, unless it is  *)
(* begun again.                                                            *)
NotDone(id) ==
    id \in DOMAIN disk => disk[id].status # "completed" \/ disk[id].about \in lost \/ id \in rerun'

LEMMA WriteKeepsDurable ==
    ASSUME NEW id, NotDone(id), \A x : x # id => Untouched(x), lost \subseteq lost'
    PROVE  KeepsDurable /\ \A w : Durable(id, w) => w \in lost \/ id \in rerun'
  <1>1. \A w : Durable(id, w) => w \in lost \/ id \in rerun'
      BY DEF Durable, NotDone
  <1>2. ASSUME NEW x, NEW w, Durable(x, w), w \notin lost', x \notin rerun' PROVE Durable(x, w)'
    <2>1. x # id
        BY <1>1, <1>2
    <2> QED BY <1>2, <2>1 DEF Durable, Untouched
  <1> QED BY <1>1, <1>2 DEF KeepsDurable

LEMMA WriteLinks ==
    ASSUME Names, Links, Store, NEW p \in Processes, NEW id, NEW r, NEW last \in BOOLEAN,
           Written(p, id, r, last), last \/ id \in DOMAIN disk, IsRecord(r), LikeOthers(id, r), Sole(p, id),
           p = "api" => id \in Ids, report'[p] = id, asked' = asked, backend' = backend, stale' = stale,
           outcome' = outcome, rerun \subseteq rerun', \A q \in Processes : q # p => SameThread(q),
           p \in Workers => event'[p] = event[p] /\ report'[p] = report[p], NotDone(id), Announced,
           Emitting(p)' => r.status = "completed" /\ event'[p].about = r.about /\ backend = "files"
    PROVE  Links'
  <1>1. /\ \A x : x # id => Untouched(x)
        /\ lost \subseteq lost' /\ \A q \in Processes : q # p => memory'[q] = memory[q]
    <2>1. Store /\ Written(p, id, r, last) /\ (last \/ id \in DOMAIN disk) /\ IsRecord(r) /\ LikeOthers(id, r)
        OBVIOUS
    <2>2. backend' = backend
        OBVIOUS
    <2> QED BY ONLY <2>1, <2>2, WrittenFacts, p \in Processes, last \in BOOLEAN
  <1>2. Copied(p, id, r) /\ (Filed(id, r) \/ Dropped(r))
      BY StoreFacts, WrittenCopy, WrittenStore
  <1>3. KeepsDurable /\ \A w : Durable(id, w) => w \in lost \/ id \in rerun'
      BY <1>1, WriteKeepsDurable
  <1>4. \A q \in Workers : event'[q] = event[q] /\ report'[q] = report[q]
      BY ProcessFacts DEF SameThread
  <1>5. Takers' = Takers
      BY <1>4 DEF Takers
  <1>6. TakersStay
      BY <1>5 DEF TakersStay
  <1>7. p = "api" => id \notin Takers
      BY ProcessFacts DEF Sole, Takers, Names, Requested
  <1>8. ApiKeeps
    <2>1. ASSUME NEW x
          PROVE  \/ ApiKnows(x)'
                 \/ x \in DOMAIN memory["api"] \ stale /\ memory'["api"][x] = memory["api"][x]
                 \/ x \notin Takers' /\ \A w : Durable(x, w) => w \in lost \/ x \in rerun'
      <3>1. CASE x # id \/ p # "api"
          BY <1>1, <3>1, ProcessFacts DEF ApiKnows, Untouched
      <3>2. CASE x = id /\ p = "api"
          BY <1>3, <1>5, <1>7, <3>2
      <3> QED BY <3>1, <3>2
    <2> QED BY <2>1 DEF ApiKeeps
  <1>9. Emittable
    <2>1. ASSUME NEW q \in Processes, Emitting(q)'
          PROVE  \/ Emitting(q) /\ event'[q] = event[q] /\ report'[q] = report[q]
                 \/ event'[q].about \in lost' \/ report'[q] \in rerun'
                 \/ \E x, w : x = report'[q] /\ w = event'[q].about /\ Durable(x, w)'
      <3>1. CASE q # p
          BY <2>1, <3>1 DEF Emitting, SameThread
      <3>2. CASE q = p /\ Dropped(r)
          BY <2>1, <3>2 DEF Dropped
      <3>3. CASE q = p /\ Filed(id, r)
        <4>1. Durable(id, r.about)'
            BY <2>1, <3>3 DEF Filed, Durable
        <4> QED BY <2>1, <3>3, <4>1
      <3> QED BY <1>2, <3>1, <3>2, <3>3
    <2> QED BY <2>1 DEF Emittable
  <1>10. (Emitting("api") => report["api"] \in DOMAIN memory["api"] /\ memory["api"][report["api"]].status = "completed")'
    <2>1. CASE p = "api"
        BY <1>2, <2>1 DEF Copied
    <2>2. CASE p # "api"
      <3>1. memory'["api"] = memory["api"] /\ report'["api"] = report["api"] /\ (Emitting("api")' => Emitting("api"))
          BY <1>1, <2>2, ProcessFacts DEF SameThread, Emitting
      <3> QED BY <3>1 DEF Links, Emitting
    <2> QED BY <2>1, <2>2
  <1> QED BY <1>1, <1>3, <1>6, <1>8, <1>9, <1>10, KeepLinks

(* What is begun again, and what is rendered by its only renderer, is not  *)
(* announced as done.                                                      *)
LEMMA BegunNotDone ==
    ASSUME Store, NEW p \in Processes, Make(p) \/ Start(p)
    PROVE  NotDone(report[p]) /\ rerun \subseteq rerun'
  BY BegunFacts DEF NotDone

LEMMA SavingNotDone ==
    ASSUME Store, Runs, NEW p \in Processes, pc[p] = "save", report[p] # "", rerun' = rerun
    PROVE  NotDone(report[p])
  <1>1. event[p].about \in lost \/ report[p] \in rerun \/ RendersAlone(p)
      BY DEF Runs, Running
  <1>2. report[p] \in DOMAIN disk => disk[report[p]].about = event[p].about
      BY StoreFacts DEF Work1, About, MadeFor
  <1> QED BY <1>1, <1>2 DEF NotDone, RendersAlone

LEMMA MakeLinks == ASSUME Names, Links, Store, NEW p \in Processes, Make(p) PROVE Links'
  <1>1. report[p] # "" /\ UNCHANGED <<asked, backend, event, report, stale, outcome, published>>
      BY DEF Make, Names, ProcessShape
  <1>2. pc'[p] = "start" /\ \A q \in Processes : q # p => SameThread(q)
      BY <1>1 DEF Make, Goto, Names, SameThread
  <1>3. ~Emitting(p)' /\ Announced /\ p # "api"
      BY <1>1, <1>2, KeepAnnounced DEF Emitting, Make, Names, ApiShape, Rendering
  <1>4. NotDone(report[p]) /\ rerun \subseteq rerun' /\ Sole(p, report[p])
      BY BegunNotDone, SoleHolder
  <1>5. CASE Written(p, report[p], Made(p), TRUE)
    <2>1. IsRecord(Made(p)) /\ LikeOthers(report[p], Made(p))
        BY MakeWrites
    <2>2. report'[p] = report[p] /\ event'[p] = event[p] /\ asked' = asked /\ backend' = backend
          /\ stale' = stale /\ outcome' = outcome
        BY <1>1
    <2> QED BY <1>2, <1>3, <1>4, <1>5, <2>1, <2>2, WriteLinks
  <1>6. CASE UNCHANGED storeVars /\ lost' = lost
    <2>1. UNCHANGED <<disk, memory>>
        BY <1>6 DEF storeVars
    <2>2. KeepsDurable /\ ApiKeeps
        BY <1>1, <2>1 DEF KeepsDurable, Durable, ApiKeeps, ApiKnows
    <2>3. \A q \in Processes : Emitting(q)' => Emitting(q) /\ event'[q] = event[q] /\ report'[q] = report[q]
        BY <1>1, <1>2, <1>3 DEF SameThread, Emitting
    <2>4. (Emitting("api") => report["api"] \in DOMAIN memory["api"] /\ memory["api"][report["api"]].status = "completed")'
        BY <2>1, <2>3, ProcessFacts DEF Links, Emitting
    <2>5. Emittable
        BY <2>3 DEF Emittable
    <2> QED BY <1>1, <1>3, <1>4, <1>6, <2>2, <2>4, <2>5, TakersOfSame, KeepLinks
  <1> QED BY <1>5, <1>6, MakeWrites

LEMMA AskLinks == ASSUME Names, Links, Store, NEW w, Ask(w) PROVE Links'
  <1>1. /\ Written("api", NewId, NewRecord(w), TRUE) /\ IsRecord(NewRecord(w))
        /\ NewId \in Ids /\ NewId \notin DOMAIN disk
        /\ LikeOthers(NewId, NewRecord(w)) /\ Sole("api", NewId)
      BY AskWrites
  <1>2. /\ asked' = asked /\ backend' = backend /\ stale' = stale /\ outcome' = outcome /\ rerun \subseteq rerun'
        /\ published' = published /\ "api" \in Processes /\ "api" \notin Workers
      BY ProcessFacts DEF Ask
  <1>3. /\ pc'["api"] = "start" /\ report'["api"] = NewId
        /\ \A q \in Processes : q # "api" => SameThread(q)
      BY <1>2 DEF Ask, Goto, Names, SameThread
  <1>4. ~Emitting("api")' /\ NotDone(NewId) /\ Announced
      BY <1>1, <1>2, <1>3, KeepAnnounced DEF Emitting, NotDone
  <1> QED BY <1>1, <1>2, <1>3, <1>4, WriteLinks

LEMMA StartLinks == ASSUME Names, Links, Store, NEW p \in Processes, Start(p) PROVE Links'
  <1>1. UNCHANGED <<asked, backend, event, report, stale, outcome, published>>
      BY DEF Start
  <1>2. /\ IsRecord(Started(p)) /\ LikeOthers(report[p], Started(p)) /\ ((backend = "files") \/ report[p] \in DOMAIN disk)
        /\ Written(p, report[p], Started(p), backend = "files") /\ (backend = "files") \in BOOLEAN
      BY StartWrites
  <1>3. pc'[p] = "fetch" /\ \A q \in Processes : q # p => SameThread(q)
      BY <1>1 DEF Start, Goto, Names, SameThread
  <1>4. ~Emitting(p)' /\ Announced
      BY <1>1, <1>3, KeepAnnounced DEF Emitting
  <1>5. NotDone(report[p]) /\ rerun \subseteq rerun' /\ Sole(p, report[p])
      BY BegunNotDone, SoleHolder
  <1>6. /\ report'[p] = report[p] /\ event'[p] = event[p] /\ asked' = asked /\ backend' = backend
        /\ stale' = stale /\ outcome' = outcome
      BY <1>1
  <1>7. p = "api" => report[p] \in Ids
      BY HeldFacts DEF Start, Names, ProcessShape, Rendering
  <1> QED BY <1>2, <1>3, <1>4, <1>5, <1>6, <1>7, WriteLinks

LEMMA SaveLinks == ASSUME Names, Links, Store, Runs, NEW p \in Processes, Save(p) PROVE Links'
  <1>1. pc[p] \in Rendering /\ report[p] # ""
      BY DEF Save, Names, ProcessShape, Rendering
  <1>2. (backend = "files") \/ report[p] \in DOMAIN disk
      BY <1>1, OwnFacts
  <1>3. /\ IsRecord(Outcome(p)) /\ LikeOthers(report[p], Outcome(p)) /\ Outcome(p).about = event[p].about
        /\ Outcome(p).status = Ending(p)
      BY <1>1, OutcomeFacts DEF MadeFor
  <1>4. /\ Written(p, report[p], Outcome(p), backend = "files") /\ (backend = "files") \in BOOLEAN
        /\ UNCHANGED <<asked, backend, event, report, stale, outcome, rerun>>
      BY SaveWrites
  <1>5. /\ \/ backend = "postgres" /\ pc'[p] = "ack" /\ published' = published \cup {Rendered(p)}
           \/ backend = "files" /\ pc'[p] = "emit" /\ published' = published
           \/ pc'[p] = "ack" /\ published' = published
        /\ \A q \in Processes : q # p => SameThread(q)
      BY <1>4 DEF Save, Goto, Names, SameThread
  <1>6. Sole(p, report[p]) /\ NotDone(report[p])
      BY <1>1, <1>4, SoleHolder, SavingNotDone DEF Save
  <1>7. Emitting(p)' => Outcome(p).status = "completed" /\ event'[p].about = Outcome(p).about /\ backend = "files"
      BY <1>3, <1>4, <1>5, StoreFacts DEF Emitting, Ending
  <1>8. Announced
    <2>1. CASE published' = published
        BY <2>1, KeepAnnounced
    <2>2. CASE backend = "postgres" /\ published' = published \cup {Rendered(p)}
      <3>1. PICK e : /\ e = Rendered(p) /\ e.report = report[p] /\ e.about = event[p].about
                     /\ e.status = Ending(p)
          BY RenderedFacts
      <3>2. Copied(p, report[p], Outcome(p)) /\ Filed(report[p], Outcome(p))
          BY <1>4, <2>2, StoreFacts, WrittenCopy, WrittenStore DEF Dropped
      <3>3. Good(e)' => Durable(e.report, e.about)'
          BY <1>3, <3>1, <3>2 DEF Good, Durable, Filed
      <3>4. DOMAIN memory'["api"] = {}
          BY <2>2, <3>2, StoreFacts, ProcessFacts DEF Copied
      <3>5. ApiKnows(e.report)'
          BY <3>4 DEF ApiKnows
      <3> QED BY <2>2, <3>1, <3>3, <3>5 DEF Announced
    <2> QED BY <1>5, <2>1, <2>2
  <1>9. /\ report'[p] = report[p] /\ event'[p] = event[p] /\ asked' = asked /\ backend' = backend
        /\ stale' = stale /\ outcome' = outcome /\ rerun \subseteq rerun'
      BY <1>4
  <1>10. p = "api" => report[p] \in Ids
      BY <1>1, HeldFacts
  <1> QED BY <1>2, <1>3, <1>4, <1>5, <1>6, <1>7, <1>8, <1>9, <1>10, WriteLinks

LEMMA NextLinks == ASSUME Names, Store, Runs, Links, [Next]_vars PROVE Links'
  <1>1. CASE UNCHANGED reportVars
      BY <1>1, EnqueueLinks DEF reportVars
  <1>2. CASE \/ \E w : Announce(w)
             \/ \E e \in asked \cup {Completed(w) : w \in finished} : Redeliver(e)
      BY <1>2, Arrivals, EnqueueLinks
  <1>3. ASSUME NEW p \in Processes, Crash(p) PROVE Links'
      BY <1>3, RestLinks, ApiCrashLinks
  <1> QED BY <1>1, <1>2, <1>3, StepCases, ReceiveLinks, SearchLinks, RestLinks, FetchLinks, EmitLinks,
             StartLinks, SaveLinks, MakeLinks, AskLinks, LookLinks, PeekLinks
          DEF Step, Work

LEMMA InitLinks == Init => Links
  <1> SUFFICES ASSUME Init PROVE Links
      OBVIOUS
  <1>1. PICK start \in Starts : ReportInit(start.asked, start.kept)
      BY DEF Init
  <1>2. /\ published = {} /\ memory = [p \in Processes |-> Empty] /\ pc = [p \in Processes |-> "idle"]
      BY <1>1 DEF ReportInit
  <1>3. DOMAIN memory["api"] = {}
      BY <1>2, ProcessFacts DEF Empty
  <1> QED BY <1>2, <1>3, ProcessFacts DEF Links

(* LinkWorks for every instance: whatever crashes, redeliveries, failed    *)
(* writes and reads of the API there are, a report that was announced as   *)
(* completed is served as completed, unless the API read it before it was  *)
(* done, it could not be written, or a second delivery of its request had  *)
(* it begun again; and a report whose id was drawn is never begun again.   *)
THEOREM LinksWork == Spec => []LinkWorks
  <1>1. Init => Names /\ Store /\ Runs /\ Links
      BY InitNames, InitRuns, InitLinks
  <1>2. Names /\ Store /\ Runs /\ Links /\ [Next]_vars => (Names /\ Store /\ Runs /\ Links)'
      BY NextNames, NextStore, NextRuns, NextLinks
  <1>3. Names /\ Store /\ Runs /\ Links => LinkWorks
    <2> SUFFICES ASSUME Links, rerun \cap Ids = {}, NEW e \in published, e.status = "completed",
                        e.report \notin stale \cup rerun, e.about \notin lost
                 PROVE  \E r \in get("api", e.report) : r.status = "completed"
        BY DEF LinkWorks, Runs
    <2>1. Good(e)
        BY DEF Good
    <2>2. /\ Durable(e.report, e.about)
          /\ e.report \in DOMAIN memory["api"] \ stale => memory["api"][e.report].status = "completed"
        BY <2>1 DEF Links
    <2> QED BY <2>2 DEF Durable, get
  <1> QED BY <1>1, <1>2, <1>3, PTL DEF Spec

-----------------------------------------------------------------------------
(* One automatic document: what a step adds to the automatic ones.         *)

NoMore == \A w : w \in raced' \cup lost' \/ AutoOf(w)' \subseteq AutoOf(w)
NoMakers == \A p \in Workers : Making(p)' => Making(p) /\ event'[p] = event[p]

LEMMA KeepAutomatic ==
    ASSUME Automatic, StoreShape, Len(order) <= Len(order'), Len(order') \in Nat, raced \subseteq raced',
           lost \subseteq lost', NoMore, NoMakers
    PROVE  Automatic'
  <1>1. Len(order) \in Nat /\ RecentLimit \in Nat
    <2>1. Len(order) \in Nat
        BY DEF StoreShape
    <2> QED BY <2>1, ReportingAssumption
  <1>2. Len(order') <= RecentLimit => Len(order) <= RecentLimit
      BY <1>1
  <1>3. OneAutomaticDocument'
    <2> SUFFICES ASSUME Len(order') <= RecentLimit, NEW a \in DOMAIN disk', NEW b \in DOMAIN disk',
                        disk'[a].auto, disk'[b].auto, disk'[a].about = disk'[b].about
                 PROVE  a = b \/ disk'[a].about \in raced' \cup lost'
        BY DEF OneAutomaticDocument
    <2>1. PICK w : w = disk'[a].about
        OBVIOUS
    <2>2. a \in AutoOf(w)' /\ b \in AutoOf(w)'
        BY <2>1 DEF AutoOf
    <2>3. CASE w \notin raced' \cup lost'
      <3>1. a \in AutoOf(w) /\ b \in AutoOf(w)
          BY <2>2, <2>3 DEF NoMore
      <3>2. a = b \/ w \in raced \cup lost
          BY <1>2, <3>1 DEF Automatic, OneAutomaticDocument, AutoOf
      <3> QED BY <2>3, <3>2
    <2> QED BY <2>1, <2>3
  <1>4. \A p, q \in Workers : Making(p)' /\ Making(q)' /\ event'[p] = event'[q] =>
            p = q \/ event'[p].about \in raced'
      BY DEF Automatic, NoMakers
  <1>5. ASSUME NEW p \in Workers, Making(p)', Len(order') <= RecentLimit
        PROVE  (event[p].about \in raced \cup lost \/ AutoOf(event[p].about) = {})'
    <2>1. PICK w : w = event[p].about /\ w = event'[p].about /\ Making(p)
        BY <1>5 DEF NoMakers
    <2>2. w \in raced \cup lost \/ AutoOf(w) = {}
        BY <1>2, <1>5, <2>1 DEF Automatic
    <2>3. w \in raced' \cup lost' \/ AutoOf(w)' = {}
        BY <2>2 DEF NoMore
    <2> QED BY <2>1, <2>3 DEF AutoOf
  <1> QED BY <1>3, <1>4, <1>5 DEF Automatic

LEMMA QuietAutomatic ==
    ASSUME Automatic, Store, UNCHANGED <<disk, order, raced, lost>>, NoMakers
    PROVE  Automatic'
  <1>1. Len(order) \in Nat /\ StoreShape
      BY StoreFacts DEF StoreShape
  <1>2. NoMore
      BY DEF NoMore, AutoOf
  <1> QED BY <1>1, <1>2, KeepAutomatic

LEMMA WriteAutomatic ==
    ASSUME Automatic, Store, NEW p \in Processes, NEW id, NEW r, NEW last \in BOOLEAN,
           Written(p, id, r, last), last \/ id \in DOMAIN disk, IsRecord(r), LikeOthers(id, r),
           backend' = backend, raced' = raced, NoMakers,
           id \in DOMAIN disk \/ r.about \in lost \/ r.auto = FALSE
    PROVE  Automatic'
  <1>1. StoreShape' /\ StoreShape /\ (\A x : x # id => Untouched(x)) /\ lost \subseteq lost'
    <2>1. Store /\ Written(p, id, r, last) /\ (last \/ id \in DOMAIN disk) /\ IsRecord(r) /\ LikeOthers(id, r)
        OBVIOUS
    <2>2. backend' = backend /\ StoreShape
        BY StoreFacts
    <2> QED BY ONLY <2>1, <2>2, WrittenFacts, p \in Processes, last \in BOOLEAN
  <1>2. Len(order) <= Len(order') /\ Len(order') \in Nat
    <2>1. order' \in Seq(DOMAIN disk') /\ Len(order) <= Len(order')
        BY <1>1, WrittenOrder
    <2> QED BY <2>1
  <1>3. Filed(id, r) \/ Dropped(r)
      BY <1>1, WrittenStore
  <1>4. NoMore
    <2> SUFFICES ASSUME NEW w, w \notin raced' \cup lost', NEW x \in AutoOf(w)' PROVE x \in AutoOf(w)
        BY DEF NoMore
    <2>1. x \in DOMAIN disk' /\ disk'[x].auto /\ disk'[x].about = w
        BY DEF AutoOf
    <2>2. CASE x # id
        BY <1>1, <2>1, <2>2 DEF Untouched, AutoOf
    <2>3. CASE x = id /\ Dropped(r)
        BY <2>1, <2>3 DEF Dropped, AutoOf
    <2>4. CASE x = id /\ Filed(id, r)
      <3>1. r.auto /\ r.about = w /\ w \notin lost
          BY <1>1, <2>1, <2>4 DEF Filed
      <3>2. id \in DOMAIN disk /\ Alike(disk[id], r)
          BY <3>1 DEF LikeOthers
      <3> QED BY <2>4, <3>1, <3>2 DEF AutoOf, Alike
    <2> QED BY <1>3, <2>2, <2>3, <2>4
  <1> QED BY <1>1, <1>2, <1>4, KeepAutomatic

(* A record that is being rendered and was never written is lost.          *)
LEMMA OwnWritten ==
    ASSUME Names, Store, NEW p \in Processes, pc[p] \in Rendering
    PROVE  report[p] \in DOMAIN disk \/ event[p].about \in lost
  <1>1. get(p, report[p]) = {Own(p)} /\ Own(p).about = event[p].about
      BY OwnFacts DEF MadeFor
  <1>2. CASE report[p] \notin DOMAIN disk
    <2>1. report[p] \in DOMAIN memory[p] /\ Own(p) = memory[p][report[p]]
        BY <1>1, <1>2 DEF get
    <2> QED BY <1>1, <1>2, <2>1, StoreFacts DEF Unwritten
  <1> QED BY <1>2

LEMMA RenderAutomatic ==
    ASSUME Names, Automatic, Store, NEW p \in Processes, Start(p) \/ Save(p)
    PROVE  Automatic'
  <1>1. pc[p] \in Rendering /\ UNCHANGED <<backend, raced, event>>
      BY DEF Start, Save, Rendering
  <1>2. NoMakers
      BY <1>1, ProcessFacts DEF Start, Save, Goto, Names, NoMakers, Making
  <1>3. PICK r : /\ Written(p, report[p], r, backend = "files") /\ IsRecord(r) /\ LikeOthers(report[p], r)
                 /\ r.about = event[p].about
    <2>1. CASE Start(p)
        BY <2>1, StartWrites DEF MadeFor
    <2>2. CASE Save(p)
        BY <1>1, <2>2, SaveWrites, OutcomeFacts DEF MadeFor
    <2> QED BY <2>1, <2>2
  <1>4. (backend = "files" \/ report[p] \in DOMAIN disk) /\ (backend = "files") \in BOOLEAN
      BY <1>1, OwnFacts
  <1>5. report[p] \in DOMAIN disk \/ r.about \in lost
      BY <1>1, <1>3, OwnWritten
  <1> QED BY <1>1, <1>2, <1>3, <1>4, <1>5, WriteAutomatic

LEMMA AskAutomatic == ASSUME Names, Automatic, Store, NEW w, Ask(w) PROVE Automatic'
  <1>1. /\ Written("api", NewId, NewRecord(w), TRUE) /\ IsRecord(NewRecord(w))
        /\ NewRecord(w).auto = FALSE /\ LikeOthers(NewId, NewRecord(w))
      BY AskWrites
  <1>2. backend' = backend /\ raced' = raced /\ "api" \in Processes
      BY ProcessFacts DEF Ask
  <1>3. NoMakers
      BY ProcessFacts DEF Ask, Goto, Names, NoMakers, Making
  <1> QED BY <1>1, <1>2, <1>3, WriteAutomatic

(* The events of two that make the automatic document of a workflow.       *)
LEMMA SameMaker ==
    ASSUME Names, NEW p \in Workers, NEW q \in Workers, Making(p), Making(q), event[p].about = event[q].about
    PROVE  event[p] = event[q]
  <1>1. Named(event[p]) /\ Named(event[q])
      BY NamedFacts DEF Making
  <1>2. event[p] = Completed(event[p].about) /\ event[q] = Completed(event[q].about)
      BY <1>1 DEF Making, Named
  <1> QED BY <1>2

(* The id of an automatic document was drawn for it.                       *)
LEMMA AutoDrawn ==
    ASSUME Names, Store, NEW p \in Workers, Making(p)
    PROVE  Fresh(report[p])
  <1>1. event[p] = Completed(event[p].about) /\ report[p] # "" /\ pc[p] \in {"look", "make"}
      BY NamedFacts, ProcessFacts DEF Named, Names, ProcessShape, Making
  <1>2. event[p].report = ""
      BY <1>1, CompletedFacts
  <1>3. report[p] \in Ids /\ Work1(p)
      BY <1>1, <1>2, HeldFacts, StoreFacts, ProcessFacts
  <1> QED BY <1>1, <1>3 DEF Work1

LEMMA MakeAutomatic == ASSUME Names, Automatic, Store, NEW p \in Processes, Make(p) PROVE Automatic'
  <1>1. PICK r : r = Made(p)
      OBVIOUS
  <1>2. PICK id : id = report[p]
      OBVIOUS
  <1>3. /\ IsRecord(r) /\ LikeOthers(id, r)
        /\ Written(p, id, r, TRUE) \/ (UNCHANGED storeVars /\ lost' = lost /\ id \in DOMAIN disk)
      BY <1>1, <1>2, MakeWrites
  <1>4. r.about = event[p].about /\ r.auto = (event[p].kind = "workflow.completed")
      BY <1>1, MakeWrites DEF MadeFor
  <1>5. ASSUME UNCHANGED storeVars, lost' = lost, raced' = raced, NoMakers PROVE Automatic'
      BY <1>5, QuietAutomatic DEF storeVars
  <1>6. /\ UNCHANGED <<backend, event, raced>> /\ backend' = backend /\ pc[p] = "make" /\ pc'[p] = "start"
        /\ \A q \in Processes : q # p => pc'[q] = pc[q]
      BY DEF Make, Goto, Names
  <1>7. NoMakers /\ (p \in Workers => ~Making(p)')
      BY <1>6, ProcessFacts DEF NoMakers, Making
  <1>8. CASE r.auto = FALSE
    <2>1. CASE Written(p, id, r, TRUE)
        BY <1>3, <1>6, <1>7, <1>8, <2>1, WriteAutomatic
    <2> QED BY <1>3, <1>5, <1>6, <1>7, <2>1
  <1>9. CASE event[p].kind = "workflow.completed"
    <2>1. p \in Workers /\ Making(p)
        BY <1>6, <1>9, ProcessFacts DEF Making, Names, ApiShape, Rendering
    <2>2. Written(p, id, r, TRUE) /\ id \notin DOMAIN disk
        BY <1>2, <1>3, <2>1, AutoDrawn DEF Fresh
    <2>3. StoreShape /\ (Filed(id, r) \/ Dropped(r)) /\ (\A x : x # id => Untouched(x)) /\ lost \subseteq lost'
      <3>1. Store /\ StoreShape /\ backend' = backend /\ IsRecord(r) /\ LikeOthers(id, r)
          BY <1>3, <1>6, StoreFacts
      <3> QED BY ONLY <2>2, <3>1, WrittenFacts, WrittenStore, p \in Processes
    <2>4. Len(order) <= Len(order') /\ Len(order') \in Nat /\ Len(order) \in Nat /\ RecentLimit \in Nat
      <3>1. order' \in Seq(DOMAIN disk') /\ Len(order) <= Len(order')
          BY <2>3, <2>2, WrittenOrder
      <3>2. order \in Seq(DOMAIN disk)
          BY <2>3 DEF StoreShape
      <3>3. Len(order) <= Len(order') /\ Len(order') \in Nat /\ Len(order) \in Nat
          BY <3>1, <3>2
      <3> QED BY <3>3, ReportingAssumption
    <2>5. Len(order') <= RecentLimit => Len(order) <= RecentLimit
        BY <2>4
    <2>6. PICK w : w = event[p].about
        OBVIOUS
    <2>7. \A v : v # w => AutoOf(v)' \subseteq AutoOf(v)
        BY <1>4, <2>3, <2>6 DEF AutoOf, Untouched, Filed, Dropped
    <2>8. AutoOf(w)' \subseteq AutoOf(w) \cup {id}
        BY <2>3 DEF AutoOf, Untouched
    <2>9. OneAutomaticDocument'
      <3> SUFFICES ASSUME Len(order') <= RecentLimit, NEW a \in DOMAIN disk', NEW b \in DOMAIN disk',
                          disk'[a].auto, disk'[b].auto, disk'[a].about = disk'[b].about
                   PROVE  a = b \/ disk'[a].about \in raced' \cup lost'
          BY DEF OneAutomaticDocument
      <3>1. PICK v : v = disk'[a].about /\ a \in AutoOf(v)' /\ b \in AutoOf(v)'
          BY DEF AutoOf
      <3>2. CASE v = w
        <4>1. w \in raced \cup lost \/ AutoOf(w) = {}
            BY <2>1, <2>5, <2>6 DEF Automatic
        <4> QED BY <1>6, <2>3, <2>8, <3>1, <3>2, <4>1
      <3>3. CASE v # w
        <4>1. a \in AutoOf(v) /\ b \in AutoOf(v)
            BY <2>7, <3>1, <3>3
        <4>2. a = b \/ v \in raced \cup lost
            BY <2>5, <4>1 DEF Automatic, OneAutomaticDocument, AutoOf
        <4> QED BY <1>6, <2>3, <3>1, <4>2
      <3> QED BY <3>2, <3>3
    <2>10. \A q, s \in Workers : Making(q)' /\ Making(s)' /\ event'[q] = event'[s] =>
              q = s \/ event'[q].about \in raced'
        BY <1>6, <1>7 DEF Automatic, NoMakers
    <2>11. ASSUME NEW q \in Workers, Making(q)', Len(order') <= RecentLimit
           PROVE  (event[q].about \in raced \cup lost \/ AutoOf(event[q].about) = {})'
      <3>1. Making(q) /\ q # p
          BY <1>7, <2>11 DEF NoMakers
      <3>2. PICK v : v = event[q].about /\ v = event'[q].about
          BY <1>6
      <3>3. CASE v = w
        <4>1. event[p] = event[q]
            BY <2>1, <2>6, <3>1, <3>2, <3>3, SameMaker
        <4>2. w \in raced
            BY <2>1, <2>6, <3>1, <4>1 DEF Automatic
        <4> QED BY <1>6, <3>2, <3>3, <4>2
      <3>4. CASE v # w
        <4>1. v \in raced \cup lost \/ AutoOf(v) = {}
            BY <2>5, <2>11, <3>1, <3>2 DEF Automatic
        <4>2. v \in raced' \cup lost' \/ AutoOf(v)' = {}
            BY <1>6, <2>3, <2>7, <3>4, <4>1
        <4> QED BY <3>2, <4>2 DEF AutoOf
      <3> QED BY <3>3, <3>4
    <2> QED BY <2>9, <2>10, <2>11 DEF Automatic
  <1> QED BY <1>4, <1>8, <1>9

(* The search sees every document when there are no more than its limit.   *)
LEMMA RecentAll ==
    ASSUME StoreShape, Len(order) <= RecentLimit PROVE DOMAIN disk \subseteq recent(RecentLimit)
  <1>1. Len(order) \in Nat /\ RecentLimit \in Nat
    <2>1. Len(order) \in Nat
        BY DEF StoreShape
    <2> QED BY <2>1, ReportingAssumption
  <1>2. \A j \in 1..Len(order) : j > Len(order) - RecentLimit
      BY <1>1
  <1> QED BY <1>2 DEF recent, StoreShape

LEMMA SearchAutomatic == ASSUME Names, Automatic, Store, NEW p \in Processes, Search(p) PROVE Automatic'
  <1>1. UNCHANGED <<disk, order, lost, event>> /\ pc[p] = "search"
      BY DEF Search, storeVars
  <1>2. p \in Workers /\ \A q \in Processes : q # p => pc'[q] = pc[q]
      BY <1>1, ProcessFacts DEF Search, Goto, Names, ApiShape, Rendering
  <1>3. CASE pc'[p] = "ack" /\ raced' = raced
    <2>1. NoMakers
        BY <1>1, <1>2, <1>3, ProcessFacts DEF NoMakers, Making
    <2> QED BY <1>1, <1>3, <2>1, QuietAutomatic
  <1>4. CASE /\ ~ \E id \in recent(RecentLimit) : disk[id].about = event[p].about
             /\ raced' = IF Rivals(p) # {} THEN raced \cup {event[p].about} ELSE raced
    <2>1. PICK w : w = event[p].about
        OBVIOUS
    <2>2. raced \subseteq raced' /\ (Rivals(p) # {} => w \in raced')
        BY <1>4, <2>1
    <2>3. Len(order) <= RecentLimit => AutoOf(w) = {}
        BY <1>4, <2>1, StoreFacts, RecentAll DEF AutoOf
    <2>4. OneAutomaticDocument'
        BY <1>1, <2>2 DEF Automatic, OneAutomaticDocument
    <2>5. \A q \in Workers : q # p /\ Making(q)' => Making(q)
        BY <1>1, <1>2, ProcessFacts DEF Making
    <2>6. ASSUME NEW q \in Workers, q # p, Making(q)', event'[q] = event'[p] PROVE w \in raced'
      <3>1. q \in Rivals(p)
          BY <1>1, <2>5, <2>6 DEF Rivals, Making
      <3> QED BY <2>2, <3>1
    <2>7. ASSUME NEW q \in Workers, NEW s \in Workers, Making(q)', Making(s)', event'[q] = event'[s]
          PROVE  q = s \/ event'[q].about \in raced'
      <3>1. CASE q = p
          BY <1>1, <2>1, <2>6, <2>7, <3>1
      <3>2. CASE s = p
          BY <1>1, <2>1, <2>6, <2>7, <3>2
      <3>3. CASE q # p /\ s # p
          BY <1>1, <2>2, <2>5, <2>7, <3>3 DEF Automatic
      <3> QED BY <3>1, <3>2, <3>3
    <2>8. ASSUME NEW q \in Workers, Making(q)', Len(order') <= RecentLimit
          PROVE  (event[q].about \in raced \cup lost \/ AutoOf(event[q].about) = {})'
      <3>1. PICK v : v = event[q].about /\ v = event'[q].about
          BY <1>1
      <3>2. v \in raced \cup lost \/ AutoOf(v) = {}
          BY <1>1, <2>1, <2>3, <2>5, <2>8, <3>1 DEF Automatic
      <3> QED BY <1>1, <2>2, <3>1, <3>2 DEF AutoOf
    <2> QED BY <2>4, <2>7, <2>8 DEF Automatic
  <1> QED BY <1>3, <1>4 DEF Search, Goto, Names

LEMMA OtherAutomatic ==
    ASSUME Names, Automatic, Store, NEW p \in Processes,
           \/ Look(p) \/ Fetch(p) \/ Emit(p) \/ Ack(p) \/ Raise(p) \/ Crash(p)
           \/ \E e \in queue : Receive(p, e)
    PROVE  Automatic'
  <1>1. UNCHANGED <<disk, order, raced, lost>>
      BY DEF Look, Fetch, Emit, Ack, Raise, Crash, Receive, ghosts, storeVars
  <1>2. CASE Look(p) \/ Fetch(p) \/ Emit(p)
    <2>1. NoMakers
      <3>1. event' = event /\ \A q \in Processes : q # p => pc'[q] = pc[q]
          BY <1>2 DEF Look, Fetch, Emit, Goto, Names
      <3>2. pc'[p] \in {"look", "make"} => pc[p] = "look"
          BY <1>2 DEF Look, Fetch, Emit, Goto, Names
      <3> QED BY <3>1, <3>2, ProcessFacts DEF NoMakers, Making
    <2> QED BY <1>1, <2>1, QuietAutomatic
  <1>3. CASE Ack(p) \/ Raise(p) \/ Crash(p)
    <2>1. Rest(p)
        BY <1>3 DEF Ack, Raise, Crash
    <2>2. NoMakers
        BY <2>1, ProcessFacts DEF Rest, Goto, Names, NoMakers, Making
    <2> QED BY <1>1, <2>2, QuietAutomatic
  <1>4. ASSUME NEW e \in queue, Receive(p, e) PROVE Automatic'
    <2>1. event'[p] = e /\ \A q \in Processes : q # p => pc'[q] = pc[q] /\ event'[q] = event[q]
      <3>1. \A q \in Processes : q # p => SameThread(q)
          BY <1>4 DEF Receive, Names, SameThread, Goto
      <3>2. event'[p] = e
          BY <1>4 DEF Receive, Names
      <3> QED BY <3>1, <3>2 DEF SameThread
    <2>2. pc'[p] \in {"ack", "search"} \/ (pc'[p] = "look" /\ e.kind # "workflow.completed")
      <3>1. CASE e \in seen[p]
        <4>1. Goto(p, "ack")
            BY <1>4, <3>1 DEF Receive
        <4> QED BY <4>1 DEF Names, Goto
      <3>2. CASE e \notin seen[p] /\ e.kind = "workflow.completed"
        <4>1. Goto(p, "search")
            BY <1>4, <3>2 DEF Receive
        <4> QED BY <4>1 DEF Names, Goto
      <3>3. CASE e \notin seen[p] /\ e.kind # "workflow.completed"
        <4>1. Goto(p, "look")
            BY <1>4, <3>3 DEF Receive
        <4> QED BY <3>3, <4>1 DEF Names, Goto
      <3> QED BY <3>1, <3>2, <3>3
    <2>3. NoMakers
        BY <2>1, <2>2, ProcessFacts DEF NoMakers, Making
    <2> QED BY <1>1, <2>3, QuietAutomatic
  <1> QED BY <1>2, <1>3, <1>4

LEMMA NextAutomatic == ASSUME Names, Store, Automatic, [Next]_vars PROVE Automatic'
  <1>1. ASSUME UNCHANGED <<disk, order, raced, lost, pc, event>> PROVE Automatic'
    <2>1. NoMakers
        BY <1>1 DEF NoMakers, Making
    <2> QED BY <1>1, <2>1, QuietAutomatic
  <1>2. CASE UNCHANGED reportVars
      BY <1>1, <1>2 DEF reportVars, storeVars, threadVars, ghosts
  <1>3. CASE \/ \E w : Announce(w)
             \/ \E e \in asked \cup {Completed(w) : w \in finished} : Redeliver(e)
      BY <1>1, <1>3, Arrivals DEF storeVars, threadVars, ghosts
  <1>4. ASSUME NEW id, Peek(id) PROVE Automatic'
      BY <1>1, <1>4 DEF Peek, threadVars
  <1> QED BY <1>2, <1>3, <1>4, StepCases, RenderAutomatic, AskAutomatic, MakeAutomatic, SearchAutomatic,
             OtherAutomatic
          DEF Step, Work

LEMMA InitAutomatic == Init => Automatic
  <1> SUFFICES ASSUME Init PROVE Automatic
      OBVIOUS
  <1>1. PICK start \in Starts : ReportInit(start.asked, start.kept)
      BY DEF Init
  <1>2. disk = Empty /\ pc = [p \in Processes |-> "idle"]
      BY <1>1 DEF ReportInit
  <1>3. DOMAIN disk = {} /\ \A p \in Workers : ~Making(p)
      BY <1>2, ProcessFacts DEF Empty, Making
  <1> QED BY <1>3 DEF Automatic, OneAutomaticDocument

(* OneAutomaticDocument for every instance: redeliveries and restarts make *)
(* no second automatic document of a workflow, unless two workers searched *)
(* before either had created its record, a file could not be written, or   *)
(* there are more documents than the search looks at.                      *)
THEOREM OneDocument == Spec => []OneAutomaticDocument
  <1>1. Init => Names /\ Store /\ Automatic
      BY InitNames, InitAutomatic
  <1>2. Names /\ Store /\ Automatic /\ [Next]_vars => (Names /\ Store /\ Automatic)'
      BY NextNames, NextStore, NextAutomatic
  <1>3. Names /\ Store /\ Automatic => OneAutomaticDocument
      BY DEF Automatic
  <1> QED BY <1>1, <1>2, <1>3, PTL DEF Spec

-----------------------------------------------------------------------------
(* The document of a finished workflow: what is settled stays settled.     *)

WholeStays == \A w : HasWhole(w) => Settled(w)'
NewSettled ==
    \A id \in DOMAIN disk' :
        \/ id \in DOMAIN disk /\ disk'[id].about = disk[id].about
        \/ \E w : w = disk'[id].about /\ Settled(w)'
SettledAny(w) == Settled(w) \/ Settled(w)'
SameWork(q) == SameThread(q) /\ outcome'[q] = outcome[q] /\ seen'[q] = seen[q]
WaitsOn(w) == Taken(w)' \/ Completed(w) \in queue'

LEMMA SettledStays ==
    ASSUME NEW p \in Processes, \A q \in Processes : q # p => SameThread(q),
           spoiled \subseteq spoiled', lost \subseteq lost', WholeStays,
           pc[p] \in Rendering => \E w : w = event[p].about /\ Settled(w)'
    PROVE  \A w : SettledAny(w) => Settled(w)'
  <1> SUFFICES ASSUME NEW w, Settled(w) PROVE Settled(w)'
      BY DEF SettledAny
  <1>1. CASE w \in spoiled \cup lost
      BY <1>1 DEF Settled
  <1>2. CASE HasWhole(w)
      BY <1>2 DEF WholeStays
  <1>3. CASE InHand(w)
    <2>1. PICK q \in Processes : pc[q] \in Rendering /\ event[q].about = w
        BY <1>3 DEF InHand
    <2>2. CASE q = p
        BY <2>1, <2>2
    <2>3. CASE q # p
      <3>1. InHand(w)'
          BY <2>1, <2>3 DEF InHand, SameThread
      <3> QED BY <3>1 DEF Settled
    <2> QED BY <2>2, <2>3
  <1> QED BY <1>1, <1>2, <1>3 DEF Settled

LEMMA KeepDocuments ==
    ASSUME Names, Documents, NEW p \in Processes, \A q \in Processes : q # p => SameWork(q),
           spoiled \subseteq spoiled', lost \subseteq lost', WholeStays, NewSettled,
           pc[p] \in Rendering => \E w : w = event[p].about /\ Settled(w)',
           pc'[p] = "save" => outcome'[p] = "whole" \/ event'[p].about \in spoiled',
           p \in Workers /\ pc'[p] \in {"emit", "ack"} /\ event'[p].kind = "workflow.completed" =>
               \E w : w = event'[p].about /\ SettledAny(w),
           p \in Workers => \A e \in seen'[p] : e \in seen[p] \/ e.kind # "workflow.completed" \/ SettledAny(e.about),
           \A w \in finished' \ finished : WaitsOn(w),
           \A w : Completed(w) \in queue => SettledAny(w) \/ WaitsOn(w),
           \A w : p \in Workers /\ event[p] = Completed(w) /\ pc[p] \in {"search", "look", "make"} =>
               SettledAny(w) \/ WaitsOn(w)
    PROVE  Documents'
  <1>1. \A q \in Processes : q # p => SameThread(q)
      BY DEF SameWork
  <1>2. \A w : SettledAny(w) => Settled(w)'
      BY <1>1, SettledStays
  <1>3. \A w : Settled(w) => Settled(w)'
      BY <1>2 DEF SettledAny
  <1>4. ASSUME NEW id \in DOMAIN disk' PROVE Settled(disk[id].about)'
    <2>1. CASE id \in DOMAIN disk /\ disk'[id].about = disk[id].about
      <3>1. PICK w : w = disk[id].about /\ Settled(w)
          BY <2>1 DEF Documents
      <3>2. w = disk'[id].about /\ Settled(w)'
          BY <1>3, <2>1, <3>1
      <3> QED BY <3>2 DEF Settled, HasWhole, InHand
    <2>2. CASE \E w : w = disk'[id].about /\ Settled(w)'
        BY <2>2 DEF Settled, HasWhole, InHand
    <2> QED BY <2>1, <2>2 DEF NewSettled
  <1>5. \A q \in Processes : pc'[q] = "save" => outcome'[q] = "whole" \/ event'[q].about \in spoiled'
      BY DEF Documents, SameWork, SameThread
  <1>6. ASSUME NEW q \in Workers, pc'[q] \in {"emit", "ack"}, event'[q].kind = "workflow.completed"
        PROVE  Settled(event[q].about)'
    <2>1. PICK w : w = event'[q].about /\ Settled(w)'
      <3>1. CASE q = p
          BY <1>2, <1>6, <3>1
      <3>2. CASE q # p
        <4>1. pc'[q] = pc[q] /\ event'[q] = event[q]
            BY <3>2, ProcessFacts DEF SameWork, SameThread
        <4>2. Settled(event[q].about)
            BY <1>6, <4>1 DEF Documents
        <4> QED BY <1>3, <4>1, <4>2
      <3> QED BY <3>1, <3>2
    <2> QED BY <2>1 DEF Settled, HasWhole, InHand
  <1>7. ASSUME NEW q \in Workers, NEW e \in seen'[q], e.kind = "workflow.completed" PROVE Settled(e.about)'
    <2>1. CASE e \in seen[q]
        BY <1>3, <1>7, <2>1 DEF Documents
    <2>2. CASE e \notin seen[q]
      <3>1. q = p
          BY <2>2, ProcessFacts DEF SameWork
      <3> QED BY <1>2, <1>7, <2>2, <3>1
    <2> QED BY <2>1, <2>2
  <1>8. ASSUME NEW w \in finished' PROVE (Settled(w) \/ Taken(w) \/ Completed(w) \in queue)'
    <2>1. CASE w \notin finished
        BY <2>1 DEF WaitsOn, Completed
    <2>2. CASE w \in finished /\ Settled(w)
        BY <1>3, <2>2
    <2>3. CASE Completed(w) \in queue
        BY <1>2, <2>3 DEF WaitsOn, Completed
    <2>4. CASE Taken(w)
      <3>1. PICK q \in Workers : event[q] = Completed(w) /\ pc[q] \in {"search", "look", "make"}
          BY <2>4 DEF Taken
      <3>2. CASE q = p
          BY <1>2, <3>1, <3>2 DEF WaitsOn, Completed
      <3>3. CASE q # p
        <4>1. event'[q] = event[q] /\ pc'[q] = pc[q]
            BY <3>3, ProcessFacts DEF SameWork, SameThread
        <4>2. Taken(w)'
            BY <3>1, <4>1 DEF Taken, Completed
        <4> QED BY <4>2
      <3> QED BY <3>2, <3>3
    <2> QED BY <2>1, <2>2, <2>3, <2>4 DEF Documents
  <1> QED BY <1>4, <1>5, <1>6, <1>7, <1>8 DEF Documents

LEMMA NoWrite == ASSUME disk' = disk PROVE WholeStays /\ NewSettled
  BY DEF WholeStays, HasWhole, NewSettled, Settled

LEMMA StillInHand ==
    ASSUME NEW p \in Processes, pc'[p] \in Rendering
    PROVE  \E w : w = event'[p].about /\ Settled(w)'
  <1>1. PICK w : w = event'[p].about
      OBVIOUS
  <1>2. InHand(w)'
      BY <1>1 DEF InHand
  <1> QED BY <1>1, <1>2 DEF Settled

(* What a write does: the workflow of the record that is written is settled *)
(* after it, whatever the record was before.                               *)
LEMMA WriteSettled ==
    ASSUME Store, NEW p \in Processes, NEW id, NEW r, NEW last \in BOOLEAN, Written(p, id, r, last),
           last \/ id \in DOMAIN disk, IsRecord(r), LikeOthers(id, r), backend' = backend,
           \E w : w = r.about /\ Settled(w)'
    PROVE  WholeStays /\ NewSettled /\ lost \subseteq lost'
  <1>1. StoreShape /\ (\A x : x # id => Untouched(x)) /\ lost \subseteq lost'
    <2>1. Store /\ Written(p, id, r, last) /\ (last \/ id \in DOMAIN disk) /\ IsRecord(r) /\ LikeOthers(id, r)
        OBVIOUS
    <2>2. backend' = backend /\ StoreShape
        BY StoreFacts
    <2> QED BY ONLY <2>1, <2>2, WrittenFacts, p \in Processes, last \in BOOLEAN
  <1>2. Filed(id, r) \/ Dropped(r)
      BY <1>1, WrittenStore
  <1>3. PICK v : v = r.about /\ Settled(v)'
      OBVIOUS
  <1>4. WholeStays
    <2> SUFFICES ASSUME NEW w, HasWhole(w) PROVE Settled(w)'
        BY DEF WholeStays
    <2>1. PICK x \in DOMAIN disk : disk[x].about = w /\ disk[x].whole
        BY DEF HasWhole
    <2>2. CASE x = id
      <3>1. w = v
          BY <1>3, <2>1, <2>2 DEF LikeOthers, Alike
      <3> QED BY <1>3, <3>1
    <2>3. CASE x # id
        BY <1>1, <2>1, <2>3 DEF Untouched, HasWhole, Settled
    <2> QED BY <2>2, <2>3
  <1>5. NewSettled
    <2> SUFFICES ASSUME NEW x \in DOMAIN disk', ~(x \in DOMAIN disk /\ disk'[x].about = disk[x].about)
                 PROVE  \E w : w = disk'[x].about /\ Settled(w)'
        BY DEF NewSettled
    <2>1. x = id
        BY <1>1 DEF Untouched
    <2>2. Filed(id, r)
        BY <1>2, <2>1 DEF Dropped
    <2>3. disk'[x].about = v
        BY <1>3, <2>1, <2>2 DEF Filed
    <2> QED BY <1>3, <2>3
  <1> QED BY <1>1, <1>4, <1>5

LEMMA OutsideDocuments ==
    ASSUME Names, Documents, UNCHANGED <<disk, lost, spoiled, threadVars>>, queue \subseteq queue',
           \A w \in finished' \ finished : Completed(w) \in queue'
    PROVE  Documents'
  <1>1. UNCHANGED <<pc, event, report, outcome, seen>> /\ "api" \in Processes /\ "api" \notin Workers
      BY ProcessFacts DEF threadVars
  <1>2. \A q \in Processes : SameWork(q)
      BY <1>1 DEF SameWork, SameThread
  <1>3. pc["api"] \in Rendering => \E w : w = event["api"].about /\ Settled(w)'
      BY <1>1, StillInHand
  <1>4. pc'["api"] = "save" => outcome'["api"] = "whole" \/ event'["api"].about \in spoiled'
      BY <1>1 DEF Documents
  <1> QED BY <1>1, <1>2, <1>3, <1>4, NoWrite, KeepDocuments DEF WaitsOn

LEMMA ReceiveDocuments ==
    ASSUME Names, Documents, NEW p \in Processes, NEW e \in queue, Receive(p, e)
    PROVE  Documents'
  <1>1. /\ p \in Workers /\ pc[p] = "idle" /\ queue' = queue \ {e} /\ event'[p] = e
        /\ UNCHANGED <<disk, lost, spoiled, finished, outcome, seen>>
      BY DEF Receive, Names, storeVars, ghosts
  <1>2. \A q \in Processes : q # p => SameThread(q)
      BY DEF Receive, Names, SameThread, Goto
  <1>3. \A q \in Processes : q # p => SameWork(q)
      BY <1>1, <1>2 DEF SameWork
  <1>4. \/ pc'[p] = "ack" /\ e \in seen[p]
        \/ pc'[p] = "search" /\ e.kind = "workflow.completed"
        \/ pc'[p] = "look" /\ e.kind # "workflow.completed"
    <2>1. CASE e \notin seen[p] /\ e.kind # "workflow.completed"
        BY <2>1 DEF Receive, Names, Goto
    <2>2. CASE e \in seen[p]
        BY <2>2 DEF Receive, Names, Goto
    <2>3. CASE e \notin seen[p] /\ e.kind = "workflow.completed"
        BY <2>3 DEF Receive, Names, Goto
    <2> QED BY <2>1, <2>2, <2>3
  <1>5. e \in seen[p] /\ e.kind = "workflow.completed" => Settled(e.about)
      BY <1>1 DEF Documents
  <1>6. ASSUME NEW w, Completed(w) \in queue PROVE SettledAny(w) \/ WaitsOn(w)
    <2>1. CASE Completed(w) # e
        BY <1>1, <1>6, <2>1 DEF WaitsOn
    <2>2. CASE Completed(w) = e
      <3>1. e.kind = "workflow.completed" /\ e.about = w
          BY <2>2, CompletedFacts
      <3>2. CASE pc'[p] = "ack"
          BY <1>4, <1>5, <3>1, <3>2 DEF SettledAny
      <3>3. CASE pc'[p] = "search"
        <4>1. Taken(w)'
            BY <1>1, <2>2, <3>3 DEF Taken, Completed
        <4> QED BY <4>1 DEF WaitsOn
      <3> QED BY <1>4, <3>1, <3>2, <3>3
    <2> QED BY <2>1, <2>2
  <1>7. pc'[p] \in {"emit", "ack"} /\ event'[p].kind = "workflow.completed" =>
            \E w : w = event'[p].about /\ SettledAny(w)
      BY <1>1, <1>4, <1>5 DEF SettledAny
  <1> QED BY <1>1, <1>3, <1>4, <1>6, <1>7, NoWrite, KeepDocuments DEF Rendering

LEMMA SearchDocuments ==
    ASSUME Names, Store, Documents, NEW p \in Processes, Search(p)
    PROVE  Documents'
  <1>1. /\ pc[p] = "search" /\ UNCHANGED <<disk, lost, spoiled, finished, outcome, seen, event, queue>>
      BY DEF Search, storeVars
  <1>2. \A q \in Processes : q # p => SameWork(q)
    <2>1. \A q \in Processes : q # p => SameThread(q)
        BY DEF Search, Names, SameThread, Goto
    <2> QED BY <1>1, <2>1 DEF SameWork
  <1>3. \/ pc'[p] = "ack" /\ \E id \in recent(RecentLimit) : disk[id].about = event[p].about
        \/ pc'[p] = "look"
      BY DEF Search, Names, Goto
  <1>4. recent(RecentLimit) \subseteq DOMAIN disk
    <2>1. order \in Seq(DOMAIN disk)
        BY StoreFacts DEF StoreShape
    <2>2. \A i \in 1..Len(order) : order[i] \in DOMAIN disk
        BY <2>1
    <2> QED BY <2>2 DEF recent
  <1>5. pc'[p] = "ack" => Settled(event[p].about)
      BY <1>3, <1>4 DEF Documents
  <1>6. ASSUME NEW w, p \in Workers, event[p] = Completed(w) PROVE SettledAny(w) \/ WaitsOn(w)
    <2>1. CASE pc'[p] = "ack"
      <3>1. event[p].about = w
          BY <1>6, CompletedFacts
      <3> QED BY <1>5, <2>1, <3>1 DEF SettledAny
    <2>2. CASE pc'[p] = "look"
      <3>1. Taken(w)'
          BY <1>1, <1>6, <2>2 DEF Taken, Completed
      <3> QED BY <3>1 DEF WaitsOn
    <2> QED BY <1>3, <2>1, <2>2
  <1>7. \A w : Completed(w) \in queue => WaitsOn(w)
      BY <1>1 DEF WaitsOn
  <1>8. pc'[p] \in {"emit", "ack"} => \E w : w = event'[p].about /\ SettledAny(w)
      BY <1>1, <1>3, <1>5 DEF SettledAny
  <1> QED BY <1>1, <1>2, <1>3, <1>6, <1>7, <1>8, NoWrite, KeepDocuments DEF Rendering

LEMMA LookDocuments ==
    ASSUME Names, Store, Documents, NEW p \in Processes, Look(p)
    PROVE  Documents'
  <1>1. /\ pc[p] = "look" /\ UNCHANGED <<disk, lost, spoiled, finished, outcome, seen, event, queue>>
      BY DEF Look, ghosts
  <1>2. \A q \in Processes : q # p => SameWork(q)
    <2>1. \A q \in Processes : q # p => SameThread(q)
        BY DEF Look, Names, SameThread, Goto
    <2> QED BY <1>1, <2>1 DEF SameWork
  <1>3. pc'[p] \in {"make", "ack", "start"} /\ (Fresh(report[p]) => pc'[p] = "make")
      BY LookCases
  <1>4. p \in Workers /\ event[p].kind = "workflow.completed" => pc'[p] = "make"
      BY <1>1, <1>3, AutoDrawn DEF Making
  <1>5. ASSUME NEW w, p \in Workers, event[p] = Completed(w) PROVE WaitsOn(w)
    <2>1. pc'[p] = "make"
        BY <1>4, <1>5, CompletedFacts
    <2>2. Taken(w)'
        BY <1>1, <1>5, <2>1 DEF Taken, Completed
    <2> QED BY <2>2 DEF WaitsOn
  <1>6. \A w : Completed(w) \in queue => WaitsOn(w)
      BY <1>1 DEF WaitsOn
  <1> QED BY <1>1, <1>2, <1>3, <1>4, <1>5, <1>6, NoWrite, KeepDocuments DEF Rendering

LEMMA MakeDocuments ==
    ASSUME Names, Store, Documents, NEW p \in Processes, Make(p)
    PROVE  Documents'
  <1>1. /\ pc[p] = "make" /\ pc'[p] = "start" /\ event'[p] = event[p] /\ backend' = backend
        /\ UNCHANGED <<backend, event, report, queue, finished, outcome, seen, spoiled>>
      BY DEF Make, Goto, Names
  <1>2. \A q \in Processes : q # p => SameWork(q)
      BY <1>1 DEF Make, Goto, Names, SameWork, SameThread
  <1>3. PICK w : w = event'[p].about /\ Settled(w)'
      BY <1>1, StillInHand DEF Rendering
  <1>4. WholeStays /\ NewSettled /\ lost \subseteq lost'
    <2>1. CASE Written(p, report[p], Made(p), TRUE)
      <3>1. IsRecord(Made(p)) /\ LikeOthers(report[p], Made(p)) /\ Made(p).about = event[p].about
          BY MakeWrites DEF MadeFor
      <3>2. \E v : v = Made(p).about /\ Settled(v)'
          BY <1>1, <1>3, <3>1
      <3> QED BY <1>1, <2>1, <3>1, <3>2, WriteSettled
    <2>2. CASE UNCHANGED storeVars /\ lost' = lost
        BY <2>2, NoWrite DEF storeVars
    <2> QED BY <2>1, <2>2, MakeWrites
  <1>5. ASSUME NEW v, event[p] = Completed(v) PROVE SettledAny(v)
    <2>1. v = w
        BY <1>1, <1>3, <1>5, CompletedFacts
    <2> QED BY <1>3, <2>1 DEF SettledAny
  <1>6. \A v : Completed(v) \in queue => WaitsOn(v)
      BY <1>1 DEF WaitsOn
  <1> QED BY <1>1, <1>2, <1>4, <1>5, <1>6, KeepDocuments DEF Rendering

LEMMA AskDocuments == ASSUME Names, Store, Documents, NEW w, Ask(w) PROVE Documents'
  <1>1. /\ Written("api", NewId, NewRecord(w), TRUE) /\ IsRecord(NewRecord(w))
        /\ NewRecord(w).about = w /\ LikeOthers(NewId, NewRecord(w))
      BY AskWrites
  <1>2. /\ pc["api"] = "idle" /\ pc'["api"] = "start" /\ event'["api"].about = w /\ backend' = backend
        /\ UNCHANGED <<queue, finished, outcome, seen, spoiled>>
        /\ "api" \in Processes /\ "api" \notin Workers
      BY ProcessFacts DEF Ask, Goto, Names
  <1>3. \A q \in Processes : q # "api" => SameWork(q)
      BY <1>2 DEF Ask, Goto, Names, SameWork, SameThread
  <1>4. PICK v : v = event'["api"].about /\ Settled(v)'
      BY <1>2, StillInHand DEF Rendering
  <1>5. WholeStays /\ NewSettled /\ lost \subseteq lost'
    <2>1. \E u : u = NewRecord(w).about /\ Settled(u)'
        BY <1>1, <1>2, <1>4
    <2> QED BY <1>1, <1>2, <2>1, WriteSettled
  <1>6. \A u : Completed(u) \in queue => WaitsOn(u)
      BY <1>2 DEF WaitsOn
  <1> QED BY <1>2, <1>3, <1>5, <1>6, KeepDocuments DEF Rendering

LEMMA StartDocuments ==
    ASSUME Names, Store, Documents, NEW p \in Processes, Start(p)
    PROVE  Documents'
  <1>1. /\ IsRecord(Started(p)) /\ Started(p).about = event[p].about /\ LikeOthers(report[p], Started(p))
        /\ ((backend = "files") \/ report[p] \in DOMAIN disk) /\ (backend = "files") \in BOOLEAN
        /\ Written(p, report[p], Started(p), backend = "files")
      BY StartWrites DEF MadeFor
  <1>2. /\ pc[p] = "start" /\ pc'[p] = "fetch" /\ event'[p] = event[p] /\ backend' = backend
        /\ UNCHANGED <<backend, event, report, queue, finished, outcome, seen, spoiled>>
      BY DEF Start, Goto, Names
  <1>3. \A q \in Processes : q # p => SameWork(q)
      BY <1>2 DEF Start, Goto, Names, SameWork, SameThread
  <1>4. PICK w : w = event'[p].about /\ Settled(w)'
      BY <1>2, StillInHand DEF Rendering
  <1>5. WholeStays /\ NewSettled /\ lost \subseteq lost'
    <2>1. \E v : v = Started(p).about /\ Settled(v)'
        BY <1>1, <1>2, <1>4
    <2> QED BY <1>1, <1>2, <2>1, WriteSettled
  <1>6. \E v : v = event[p].about /\ Settled(v)'
      BY <1>2, <1>4
  <1>7. \A v : Completed(v) \in queue => WaitsOn(v)
      BY <1>2 DEF WaitsOn
  <1> QED BY <1>2, <1>3, <1>5, <1>6, <1>7, KeepDocuments

LEMMA SaveDocuments ==
    ASSUME Names, Store, Documents, NEW p \in Processes, Save(p)
    PROVE  Documents'
  <1>1. pc[p] = "save" /\ pc[p] \in Rendering
      BY DEF Save, Rendering
  <1>2. PICK r, id : r = Outcome(p) /\ id = report[p]
      OBVIOUS
  <1>3. /\ IsRecord(r) /\ LikeOthers(id, r) /\ r.about = event[p].about
        /\ outcome[p] = "whole" => r.whole
        /\ ((backend = "files") \/ id \in DOMAIN disk) /\ (backend = "files") \in BOOLEAN
      BY <1>1, <1>2, OutcomeFacts, OwnFacts DEF MadeFor
  <1>4. /\ Written(p, id, r, backend = "files") /\ event'[p] = event[p] /\ backend' = backend
        /\ UNCHANGED <<backend, event, report, queue, finished, outcome, seen, spoiled>>
      BY <1>2, SaveWrites
  <1>5. pc'[p] \in {"emit", "ack"} /\ \A q \in Processes : q # p => SameWork(q)
      BY <1>4 DEF Save, Goto, Names, SameWork, SameThread
  <1>6. PICK w : w = event[p].about
      OBVIOUS
  <1>7. Settled(w)'
    <2>1. CASE w \in spoiled
        BY <1>4, <2>1 DEF Settled
    <2>2. CASE Dropped(r)
        BY <1>3, <1>6, <2>2 DEF Dropped, Settled
    <2>3. CASE Filed(id, r) /\ outcome[p] = "whole"
      <3>1. HasWhole(w)'
          BY <1>3, <1>6, <2>3 DEF Filed, HasWhole
      <3> QED BY <3>1 DEF Settled
    <2>4. outcome[p] = "whole" \/ w \in spoiled
        BY <1>1, <1>6 DEF Documents
    <2> QED BY <1>3, <1>4, <2>1, <2>2, <2>3, <2>4, StoreFacts, WrittenStore
  <1>8. WholeStays /\ NewSettled /\ lost \subseteq lost'
    <2>1. \E v : v = r.about /\ Settled(v)'
        BY <1>3, <1>6, <1>7
    <2> QED BY <1>3, <1>4, <2>1, WriteSettled
  <1>9. SettledAny(w) /\ event'[p].about = w
      BY <1>4, <1>6, <1>7 DEF SettledAny
  <1>10. \A v : Completed(v) \in queue => WaitsOn(v)
      BY <1>4 DEF WaitsOn
  <1> QED BY <1>1, <1>4, <1>5, <1>6, <1>7, <1>8, <1>9, <1>10, KeepDocuments

LEMMA FetchDocuments ==
    ASSUME Names, Documents, NEW p \in Processes, Fetch(p)
    PROVE  Documents'
  <1>1. /\ pc[p] = "fetch" /\ pc'[p] = "save" /\ spoiled \subseteq spoiled'
        /\ UNCHANGED <<disk, lost, event, report, queue, finished, seen>>
      BY DEF Fetch, Goto, Names, storeVars
  <1>2. \A q \in Processes : q # p => SameWork(q)
      BY <1>1 DEF Fetch, Goto, Names, SameWork, SameThread
  <1>3. outcome'[p] = "whole" \/ event'[p].about \in spoiled'
      BY <1>1 DEF Fetch, Names
  <1>4. \E w : w = event[p].about /\ Settled(w)'
      BY <1>1, StillInHand DEF Rendering
  <1>5. \A w : Completed(w) \in queue => WaitsOn(w)
      BY <1>1 DEF WaitsOn
  <1> QED BY <1>1, <1>2, <1>3, <1>4, <1>5, NoWrite, KeepDocuments

LEMMA EmitDocuments ==
    ASSUME Names, Documents, NEW p \in Processes, Emit(p)
    PROVE  Documents'
  <1>1. /\ pc[p] = "emit" /\ pc'[p] = "ack"
        /\ UNCHANGED <<disk, lost, spoiled, outcome, event, report, queue, finished, seen>>
      BY DEF Emit, Goto, Names, storeVars, ghosts
  <1>2. \A q \in Processes : q # p => SameWork(q)
      BY <1>1 DEF Emit, Goto, Names, SameWork, SameThread
  <1>3. p \in Workers /\ event'[p].kind = "workflow.completed" => \E w : w = event'[p].about /\ SettledAny(w)
      BY <1>1 DEF Documents, SettledAny
  <1>4. \A w : Completed(w) \in queue => WaitsOn(w)
      BY <1>1 DEF WaitsOn
  <1> QED BY <1>1, <1>2, <1>3, <1>4, NoWrite, KeepDocuments DEF Rendering

LEMMA AckDocuments ==
    ASSUME Names, Documents, NEW p \in Processes, Ack(p)
    PROVE  Documents'
  <1>1. /\ pc[p] = "ack" /\ pc'[p] = "idle"
        /\ UNCHANGED <<disk, lost, spoiled, queue, finished>>
      BY DEF Ack, Rest, Goto, Names, storeVars, ghosts
  <1>2. \A q \in Processes : q # p => SameWork(q)
      BY DEF Ack, Rest, Goto, Names, SameWork, SameThread
  <1>3. seen'[p] \subseteq seen[p] \cup {event[p]}
      BY DEF Ack, Names
  <1>4. p \in Workers /\ event[p].kind = "workflow.completed" => SettledAny(event[p].about)
    <2>1. p \in Workers /\ event[p].kind = "workflow.completed" => Settled(event[p].about)
        BY <1>1 DEF Documents
    <2>2. PICK w : w = event[p].about
        OBVIOUS
    <2> QED BY <2>1 DEF SettledAny
  <1>5. \A w : Completed(w) \in queue => WaitsOn(w)
      BY <1>1 DEF WaitsOn
  <1> QED BY <1>1, <1>2, <1>3, <1>4, <1>5, NoWrite, KeepDocuments DEF Rendering

LEMMA FailDocuments ==
    ASSUME Names, Documents, NEW p \in Processes, Raise(p) \/ Crash(p)
    PROVE  Documents'
  <1>1. /\ pc'[p] = "idle" /\ queue \subseteq queue' /\ spoiled \subseteq spoiled'
        /\ UNCHANGED <<disk, lost, finished>>
      BY DEF Raise, Crash, Rest, Goto, Names, storeVars
  <1>2. \A q \in Processes : q # p => SameWork(q)
      BY DEF Raise, Crash, Rest, Goto, Names, SameWork, SameThread
  <1>3. seen'[p] \subseteq seen[p]
      BY DEF Raise, Crash, Names
  <1>4. pc[p] \in Rendering => event[p].about \in spoiled'
      BY DEF Raise, Crash, Rendering
  <1>5. pc[p] \in Rendering => \E w : w = event[p].about /\ Settled(w)'
      BY <1>4 DEF Settled
  <1>6. ASSUME NEW w, p \in Workers, event[p] = Completed(w) PROVE SettledAny(w) \/ WaitsOn(w)
    <2>1. CASE Crash(p)
        BY <1>6, <2>1, ProcessFacts DEF Crash, WaitsOn
    <2>2. CASE Raise(p)
      <3>1. w \in spoiled'
          BY <1>6, <2>2, CompletedFacts DEF Raise
      <3> QED BY <3>1 DEF SettledAny, Settled
    <2> QED BY <2>1, <2>2
  <1>7. \A w : Completed(w) \in queue => WaitsOn(w)
      BY <1>1 DEF WaitsOn
  <1> QED BY <1>1, <1>2, <1>3, <1>5, <1>6, <1>7, NoWrite, KeepDocuments

LEMMA NextDocuments == ASSUME Names, Store, Documents, [Next]_vars PROVE Documents'
  <1>1. CASE UNCHANGED reportVars
      BY <1>1, OutsideDocuments DEF reportVars, storeVars, ghosts
  <1>2. CASE \/ \E w : Announce(w)
             \/ \E e \in asked \cup {Completed(w) : w \in finished} : Redeliver(e)
      BY <1>2, Arrivals, OutsideDocuments DEF storeVars, ghosts
  <1>3. ASSUME NEW id, Peek(id) PROVE Documents'
      BY <1>3, OutsideDocuments DEF Peek
  <1> QED BY <1>1, <1>2, <1>3, StepCases, ReceiveDocuments, SearchDocuments, LookDocuments, MakeDocuments,
             AskDocuments, StartDocuments, SaveDocuments, FetchDocuments, EmitDocuments, AckDocuments,
             FailDocuments
          DEF Step, Work

LEMMA InitDocuments == Init => Documents
  <1> SUFFICES ASSUME Init PROVE Documents
      OBVIOUS
  <1>1. PICK start \in Starts : ReportInit(start.asked, start.kept)
      BY DEF Init
  <1>2. /\ disk = Empty /\ pc = [p \in Processes |-> "idle"] /\ seen = [p \in Processes |-> {}]
        /\ finished = {}
      BY <1>1 DEF ReportInit
  <1>3. DOMAIN disk = {}
      BY <1>2 DEF Empty
  <1> QED BY <1>2, <1>3, ProcessFacts DEF Documents

(* FinishedHasDocument for every instance: the event of a finished         *)
(* workflow is waiting, or being worked on, or there is a document of the  *)
(* finished workflow, unless one was rendered before the workflow ended or *)
(* a failure met its making.                                               *)
THEOREM FinishedAudits == Spec => []FinishedHasDocument
  <1>1. Init => Names /\ Store /\ Documents
      BY InitNames, InitDocuments
  <1>2. Names /\ Store /\ Documents /\ [Next]_vars => (Names /\ Store /\ Documents)'
      BY NextNames, NextStore, NextDocuments
  <1>3. Documents => FinishedHasDocument
    <2> SUFFICES ASSUME Documents, NEW w \in finished
                 PROVE  \/ w \in spoiled \cup lost \/ Completed(w) \in queue
                        \/ \E p \in Processes : event[p].about = w
                        \/ \E id \in DOMAIN disk : disk[id].about = w /\ disk[id].whole
        BY DEF FinishedHasDocument
    <2>1. CASE Settled(w)
        BY <2>1 DEF Settled, HasWhole, InHand
    <2>2. CASE Taken(w)
      <3>1. PICK p \in Workers : event[p] = Completed(w)
          BY <2>2 DEF Taken
      <3>2. event[p].about = w
          BY <3>1, CompletedFacts
      <3> QED BY <3>2, ProcessFacts
    <2> QED BY <2>1, <2>2 DEF Documents
  <1> QED BY <1>1, <1>2, <1>3, PTL DEF Spec
=============================================================================
