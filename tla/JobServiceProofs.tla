-------------------------- MODULE JobServiceProofs --------------------------
(***************************************************************************)
(* What the job services promise, proved for every set of jobs, tenants,   *)
(* workers and requests and every amount of redelivery and failure.        *)
(***************************************************************************)
EXTENDS JobService, TLAPS

(* What a run in progress has fetched: reports that are there and that the *)
(* tenant may see; what it went on without, its service can do without; and*)
(* a run that is about to be saved as completed has read everything.       *)
FetchedBy(t) ==
    /\ \A n \in got[t] :
          /\ Reads[job[t]][n] \in reports
          /\ Tenant[job[t]] # NoTenant => Tenant[Reads[job[t]][n]] = Tenant[job[t]]
    /\ \A n \in 1..Len(Reads[job[t]]) :
          n < read[t] /\ n \notin got[t] => ~Fatal(job[t], n, "unknown")
    /\ At(t, "save") /\ why[t] = "none" =>
          read[t] > Len(Reads[job[t]]) /\ ~NoComparison(job[t], got[t])
Fetched == \A t \in Threads : ~At(t, "idle") => FetchedBy(t)

(* An API task created the row of the job it runs.                         *)
Posted == \A t \in ApiTasks : ~At(t, "idle") => row[job[t]] # "none"

IInv == TypeOK /\ Posted /\ OutcomeAnnounced /\ Fetched /\ TenantIsolation /\ BasisComplete

(* One worker process for each service.                                    *)
OneWorker == \A t \in Workers, u \in Workers : Serves[t] = Serves[u] => t = u

(* With one worker for each service a thread is alone with its job (two    *)
(* API tasks never share one), so between its reads and its writes the row *)
(* is as it left it.                                                       *)
ApiAlone ==
    \A t \in ApiTasks, u \in ApiTasks :
        ~At(t, "idle") /\ ~At(u, "idle") /\ job[t] = job[u] => t = u
HoldsRow(t) ==
    /\ At(t, "create") => row[job[t]] = "none"
    /\ At(t, "mark") => row[job[t]] \in {"queued", "failed"}
    /\ At(t, "work") \/ At(t, "save") => row[job[t]] = "running"
RowsHeld == \A t \in Threads : HoldsRow(t)
SoloInv == ApiAlone /\ RowsHeld /\ ReportIffCompleted

-----------------------------------------------------------------------------
(* Type correctness, action by action.                                     *)

LEMMA ReadFacts ==
    \A j \in Jobs : Len(Reads[j]) \in Nat /\ \A n \in 1..Len(Reads[j]) : Reads[j][n] \in Jobs
  BY JobAssumption

LEMMA InitTypeOK == Init => TypeOK
  BY JobAssumption, JobBoundAssumption
     DEF Init, TypeOK, RowTypeOK, BusTypeOK, ThreadTypeOK, At, Terminal, Errors

LEMMA RememberTyped ==
    ASSUME TypeOK, NEW t \in Threads, ~At(t, "idle"), Remember(t)
    PROVE  seen' \in [Threads -> SUBSET Jobs]
  BY DEF TypeOK, ThreadTypeOK, Remember

LEMMA ReturnTyped ==
    ASSUME ThreadTypeOK, NEW t \in Threads, Return(t), requested' = requested,
           seen' \in [Threads -> SUBSET Jobs]
    PROVE  ThreadTypeOK'
  BY DEF ThreadTypeOK, Return, At

LEMMA GotoTyped ==
    ASSUME ThreadTypeOK, NEW t \in Threads, ~At(t, "idle"),
           NEW l \in {"create", "mark"}, Goto(t, l), pc[t] \notin {"work", "save"},
           requested' = requested, seen' = seen
    PROVE  ThreadTypeOK'
  BY DEF ThreadTypeOK, Goto, At

LEMMA ReadOnTyped ==
    ASSUME ThreadTypeOK, NEW t \in Threads, Reading(t), ReadOn(t), requested' = requested,
           seen' = seen, got' = [got EXCEPT ![t] = got'[t]],
           got'[t] \subseteq 1..Len(Reads[job[t]])
    PROVE  ThreadTypeOK'
  <1>1. /\ job[t] \in Jobs /\ Len(Reads[job[t]]) \in Nat /\ read[t] \in Nat
        /\ read[t] <= Len(Reads[job[t]]) /\ pc[t] = "work"
      BY ReadFacts DEF ThreadTypeOK, Reading, At
  <1>2. read'[t] = read[t] + 1 /\ got'[t] \in SUBSET Nat
      BY <1>1 DEF ThreadTypeOK, ReadOn
  <1>3. got' \in [Threads -> SUBSET Nat] /\ read' \in [Threads -> Nat]
      BY <1>1, <1>2 DEF ThreadTypeOK, ReadOn
  <1>4. UNCHANGED <<pc, job, why>>
      BY DEF ReadOn
  <1>5. ASSUME NEW u \in Threads, u # t
        PROVE  read'[u] = read[u] /\ got'[u] = got[u]
      BY <1>5 DEF ThreadTypeOK, ReadOn
  <1>6. ASSUME NEW u \in Threads
        PROVE  /\ pc'[u] = "idle" => job'[u] = NoJob
               /\ pc'[u] \notin {"work", "save"} => read'[u] = 0 /\ got'[u] = {} /\ why'[u] = "none"
               /\ pc'[u] = "work" => read'[u] > 0 /\ why'[u] = "none"
               /\ pc'[u] # "idle" =>
                     /\ job'[u] \in Jobs
                     /\ Service[job'[u]] = Serves[u]
                     /\ job'[u] \in requested' <=> u \in Workers
                     /\ got'[u] \subseteq 1..Len(Reads[job'[u]])
                     /\ read'[u] <= Len(Reads[job'[u]]) + 1
    <2>1. CASE u = t
        BY <1>1, <1>2, <1>4, <2>1 DEF ThreadTypeOK, At
    <2>2. CASE u # t
        BY <1>4, <1>5, <2>2 DEF ThreadTypeOK, At
    <2> QED BY <2>1, <2>2
  <1> QED BY <1>3, <1>4, <1>6 DEF ThreadTypeOK, At

LEMMA WithoutTyped ==
    ASSUME ThreadTypeOK, NEW t \in Threads, Reading(t), NEW a \in Errors,
           Without(t, a), requested' = requested, seen' = seen
    PROVE  ThreadTypeOK'
  <1>1. CASE Fatal(job[t], read[t], a)
      BY <1>1 DEF ThreadTypeOK, Without, Fail, Reading, At
  <1>2. CASE ~Fatal(job[t], read[t], a)
    <2>1. ReadOn(t) /\ got' = got
        BY <1>2 DEF Without
    <2>2. got'[t] \subseteq 1..Len(Reads[job[t]])
        BY <2>1 DEF ThreadTypeOK, Reading, At
    <2>3. got' = [got EXCEPT ![t] = got'[t]]
        BY <2>1 DEF ThreadTypeOK
    <2> QED BY <2>1, <2>2, <2>3, ReadOnTyped
  <1> QED BY <1>1, <1>2

LEMMA SaveTyped ==
    ASSUME TypeOK, NEW t \in Threads, At(t, "save"), NEW valid \in BOOLEAN, SaveOutcome(t, valid)
    PROVE  RowTypeOK'
  <1> DEFINE j == job[t]
  <1>1. j \in Jobs /\ why[t] \in Errors \cup {"none"} /\ got[t] \subseteq 1..Len(Reads[j])
      BY DEF TypeOK, ThreadTypeOK, At
  <1>2. {Reads[j][n] : n \in got[t]} \subseteq Jobs
      BY <1>1, JobAssumption
  <1>3. row' \in [Jobs -> {"none", "queued", "running"} \cup Terminal] /\ row'[j] \in Terminal
      BY <1>1 DEF SaveOutcome, TypeOK, RowTypeOK, Terminal
  <1>4. outcomes' \in [Jobs -> Seq(Announcements)]
    <2>1. (IF valid THEN row'[j] ELSE "refused") \in Announcements
        BY <1>3 DEF Announcements
    <2> QED BY <1>1, <2>1 DEF SaveOutcome, TypeOK, RowTypeOK
  <1>5. error' \in [Jobs -> Errors \cup {"none"}] /\ reports' \subseteq Jobs
      BY <1>1 DEF SaveOutcome, TypeOK, RowTypeOK
  <1>6. basis' \in [Jobs -> SUBSET Jobs]
      BY <1>1, <1>2 DEF SaveOutcome, TypeOK, RowTypeOK
  <1> QED BY <1>3, <1>4, <1>5, <1>6 DEF RowTypeOK

LEMMA NextTypeOK == TypeOK /\ Posted /\ [Next]_vars => TypeOK'
  <1> SUFFICES ASSUME TypeOK, Posted, [Next]_vars PROVE TypeOK'
      OBVIOUS
  <1> USE DEF rows, bus, thr
  <1>1. ASSUME NEW t \in Threads, DropSeen(t) PROVE TypeOK'
      BY <1>1, ReturnTyped DEF DropSeen, TypeOK, RowTypeOK, BusTypeOK, ThreadTypeOK
  <1>2. ASSUME NEW t \in Threads, SkipKnown(t) PROVE TypeOK'
      BY <1>2, ReturnTyped, RememberTyped DEF SkipKnown, TypeOK, RowTypeOK, BusTypeOK, At
  <1>3. ASSUME NEW t \in Threads, Accept(t) PROVE TypeOK'
      BY <1>3, GotoTyped DEF Accept, TypeOK, RowTypeOK, BusTypeOK, At
  <1>4. ASSUME NEW t \in Threads, CreateJob(t) PROVE TypeOK'
      BY <1>4, GotoTyped DEF CreateJob, TypeOK, RowTypeOK, BusTypeOK, At
  <1>5. ASSUME NEW t \in Threads, MarkRunning(t) PROVE TypeOK'
    <2>1. ThreadTypeOK'
        BY <1>5, ReadFacts DEF MarkRunning, TypeOK, ThreadTypeOK, At
    <2> QED BY <1>5, <2>1 DEF MarkRunning, TypeOK, RowTypeOK, BusTypeOK
  <1>6. ASSUME NEW t \in Threads, Fetch(t) PROVE TypeOK'
    <2>1. CASE Answer(job[t], Source(t)) = "report"
      <3>1. ThreadTypeOK'
        <4>1. job[t] \in Jobs /\ read[t] \in 1..Len(Reads[job[t]])
            BY <1>6, ReadFacts DEF Fetch, Reading, TypeOK, ThreadTypeOK, At
        <4>2. got' = [got EXCEPT ![t] = got[t] \cup {read[t]}]
            BY <1>6, <2>1 DEF Fetch
        <4>3. got'[t] \subseteq 1..Len(Reads[job[t]]) /\ got' = [got EXCEPT ![t] = got'[t]]
            BY <1>6, <4>1, <4>2 DEF Fetch, Reading, TypeOK, ThreadTypeOK, At
        <4> QED BY <1>6, <2>1, <4>3, ReadOnTyped DEF Fetch, TypeOK
      <3> QED BY <1>6, <3>1 DEF Fetch, TypeOK, RowTypeOK, BusTypeOK
    <2>2. CASE Answer(job[t], Source(t)) # "report"
      <3>1. Answer(job[t], Source(t)) \in Errors
          BY <2>2 DEF Answer, Errors
      <3> QED BY <1>6, <2>2, <3>1, WithoutTyped DEF Fetch, TypeOK, RowTypeOK, BusTypeOK
    <2> QED BY <2>1, <2>2
  <1>7. ASSUME NEW t \in Threads, NEW ok \in BOOLEAN, Compute(t, ok) PROVE TypeOK'
    <2>1. CASE ok
        BY <1>7, <2>1 DEF Compute, Goto, TypeOK, RowTypeOK, BusTypeOK, ThreadTypeOK, At
    <2>2. CASE ~ok
      <3>1. "engine" \in Errors /\ Fail(t, "engine")
          BY <1>7, <2>2 DEF Compute, Errors
      <3>2. ThreadTypeOK'
          BY <1>7, <3>1 DEF Compute, Fail, TypeOK, ThreadTypeOK, At
      <3> QED BY <1>7, <3>2 DEF Compute, TypeOK, RowTypeOK, BusTypeOK
    <2> QED BY <2>1, <2>2
  <1>8. ASSUME NEW t \in Threads, Save(t) PROVE TypeOK'
      BY <1>8, SaveTyped, ReturnTyped, RememberTyped DEF Save, TypeOK, BusTypeOK, At
  <1>9. ASSUME NEW t \in Threads, Unreachable(t) PROVE TypeOK'
    <2>1. "unavailable" \in Errors
        BY DEF Errors
    <2> QED BY <1>9, <2>1, WithoutTyped, JobBoundAssumption
            DEF Unreachable, TypeOK, RowTypeOK, BusTypeOK
  <1>10. ASSUME NEW t \in Threads, Crash(t) PROVE TypeOK'
    <2>1. seen' \in [Threads -> SUBSET Jobs]
        BY <1>10 DEF Crash, TypeOK, ThreadTypeOK
    <2> QED BY <1>10, <2>1, ReturnTyped, JobBoundAssumption DEF Crash, TypeOK, RowTypeOK, BusTypeOK
  <1>11. ASSUME NEW t \in Threads, Raise(t) PROVE TypeOK'
      BY <1>11, ReturnTyped, JobBoundAssumption DEF Raise, TypeOK, RowTypeOK, BusTypeOK, ThreadTypeOK
  <1>12. ASSUME NEW t \in Workers, NEW j \in Jobs, Receive(t, j) PROVE TypeOK'
    <2>1. ThreadTypeOK'
        BY <1>12, ReadFacts, JobAssumption DEF Receive, Start, TypeOK, BusTypeOK, ThreadTypeOK, At, Threads
    <2> QED BY <1>12, <2>1 DEF Receive, TypeOK, RowTypeOK, BusTypeOK
  <1>13. ASSUME NEW t \in ApiTasks, NEW j \in Jobs, PostJob(t, j) PROVE TypeOK'
    <2>1. ThreadTypeOK'
        BY <1>13, ReadFacts, JobAssumption DEF PostJob, Start, TypeOK, ThreadTypeOK, At, Threads
    <2> QED BY <1>13, <2>1 DEF PostJob, TypeOK, RowTypeOK, BusTypeOK
  <1>14. ASSUME NEW j \in Jobs, Request(j) PROVE TypeOK'
    <2>1. \A t \in Threads : ~At(t, "idle") /\ t \notin Workers => job[t] # j
        BY <1>14 DEF Request, Posted, Threads
    <2>2. ThreadTypeOK'
        BY <1>14, <2>1 DEF Request, TypeOK, ThreadTypeOK, At, Threads
    <2> QED BY <1>14, <2>2 DEF Request, TypeOK, RowTypeOK, BusTypeOK
  <1>15. ASSUME NEW j \in Jobs, Redeliver(j) PROVE TypeOK'
      BY <1>15, JobBoundAssumption DEF Redeliver, TypeOK, RowTypeOK, BusTypeOK, ThreadTypeOK, At
  <1>16. CASE UNCHANGED vars
      BY <1>16 DEF vars, TypeOK, RowTypeOK, BusTypeOK, ThreadTypeOK, At
  <1> QED
      BY <1>1, <1>2, <1>3, <1>4, <1>5, <1>6, <1>7, <1>8, <1>9, <1>10, <1>11, <1>12, <1>13,
         <1>14, <1>15, <1>16 DEF Next, ThreadStep

-----------------------------------------------------------------------------
(* The conjuncts of IInv, one by one.                                      *)

LEMMA NextPosted == TypeOK /\ Posted /\ [Next]_vars => Posted'
  <1> SUFFICES ASSUME TypeOK, Posted, [Next]_vars PROVE Posted'
      OBVIOUS
  <1> USE DEF rows, bus, thr
  <1>1. \A j \in Jobs : row[j] # "none" => row'[j] # "none"
    <2>1. ASSUME NEW t \in Threads, Save(t) PROVE \A j \in Jobs : row[j] # "none" => row'[j] # "none"
        BY <2>1 DEF Save, SaveOutcome, TypeOK, RowTypeOK
    <2>2. ASSUME NEW t \in Threads, CreateJob(t) \/ MarkRunning(t)
          PROVE  \A j \in Jobs : row[j] # "none" => row'[j] # "none"
        BY <2>2 DEF CreateJob, MarkRunning, TypeOK, RowTypeOK
    <2>3. ASSUME NEW t \in ApiTasks, NEW k \in Jobs, PostJob(t, k)
          PROVE  \A j \in Jobs : row[j] # "none" => row'[j] # "none"
        BY <2>3 DEF PostJob, TypeOK, RowTypeOK
    <2> QED BY <2>1, <2>2, <2>3
            DEF Next, ThreadStep, DropSeen, SkipKnown, Accept, Fetch, Compute, Unreachable, Crash,
                Raise, Receive, Request, Redeliver, vars
  <1>2. ASSUME NEW u \in ApiTasks, pc'[u] # "idle", pc[u] # "idle", job'[u] = job[u]
        PROVE  row'[job'[u]] # "none"
      BY <1>1, <1>2 DEF Posted, TypeOK, ThreadTypeOK, Threads, At
  <1>3. ASSUME NEW u \in ApiTasks, NEW t \in Threads,
               \/ DropSeen(t) \/ SkipKnown(t) \/ Save(t) \/ Crash(t) \/ Raise(t)
        PROVE  pc'[u] # "idle" => pc[u] # "idle" /\ job'[u] = job[u]
      BY <1>3 DEF DropSeen, SkipKnown, Save, Crash, Raise, Return, TypeOK, ThreadTypeOK, Threads
  <1>4. ASSUME NEW u \in ApiTasks, NEW t \in Threads,
               Accept(t) \/ CreateJob(t) \/ MarkRunning(t) \/ Compute(t, TRUE) \/ Compute(t, FALSE)
        PROVE  pc'[u] # "idle" => pc[u] # "idle" /\ job'[u] = job[u]
      BY <1>4 DEF Accept, CreateJob, MarkRunning, Compute, Goto, Fail, At, TypeOK, ThreadTypeOK, Threads
  <1>5. ASSUME NEW u \in ApiTasks, NEW t \in Threads, Fetch(t) \/ Unreachable(t)
        PROVE  pc'[u] # "idle" => pc[u] # "idle" /\ job'[u] = job[u]
      BY <1>5 DEF Fetch, Unreachable, Without, ReadOn, Fail, Reading, At, TypeOK, ThreadTypeOK, Threads
  <1>6. ASSUME NEW u \in ApiTasks, NEW t \in Workers, NEW j \in Jobs, Receive(t, j)
        PROVE  pc'[u] # "idle" => pc[u] # "idle" /\ job'[u] = job[u]
      BY <1>6, JobAssumption DEF Receive, Start, TypeOK, ThreadTypeOK, Threads
  <1>7. ASSUME NEW t \in ApiTasks, NEW j \in Jobs, PostJob(t, j) PROVE Posted'
    <2>1. ASSUME NEW u \in ApiTasks, u # t, pc'[u] # "idle"
          PROVE  pc[u] # "idle" /\ job'[u] = job[u]
        BY <1>7, <2>1 DEF PostJob, Start, TypeOK, ThreadTypeOK, Threads
    <2>2. job'[t] = j /\ row'[j] = "queued"
        BY <1>7 DEF PostJob, Start, TypeOK, RowTypeOK, ThreadTypeOK, Threads
    <2> QED BY <1>2, <2>1, <2>2 DEF Posted, At
  <1>8. ASSUME UNCHANGED thr, NEW u \in ApiTasks
        PROVE  pc'[u] # "idle" => pc[u] # "idle" /\ job'[u] = job[u]
      BY <1>8
  <1>9. CASE \E t \in ApiTasks, j \in Jobs : PostJob(t, j)
      BY <1>7, <1>9
  <1>10. CASE ~\E t \in ApiTasks, j \in Jobs : PostJob(t, j)
    <2>1. ASSUME NEW u \in ApiTasks PROVE pc'[u] # "idle" => pc[u] # "idle" /\ job'[u] = job[u]
        BY <1>3, <1>4, <1>5, <1>6, <1>8, <1>10 DEF Next, ThreadStep, Request, Redeliver, vars
    <2> QED BY <1>2, <2>1 DEF Posted, At
  <1> QED BY <1>9, <1>10

LEMMA FatalUnknown ==
    ASSUME NEW j \in Jobs, NEW n \in Nat, NEW a, ~Fatal(j, n, a)
    PROVE  ~Fatal(j, n, "unknown")
  BY DEF Fatal, LinksFatal, ContentFatal, PlanFatal, ComparisonFatal

(* A thread that does not move, and one that has fetched nothing yet.      *)
LEMMA FetchedKept ==
    ASSUME TypeOK, Fetched, NEW u \in Threads, reports \subseteq reports', pc'[u] # "idle",
           pc[u] # "idle", job'[u] = job[u], read'[u] = read[u], got'[u] = got[u],
           why'[u] = why[u], pc'[u] = pc[u] \/ pc'[u] # "save"
    PROVE  FetchedBy(u)'
  BY DEF Fetched, FetchedBy, At

LEMMA FetchedNothing ==
    ASSUME TypeOK', NEW u \in Threads, pc'[u] \notin {"idle", "save"}, got'[u] = {}, read'[u] \in {0, 1}
    PROVE  FetchedBy(u)'
  <1>1. ASSUME NEW n \in 1..Len(Reads[job'[u]]) PROVE ~(n < read'[u])
      BY ReadFacts DEF TypeOK, ThreadTypeOK, At
  <1> QED BY <1>1 DEF FetchedBy, At

LEMMA FetchedReturn ==
    ASSUME TypeOK, Fetched, NEW t \in Threads, Return(t), reports \subseteq reports'
    PROVE  Fetched'
  <1> SUFFICES ASSUME NEW u \in Threads, pc'[u] # "idle" PROVE FetchedBy(u)'
      BY DEF Fetched, At
  <1>1. u # t
      BY DEF Return, TypeOK, ThreadTypeOK
  <1>2. pc'[u] = pc[u] /\ job'[u] = job[u] /\ read'[u] = read[u] /\ got'[u] = got[u] /\ why'[u] = why[u]
      BY <1>1 DEF Return, TypeOK, ThreadTypeOK
  <1> QED BY <1>2, FetchedKept

LEMMA FetchedWithout ==
    ASSUME TypeOK, Fetched, NEW t \in Threads, Reading(t), NEW a \in Errors, Without(t, a),
           reports' = reports
    PROVE  Fetched'
  <1> SUFFICES ASSUME NEW u \in Threads, pc'[u] # "idle" PROVE FetchedBy(u)'
      BY DEF Fetched, At
  <1>1. CASE u # t
    <2>1. pc'[u] = pc[u] /\ job'[u] = job[u] /\ read'[u] = read[u] /\ got'[u] = got[u] /\ why'[u] = why[u]
        BY <1>1 DEF Without, Fail, ReadOn, TypeOK, ThreadTypeOK
    <2> QED BY <2>1, FetchedKept
  <1>2. CASE u = t
    <2>1. /\ FetchedBy(t) /\ job[t] \in Jobs /\ read[t] \in Nat /\ pc[t] = "work"
          /\ Len(Reads[job[t]]) \in Nat
        BY ReadFacts DEF Fetched, Reading, At, TypeOK, ThreadTypeOK
    <2>2. CASE Fatal(job[t], read[t], a)
      <3>1. pc'[t] = "save" /\ why'[t] = a /\ job' = job /\ read' = read /\ got' = got
          BY <2>2 DEF Without, Fail, TypeOK, ThreadTypeOK
      <3>2. a # "none"
          BY DEF Errors
      <3> QED BY <1>2, <2>1, <3>1, <3>2 DEF FetchedBy, At
    <2>3. CASE ~Fatal(job[t], read[t], a)
      <3>1. read'[t] = read[t] + 1 /\ pc' = pc /\ job' = job /\ why' = why /\ got' = got
          BY <2>3 DEF Without, ReadOn, TypeOK, ThreadTypeOK
      <3>2. ~Fatal(job[t], read[t], "unknown")
          BY <2>1, <2>3, FatalUnknown
      <3>3. ASSUME NEW n \in 1..Len(Reads[job[t]]), n < read'[t], n \notin got[t]
            PROVE  ~Fatal(job[t], n, "unknown")
        <4>1. n < read[t] \/ n = read[t]
            BY <2>1, <3>1, <3>3
        <4> QED BY <2>1, <3>2, <3>3, <4>1 DEF FetchedBy
      <3> QED BY <1>2, <2>1, <3>1, <3>3 DEF FetchedBy, At
    <2> QED BY <2>2, <2>3
  <1> QED BY <1>1, <1>2

LEMMA FetchedFetch ==
    ASSUME TypeOK, Fetched, NEW t \in Threads, Fetch(t)
    PROVE  Fetched'
  <1>1. CASE Answer(job[t], Source(t)) # "report"
    <2>1. Answer(job[t], Source(t)) \in Errors
        BY <1>1 DEF Answer, Errors
    <2> QED BY <1>1, <2>1, FetchedWithout DEF Fetch, rows
  <1>2. CASE Answer(job[t], Source(t)) = "report"
    <2> SUFFICES ASSUME NEW u \in Threads, pc'[u] # "idle" PROVE FetchedBy(u)'
        BY DEF Fetched, At
    <2>1. /\ FetchedBy(t) /\ job[t] \in Jobs /\ read[t] \in Nat /\ pc[t] = "work"
          /\ Len(Reads[job[t]]) \in Nat
        BY ReadFacts DEF Fetch, Fetched, Reading, At, TypeOK, ThreadTypeOK
    <2>2. /\ pc' = pc /\ job' = job /\ why' = why /\ reports' = reports
          /\ read' = [read EXCEPT ![t] = @ + 1]
          /\ got' = [got EXCEPT ![t] = @ \cup {read[t]}]
        BY <1>2 DEF Fetch, ReadOn, rows
    <2>3. CASE u # t
      <3>1. read'[u] = read[u] /\ got'[u] = got[u]
          BY <2>2, <2>3 DEF TypeOK, ThreadTypeOK
      <3> QED BY <2>2, <3>1, FetchedKept
    <2>4. CASE u = t
      <3>1. read'[t] = read[t] + 1 /\ got'[t] = got[t] \cup {read[t]}
          BY <2>2 DEF TypeOK, ThreadTypeOK
      <3>2. /\ Reads[job[t]][read[t]] \in reports
            /\ Tenant[job[t]] # NoTenant => Tenant[Reads[job[t]][read[t]]] = Tenant[job[t]]
          BY <1>2 DEF Answer, Visible, Source
      <3>3. ASSUME NEW n \in 1..Len(Reads[job[t]]), n < read'[t], n \notin got'[t]
            PROVE  ~Fatal(job[t], n, "unknown")
        <4>1. n < read[t] /\ n \notin got[t]
            BY <2>1, <3>1, <3>3
        <4> QED BY <2>1, <3>3, <4>1 DEF FetchedBy
      <3> QED BY <2>1, <2>2, <2>4, <3>1, <3>2, <3>3 DEF FetchedBy, At
    <2> QED BY <2>3, <2>4
  <1> QED BY <1>1, <1>2

LEMMA FetchedCompute ==
    ASSUME TypeOK, Fetched, NEW t \in Threads, NEW ok \in BOOLEAN, Compute(t, ok)
    PROVE  Fetched'
  <1> SUFFICES ASSUME NEW u \in Threads, pc'[u] # "idle" PROVE FetchedBy(u)'
      BY DEF Fetched, At
  <1>1. CASE u # t
    <2>1. /\ pc'[u] = pc[u] /\ job'[u] = job[u] /\ read'[u] = read[u] /\ got'[u] = got[u]
          /\ why'[u] = why[u] /\ reports' = reports
        BY <1>1 DEF Compute, Goto, Fail, rows, TypeOK, ThreadTypeOK
    <2> QED BY <2>1, FetchedKept
  <1>2. CASE u = t
    <2>1. /\ FetchedBy(t) /\ job' = job /\ read' = read /\ got' = got /\ reports' = reports
          /\ read[t] > Len(Reads[job[t]])
        BY DEF Compute, Goto, Fail, rows, Fetched, At
    <2>2. CASE ok
        BY <1>2, <2>1, <2>2 DEF Compute, FetchedBy, At
    <2>3. CASE ~ok
      <3>1. why'[t] = "engine"
          BY <2>3 DEF Compute, Fail, TypeOK, ThreadTypeOK
      <3> QED BY <1>2, <2>1, <3>1 DEF FetchedBy, At
    <2> QED BY <2>2, <2>3
  <1> QED BY <1>1, <1>2

LEMMA NextFetched == TypeOK /\ TypeOK' /\ Fetched /\ [Next]_vars => Fetched'
  <1> SUFFICES ASSUME TypeOK, TypeOK', Fetched, [Next]_vars PROVE Fetched'
      OBVIOUS
  <1> USE DEF rows, bus, thr
  <1>1. ASSUME NEW t \in Threads, DropSeen(t) \/ SkipKnown(t) \/ Save(t) \/ Crash(t) \/ Raise(t)
        PROVE  Fetched'
      BY <1>1, FetchedReturn DEF DropSeen, SkipKnown, Save, SaveOutcome, Crash, Raise
  <1>2. ASSUME NEW t \in Threads, Fetch(t) PROVE Fetched'
      BY <1>2, FetchedFetch
  <1>3. ASSUME NEW t \in Threads, Compute(t, TRUE) \/ Compute(t, FALSE) PROVE Fetched'
      BY <1>3, FetchedCompute
  <1>4. ASSUME NEW t \in Threads, Unreachable(t) PROVE Fetched'
      BY <1>4, FetchedWithout DEF Unreachable, Errors
  <1>5. ASSUME NEW t \in Threads, pc[t] \notin {"work", "save"}, pc'[t] \notin {"idle", "save"},
               got' = got, why' = why, read'[t] \in {0, 1}, reports' = reports,
               \A u \in Threads : u # t => pc'[u] = pc[u] /\ job'[u] = job[u] /\ read'[u] = read[u]
        PROVE  Fetched'
    <2>1. got'[t] = {}
        BY <1>5 DEF TypeOK, ThreadTypeOK, At
    <2>2. FetchedBy(t)'
        BY <1>5, <2>1, FetchedNothing
    <2>3. ASSUME NEW u \in Threads, u # t, pc'[u] # "idle" PROVE FetchedBy(u)'
        BY <1>5, <2>3, FetchedKept
    <2> QED BY <2>2, <2>3 DEF Fetched, At
  <1>6. ASSUME NEW t \in Threads, Accept(t) \/ CreateJob(t) PROVE Fetched'
      BY <1>5, <1>6 DEF Accept, CreateJob, Goto, At, TypeOK, ThreadTypeOK
  <1>7. ASSUME NEW t \in Threads, MarkRunning(t) PROVE Fetched'
      BY <1>5, <1>7 DEF MarkRunning, At, TypeOK, ThreadTypeOK
  <1>8. ASSUME NEW t \in Threads, NEW j \in Jobs, Receive(t, j) \/ PostJob(t, j) PROVE Fetched'
      BY <1>5, <1>8 DEF Receive, PostJob, Start, At, TypeOK, ThreadTypeOK
  <1>9. CASE UNCHANGED <<reports, thr>>
      BY <1>9, FetchedKept DEF Fetched, At
  <1> QED BY <1>1, <1>2, <1>3, <1>4, <1>6, <1>7, <1>8, <1>9
          DEF Next, ThreadStep, Request, Redeliver, vars, Threads

(* Only Save touches what is stored about outcomes.                        *)
LEMMA OnlySave ==
    ASSUME TypeOK, [Next]_vars, \A t \in Threads : ~Save(t)
    PROVE  /\ UNCHANGED <<error, reports, basis, outcomes>>
           /\ \A j \in Jobs : row'[j] # row[j] =>
                 \/ row[j] = "none" /\ row'[j] = "queued"
                 \/ row'[j] = "running" /\ \E t \in Threads : At(t, "mark") /\ job[t] = j
  <1> USE DEF rows, bus, thr
  <1>1. ASSUME NEW t \in Threads, CreateJob(t) \/ MarkRunning(t)
        PROVE  \A j \in Jobs : row'[j] # row[j] =>
                 \/ row[j] = "none" /\ row'[j] = "queued"
                 \/ row'[j] = "running" /\ At(t, "mark") /\ job[t] = j
      BY <1>1 DEF CreateJob, MarkRunning, TypeOK, RowTypeOK
  <1>2. ASSUME NEW t \in ApiTasks, NEW k \in Jobs, PostJob(t, k)
        PROVE  \A j \in Jobs : row'[j] # row[j] => row[j] = "none" /\ row'[j] = "queued"
      BY <1>2 DEF PostJob, TypeOK, RowTypeOK
  <1>3. \A j \in Jobs : row'[j] # row[j] =>
            \/ row[j] = "none" /\ row'[j] = "queued"
            \/ row'[j] = "running" /\ \E t \in Threads : At(t, "mark") /\ job[t] = j
      BY <1>1, <1>2
         DEF Next, ThreadStep, DropSeen, SkipKnown, Accept, Fetch, Compute, Unreachable, Crash,
             Raise, Receive, Request, Redeliver, vars
  <1>4. UNCHANGED <<error, reports, basis, outcomes>>
      BY DEF Next, ThreadStep, DropSeen, SkipKnown, Accept, CreateJob, MarkRunning, Fetch, Compute,
             Unreachable, Crash, Raise, Receive, PostJob, Request, Redeliver, vars
  <1> QED BY <1>3, <1>4

LEMMA NextOutcome == TypeOK /\ OutcomeAnnounced /\ [Next]_vars => OutcomeAnnounced'
  <1> SUFFICES ASSUME TypeOK, OutcomeAnnounced, [Next]_vars PROVE OutcomeAnnounced'
      OBVIOUS
  <1>1. CASE \A t \in Threads : ~Save(t)
      BY <1>1, OnlySave DEF OutcomeAnnounced, Terminal
  <1>2. ASSUME NEW t \in Threads, Save(t) PROVE OutcomeAnnounced'
    <2> DEFINE k == job[t]
    <2>1. k \in Jobs /\ outcomes[k] \in Seq(Announcements) /\ why[t] \in Errors \cup {"none"}
        BY <1>2 DEF Save, At, TypeOK, RowTypeOK, ThreadTypeOK
    <2>2. PICK valid \in BOOLEAN : SaveOutcome(t, valid)
        BY <1>2 DEF Save
    <2> DEFINE told == IF valid THEN row'[k] ELSE "refused"
    <2>3. /\ row'[k] \in Terminal /\ (row'[k] = "completed" <=> why[t] = "none")
          /\ error'[k] = why[t] /\ outcomes'[k] = Append(outcomes[k], told)
        BY <2>1, <2>2 DEF SaveOutcome, TypeOK, RowTypeOK, Terminal
    <2>5. outcomes'[k] # <<>> /\ outcomes'[k][Len(outcomes'[k])] = told
      <3> HIDE DEF told
      <3> QED BY <2>1, <2>3
    <2>4. ASSUME NEW j \in Jobs, j # k
          PROVE  row'[j] = row[j] /\ error'[j] = error[j] /\ outcomes'[j] = outcomes[j]
        BY <1>2, <2>1, <2>4 DEF Save, SaveOutcome, TypeOK, RowTypeOK
    <2> QED BY <2>1, <2>3, <2>4, <2>5 DEF OutcomeAnnounced, Terminal
  <1> QED BY <1>1, <1>2

LEMMA ReadsNamed ==
    ASSUME NEW j \in Jobs
    PROVE  /\ Service[j] \in Analyses => Len(Reads[j]) >= 1
           /\ Service[j] = "content" => Len(Reads[j]) >= 2
  <1>1. Len(Reads[j]) \in Nat /\ ReadCount(Service[j], Len(Reads[j]))
      BY ReadFacts, JobAssumption
  <1>2. ASSUME NEW s, NEW n \in Nat, ReadCount(s, n)
        PROVE  (s \in Analyses => n >= 1) /\ (s = "content" => n >= 2)
      BY <1>2 DEF ReadCount, Analyses, Engines
  <1> QED BY <1>1, <1>2

(* What a successful run read is enough for its service.                   *)
LEMMA EnoughRead ==
    ASSUME TypeOK, Fetched, NEW t \in Threads, At(t, "save"), why[t] = "none"
    PROVE  /\ Service[job[t]] \in Analyses => 1 \in got[t]
           /\ Service[job[t]] = "content" => 2 \in got[t]
           /\ Service[job[t]] = "competitor" => \E n \in 2..Len(Reads[job[t]]) : n \in got[t]
  <1> DEFINE j == job[t]
  <1>1. /\ j \in Jobs /\ FetchedBy(t) /\ Len(Reads[j]) \in Nat /\ ReadCount(Service[j], Len(Reads[j]))
        /\ got[t] \subseteq 1..Len(Reads[j]) /\ read[t] \in Nat
      BY ReadFacts, JobAssumption DEF Fetched, TypeOK, ThreadTypeOK, At
  <1>2. /\ \A n \in 1..Len(Reads[j]) : n \notin got[t] => ~Fatal(j, n, "unknown")
        /\ ~NoComparison(j, got[t])
      BY <1>1 DEF FetchedBy
  <1>3. Service[j] \in Analyses => 1 \in got[t]
    <2>1. Service[j] \in Analyses => Fatal(j, 1, "unknown")
        BY DEF Analyses, Fatal, LinksFatal, ContentFatal, PlanFatal, ComparisonFatal
    <2> QED BY <1>1, <1>2, <2>1, ReadsNamed
  <1>4. Service[j] = "content" => 2 \in got[t]
    <2>1. Service[j] = "content" => Fatal(j, 2, "unknown")
        BY DEF Fatal, ContentFatal
    <2> QED BY <1>1, <1>2, <2>1, ReadsNamed
  <1>5. Service[j] = "competitor" => \E n \in 2..Len(Reads[j]) : n \in got[t]
    <2>1. Service[j] = "competitor" => \E n \in got[t] : n # 1
        BY <1>2 DEF NoComparison
    <2> QED BY <1>1, <2>1
  <1> QED BY <1>3, <1>4, <1>5

LEMMA SaveBasis ==
    ASSUME TypeOK, NEW t \in Threads, Save(t)
    PROVE  /\ why[t] = "none" =>
                 /\ reports' = reports \cup {job[t]}
                 /\ basis'[job[t]] = {Reads[job[t]][n] : n \in got[t]}
                 /\ \A j \in Jobs : j # job[t] => basis'[j] = basis[j]
           /\ why[t] # "none" => reports' = reports /\ basis' = basis
  BY DEF Save, SaveOutcome, TypeOK, RowTypeOK, ThreadTypeOK, At

LEMMA NextIsolation == IInv /\ [Next]_vars => TenantIsolation'
  <1> SUFFICES ASSUME IInv, [Next]_vars PROVE TenantIsolation'
      OBVIOUS
  <1>1. CASE \A t \in Threads : ~Save(t)
      BY <1>1, OnlySave DEF IInv, TenantIsolation
  <1>2. ASSUME NEW t \in Threads, Save(t) PROVE TenantIsolation'
    <2>1. FetchedBy(t) /\ reports \subseteq Jobs
        BY <1>2 DEF IInv, Fetched, Save, At, TypeOK, RowTypeOK
    <2>2. CASE why[t] = "none"
        BY <1>2, <2>1, <2>2, SaveBasis DEF IInv, TenantIsolation, FetchedBy
    <2>3. CASE why[t] # "none"
        BY <1>2, <2>3, SaveBasis DEF IInv, TenantIsolation
    <2> QED BY <2>2, <2>3
  <1> QED BY <1>1, <1>2

LEMMA NextBasis == IInv /\ [Next]_vars => BasisComplete'
  <1> SUFFICES ASSUME IInv, [Next]_vars PROVE BasisComplete'
      OBVIOUS
  <1>1. CASE \A t \in Threads : ~Save(t)
      BY <1>1, OnlySave DEF IInv, BasisComplete
  <1>2. ASSUME NEW t \in Threads, Save(t) PROVE BasisComplete'
    <2>1. FetchedBy(t) /\ reports \subseteq Jobs /\ At(t, "save")
        BY <1>2 DEF IInv, Fetched, Save, At, TypeOK, RowTypeOK
    <2>2. CASE why[t] = "none"
      <3>1. basis'[job[t]] \subseteq reports'
          BY <1>2, <2>1, <2>2, SaveBasis DEF IInv, FetchedBy
      <3>2. /\ Service[job[t]] \in Analyses => Reads[job[t]][1] \in basis'[job[t]]
            /\ Service[job[t]] = "content" => Reads[job[t]][2] \in basis'[job[t]]
            /\ Service[job[t]] = "competitor" =>
                  \E n \in 2..Len(Reads[job[t]]) : Reads[job[t]][n] \in basis'[job[t]]
        <4>1. basis'[job[t]] = {Reads[job[t]][n] : n \in got[t]}
            BY <1>2, <2>2, SaveBasis DEF IInv
        <4>2. /\ Service[job[t]] \in Analyses => 1 \in got[t]
              /\ Service[job[t]] = "content" => 2 \in got[t]
              /\ Service[job[t]] = "competitor" => \E n \in 2..Len(Reads[job[t]]) : n \in got[t]
            BY <2>1, <2>2, EnoughRead DEF IInv
        <4> QED BY <4>1, <4>2
      <3>3. ASSUME NEW j \in reports', j # job[t]
            PROVE  j \in reports /\ basis'[j] = basis[j] /\ reports \subseteq reports'
          BY <1>2, <2>1, <2>2, <3>3, SaveBasis DEF IInv
      <3> QED BY <3>1, <3>2, <3>3 DEF IInv, BasisComplete
    <2>3. CASE why[t] # "none"
        BY <1>2, <2>3, SaveBasis DEF IInv, BasisComplete
    <2> QED BY <2>2, <2>3
  <1> QED BY <1>1, <1>2

-----------------------------------------------------------------------------
(* One worker for each service.                                            *)

LEMMA HolderUnique ==
    ASSUME OneWorker, TypeOK, ApiAlone, NEW t \in Threads, NEW u \in Threads,
           ~At(t, "idle"), ~At(u, "idle"), job[t] = job[u]
    PROVE  t = u
  <1>1. CASE t \in Workers /\ u \in Workers
      BY <1>1 DEF OneWorker, TypeOK, ThreadTypeOK
  <1>2. CASE t \in ApiTasks /\ u \in ApiTasks
      BY <1>2 DEF ApiAlone
  <1>3. job[t] \in requested <=> t \in Workers
      BY DEF TypeOK, ThreadTypeOK
  <1>4. job[u] \in requested <=> u \in Workers
      BY DEF TypeOK, ThreadTypeOK
  <1> QED BY <1>1, <1>2, <1>3, <1>4 DEF Threads

(* Who can change what a thread holds: nobody but itself.                  *)
LEMMA RowsHeldStep ==
    ASSUME OneWorker, TypeOK, ApiAlone, RowsHeld, NEW t \in Threads, ~At(t, "idle"),
           HoldsRow(t)',
           \A u \in Threads : u # t => pc'[u] = pc[u] /\ job'[u] = job[u],
           \A j \in Jobs : j # job[t] => row'[j] = row[j]
    PROVE  RowsHeld'
  <1> SUFFICES ASSUME NEW u \in Threads, u # t PROVE HoldsRow(u)'
      BY DEF RowsHeld
  <1>1. CASE At(u, "idle")
      BY <1>1 DEF HoldsRow, At
  <1>2. CASE ~At(u, "idle")
    <2>1. job[u] \in Jobs /\ job[u] # job[t]
        BY <1>2, HolderUnique DEF TypeOK, ThreadTypeOK
    <2> QED BY <2>1 DEF RowsHeld, HoldsRow, At
  <1> QED BY <1>1, <1>2

LEMMA NextApiAlone == IInv /\ ApiAlone /\ [Next]_vars => ApiAlone'
  <1> SUFFICES ASSUME IInv, ApiAlone, [Next]_vars PROVE ApiAlone'
      OBVIOUS
  <1> USE DEF rows, bus, thr
  <1>1. ASSUME \A u \in ApiTasks : pc'[u] # "idle" => pc[u] # "idle" /\ job'[u] = job[u]
        PROVE  ApiAlone'
      BY <1>1 DEF ApiAlone, At
  <1>2. ASSUME NEW t \in Threads, DropSeen(t) \/ SkipKnown(t) \/ Save(t) \/ Crash(t) \/ Raise(t)
        PROVE  ApiAlone'
      BY <1>1, <1>2 DEF DropSeen, SkipKnown, Save, Crash, Raise, Return, IInv, TypeOK, ThreadTypeOK, Threads
  <1>3. ASSUME NEW t \in Threads,
               Accept(t) \/ CreateJob(t) \/ MarkRunning(t) \/ Compute(t, TRUE) \/ Compute(t, FALSE)
        PROVE  ApiAlone'
      BY <1>1, <1>3 DEF Accept, CreateJob, MarkRunning, Compute, Goto, Fail, At, IInv, TypeOK, ThreadTypeOK, Threads
  <1>4. ASSUME NEW t \in Threads, Fetch(t) \/ Unreachable(t) PROVE ApiAlone'
      BY <1>1, <1>4 DEF Fetch, Unreachable, Without, ReadOn, Fail, Reading, At, IInv, TypeOK, ThreadTypeOK, Threads
  <1>5. ASSUME NEW t \in Workers, NEW j \in Jobs, Receive(t, j) PROVE ApiAlone'
      BY <1>1, <1>5, JobAssumption DEF Receive, Start, IInv, TypeOK, ThreadTypeOK, Threads
  <1>6. ASSUME NEW t \in ApiTasks, NEW j \in Jobs, PostJob(t, j) PROVE ApiAlone'
    <2>1. \A u \in ApiTasks : u # t => pc'[u] = pc[u] /\ job'[u] = job[u]
        BY <1>6 DEF PostJob, Start, IInv, TypeOK, ThreadTypeOK, Threads
    <2>2. job'[t] = j /\ row[j] = "none"
        BY <1>6 DEF PostJob, Start, IInv, TypeOK, ThreadTypeOK, Threads
    <2>3. \A u \in ApiTasks : pc[u] # "idle" => job[u] # j
        BY <2>2 DEF IInv, Posted, At
    <2> QED BY <2>1, <2>2, <2>3 DEF ApiAlone, At
  <1>7. CASE UNCHANGED thr
      BY <1>7 DEF ApiAlone, At
  <1> QED BY <1>2, <1>3, <1>4, <1>5, <1>6, <1>7 DEF Next, ThreadStep, Request, Redeliver, vars

LEMMA NextRowsHeld ==
    ASSUME OneWorker PROVE IInv /\ SoloInv /\ [Next]_vars => RowsHeld'
  <1> SUFFICES ASSUME IInv, SoloInv, [Next]_vars PROVE RowsHeld'
      OBVIOUS
  <1> USE DEF rows, bus, thr
  <1>1. TypeOK /\ ApiAlone /\ RowsHeld /\ Posted
      BY DEF IInv, SoloInv
  <1>2. ASSUME NEW t \in Threads, DropSeen(t) \/ SkipKnown(t) \/ Crash(t) \/ Raise(t) PROVE RowsHeld'
      BY <1>1, <1>2 DEF DropSeen, SkipKnown, Crash, Raise, Return, RowsHeld, HoldsRow, At, TypeOK, ThreadTypeOK
  <1>3. ASSUME NEW t \in Threads, Save(t) PROVE RowsHeld'
    <2>1. HoldsRow(t)' /\ ~At(t, "idle")
        BY <1>1, <1>3 DEF Save, Return, HoldsRow, At, TypeOK, ThreadTypeOK
    <2>2. \A u \in Threads : u # t => pc'[u] = pc[u] /\ job'[u] = job[u]
        BY <1>1, <1>3 DEF Save, Return, TypeOK, ThreadTypeOK
    <2>3. \A j \in Jobs : j # job[t] => row'[j] = row[j]
        BY <1>1, <1>3 DEF Save, SaveOutcome, TypeOK, RowTypeOK
    <2> QED BY <1>1, <2>1, <2>2, <2>3, RowsHeldStep
  <1>4. ASSUME NEW t \in Threads, Accept(t) PROVE RowsHeld'
      BY <1>1, <1>4 DEF Accept, Goto, Known, RowsHeld, HoldsRow, At, TypeOK, RowTypeOK, ThreadTypeOK, Terminal
  <1>5. ASSUME NEW t \in Threads, CreateJob(t) \/ MarkRunning(t) PROVE RowsHeld'
    <2>1. /\ ~At(t, "idle") /\ job' = job /\ job[t] \in Jobs
          /\ \A u \in Threads : u # t => pc'[u] = pc[u] /\ job'[u] = job[u]
          /\ \A j \in Jobs : j # job[t] => row'[j] = row[j]
        BY <1>1, <1>5 DEF CreateJob, MarkRunning, Goto, At, TypeOK, RowTypeOK, ThreadTypeOK
    <2>2. HoldsRow(t)'
        BY <1>1, <1>5, <2>1 DEF CreateJob, MarkRunning, Goto, RowsHeld, HoldsRow, At, TypeOK, RowTypeOK, ThreadTypeOK
    <2> QED BY <1>1, <2>1, <2>2, RowsHeldStep
  <1>6. ASSUME NEW t \in Threads, Fetch(t) \/ Unreachable(t) PROVE RowsHeld'
      BY <1>1, <1>6 DEF Fetch, Unreachable, Without, ReadOn, Fail, Reading, RowsHeld, HoldsRow, At, TypeOK, ThreadTypeOK
  <1>7. ASSUME NEW t \in Threads, Compute(t, TRUE) \/ Compute(t, FALSE) PROVE RowsHeld'
      BY <1>1, <1>7 DEF Compute, Goto, Fail, RowsHeld, HoldsRow, At, TypeOK, ThreadTypeOK
  <1>8. ASSUME NEW t \in Workers, NEW j \in Jobs, Receive(t, j) PROVE RowsHeld'
      BY <1>1, <1>8 DEF Receive, Start, RowsHeld, HoldsRow, At, TypeOK, ThreadTypeOK, Threads
  <1>9. ASSUME NEW t \in ApiTasks, NEW j \in Jobs, PostJob(t, j) PROVE RowsHeld'
    <2>1. pc'[t] = "mark" /\ job'[t] = j /\ row'[j] = "queued"
        BY <1>1, <1>9 DEF PostJob, Start, TypeOK, RowTypeOK, ThreadTypeOK, Threads
    <2>2. ASSUME NEW u \in Threads, u # t PROVE HoldsRow(u)'
      <3>1. pc'[u] = pc[u] /\ job'[u] = job[u]
          BY <1>1, <1>9, <2>2 DEF PostJob, Start, TypeOK, ThreadTypeOK, Threads
      <3>2. pc[u] # "idle" => job[u] \in Jobs /\ job[u] # j
          BY <1>1, <1>9 DEF PostJob, Posted, At, TypeOK, ThreadTypeOK, Threads
      <3>3. \A k \in Jobs : k # j => row'[k] = row[k]
          BY <1>1, <1>9 DEF PostJob, TypeOK, RowTypeOK
      <3> QED BY <1>1, <3>1, <3>2, <3>3 DEF RowsHeld, HoldsRow, At
    <2>3. HoldsRow(t)'
        BY <2>1 DEF HoldsRow, At
    <2> QED BY <2>2, <2>3 DEF RowsHeld
  <1>10. CASE UNCHANGED <<row, thr>>
      BY <1>1, <1>10 DEF RowsHeld, HoldsRow, At
  <1> QED BY <1>2, <1>3, <1>4, <1>5, <1>6, <1>7, <1>8, <1>9, <1>10
          DEF Next, ThreadStep, Request, Redeliver, vars

LEMMA NextReport == IInv /\ SoloInv /\ [Next]_vars => ReportIffCompleted' /\ CompletedKept
  <1> SUFFICES ASSUME IInv, SoloInv, [Next]_vars PROVE ReportIffCompleted' /\ CompletedKept
      OBVIOUS
  <1>1. TypeOK /\ RowsHeld /\ ReportIffCompleted
      BY DEF IInv, SoloInv
  <1>2. CASE \A t \in Threads : ~Save(t)
    <2>1. \A j \in Jobs : row'[j] # row[j] => row[j] # "completed" /\ row'[j] # "completed"
        BY <1>1, <1>2, OnlySave DEF RowsHeld, HoldsRow
    <2> QED BY <1>1, <1>2, <2>1, OnlySave DEF ReportIffCompleted, CompletedKept
  <1>3. ASSUME NEW t \in Threads, Save(t) PROVE ReportIffCompleted' /\ CompletedKept
    <2>1. job[t] \in Jobs /\ row[job[t]] = "running"
        BY <1>1, <1>3 DEF Save, RowsHeld, HoldsRow, At, TypeOK, ThreadTypeOK
    <2>2. \A j \in Jobs : j # job[t] =>
              /\ row'[j] = row[j] /\ outcomes'[j] = outcomes[j] /\ basis'[j] = basis[j]
              /\ j \in reports' <=> j \in reports
        BY <1>1, <1>3, <2>1 DEF Save, SaveOutcome, TypeOK, RowTypeOK
    <2>3. job[t] \in reports' <=> row'[job[t]] = "completed"
        BY <1>1, <1>3, <2>1 DEF Save, SaveOutcome, TypeOK, RowTypeOK, ReportIffCompleted
    <2> QED BY <1>1, <2>1, <2>2, <2>3 DEF ReportIffCompleted, CompletedKept
  <1> QED BY <1>2, <1>3

-----------------------------------------------------------------------------
(* Who a running row belongs to.                                           *)

Runs(t, j) == job[t] = j /\ pc[t] \in {"work", "save"}

(* A runner stays one until it saves, unless a fault counts.               *)
LEMMA RunnerStays ==
    ASSUME TypeOK, [Next]_vars, faults' = 0, NEW t \in Threads, NEW j \in Jobs, Runs(t, j), ~Save(t)
    PROVE  Runs(t, j)'
  <1> USE DEF rows, bus, thr
  <1>1. /\ pc[t] \in {"work", "save"} /\ job[t] = j /\ faults \in Nat
        /\ pc \in [Threads -> {"idle", "handle", "create", "mark", "work", "save"}]
        /\ job \in [Threads -> Jobs \cup {NoJob}]
      BY JobBoundAssumption DEF Runs, TypeOK, ThreadTypeOK, BusTypeOK
  <1>2. ASSUME NEW u \in Threads, DropSeen(u) \/ SkipKnown(u) \/ Accept(u) \/ CreateJob(u) \/ MarkRunning(u)
        PROVE  Runs(t, j)'
      BY <1>1, <1>2 DEF DropSeen, SkipKnown, Accept, CreateJob, MarkRunning, Goto, Return, At, Runs
  <1>3. ASSUME NEW u \in Threads, Fetch(u) PROVE Runs(t, j)'
      BY <1>1, <1>3 DEF Fetch, Without, ReadOn, Fail, Reading, At, Runs
  <1>4. ASSUME NEW u \in Threads, Compute(u, TRUE) \/ Compute(u, FALSE) PROVE Runs(t, j)'
      BY <1>1, <1>4 DEF Compute, Goto, Fail, At, Runs
  <1>5. ASSUME NEW u \in Threads, Save(u) PROVE Runs(t, j)'
      BY <1>1, <1>5 DEF Save, Return, Runs
  <1>6. ASSUME NEW u \in Threads, Unreachable(u) \/ Crash(u) \/ Raise(u) PROVE FALSE
      BY <1>1, <1>6 DEF Unreachable, Crash, Raise
  <1>7. ASSUME NEW u \in Threads, NEW k \in Jobs, Receive(u, k) \/ PostJob(u, k) PROVE Runs(t, j)'
      BY <1>1, <1>7 DEF Receive, PostJob, Start, At, Runs
  <1>8. CASE UNCHANGED thr
      BY <1>1, <1>8 DEF Runs
  <1> QED BY <1>2, <1>3, <1>4, <1>5, <1>6, <1>7, <1>8
          DEF Next, ThreadStep, Request, Redeliver, vars, Threads

LEMMA NextRunner == TypeOK /\ RunningHasRunner /\ [Next]_vars => RunningHasRunner'
  <1> SUFFICES ASSUME TypeOK, RunningHasRunner, [Next]_vars, faults' = 0,
                      NEW j \in Jobs, row'[j] = "running"
               PROVE  \E t \in Threads : Runs(t, j)'
      BY DEF RunningHasRunner, Runs
  <1> USE DEF rows, bus, thr
  <1>1. faults = 0
    <2>1. faults \in Nat
        BY JobBoundAssumption DEF TypeOK, BusTypeOK
    <2> QED BY <2>1 DEF Next, ThreadStep, DropSeen, SkipKnown, Accept, CreateJob, MarkRunning, Fetch,
                        Compute, Save, Unreachable, Crash, Raise, Receive, PostJob, Request, Redeliver, vars
  <1>2. ASSUME NEW u \in Threads, MarkRunning(u), job[u] = j PROVE \E t \in Threads : Runs(t, j)'
    <2>1. Runs(u, j)'
        BY <1>2 DEF MarkRunning, Runs, TypeOK, ThreadTypeOK
    <2> QED BY <2>1
  <1>3. CASE row[j] = "running"
    <2>1. PICK t \in Threads : Runs(t, j)
        BY <1>1, <1>3 DEF RunningHasRunner, Runs
    <2>2. ~Save(t)
        BY <2>1 DEF Runs, Save, SaveOutcome, TypeOK, RowTypeOK
    <2> QED BY <2>1, <2>2, RunnerStays
  <1>4. CASE row[j] # "running"
    <2>1. ASSUME NEW u \in Threads, Save(u) PROVE FALSE
        BY <1>4, <2>1 DEF Save, SaveOutcome, TypeOK, RowTypeOK
    <2>2. ASSUME NEW u \in Threads, CreateJob(u) PROVE FALSE
        BY <1>4, <2>2 DEF CreateJob, TypeOK, RowTypeOK
    <2>3. ASSUME NEW u \in Threads, NEW k \in Jobs, PostJob(u, k) PROVE FALSE
        BY <1>4, <2>3 DEF PostJob, TypeOK, RowTypeOK
    <2>4. PICK u \in Threads : MarkRunning(u)
        BY <1>4, <2>1, <2>2, <2>3
           DEF Next, ThreadStep, DropSeen, SkipKnown, Accept, Fetch, Compute, Unreachable, Crash,
               Raise, Receive, Request, Redeliver, vars, Threads
    <2>5. job[u] = j
        BY <1>4, <2>4 DEF MarkRunning, TypeOK, RowTypeOK
    <2> QED BY <1>2, <2>4, <2>5
  <1> QED BY <1>3, <1>4

-----------------------------------------------------------------------------
(* The theorems.                                                           *)

LEMMA InitIInv == Init => IInv
  <1> SUFFICES ASSUME Init PROVE IInv
      OBVIOUS
  <1>1. TypeOK
      BY InitTypeOK
  <1>2. Posted /\ Fetched
      BY DEF Init, Posted, Fetched, At, Threads
  <1>3. OutcomeAnnounced /\ TenantIsolation /\ BasisComplete
      BY DEF Init, OutcomeAnnounced, TenantIsolation, BasisComplete, Terminal
  <1> QED BY <1>1, <1>2, <1>3 DEF IInv

LEMMA NextIInv == IInv /\ [Next]_vars => IInv'
  BY NextTypeOK, NextPosted, NextFetched, NextOutcome, NextIsolation, NextBasis DEF IInv

(* The invariant of the job services holds, whoever else runs.             *)
THEOREM Invariance == Spec => []IInv
  BY InitIInv, NextIInv, PTL DEF Spec

(* Types, and what a thread can hold: see TypeOK.                          *)
THEOREM TypeCorrect == Spec => []TypeOK
  BY Invariance, PTL DEF IInv

(* A finished row and the last event staged for it agree, with any number  *)
(* of workers racing on the same job (shared.db._write); only a payload    *)
(* the contract refused leaves an end unannounced (crawl.api._publishable).*)
THEOREM OutcomeAlwaysAnnounced == Spec => []OutcomeAnnounced
  BY Invariance, PTL DEF IInv

(* No report of a tenant rests on another tenant's (shared.upstream).      *)
THEOREM TenantsIsolated == Spec => []TenantIsolation
  BY Invariance, PTL DEF IInv

(* Every stored report rests on finished reports, and on enough of them    *)
(* (the run_... functions and shared.upstream.fetch_report).               *)
THEOREM BasisAlwaysComplete == Spec => []BasisComplete
  BY Invariance, PTL DEF IInv

(* Without a fault no row is left saying running: a thread is still at     *)
(* work on it or about to save its outcome (run_crawl and its siblings     *)
(* write an outcome on every path out of their try block).                 *)
THEOREM RunningRowsHaveRunners == Spec => []RunningHasRunner
  <1>1. Init => RunningHasRunner
      BY DEF Init, RunningHasRunner
  <1> QED BY <1>1, NextRunner, TypeCorrect, PTL DEF Spec

LEMMA Solo == ASSUME OneWorker PROVE Spec => [](IInv /\ SoloInv)
  <1>1. Init => SoloInv
      BY DEF Init, SoloInv, ApiAlone, RowsHeld, HoldsRow, ReportIffCompleted, At, Threads
  <1>2. IInv /\ SoloInv /\ [Next]_vars => SoloInv'
      BY NextApiAlone, NextRowsHeld, NextReport DEF SoloInv
  <1> QED BY <1>1, <1>2, InitIInv, NextIInv, PTL DEF Spec

(* With one worker process for each service a row has a report exactly     *)
(* while it is completed (worker.handle, PostgresJobStore.complete).       *)
THEOREM ReportsOfCompleted == ASSUME OneWorker PROVE Spec => []ReportIffCompleted
  BY Solo, PTL DEF SoloInv

(* With one worker process for each service a completed job is never run   *)
(* again, however often its request is delivered (worker.handle).          *)
THEOREM CompletedIsFinal == ASSUME OneWorker PROVE Spec => CompletedStays
  <1>1. IInv /\ SoloInv /\ [Next]_vars => [CompletedKept]_vars
      BY NextReport
  <1> QED BY <1>1, Solo, PTL DEF Spec, CompletedStays

=============================================================================
