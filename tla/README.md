# A verification project for the SEO platform

The repository is a platform of small Python services that audit web sites. A workflow engine
(`agents/orchestrator`) plans an audit and asks one service after another for its part; services
(`services/*`) run jobs and answer with completion events; everything between them travels
through a transactional outbox, a relay and RabbitMQ (`shared/`). Each process is sequential and
easy to test. What is hard is what happens between processes: an event that arrives twice, late
or not at all, a process that dies between two transactions, a value that was read in one
transaction and used in another. The modules here model that part, TLC checks them on small
instances, and TLAPS proves the main results for instances of any size.

## 1. Inventory

| Part | State | Operations | Interacts with | Hard behaviours |
|---|---|---|---|---|
| orchestrator (`engine.py`, `worker.py`, `store.py`, `planner.py`, `api.py`) | `workflows`, `workflow_steps`, the report; `_seen` in memory | plan, create, start, mark a step, advance (dispatch, skip, finish), summarise | job services by events, outbox | two handlers on one workflow, duplicates, a crash between `mark_step` and `advance`, optional steps, a contract refused at the end |
| job services (crawl, keyword, serp, internal_links, content, optimizer, competitor) | one row per job; `_seen` | request over bus or HTTP, create, mark running, fetch upstream reports, compute, save | each other over HTTP (`shared/upstream.py`), outbox | check-then-act on the row, a worker that dies at work, reports that are not ready, tenants |
| job store (`shared/db.py`) | job tables, `outbox` | create, get, `mark_running`, `complete`, `fail`, `_stage` | every service | the outcome and its event in one commit |
| relay and bus (`shared/relay.py`, `shared/events/bus.py`) | `outbox`, exchanges, queues, dead letters | claim, publish, mark, prune; declare, deliver, ack, nack | Postgres, RabbitMQ | publish and mark are not atomic, two relays, lost confirms and connections |
| notifications | channels, `notification_deliveries` | create and delete channels, claim a pair, send, finish, release | bus, webhooks, SMTP | two workers on one event, deletion while sending, answers that come too late |
| schedules and scheduler (`schedules.py`, `scheduler.py`) | `schedules` | `next_run`, `catch_up`, `create`, `delete`, `set_active`, `fire_due` | outbox | clock changes, month ends, two schedulers, downtime, a row that is refused |
| trends (`trends.py`) | none | compare two reports of a site | engine reports | metrics that mean better when lower, categories that come and go, crawls of different size |
| file job store (`shared/store.py`) | one file per job, a cache per process | create, get, update, recent | API and worker of one service | caches that are never refreshed, files that cannot be written |
| reporting | documents; `_seen` | ask, search, render, announce | bus, orchestrator API, both job stores | check-then-act, two ways to ask, a crash at any point of the rendering |
| engine (`services/engine/seoagent`): crawler | robots.txt, sitemaps, frontier, pages | load robots, read sitemaps, fetch in batches, follow links, check external links | HTTP | batches of threads, cycles, limits, requests that fail |
| engine: rules and report | none | check the pages, score the categories, weigh them | crawler | rules that look at the same page from different sides, categories not in play |
| engine: local dashboard (`web/jobs.py`) | registry, one file per finished job | create, run, persist, evict, load | threads, disk | eviction while a job works, a crash between file and rename, files that cannot be removed or read |
| internal links analysis | none | build the graph, count inlinks and depths, orphans, dead ends, overlooked pages (the last two and depths not modelled) | crawl reports | a second spelling of an address, links of a page to itself |
| contracts, llm, netguard, text | none | validation, HTTP, strings | | |
| api-gateway, web-dashboard | users and tokens | proxy, pages | orchestrator and services | |
| infra, deploy | | migrations, compose | | restart policies |

What makes each part correct:

* orchestrator: one step in flight; each job requested once; the end decided once, for a reason,
  announced once and reported truthfully; every audit ends.
* job services: a finished row is announced unless the contract refuses its event; a report rests on finished reports of the
  same tenant; a completed job is final; no row says running without someone at work.
* relay and bus: nothing staged is lost; a duplicate is always the price of a failure; relays do
  not work on the same rows; a message is in one place.
* schedules: the next run is the first time the cadence means; a time that is meant causes one run
  at most, however late and by however many schedulers; what is due fires.
* reporting and the file store: a finished workflow gets one document of its own accord; what was
  announced can be read.
* engine: a crawl finds every page within its limits once, at its distance; a site on which nothing
  new is wrong is not called worse; engine and link service agree on who is an orphan; the
  dashboard's files are those of the jobs it lists, as far as the file system allows.
* notifications: no pair is sent by two workers; a channel that confirmed is not told again; a
  row says what happened; only channels of the tenant that asked are told.

`PROJECT.json` lists the components, the hazards at their lines, and the map from definitions to
source lines.

## 2. Plan

| # | Modules | Status |
|---|---|---|
| 1 | `Orchestrator`, `MCOrchestrator`, `OrchestratorProofs` | done |
| 2 | `JobService`, `MCJobService`, `JobServiceProofs` | done |
| 3 | `Outbox`, `AtLeastOnce` (what it promises), `MCOutbox`, `OutboxProofs` | done |
| 4 | `Notifications`, `MCNotifications`, `NotificationsProofs` | done |
| 5 | `Calendar`, `Scheduler`, `Reporting`, `Automation` (their composition), `MCAutomation`, `SchedulerProofs`, `ReportingProofs` | done |
| 6 | `Robots`, `Rules`, `Score`, `Crawler`, `Dashboard`, `LinkGraph`, `Trends`, `Engine` (their composition), `MCEngine`, `EngineProofs` | done |
| | `FoldInduction`, the induction that the proofs about loops use | done |
| 7 | `Audit`, an abstract specification of a workflow (asked, at work, ended once) that `Orchestrator` implements | done |
| 8 | A composition of `Orchestrator` with the life cycle of `JobService` in place of its environment | not done |
| 9 | The remaining pure parts: the gap analyses, keyword deduplication and scores | not done |

Conventions: a database transaction or a network call is one action; every handler is a sequence
of such actions, so that a crash or another process can come between any two; faults, duplicates
and reruns are actions of their own, capped by a constant in their guard (`MaxFaults`,
`MaxBlips`, `MaxExtras`). Definitions marked "Mutant" in a comment are plausible mistakes; they
are used by no specification, and each shows that some property would notice the mistake.

## 3. The modules

### Orchestrator

One record per workflow: `wf` (the `status` column), `step` and `result` (the rows of
`workflow_steps`), `report`, `summary`. `requests` and `announced` count the events staged for a
step and for the end. `inst` holds the handler threads with their program counters; `seen` is
`worker._seen`; `staged`, `queue` and `dead` are the bus as this service sees it.

* `planner.plan` is `Plan`, `Kind` and `PlanLength`. Inputs are abstracted to what the engine tells
  apart: how many competitors survive the planner's checks, whether it accepts the request at all,
  and which kinds' requests raise while they are built.
* `PostWorkflow`, `StartExisting`, `StartPlanned`, `StartUnplannable`, `Create`, `CreateConflict`
  and `SetRunning` are the request, over HTTP or over the bus (`worker._start`, `engine.start`).
* `MarkStep`, `IgnoreCompletion` and `Advance` are `engine.on_completion` with its two
  transactions. `AdvanceTx` is `engine.advance` under the row lock: `Fatal`, `InFlight`,
  `NextPending` are its early returns, `TryStep` and `SkipThenTry` its attempt and the second one
  after a skip, `Dispatch` and `Finish` its writes.
* `AskModel`, `KeepRules`, `SaveSummary` are `worker._summarise`.
* `Crash`, `Raise`, `Redeliver`, `StrayFinishes` and a second `ServiceFinishes` are what goes
  wrong. The services themselves are an environment that may answer a requested job either way.

### Audit

What those who ask for an audit are promised, without handlers, messages or transactions: `Ask`
sends one job out at a time and in the order of the plan, `Say` is a service that reports an
outcome, any number of times, `Take` is the audit that accepts one of them for the job that is out,
`Complete`, `FailOfStep` and `FailOfRequest` are its only ends, and each names its reason.
`Orchestrator` implements it (`FollowsAudit`) with this mapping: an outcome is the status of a step's
row once it is settled, `job` is the row that says `dispatched`, `said` are the completion events
services have staged, the report and the counters are the orchestrator's own. One `AdvanceTx` may
skip a step and ask for the next one, or end the audit; it is one step of `Audit` in each case.
Marking a step is `Take`, and what a handler does besides is a stutter.

### JobService

The seven services share one life cycle, so there is one module with the service as a parameter
of the job. `row`, `error`, `reports`, `basis` (which reports a report was computed from, a
history variable) and `outcomes` (the events staged, in order) are the database; a thread has
`pc`, `job`, `read`, `got`, `why`.

`Receive`, `DropSeen`, `SkipKnown`, `Accept`, `CreateJob` are `worker.handle`; `PostJob` is the
HTTP route; `MarkRunning`, `Fetch`, `Unreachable`, `Compute`, `Save` are the `run_...` function.
What the services do differently is in `ReadCount` (how many reports a request names) and `Fatal`
(which missing report ends the run). `SaveOutcome` is the one transaction that writes the row and
stages the event. Every service first asks the event's contract (`_publishable`) and, when it
refuses, writes the row without the event: `outcomes` then has "refused" in place of the status.
`Misfits` are the jobs whose payload the contract may refuse; which payloads those are is data,
so `Save` chooses.

### Outbox and AtLeastOnce

`row` is the outbox row of an event, `claimed` and `sent` the rows a relay has locked and
published in its open transaction, `connected` its database connection. At the broker, `ready`
holds messages by queue, `unacked` by consumer, `dlq` the dead letters together with the queue
they came from. Each publication is a copy with a number of its own (`copies`), so that duplicates
are visible.

`ClaimBatch`, `Publish`, `Commit` are one `drain`; `PublishRetried` and `PassFails` are the two
ways `Publisher.publish` can meet an error; `Prune` is `prune`; `RelayCrash` and `Blip` are the
loop around them. `Declare`, `Deliver`, `Handle`, `Reject` are `Consumer`; `ConsumerCrash` is a
consumer that dies, `AckLost` one that dies between the end of its handler and the ack.

`AtLeastOnce` states the promise: an event that is staged is owed to the queues that exist and are
bound to its type, no debt is taken back, and each is settled by a handler that returned or by
the queue's dead letters. `Outbox` implements it with `settled <- Settled`.

### Notifications

`channel` and `row` are the two tables; `confirmed` and `unsure` count the copies a channel took,
with and without an answer that arrived; `released` remembers pairs that were given back. A
worker's `todo`, `cur` and `out` are the loop of `worker.handle`. `Results` and `Retryable` are
`channels.py` and `deliver.retryable`, by the classes of answers the code tells apart. A mail
server that fails after it took the message is a lost answer, as a webhook's timeout is.

`unfit` are the addresses and events of which no email can be built: `create_channel` asks an
address only for an "@", and the title of a report ends in the URL as it was typed, so either may
hold a line break, which a header refuses. The message is built before `send_email`'s `try`:
`SendRaises` leaves the row as it is, ends the handler and dead-letters the event. `FaultFree` and
`EveryChannelTried` name this case (`Stuck`, `Parked`), and it is among the differences of section 4.

### Calendar and Scheduler

Time is UTC in ticks, a zone is the offset of its clocks at each tick (`Offset`), and the lengths
of hours, days, weeks and months are parameters. `Wall`, `Fold` and `Instant` are what Python's
`datetime` and `zoneinfo` do, a time the clocks show twice or not at all included. `next_run` and
`monthly` follow `schedules.py` line by line, also in what keeps the fold (`replace`) and what
forgets it (`+=`). `Slots` is the reference: all the times a cadence means. The first day of each
month is a recursive function of the lengths of the months before it.

`ClockAssumption` says which zones are meant. A full hour that the clocks have passed stays passed:
they may go back to it and never behind it. What they leave out begins with a full hour or holds
none. And after a time they show twice, every full hour to the end of the next month is shown once.
A zone that goes back one hour on the full hour, once or twice a year, meets it, and so does one that
goes back half an hour (Lord Howe); one that goes back and forth within two months (Morocco, around
Ramadan) does not, and is outside what is claimed here.

`rows` is the table, `txn` the open transaction of each scheduler: `Claim` is the `SELECT ... FOR
UPDATE SKIP LOCKED`, `Commit` the loop over the rows, the staged requests and the commit, `Abort`
a tick that raises or a process that dies. `Create`, `Delete` and `SetActive` are the API's
writes. `staged` holds `<<schedule, run>>`, which stands for the fresh workflow id.

### Reporting and Automation

`disk` and `order` are the stored documents, in Postgres or in files (`backend`); `memory` is
`FileJobStore._memory` of each process, which `get` prefers to the file however old it is. Workers
and the API's background task are sequences of steps (`pc`): `Receive`, `Search`, `Look`, `Make`
are `handle`, `_on_workflow`, `_on_request` and `_render`; `Start`, `Fetch`, `Save`, `Emit` are
`run_report`; `Ask` and `Peek` are POST and GET. A document is `whole` when the workflow was
finished when it was rendered. `Redeliver` repeats either event: `asked` are the requests there
are, and one that names its report makes the two deliveries work on the same record. `Save` stages
the announcement, leaves it to `Emit`, or, when the contract refuses it, makes none. `raced`,
`stale`, `rerun`, `spoiled` and `lost` remember the cases the properties except; each is among the
differences of section 4. `rerun` are the reports whose record says running or completed when
`Make` or `Start` replaces it (`Begun`); `LinkWorks` excepts them, and asks that no report with an
id of its own is ever one of them.

`Automation` joins the two: a workflow is requested by a schedule that fired or by a person, ends,
and is announced. What lies between, outbox, bus and engine, is what `Outbox` and `Orchestrator`
are about.

### Robots, Rules, Score, Crawler

A page is a record of the facts the parser extracts, a site a record of what its server answers.
`Robots` reads robots.txt the three ways the engine does. `Crawler` is one crawl: `LoadRobots`,
`ReadSitemap`, `Seed`, `StartBatch`, `FetchOne` (the threads of a batch, in any order), `Absorb`
(the loop over the batch's results), `Finish` (the checks of external links and well-known files).
The loops of the code are folds of one named step each: `Sow` over the sitemaps' entries, `Follow`
over a page's links, `Outward` and `OutwardOf` over the links to other sites, `AddEdge` and
`AddEdges` over those of the report. `WellFormed` is what
fetching and parsing make of any site: a page has the address that was asked for, and its internal
links lead to the same site.
`Rules` has one operator for every check of the rules' modules, `Score` is `report.py`.
Thresholds keep the code's values where a page's numbers are compared with them; numbers that only
bound a list in a message (the first 20 pages of an issue) are left out, and so is the cut of the
stored edges at 50 000.

### Dashboard, LinkGraph, Trends, Engine

`Dashboard` is `web/jobs.py`: the registry (`order`, `status`), the threads, the temporary file and
its rename, eviction of the oldest job with its file, and restart. Each call on a file may fail:
writing and renaming (`unwritten`), removing the file of an evicted job, which `_forget` lets pass,
and reading a file at the start, which `_load_from_disk` passes over (`fileErrors` counts both). A
file that stayed is one of the leftovers at the next start, of which the youngest `max_jobs` are
listed. `DiskMatchesRegistry` therefore bounds the files without a job by the failures there were.
`LinkGraph` is `internal_links/analyze.py` as far as its orphans,
`Trends` is `trends.compare` without its sentence. `Engine` runs audits and keyword jobs on the dashboard, lets the
owner repair one defect between two audits (`Fix`), and hands the reports to the other two. One
audit works at a time in the model; the crawls of two audits share nothing in the code.

## 4. The runs

Passing runs:

| Run | Instance | Why it is enough |
|---|---|---|
| `orchestrator` | one workflow, two handlers, at most one competitor, `SeenMax` 1, one extra, one fault | workflows share no state but the handlers; every interleaving hazard needs two handlers, one duplicate or one crash; `SeenMax` 1 makes the memory forget |
| `orchestrator_live` | the same without faults, `FairSpec` | that every audit ends, and that the engine follows `Audit`: skips, refusals, failures and a duplicate occur. Crashes are left to the theorem `ImplementsAudit`, which has them |
| `job_service` | crawls `site` and `rival1` of a tenant, `foreign` of another, a comparison `duel` of `site` with the other two; a crawl worker, a competitor worker, an API task of the crawl service, one duplicate, one fault, two jobs whose event may be refused | the comparison is the analysis with the most branches, and needs two tenants and two competitors |
| `job_service_live` | crawl, keyword study, content analysis and plan without faults | jobs that depend on one another, requested in any order. A job ends when its row does; that someone is told is `OutcomeAnnounced`'s business |
| `outbox` | two events whose ids and commits come in any order, two queues with a consumer each, two relays, batch 2, one failure of any kind, `FairSpec` | two relays for disjointness and so that one may lose its database connection, batch 2 so that a pass can fail after its first row; the refinement with its liveness |
| `notifications` | a webhook and a mail channel of one tenant, a channel of another that stays, one event, two workers, one duplicate or one fault, addresses and titles with and without a line break, `FairSpec` | two workers for the claim, a redelivery for the release, one channel's failure beside another's success, a mail that cannot be built before and after the webhook |
| `engine` | six pages, a foreign one and an asset; each of some sixty defects alone and the pairs that interact; two audits and a repair between them; 5 pages, depth 2, batches of 2. On the flaky sites a request fails, on the busy ones a keyword job interleaves, the process dies once, one file is unwritable, and two cannot be removed or read | every rule has a site that breaks it and one that does not; the limits are smaller than the site; faults are kept to the sites they change something for |
| `automation` | a day of three hours of two ticks, a week of three days, months of 2, 1, 2 and 3 days, 18 ticks with an hour left out and an hour shown twice; daily, weekly and monthly plans in those hours and at midnight, one with refused inputs; two schedulers, batch 1, two of: pause, resume, create, delete, failure. Documents of a nightly run and of a workflow started by hand: two workers and the API, both stores, a request on the bus with and without an id, two of: POST, GET, redelivery of either event, error, crash, unwritable file; any announcement may be refused | each kind of day meets each change of the clocks; a transaction may stay open over a tick; the search looks at 2 documents and there may be 3; the memory of events forgets after 1 |

The `ACTION_CONSTRAINT`s (`OneFailure`, `OneMishap`, `Quiet`) keep failures from multiplying, and
the schedules over the whole calendar from multiplying with the documents. They restrict only what
users and failures do, never a step that fairness speaks of. `MaxEdits`, `MaxAborts`, `MaxCalls`,
`MaxCrashes` and `MaxWriteErrors` are bounds of the same sort as `MaxFaults`.

Symmetry is used for the handlers of the orchestrator in the run without liveness. Deadlock is
checked in `engine` and `automation`, whose only resting states are those of `Quiescent`. In the
other runs it is not: when every bound is used up and every message is handled, these systems rest.

Runs that find a disagreement between the code and what the repository says of it (each quoted in
`PROJECT.json`):

| Run | Instance | What it shows |
|---|---|---|
| `orchestrator_rivals` | audits with no, one and two competitors | an audit with competitors is never announced: its step kinds are missing from the contract of `workflow.completed` |
| `orchestrator_crash` | one handler, one crash, `FairSpec` | a crash between `mark_step` and `advance` stops the audit for good |
| `job_service_crash` | one job, one worker, one crash, `FairSpec` | a worker that dies at work leaves a running row, which makes its redelivered request look handled |
| `notifications_retry` | one channel, one event, one worker, `FairSpec` | a pair given back for a redelivery is never redelivered |

Other places where the code does less than its comments say. The models follow the code in each
case; no run is kept for them:

* `services/crawl/worker.py:51` (and its siblings): the duplicate check and `mark_running` are two
  transactions. With two workers of one service a duplicate can run a job again and reopen a
  completed row. `ReportIffCompleted` and `CompletedStays` are therefore checked and proved with
  one worker for each service only.
* `services/crawl/api.py:203` (and its siblings in all seven services, and `services/reporting/api.py:195`):
  an event its contract refuses is logged and left out, and the row is finished all the same.
  `shared/db.py:6` says of row and event that "either both happened or neither did"; here only the row does,
  and an audit that waits for the job waits for ever. `OutcomeAnnounced` names this as the only such case.
* `services/internal_links/api.py:147` (and its siblings): `shared/upstream.py:10` calls a report
  that is not finished "the case a redelivery genuinely fixes"; the run saves the job as failed
  and acks, so nothing redelivers it.
* `services/competitor/api.py:176` catches `UnknownRecord` only: a competitor's crawl that failed
  or is not ready ends a comparison that has other competitors' reports.
* `shared/events/bus.py:220`: every dead-letter queue is bound to the shared exchange with `#`, so
  each gets every service's rejects (`Reject`).
* `shared/events/bus.py:153`: the publisher declares the exchanges only and publishes without
  `mandatory`: an event published before its consumer first declared its queue is confirmed and
  marked published, and gone. `owed` therefore names the queues that exist when an event is staged.
* `shared/relay.py:99`: the database connection is opened once, outside the loop. After it is lost
  every pass raises and is logged, and the process does not exit, so nothing restarts it (`Blip`).
  `ImplementsDelivery` holds because a second relay keeps its connection; with one it is false.
* `services/notifications/deliver.py:108`: a blocked target and a missing mail server have no
  status, count as retryable, and lose the row that would say why nobody was told.
* `services/notifications/channels.py:86`: `worker.py:15` lists sending and then recording the outcome,
  but an email is built outside the `try`, and `api.py:106` lets an address with a line break in. Building
  it raises out of `handle`: the event is dead-lettered, the row says sending with nobody at it, and the
  channels after it are not tried.
* `services/notifications/worker.py:58`: a receiver that took the message and answered too late is
  sent it again on a redelivery; `ConfirmedOnce` counts the copies whose answer arrived.

* `agents/orchestrator/schedules.py:40`, "the shortest gap between two runs is a day": `MIN_INTERVAL` is not used: a
  schedule that fires late is due again at its next regular time, however soon that is.
  `RunPerSlot` asks for a meant time between two runs, not for a distance.
* `agents/orchestrator/schedules.py:105`, "Always strictly after": the weekly branch forgets the fold
  (`+=` on a local time), so in a zone whose clocks go back at another time than the full hour a
  run asked for in the second passing could be given the first. The calendar here changes on the
  full hour, as the zones in use do.
* `services/reporting/worker.py:5`, "a finished audit gets a document whether or not a person thought
  to press a button": a document asked for before the audit ended, one that failed, and one whose
  process died while it rendered are all found by the search, and no other is made
  (`spoiled` in `FinishedHasDocument`).
* `services/reporting/worker.py:67`, "One automatic document per workflow": two workers that search
  before either has created make two (`raced`).
* `services/reporting/worker.py:77`: the check that a redelivered `report.requested` is already running or
  completed and the record it leads to are two transactions, and `mark_running` (`shared/store.py`,
  `shared/db.py`) asks nothing of the record it changes. Two workers with two deliveries of a request that
  names its report both find none; one completes and announces it, and the other puts it back to running
  (`rerun`). With one worker, or without an id in the request, this does not happen.
* `shared/store.py`, "safe to share between an API process and a worker process": a report the API
  has read once is never read again, so the API says queued or running for ever (`stale`).
* `services/engine/seoagent/report.py`, "a site blocked from indexing should never show a green
  light": a Crawl-delay or Sitemap line between the agent and its Disallow resets the reader, and
  the block is missed; agents of an earlier group that was not ended are blamed for a later one.
* `report.py:220`: repairing the last issue of the international category takes it out of the average
  and may lower the overall score (the exception in `NothingNewNotWorse`).
* A URL that redirects and its target are both pages of a crawl and are reported as duplicates. One
  malformed href or sitemap entry fails the whole crawl (`Malformed`).
* `internal_links/analyze.py` (not modelled): `dead_ends` does not ask for the links its docstring says
  such pages receive; `overlooked` counts the median itself on both sides.
* `web/jobs.py:115`: a crash between the two leaves the temporary file for ever.
* `web/jobs.py:144`: the file of an evicted job that cannot be removed stays, and its job is listed again
  after a restart, or, when it cannot be read or is not among the youngest, never again.

### Fairness

`FairSpec` gives weak fairness to the steps of a handler, worker, relay or consumer that has
something to do, and to the delivery of a message that waits: a thread that runs is scheduled, the
relay loops, the broker delivers. A process that died is started again (`restart: on-failure` in
`infra/docker/docker-compose.yml`), which the crash actions include. Nothing is fair that a user
or a failure does. In `Orchestrator` the services answer a job's first request at some time,
whatever the answer. `EveryJobEnds` shows of `JobService` without faults that the job ends; that its
event reaches the engine assumes that the event meets its contract. In `Automation` each scheduler goes round its loop and a transaction ends; nothing else is fair.
A relay
without its connection has no fair step: its process lives on, so nothing restarts it.

## 5. The theorems

All are for any constants that meet the named assumptions; `MaxFaults` and its like are any
natural numbers. Every safety property that a run checks is proved, with one exception named below. TLC checked each inductive invariant on the run's instance before it was proved.

* **OrchestratorProofs.** `IInv` is `TypeOK`, the order of the step rows (`InOrder`: nothing after
  an unfinished step is touched; `DispatchedRuns`: a dispatched step's workflow runs; `Untouched`:
  an unknown workflow has no rows), the counters (`RequestedOnce`,
  `AnnouncedOnce`, `ReportMatchesSteps`), and `Carrier`: the handler that is between its two
  transactions on a workflow is alone, and the workflow has nothing in flight. `Carrier` is why
  the order survives: a dispatch needs a handler at `advance`, and marking a step both creates
  that handler and empties the flight. From it: `OneInFlight`, `RequestedOnce`, `AnnouncedOnce`,
  `ReportMatchesSteps`, `UniqueAdvancer`, and the action properties `FinalStays` and
  `StepsMoveForward`. How an audit may end rests on `EndInv`, which says why each row is where it
  is: a finished step has its result (`ResultsKept`), only the rank check and the comparison are
  ever skipped (`SkippedKinds`), and the rows are those of the plan (`PlanRows`). From it:
  `FailureJustified`, `CompletedAudit`, and, with what a handler that raises may hold,
  `DeadJustified`. `ImplementsAudit` is the refinement of `Audit`, with crashes, redeliveries and
  late events, for any number of handlers and audits, from the same two invariants. The work is in
  `AdvanceTx`: `Stands` says that all rows before a position are settled, and holds of the step an
  attempt is made at, of the one after a skip, and of the end of the plan, so that each outcome of
  the transaction is one `Ask`, one `Complete` or one of the two failures.
* **JobServiceProofs.** `IInv` adds to the properties what a thread knows about the reports it
  holds (`Fetched`: they exist and belong to the tenant, what it went on without its service can do
  without) and that an API task created its row (`Posted`). From it:
  `OutcomeAnnounced`, `TenantIsolation`, `BasisComplete` and `RunningHasRunner` for any number of
  workers, with any set of jobs whose event may be refused. Under
  `OneWorker` (one worker process for each service, as the compose file deploys) a thread is alone
  with its job, the row is as it read it, and `ReportIffCompleted` and `CompletedStays` follow;
  without it they are false (section 4).
* **OutboxProofs.** `IInv` is `TypeOK`, `DisjointBatches`, `OwedBound` (an event is owed to
  declared and bound queues only), `Delivered` (what is marked, or sent in an open transaction,
  has reached the queues it is owed to) and `CopiesPaid` (copies beyond those that are out are
  covered by failures). `NothingLost` alone is not inductive: it speaks of committed marks, and
  needs to know of rows that are sent and not yet marked. From it: `DisjointBatches`,
  `NothingLost`, `DuplicatesPaidFor`; `OnePlace` needs only that copy numbers at the broker do not
  exceed those given out. `ImplementsAtLeastOnce` is the safety part of the refinement, with one
  more invariant (`Accepted`: nothing is handled or parked before it is staged).
* **NotificationsProofs.** `IInv` joins the claims (`ClaimExclusive`, and `Held`, which relates a
  worker's place to the copies its pair confirmed), `ConfirmedOnce`, `RowTruthful`, and that
  workers only hold channels entitled to their event (`Entitled`). From it: the four properties,
  and `FaultFree`, whose steps use that failures are only ever added (`NoFaultBefore`), and that
  what cannot be built once can never be built.
* **SchedulerProofs.** `SchedInv`: a row waits for a time its cadence means, later than its last
  run; a transaction holds rows that are there and were due when it read the clock; no two
  transactions hold the same row. From it `RunPerSlot`, for any number of schedulers and any order
  of edits, late commits and rolled back transactions. It rests on `NextRunIsNext`: `next_run` names
  the first meant time after the moment it is given, for every length of hours, days, weeks and
  months. The proof has two halves. On the wall, the value that `next_run` computes is the least
  meant day whose hour is ahead of the clock: by division with remainder for days and weeks
  (`DaysAhead`), by the order of the months' first days for months, whose last day may stand for a
  day they do not have (`MonthOfDay`, `DayOfMonth`). In time, `ClockAssumption` makes the instants of
  full hours come in the order of the hours and after every moment that shows an earlier time
  (`SlotsInOrder`, `FirstSlot`), so that the first hour ahead is the first instant ahead; and it makes
  the fold that two of the three branches keep harmless (`FoldForgotten`).
* **ReportingProofs.** Five layers. `Names`: an id that was drawn belongs to one process, and one
  that a request names is with deliveries of that request only. `Store`: the records of one id agree
  about what they are of, wherever they are; those of a request's id were made for it (`Requests`); a
  drawn id that is looked for is known to nobody else; what only a process knows could not be written.
  `Runs`: whoever renders a report has the one record of it that says running, or it was begun
  again, or it could not be written; and no drawn id was begun again, because nobody else has it.
  `Links`: what was announced as completed is on the disk as completed, and what the API remembers of
  it is too unless it is `stale`. `Automatic` and `Documents`: two workers that are about to make a
  document of one workflow have raced, and a finished workflow has its document, is in someone's
  hands, or waits in the queue. From them `LinkWorks`, `OneAutomaticDocument` and
  `FinishedHasDocument`, for both stores and any number of workers, crashes, failed writes,
  redeliveries of both events, refusals and calls. `Runs` is what a second delivery of a request needs:
  one that comes after the record was begun finds it running or completed and stops (`LookCases`), so
  that only the deliveries that looked before are left, and those are what `rerun` records. A GET
  between the creation of a document and its completion leaves the API an old copy whatever it was
  asked for, so `Peek` marks as `stale` every copy that was not completed when it was read.
* **EngineProofs.** `DashInv`: the registry and the record of written files have no repetitions
  and every file was written (`Listed`), a thread that has not written its file has none and a listed job that is done has its
  own unless it was unwritable (`Filed`), and each file without a listed job is paid for by a removal or
  a read that failed, as is each file beyond what a registry has room for (`Paid`). The last part is
  what a restart needs: the youngest files that can be read are listed, and those that are left over
  are then no more than the failures (`Keeps`, `HowMany`, `Young`, `Fits`). Eviction takes one job out
  and leaves one file more only when the removal failed (`Files`). From it `DiskMatchesRegistry`. `CrawlInv`: the frontier, the batch and the
  pages hold different URLs, all of them queued once; it needs that what is followed stays on the
  site (`WellFormed`). From it `VisitsBounded`.
  `BfsInv` is the correctness of the breadth-first search while no request of the audit has
  failed: what is ahead is ordered by depth and spans two depths at most, what is done is not
  deeper (`ByDepth`); each visit is at its true distance (`Placed`); each queued URL is ahead, done,
  or may not be asked for, and what a finished page links to is queued (`Covered`). The step that
  matters is `Absorb`: a URL that is new at depth d + 1 cannot be within d links, because all that
  is within d links is queued already unless something nearer is still ahead (`Closed`, by induction
  on the distance). From it `EveryPageFound`, for every graph of links, every set of sitemap
  entries, every batch size and every limit. With `MaxDepth` 0 the entries of the sitemaps enter the
  queue at depth 1 all the same, and are dropped when they are taken: the second case of `Right`.
  `OrphanVerdictsAgree` follows one link through both analyses: the edges of a report are exactly the
  internal links of its pages (`EdgesAre`), a page's count is zero exactly when no page that answered
  well has a link tag for it (`NoInlinks`, with `TagInv`: the counts are those of the finished crawl,
  which the counting itself does not disturb), and a node of the graph stands for one of the pages
  with its spelling (`NodeIsPage`). It holds for any `Normal` and `Node`: the property names the
  addresses that only one of the two takes for the same. Two that `normalise` joins and
  `normalize_url` does not may leave the service one orphan, or none, where the engine sees two.
* **FoldInduction.** The library's induction theorems take an operator as a parameter, which the
  installed provers cannot instantiate. Here the operator and the predicate are CONSTANTS of a
  module, so that each INSTANCE has a lemma without parameters: `FoldKeeps`, that what holds of
  the base of a `FoldLeft` and is kept at every element holds of the result. It rests on the
  well-foundedness of the natural numbers (`Smallest`, `UpTo`) and on the existence of the recursive
  function behind the fold (`FoldExists`). `EngineProofs` has an instance for each loop and fact.

Assumptions besides types and bounds: the start URL is on its own site, and the addresses of a site
are normalised, as all that enters the queue is; a plan's hour and weekday exist and its clocks meet
`ClockAssumption` (section 3); every site an audit may meet
is `WellFormed` (the parser's part, which the model does not translate); no job is called "none" and
no report id is the empty string (both stand for absence); each plan means some time after every
moment of the calendar (`SlotAssumption`); events waiting at the start ask for different reports
(`StartAssumption`). An id that is drawn is new (`uuid4`), and a step that draws one waits while the
finite set is used up (`Drawable`). Which jobs' events a contract may refuse is any set of jobs
(`ContractAssumption`); an email channel is not an event (`ChannelAssumption`).

The type invariants (`TypeOK`) and `OnePlace` are proved for all instances and no longer checked
by a run.

Only model-checked:

* Liveness (`EveryAuditEnds`, `EveryJobEnds`, `EveryChannelTried`, `DueFires` and the liveness part of
  `ImplementsDelivery`), which is outside the prover's reach.
* `NothingNewNotWorse`: the scores are sums of weighted penalties over sets of issues, divided and
  rounded twice, and their order rests on the numbers of `report.py`; and not every figure it compares
  is determined by the issues of the two reports. TLC checks it on each repair of each defect.

## 6. Not modelled

* What a message, a report, a prompt or a page says; layout; logging.
* What the content, competitor, serp and optimizer analyses and the keyword research compute:
  arithmetic over texts and result pages, without state (item 9 of the plan).
* Parsing HTML and URLs: a page is what the parser found, `Normal` and `Node` are given as functions
  on the spellings that occur.
* The tenant of a document, and a directory the file store cannot write at all.
* `render.py`, `summary.py`, export, prompts, PageSpeed: wording, layout and calls of others.
* The gateway and the dashboard: their state is the framework's or the services'.
* Loss of data by Postgres or RabbitMQ: both are configured durable.
* Time: a timeout is a step that may happen at any moment; `keep_hours` is any time after the
  commit.

To check a run: `tlc -config <cfg> <MC module>`; to check a proof: `tlapm <module>.tla`.
