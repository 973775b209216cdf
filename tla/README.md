# ExtensionLab: TLA+ models, TLC runs and TLAPS proofs

ExtensionLab tests browser extensions. A web process (Next.js) accepts uploads and
requests and puts work in a table of jobs; a worker process claims the jobs and runs
them, mostly in disposable containers with a browser inside. Both share one SQLite
database, and almost every guarantee of the product comes down to conditional UPDATEs on
that database, issued by processes that crash, stop, retry and time out, and to pages in
a browser that follow them over polls and streams. That is what is modelled here.

Source paths below are relative to `src/`. Run a model with
`tlc -config JobQueueFleet.cfg MCJobQueue`, a proof with `tlapm JobQueueProofs.tla`.

## The files

| Module | What it models | Instance | Proofs |
| --- | --- | --- | --- |
| `JobContract` | what the queue promises its callers, without workers, leases or retries | refined by three modules | |
| `JobQueue` | the `jobs` table, the queue API and the fleet of workers | `MCJobQueue` | `JobQueueProofs` |
| `TestRuns` | a test run, its job, quota and handler, maintenance | `MCTestRuns`, `MCRecords` | `TestRunsProofs` |
| `TestExecution` | the tests inside a run: browser, steps, events, assertions | `MCTestRuns` | `TestRunsProofs` |
| `SavedTests` | saved tests, their versions, editors, suites and launches | `MCRecords` | `TestRunsProofs` |
| `InteractiveSession` | a browser session: row, job, container, slots, sweep | `MCInteractiveSession`, `MCOutcomes` | `InteractiveSessionProofs` |
| `SessionHub` | the web process's stream of a session and its listeners | `MCInteractiveSession` | `InteractiveSessionProofs` |
| `RunView` | the pages that follow a run, a matrix, the picture of a session, a sandbox | `MCInteractiveSession` | `InteractiveSessionProofs` (of a run) |
| `WebhookDelivery` | deliveries by job and sweep | `MCServices` | `ServicesProofs` |
| `BillingEvents` | provider events and subscription rows | `MCServices` | `ServicesProofs` |
| `BrowserMatrix` | children and aggregate of a matrix run | `MCServices` | `ServicesProofs` |
| `Idempotency`, `CircuitBreaker`, `UsagePeriods` | request records, the breaker of a browser, quota over periods | `MCServices` | `ServicesProofs` |
| `WorkerRegistry` | drain, disable and resume of a worker | `MCServices` | |
| `SandboxRun` | one execution of a run: manager, sandbox, container | `MCPlatform` | `PlatformProofs` |
| `PackageStore` | package rows, blobs, cleanup and reconciliation | `MCPlatform` | `PlatformProofs` |
| `Organizations` | members, invitations, seats, keys; exports | `MCPlatform` | `PlatformProofs` |
| `WorkspaceView` | the page of an interactive session | `MCPlatform` | |
| `RunnerBrowser` | the browser in a sandbox, as the runner drives it | `MCOutcomes` | `OutcomesProofs` |
| `Evidence` | evidence, reports and artifacts of a session or run | `MCOutcomes` | `OutcomesProofs` |
| `Checkout` | plans, checkouts and subscriptions at the provider | `MCOutcomes` | `OutcomesProofs` |
| `StudioEditor` | the studio in one browser tab and the server behind it | `MCOutcomes` | `OutcomesProofs` |
| `Workbench` | upload, analysis, save and launch from one page | `MCOutcomes` | `OutcomesProofs` |
| `AIRequests` | a request for an interpretation, its quota, slot and answer | `MCOutcomes` | `OutcomesProofs` |
| `Evaluation`, `AIContext` | scores, comparisons, policies; what an answer may rest on | `MCOutcomes` | `ConclusionsProofs` |
| `Analyzer` | the analysis of a package, from its entries to issues and scores | `MCOutcomes` | `ConclusionsProofs` |
| `Accounts` | accounts, sessions, password resets and the requests that wait for a password | `MCRecords` | `RecordsProofs` |
| `RateLimits` | windows counted in memory or in the shared store | `MCRecords` | `RecordsProofs` |
| `Reports` | reports, their links and slugs, and the rows they name | `MCRecords` | `RecordsProofs` |

An `MC` module puts several components side by side and a variable chooses one: a
behaviour is one of them, the others stay as they are. That is a composition without
interaction, for components that share no state in the code either; where components do
share state (job, run and quota; session, job and container) they are one module.
`PROJECT.json` has the components, runs, mutants, the map from definitions to source
lines, findings, hazards and theorems.

## Inventory

| Component | State | Operations | What makes it hard | Correct when |
| --- | --- | --- | --- | --- |
| Job queue and worker, `lib/jobs` | rows of `jobs`; in a worker the map of active jobs with an AbortController each | enqueue, claim, heartbeat, complete, fail, retry, cancel, expire, requeue, recover; start, loop, stop | several processes on one row, leases that lapse, crashes at any await, shutdown racing the handlers it aborts, decisions from rows read before | an attempt is delivered once and attempts are bounded, outcomes are final, an accepted job ends, a stopped worker exits, caps hold |
| Scheduler and maintenance, `lib/jobs/scheduler.ts`, `cleanup.ts` | a timer, the rows it lists | one step per table | races every owner of the rows it cleans | nothing in use is removed, nothing is left behind |
| Worker registry | a row per worker, a flag in the worker | drain, disable, resume, heartbeat | the row is read in two places and written in both processes | the worker comes to do what the operator last asked |
| Test runs and quota, `lib/testing`, `quota.ts` | run row, job, reservation, usage | create, stages, consume, cancel, finalize four ways | unconditional stage updates, statements apart | a run ends once; what has results is charged, once |
| Tests in a run, `lib/testing/test-runner.ts`, `assertions.ts`, `sandbox/runner` | steps, looks, events | open, act, inspect, judge | failed looks, lost events, a dead browser | a verdict rests on what was observed |
| Browser matrix | a row, a child per browser | child callbacks, sweep, cancel, finalize | several processes aggregate at once | completed only if every child passed |
| Interactive sessions, `lib/interactive` | session row, runtime handle, container, slots, hub, page | start, commands, screenshot, stop, sweep, stream | termination works from the row it read; a stop races the start | containers go, slots and quota are given back, ended stays ended |
| Webhooks | delivery rows | dispatch, attempt, sweep | job and sweep attempt at once | given up only after its attempts |
| Billing | events, subscription rows, checkouts | webhook, confirm, cancel, reactivate, reconcile | repeated, reordered and late events | rows converge; nobody has a plan that is not paid for |
| Idempotency, breaker | records; failures and probes | begin, finish, release; report | late results of given-up work | one effect for a key; opens and closes by the reports |
| Sandbox runtime | sandbox records, containers, the browser of the runner | create, stop, expire, execute, restart, popup | everything awaits Docker or DevTools | containers end, the runner knows its browser |
| Organizations, exports | members, invitations, keys, exports | join, leave, transfer, plan, export | long sequences; file and row apart | one owner, seats hold, downloads exist |
| Packages, artifacts, evidence | rows and objects | upload, reuse, delete, clean | file and row apart, deletion in use | what is listed can be read |
| Test studio | saved tests, versions, the builder | edit, copy, launch, save | late answers, two editors | a save replaces what it was opened on; a run executes the version it names |
| Workbench, AI | a page's file and answers; requests, slots | upload, save, launch; ask, retry | nothing ties an answer to the page that asked | files are not mixed; what is paid is answered |
| Accounts, `lib/auth`, `app/api/auth`, `app/api/me` | users, sessions, resets | sign up, sign in, reset, change, delete, clean | verifying or hashing a password is an await; rows change and go meanwhile | a password changes only for who typed it or was sent a reset, and no session outlives the change |
| Rate limits, `lib/coordination`, `lib/auth/rate-limit` | buckets of a process, counters in Redis | count, expire, read the time left, fall back | three commands of which any may fail; a connection comes and goes | less than twice the allowance in the time of a window; processes that share their limits count together |
| Reports, `lib/reports`, `app/api/reports` | reports, shares, publications | create, share, revoke, publish, delete, compare | foreign keys; the lookup before an await; scores of runs that are not over | a report says what its run and analysis said; what is linked to is there |
| Analyzer, `lib/extension` | the result of an analysis | read, find the manifest, look for what it names, score | packages of every shape, in folders or not | limits are kept, an analysis does not depend on the folder, scores add up |
| Live pages, `components/tester`, `interactive` | view, stream, polls | poll, stream, reconnect | answers in any order, breaks | the page comes to show what is |

Not modelled, with the reason in `PROJECT.json`: e-mail, notifications and analytics, the
database client, observability and configuration, and of the modelled components what their
`note` lists.

## JobQueue: how the model corresponds to the code

**Granularity.** A step is one SQL statement, or one transaction, of one process together
with the JavaScript that runs up to it. SQLite serialises writers and `transaction()` opens
`BEGIN IMMEDIATE` (`lib/db/client.ts:146`), so statements of different processes
interleave but do not overlap. A process runs the code between two awaits to its end:
while a worker has rows to update in such a block (`InBlock`: it is inside
`recoverOrphans`, or between a decision of `run()` and its statement) it does nothing else,
but other processes do. That is where a decision becomes stale.

| Model | Code |
| --- | --- |
| `status owner lease attempts cancel due` | columns of `jobs`; a lease is `"none"`, `"live"` or `"lapsed"`, `due` is `run_after <= now` |
| `execs` | every call of `JobWorker.run` that has not reached the end of its `finally`, in any process: its snapshot (`attempt`, `worker`), where it is (`phase`), why its controller was aborted (`signal`) |
| `active` | `JobWorker.active` |
| `proc` | a worker process: down, up, stopping (`stop()` until the grace period ends), closing (the rest of `stop()`) |
| `todo` | the rows `recoverOrphans`, or the end of `stop()`, has read and has yet to update |
| `seen` | the rows `cancelJobAdmin`, or the cleanup, has read and has yet to update |
| `enqueueJob cancelJob cancelJobAdmin requeueFailedJob ExpireStaleJob deleteFinishedJob` | the web process and the cleanup |
| `claimNextJob` with `ExcludedUsers`, `pickFairCandidate` | `claim()` and the claim transaction |
| `Heartbeat JobTimeout HandlerReturns HandlerThrows Complete RetryLater Fail FinishTimeout FinishCancelled` | `run()`; the handler itself is a choice of its outcome |
| `Sweep`, `recoverOrphanedJob`, `Start` | the recovery in `loop()` and in `start()` |
| `Stop AbortActive GraceElapsed Exit`, `Crash` | `stop()`; a kill at any point |

Points that are easy to get wrong, and are modelled as the code has them:

* The guards are those of the UPDATEs. `completeJob` asks for `running`, `failJob`,
  `markCancelled` and `expireJob` for any active status; none of them looks at `worker_id`
  or `attempts`. A statement that matches no row is still a step, and the execution goes on.
* `requestCancel` cancels a waiting row and only flags a running one.
* `cancelJobAdmin` on a running row is `cancelJob`. On a waiting row it writes without
  looking at the row again, so it has two steps.
* The organization cap is `None`: the constructor of the worker drops `orgConcurrencyFor`.
* `worker_id` is stable over restarts, so `Start` recovers the rows of the previous
  process. (`WORKER_ID` defaults to host name and pid; a changed id is a further member
  of `Workers`.)
* A job abandoned by a shutdown goes back to the queue without a look at `attempts`.
* The active map is keyed by job id; `finally` deletes the entry whoever owns it.

Left open (any outcome is allowed): the order of candidates of equal priority, the
duration of back-off and leases, and how long a handler takes to react to an abort. E-mail
and cleanup handlers have no `cancel`, so for them the wait before `finishCancelled` is
shorter than the model allows. Left out: payloads, results, progress events and metrics;
`enqueueJob` with a known key returns the row and changes nothing. The drain flag is
in `WorkerRegistry`.

## TestRuns: how the model corresponds to the code

A run is one row of `test_runs`, one reservation and one job. `TestRuns` has all of it, and
the one worker of the documented deployment. The job is not modelled again: it is
`JobContract` (`Queue`), which `JobQueue` is proved to implement, and whose executions do not
overlap with one worker (`OnlyCurrentAttemptRuns`).

| Model | Code |
| --- | --- |
| `run outcome` | `test_runs.status` and `outcome`; `"EXECUTED"` stands for PASSED, WARNING, SKIPPED and FAILED of executed tests, `"FAILED"` for an extension that does not load |
| `resv usage` | `quota_reservations` and `usage_events` of one kind and one period |
| `job deliveries cancel` | the job: status, `attempts`, `cancel_requested_at` |
| `phase code signal` | where `JobWorker.run` and `handle` are, how `handle` ends, the reason of the AbortController |
| `mgr started` | `snap.state` and `snap.startedAt` of the TestRunManager of this delivery |
| `todo` | the statements left of the block of code, without an await, that the worker is in |
| `seen` | what `cancelJob` answered to a `cancelRun` that has yet to update the run |
| `Enter Caught Preflight` | `handle` before the manager takes over, and its catch |
| `SandboxStarts SandboxFails TestsEnd ExecuteReturns SandboxRemoved` | `executeRun` with `onStatus` and `onFinished` |
| `StopRun StopDone SaveStopped` | `TestRunManager.stop`, which goes on by itself |
| `HandleReturned HandleThrew markCancelled FinishTimeout JobTimeout` | `JobWorker.run` |
| `Start Recover CloseRun`, `Stop AbortStop GraceElapsed Exit`, `Crash` | `recoverOrphans`, `stop()`, a kill |
| `CloseStaleRun ExpireStaleJob releaseDanglingReservations` | maintenance, a job of the same worker |

Points that are easy to get wrong, and are modelled as the code has them:

* `updateTestRunStage`, `updateTestRunStatus` and `saveTestRunFinal` do not look at the
  status; `finalizeTestRunWithoutResults` spares only a completed run.
* The status of a failed sandbox is written before the sandbox is removed and the outcome
  after it, with an await in between. The charge is a statement after the status.
* `context.isCancelled()` reads the row again only every 250 ms: its answer is any of
  `Seen`, unless it is forced.
* `stop()` of a shutdown may close a run whose job then completes, or is abandoned.
* `cancelRun` decides from the answer for the job; by the time of its second statement the
  handler may have moved on. `cancelJobAdmin` does not touch the run at all, and may mark a
  job cancelled that was claimed after its row was read.

`overrides` counts what an administrator does past the guards of the queue: a job reopened,
or cancelled under its handler. A reopened job has lost its reservation, so
`ResultsAreCharged` and `RunnableHoldsReservation` except it. `EndedRunsStay` excepts only a
job that is cancelled while its handler executes.

Left out here: artifacts, the stored form of results, the deletion of old rows. Event streams are
in `RunView`, the matrix in `BrowserMatrix`, the turn of a period in `UsagePeriods`, what happens
in the sandbox in `SandboxRun` and `TestExecution`.

## The other modules: what is easy to get wrong

Each module's header and comments say which steps are atomic. As a rule a step is what one
process does between two awaits; a method that awaits is cut there, and what it read
before is kept in a variable and used later, as the code does.

* `InteractiveSession`: `looks` and `ending` hold the rows a stop, an expiry or the sweep
  has read and will act on. An attempt makes one container at most. Shutdown inside a start
  and the slot limit of organizations are left out; a session is assumed to end within the
  hour after which `releaseDanglingReservations` releases its reservation.
* `SessionHub`: a stream knows the entry and the generation it was opened for;
  `Authorized` says whether the runner accepts the token where `streamEvents` puts it.
* `TestExecution`: `look` is the last inspected element. A failed look leaves the previous
  one in place, on Chromium it fails, on Firefox it answers that nothing exists. `listening`
  says that the event stream was accepted.
* `SandboxRun`: `docker rm` is assumed to succeed, and the life of a sandbox to be longer
  than its start.
* `BrowserMatrix`: a process derives the status from rows it reads and writes it later.
  The report is reduced to its existence.
* `BillingEvents`, `Checkout`: an event has the time of its creation, an answer that of
  its writing. `Checkout` counts time in parts of a cycle and keeps all of the provider's
  history, of which a delivery is any part.
* `CircuitBreaker`: a report does not say when its start was admitted.
* `PackageStore`: the sweep compares a listing of the storage with rows read later;
  objects younger than `mayBeUpload` are spared.
* `SavedTests`: a launch binds what it read before it awaited the package; the version
  the dashboard falls back to is 1, hence `Asked`.
* `Evaluation`, `AIContext`: pure functions of rows; the rows change under them, since a
  policy is evaluated on every read of a matrix, finished or not.
* `Workbench`, `StudioEditor`: one tab; an answer carries what its request was about,
  and the handler applies it to whatever is on the page.
* `AIRequests`: one web process, which may restart; identical requests in parallel.
* `Analyzer`: a path is the sequence of its segments, a source the set of the namespaces it
  uses. The total of the entries is checked as they are read, so what is over the limit
  is refused after some were kept.
* `Accounts`: a handler that verifies or hashes a password keeps the row it read (`caller`)
  and writes by its id. `cleanupExpiredSessions` and the deletion of an account take rows from
  under it.
* `RateLimits`: `INCR`, `EXPIRE` and `PTTL` are three commands; a counter whose `EXPIRE` failed
  stays for ever, but its key names its window. `granted` keeps what the buckets granted, when
  and in which window; the code does not store it.
* `Reports`: what a deletion does is what the foreign keys say (`ON DELETE CASCADE`, `SET NULL`);
  a report keeps the scores it was made with.

## Properties, runs and what they show

| Run | Instance | Checks | States |
| --- | --- | --- | --- |
| `fleet` | 2 workers, 1 job, 2 attempts; 1 crash, 1 shutdown, 1 admin requeue | `TypeOK`, `ClaimsAreExclusive`, `ImplementsContract` | 682 k |
| `liveness` | the same without the requeue, under `FairSpec` | `EveryJobSettles`, `StopCompletes` | 224 k |
| `single` | 1 worker with 2 slots, 2 tests of one user, queue of length 1; 1 crash, 1 shutdown | `OnlyCurrentAttemptRuns`, `AttemptBudget`, `UserConcurrencyCap` | 1.8 M |
| `run_life` | 1 run, 2 attempts; 1 crash, 1 shutdown, 1 override; or 2 tests of a run, 1 event kept | `ResultsAreCharged`, `RunnableHoldsReservation`, `VerdictsAreEarned`, `EndedRunsStay`, `JobKeepsContract`, `RunsSettle` | 119 k |
| `session_life` | 1 session, 2 attempts, 1 fault; the hub with 2 streams, 3 events, ring of 2; the pages with 2 polls and a break | `LiveSessionsHold`, `StreamsHold`, `EndedSessionsStay`, `SessionsSettle`, `ContainersAreReclaimed`, `PagesFollow` | 129 k |
| `services` | seven components, see below | `WebhooksConverge`, `EndsAreEarned`, `ChargesHold`, `BreakerFollowsReports`, `ServicesSettle`, `WorkerFollowsOperator` | 552 k |
| `platform` | five components, see below | `CompletedIsComplete`, `RecordsAreTrue`, `JoinsAreInvited`, `PlatformSettles` | 234 k |
| `records` | quota, studio, accounts, limits, reports, see below | `QuotaBound`, `RecordsHold`, `RecordsMove` | 1.5 M |
| `outcomes` | eleven parts, see below | `SlotsHold`, `EvidenceIsKept`, `BrowserIsKnown`, `ConclusionsHold`, `CheckoutsHold`, `RequestsHold`, `SavesAreSeen` | 1.1 M |
| `session_leak` | 1 session, the driver as it is | `ContainersAreReclaimed` | violated |
| `packages_stuck` | 2 uploads, 1 matrix | `DeletionsFinish` | violated |
| `events_unheard` | 1 page, 2 streams, the runner as it is | `EventsAreHeard` | violated |

`session_life` is checked with the two defects of `session_leak` and `events_unheard`
repaired (`OwnerListed`, `Authorized`): it says that nothing else is wrong there.

A property that ends in several components is a conjunction of one property per component,
so that each run asks one question of each: `StreamsHold` (hub, run page), `PagesFollow`
(five pages), `EndsAreEarned` (deliveries, matrices), `ChargesHold` (`ExecutesOnce` of idempotency,
`PeriodBound` of usage), `RecordsAreTrue` (packages, exports, organization), `RecordsHold`
(`RunsBindVersion`, `AccountsHold`, `RateLimitsHold`, `ReportsHold`), `RecordsMove` (two action
properties of accounts), `ConclusionsHold` (evaluation, interpretation, analysis), `RequestsHold`
(workbench, interpretation), and the `...Settle` properties.

**Why the bounds are enough.** *Queue.* Jobs interact only through the caps and the queue
length; everything else is about one row. One job with two workers has every race on a
row. Two attempts give a retry and an exhausted budget; one crash and one shutdown, in
either order and of either worker, every combination of a lost and a leaving process. Two
jobs and two slots are the least for which the cap of one user can be exceeded.
*Runs and sessions* meet only in quota and slots, so one has every race of handler,
manager, web process and maintenance; two share the quota (`records`) and the slots
(`outcomes`, with one slot for two sessions). The two runs of `records` are
interchangeable, used as a symmetry: that run checks invariants only.
*Streams and pages.* Two streams overlap, three events overflow a ring of two, two polls
can overtake each other, and one break makes the page resume.
*Services.* One delivery with two attempts under way; two versions of one subscription
with a clock of four; two browsers; three requests of one key, so that one replaces an
abandoned record and one is refused; a breaker that needs two failures in a window of two
and two probes, with six reports; three orders of the operator; four units over three
periods with a limit of two.
*Platform.* Three tests, of which one needs another and one is unsupported; two uploads of
one content; three people on two seats with two invitations; two exports and one fault;
two lost answers.
*Outcomes.* Four items for a report that holds three, two artifacts; two launches of a
browser with two popups and two sizes; one saved test opened twice; two tabs, two
subscriptions, and moments before, in and after grace; two files with two tries; two
pages, one question and three calls, under three plans that differ in what they keep and
how many requests they admit; packages with a manifest of each kind, at the top or in a
folder, with what it names or without it, and those that are refused.
*Records.* Two runs of a user with a limit of one; two saved tests, two editors, one launch;
two accounts with two addresses, passwords, sessions and resets, and three requests that wait
at once; three requests of one process over one window and into the next, with one failure;
two analyses, two links, two requests of a link. Ids are taken in their order (`InOrder`), since
another order is the same behaviour under other names, and the runs, which stand for addresses
and passwords too, are a symmetry. What needs larger numbers is proved instead.

**Constants.** `Punctual` names jobs whose handler heartbeats within every lease; it is
empty. Every bound on the environment is a constant named `Max...` or `Last...` and a guard
of the action it bounds. Configurations say `CHECK_DEADLOCK FALSE` since a system with
nothing left to do rests. A cfg replaces no definition; initial states of the parts that
do not run in a behaviour are fixed so that they are not multiplied.

**Fairness.** Weak fairness of the steps a process takes by itself: a worker that is down
starts again (`restart: unless-stopped` in the compose files), its loop polls, sweeps and
claims, `stop()` goes on to its end, a handler ends (sandboxes and jobs have time limits),
the scheduler's maintenance comes back, a request whose statement is planned does it, a
request is answered or refused, a page that is shown polls, and time passes. Strong
fairness in three places, where the environment may disable a step again and again:
`sweepReads` (the bound on rows read and not yet written may be used up by others), the
registry's `observe` (heartbeats may come between) and `Matures` of an object (the age at
which the sweep takes it for an orphan). It is *not* assumed that a lease lapses while its
handler runs, that a timeout fires, that anyone cancels, comes back or clicks, or that
anything fails. A session that was only created need not be started.

**Mutants.** For every property of a passing run `PROJECT.json` names a plausible change to
the code that breaks it: a dropped guard, swapped arguments, a sweep that goes by the row
instead of the label, a slot counted too late, a stream kept after its entry was removed,
a reservation before the look for a kept answer, and so on. They are operators that precede
their original, marked *Mutated*.

## Findings

1. **A container is left behind for ever** (`lib/interactive/sweep.ts:220`). A stop between
   `docker create` and the write of `runtime_json`, then a crash of the worker, leaves a
   container to `reconcileOrphanContainers`, which skips it: `listOwnedContainers`
   (`lib/runtime/docker-driver.ts:234`) does not return the label it looks at. Run `session_leak`.
2. **A package that a matrix ran on cannot be deleted**
   (`lib/db/migrations/005_phase9_browsers.sql:26`). The column is NOT NULL and the foreign
   key says SET NULL: the blob goes, the row stays `deleting`, and the cleanup's packages
   step fails at it every time. Run `packages_stuck`.
3. **Events of a session are never heard** (`lib/runtime/control-client.ts:84`). The token is
   put in the query, the runner reads a header: 401, and the hub attaches again at once.
   Run `events_unheard`.

### Smaller disagreements, seen while modelling and not turned into runs

*Queue.* Organization fairness is configured and never in force (`worker.ts:98`). A stale
execution can decide a later attempt (`db/repositories/jobs.ts:268`: transitions look at the
status only); `OnlyCurrentAttemptRuns` is why one worker is not exposed to it. A shutdown can
cancel a job it has just rescheduled (`worker.ts:443`), and adds one attempt to the budget. A
failed e-mail job has its payload redacted and may be retried (`worker.ts:415`).

*Runs.* A job can complete whose run failed (`handlers/automated-test.ts:62`). A run over the
time limit says CANCELLED (`worker.ts:406`, against `docs/ARCHITECTURE.md:78`).
`docs/ARCHITECTURE.md:117` says that nothing is consumed with INFRASTRUCTURE_ERROR, but a run
can be charged and then fail so; maintenance that listed a run as stale can turn CANCELLED into
INFRASTRUCTURE_ERROR; a run that queues longer than `STALE_RUN_MINUTES` is closed as failed.
`docs/OPERATIONS.md:175` has the reservation of a running sandbox released; it is consumed.

*Tests.* `url_equals` judges the configured URL, not that of the page; `text_contains` takes
the last inspected element whatever its selector; events of earlier tests count for later
ones; after `maxEvents` errors are dropped, so `runtime_error_none` passes; a failed `open_url`
is ignored.

*Studio.* A launch without a version binds version 1 (`studio-service.ts:290`, against
`docs/TEST_AUTOMATION_STUDIO.md:77`). Edit, back, *New test*: the late definition of the first
arrives in the new builder and the save overwrites the first (`TestStudio.tsx:287`). After a
save whose activation failed the builder stays in create mode and makes a second test.

*Sessions.* Charged though stopped before READY (against `docs/PLANS.md:194`); the sweep may
fail a restarting session as a crash; a retry starts a second browser (`docs/WORKERS.md:71`).
The runner's `ALLOWED_ACTIONS` lacks the restart of the browser, so *Restart Browser* fails and
destroys the session. Live console and network frames are single entries where the page expects
`entries`. The web process keeps the hub entries of sessions the worker ended. A picture that
is older than the one shown replaces it when it arrives later (against the comment at
`BrowserWorkspace.tsx:244`).

*Pages.* The last events of a run are lost when the status poll sees the end before the stream's
last tick; the error of a transient failure is never cleared; a failed fetch after a matrix
message leaves the page stale. A tester page opened after the record was deleted says
*Starting…* for ever.

*Billing.* The invoice of a payment that failed first stays `failed`; two events of one second
may be applied in either order. A checkout's answer is newer than every event by its time of
writing (`billing-service.ts:314`, against `:270`). A scheduled cancellation is lost at the next
event (`razorpay.ts:91` against `:381`). A reopened checkout is not checked for its price
(`razorpay.ts:319`). Single flight is per process.

*Webhooks and services.* `MaxRetries + 2` attempts, against `docs/WEBHOOKS.md:58`; a late failing
attempt reopens a succeeded delivery. A finalized matrix may get its report twice
(`matrix-service.ts:316`). The breaker counts late reports as probes (`breaker.ts:20`). A removed
worker row drops the desired state; `docs/WORKERS.md:35` has a drained worker exit, it does not.

*Storage.* A package in use can be deleted; reuse by hash may answer with one that is being
deleted; exports left `running` by a cancelled attempt stay so (`export.ts:56,124`). The 102nd
attachment of evidence cuts the reference of the 101st (`service.ts:1414` against
`session-evidence.ts:92`). A pinned artifact past its expiry is kept and cannot be read
(`artifacts/service.ts:155,162`, against `docs/API.md:175`).

*Accounts and reports.* A change of the password is said to "rotate out every other session"
(`app/api/me/route.ts:105`); it ends all of them, with that of the request. The two reports of a
comparison are read without an order (`db/repositories/reports.ts:150`), so before and after may
be exchanged; a report made while its run is saving results says 0 of 100 and PASSED
(`app/api/reports/route.ts:90`).

*Organizations.* An expired invitation blocks a new one for the same address and takes a seat; a
plan can be lowered below the members.

*Evaluation.* A required test that was skipped or timed out does not fail the gate
(`policies/service.ts:290`); `allowRegressions = false` is never evaluated for a matrix; a browser
that failed counts as unavailable and leaves the score at 100 (`comparison.ts:378`).

*Workbench and AI.* *Analyze Another* during a save files the next launch under the old extension
(`Workbench.tsx:104`); two saves at once pass the plan's limit (`api/extensions/route.ts:80,126`).
`AI_CONTEXT_TOO_LARGE` is thrown although more could be trimmed, since the index is added after
the fit (`ai/context.ts:401`, against `:29`); caps drop items without `truncated`; two identical
requests in parallel are both charged, and so is one whose answer could not be stored.

## Proofs

Every safety property the passing runs check is a theorem for all values of the constants;
the inductive invariants were checked by TLC before they were proved. What a theorem assumes
of the constants is a named `ASSUME` of the module that declares them (finite sets, naturals,
positive limits, well-formed inputs), which TLC evaluates on every run. The exceptions are
deployments: `OneWorker` and the bound on `Asked`, below, are hypotheses of their theorems.

`JobQueueProofs` holds for every set of jobs and workers, every limit, and any number of
crashes, shutdowns and requeues.

* `LeaseDiscipline` (a row has a lease exactly while it runs) is not inductive alone: `IInv`
  adds the types and `ClaimsAreExclusive`, whose counter part (`attempt <= attempts[job]`)
  makes the attempt number of a new claim fresh.
* Most actions are a few row statements in a different context. Each statement is treated
  once (`RowEffect`: what it does to one row, and that it spares the others), and each
  context once (`ExecsEffect`: executions are added only by a claim). The step proof then
  has one case per action that cites them.
* `QueueImplementsContract` maps each step of the queue to a step of `JobContract` or to a
  stutter, under the same invariant.

The second part of `JobQueueProofs` assumes `OneWorker` (one worker id, no admin requeue), the
deployment the documentation supports (`docs/OPERATIONS.md:63`, "one worker process per
SQLite volume"), and still any number of jobs, crashes and shutdowns.

* `ExecutionsInv`: a running row is owned by the worker, an entry of the map is a live
  execution, and a row the sweep is about to requeue has none. `OneWorkerRunsCurrentAttempts`
  and `OneWorkerTracksExecutions` follow.
* `BudgetInv` counts the attempts that are left, with one spare for each shutdown, a spare
  the shutdown's pending reschedules already hold: `OneWorkerAttemptBudget`.
* `EveryRunningRowIsKnown` (a running test has an entry in the map, or waits in `todo` for
  recovery, which precludes a claim) makes the count in `ExcludedUsers` complete:
  `OneWorkerUserCap`, for finitely many jobs and a cap of at least one.

`TestRunsProofs`: `TypeInv` adds that a manager waiting for its sandbox to go is in a final
state, which is what `SandboxRemoved` then saves. `QuotaEffect` says what any step does to the
quota (nothing, a release, a new run with its reservation, or a consume that an earlier
`SandboxStarts` planned); it is shown once, action by action, and the rest cites it instead
of the actions. `ChargeInv` gives `ChargedAtMostOnce` and `ChargedIfStarted`; `QuotaHolds`
counts with it, since consuming moves one unit from the open reservations to the charges.
`JobOfRunKeepsContract`: every statement on the job is a step of `JobContract`, so the
composition with the queue is sound.

`TestRunsProofs` is about the whole handler.

* `ExecInv` relates the phase of the delivery, the manager, the reason it was aborted for and
  the statements left of a block (`PlansFit`): what may still be written follows from where the
  handler is. `HoldInv` then has every undisturbed execution hold its reservation. It is stated
  for behaviours without an administrator's override: a reopened job has lost its reservation.
  `ResultsCharge` and `RunnableHold` follow; the properties except such a job themselves.
* `EndedInv` says why nobody who is late writes over an end: an execution is fresh, or its
  job is cancelled, or what it has left carries no results. `EndedStay`.
* `SavedInv`: what names a version names one that exists, versions only grow, and the contents
  of a version never change. `VersionsAreBound` needs the hypothesis `Asked \subseteq {1}`:
  the dashboard's fallback is version 1, and a version that is yet to come would be bound
  before it has contents.
* `VerdictInv`: the look that is kept was answered and is of an element that was found under
  its name; failures are only of assertions the browser supports; everything is judged before
  a run is cleaned up. `VerdictsEarned`, for any number of tests and kept events.

`InteractiveSessionProofs`. `Moved` is the transition relation that all writers of a session's
row share, however old the row they read; `EndedStay` follows from it. `SlotsAreBounded` counts
rows in start slots, which only `hasCapacity` lets grow. `LiveInv` follows a start through its
statements: while it is under way its box is there unless the row is over, and a row that takes
commands names a box that exists and was charged for. `JobsKeepTheContract` is the refinement.
For the hub, `HubStreams` has one stream of the present generation, the only one that is open,
which `remove()` can detach; `EventsAreKnown` has ring, streams and pages hold increasing events.
For the page of a run, `PipeGoesOn` and `RouteGoesOn` have what is on the way continue what is
shown. `StreamsAreHeld` lifts both to the composition.

`ServicesProofs`, one invariant per component. *Usage:* a unit is open or charged, never before
it was created. *Idempotency:* until it lapses the record of an executed request is its own.
*Deliveries:* what an attempt read is never ahead of the row. *Matrix:* any row a process
holds, however old, is one the matrix could have had: completed only if all children passed,
and passed children stay. *Events:* every row has the date of an event or an answer, and every
state the provider was in has an event of its own time; so the row that is not older than any
event (`AtLatest`) says what the provider says. *Breaker:* while it is closed it holds the
failures since the last success down to one that is out of the window, while open the count
of successes since the last failure; pruning drops a prefix, whose length exists as a least
element. `ServicesChargesHold` lifts the two that count what a user pays for.

`RecordsProofs`.

* `AccountsInv`: who waits remembers an account that was there, and a reset that was his;
  sessions and open resets belong to accounts that are there. `AccountsAreSound` is the
  state, `CredentialsAreSound` the steps: a new password comes from a request that waited with
  it, and what is over is not live again.
* `RateLimitsInv`: a bucket counts the last of what its process granted, those of its window
  (`BucketsCount`); the first grant of a full window is at its beginning, so
  that less than twice the allowance falls in the time of a window. `CountsAreShared`: in
  production nobody counts in memory while no command has failed. `CountersEnd`: a window
  that is counted has begun and its counter outlives it, which `RefusalsEnd` needs.
* `ReportsInv`: a run that ended has the score its report shows, a publication names a report
  that was there, and a deletion takes or clears every row that names what it deletes.
* `RecordsAreSound` and `RecordsMoveSoundly` lift them, with `VersionsAreBound` (and its
  hypothesis on `Asked`), to the composition.

`PlatformProofs`. *Sandbox:* the results of the tests before the present one are fixed and
fair, and the manager's report follows the run (`RunsAreComplete`, `RunsEndOnce`). *Packages:*
blobs are removed only for rows that have left `stored` for good, or keys that were unknown
when rows were read, and an upload whose object is not yet in a row is young. *Exports* write
the file before the row and expire the row before the file. *Organization:* the owner's row and
role change together (`OwnerIsOne`); members grow only by an acceptance within the seats
(`JoinsAreAccepted`).

`OutcomesProofs`.

* `BrowserInv`: a connected browser renders the viewport except during its launch, attach
  and preparation, and has no popup while one is being created. `BrowserStaysKnown`.
* `EvidenceInv`: an item has no more references than its report had attachments, so nothing is
  cut before the limit; only expired artifacts lose their objects. `EvidenceStaysKept`.
* `CheckoutInv` is `AccountInv` (the last state at the provider is in the row, or a notice
  of it is under way; rows and notices are of states that were) and `PageInv` (one request
  at a time, and no subscription is open while one is created). `CheckoutsAreSound`.
* `StudioInv`: a loaded row is older than the test, or says the same. `SavesSeeTheTest`.
* `WorkbenchInv`: until the user goes on, one file at a time goes through the page, and what a
  save answered is the extension it wrote; usage plus the saves that passed the check grows
  only by a check. `WorkbenchIsSound`.
* `AIInv`: what a request costs follows from where it is; what is charged and what is held are
  one set, which only an admitted request enters; an answer that was paid is kept, or was
  lost in one of the ways the property names. `AnswersAreSound`; `RequestsAreSound` composes.

`ConclusionsProofs`: what is concluded from rows and files. The three components are mostly
functions, so most lemmas are about functions, for sets and sequences of any length.

* *Evaluation.* `EvaluationInv`: a stored comparison is that of the rows, and regressions are
  those of two finished matrices. That scores are naturals is proved of sums over finite sets,
  which exist and are natural: if not, there would be a least set without one.
  `EvaluationAssumption` has finite suites and fewer than 200 browsers; with 200, `Math.round`
  would show 100 although one failed. `EvaluationsAreFair`.
* *Interpretation.* `ContextInv`: the evidence an answer may cite is what the context holds
  after it was trimmed, and no more. An answer is a fold over what the provider said; that the
  recursive function of a fold exists, and what it keeps at each place, is shown by its
  unrolling to a length. `InterpretationInv` adds that what is loaded is a record
  (`SourceIsRecord`) and that what was asked about comes first in a context that was built
  (`FocusIsShown`). `ContextAssumption`: the caps are at least one, and what is shown is no
  more than what is read. `AnswersAreGrounded`, `InterpretationsHold`.
* *Analysis.* `AnalyzerInv`: what was read is what the package holds within the limits, its
  manifest is there, and the report is the result for them. `ScoresAreSound`: every
  issue costs its category something, so a whole score means none. The sizes of a folder add up level by
  level, as sums over disjoint parts. That a package is judged alike with a folder around it is
  an order-preserving map of its paths, under which every look-up and every selection gives the
  corresponding entry. `AnalyzerAssumption`: an entry without a name is a folder, and the order
  of manifests does not change with a folder ahead of all of them. `AnalysesAreSound`.

Selections from sequences are written with `FlattenSeq`, a recursive function, since the prover
takes `SelectSeq` for a symbol without a definition.
`ConclusionsAreSound` (in `OutcomesProofs`) lifts the three to the composition.

**Only model-checked.** Liveness under fairness (`EveryJobSettles`, `StopCompletes`, `RunsSettle`,
`SessionsSettle`, `ContainersAreReclaimed`, `PagesFollow`, `ServicesSettle`,
`WorkerFollowsOperator`, `PlatformSettles`) and ENABLED are outside what the prover does here.
The three violated properties have counterexamples. Everything proved is proved of the models; that these are the code is
argued by the map and by the mutants.

## Plan

What would come next, in this order: the persistent view of a run that `RunView` polls; the mail
that the queue delivers and the notifications of a page; a composition of `TestRuns` with
`BrowserMatrix` instead of its abstraction; the artifacts of a run with their retention.
