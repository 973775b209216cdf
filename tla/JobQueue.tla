------------------------------ MODULE JobQueue ------------------------------
(***************************************************************************)
(* The persistent job queue: the `jobs` table (lib/db/repositories/jobs),  *)
(* the queue API of the web process (lib/jobs/queue) and a fleet of        *)
(* JobWorker processes (lib/jobs/worker) that claim, execute, retry,       *)
(* cancel and recover jobs.                                                *)
(*                                                                         *)
(* Granularity.  A step is one SQL statement, or one transaction, of one   *)
(* process, with the code of that process up to it.  A JavaScript process  *)
(* runs the code between two awaits to its end, so while a worker is       *)
(* inside such a block (InBlock) it takes no other step, but the other     *)
(* processes do.                                                           *)
(*                                                                         *)
(* Time.  A lease is "live" or "lapsed", run_after is `due` or not.  The   *)
(* order of equal priorities (run_after, created_at) is left open.         *)
(***************************************************************************)
EXTENDS Naturals, FiniteSets

CONSTANTS
    Jobs,               \* rows that may be inserted
    Workers,            \* ids of worker processes (WORKER_ID), stable over restarts
    None,               \* SQL NULL / undefined
    UserOf,             \* [Jobs -> users or None]; None: internal maintenance job
    OrgOf,              \* [Jobs -> organizations or None]
    TypeOf,             \* [Jobs -> STRING]
    KeyOf,              \* [Jobs -> idempotency keys or None]
    PriorityOf,         \* [Jobs -> Int]
    Punctual,           \* jobs whose handler heartbeats within every lease
    MaxAttempts,        \* max_attempts
    Concurrency,        \* WORKER_CONCURRENCY
    UserConcurrency,    \* SANDBOX_USER_CONCURRENCY
    OrgConcurrency,     \* orgMaxConcurrency of an organization's plan
    MaxQueueLength,     \* JOB_MAX_QUEUE_LENGTH
    MaxActivePerUser,   \* JOB_MAX_QUEUED_PER_USER
    MaxCrashes, MaxStops, MaxRequeues   \* bounds on the environment

ASSUME JobQueueAssumption ==
    /\ None \notin Workers
    /\ Punctual \subseteq Jobs
    /\ MaxAttempts \in Nat \ {0}

VARIABLES
    status,     \* jobs.status; "absent" before the insert, "deleted" after retention
    owner,      \* jobs.worker_id
    lease,      \* jobs.lease_expires_at: "none" (NULL), "live", "lapsed"
    attempts,   \* jobs.attempts
    cancel,     \* jobs.cancel_requested_at is set
    due,        \* jobs.run_after <= now
    execs,      \* executions of JobWorker.run, in any process
    active,     \* JobWorker.active: the ids a worker believes it executes
    proc,       \* the life of a worker process
    todo,       \* rows a worker read in this block and has yet to update
    seen,       \* rows the web process or the cleanup read and has yet to update
    crashes, stops, requeues    \* how often the environment acted

rowVars   == <<status, owner, lease, attempts, cancel, due>>
envVars   == <<crashes, stops, requeues>>
vars      == <<rowVars, execs, active, proc, todo, seen, envVars>>

Waiting   == {"queued", "retrying"}
Terminal  == {"completed", "failed", "cancelled", "expired"}
Active    == Waiting \cup {"running"}
Exists    == Active \cup Terminal

(***************************************************************************)
(* What handler.handle is doing for one claim of a job.  `attempt` and     *)
(* `worker` are the snapshot the claim returned; `signal` is the reason    *)
(* its AbortController was aborted with.  The phases after "handling" lie  *)
(* between a decision of run() and the statement that records it.          *)
(***************************************************************************)
Phases    == {"handling", "completing", "retrying", "failing", "cancelling", "timedOut"}
Signals   == {"none", "timeout", "stop"}
Execution == [job : Jobs, attempt : Nat, worker : Workers, phase : Phases, signal : Signals]
Pending   == [job : Jobs, op : {"requeue", "fail", "abandon"}]
Reader    == [job : Jobs, op : {"adminCancel", "expire"}]

TypeOK ==
    /\ status   \in [Jobs -> Exists \cup {"absent", "deleted"}]
    /\ owner    \in [Jobs -> Workers \cup {None}]
    /\ lease    \in [Jobs -> {"none", "live", "lapsed"}]
    /\ attempts \in [Jobs -> Nat]
    /\ cancel   \in [Jobs -> BOOLEAN]
    /\ due      \in [Jobs -> BOOLEAN]
    /\ execs    \subseteq Execution
    /\ active   \in [Workers -> SUBSET Jobs]
    /\ proc     \in [Workers -> {"down", "up", "stopping", "closing"}]
    /\ todo     \in [Workers -> SUBSET Pending]
    /\ seen     \subseteq Reader
    /\ crashes \in Nat /\ stops \in Nat /\ requeues \in Nat

Init ==
    /\ status   = [j \in Jobs |-> "absent"]
    /\ owner    = [j \in Jobs |-> None]
    /\ lease    = [j \in Jobs |-> "none"]
    /\ attempts = [j \in Jobs |-> 0]
    /\ cancel   = [j \in Jobs |-> FALSE]
    /\ due      = [j \in Jobs |-> FALSE]
    /\ execs    = {}
    /\ active   = [w \in Workers |-> {}]
    /\ proc     = [w \in Workers |-> "down"]
    /\ todo     = [w \in Workers |-> {}]
    /\ seen     = {}
    /\ crashes = 0 /\ stops = 0 /\ requeues = 0

-----------------------------------------------------------------------------
(***************************************************************************)
(* Statements on one row.                                                  *)
(***************************************************************************)
isCancelRequested(j) == cancel[j] \/ status[j] = "cancelled"

SetRow(j, s, w, l) ==
    /\ status' = [status EXCEPT ![j] = s]
    /\ owner'  = [owner EXCEPT ![j] = w]
    /\ lease'  = [lease EXCEPT ![j] = l]

\* Mutated Finish: the last two arguments are swapped.
FinishSwapped(j, from, s) ==
    IF status[j] \in from THEN SetRow(j, s, "none", owner[j])
                          ELSE UNCHANGED <<status, owner, lease>>

\* UPDATE jobs SET status = s, lease_expires_at = NULL WHERE status IN from.
Finish(j, from, s) ==
    IF status[j] \in from THEN SetRow(j, s, owner[j], "none")
                          ELSE UNCHANGED <<status, owner, lease>>

\* Mutated completeJob: without `AND status = 'running'`.
CompleteUnguarded(j) == Finish(j, Active, "completed") /\ UNCHANGED <<attempts, cancel, due>>

completeJob(j) == Finish(j, {"running"}, "completed") /\ UNCHANGED <<attempts, cancel, due>>
failJob(j)     == Finish(j, Active, "failed")         /\ UNCHANGED <<attempts, cancel, due>>
expireJob(j)   == Finish(j, Active, "expired")        /\ UNCHANGED <<attempts, cancel, due>>

markCancelled(j) ==
    /\ Finish(j, Active, "cancelled")
    /\ cancel' = [cancel EXCEPT ![j] = @ \/ status[j] \in Active]
    /\ UNCHANGED <<attempts, due>>

\* Mutated scheduleRetry: worker_id is not reset.
RetryKeepsWorker(j, d) ==
    /\ IF status[j] = "running"
       THEN SetRow(j, "retrying", owner[j], "none") /\ due' = [due EXCEPT ![j] = d]
       ELSE UNCHANGED <<status, owner, lease, due>>
    /\ UNCHANGED <<attempts, cancel>>

\* scheduleRetry and the first UPDATE of recoverOrphanedJob: d is run_after <= now.
scheduleRetry(j, d) ==
    /\ IF status[j] = "running"
       THEN SetRow(j, "retrying", None, "none") /\ due' = [due EXCEPT ![j] = d]
       ELSE UNCHANGED <<status, owner, lease, due>>
    /\ UNCHANGED <<attempts, cancel>>

\* The second UPDATE of recoverOrphanedJob, which clears worker_id as well.
failOrphan(j) ==
    /\ IF status[j] = "running" THEN SetRow(j, "failed", None, "none")
                                ELSE UNCHANGED <<status, owner, lease>>
    /\ UNCHANGED <<attempts, cancel, due>>

\* Waiting rows are cancelled at once, running ones are flagged the first time.
requestCancel(j) ==
    /\ \/ /\ status[j] \in Waiting
          /\ SetRow(j, "cancelled", owner[j], "none")
       \/ /\ status[j] = "running" /\ ~cancel[j]
          /\ UNCHANGED <<status, owner, lease>>
    /\ cancel' = [cancel EXCEPT ![j] = TRUE]
    /\ UNCHANGED <<attempts, due>>

-----------------------------------------------------------------------------
(***************************************************************************)
(* The queue API of the web process.                                       *)
(***************************************************************************)
Queued == {j \in Jobs : status[j] \in Waiting}

ActiveOf(u, t) == {j \in Jobs : UserOf[j] = u /\ TypeOf[j] = t /\ status[j] \in Active}

\* enqueueJob, one transaction.  Internal jobs skip the back-pressure checks;
\* d is false for a job enqueued with a later runAfter.
enqueueJob(j, d) ==
    /\ status[j] = "absent"
    /\ \A k \in Jobs : status[k] \in Exists => KeyOf[k] = None \/ KeyOf[k] # KeyOf[j]
    /\ UserOf[j] # None =>
          /\ Cardinality(Queued) < MaxQueueLength
          /\ Cardinality(ActiveOf(UserOf[j], TypeOf[j])) < MaxActivePerUser
    /\ status' = [status EXCEPT ![j] = "queued"]
    /\ due' = [due EXCEPT ![j] = d]
    /\ UNCHANGED <<owner, lease, attempts, cancel, execs, active, proc, todo, seen, envVars>>

cancelJob(j) ==
    /\ requestCancel(j)
    /\ UNCHANGED <<execs, active, proc, todo, seen, envVars>>

\* cancelJobAdmin reads the row; a row that was not running is updated by a
\* second statement, outside any transaction.
AdminReadsRow(j) ==
    /\ status[j] \in Waiting
    /\ seen' = seen \cup {[job |-> j, op |-> "adminCancel"]}
    /\ UNCHANGED <<rowVars, execs, active, proc, todo, envVars>>

cancelJobAdmin(j) ==
    /\ [job |-> j, op |-> "adminCancel"] \in seen
    /\ seen' = seen \ {[job |-> j, op |-> "adminCancel"]}
    /\ markCancelled(j)
    /\ UNCHANGED <<execs, active, proc, todo, envVars>>

\* Mutated requeueFailedJob: the attempts start again.
RequeueFromZero(j) ==
    /\ status[j] = "failed"
    /\ requeues < MaxRequeues
    /\ requeues' = requeues + 1
    /\ SetRow(j, "queued", None, "none")
    /\ cancel' = [cancel EXCEPT ![j] = FALSE]
    /\ due' = [due EXCEPT ![j] = TRUE]
    /\ attempts' = [attempts EXCEPT ![j] = 0]
    /\ UNCHANGED <<execs, active, proc, todo, seen, crashes, stops>>

\* retryJobAdmin: attempts are kept.
requeueFailedJob(j) ==
    /\ status[j] = "failed"
    /\ requeues < MaxRequeues
    /\ requeues' = requeues + 1
    /\ SetRow(j, "queued", None, "none")
    /\ cancel' = [cancel EXCEPT ![j] = FALSE]
    /\ due' = [due EXCEPT ![j] = TRUE]
    /\ UNCHANGED <<attempts, execs, active, proc, todo, seen, crashes, stops>>

\* The cleanup lists stale waiting rows and then expires them one by one.
listStaleQueuedJobs(j) ==
    /\ status[j] \in Waiting
    /\ seen' = seen \cup {[job |-> j, op |-> "expire"]}
    /\ UNCHANGED <<rowVars, execs, active, proc, todo, envVars>>

ExpireStaleJob(j) ==
    /\ [job |-> j, op |-> "expire"] \in seen
    /\ seen' = seen \ {[job |-> j, op |-> "expire"]}
    /\ expireJob(j)
    /\ UNCHANGED <<execs, active, proc, todo, envVars>>

\* Retention is days, so no execution or reader of the row is left.
deleteFinishedJob(j) ==
    /\ status[j] \in Terminal
    /\ \A e \in execs : e.job # j
    /\ \A w \in Workers : \A p \in todo[w] : p.job # j
    /\ \A r \in seen : r.job # j
    /\ status' = [status EXCEPT ![j] = "deleted"]
    /\ UNCHANGED <<owner, lease, attempts, cancel, due, execs, active, proc, todo, seen, envVars>>

Web(j) ==
    \/ \E d \in BOOLEAN : enqueueJob(j, d)
    \/ cancelJob(j)
    \/ AdminReadsRow(j)
    \/ cancelJobAdmin(j)
    \/ requeueFailedJob(j)
    \/ listStaleQueuedJobs(j)
    \/ ExpireStaleJob(j)
    \/ deleteFinishedJob(j)

-----------------------------------------------------------------------------
(***************************************************************************)
(* Claiming.                                                               *)
(***************************************************************************)
InBlock(w) ==
    \/ todo[w] # {}
    \/ \E e \in execs : e.worker = w /\ e.phase \in {"completing", "retrying", "failing"}

\* countRunningJobsForUser(u, "AUTOMATED_TEST")
RunningTests(u) ==
    {k \in Jobs : UserOf[k] = u /\ TypeOf[k] = "AUTOMATED_TEST" /\ status[k] = "running"}

\* Mutated ExcludedUsers: `>` for `>=`.
ExcludedAbove(w) ==
    {UserOf[k] : k \in {i \in active[w] :
        /\ TypeOf[i] = "AUTOMATED_TEST"
        /\ Cardinality(RunningTests(UserOf[i])) > UserConcurrency}} \ {None}

\* Only users with an entry in this worker's own map are counted.
ExcludedUsers(w) ==
    {UserOf[k] : k \in {i \in active[w] :
        /\ TypeOf[i] = "AUTOMATED_TEST"
        /\ Cardinality(RunningTests(UserOf[i])) >= UserConcurrency}} \ {None}

\* The options object of the constructor has no orgConcurrencyFor.
orgConcurrency == None

RunningOf(o) == {k \in Jobs : OrgOf[k] = o /\ status[k] = "running"}

\* The first of the candidates, or the first whose organization is below the cap.
pickFairCandidate(candidates, cap) ==
    LET fair == IF cap = None
                THEN candidates
                ELSE {j \in candidates : OrgOf[j] = None \/ Cardinality(RunningOf(OrgOf[j])) < cap}
    IN  {j \in fair : \A k \in fair : PriorityOf[k] <= PriorityOf[j]}

\* Mutated Claimable: 'retrying' is missing from the status filter.
ClaimableQueued(w) ==
    pickFairCandidate(
        {j \in Jobs : status[j] = "queued" /\ due[j] /\ UserOf[j] \notin ExcludedUsers(w)},
        orgConcurrency)

Claimable(w) ==
    pickFairCandidate(
        {j \in Jobs : status[j] \in Waiting /\ due[j] /\ UserOf[j] \notin ExcludedUsers(w)},
        orgConcurrency)

\* claimNextJob, one transaction, and the start of run().
claimNextJob(w, j) ==
    /\ proc[w] = "up"
    /\ ~InBlock(w)
    /\ Cardinality(active[w]) < Concurrency
    /\ j \in Claimable(w)
    /\ SetRow(j, "running", w, "live")
    /\ attempts' = [attempts EXCEPT ![j] = @ + 1]
    /\ execs' = execs \cup {[job |-> j, attempt |-> attempts[j] + 1, worker |-> w,
                             phase |-> "handling", signal |-> "none"]}
    /\ active' = [active EXCEPT ![w] = @ \cup {j}]
    /\ UNCHANGED <<cancel, due, proc, todo, seen, envVars>>

-----------------------------------------------------------------------------
(***************************************************************************)
(* JobWorker.run: one claim, from handler.handle to `finally`.             *)
(***************************************************************************)
Alive(e) == ~InBlock(e.worker)

MoveTo(e, p) == execs' = (execs \ {e}) \cup {[e EXCEPT !.phase = p]}

\* context.heartbeat(): renewLease, whose result nobody reads.
Heartbeat(e) ==
    /\ Alive(e) /\ e.phase = "handling"
    /\ status[e.job] = "running" /\ owner[e.job] = e.worker
    /\ lease' = [lease EXCEPT ![e.job] = "live"]
    /\ UNCHANGED <<status, owner, attempts, cancel, due, execs, active, proc, todo, seen, envVars>>

\* The JOB_TIMEOUT timer; a second abort of a controller has no effect.
JobTimeout(e) ==
    /\ Alive(e) /\ e.phase = "handling" /\ e.signal = "none"
    /\ execs' = (execs \ {e}) \cup {[e EXCEPT !.signal = "timeout"]}
    /\ UNCHANGED <<rowVars, active, proc, todo, seen, envVars>>

\* handler.handle resolves: cancelled or aborted, or to be completed.
HandlerReturns(e) ==
    /\ Alive(e) /\ e.phase = "handling"
    /\ MoveTo(e, IF isCancelRequested(e.job) \/ e.signal # "none" THEN "cancelling"
                                                                  ELSE "completing")
    /\ UNCHANGED <<rowVars, active, proc, todo, seen, envVars>>

\* handler.handle rejects; a timeout is never retried (decideRetry).
HandlerThrows(e, retryable) ==
    /\ Alive(e) /\ e.phase = "handling"
    /\ MoveTo(e, CASE isCancelRequested(e.job) \/ e.signal = "stop" -> "cancelling"
                   [] OTHER -> IF e.signal # "timeout" /\ retryable /\ e.attempt < MaxAttempts
                               THEN "retrying" ELSE "failing")
    /\ UNCHANGED <<rowVars, active, proc, todo, seen, envVars>>

\* Mutated End: without active.delete.
EndKeepsEntry(e) ==
    /\ execs' = execs \ {e}
    /\ UNCHANGED <<active, proc, todo, seen, envVars>>

\* `finally`: the map is keyed by job id, whichever execution the entry is of.
End(e) ==
    /\ execs' = execs \ {e}
    /\ active' = [active EXCEPT ![e.worker] = @ \ {e.job}]
    /\ UNCHANGED <<proc, todo, seen, envVars>>

Complete(e)   == e.phase = "completing" /\ completeJob(e.job) /\ End(e)
RetryLater(e) == e.phase = "retrying" /\ scheduleRetry(e.job, FALSE) /\ End(e)

\* After a timeout handler.cancel is awaited before `finally`.
Fail(e) ==
    /\ e.phase = "failing"
    /\ failJob(e.job)
    /\ IF e.signal = "timeout"
       THEN MoveTo(e, "timedOut") /\ UNCHANGED <<active, proc, todo, seen, envVars>>
       ELSE End(e)

FinishTimeout(e) ==
    /\ Alive(e) /\ e.phase = "timedOut"
    /\ End(e)
    /\ UNCHANGED rowVars

\* finishCancelled, once handler.cancel is done.
FinishCancelled(e) ==
    /\ Alive(e) /\ e.phase = "cancelling"
    /\ markCancelled(e.job)
    /\ End(e)

Run(e) ==
    \/ Heartbeat(e)
    \/ JobTimeout(e)
    \/ HandlerReturns(e)
    \/ \E retryable \in BOOLEAN : HandlerThrows(e, retryable)
    \/ Complete(e)
    \/ RetryLater(e)
    \/ Fail(e)
    \/ FinishTimeout(e)
    \/ FinishCancelled(e)

-----------------------------------------------------------------------------
(***************************************************************************)
(* Recovery: recoverOrphans lists rows, then decides on each from what it  *)
(* read and updates it with no condition but status = 'running'.           *)
(***************************************************************************)
\* Mutated Orphan: `<=` for `<`.
OrphanOnceMore(j) ==
    [job |-> j, op |-> IF attempts[j] <= MaxAttempts /\ ~cancel[j] THEN "requeue" ELSE "fail"]

Orphan(j) ==
    [job |-> j, op |-> IF attempts[j] < MaxAttempts /\ ~cancel[j] THEN "requeue" ELSE "fail"]

\* Mutated Expired: the worker's own active jobs are not skipped.
ExpiredAnywhere(w) == {j \in Jobs : status[j] = "running" /\ lease[j] = "lapsed"}

Expired(w) ==
    {j \in Jobs : status[j] = "running" /\ lease[j] = "lapsed" /\ j \notin active[w]}

OwnLeftovers(w) == {j \in Jobs : status[j] = "running" /\ owner[j] = w}

\* The sweep of loop().
Sweep(w) ==
    /\ proc[w] = "up" /\ ~InBlock(w)
    /\ Expired(w) # {}
    /\ todo' = [todo EXCEPT ![w] = {Orphan(j) : j \in Expired(w)}]
    /\ UNCHANGED <<rowVars, execs, active, proc, seen, envVars>>

\* Mutated recoverOrphanedJob: the shutdown does not reschedule what is left.
RecoverWithoutAbandoned(w, p) ==
    /\ p \in todo[w]
    /\ todo' = [todo EXCEPT ![w] = @ \ {p}]
    /\ \/ p.op = "requeue" /\ scheduleRetry(p.job, TRUE)
       \/ p.op = "fail" /\ failOrphan(p.job)
    /\ UNCHANGED <<execs, active, proc, seen, envVars>>

recoverOrphanedJob(w, p) ==
    /\ p \in todo[w]
    /\ todo' = [todo EXCEPT ![w] = @ \ {p}]
    /\ \/ p.op \in {"requeue", "abandon"} /\ scheduleRetry(p.job, TRUE)
       \/ p.op = "fail" /\ failOrphan(p.job)
    /\ UNCHANGED <<execs, active, proc, seen, envVars>>

-----------------------------------------------------------------------------
(***************************************************************************)
(* The life of a worker process.                                           *)
(***************************************************************************)

\* start(), with its recovery of this id's own rows and of lapsed leases.
Start(w) ==
    /\ proc[w] = "down"
    /\ proc' = [proc EXCEPT ![w] = "up"]
    /\ todo' = [todo EXCEPT ![w] = {Orphan(j) : j \in OwnLeftovers(w) \cup Expired(w)}]
    /\ UNCHANGED <<rowVars, execs, active, seen, envVars>>

\* SIGTERM: stop() sets `stopping`, then aborts the active controllers one by
\* one, awaiting handler.cancel of each.
Stop(w) ==
    /\ proc[w] = "up" /\ ~InBlock(w)
    /\ stops < MaxStops
    /\ stops' = stops + 1
    /\ proc' = [proc EXCEPT ![w] = "stopping"]
    /\ UNCHANGED <<rowVars, execs, active, todo, seen, crashes, requeues>>

\* The execution an entry of the map belongs to: the latest claim of that id.
EntryOf(w, e) ==
    /\ e.worker = w /\ e.job \in active[w]
    /\ \A f \in execs : f.worker = w /\ f.job = e.job => f.attempt <= e.attempt

AbortActive(w, e) ==
    /\ proc[w] = "stopping" /\ ~InBlock(w)
    /\ EntryOf(w, e) /\ e.signal = "none"
    /\ execs' = (execs \ {e}) \cup {[e EXCEPT !.signal = "stop"]}
    /\ UNCHANGED <<rowVars, active, proc, todo, seen, envVars>>

\* No entry is left, or the grace period is over: leftovers are rescheduled.
GraceElapsed(w) ==
    /\ proc[w] = "stopping" /\ ~InBlock(w)
    /\ \A e \in execs : EntryOf(w, e) => e.signal # "none"
    /\ proc' = [proc EXCEPT ![w] = "closing"]
    /\ todo' = [todo EXCEPT ![w] = {[job |-> j, op |-> "abandon"] : j \in active[w]}]
    /\ UNCHANGED <<rowVars, execs, active, seen, envVars>>

\* What ends with the process: its executions and its maps, never its rows.
Vanish(w) ==
    /\ proc'   = [proc EXCEPT ![w] = "down"]
    /\ execs'  = {e \in execs : e.worker # w}
    /\ active' = [active EXCEPT ![w] = {}]
    /\ todo'   = [todo EXCEPT ![w] = {}]
    /\ UNCHANGED <<rowVars, seen>>

Exit(w) ==
    /\ proc[w] = "closing" /\ ~InBlock(w)
    /\ Vanish(w)
    /\ UNCHANGED envVars

\* SIGKILL, an OOM kill, or the shutdown timer of scripts/worker.
Crash(w) ==
    /\ proc[w] # "down"
    /\ crashes < MaxCrashes
    /\ crashes' = crashes + 1
    /\ Vanish(w)
    /\ UNCHANGED <<stops, requeues>>

Process(w) ==
    \/ \E j \in Jobs : claimNextJob(w, j)
    \/ Sweep(w)
    \/ \E p \in todo[w] : recoverOrphanedJob(w, p)
    \/ Start(w)
    \/ Stop(w)
    \/ \E e \in execs : AbortActive(w, e)
    \/ GraceElapsed(w)
    \/ Exit(w)
    \/ Crash(w)

-----------------------------------------------------------------------------
(***************************************************************************)
(* Time.                                                                   *)
(***************************************************************************)
HeartbeatsKeep(j) ==
    /\ j \in Punctual
    /\ \E e \in execs : e.job = j /\ e.worker = owner[j] /\ e.phase = "handling"

LeaseLapses(j) ==
    /\ lease[j] = "live"
    /\ ~HeartbeatsKeep(j)
    /\ lease' = [lease EXCEPT ![j] = "lapsed"]
    /\ UNCHANGED <<status, owner, attempts, cancel, due, execs, active, proc, todo, seen, envVars>>

BackoffElapses(j) ==
    /\ status[j] \in Waiting /\ ~due[j]
    /\ due' = [due EXCEPT ![j] = TRUE]
    /\ UNCHANGED <<status, owner, lease, attempts, cancel, execs, active, proc, todo, seen, envVars>>

Time(j) == LeaseLapses(j) \/ BackoffElapses(j)

-----------------------------------------------------------------------------
Next ==
    \/ \E j \in Jobs : Web(j) \/ Time(j)
    \/ \E w \in Workers : Process(w)
    \/ \E e \in execs : Run(e)

Spec == Init /\ [][Next]_vars

(***************************************************************************)
(* Fairness.  Workers are restarted (`restart: unless-stopped`), their     *)
(* loop polls for ever, a handler ends (its sandbox and its job have time  *)
(* limits), and time passes.  Nothing makes a lease lapse under a handler. *)
(***************************************************************************)
Fairness ==
    /\ \A w \in Workers :
          /\ WF_vars(Start(w) \/ GraceElapsed(w) \/ Exit(w))
          /\ WF_vars(\E j \in Jobs : claimNextJob(w, j))
          /\ WF_vars(Sweep(w) \/ \E p \in todo[w] : recoverOrphanedJob(w, p))
          /\ WF_vars(\E e \in execs : AbortActive(w, e))
          /\ \A j \in Jobs :
                /\ WF_vars(\E e \in execs : /\ e.worker = w /\ e.job = j
                                            /\ HandlerReturns(e) \/ HandlerThrows(e, TRUE))
                /\ WF_vars(\E e \in execs : /\ e.worker = w /\ e.job = j
                                            /\ \/ Complete(e) \/ RetryLater(e) \/ Fail(e)
                                               \/ FinishTimeout(e) \/ FinishCancelled(e))
    /\ \A j \in Jobs :
          /\ WF_vars(LeaseLapses(j) /\ \A e \in execs : e.job # j)
          /\ WF_vars(BackoffElapses(j))

FairSpec == Spec /\ Fairness

-----------------------------------------------------------------------------
(***************************************************************************)
(* Properties of any fleet.                                                *)
(***************************************************************************)

\* A row has a lease exactly while it runs, and a worker while it runs; a row
\* that waits has none.  A running row without a lease would never be found by
\* listExpiredLeases, whatever became of its worker.
LeaseDiscipline ==
    \A j \in Jobs :
        /\ status[j] = "running" <=> lease[j] # "none"
        /\ status[j] = "running" => owner[j] \in Workers
        /\ status[j] \in Waiting => owner[j] = None

\* However often a job is claimed, retried, recovered, abandoned and requeued
\* by an administrator, no attempt number is handed to two executions.
ClaimsAreExclusive ==
    \A e \in execs :
        /\ e.attempt <= attempts[e.job]
        /\ \A f \in execs : e.job = f.job /\ e.attempt = f.attempt => e = f

\* What the queue promises its callers, whichever process writes: JobContract.
Contract == INSTANCE JobContract WITH
    state <- [j \in Jobs |-> IF status[j] \in Waiting THEN "pending" ELSE status[j]],
    deliveries <- attempts

ImplementsContract == Contract!Spec

\* An accepted job ends, whatever crashes, shutdowns, lapsed leases and stale
\* executions come in between.
EveryJobSettles == \A j \in Jobs : status[j] \in Active ~> status[j] \notin Active

\* A worker that was told to stop does stop.
StopCompletes == \A w \in Workers : proc[w] = "stopping" ~> proc[w] = "down"

-----------------------------------------------------------------------------
(***************************************************************************)
(* Properties of the documented deployment, one worker per database, while *)
(* no administrator requeues: a job that failed by its time limit can be   *)
(* requeued, and claimed again, while run() still awaits handler.cancel.   *)
(***************************************************************************)

\* Every live execution is of the latest claim of its job, so no two executions
\* of a job overlap and none decides the outcome of a later attempt.
OnlyCurrentAttemptRuns == \A e \in execs : e.attempt = attempts[e.job]

\* decideRetry and recoverOrphanedJob stop at max_attempts; only a job that was
\* abandoned by a shutdown is delivered beyond it, once per shutdown.
AttemptBudget == \A j \in Jobs : attempts[j] <= MaxAttempts + stops

\* The map of active jobs, keyed by job id, neither forgets a job that still
\* executes nor keeps one that ended: the concurrency limit, the sweep and the
\* shutdown all rely on it.
ActiveTracksExecutions ==
    \A w \in Workers : active[w] = {e.job : e \in {f \in execs : f.worker = w}}

\* A user never has more automated tests running than the per-user cap.
UserConcurrencyCap ==
    \A j \in Jobs :
        UserOf[j] # None => Cardinality(RunningTests(UserOf[j])) <= UserConcurrency
=============================================================================
