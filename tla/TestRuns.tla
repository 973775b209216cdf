------------------------------ MODULE TestRuns ------------------------------
(***************************************************************************)
(* An automated test run: the `test_runs` row, its job, its quota          *)
(* reservation, the handler (lib/jobs/handlers/automated-test) with the    *)
(* TestRunManager it drives, and the maintenance that closes what is left. *)
(*                                                                         *)
(* The job is the one JobContract promises, with one worker: JobQueue      *)
(* shows that executions of a job do not overlap there.  A step is a       *)
(* statement or a transaction; `todo` holds the statements left of the     *)
(* block of code, without an await, that the worker is in.  A crash may    *)
(* come between any two of them.                                           *)
(***************************************************************************)
EXTENDS Naturals, FiniteSets

CONSTANTS
    Runs,           \* runs that may be created
    Users,
    UserOf,         \* [Runs -> Users]
    MaxAttempts,    \* max_attempts of the job
    MaxActive,      \* runs of a user that are not final, createQueuedTestRun
    Limit,          \* test runs of a user in a period: plan.testRunLimit
    MaxCrashes, MaxStops, MaxOverrides    \* bounds on the environment

ASSUME TestRunsAssumption ==
    /\ IsFiniteSet(Runs)
    /\ UserOf \in [Runs -> Users]
    /\ Limit \in Nat

VARIABLES
    run,            \* test_runs.status; "absent" before the insert
    outcome,        \* test_runs.outcome; "EXECUTED" is any outcome of executed tests
    resv,           \* quota_reservations: open, consumed or released
    usage,          \* usage_events, each with the delivery that recorded it
    booted,         \* runs whose sandbox has started in some delivery
    job,            \* the job of the run, as in JobContract
    deliveries,
    cancel,         \* jobs.cancel_requested_at is set
    phase,          \* where the execution of the job is
    code,           \* how handle ends, or why its sandbox failed
    signal,         \* why its AbortController was aborted
    mgr,            \* state of the snapshot in its TestRunManager
    started,        \* snap.startedAt is set
    todo,           \* statements left of the worker's current block
    seen,           \* cancelRun, between its two statements
    worker, crashes, stops, overrides

runVars   == <<run, outcome>>
quotaVars == <<resv, usage, booted>>
jobVars   == <<job, deliveries, cancel>>
execVars  == <<phase, code, signal>>
mgrVars   == <<mgr, started>>
workVars  == <<execVars, mgrVars, todo>>
envVars   == <<worker, crashes, stops, overrides>>
vars      == <<runVars, quotaVars, jobVars, workVars, seen, envVars>>

ActiveRun == {"queued", "preparing", "starting", "running", "stopping"}
Final     == {"completed", "failed", "timeout", "destroyed"}
Executed  == {"EXECUTED", "TIMEOUT"}
Outcomes  == Executed \cup {"none", "FAILED", "INFRASTRUCTURE_ERROR", "CANCELLED"}

Queue == INSTANCE JobContract WITH Jobs <- Runs, state <- job

\* How handle ends: it returns, or it throws an error that is transient,
\* permanent, or says the package is invalid.
Codes  == {"ok", "transient", "permanent", "invalid"}
Phases == {"idle", "entering", "preparing", "booting", "testing", "cleaning",
           "unwinding", "marking", "timedOut"}
Signals == {"none", "timeout", "stop", "timeoutStop"}   \* a first reason is kept
Snaps  == {"none", "live", "stopping"} \cup Final
Ops    == {"requeue", "fail", "orphan", "stale", "abandon", "consume", "release", "saveStopped"}
Todo   == [run : Runs, op : Ops]

TypeOK ==
    /\ run        \in [Runs -> ActiveRun \cup Final \cup {"absent"}]
    /\ outcome    \in [Runs -> Outcomes]
    /\ resv       \in [Runs -> {"none", "open", "consumed", "released"}]
    /\ usage      \subseteq [run : Runs, delivery : Nat]
    /\ booted     \subseteq Runs
    /\ job        \in [Runs -> Queue!States]
    /\ deliveries \in [Runs -> Nat]
    /\ cancel     \in [Runs -> BOOLEAN]
    /\ phase      \in [Runs -> Phases]
    /\ code       \in [Runs -> Codes]
    /\ signal     \in [Runs -> Signals]
    /\ mgr        \in [Runs -> Snaps]
    /\ started    \in [Runs -> BOOLEAN]
    /\ todo       \subseteq Todo
    /\ seen       \subseteq [run : Runs, cancelled : BOOLEAN]
    /\ worker     \in {"down", "up", "stopping", "closing"}
    /\ crashes \in Nat /\ stops \in Nat /\ overrides \in Nat

Init ==
    /\ run        = [r \in Runs |-> "absent"]
    /\ outcome    = [r \in Runs |-> "none"]
    /\ resv       = [r \in Runs |-> "none"]
    /\ usage      = {}
    /\ booted     = {}
    /\ job        = [r \in Runs |-> "absent"]
    /\ deliveries = [r \in Runs |-> 0]
    /\ cancel     = [r \in Runs |-> FALSE]
    /\ phase      = [r \in Runs |-> "idle"]
    /\ code       = [r \in Runs |-> "ok"]
    /\ signal     = [r \in Runs |-> "none"]
    /\ mgr        = [r \in Runs |-> "none"]
    /\ started    = [r \in Runs |-> FALSE]
    /\ todo       = {}
    /\ seen       = {}
    /\ worker     = "down"
    /\ crashes = 0 /\ stops = 0 /\ overrides = 0

-----------------------------------------------------------------------------
(***************************************************************************)
(* Statements.                                                             *)
(***************************************************************************)
isFinal(r) == run[r] \in Final

\* Mutated SetRun: the two columns are swapped.
SetRunSwapped(r, s, o) ==
    /\ run' = [run EXCEPT ![r] = o]
    /\ outcome' = [outcome EXCEPT ![r] = s]

SetRun(r, s, o) ==
    /\ run' = [run EXCEPT ![r] = s]
    /\ outcome' = [outcome EXCEPT ![r] = o]

\* updateTestRunStage and updateTestRunStatus: whatever the row says.
updateTestRunStatus(r, s) == SetRun(r, s, outcome[r])

finalizeTestRunWithoutResults(r, s, o) ==
    IF run[r] # "completed" THEN SetRun(r, s, o) ELSE UNCHANGED runVars

requeueTestRunForRetry(r) ==
    IF run[r] \notin {"completed", "timeout", "destroyed"}
    THEN SetRun(r, "queued", "none") ELSE UNCHANGED runVars

Release(r) == [resv EXCEPT ![r] = IF @ = "open" THEN "released" ELSE @]

\* Mutated consumeReservation: consumed_at and released_at are not looked at.
ConsumeAnyway(r) ==
    /\ resv' = [resv EXCEPT ![r] = "consumed"]
    /\ usage' = usage \cup {[run |-> r, delivery |-> deliveries[r]]}

consumeReservation(r) ==
    IF resv[r] = "open"
    THEN /\ resv' = [resv EXCEPT ![r] = "consumed"]
         /\ usage' = usage \cup {[run |-> r, delivery |-> deliveries[r]]}
    ELSE UNCHANGED <<resv, usage>>

\* One transaction; a sandbox that never started is not charged.
saveTestRunFinal(r, s, o) ==
    /\ SetRun(r, s, o)
    /\ resv' = IF started[r] THEN resv ELSE Release(r)
    /\ UNCHANGED <<usage, booted>>

Plan(r, op) == todo' = todo \cup {[run |-> r, op |-> op]}

finalizeCancelled(r) ==
    finalizeTestRunWithoutResults(r, "destroyed", "CANCELLED") /\ Plan(r, "release")

-----------------------------------------------------------------------------
(***************************************************************************)
(* The web process.                                                        *)
(***************************************************************************)
ActiveOf(u)   == {r \in Runs : UserOf[r] = u /\ run[r] \in ActiveRun}
UsedBy(u)     == {e \in usage : UserOf[e.run] = u}
ReservedBy(u) == {r \in Runs : UserOf[r] = u /\ resv[r] = "open"}

\* Mutated canRunTests: open reservations are not counted.
CanRunUsed(u) == Cardinality(UsedBy(u)) < Limit

canRunTests(u) == Cardinality(UsedBy(u)) + Cardinality(ReservedBy(u)) < Limit

\* One transaction: the run, its reservation and its job.
createQueuedTestRun(r) ==
    /\ run[r] = "absent"
    /\ Cardinality(ActiveOf(UserOf[r])) < MaxActive
    /\ canRunTests(UserOf[r])
    /\ SetRun(r, "queued", "none")
    /\ resv' = [resv EXCEPT ![r] = "open"]
    /\ Queue!Submit(r)
    /\ UNCHANGED <<usage, booted, cancel, workVars, seen, envVars>>

\* cancelRun cancels the job first, then updates the run by what came of it.
CancelJobOf(r) ==
    /\ run[r] \in ActiveRun
    /\ IF job[r] = "pending" THEN Queue!Become(r, "cancelled") ELSE UNCHANGED <<job, deliveries>>
    /\ cancel' = [cancel EXCEPT ![r] = @ \/ job[r] \in {"pending", "running"}]
    /\ seen' = seen \cup {[run |-> r, cancelled |-> job[r] \in {"pending", "cancelled"}]}
    /\ UNCHANGED <<runVars, quotaVars, workVars, envVars>>

cancelRun(s) ==
    /\ s \in seen
    /\ seen' = seen \ {s}
    /\ \/ /\ s.cancelled
          /\ IF isFinal(s.run) THEN UNCHANGED runVars ELSE SetRun(s.run, "destroyed", "CANCELLED")
          /\ resv' = Release(s.run)
       \/ /\ ~s.cancelled
          /\ IF run[s.run] = "running" THEN updateTestRunStatus(s.run, "stopping")
                                       ELSE UNCHANGED runVars
          /\ UNCHANGED resv
    /\ UNCHANGED <<usage, booted, jobVars, workVars, envVars>>

\* An administrator cancels or reopens the job, without a look at the run.
cancelJobAdmin(r) ==
    /\ \/ job[r] = "pending" /\ Queue!Become(r, "cancelled") /\ UNCHANGED overrides
       \/ job[r] = "running" /\ UNCHANGED <<job, deliveries, overrides>>
       \/ /\ job[r] = "running"        \* claimed since it was read as waiting
          /\ overrides < MaxOverrides
          /\ overrides' = overrides + 1
          /\ Queue!Become(r, "cancelled")
    /\ cancel' = [cancel EXCEPT ![r] = TRUE]
    /\ UNCHANGED <<runVars, quotaVars, workVars, seen, worker, crashes, stops>>

retryJobAdmin(r) ==
    /\ overrides < MaxOverrides
    /\ overrides' = overrides + 1
    /\ Queue!Reopen(r)
    /\ cancel' = [cancel EXCEPT ![r] = FALSE]
    /\ UNCHANGED <<runVars, quotaVars, workVars, seen, worker, crashes, stops>>

Web(r) ==
    \/ createQueuedTestRun(r)
    \/ CancelJobOf(r)
    \/ \E b \in BOOLEAN : cancelRun([run |-> r, cancelled |-> b])
    \/ cancelJobAdmin(r)
    \/ retryJobAdmin(r)

-----------------------------------------------------------------------------
(***************************************************************************)
(* The handler, and the TestRunManager it drives.                          *)
(***************************************************************************)
InBlock ==
    \/ todo # {}
    \/ \E r \in Runs : phase[r] \in {"entering", "marking", "timedOut"}

Aborted(r) == signal[r] # "none" \/ worker # "up"

isCancelRequested(r) == cancel[r] \/ job[r] = "cancelled"

\* context.isCancelled(true), and what context.isCancelled() may answer: the
\* row is read again only every 250 ms.
isCancelled(r) == isCancelRequested(r) \/ Aborted(r)
Seen(r)        == {isCancelled(r), Aborted(r)}

attemptsRemain(r) == deliveries[r] < MaxAttempts

At(r, p)       == ~InBlock /\ phase[r] = p
MoveTo(r, p)   == phase' = [phase EXCEPT ![r] = p] /\ UNCHANGED <<code, signal>>
SetMgr(r, s)   == mgr' = [mgr EXCEPT ![r] = s] /\ UNCHANGED started

\* The handler goes on to p, with c for what happened.
MoveWith(r, p, c) ==
    /\ phase' = [phase EXCEPT ![r] = p]
    /\ code' = [code EXCEPT ![r] = c]
    /\ UNCHANGED signal

Unwind(r, c) == MoveWith(r, "unwinding", c)

\* claimNextJob, up to the handler.
Claim(r) ==
    /\ worker = "up" /\ ~InBlock /\ phase[r] = "idle"
    /\ Queue!Deliver(r)
    /\ MoveTo(r, "entering")
    /\ mgr' = [mgr EXCEPT ![r] = "none"]
    /\ started' = [started EXCEPT ![r] = FALSE]
    /\ UNCHANGED <<runVars, quotaVars, cancel, todo, seen, envVars>>

\* Mutated Enter: a run that already finished is executed again.
EnterAnyway(r) ==
    /\ phase[r] = "entering" /\ todo = {}
    /\ updateTestRunStatus(r, "preparing") /\ MoveTo(r, "preparing") /\ UNCHANGED todo
    /\ UNCHANGED <<quotaVars, jobVars, mgrVars, seen, envVars>>

\* The start of handle, up to the first await.
Enter(r) ==
    /\ phase[r] = "entering" /\ todo = {}
    /\ \/ /\ isFinal(r)
          /\ Unwind(r, IF run[r] = "failed" /\ outcome[r] = "INFRASTRUCTURE_ERROR"
                       THEN "permanent" ELSE "ok")
          /\ UNCHANGED <<runVars, todo>>
       \/ /\ ~isFinal(r) /\ isCancelled(r)
          /\ finalizeCancelled(r)
          /\ Unwind(r, "ok")
       \/ /\ ~isFinal(r) /\ ~isCancelled(r)
          /\ updateTestRunStatus(r, "preparing")
          /\ MoveTo(r, "preparing")
          /\ UNCHANGED todo
    /\ UNCHANGED <<quotaVars, jobVars, mgrVars, seen, envVars>>

\* The catch of handle, for an error c thrown before the manager took over.
Caught(r, c) ==
    /\ At(r, "preparing")
    /\ \/ isFinal(r) /\ UNCHANGED <<runVars, todo>>
       \/ ~isFinal(r) /\ TRUE \in Seen(r) /\ finalizeCancelled(r)
       \/ /\ ~isFinal(r) /\ FALSE \in Seen(r)
          /\ IF c = "transient" /\ attemptsRemain(r)
             THEN requeueTestRunForRetry(r) /\ UNCHANGED todo
             ELSE /\ finalizeTestRunWithoutResults(
                         r, "failed", IF c = "invalid" THEN "FAILED" ELSE "INFRASTRUCTURE_ERROR")
                  /\ Plan(r, "release")
    /\ Unwind(r, IF c = "transient" THEN c ELSE "permanent")
    /\ UNCHANGED <<quotaVars, jobVars, mgrVars, seen, envVars>>

\* Mutated Preflight: the reservation is consumed before the sandbox starts.
PreflightCharges(r) ==
    /\ At(r, "preparing") /\ ~isCancelled(r)
    /\ updateTestRunStatus(r, "starting")
    /\ MoveTo(r, "booting")
    /\ SetMgr(r, "live")
    /\ Plan(r, "consume")
    /\ UNCHANGED <<quotaVars, jobVars, seen, envVars>>

\* The checks before the sandbox pass; the manager is created and executes.
Preflight(r) ==
    /\ At(r, "preparing")
    /\ \/ isCancelled(r) /\ finalizeCancelled(r) /\ Unwind(r, "ok") /\ UNCHANGED mgrVars
       \/ /\ ~isCancelled(r)
          /\ updateTestRunStatus(r, "starting")
          /\ MoveTo(r, "booting")
          /\ SetMgr(r, "live")
          /\ UNCHANGED todo
    /\ UNCHANGED <<quotaVars, jobVars, seen, envVars>>

\* executeRun, at a point where the manager is not being stopped.
Executing(r, p) == At(r, p) /\ mgr[r] = "live"

\* onStatus "running": the status, and then the charge.
SandboxStarts(r) ==
    /\ Executing(r, "booting")
    /\ MoveTo(r, "testing")
    /\ started' = [started EXCEPT ![r] = TRUE] /\ UNCHANGED mgr
    /\ booted' = booted \cup {r}
    /\ IF run[r] = "running" THEN UNCHANGED <<runVars, todo>>
       ELSE updateTestRunStatus(r, "running") /\ Plan(r, "consume")
    /\ UNCHANGED <<resv, usage, jobVars, seen, envVars>>

\* What fails while tests execute is recorded in their results, save for an
\* unexpected error.
SandboxFails(r, c) ==
    /\ \/ Executing(r, "booting")
       \/ Executing(r, "testing") /\ c = "permanent"
    /\ MoveWith(r, "cleaning", c)
    /\ SetMgr(r, "failed")
    /\ updateTestRunStatus(r, "failed")
    /\ UNCHANGED <<quotaVars, jobVars, todo, seen, envVars>>

TestsEnd(r, s) ==
    /\ Executing(r, "testing")
    /\ MoveTo(r, "cleaning")
    /\ SetMgr(r, s)
    /\ updateTestRunStatus(r, s)
    /\ UNCHANGED <<quotaVars, jobVars, todo, seen, envVars>>

\* executeRun returns early; stop() owns what is left.
ExecuteReturns(r) ==
    /\ \E p \in {"booting", "testing"} : At(r, p)
    /\ mgr[r] \in {"stopping", "destroyed"}
    /\ Unwind(r, "ok")
    /\ UNCHANGED <<runVars, quotaVars, jobVars, mgrVars, todo, seen, envVars>>

\* deriveOutcome, for a status and the class of the error.
deriveOutcome(s, c) ==
    CASE s = "failed"    -> {IF c = "invalid" THEN "FAILED" ELSE "INFRASTRUCTURE_ERROR"}
      [] s = "timeout"   -> {"TIMEOUT"}
      [] s = "completed" -> {"EXECUTED", "INFRASTRUCTURE_ERROR"}

\* shouldRetry of onFinished, but for the cancellation: a sandbox that failed to
\* start may do so on another attempt.
shouldRetry(r) ==
    /\ mgr[r] = "failed" /\ ~started[r]
    /\ code[r] = "transient" /\ attemptsRemain(r)

\* onFinished with the outcome, and how handle ends.
Finished(r) ==
    /\ shouldRetry(r) => TRUE \in Seen(r)
    /\ \E o \in deriveOutcome(mgr[r], code[r]) : saveTestRunFinal(r, mgr[r], o)
    /\ Unwind(r, IF mgr[r] = "failed" /\ code[r] # "invalid" THEN "permanent" ELSE "ok")

\* Mutated SandboxRemoved: the retry releases the reservation.
RetryReleases(r) ==
    /\ At(r, "cleaning")
    /\ \/ /\ shouldRetry(r) /\ FALSE \in Seen(r)
          /\ requeueTestRunForRetry(r)
          /\ Unwind(r, "transient")
          /\ resv' = Release(r)
          /\ UNCHANGED <<usage, booted>>
       \/ Finished(r)
    /\ UNCHANGED <<jobVars, mgrVars, todo, seen, envVars>>

\* The sandbox is gone: onFinished.  A retry keeps the reservation open.
SandboxRemoved(r) ==
    /\ At(r, "cleaning")
    /\ \/ /\ shouldRetry(r) /\ FALSE \in Seen(r)
          /\ requeueTestRunForRetry(r)
          /\ Unwind(r, "transient")
          /\ UNCHANGED quotaVars
       \/ Finished(r)
    /\ UNCHANGED <<jobVars, mgrVars, todo, seen, envVars>>

\* manager.stop(), from the two-second timer of the handler.
StopRun(r) ==
    /\ \E p \in {"booting", "testing"} : Executing(r, p)
    /\ isCancelled(r)
    /\ SetMgr(r, "stopping")
    /\ UNCHANGED <<runVars, quotaVars, jobVars, execVars, todo, seen, envVars>>

\* stop() goes on by itself, when handle may have returned: onStatus, onFinished.
StopDone(r) ==
    /\ mgr[r] = "stopping" /\ ~InBlock /\ worker # "down"
    /\ SetMgr(r, "destroyed")
    /\ updateTestRunStatus(r, "destroyed")
    /\ Plan(r, "saveStopped")
    /\ UNCHANGED <<quotaVars, jobVars, execVars, seen, envVars>>

Handle(r) ==
    \/ Enter(r)
    \/ \E c \in Codes \ {"ok"} : Caught(r, c) \/ SandboxFails(r, c)
    \/ Preflight(r)
    \/ SandboxStarts(r)
    \/ \E s \in {"completed", "timeout"} : TestsEnd(r, s)
    \/ ExecuteReturns(r)
    \/ SandboxRemoved(r)
    \/ StopRun(r)
    \/ StopDone(r)

-----------------------------------------------------------------------------
(***************************************************************************)
(* JobWorker.run after the handler, and the rest of the worker.            *)
(***************************************************************************)
End(r) ==
    /\ phase' = [phase EXCEPT ![r] = "idle"]
    /\ code' = [code EXCEPT ![r] = "ok"]
    /\ signal' = [signal EXCEPT ![r] = "none"]

\* Mutated UpdateJob: without the condition on the status.
UpdateJobAnyway(r, from, s) == Queue!Become(r, s)

\* A statement on the job, for which it has to be in one of the states `from`.
UpdateJob(r, from, s) ==
    IF job[r] \in from THEN Queue!Become(r, s) ELSE UNCHANGED <<job, deliveries>>

\* finishCancelled: handler.cancel when the handler is done, then the job.
finishCancelled(r) ==
    /\ MoveTo(r, "marking")
    /\ IF isFinal(r) THEN UNCHANGED <<runVars, todo>> ELSE finalizeCancelled(r)
    /\ UNCHANGED jobVars

HandleReturned(r) ==
    /\ At(r, "unwinding") /\ code[r] = "ok"
    /\ \/ /\ isCancelRequested(r) \/ signal[r] # "none"
          /\ finishCancelled(r)
       \/ /\ ~isCancelRequested(r) /\ signal[r] = "none"
          /\ UpdateJob(r, {"running"}, "completed")
          /\ End(r)
          /\ UNCHANGED <<runVars, cancel, todo>>
    /\ UNCHANGED <<quotaVars, mgrVars, seen, envVars>>

HandleThrew(r) ==
    /\ At(r, "unwinding") /\ code[r] # "ok"
    /\ \/ /\ isCancelRequested(r) \/ signal[r] = "stop"
          /\ finishCancelled(r)
       \/ /\ ~isCancelRequested(r) /\ signal[r] # "stop"
          /\ IF signal[r] = "none" /\ code[r] = "transient" /\ attemptsRemain(r)
             THEN UpdateJob(r, {"running"}, "pending")
             ELSE UpdateJob(r, {"running", "pending"}, "failed")
          /\ IF signal[r] = "none" THEN End(r) ELSE MoveTo(r, "timedOut")
          /\ UNCHANGED <<runVars, cancel, todo>>
    /\ UNCHANGED <<quotaVars, mgrVars, seen, envVars>>

markCancelled(r) ==
    /\ phase[r] = "marking" /\ todo = {}
    /\ UpdateJob(r, {"running", "pending"}, "cancelled")
    /\ End(r)
    /\ cancel' = [cancel EXCEPT ![r] = @ \/ job[r] \in {"running", "pending"}]
    /\ UNCHANGED <<runVars, quotaVars, mgrVars, todo, seen, envVars>>

\* handler.cancel closes the run first, so finalizeTimedOutRun finds it closed.
FinishTimeout(r) ==
    /\ phase[r] = "timedOut" /\ todo = {}
    /\ IF isFinal(r) THEN UNCHANGED <<runVars, todo>> ELSE finalizeCancelled(r)
    /\ End(r)
    /\ UNCHANGED <<quotaVars, jobVars, mgrVars, seen, envVars>>

JobTimeout(r) ==
    /\ ~InBlock /\ phase[r] # "idle" /\ signal[r] = "none"
    /\ signal' = [signal EXCEPT ![r] = "timeout"] /\ UNCHANGED <<phase, code>>
    /\ UNCHANGED <<runVars, quotaVars, jobVars, mgrVars, todo, seen, envVars>>

Run(r) == HandleReturned(r) \/ HandleThrew(r) \/ markCancelled(r) \/ FinishTimeout(r)

\* The constructor's recovery of the jobs the previous process left.
Start ==
    /\ worker = "down"
    /\ worker' = "up"
    /\ todo' = {[run |-> r, op |-> IF attemptsRemain(r) /\ ~cancel[r] THEN "requeue" ELSE "fail"] :
                   r \in {q \in Runs : job[q] = "running"}}
    /\ UNCHANGED <<runVars, quotaVars, jobVars, execVars, mgrVars, seen, crashes, stops, overrides>>

Stop ==
    /\ worker = "up" /\ ~InBlock
    /\ stops < MaxStops
    /\ stops' = stops + 1
    /\ worker' = "stopping"
    /\ UNCHANGED <<runVars, quotaVars, jobVars, workVars, seen, crashes, overrides>>

\* stop() aborts an execution and calls handler.cancel for it.
AbortStop(r) ==
    /\ worker = "stopping" /\ ~InBlock
    /\ phase[r] # "idle" /\ signal[r] \in {"none", "timeout"}
    /\ signal' = [signal EXCEPT ![r] = IF @ = "none" THEN "stop" ELSE "timeoutStop"]
    /\ UNCHANGED <<phase, code>>
    /\ LET active == \E p \in {"booting", "testing", "cleaning"} : phase[r] = p
       IN  \/ active /\ mgr[r] = "live" /\ SetMgr(r, "stopping") /\ UNCHANGED <<runVars, todo>>
           \/ active /\ mgr[r] # "live" /\ UNCHANGED <<runVars, mgrVars, todo>>
           \/ ~active /\ isFinal(r) /\ UNCHANGED <<runVars, mgrVars, todo>>
           \/ ~active /\ ~isFinal(r) /\ finalizeCancelled(r) /\ UNCHANGED mgrVars
    /\ UNCHANGED <<quotaVars, jobVars, seen, envVars>>

\* The jobs still active are given back, each by a statement.
GraceElapsed ==
    /\ worker = "stopping" /\ ~InBlock
    /\ \A r \in Runs : phase[r] # "idle" => signal[r] \in {"stop", "timeoutStop"}
    /\ worker' = "closing"
    /\ todo' = {[run |-> r, op |-> "abandon"] : r \in {q \in Runs : phase[q] # "idle"}}
    /\ UNCHANGED <<runVars, quotaVars, jobVars, execVars, mgrVars, seen, crashes, stops, overrides>>

Down ==
    /\ worker' = "down"
    /\ phase' = [r \in Runs |-> "idle"]
    /\ code' = [r \in Runs |-> "ok"]
    /\ signal' = [r \in Runs |-> "none"]
    /\ mgr' = [r \in Runs |-> "none"]
    /\ started' = [r \in Runs |-> FALSE]
    /\ todo' = {}
    /\ UNCHANGED <<runVars, quotaVars, jobVars, seen, stops, overrides>>

Exit  == worker = "closing" /\ ~InBlock /\ Down /\ UNCHANGED crashes
Crash == worker # "down" /\ crashes < MaxCrashes /\ crashes' = crashes + 1 /\ Down

-----------------------------------------------------------------------------
(***************************************************************************)
(* The statements left of a block, each a step.                            *)
(***************************************************************************)
Left(t) == todo' = todo \ {t}

\* recoverOrphans treats one job after the other.
Recover(t) ==
    /\ t \in todo /\ t.op \in {"requeue", "fail", "abandon"}
    /\ \A u \in todo : u.op # "orphan"
    /\ UpdateJob(t.run, {"running"}, IF t.op = "fail" THEN "failed" ELSE "pending")
    /\ todo' = (todo \ {t}) \cup (IF t.op = "fail" THEN {[run |-> t.run, op |-> "orphan"]} ELSE {})
    /\ UNCHANGED <<runVars, quotaVars, cancel, execVars, mgrVars, seen, envVars>>

\* afterOrphanRecovery, and a run that maintenance listed as stale.
CloseRun(t) ==
    /\ t \in todo /\ t.op \in {"orphan", "stale"}
    /\ IF t.op = "orphan" /\ isFinal(t.run)
       THEN UNCHANGED runVars /\ Left(t)
       ELSE /\ finalizeTestRunWithoutResults(t.run, "failed", "INFRASTRUCTURE_ERROR")
            /\ todo' = (todo \ {t}) \cup {[run |-> t.run, op |-> "release"]}
    /\ UNCHANGED <<quotaVars, jobVars, execVars, mgrVars, seen, envVars>>

SettleQuota(t) ==
    /\ t \in todo /\ t.op \in {"consume", "release"}
    /\ IF t.op = "consume" THEN consumeReservation(t.run)
                           ELSE resv' = Release(t.run) /\ UNCHANGED usage
    /\ Left(t)
    /\ UNCHANGED <<runVars, booted, jobVars, execVars, mgrVars, seen, envVars>>

SaveStopped(t) ==
    /\ t \in todo /\ t.op = "saveStopped"
    /\ saveTestRunFinal(t.run, "destroyed", "CANCELLED")
    /\ Left(t)
    /\ UNCHANGED <<jobVars, execVars, mgrVars, seen, envVars>>

Do(t) == Recover(t) \/ CloseRun(t) \/ SettleQuota(t) \/ SaveStopped(t)

-----------------------------------------------------------------------------
(***************************************************************************)
(* Maintenance, a job of the same worker.  A run is stale long after its   *)
(* job could execute (STALE_RUN_MS is above JOB_TIMEOUT_MS).               *)
(***************************************************************************)
Maintaining == worker = "up" /\ ~InBlock

ExpireStaleJob(r) ==
    /\ Maintaining /\ job[r] = "pending"
    /\ Queue!Become(r, "expired")
    /\ UNCHANGED <<runVars, quotaVars, cancel, workVars, seen, envVars>>

\* Mutated CloseStaleRun: a queued run is not stale.
CloseStaleStarted(r) ==
    /\ Maintaining /\ run[r] \in ActiveRun \ {"queued"} /\ phase[r] = "idle"
    /\ Plan(r, "stale")
    /\ UNCHANGED <<runVars, quotaVars, jobVars, execVars, mgrVars, seen, envVars>>

CloseStaleRun(r) ==
    /\ Maintaining /\ run[r] \in ActiveRun /\ phase[r] = "idle"
    /\ Plan(r, "stale")
    /\ UNCHANGED <<runVars, quotaVars, jobVars, execVars, mgrVars, seen, envVars>>

\* Mutated releaseDanglingReservations: by its age alone.
DanglingByAge(r) ==
    /\ Maintaining /\ phase[r] = "idle" /\ resv[r] = "open"
    /\ resv' = Release(r)
    /\ UNCHANGED <<runVars, usage, booted, jobVars, workVars, seen, envVars>>

\* Mutated releaseDanglingReservations: of jobs that did not succeed.
DanglingOfUnsuccessful(r) ==
    /\ Maintaining /\ phase[r] = "idle"
    /\ resv[r] = "open" /\ job[r] \in {"failed", "cancelled", "expired"}
    /\ resv' = Release(r)
    /\ UNCHANGED <<runVars, usage, booted, jobVars, workVars, seen, envVars>>

releaseDanglingReservations(r) ==
    /\ Maintaining /\ phase[r] = "idle"
    /\ resv[r] = "open" /\ job[r] \notin {"pending", "running"}
    /\ resv' = Release(r)
    /\ UNCHANGED <<runVars, usage, booted, jobVars, workVars, seen, envVars>>

Maintain(r) == ExpireStaleJob(r) \/ CloseStaleRun(r) \/ releaseDanglingReservations(r)

-----------------------------------------------------------------------------
Next ==
    \/ \E r \in Runs : Web(r) \/ Claim(r) \/ Handle(r) \/ Run(r) \/ JobTimeout(r)
                       \/ AbortStop(r) \/ Maintain(r)
    \/ \E t \in todo : Do(t)
    \/ Start \/ Stop \/ GraceElapsed \/ Exit \/ Crash

Spec == Init /\ [][Next]_vars

Fairness ==
    /\ WF_vars(Start) /\ WF_vars(GraceElapsed) /\ WF_vars(Exit)
    /\ WF_vars(\E t \in todo : Do(t))
    /\ \A r \in Runs :
          /\ WF_vars(Claim(r)) /\ WF_vars(Handle(r)) /\ WF_vars(Run(r)) /\ WF_vars(AbortStop(r))
          /\ WF_vars(CloseStaleRun(r)) /\ WF_vars(releaseDanglingReservations(r))
          /\ WF_vars(\E b \in BOOLEAN : cancelRun([run |-> r, cancelled |-> b]))

FairSpec == Spec /\ Fairness

-----------------------------------------------------------------------------
(***************************************************************************)
(* Properties.                                                             *)
(***************************************************************************)
\* A user's charges and open reservations never exceed the plan's limit, however
\* runs are created, started, cancelled and recovered (reserveQuota).
QuotaBound ==
    \A u \in Users : Cardinality(UsedBy(u)) + Cardinality(ReservedBy(u)) <= Limit

\* However often its sandbox starts, a run is charged at most once, and exactly
\* when its reservation is consumed ("exactly once", consumeReservation).
ChargedOnce ==
    /\ \A d, e \in usage : d.run = e.run => d = e
    /\ \A r \in Runs : resv[r] = "consumed" <=> \E e \in usage : e.run = r

\* Only a run whose sandbox has started in some attempt is charged
\* ("failed sandbox starts do not consume quota").
ChargedOnlyIfStarted == \A e \in usage : e.run \in booted

\* A run that reports results of executed tests has been charged, unless an
\* administrator reopened a job: nobody tests for free.
ResultsAreCharged ==
    \A r \in Runs : outcome[r] \in Executed => resv[r] = "consumed" \/ overrides > 0

\* A run that may still execute holds its reservation, through retries, crashes
\* and shutdowns.
RunnableHoldsReservation ==
    \A r \in Runs : run[r] \in ActiveRun /\ job[r] = "pending"
                        => resv[r] \in {"open", "consumed"} \/ overrides > 0

\* A run that ended with an outcome is never active again, unless an administrator
\* cancelled its job under the handler, and one with results keeps them, whoever
\* delivers, stops, recovers or closes it again.
EndedRunsStay ==
    [][\A r \in Runs :
          /\ isFinal(r) /\ outcome[r] # "none"
                => run'[r] \in Final \/ (job[r] = "cancelled" /\ phase[r] # "idle")
          /\ outcome[r] \in Executed => run'[r] = run[r] /\ outcome'[r] = outcome[r]]_vars

\* The job of a run goes the way the queue promises.
JobKeepsContract == Queue!Spec

\* Every run ends for good, whatever crashes.
EveryRunEnds == \A r \in Runs : run[r] # "absent" ~> [](isFinal(r))

\* No reservation stays open: it is charged or released.
ReservationsSettle == \A r \in Runs : resv[r] = "open" ~> resv[r] # "open"

\* Every run and its reservation come to an end, whatever crashes.
RunsSettle == EveryRunEnds /\ ReservationsSettle
=============================================================================
