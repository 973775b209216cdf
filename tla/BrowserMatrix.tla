--------------------------- MODULE BrowserMatrix ----------------------------
(***************************************************************************)
(* One matrix run: the same suite in several browsers, a child run and a   *)
(* job for each, and the aggregate that is written when all of them have   *)
(* ended.  The handler of each child, the maintenance sweep, the event     *)
(* stream and the user's cancel each bring the rows of the executions up   *)
(* to date and finalize the matrix when none is left.  They are in         *)
(* different processes, and nothing but single statements is atomic.       *)
(*                                                                         *)
(* A run is its status and outcome in one; "failing" is the status failed  *)
(* of an attempt whose outcome is not decided: the run may be queued again. *)
(* The stream does what the sweep does before it looks at the result, and  *)
(* has no actor of its own.                                                *)
(***************************************************************************)
EXTENDS Naturals, FiniteSets

CONSTANTS
    Browsers,       \* of the matrix
    Flaky,          \* the browsers an attempt fails in, to be retried or not
    Results,        \* how a child can end: some of AllResults
    Processes,      \* that work on it at once: an actor does not await anything
    MaxDeaths       \* of processes, a bound

VARIABLES
    run, job,           \* the children: test_runs and jobs
    execution,          \* browser_matrix_executions: status and outcome in one
    matrix,             \* browser_matrix_runs: status, and whether report_id is set
    overdue,            \* the matrix is older than MATRIX_TIMEOUT_MS
    act,                \* what every process is doing
    deaths

mChild == <<run, job>>
mRow   == <<execution, matrix>>
mVars  == <<mChild, mRow, overdue, act, deaths>>

AllResults == {"passed", "failed", "infra", "cancelled"}
ASSUME ResultsAssumption == Results \subseteq AllResults

RunEnded  == AllResults \cup {"failing"}
MatrixActive == {"queued", "running"}
MatrixEnd == {"completed", "partial", "failed", "cancelled"}
Row       == [status : {"absent", "queued", "running"} \cup MatrixEnd, report : BOOLEAN]
Actors    == Browsers \cup {"sweep", "cancel"}

\* pc is the next statement; todo the rows still to visit; last says that the
\* actor is past its visits.
Idle     == [pc |-> "idle", todo |-> {}, at |-> "none", last |-> FALSE, row |-> [status |-> "queued", report |-> FALSE]]
Activity == [pc : {"idle", "cancelling", "cancelled", "visiting", "noted", "starting", "finishing",
                   "relooking", "expiring", "marking", "saving"},
             todo : SUBSET Browsers, at : Browsers \cup {"none"}, last : BOOLEAN, row : Row]

MatrixTypeOK ==
    /\ run \in [Browsers -> {"open"} \cup RunEnded]
    /\ job \in [Browsers -> {"absent", "queued", "running", "stopping", "ended", "cancelled"}]
    /\ execution \in [Browsers -> {"queued"} \cup RunEnded]
    /\ matrix \in Row /\ overdue \in BOOLEAN
    /\ act \in [Actors -> Activity] /\ deaths \in Nat

MatrixInit ==
    /\ run = [b \in Browsers |-> "open"] /\ job = [b \in Browsers |-> "absent"]
    /\ execution = [b \in Browsers |-> "queued"]
    /\ matrix = [status |-> "absent", report |-> FALSE]
    /\ overdue = FALSE /\ act = [a \in Actors |-> Idle] /\ deaths = 0

Pc(a, pc)  == act' = [act EXCEPT ![a].pc = pc]
Stop(a)    == act' = [act EXCEPT ![a] = Idle]
Busy       == Cardinality({a \in Actors : act[a].pc # "idle"})
Begin(a, pc, todo) ==
    /\ Busy < Processes
    /\ act' = [act EXCEPT ![a].pc = pc, ![a].todo = todo]
Executing  == {"running", "stopping"}    \* stopping: cancel_requested_at is set
Pending    == {b \in Browsers : execution[b] = "queued"}
AllEnded   == Pending = {}

\* One transaction: the matrix, and a run, a reservation, a job and an
\* execution for every browser.
createMatrixRun ==
    /\ matrix.status = "absent"
    /\ matrix' = [matrix EXCEPT !.status = "queued"]
    /\ job' = [b \in Browsers |-> "queued"]
    /\ UNCHANGED <<run, execution, overdue, act, deaths>>

-----------------------------------------------------------------------------
(***************************************************************************)
(* The children, as far as the matrix sees them.                           *)
(***************************************************************************)
claimChild(b) ==
    /\ job[b] = "queued" /\ job' = [job EXCEPT ![b] = "running"]
    /\ UNCHANGED <<run, mRow, overdue, act, deaths>>

\* The status of a failing attempt is written before its outcome.
childFails(b) ==
    /\ b \in Flaky /\ job[b] \in Executing /\ run[b] = "open"
    /\ run' = [run EXCEPT ![b] = "failing"]
    /\ UNCHANGED <<job, mRow, overdue, act, deaths>>

\* The run is queued again; noteMatrixChildFinished then finds it open.
childRetries(b) ==
    /\ job[b] = "running" /\ run[b] = "failing"
    /\ run' = [run EXCEPT ![b] = "open"] /\ job' = [job EXCEPT ![b] = "queued"]
    /\ UNCHANGED <<mRow, overdue, act, deaths>>

\* The handler calls noteMatrixChildFinished when it has executed the run; if
\* it throws it does not.
childEnds(b) ==
    /\ job[b] \in Executing /\ job' = [job EXCEPT ![b] = "ended"]
    /\ \E result \in IF run[b] = "open" THEN Results ELSE Results \ {"passed"} :
           run' = [run EXCEPT ![b] = result]
    /\ \/ Begin(b, "visiting", {b})
       \/ UNCHANGED act
    /\ UNCHANGED <<mRow, overdue, deaths>>

\* The user cancels the child alone, or maintenance closes a run whose job
\* was cancelled.
childCloses(b) ==
    /\ job[b] \in {"queued", "cancelled"} /\ run[b] = "open"
    /\ run' = [run EXCEPT ![b] = IF job[b] = "queued" THEN "cancelled" ELSE "infra"]
    /\ job' = [job EXCEPT ![b] = "cancelled"]
    /\ UNCHANGED <<mRow, overdue, act, deaths>>

requestCancel(b) ==
    job' = [job EXCEPT ![b] = CASE @ = "queued"  -> "cancelled"
                                [] @ = "running" -> "stopping"
                                [] OTHER         -> @]

-----------------------------------------------------------------------------
(***************************************************************************)
(* noteMatrixChildFinished, for one execution after the other.             *)
(***************************************************************************)
\* The run is read, and its result written whatever the execution says.
\* An actor that has visited all goes on; a handler visits one.
updateMatrixExecution(a) ==
    /\ act[a].pc = "visiting" /\ act[a].todo # {}
    /\ \E b \in act[a].todo :
        IF run[b] \in RunEnded
        THEN /\ execution' = [execution EXCEPT ![b] = run[b]]
             /\ act' = [act EXCEPT ![a].pc = "noted", ![a].todo = @ \ {b}]
        ELSE /\ act' = [act EXCEPT ![a].todo = @ \ {b}]
             /\ UNCHANGED execution
    /\ UNCHANGED <<mChild, matrix, overdue, deaths>>

\* Mutated deriveMatrixStatus: what did not execute is not counted.
deriveOfExecuted(rows) ==
    LET With(results) == {b \in Browsers : rows[b] \in results} IN
    CASE With({"cancelled"}) = Browsers         -> "cancelled"
      [] With({"passed", "failed"}) = {}        -> IF With({"cancelled"}) = {} THEN "failed" ELSE "cancelled"
      [] With({"failed"}) = {}                  -> "completed"
      [] OTHER                                  -> "partial"

deriveMatrixStatus(rows) ==
    LET With(results) == {b \in Browsers : rows[b] \in results} IN
    CASE With({"cancelled"}) = Browsers         -> "cancelled"
      [] With({"passed", "failed"}) = {}        -> IF With({"cancelled"}) = {} THEN "failed" ELSE "cancelled"
      [] With({"passed"}) = Browsers            -> "completed"
      [] OTHER                                  -> "partial"

\* finalizeMatrixRun up to its update: the rows are read, and a report is
\* created if the matrix that was read has none.
finalize(a, last) ==
    act' = [act EXCEPT ![a].pc = "finishing", ![a].last = last,
                       ![a].row = [status |-> deriveMatrixStatus(execution), report |-> TRUE]]

\* The rows and the matrix are read again.
noteMatrixChildFinished(a) ==
    /\ act[a].pc = "noted"
    /\ CASE matrix.status \in MatrixEnd -> Pc(a, "visiting")
         [] matrix.status \notin MatrixEnd /\ AllEnded -> finalize(a, FALSE)
         [] matrix.status = "running" /\ ~AllEnded -> Pc(a, "visiting")
         [] matrix.status = "queued" /\ ~AllEnded -> Pc(a, "starting")
    /\ UNCHANGED <<mChild, execution, matrix, overdue, deaths>>

\* updateMatrixRun reads the row, and writes all of its columns.
markRunning(a) ==
    /\ act[a].pc = "starting"
    /\ act' = [act EXCEPT ![a].pc = "saving", ![a].row = [matrix EXCEPT !.status = "running"]]
    /\ UNCHANGED <<mChild, mRow, overdue, deaths>>

markReason(a) ==
    /\ act[a].pc = "marking"
    /\ act' = [act EXCEPT ![a].pc = "saving", ![a].row = matrix, ![a].last = TRUE]
    /\ UNCHANGED <<mChild, mRow, overdue, deaths>>

updateMatrixRun(a) ==
    /\ act[a].pc \in {"saving", "finishing"}
    /\ matrix' = act[a].row
    /\ IF act[a].last THEN Stop(a)
       ELSE act' = [act EXCEPT ![a] = [Idle EXCEPT !.pc = "visiting", !.todo = act[a].todo]]
    /\ UNCHANGED <<mChild, execution, overdue, deaths>>

-----------------------------------------------------------------------------
(***************************************************************************)
(* The sweep and the cancel.                                               *)
(***************************************************************************)
\* Mutated listStaleActiveMatrixRuns: what no child has started is not listed.
listStaleRunning == matrix.status = "running"

\* Not touched for 30 seconds, which may be in the middle of anything.
listStaleActiveMatrixRuns == matrix.status \in MatrixActive

sweepStaleMatrixRuns ==
    /\ act["sweep"].pc = "idle" /\ listStaleActiveMatrixRuns
    /\ Begin("sweep", "visiting", Pending)
    /\ UNCHANGED <<mChild, mRow, overdue, deaths>>

cancelMatrixRun ==
    /\ act["cancel"].pc = "idle" /\ matrix.status \in MatrixActive
    /\ Begin("cancel", "cancelling", Pending)
    /\ UNCHANGED <<mChild, mRow, overdue, deaths>>

\* Mutated cancelListed: the execution of a running job is cancelled as well.
cancelAnyListed ==
    /\ act["cancel"].pc = "cancelling"
    /\ \E b \in act["cancel"].todo :
        /\ requestCancel(b)
        /\ act' = [act EXCEPT !["cancel"].pc = "cancelled", !["cancel"].at = b,
                              !["cancel"].todo = @ \ {b}]
    /\ UNCHANGED <<run, mRow, overdue, deaths>>

\* The execution is cancelled if its job was waiting.
cancelListed ==
    /\ act["cancel"].pc = "cancelling"
    /\ \E b \in act["cancel"].todo :
        /\ requestCancel(b)
        /\ act' = [act EXCEPT !["cancel"].todo = @ \ {b},
                    !["cancel"].pc = IF job[b] \in {"queued", "cancelled"} THEN "cancelled" ELSE @,
                    !["cancel"].at = IF job[b] \in {"queued", "cancelled"} THEN b ELSE @]
    /\ UNCHANGED <<run, mRow, overdue, deaths>>

cancelExecution ==
    /\ act["cancel"].pc = "cancelled"
    /\ execution' = [execution EXCEPT ![act["cancel"].at] = "cancelled"]
    /\ act' = [act EXCEPT !["cancel"].pc = "cancelling", !["cancel"].at = "none"]
    /\ UNCHANGED <<mChild, matrix, overdue, deaths>>

cancelVisits ==
    /\ act["cancel"].pc = "cancelling" /\ act["cancel"].todo = {}
    /\ act' = [act EXCEPT !["cancel"].pc = "visiting", !["cancel"].todo = Pending]
    /\ UNCHANGED <<mChild, mRow, overdue, deaths>>

\* All are visited: the rows are read once more.
relook(a) ==
    /\ act[a].pc = "visiting" /\ act[a].todo = {}
    /\ CASE a \in Browsers -> Stop(a)
         [] a \notin Browsers /\ AllEnded -> finalize(a, TRUE)
         [] a = "cancel" /\ ~AllEnded -> Pc(a, "marking")
         [] a = "sweep" /\ ~AllEnded ->
               act' = [act EXCEPT ![a] = IF overdue THEN [Idle EXCEPT !.pc = "expiring", !.todo = Pending]
                                                       ELSE Idle]
    /\ UNCHANGED <<mChild, execution, matrix, overdue, deaths>>

\* The matrix timed out: what was pending when it was listed is cancelled.
expireListed ==
    /\ act["sweep"].pc = "expiring"
    /\ \/ \E b \in act["sweep"].todo :
            /\ requestCancel(b)
            /\ execution' = [execution EXCEPT ![b] = "cancelled"]
            /\ act' = [act EXCEPT !["sweep"].todo = @ \ {b}]
       \/ /\ act["sweep"].todo = {}
          /\ finalize("sweep", TRUE)
          /\ UNCHANGED <<job, execution>>
    /\ UNCHANGED <<run, matrix, overdue, deaths>>

passDeadline ==
    /\ matrix.status # "absent" /\ ~overdue /\ overdue' = TRUE
    /\ UNCHANGED <<mChild, mRow, act, deaths>>

\* The process of an actor dies in between; the job of a child is done again.
processDies(a) ==
    /\ act[a].pc # "idle" /\ deaths < MaxDeaths
    /\ deaths' = deaths + 1 /\ Stop(a)
    /\ UNCHANGED <<mChild, mRow, overdue>>

\* An actor goes on.
Proceed(a) ==
    \/ updateMatrixExecution(a) \/ noteMatrixChildFinished(a) \/ relook(a)
    \/ markRunning(a) \/ markReason(a) \/ updateMatrixRun(a)
    \/ a = "sweep" /\ expireListed
    \/ a = "cancel" /\ (cancelListed \/ cancelExecution \/ cancelVisits)

MatrixNext ==
    \/ \E b \in Browsers : claimChild(b) \/ childFails(b) \/ childRetries(b) \/ childEnds(b) \/ childCloses(b)
    \/ \E a \in Actors : Proceed(a) \/ processDies(a)
    \/ createMatrixRun \/ sweepStaleMatrixRuns \/ cancelMatrixRun \/ passDeadline

MatrixSpec == MatrixInit /\ [][MatrixNext]_mVars

\* Time passes, an actor that does not die goes on, and the job that sweeps is
\* enqueued again and again.
MatrixFairness ==
    /\ WF_mVars(passDeadline)
    /\ WF_mVars(sweepStaleMatrixRuns)
    /\ \A a \in Actors : WF_mVars(Proceed(a))

-----------------------------------------------------------------------------
(***************************************************************************)
(* Properties.                                                             *)
(***************************************************************************)
\* A matrix that ended has its report, and one is completed only when every
\* child run passed, whichever of the processes derived it, from rows of
\* whatever age, with columns another process writes back, and though the
\* failing attempt of a child that is retried is taken for its end.
CompletedIsEarned ==
    matrix.status \in MatrixEnd =>
        /\ matrix.report
        /\ matrix.status = "completed" => \A b \in Browsers : run[b] = "passed"

\* "cancels queued/running children while preserving finished results": no
\* cancel, of a running child or of one that ends at that moment, replaces the
\* result of a browser that executed.  (The sweep of a matrix that timed out
\* may.)
CancelPreservesResults ==
    [][\A b \in Browsers :
        execution[b] \in {"passed", "failed"} /\ execution'[b] = "cancelled"
            => act["sweep"].pc = "expiring"]_mVars

\* "so a hung browser can never let a matrix run forever": every matrix ends
\* and stays ended, though no child ever does, though the callbacks are lost,
\* and though a process that read the row while it was queued may mark it
\* running after it was finalized.
EveryMatrixEnds == <>[](matrix.status \notin MatrixActive)
=============================================================================
