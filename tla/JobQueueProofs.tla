--------------------------- MODULE JobQueueProofs ---------------------------
(***************************************************************************)
(* Safety of the job queue for every set of jobs and workers, every limit  *)
(* and every bound on the environment.  The rows of the table change only  *)
(* by the statements of lib/db/repositories/jobs, so each of them is       *)
(* treated once (RowStatementKeepsRows) and cited by every action that     *)
(* executes one.                                                           *)
(***************************************************************************)
EXTENDS JobQueue, TLAPS, FiniteSetTheorems

RowsTypeOK ==
    /\ status   \in [Jobs -> Exists \cup {"absent", "deleted"}]
    /\ owner    \in [Jobs -> Workers \cup {None}]
    /\ lease    \in [Jobs -> {"none", "live", "lapsed"}]
    /\ attempts \in [Jobs -> Nat]
    /\ cancel   \in [Jobs -> BOOLEAN]
    /\ due      \in [Jobs -> BOOLEAN]

\* LeaseDiscipline, and the row enqueueJob is about to insert has no worker.
RowsInv ==
    /\ LeaseDiscipline
    /\ \A j \in Jobs : status[j] = "absent" => owner[j] = None

\* A statement on an existing row, other than the claim and the admin requeue.
RowStatement(j) ==
    \/ completeJob(j) \/ failJob(j) \/ expireJob(j) \/ markCancelled(j)
    \/ \E d \in BOOLEAN : scheduleRetry(j, d)
    \/ failOrphan(j) \/ requestCancel(j)

\* What any statement may do to the row it names.
RowStep(j) ==
    /\ attempts' = attempts
    /\ \/ status' = status
       \/ \E s \in Waiting \cup Terminal :
            /\ status' = [status EXCEPT ![j] = s]
            /\ \/ status[j] = "running"
               \/ status[j] \in Waiting /\ s \in Terminal \ {"completed"}

-----------------------------------------------------------------------------
\* No statement leaves the types of the columns, breaks the lease discipline or
\* moves a row anywhere but forward.
LEMMA RowStatementKeepsRows ==
    ASSUME RowsTypeOK, RowsInv, NEW j \in Jobs, RowStatement(j)
    PROVE  RowsTypeOK' /\ RowsInv' /\ RowStep(j)
<1> USE DEF RowsTypeOK, RowsInv, LeaseDiscipline, RowStep, SetRow, Finish,
            Waiting, Terminal, Active, Exists
<1>1. CASE completeJob(j)
  BY <1>1 DEF completeJob
<1>2. CASE failJob(j)
  BY <1>2 DEF failJob
<1>3. CASE expireJob(j)
  BY <1>3 DEF expireJob
<1>4. CASE markCancelled(j)
  BY <1>4 DEF markCancelled
<1>5. CASE \E d \in BOOLEAN : scheduleRetry(j, d)
  BY <1>5 DEF scheduleRetry
<1>6. CASE failOrphan(j)
  BY <1>6 DEF failOrphan
<1>7. CASE requestCancel(j)
  BY <1>7 DEF requestCancel
<1>8. QED
  BY <1>1, <1>2, <1>3, <1>4, <1>5, <1>6, <1>7 DEF RowStatement

\* What the other actions do to the rows: claim, requeue, insert, retention and
\* the passage of time.
LEMMA OtherRowChanges ==
    ASSUME RowsTypeOK, RowsInv, JobQueueAssumption, NEW j \in Jobs
    PROVE  /\ \A d \in BOOLEAN : enqueueJob(j, d) => RowsTypeOK' /\ RowsInv'
           /\ requeueFailedJob(j) => RowsTypeOK' /\ RowsInv'
           /\ deleteFinishedJob(j) => RowsTypeOK' /\ RowsInv'
           /\ \A w \in Workers : claimNextJob(w, j) => RowsTypeOK' /\ RowsInv'
           /\ Time(j) => RowsTypeOK' /\ RowsInv'
<1> USE DEF RowsTypeOK, RowsInv, LeaseDiscipline, SetRow,
            Waiting, Terminal, Active, Exists
<1>1. ASSUME NEW d \in BOOLEAN, enqueueJob(j, d)
      PROVE  RowsTypeOK' /\ RowsInv'
  BY <1>1 DEF enqueueJob
<1>2. requeueFailedJob(j) => RowsTypeOK' /\ RowsInv'
  BY DEF requeueFailedJob
<1>3. deleteFinishedJob(j) => RowsTypeOK' /\ RowsInv'
  BY DEF deleteFinishedJob
<1>4. ASSUME NEW w \in Workers, claimNextJob(w, j)
      PROVE  RowsTypeOK' /\ RowsInv'
  BY <1>4 DEF claimNextJob
<1>5. Time(j) => RowsTypeOK' /\ RowsInv'
  BY DEF Time, LeaseLapses, BackoffElapses
<1>6. QED
  BY <1>1, <1>2, <1>3, <1>4, <1>5

ProcsTypeOK ==
    /\ execs  \subseteq Execution
    /\ active \in [Workers -> SUBSET Jobs]
    /\ proc   \in [Workers -> {"down", "up", "stopping", "closing"}]
    /\ todo   \in [Workers -> SUBSET Pending]
    /\ seen   \subseteq Reader
    /\ crashes \in Nat /\ stops \in Nat /\ requeues \in Nat

LEMMA TypeOKSplit == TypeOK <=> RowsTypeOK /\ ProcsTypeOK
BY DEF TypeOK, RowsTypeOK, ProcsTypeOK

-----------------------------------------------------------------------------
\* Every step of the system is one of these as far as the table is concerned.
RowEffect ==
    \/ UNCHANGED rowVars
    \/ \E j \in Jobs :
          \/ RowStatement(j)
          \/ \E d \in BOOLEAN : enqueueJob(j, d)
          \/ requeueFailedJob(j)
          \/ deleteFinishedJob(j)
          \/ \E w \in Workers : claimNextJob(w, j)
          \/ Time(j)
    \/ \E e \in execs : Heartbeat(e)

LEMMA NextHasRowEffect ==
    ASSUME TypeOK, [Next]_vars
    PROVE  RowEffect
<1> USE DEF TypeOK, RowEffect, rowVars
<1>1. CASE UNCHANGED vars
  BY <1>1 DEF vars
<1>2. ASSUME NEW j \in Jobs, Web(j)
      PROVE  RowEffect
  <2>1. CASE cancelJob(j)
    BY <2>1 DEF cancelJob, RowStatement
  <2>2. CASE AdminReadsRow(j) \/ listStaleQueuedJobs(j)
    BY <2>2 DEF AdminReadsRow, listStaleQueuedJobs
  <2>3. CASE cancelJobAdmin(j) \/ ExpireStaleJob(j)
    BY <2>3 DEF cancelJobAdmin, ExpireStaleJob, RowStatement
  <2>4. QED
    BY <1>2, <2>1, <2>2, <2>3 DEF Web
<1>3. ASSUME NEW w \in Workers, Process(w)
      PROVE  RowEffect
  <2>1. ASSUME NEW p \in todo[w], recoverOrphanedJob(w, p)
        PROVE  RowEffect
    <3>1. p.job \in Jobs
      BY DEF Pending
    <3>2. RowStatement(p.job)
      BY <2>1 DEF recoverOrphanedJob, RowStatement
    <3>3. QED
      BY <3>1, <3>2
  <2>2. CASE Sweep(w) \/ Start(w) \/ Stop(w) \/ GraceElapsed(w)
    BY <2>2 DEF Sweep, Start, Stop, GraceElapsed
  <2>3. CASE Exit(w) \/ Crash(w)
    BY <2>3 DEF Exit, Crash, Vanish
  <2>4. CASE \E e \in execs : AbortActive(w, e)
    BY <2>4 DEF AbortActive
  <2>5. QED
    BY <1>3, <2>1, <2>2, <2>3, <2>4 DEF Process
<1>4. ASSUME NEW e \in execs, Run(e)
      PROVE  RowEffect
  <2>1. e.job \in Jobs
    BY DEF Execution
  <2>2. CASE JobTimeout(e) \/ HandlerReturns(e) \/ FinishTimeout(e)
    BY <2>2 DEF JobTimeout, HandlerReturns, FinishTimeout
  <2>3. CASE \E retryable \in BOOLEAN : HandlerThrows(e, retryable)
    BY <2>3 DEF HandlerThrows
  <2>4. CASE Complete(e) \/ RetryLater(e) \/ Fail(e) \/ FinishCancelled(e)
    <3>1. RowStatement(e.job)
      BY <2>4 DEF Complete, RetryLater, Fail, FinishCancelled, RowStatement
    <3>2. QED
      BY <2>1, <3>1
  <2>5. QED
    BY <1>4, <2>2, <2>3, <2>4 DEF Run
<1>5. QED
  BY <1>1, <1>2, <1>3, <1>4 DEF Next

LEMMA RowEffectKeepsRows ==
    ASSUME TypeOK, RowsInv, JobQueueAssumption, RowEffect
    PROVE  RowsTypeOK' /\ RowsInv'
<1>1. RowsTypeOK
  BY TypeOKSplit
<1>2. CASE UNCHANGED rowVars
  BY <1>1, <1>2 DEF rowVars, RowsTypeOK, RowsInv, LeaseDiscipline
<1>3. ASSUME NEW e \in execs, Heartbeat(e)
      PROVE  RowsTypeOK' /\ RowsInv'
  BY <1>1, <1>3 DEF TypeOK, Execution, Heartbeat, RowsTypeOK, RowsInv, LeaseDiscipline
<1>4. QED
  BY <1>1, <1>2, <1>3, RowStatementKeepsRows, OtherRowChanges DEF RowEffect

-----------------------------------------------------------------------------
\* A step of run() keeps the claim an execution belongs to.
LEMMA MoveToKeepsTypes ==
    ASSUME NEW e \in Execution, NEW p \in Phases, NEW sg \in Signals
    PROVE  /\ [e EXCEPT !.phase = p] \in Execution
           /\ [e EXCEPT !.phase = p].job = e.job
           /\ [e EXCEPT !.phase = p].attempt = e.attempt
           /\ [e EXCEPT !.phase = p].worker = e.worker
           /\ [e EXCEPT !.signal = sg] \in Execution
           /\ [e EXCEPT !.signal = sg].job = e.job
           /\ [e EXCEPT !.signal = sg].attempt = e.attempt
           /\ [e EXCEPT !.signal = sg].worker = e.worker
BY DEF Execution

\* Orphan describes a row by what recoverOrphans will do to it.
LEMMA OrphanIsPending ==
    ASSUME NEW j \in Jobs
    PROVE  Orphan(j) \in Pending
BY DEF Orphan, Pending

LEMMA WebKeepsProcTypes ==
    ASSUME TypeOK, NEW j \in Jobs, Web(j) \/ Time(j)
    PROVE  ProcsTypeOK'
<1> USE DEF TypeOK, ProcsTypeOK, envVars
<1>1. CASE \E d \in BOOLEAN : enqueueJob(j, d)
  BY <1>1 DEF enqueueJob
<1>2. CASE cancelJob(j) \/ deleteFinishedJob(j)
  BY <1>2 DEF cancelJob, deleteFinishedJob
<1>3. CASE AdminReadsRow(j) \/ listStaleQueuedJobs(j)
  BY <1>3 DEF AdminReadsRow, listStaleQueuedJobs, Reader
<1>4. CASE cancelJobAdmin(j) \/ ExpireStaleJob(j)
  BY <1>4 DEF cancelJobAdmin, ExpireStaleJob
<1>5. CASE requeueFailedJob(j)
  BY <1>5 DEF requeueFailedJob
<1>6. CASE Time(j)
  BY <1>6 DEF Time, LeaseLapses, BackoffElapses
<1>7. QED
  BY <1>1, <1>2, <1>3, <1>4, <1>5, <1>6 DEF Web

LEMMA RunKeepsProcTypes ==
    ASSUME TypeOK, NEW e \in execs, Run(e)
    PROVE  ProcsTypeOK'
<1> USE DEF ProcsTypeOK, envVars
<1>1. ProcsTypeOK /\ e \in Execution /\ e.job \in Jobs /\ e.worker \in Workers
  BY DEF TypeOK, Execution
<1>2. ASSUME NEW p \in Phases, MoveTo(e, p), UNCHANGED <<active, proc, todo, seen, envVars>>
      PROVE  ProcsTypeOK'
  BY <1>1, <1>2, MoveToKeepsTypes, "none" \in Signals DEF MoveTo, Signals
<1>3. ASSUME End(e)
      PROVE  ProcsTypeOK'
  BY <1>1, <1>3 DEF End
<1>4. CASE Heartbeat(e)
  BY <1>1, <1>4 DEF Heartbeat
<1>5. CASE JobTimeout(e)
  <2>1. [e EXCEPT !.signal = "timeout"] \in Execution
    BY <1>1, MoveToKeepsTypes, "timeout" \in Signals, "handling" \in Phases DEF Signals, Phases
  <2>2. QED
    BY <1>1, <1>5, <2>1 DEF JobTimeout
<1>6. CASE HandlerReturns(e)
  <2>1. PICK p \in {"cancelling", "completing"} : MoveTo(e, p)
    BY <1>6 DEF HandlerReturns
  <2>2. QED
    BY <1>2, <1>6, <2>1 DEF HandlerReturns, Phases
<1>7. CASE \E retryable \in BOOLEAN : HandlerThrows(e, retryable)
  <2>1. PICK retryable \in BOOLEAN : HandlerThrows(e, retryable)
    BY <1>7
  <2>2. \E p \in {"cancelling", "retrying", "failing"} : MoveTo(e, p)
    BY <2>1, Zenon DEF HandlerThrows
  <2>3. QED
    BY <1>2, <2>1, <2>2 DEF HandlerThrows, Phases
<1>8. CASE Fail(e)
  <2>1. "timedOut" \in Phases
    BY DEF Phases
  <2>2. QED
    BY <1>2, <1>3, <1>8, <2>1 DEF Fail
<1>9. CASE Complete(e) \/ RetryLater(e) \/ FinishTimeout(e) \/ FinishCancelled(e)
  BY <1>3, <1>9 DEF Complete, RetryLater, FinishTimeout, FinishCancelled
<1>10. QED
  BY <1>4, <1>5, <1>6, <1>7, <1>8, <1>9 DEF Run

LEMMA ProcessKeepsProcTypes ==
    ASSUME TypeOK, NEW w \in Workers, Process(w)
    PROVE  ProcsTypeOK'
<1> USE DEF ProcsTypeOK, envVars
<1>1. ProcsTypeOK
  BY TypeOKSplit
<1>2. ASSUME NEW j \in Jobs, claimNextJob(w, j)
      PROVE  ProcsTypeOK'
  <2>1. [job |-> j, attempt |-> attempts[j] + 1, worker |-> w,
         phase |-> "handling", signal |-> "none"] \in Execution
    BY DEF TypeOK, Execution, Phases, Signals
  <2>2. QED
    BY <1>1, <1>2, <2>1 DEF claimNextJob
<1>3. CASE Sweep(w) \/ Start(w)
  <2>1. /\ {Orphan(j) : j \in Expired(w)} \subseteq Pending
        /\ {Orphan(j) : j \in OwnLeftovers(w) \cup Expired(w)} \subseteq Pending
    BY OrphanIsPending DEF Expired, OwnLeftovers
  <2>2. QED
    BY <1>1, <1>3, <2>1 DEF Sweep, Start
<1>4. ASSUME NEW p \in todo[w], recoverOrphanedJob(w, p)
      PROVE  ProcsTypeOK'
  BY <1>1, <1>4 DEF recoverOrphanedJob
<1>5. CASE Stop(w)
  BY <1>1, <1>5 DEF Stop
<1>6. ASSUME NEW e \in execs, AbortActive(w, e)
      PROVE  ProcsTypeOK'
  <2>1. [e EXCEPT !.signal = "stop"] \in Execution
    BY <1>1, MoveToKeepsTypes, "stop" \in Signals, "handling" \in Phases DEF Signals, Phases
  <2>2. QED
    BY <1>1, <1>6, <2>1 DEF AbortActive
<1>7. CASE GraceElapsed(w)
  <2>1. {[job |-> j, op |-> "abandon"] : j \in active[w]} \subseteq Pending
    BY <1>1 DEF Pending
  <2>2. QED
    BY <1>1, <1>7, <2>1 DEF GraceElapsed
<1>8. CASE Exit(w) \/ Crash(w)
  BY <1>1, <1>8 DEF Exit, Crash, Vanish
<1>9. QED
  BY <1>2, <1>3, <1>4, <1>5, <1>6, <1>7, <1>8 DEF Process

LEMMA NextKeepsTypes ==
    ASSUME TypeOK, RowsInv, JobQueueAssumption, [Next]_vars
    PROVE  TypeOK' /\ RowsInv'
<1>1. RowsTypeOK' /\ RowsInv'
  BY NextHasRowEffect, RowEffectKeepsRows
<1>2. ProcsTypeOK'
  <2>1. CASE UNCHANGED vars
    BY <2>1, TypeOKSplit DEF ProcsTypeOK, vars, envVars
  <2>2. QED
    BY <2>1, WebKeepsProcTypes, RunKeepsProcTypes, ProcessKeepsProcTypes DEF Next
<1>3. QED
  BY <1>1, <1>2 DEF TypeOK, RowsTypeOK, ProcsTypeOK

-----------------------------------------------------------------------------
\* What a step does to the set of executions: it ends some, moves one on, or
\* starts one by a claim.
ExecsEffect ==
    \/ execs' \subseteq execs
    \/ \E e \in execs, g \in Execution :
          /\ g.job = e.job /\ g.attempt = e.attempt /\ g.worker = e.worker
          /\ execs' = (execs \ {e}) \cup {g}
    \/ \E j \in Jobs, w \in Workers : claimNextJob(w, j)

LEMMA RunHasExecsEffect ==
    ASSUME TypeOK, NEW e \in execs, Run(e)
    PROVE  ExecsEffect
<1>1. e \in Execution
  BY DEF TypeOK
<1>2. ASSUME NEW p \in Phases, MoveTo(e, p)
      PROVE  ExecsEffect
  BY <1>1, <1>2, MoveToKeepsTypes, "none" \in Signals DEF MoveTo, ExecsEffect, Signals
<1>3. CASE End(e)
  BY <1>3 DEF End, ExecsEffect
<1>4. CASE Heartbeat(e)
  BY <1>4 DEF Heartbeat, ExecsEffect
<1>5. CASE JobTimeout(e)
  <2>1. "timeout" \in Signals /\ "handling" \in Phases
    BY DEF Signals, Phases
  <2>2. PICK g \in Execution : /\ g.job = e.job /\ g.attempt = e.attempt /\ g.worker = e.worker
                               /\ g = [e EXCEPT !.signal = "timeout"]
    BY <1>1, <2>1, MoveToKeepsTypes
  <2>3. QED
    BY <1>5, <2>2 DEF JobTimeout, ExecsEffect
<1>6. CASE HandlerReturns(e)
  BY <1>2, <1>6 DEF HandlerReturns, Phases
<1>7. CASE \E retryable \in BOOLEAN : HandlerThrows(e, retryable)
  <2>1. \E p \in {"cancelling", "retrying", "failing"} : MoveTo(e, p)
    BY <1>7, Zenon DEF HandlerThrows
  <2>2. QED
    BY <1>2, <2>1 DEF Phases
<1>8. CASE Fail(e)
  BY <1>2, <1>3, <1>8 DEF Fail, Phases
<1>9. QED
  BY Zenon, <1>3, <1>4, <1>5, <1>6, <1>7, <1>8
     DEF Run, Complete, RetryLater, FinishTimeout, FinishCancelled

LEMMA NextHasExecsEffect ==
    ASSUME TypeOK, [Next]_vars
    PROVE  ExecsEffect
<1>1. CASE UNCHANGED vars
  BY <1>1 DEF vars, ExecsEffect
<1>2. ASSUME NEW j \in Jobs, Web(j) \/ Time(j)
      PROVE  ExecsEffect
  BY <1>2 DEF Web, Time, enqueueJob, cancelJob, AdminReadsRow, cancelJobAdmin,
              requeueFailedJob, listStaleQueuedJobs, ExpireStaleJob, deleteFinishedJob,
              LeaseLapses, BackoffElapses, ExecsEffect
<1>3. ASSUME NEW w \in Workers, Process(w)
      PROVE  ExecsEffect
  <2>1. ASSUME NEW e \in execs, AbortActive(w, e)
        PROVE  ExecsEffect
    <3>1. e \in Execution /\ "stop" \in Signals /\ "handling" \in Phases
      BY DEF TypeOK, Signals, Phases
    <3>2. PICK g \in Execution : /\ g.job = e.job /\ g.attempt = e.attempt /\ g.worker = e.worker
                                 /\ g = [e EXCEPT !.signal = "stop"]
      BY <3>1, MoveToKeepsTypes
    <3>3. QED
      BY <2>1, <3>2 DEF AbortActive, ExecsEffect
  <2>2. CASE \E j \in Jobs : claimNextJob(w, j)
    BY <2>2 DEF ExecsEffect
  <2>3. CASE \/ Sweep(w) \/ Start(w) \/ Stop(w) \/ GraceElapsed(w)
             \/ \E p \in todo[w] : recoverOrphanedJob(w, p)
    BY <2>3 DEF Sweep, Start, Stop, GraceElapsed, recoverOrphanedJob, ExecsEffect
  <2>4. CASE Exit(w) \/ Crash(w)
    BY <2>4 DEF Exit, Crash, Vanish, ExecsEffect
  <2>5. QED
    BY <1>3, <2>1, <2>2, <2>3, <2>4 DEF Process
<1>4. QED
  BY <1>1, <1>2, <1>3, RunHasExecsEffect DEF Next

LEMMA AttemptsNeverDecrease ==
    ASSUME TypeOK, RowsInv, RowEffect, NEW k \in Jobs
    PROVE  attempts'[k] \in Nat /\ attempts[k] <= attempts'[k]
<1> USE DEF TypeOK
<1>1. CASE attempts' = attempts
  BY <1>1
<1>2. ASSUME NEW j \in Jobs, RowStatement(j)
      PROVE  attempts' = attempts
  BY <1>2, TypeOKSplit, RowStatementKeepsRows DEF RowStep
<1>3. ASSUME NEW j \in Jobs, NEW w \in Workers, claimNextJob(w, j)
      PROVE  attempts'[k] \in Nat /\ attempts[k] <= attempts'[k]
  BY <1>3 DEF claimNextJob
<1>4. QED
  BY <1>1, <1>2, <1>3
     DEF RowEffect, rowVars, enqueueJob, requeueFailedJob, deleteFinishedJob, Time,
         LeaseLapses, BackoffElapses, Heartbeat

LEMMA NextKeepsClaimsExclusive ==
    ASSUME TypeOK, RowsInv, ClaimsAreExclusive, [Next]_vars
    PROVE  ClaimsAreExclusive'
<1>1. \A k \in Jobs : attempts[k] \in Nat /\ attempts'[k] \in Nat /\ attempts[k] <= attempts'[k]
  BY NextHasRowEffect, AttemptsNeverDecrease DEF TypeOK
<1>2. \A e \in execs : e.job \in Jobs /\ e.attempt \in Nat
  BY DEF TypeOK, Execution
<1>3. CASE execs' \subseteq execs
  BY <1>1, <1>2, <1>3 DEF ClaimsAreExclusive
<1>4. ASSUME NEW e \in execs, NEW g \in Execution,
             g.job = e.job, g.attempt = e.attempt, execs' = (execs \ {e}) \cup {g}
      PROVE  ClaimsAreExclusive'
  BY <1>1, <1>2, <1>4 DEF ClaimsAreExclusive
<1>5. ASSUME NEW j \in Jobs, NEW w \in Workers, claimNextJob(w, j)
      PROVE  ClaimsAreExclusive'
  <2> DEFINE new == [job |-> j, attempt |-> attempts[j] + 1, worker |-> w,
                     phase |-> "handling", signal |-> "none"]
  <2>1. /\ execs' = execs \cup {new}
        /\ new.job = j /\ new.attempt = attempts[j] + 1
        /\ attempts'[j] = attempts[j] + 1
    BY <1>5 DEF claimNextJob, TypeOK
  <2>2. \A e \in execs : e.job = j => e.attempt # new.attempt
    BY <1>1, <1>2, <2>1 DEF ClaimsAreExclusive
  <2> HIDE DEF new
  <2>3. QED
    BY <1>1, <1>2, <2>1, <2>2 DEF ClaimsAreExclusive
<1>6. QED
  BY <1>3, <1>4, <1>5, NextHasExecsEffect DEF ExecsEffect

-----------------------------------------------------------------------------
\* The inductive invariant.
IInv == TypeOK /\ RowsInv /\ ClaimsAreExclusive

LEMMA InitIInv == Init => IInv
BY DEF Init, IInv, TypeOK, RowsInv, LeaseDiscipline, ClaimsAreExclusive,
       Exists, Active, Terminal, Waiting, Reader

LEMMA NextIInv == JobQueueAssumption /\ IInv /\ [Next]_vars => IInv'
BY NextKeepsTypes, NextKeepsClaimsExclusive DEF IInv

\* In every reachable state the columns, the executions and the processes have
\* the values the code gives them.
THEOREM TypeCorrect == Spec => []TypeOK
<1>1. IInv => TypeOK
  BY DEF IInv
<1>2. QED
  BY InitIInv, NextIInv, JobQueueAssumption, <1>1, PTL DEF Spec

\* A row has a lease exactly while it runs, and a waiting row has no worker:
\* whatever crashes, every running row can be found by the lease sweep.
THEOREM LeasesAreDisciplined == Spec => []LeaseDiscipline
<1>1. IInv => LeaseDiscipline
  BY DEF IInv, RowsInv
<1>2. QED
  BY InitIInv, NextIInv, JobQueueAssumption, <1>1, PTL DEF Spec

\* No attempt number of a job is ever handed to two executions.
THEOREM NoAttemptIsClaimedTwice == Spec => []ClaimsAreExclusive
<1>1. IInv => ClaimsAreExclusive
  BY DEF IInv
<1>2. QED
  BY InitIInv, NextIInv, JobQueueAssumption, <1>1, PTL DEF Spec

-----------------------------------------------------------------------------
(***************************************************************************)
(* The queue implements its contract.                                      *)
(***************************************************************************)
LEMMA InitImplementsContract == Init => Contract!Init
BY DEF Init, Contract!Init, Waiting

\* A step that changes one row is one step of the contract, if the contract
\* allows the change of that row.
LEMMA OneRowIsOneStep ==
    ASSUME RowsTypeOK, NEW j \in Jobs, NEW s, status' = [status EXCEPT ![j] = s]
    PROVE  [k \in Jobs |-> IF status'[k] \in Waiting THEN "pending" ELSE status'[k]]
             = [[k \in Jobs |-> IF status[k] \in Waiting THEN "pending" ELSE status[k]]
                  EXCEPT ![j] = IF s \in Waiting THEN "pending" ELSE s]
BY DEF RowsTypeOK

LEMMA RowEffectImplementsContract ==
    ASSUME RowsTypeOK, RowsInv, RowEffect
    PROVE  [Contract!Next]_(Contract!vars)
<1> USE DEF Contract!vars
<1>1. CASE status' = status /\ attempts' = attempts
  BY <1>1
<1>2. ASSUME NEW j \in Jobs, RowStatement(j)
      PROVE  [Contract!Next]_(Contract!vars)
  <2>1. RowStep(j)
    BY <1>2, RowStatementKeepsRows
  <2>2. CASE status' = status
    BY <1>1, <2>1, <2>2 DEF RowStep
  <2>3. ASSUME NEW s \in Waiting \cup Terminal, status' = [status EXCEPT ![j] = s],
               \/ status[j] = "running"
               \/ status[j] \in Waiting /\ s \in Terminal \ {"completed"}
        PROVE  Contract!Return(j) \/ Contract!Settle(j) \/ Contract!Drop(j)
    <3>1. attempts' = attempts
      BY <2>1 DEF RowStep
    <3>2. CASE s \in Waiting
      BY <2>3, <3>1, <3>2, OneRowIsOneStep
         DEF Contract!Return, Contract!Become, Waiting, Terminal
    <3>3. CASE s \in Terminal /\ status[j] = "running"
      BY <2>3, <3>1, <3>3, OneRowIsOneStep
         DEF Contract!Settle, Contract!Become, Contract!Ended, Waiting, Terminal
    <3>4. CASE s \in Terminal \ {"completed"} /\ status[j] \in Waiting
      BY <2>3, <3>1, <3>4, OneRowIsOneStep
         DEF Contract!Drop, Contract!Become, Contract!Ended, Waiting, Terminal
    <3>5. QED
      BY <2>3, <3>2, <3>3, <3>4 DEF Waiting, Terminal
  <2>4. QED
    BY <2>1, <2>2, <2>3 DEF RowStep, Contract!Next
<1>3. ASSUME NEW j \in Jobs, NEW d \in BOOLEAN, enqueueJob(j, d)
      PROVE  Contract!Submit(j)
  BY <1>3, OneRowIsOneStep DEF enqueueJob, Contract!Submit, Contract!Become, Waiting
<1>4. ASSUME NEW j \in Jobs, requeueFailedJob(j)
      PROVE  Contract!Reopen(j)
  BY <1>4, OneRowIsOneStep DEF requeueFailedJob, SetRow, Contract!Reopen, Contract!Become, Waiting
<1>5. ASSUME NEW j \in Jobs, deleteFinishedJob(j)
      PROVE  Contract!Purge(j)
  BY <1>5, OneRowIsOneStep
     DEF deleteFinishedJob, Contract!Purge, Contract!Become, Contract!Ended, Waiting, Terminal
<1>6. ASSUME NEW j \in Jobs, NEW w \in Workers, claimNextJob(w, j)
      PROVE  Contract!Deliver(j)
  <2>1. status[j] \in Waiting
    BY <1>6 DEF claimNextJob, Claimable, pickFairCandidate
  <2>2. QED
    BY <1>6, <2>1, OneRowIsOneStep DEF claimNextJob, SetRow, Contract!Deliver, Waiting
<1>7. QED
  BY <1>1, <1>2, <1>3, <1>4, <1>5, <1>6
     DEF RowEffect, rowVars, Time, LeaseLapses, BackoffElapses, Heartbeat, Contract!Next

\* Whatever the workers, the web process, crashes and stale executions do, what
\* the callers of the queue see is a behaviour of the contract.
THEOREM QueueImplementsContract == Spec => ImplementsContract
<1>1. JobQueueAssumption /\ IInv /\ [Next]_vars => [Contract!Next]_(Contract!vars)
  BY TypeOKSplit, NextHasRowEffect, RowEffectImplementsContract DEF IInv
<1>2. QED
  BY InitIInv, NextIInv, JobQueueAssumption, InitImplementsContract, <1>1, PTL
     DEF Spec, ImplementsContract, Contract!Spec
-----------------------------------------------------------------------------
(***************************************************************************)
(* What holds of the documented deployment, one worker process per         *)
(* database, as long as no administrator requeues a job.                   *)
(***************************************************************************)
OneWorker == (\A v, w \in Workers : v = w) /\ MaxRequeues = 0

\* A claim must find no execution of its job.  An execution whose row waits for
\* a claim exists only while its worker is on its way out ("closing"); the
\* sweep never holds a row of the worker's own map.
ExecutionsInv ==
    /\ ActiveTracksExecutions
    /\ OnlyCurrentAttemptRuns
    /\ \A e \in execs :
          /\ status[e.job] \in Exists
          /\ status[e.job] \in Waiting => proc[e.worker] = "closing"
          /\ e.phase = "timedOut" => status[e.job] \notin Active
    /\ \A w \in Workers :
          /\ \A p \in todo[w] : IF p.op = "abandon" THEN proc[w] = "closing"
                                                    ELSE p.job \notin active[w]
          /\ proc[w] = "down" => active[w] = {} /\ todo[w] = {}

OneWorkerInv == IInv /\ ExecutionsInv

-----------------------------------------------------------------------------
\* The statements of the web process leave a row alone or end it.
LEMMA WebStatementEnds ==
    ASSUME TypeOK, NEW j \in Jobs, requestCancel(j) \/ markCancelled(j) \/ expireJob(j)
    PROVE  status' = status \/ \E s \in Terminal : status' = [status EXCEPT ![j] = s]
BY DEF requestCancel, markCancelled, expireJob, Finish, SetRow, Terminal, TypeOK

LEMMA WebKeepsExecutions ==
    ASSUME OneWorker, OneWorkerInv, NEW j \in Jobs, Web(j) \/ Time(j)
    PROVE  ExecutionsInv'
<1> USE DEF OneWorkerInv, IInv
<1>1. \A e \in execs : e.job \in Jobs /\ e.worker \in Workers
  BY DEF TypeOK, Execution
<1>2. ASSUME NEW s \in Terminal, status' = [status EXCEPT ![j] = s] \/ status' = status,
             UNCHANGED <<attempts, execs, active, proc, todo>>
      PROVE  ExecutionsInv'
  BY <1>1, <1>2 DEF TypeOK, ExecutionsInv, ActiveTracksExecutions, OnlyCurrentAttemptRuns,
                    Exists, Active, Waiting, Terminal
<1>3. CASE cancelJob(j) \/ cancelJobAdmin(j) \/ ExpireStaleJob(j)
  <2>1. UNCHANGED <<attempts, execs, active, proc, todo>>
    BY <1>3 DEF cancelJob, cancelJobAdmin, ExpireStaleJob, requestCancel, markCancelled, expireJob
  <2>2. requestCancel(j) \/ markCancelled(j) \/ expireJob(j)
    BY <1>3 DEF cancelJob, cancelJobAdmin, ExpireStaleJob
  <2>3. QED
    BY <1>2, <2>1, <2>2, WebStatementEnds DEF Terminal
<1>4. CASE AdminReadsRow(j) \/ listStaleQueuedJobs(j) \/ Time(j)
  <2>1. UNCHANGED <<status, attempts, execs, active, proc, todo>>
    BY <1>4 DEF AdminReadsRow, listStaleQueuedJobs, Time, LeaseLapses, BackoffElapses, rowVars
  <2>2. QED
    BY <1>2, <2>1 DEF Terminal
<1>5. CASE \E d \in BOOLEAN : enqueueJob(j, d)
  <2>1. /\ status[j] = "absent" /\ status' = [status EXCEPT ![j] = "queued"]
        /\ UNCHANGED <<attempts, execs, active, proc, todo>>
    BY <1>5 DEF enqueueJob
  <2>2. \A e \in execs : e.job # j
    BY <2>1 DEF ExecutionsInv, Exists, Active, Waiting, Terminal
  <2>3. QED
    BY <1>1, <2>1, <2>2 DEF TypeOK, ExecutionsInv, ActiveTracksExecutions, OnlyCurrentAttemptRuns
<1>6. CASE requeueFailedJob(j)
  BY <1>6 DEF requeueFailedJob, OneWorker, TypeOK
<1>7. CASE deleteFinishedJob(j)
  <2>1. /\ status' = [status EXCEPT ![j] = "deleted"]
        /\ UNCHANGED <<attempts, execs, active, proc, todo>>
        /\ \A e \in execs : e.job # j
    BY <1>7 DEF deleteFinishedJob
  <2>2. QED
    BY <1>1, <2>1 DEF TypeOK, ExecutionsInv, ActiveTracksExecutions, OnlyCurrentAttemptRuns
<1>8. QED
  BY <1>3, <1>4, <1>5, <1>6, <1>7 DEF Web

-----------------------------------------------------------------------------
\* With one worker an id of the map stands for one execution.
LEMMA OneExecutionPerJob ==
    ASSUME OneWorkerInv, NEW e \in execs, NEW f \in execs, e.job = f.job
    PROVE  e = f
BY DEF OneWorkerInv, IInv, ClaimsAreExclusive, ExecutionsInv, OnlyCurrentAttemptRuns

LEMMA PhaseAndSignal ==
    ASSUME NEW e \in Execution, NEW p, NEW sg
    PROVE  [e EXCEPT !.phase = p].phase = p /\ [e EXCEPT !.signal = sg].phase = e.phase
BY DEF Execution

\* A step inside run(): the execution moves on, its row stays or ends.
LEMMA MovingOnKeepsExecutions ==
    ASSUME OneWorkerInv, NEW e \in execs, NEW g \in Execution,
           g.job = e.job, g.attempt = e.attempt, g.worker = e.worker,
           execs' = (execs \ {e}) \cup {g},
           status' = status \/ \E s \in Terminal : status' = [status EXCEPT ![e.job] = s],
           g.phase = "timedOut" => status'[e.job] \notin Active,
           UNCHANGED <<attempts, active, proc, todo>>
    PROVE  ExecutionsInv'
<1>1. \A f \in execs : f.job \in Jobs /\ f.worker \in Workers
  BY DEF OneWorkerInv, IInv, TypeOK, Execution
<1>2. \A k \in Jobs : status'[k] = status[k] \/ status'[k] \in Terminal
  BY DEF OneWorkerInv, IInv, TypeOK
<1>3. \A w \in Workers : {x.job : x \in {f \in execs' : f.worker = w}}
                           = {x.job : x \in {f \in execs : f.worker = w}}
  OBVIOUS
<1>4. ActiveTracksExecutions'
  BY <1>3 DEF OneWorkerInv, ExecutionsInv, ActiveTracksExecutions
<1>5. QED
  BY <1>1, <1>2, <1>4
     DEF OneWorkerInv, ExecutionsInv, OnlyCurrentAttemptRuns, Exists, Active, Waiting, Terminal

\* The end of run(): the execution and its entry go together.
LEMMA EndingKeepsExecutions ==
    ASSUME OneWorkerInv, NEW e \in execs, End(e), attempts' = attempts,
           \/ status' = status
           \/ \E s \in Waiting \cup Terminal : status' = [status EXCEPT ![e.job] = s]
    PROVE  ExecutionsInv'
<1>1. \A f \in execs : f.job \in Jobs /\ f.worker \in Workers
  BY DEF OneWorkerInv, IInv, TypeOK, Execution
<1>2. /\ execs' = execs \ {e}
      /\ active' = [active EXCEPT ![e.worker] = @ \ {e.job}]
      /\ UNCHANGED <<proc, todo>>
  BY DEF End
<1>3. \A f \in execs' : f.job # e.job
  BY <1>2, OneExecutionPerJob
<1>4. \A k \in Jobs : k # e.job => status'[k] = status[k]
  BY DEF OneWorkerInv, IInv, TypeOK
<1>5. ActiveTracksExecutions'
  BY <1>1, <1>2, <1>3 DEF OneWorkerInv, IInv, TypeOK, ExecutionsInv, ActiveTracksExecutions
<1>6. \A w \in Workers : active'[w] \subseteq active[w]
  BY <1>1, <1>2 DEF OneWorkerInv, IInv, TypeOK
<1>7. QED
  BY <1>1, <1>2, <1>3, <1>4, <1>5, <1>6
     DEF OneWorkerInv, ExecutionsInv, OnlyCurrentAttemptRuns

LEMMA RunKeepsExecutions ==
    ASSUME OneWorker, OneWorkerInv, NEW e \in execs, Run(e)
    PROVE  ExecutionsInv'
<1>1. e \in Execution /\ e.job \in Jobs /\ TypeOK
  BY DEF OneWorkerInv, IInv, TypeOK, Execution
<1>2. ASSUME NEW p \in Phases \ {"timedOut"}, MoveTo(e, p), UNCHANGED <<rowVars, active, proc, todo>>
      PROVE  ExecutionsInv'
  <2>1. PICK g : g = [e EXCEPT !.phase = p]
    OBVIOUS
  <2>2. /\ g \in Execution /\ g.job = e.job /\ g.attempt = e.attempt /\ g.worker = e.worker
        /\ g.phase = p
    BY <1>1, <2>1, MoveToKeepsTypes, PhaseAndSignal, "none" \in Signals DEF Signals
  <2>3. execs' = (execs \ {e}) \cup {g}
    BY <1>2, <2>1 DEF MoveTo
  <2>4. QED
    BY <1>2, <2>2, <2>3, MovingOnKeepsExecutions DEF rowVars
<1>3. CASE Heartbeat(e)
  BY <1>3 DEF Heartbeat, OneWorkerInv, ExecutionsInv, ActiveTracksExecutions, OnlyCurrentAttemptRuns
<1>4. CASE JobTimeout(e)
  <2>1. PICK g : g = [e EXCEPT !.signal = "timeout"]
    OBVIOUS
  <2>2. /\ g \in Execution /\ g.job = e.job /\ g.attempt = e.attempt /\ g.worker = e.worker
        /\ g.phase = e.phase
    BY <1>1, <2>1, MoveToKeepsTypes, PhaseAndSignal, "timeout" \in Signals, "handling" \in Phases
       DEF Signals, Phases
  <2>3. e.phase = "handling" /\ execs' = (execs \ {e}) \cup {g}
    BY <1>4, <2>1 DEF JobTimeout
  <2>4. QED
    BY <1>4, <2>2, <2>3, MovingOnKeepsExecutions DEF JobTimeout, rowVars
<1>5. CASE HandlerReturns(e)
  BY <1>2, <1>5 DEF HandlerReturns, Phases
<1>6. CASE \E retryable \in BOOLEAN : HandlerThrows(e, retryable)
  <2>1. /\ \E p \in {"cancelling", "retrying", "failing"} : MoveTo(e, p)
        /\ UNCHANGED <<rowVars, active, proc, todo>>
    BY <1>6, Zenon DEF HandlerThrows
  <2>2. QED
    BY <1>2, <2>1 DEF Phases
<1>7. CASE Fail(e)
  <2>1. /\ status' = status \/ \E s \in Terminal : status' = [status EXCEPT ![e.job] = s]
        /\ status'[e.job] \notin Active
        /\ attempts' = attempts
    BY <1>1, <1>7 DEF Fail, failJob, Finish, SetRow, TypeOK, Active, Waiting, Terminal
  <2>2. CASE End(e)
    BY <2>1, <2>2, EndingKeepsExecutions
  <2>3. CASE MoveTo(e, "timedOut") /\ UNCHANGED <<active, proc, todo>>
    <3>1. PICK g : g = [e EXCEPT !.phase = "timedOut"]
      OBVIOUS
    <3>2. /\ g \in Execution /\ g.job = e.job /\ g.attempt = e.attempt /\ g.worker = e.worker
          /\ execs' = (execs \ {e}) \cup {g}
      BY <1>1, <2>3, <3>1, MoveToKeepsTypes, "timedOut" \in Phases, "none" \in Signals
         DEF Phases, Signals, MoveTo
    <3>3. QED
      BY <2>1, <2>3, <3>2, MovingOnKeepsExecutions
  <2>4. QED
    BY <1>7, <2>2, <2>3 DEF Fail
<1>8. CASE Complete(e) \/ RetryLater(e) \/ FinishTimeout(e) \/ FinishCancelled(e)
  <2>1. /\ End(e) /\ attempts' = attempts
        /\ \/ status' = status
           \/ \E s \in Waiting \cup Terminal : status' = [status EXCEPT ![e.job] = s]
    BY <1>8 DEF Complete, RetryLater, FinishTimeout, FinishCancelled, completeJob,
                scheduleRetry, markCancelled, Finish, SetRow, rowVars, Waiting, Terminal
  <2>2. QED
    BY <2>1, EndingKeepsExecutions
<1>9. QED
  BY <1>3, <1>4, <1>5, <1>6, <1>7, <1>8 DEF Run

LEMMA ProcessKeepsExecutions ==
    ASSUME OneWorker, OneWorkerInv, NEW w \in Workers, Process(w)
    PROVE  ExecutionsInv'
<1> USE DEF OneWorkerInv, IInv
<1>1. /\ TypeOK /\ ExecutionsInv
      /\ \A v \in Workers : v = w
      /\ \A e \in execs : e.worker = w /\ e.job \in Jobs /\ e.job \in active[w]
  BY DEF TypeOK, Execution, OneWorker, ExecutionsInv, ActiveTracksExecutions
<1>2. ASSUME NEW j \in Jobs, claimNextJob(w, j)
      PROVE  ExecutionsInv'
  <2> DEFINE new == [job |-> j, attempt |-> attempts[j] + 1, worker |-> w,
                     phase |-> "handling", signal |-> "none"]
  <2>1. /\ proc[w] = "up" /\ status[j] \in Waiting /\ todo[w] = {}
        /\ status' = [status EXCEPT ![j] = "running"]
        /\ attempts' = [attempts EXCEPT ![j] = @ + 1]
        /\ execs' = execs \cup {new}
        /\ active' = [active EXCEPT ![w] = @ \cup {j}]
        /\ UNCHANGED <<proc, todo>>
    BY <1>2 DEF claimNextJob, SetRow, Claimable, pickFairCandidate, InBlock
  <2>2. \A e \in execs : e.job # j
    BY <1>1, <2>1 DEF ExecutionsInv
  <2>3. /\ new.job = j /\ new.attempt = attempts'[j] /\ new.worker = w /\ new.phase = "handling"
        /\ status'[j] = "running"
    BY <1>1, <2>1 DEF TypeOK
  <2> HIDE DEF new
  <2>4. ActiveTracksExecutions'
    BY <1>1, <2>1, <2>3 DEF TypeOK, ExecutionsInv, ActiveTracksExecutions
  <2>5. QED
    BY <1>1, <2>1, <2>2, <2>3, <2>4
       DEF TypeOK, ExecutionsInv, OnlyCurrentAttemptRuns, Exists, Active, Waiting
<1>3. CASE Sweep(w)
  <2>1. /\ \A p \in todo'[w] : p.op # "abandon" /\ p.job \notin active[w]
        /\ proc[w] = "up"
        /\ UNCHANGED <<status, attempts, execs, active, proc>>
    BY <1>1, <1>3 DEF Sweep, Orphan, Expired, rowVars, TypeOK
  <2>2. QED
    BY <1>1, <2>1 DEF ExecutionsInv, ActiveTracksExecutions, OnlyCurrentAttemptRuns
<1>4. ASSUME NEW p \in todo[w], recoverOrphanedJob(w, p)
      PROVE  ExecutionsInv'
  <2>1. /\ p.job \in Jobs /\ todo'[w] \subseteq todo[w]
        /\ UNCHANGED <<attempts, execs, active, proc>>
        /\ status' = status \/ \E s \in {"retrying", "failed"} : status' = [status EXCEPT ![p.job] = s]
    BY <1>1, <1>4 DEF recoverOrphanedJob, scheduleRetry, failOrphan, SetRow, TypeOK, Pending
  <2>2. CASE p.op = "abandon"
    <3>1. proc[w] = "closing" /\ (status' = status \/ status[p.job] = "running")
      BY <1>1, <1>4, <2>2 DEF recoverOrphanedJob, scheduleRetry, ExecutionsInv
    <3>2. \A e \in execs : status'[e.job] = status[e.job] \/ status[e.job] = "running"
      BY <1>1, <2>1, <3>1 DEF TypeOK
    <3>3. QED
      BY <1>1, <2>1, <3>1, <3>2 DEF TypeOK, ExecutionsInv, ActiveTracksExecutions,
              OnlyCurrentAttemptRuns, Exists, Active, Waiting, Terminal
  <2>3. CASE p.op # "abandon"
    <3>1. \A e \in execs : e.job # p.job
      BY <1>1, <2>3 DEF ExecutionsInv
    <3>2. \A e \in execs : status'[e.job] = status[e.job]
      BY <1>1, <2>1, <3>1 DEF TypeOK
    <3>3. QED
      BY <1>1, <2>1, <3>2 DEF ExecutionsInv, ActiveTracksExecutions, OnlyCurrentAttemptRuns
  <2>4. QED
    BY <2>2, <2>3
<1>5. CASE Start(w)
  <2>1. /\ execs = {} /\ active[w] = {}
        /\ \A p \in todo'[w] : p.op # "abandon"
        /\ proc'[w] = "up"
        /\ UNCHANGED <<status, attempts, execs, active>>
    BY <1>1, <1>5 DEF Start, Orphan, rowVars, TypeOK, ExecutionsInv
  <2>2. QED
    BY <1>1, <2>1 DEF ExecutionsInv, ActiveTracksExecutions, OnlyCurrentAttemptRuns
<1>6. CASE Stop(w)
  <2>1. /\ proc[w] = "up" /\ proc'[w] = "stopping" /\ todo[w] = {}
        /\ UNCHANGED <<status, attempts, execs, active, todo>>
    BY <1>1, <1>6 DEF Stop, InBlock, rowVars, TypeOK
  <2>2. QED
    BY <1>1, <2>1 DEF ExecutionsInv, ActiveTracksExecutions, OnlyCurrentAttemptRuns
<1>7. ASSUME NEW e \in execs, AbortActive(w, e)
      PROVE  ExecutionsInv'
  <2>1. PICK g : g = [e EXCEPT !.signal = "stop"]
    OBVIOUS
  <2>2. /\ g \in Execution /\ g.job = e.job /\ g.attempt = e.attempt /\ g.worker = e.worker
        /\ g.phase = e.phase
    BY <1>1, <2>1, MoveToKeepsTypes, PhaseAndSignal, "stop" \in Signals, "handling" \in Phases
       DEF Signals, Phases, TypeOK
  <2>3. e.phase = "timedOut" => status[e.job] \notin Active
    BY DEF ExecutionsInv
  <2>4. QED
    BY <1>7, <2>1, <2>2, <2>3, MovingOnKeepsExecutions DEF AbortActive, rowVars
<1>8. CASE GraceElapsed(w)
  <2>1. /\ proc'[w] = "closing" /\ proc[w] = "stopping"
        /\ \A p \in todo'[w] : p.op = "abandon"
        /\ UNCHANGED <<status, attempts, execs, active>>
    BY <1>1, <1>8 DEF GraceElapsed, rowVars, TypeOK
  <2>2. QED
    BY <1>1, <2>1 DEF ExecutionsInv, ActiveTracksExecutions, OnlyCurrentAttemptRuns
<1>9. CASE Exit(w) \/ Crash(w)
  <2>1. /\ execs' = {} /\ active'[w] = {} /\ todo'[w] = {}
    BY <1>1, <1>9 DEF Exit, Crash, Vanish, TypeOK
  <2>2. QED
    BY <1>1, <2>1 DEF ExecutionsInv, ActiveTracksExecutions, OnlyCurrentAttemptRuns
<1>10. QED
  BY <1>2, <1>3, <1>4, <1>5, <1>6, <1>7, <1>8, <1>9 DEF Process

LEMMA NextOneWorkerInv == JobQueueAssumption /\ OneWorker /\ OneWorkerInv /\ [Next]_vars => OneWorkerInv'
<1> SUFFICES ASSUME JobQueueAssumption, OneWorker, OneWorkerInv, [Next]_vars
             PROVE  OneWorkerInv'
  OBVIOUS
<1>1. IInv'
  BY NextIInv DEF OneWorkerInv
<1>2. ExecutionsInv'
  <2>1. CASE UNCHANGED vars
    BY <2>1 DEF vars, rowVars, OneWorkerInv, ExecutionsInv, ActiveTracksExecutions,
                OnlyCurrentAttemptRuns
  <2>2. QED
    BY <2>1, WebKeepsExecutions, RunKeepsExecutions, ProcessKeepsExecutions DEF Next
<1>3. QED
  BY <1>1, <1>2 DEF OneWorkerInv

LEMMA InitOneWorkerInv == Init => OneWorkerInv
BY InitIInv DEF Init, OneWorkerInv, ExecutionsInv, ActiveTracksExecutions, OnlyCurrentAttemptRuns

\* With one worker every live execution is of the latest claim of its job.
THEOREM OneWorkerRunsCurrentAttempts ==
    ASSUME OneWorker
    PROVE  Spec => []OnlyCurrentAttemptRuns
<1>1. OneWorkerInv => OnlyCurrentAttemptRuns
  BY DEF OneWorkerInv, ExecutionsInv
<1>2. QED
  BY InitOneWorkerInv, NextOneWorkerInv, JobQueueAssumption, OneWorker, <1>1, PTL DEF Spec

\* With one worker the map of active jobs is exactly what executes.
THEOREM OneWorkerTracksExecutions ==
    ASSUME OneWorker
    PROVE  Spec => []ActiveTracksExecutions
<1>1. OneWorkerInv => ActiveTracksExecutions
  BY DEF OneWorkerInv, ExecutionsInv
<1>2. QED
  BY InitOneWorkerInv, NextOneWorkerInv, JobQueueAssumption, OneWorker, <1>1, PTL DEF Spec

-----------------------------------------------------------------------------
(***************************************************************************)
(* The attempt budget.  A job waits only with an attempt to spare; a stop  *)
(* adds one, before anything is abandoned.                                 *)
(***************************************************************************)
Spare(j) == attempts[j] < MaxAttempts + stops

BudgetInv ==
    /\ AttemptBudget
    /\ \A j \in Jobs : status[j] \in Waiting \cup {"absent"} => Spare(j)
    /\ \A w \in Workers : proc[w] \in {"stopping", "closing"} => \A j \in Jobs : Spare(j)
    /\ \A e \in execs : e.phase = "retrying" => e.attempt < MaxAttempts
    /\ \A w \in Workers : \A p \in todo[w] : p.op = "requeue" => attempts[p.job] < MaxAttempts

LEMMA InitBudgetInv == JobQueueAssumption /\ Init => BudgetInv
BY DEF JobQueueAssumption, Init, BudgetInv, AttemptBudget, Spare

LEMMA WebEffect ==
    ASSUME TypeOK, OneWorker, NEW j \in Jobs, Web(j) \/ Time(j)
    PROVE  /\ UNCHANGED <<attempts, execs, active, proc, todo, stops>>
           /\ \/ status' = status
              \/ \E s \in Terminal \cup {"deleted"} : status' = [status EXCEPT ![j] = s]
              \/ status[j] = "absent" /\ status' = [status EXCEPT ![j] = "queued"]
<1>1. CASE cancelJob(j) \/ cancelJobAdmin(j) \/ ExpireStaleJob(j)
  BY <1>1, WebStatementEnds
     DEF cancelJob, cancelJobAdmin, ExpireStaleJob, requestCancel, markCancelled, expireJob, envVars
<1>2. CASE AdminReadsRow(j) \/ listStaleQueuedJobs(j) \/ Time(j)
  BY <1>2 DEF AdminReadsRow, listStaleQueuedJobs, Time, LeaseLapses, BackoffElapses, rowVars, envVars
<1>3. CASE (\E d \in BOOLEAN : enqueueJob(j, d)) \/ deleteFinishedJob(j)
  BY <1>3 DEF enqueueJob, deleteFinishedJob, envVars
<1>4. CASE requeueFailedJob(j)
  BY <1>4 DEF requeueFailedJob, OneWorker, TypeOK
<1>5. QED
  BY <1>1, <1>2, <1>3, <1>4 DEF Web

LEMMA WebKeepsBudget ==
    ASSUME JobQueueAssumption, OneWorker, OneWorkerInv, BudgetInv, NEW j \in Jobs, Web(j) \/ Time(j)
    PROVE  BudgetInv'
<1>1. TypeOK
  BY DEF OneWorkerInv, IInv
<1>2. QED
  BY <1>1, WebEffect DEF TypeOK, BudgetInv, AttemptBudget, Spare, Waiting, Terminal

LEMMA RunKeepsBudget ==
    ASSUME JobQueueAssumption, OneWorkerInv, BudgetInv, NEW e \in execs, Run(e)
    PROVE  BudgetInv'
<1>1. TypeOK /\ e \in Execution /\ e.job \in Jobs /\ e.attempt = attempts[e.job]
  BY DEF OneWorkerInv, IInv, TypeOK, Execution, ExecutionsInv, OnlyCurrentAttemptRuns
<1>2. UNCHANGED <<attempts, proc, todo, stops>>
  BY DEF Run, Heartbeat, JobTimeout, HandlerReturns, HandlerThrows, Complete, RetryLater, Fail,
         FinishTimeout, FinishCancelled, End, completeJob, scheduleRetry, failJob, markCancelled,
         rowVars, envVars
<1>3. \/ status' = status
      \/ \E s \in Terminal : status' = [status EXCEPT ![e.job] = s]
      \/ e.phase = "retrying" /\ status' = [status EXCEPT ![e.job] = "retrying"]
  BY DEF Run, Heartbeat, JobTimeout, HandlerReturns, HandlerThrows, Complete, RetryLater, Fail,
         FinishTimeout, FinishCancelled, completeJob, scheduleRetry, failJob, markCancelled,
         Finish, SetRow, rowVars, Terminal
<1>4. \A f \in execs' : f.phase = "retrying" => f.attempt < MaxAttempts
  <2> USE DEF BudgetInv
  <2>1. CASE execs' \subseteq execs
    BY <2>1
  <2>2. ASSUME NEW p \in Phases \ {"retrying"}, MoveTo(e, p)
        PROVE  \A f \in execs' : f.phase = "retrying" => f.attempt < MaxAttempts
    <3>1. PICK g : g = [e EXCEPT !.phase = p]
      OBVIOUS
    <3>2. g.phase # "retrying"
      BY <1>1, <3>1, PhaseAndSignal
    <3>3. QED
      BY <2>2, <3>1, <3>2 DEF MoveTo
  <2>3. CASE JobTimeout(e)
    <3>1. [e EXCEPT !.signal = "timeout"].phase = "handling"
      BY <1>1, <2>3, PhaseAndSignal DEF JobTimeout
    <3>2. QED
      BY <2>3, <3>1 DEF JobTimeout
  <2>4. CASE HandlerReturns(e)
    BY <2>2, <2>4 DEF HandlerReturns, Phases
  <2>5. CASE \E retryable \in BOOLEAN : HandlerThrows(e, retryable)
    <3>1. \/ \E p \in {"cancelling", "failing"} : MoveTo(e, p)
          \/ e.attempt < MaxAttempts /\ MoveTo(e, "retrying")
      BY <2>5, Zenon DEF HandlerThrows
    <3>2. [e EXCEPT !.phase = "retrying"].attempt = e.attempt
      BY <1>1, MoveToKeepsTypes, "retrying" \in Phases, "none" \in Signals DEF Phases, Signals
    <3>3. QED
      BY <2>2, <3>1, <3>2 DEF MoveTo, Phases
  <2>6. CASE Fail(e)
    BY <2>1, <2>2, <2>6 DEF Fail, End, Phases
  <2>7. QED
    BY <2>1, <2>3, <2>4, <2>5, <2>6
       DEF Run, Heartbeat, Complete, RetryLater, FinishTimeout, FinishCancelled, End
<1>5. \A j \in Jobs : status'[j] \in Waiting \cup {"absent"} =>
          status[j] \in Waiting \cup {"absent"} \/ attempts[j] < MaxAttempts
  BY <1>1, <1>3 DEF BudgetInv, TypeOK, Waiting, Terminal
<1>6. QED
  BY <1>1, <1>2, <1>4, <1>5 DEF JobQueueAssumption, TypeOK, BudgetInv, AttemptBudget, Spare

LEMMA ProcessKeepsBudget ==
    ASSUME JobQueueAssumption, OneWorker, OneWorkerInv, BudgetInv, NEW w \in Workers, Process(w)
    PROVE  BudgetInv'
<1> USE DEF JobQueueAssumption, Spare
<1>1. TypeOK /\ \A v \in Workers : v = w
  BY DEF OneWorkerInv, IInv, OneWorker
<1>2. ASSUME NEW j \in Jobs, claimNextJob(w, j)
      PROVE  BudgetInv'
  <2>1. /\ proc[w] = "up" /\ status[j] \in Waiting /\ todo[w] = {}
        /\ status' = [status EXCEPT ![j] = "running"]
        /\ attempts' = [attempts EXCEPT ![j] = @ + 1]
        /\ \A f \in execs' : f \in execs \/ f.phase = "handling"
        /\ UNCHANGED <<proc, todo, stops>>
    BY <1>2 DEF claimNextJob, SetRow, Claimable, pickFairCandidate, InBlock, envVars
  <2>2. QED
    BY <1>1, <2>1 DEF TypeOK, BudgetInv, AttemptBudget, Waiting
<1>3. CASE Sweep(w) \/ Start(w)
  <2>1. /\ \A p \in todo'[w] : p.op = "requeue" => attempts[p.job] < MaxAttempts
        /\ proc'[w] = "up"
        /\ UNCHANGED <<status, attempts, execs, stops>>
    BY <1>1, <1>3 DEF Sweep, Start, Orphan, rowVars, envVars, TypeOK
  <2>2. QED
    BY <1>1, <2>1 DEF BudgetInv, AttemptBudget
<1>4. ASSUME NEW p \in todo[w], recoverOrphanedJob(w, p)
      PROVE  BudgetInv'
  <2>1. /\ p.job \in Jobs /\ todo'[w] \subseteq todo[w]
        /\ UNCHANGED <<attempts, execs, proc, stops>>
        /\ \/ status' = status
           \/ p.op # "fail" /\ status' = [status EXCEPT ![p.job] = "retrying"]
           \/ status' = [status EXCEPT ![p.job] = "failed"]
    BY <1>1, <1>4 DEF recoverOrphanedJob, scheduleRetry, failOrphan, SetRow, envVars, TypeOK, Pending
  <2>2. p.op # "fail" => Spare(p.job)
    BY <1>1, <1>4, <2>1 DEF TypeOK, Pending, BudgetInv, OneWorkerInv, ExecutionsInv
  <2>3. QED
    BY <1>1, <2>1, <2>2 DEF TypeOK, BudgetInv, AttemptBudget, Waiting
<1>5. CASE Stop(w)
  <2>1. stops' = stops + 1 /\ todo[w] = {} /\ UNCHANGED <<status, attempts, execs, todo>>
    BY <1>5 DEF Stop, InBlock, rowVars
  <2>2. QED
    BY <1>1, <2>1 DEF TypeOK, BudgetInv, AttemptBudget
<1>6. ASSUME NEW e \in execs, AbortActive(w, e)
      PROVE  BudgetInv'
  <2>1. PICK g : g = [e EXCEPT !.signal = "stop"]
    OBVIOUS
  <2>2. g.phase = e.phase /\ g.attempt = e.attempt
    BY <1>1, <2>1, MoveToKeepsTypes, PhaseAndSignal, "stop" \in Signals, "handling" \in Phases
       DEF Signals, Phases, TypeOK
  <2>3. /\ execs' = (execs \ {e}) \cup {g}
        /\ UNCHANGED <<status, attempts, proc, todo, stops>>
    BY <1>6, <2>1 DEF AbortActive, rowVars, envVars
  <2>4. QED
    BY <2>2, <2>3 DEF BudgetInv, AttemptBudget
<1>7. CASE GraceElapsed(w)
  <2>1. /\ proc[w] = "stopping"
        /\ \A p \in todo'[w] : p.op = "abandon"
        /\ UNCHANGED <<status, attempts, execs, stops>>
    BY <1>1, <1>7 DEF GraceElapsed, rowVars, envVars, TypeOK
  <2>2. QED
    BY <1>1, <2>1 DEF BudgetInv, AttemptBudget
<1>8. CASE Exit(w) \/ Crash(w)
  <2>1. /\ execs' \subseteq execs /\ todo'[w] = {} /\ proc'[w] = "down"
        /\ UNCHANGED <<status, attempts, stops>>
    BY <1>1, <1>8 DEF Exit, Crash, Vanish, rowVars, envVars, TypeOK
  <2>2. QED
    BY <1>1, <2>1 DEF BudgetInv, AttemptBudget
<1>9. QED
  BY <1>2, <1>3, <1>4, <1>5, <1>6, <1>7, <1>8 DEF Process

\* With one worker a job is delivered at most max_attempts times, and once more
\* for each shutdown.
THEOREM OneWorkerAttemptBudget ==
    ASSUME OneWorker
    PROVE  Spec => []AttemptBudget
<1>1. JobQueueAssumption /\ OneWorker /\ OneWorkerInv /\ BudgetInv /\ [Next]_vars => BudgetInv'
  <2>1. BudgetInv /\ UNCHANGED vars => BudgetInv'
    BY DEF vars, rowVars, envVars, BudgetInv, AttemptBudget, Spare
  <2>2. QED
    BY <2>1, WebKeepsBudget, RunKeepsBudget, ProcessKeepsBudget DEF Next
<1>2. BudgetInv => AttemptBudget
  BY DEF BudgetInv
<1>3. QED
  BY InitOneWorkerInv, NextOneWorkerInv, InitBudgetInv, JobQueueAssumption, OneWorker,
     <1>1, <1>2, PTL DEF Spec

-----------------------------------------------------------------------------
(***************************************************************************)
(* The per-user cap.  A worker counts only users with an entry in its own  *)
(* map, so the cap needs every running row to have an entry, or to be      *)
(* about to be recovered, whenever the worker claims.                      *)
(***************************************************************************)
EveryRunningRowIsKnown ==
    \A w \in Workers : proc[w] = "up" =>
        \A j \in Jobs : status[j] = "running" =>
            j \in active[w] \/ \E p \in todo[w] : p.job = j

NoRowStarts == \A k \in Jobs : status'[k] = "running" => status[k] = "running"

LEMMA OnlyTheClaimStarts ==
    ASSUME OneWorkerInv, [Next]_vars
    PROVE  NoRowStarts \/ \E w \in Workers, j \in Jobs : claimNextJob(w, j)
<1>1. TypeOK /\ RowsTypeOK /\ RowsInv /\ RowEffect
  BY NextHasRowEffect, TypeOKSplit DEF OneWorkerInv, IInv
<1>2. ASSUME NEW j \in Jobs, RowStatement(j)
      PROVE  NoRowStarts
  BY <1>1, <1>2, RowStatementKeepsRows DEF RowStep, NoRowStarts, RowsTypeOK, Waiting, Terminal
<1>3. ASSUME NEW j \in Jobs, \/ \E d \in BOOLEAN : enqueueJob(j, d)
                             \/ requeueFailedJob(j) \/ deleteFinishedJob(j) \/ Time(j)
      PROVE  NoRowStarts
  BY <1>1, <1>3 DEF NoRowStarts, RowsTypeOK, enqueueJob, requeueFailedJob, deleteFinishedJob,
                    SetRow, Time, LeaseLapses, BackoffElapses
<1>4. QED
  BY <1>1, <1>2, <1>3 DEF RowEffect, rowVars, Heartbeat, NoRowStarts

LEMMA RunKeepsRowsKnown ==
    ASSUME OneWorkerInv, EveryRunningRowIsKnown, NEW e \in execs, Run(e)
    PROVE  EveryRunningRowIsKnown'
<1>1. TypeOK /\ e.job \in Jobs /\ e.worker \in Workers
  BY DEF OneWorkerInv, IInv, TypeOK, Execution
<1>2. NoRowStarts
  BY <1>1 DEF Run, Heartbeat, JobTimeout, HandlerReturns, HandlerThrows, Complete, RetryLater, Fail,
         FinishTimeout, FinishCancelled, completeJob, scheduleRetry, failJob, markCancelled,
         Finish, SetRow, rowVars, NoRowStarts, TypeOK
<1>3. CASE UNCHANGED <<active, proc, todo>>
  BY <1>2, <1>3 DEF EveryRunningRowIsKnown, NoRowStarts
<1>4. CASE End(e) /\ (Complete(e) \/ RetryLater(e) \/ Fail(e) \/ FinishTimeout(e) \/ FinishCancelled(e))
  <2>1. status'[e.job] # "running"
    BY <1>1, <1>4
       DEF Complete, RetryLater, Fail, FinishTimeout, FinishCancelled, completeJob, scheduleRetry,
           failJob, markCancelled, Finish, SetRow, rowVars, TypeOK, Active, Waiting, Terminal,
           OneWorkerInv, ExecutionsInv
  <2>2. QED
    BY <1>1, <1>2, <1>4, <2>1 DEF End, EveryRunningRowIsKnown, NoRowStarts, TypeOK
<1>5. QED
  BY <1>3, <1>4 DEF Run, Heartbeat, JobTimeout, HandlerReturns, HandlerThrows, Complete, RetryLater,
                    Fail, FinishTimeout, FinishCancelled

LEMMA ProcessKeepsRowsKnown ==
    ASSUME OneWorker, OneWorkerInv, EveryRunningRowIsKnown, NEW w \in Workers, Process(w)
    PROVE  EveryRunningRowIsKnown'
<1>1. TypeOK /\ RowsInv /\ \A v \in Workers : v = w
  BY DEF OneWorkerInv, IInv, OneWorker
<1>2. ASSUME NEW j \in Jobs, claimNextJob(w, j)
      PROVE  EveryRunningRowIsKnown'
  BY <1>1, <1>2 DEF claimNextJob, SetRow, EveryRunningRowIsKnown, TypeOK
<1>3. CASE Sweep(w)
  BY <1>1, <1>3 DEF Sweep, InBlock, rowVars, EveryRunningRowIsKnown
<1>4. ASSUME NEW p \in todo[w], recoverOrphanedJob(w, p)
      PROVE  EveryRunningRowIsKnown'
  <2>1. /\ p.job \in Jobs /\ status'[p.job] # "running"
        /\ NoRowStarts
        /\ todo' = [todo EXCEPT ![w] = @ \ {p}]
        /\ UNCHANGED <<active, proc>>
    BY <1>1, <1>4 DEF recoverOrphanedJob, scheduleRetry, failOrphan, SetRow, NoRowStarts,
                      TypeOK, Pending
  <2>2. QED
    BY <1>1, <2>1 DEF EveryRunningRowIsKnown, NoRowStarts, TypeOK
<1>5. CASE Start(w)
  <2>1. \A j \in Jobs : status[j] = "running" => \E p \in todo'[w] : p.job = j
    <3>1. ASSUME NEW j \in Jobs, status[j] = "running"
          PROVE  Orphan(j) \in todo'[w] /\ Orphan(j).job = j
      BY <1>1, <1>5, <3>1 DEF Start, OwnLeftovers, Orphan, RowsInv, LeaseDiscipline, TypeOK
    <3>2. QED
      BY <3>1
  <2>2. QED
    BY <1>1, <1>5, <2>1 DEF Start, rowVars, EveryRunningRowIsKnown
<1>6. CASE Stop(w) \/ GraceElapsed(w) \/ Exit(w) \/ Crash(w)
  <2>1. proc'[w] # "up"
    BY <1>1, <1>6 DEF Stop, GraceElapsed, Exit, Crash, Vanish, TypeOK
  <2>2. QED
    BY <1>1, <2>1 DEF EveryRunningRowIsKnown
<1>7. CASE \E e \in execs : AbortActive(w, e)
  BY <1>7 DEF AbortActive, rowVars, EveryRunningRowIsKnown
<1>8. QED
  BY <1>2, <1>3, <1>4, <1>5, <1>6, <1>7 DEF Process

LEMMA NextKeepsRowsKnown ==
    ASSUME OneWorker, OneWorkerInv, EveryRunningRowIsKnown, [Next]_vars
    PROVE  EveryRunningRowIsKnown'
<1>1. CASE UNCHANGED vars
  BY <1>1 DEF vars, rowVars, EveryRunningRowIsKnown
<1>2. ASSUME NEW j \in Jobs, Web(j) \/ Time(j)
      PROVE  EveryRunningRowIsKnown'
  <2>1. TypeOK
    BY DEF OneWorkerInv, IInv
  <2>2. QED
    BY <1>2, <2>1, WebEffect DEF EveryRunningRowIsKnown, TypeOK, Terminal
<1>3. QED
  BY <1>1, <1>2, RunKeepsRowsKnown, ProcessKeepsRowsKnown DEF Next

LEMMA ClaimKeepsCap ==
    ASSUME IsFiniteSet(Jobs), UserConcurrency \in Nat \ {0}, UserConcurrencyCap,
           OneWorkerInv, EveryRunningRowIsKnown,
           NEW w \in Workers, NEW j \in Jobs, claimNextJob(w, j)
    PROVE  UserConcurrencyCap'
<1>1. /\ proc[w] = "up" /\ todo[w] = {} /\ UserOf[j] \notin ExcludedUsers(w)
      /\ status' = [status EXCEPT ![j] = "running"]
      /\ TypeOK
  BY DEF claimNextJob, SetRow, Claimable, pickFairCandidate, InBlock, OneWorkerInv, IInv
<1>2. SUFFICES ASSUME NEW i \in Jobs, UserOf[i] # None
               PROVE  Cardinality(RunningTests(UserOf[i])') <= UserConcurrency
  BY DEF UserConcurrencyCap, RunningTests
<1> DEFINE S == RunningTests(UserOf[i])
<1>3. IsFiniteSet(S) /\ Cardinality(S) \in Nat /\ Cardinality(S) <= UserConcurrency
  <2>1. S \subseteq Jobs
    BY DEF RunningTests
  <2>2. IsFiniteSet(S)
    BY <2>1, FS_Subset
  <2>3. QED
    BY <1>2, <2>2, FS_CardinalityType DEF UserConcurrencyCap
<1>4. CASE UserOf[j] # UserOf[i] \/ TypeOf[j] # "AUTOMATED_TEST"
  <2>1. RunningTests(UserOf[i])' = S
    BY <1>1, <1>4 DEF RunningTests, TypeOK
  <2>2. QED
    BY <1>3, <2>1
<1>5. CASE UserOf[j] = UserOf[i] /\ TypeOf[j] = "AUTOMATED_TEST"
  <2>1. RunningTests(UserOf[i])' = S \cup {j}
    BY <1>1, <1>5 DEF RunningTests, TypeOK
  <2>2. Cardinality(S) < UserConcurrency
    <3>1. CASE S = {}
      BY <3>1, FS_EmptySet
    <3>2. ASSUME NEW k \in S
          PROVE  Cardinality(S) < UserConcurrency
      <4>1. /\ k \in active[w] /\ UserOf[k] = UserOf[i] /\ TypeOf[k] = "AUTOMATED_TEST"
        BY <1>1, <3>2 DEF RunningTests, EveryRunningRowIsKnown
      <4>2. Cardinality(S) >= UserConcurrency => UserOf[j] \in ExcludedUsers(w)
        BY <1>2, <1>5, <4>1 DEF ExcludedUsers
      <4>3. QED
        BY <1>1, <1>3, <4>2
    <3>3. QED
      BY <3>1, <3>2
  <2>3. Cardinality(S \cup {j}) = IF j \in S THEN Cardinality(S) ELSE Cardinality(S) + 1
    BY <1>3, FS_AddElement
  <2> HIDE DEF S
  <2>4. Cardinality(S \cup {j}) <= UserConcurrency
    BY <1>3, <2>2, <2>3
  <2>5. QED
    BY <2>1, <2>4
<1>6. QED
  BY <1>4, <1>5

LEMMA NextKeepsCap ==
    ASSUME IsFiniteSet(Jobs), UserConcurrency \in Nat \ {0}, UserConcurrencyCap,
           OneWorkerInv, EveryRunningRowIsKnown, [Next]_vars
    PROVE  UserConcurrencyCap'
<1>1. CASE NoRowStarts
  <2>1. SUFFICES ASSUME NEW i \in Jobs, UserOf[i] # None
                 PROVE  Cardinality(RunningTests(UserOf[i])') <= UserConcurrency
    BY DEF UserConcurrencyCap, RunningTests
  <2>2. RunningTests(UserOf[i])' \subseteq RunningTests(UserOf[i])
    BY <1>1 DEF RunningTests, NoRowStarts
  <2>3. IsFiniteSet(RunningTests(UserOf[i]))
    BY FS_Subset, RunningTests(UserOf[i]) \subseteq Jobs DEF RunningTests
  <2>4. QED
    BY <2>1, <2>2, <2>3, FS_Subset, FS_CardinalityType DEF UserConcurrencyCap
<1>2. QED
  BY <1>1, OnlyTheClaimStarts, ClaimKeepsCap

\* With one worker no user has more automated tests running than the limit.
THEOREM OneWorkerUserCap ==
    ASSUME OneWorker, IsFiniteSet(Jobs), UserConcurrency \in Nat \ {0}
    PROVE  Spec => []UserConcurrencyCap
<1>1. Init => EveryRunningRowIsKnown /\ UserConcurrencyCap
  <2>1. ASSUME Init, NEW i \in Jobs
        PROVE  Cardinality(RunningTests(UserOf[i])) = 0
    BY <2>1, FS_EmptySet, RunningTests(UserOf[i]) = {} DEF Init, RunningTests
  <2>2. QED
    BY <2>1 DEF Init, EveryRunningRowIsKnown, UserConcurrencyCap
<1>2. OneWorkerInv /\ EveryRunningRowIsKnown /\ [Next]_vars => EveryRunningRowIsKnown'
  BY NextKeepsRowsKnown
<1>3. UserConcurrencyCap /\ OneWorkerInv /\ EveryRunningRowIsKnown /\ [Next]_vars => UserConcurrencyCap'
  BY NextKeepsCap
<1>4. QED
  BY InitOneWorkerInv, NextOneWorkerInv, JobQueueAssumption, OneWorker, <1>1, <1>2, <1>3, PTL DEF Spec
=============================================================================
