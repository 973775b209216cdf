--------------------------- MODULE TestRunsProofs ---------------------------
(***************************************************************************)
(* Types and quota of test runs, for every set of runs and users, every    *)
(* limit and any number of crashes, shutdowns and reopened jobs.           *)
(***************************************************************************)
EXTENDS TestRuns, SavedTests, TestExecution, SequenceTheorems, FiniteSetTheorems, TLAPS

Statuses == ActiveRun \cup Final \cup {"absent"}

\* A manager that waits for its sandbox to go is in a final state, which is
\* what saveTestRunFinal then writes.
CleaningIsFinal ==
    \A r \in Runs : phase[r] = "cleaning" => mgr[r] \in {"failed", "completed", "timeout"}

RunTypeOK   == run \in [Runs -> Statuses] /\ outcome \in [Runs -> Outcomes]
QuotaTypeOK ==
    /\ resv \in [Runs -> {"none", "open", "consumed", "released"}]
    /\ usage \subseteq [run : Runs, delivery : Nat]
    /\ booted \subseteq Runs
JobTypeOK   ==
    /\ job \in [Runs -> Queue!States]
    /\ deliveries \in [Runs -> Nat]
    /\ cancel \in [Runs -> BOOLEAN]
WorkTypeOK  ==
    /\ phase \in [Runs -> Phases]
    /\ code \in [Runs -> Codes]
    /\ signal \in [Runs -> Signals]
    /\ mgr \in [Runs -> Snaps]
    /\ started \in [Runs -> BOOLEAN]
    /\ todo \subseteq Todo
EnvTypeOK   ==
    /\ seen \subseteq [run : Runs, cancelled : BOOLEAN]
    /\ worker \in {"down", "up", "stopping", "closing"}
    /\ crashes \in Nat /\ stops \in Nat /\ overrides \in Nat

TypeInv == RunTypeOK /\ QuotaTypeOK /\ JobTypeOK /\ WorkTypeOK /\ EnvTypeOK /\ CleaningIsFinal

LEMMA TypeInvImpliesTypeOK == TypeInv => TypeOK
BY DEF TypeInv, TypeOK, RunTypeOK, QuotaTypeOK, JobTypeOK, WorkTypeOK, EnvTypeOK, Statuses

-----------------------------------------------------------------------------
(***************************************************************************)
(* The statements.                                                         *)
(***************************************************************************)
\* A statement on the run writes a status and an outcome there are.
LEMMA RunStatements ==
    ASSUME RunTypeOK, NEW r \in Runs, NEW s \in Statuses, NEW o \in Outcomes
    PROVE  /\ SetRun(r, s, o) => RunTypeOK'
           /\ updateTestRunStatus(r, s) => RunTypeOK'
           /\ finalizeTestRunWithoutResults(r, s, o) => RunTypeOK'
           /\ requeueTestRunForRetry(r) => RunTypeOK'
<1>1. ASSUME NEW t \in Statuses, NEW p \in Outcomes, SetRun(r, t, p)
      PROVE  RunTypeOK'
  BY <1>1 DEF SetRun, RunTypeOK
<1>2. UNCHANGED runVars => RunTypeOK'
  BY DEF runVars, RunTypeOK
<1>3. outcome[r] \in Outcomes /\ "queued" \in Statuses /\ "none" \in Outcomes
  BY DEF RunTypeOK, Statuses, ActiveRun, Outcomes
<1>4. QED
  BY <1>1, <1>2, <1>3 DEF updateTestRunStatus, finalizeTestRunWithoutResults, requeueTestRunForRetry

LEMMA QuotaStatements ==
    ASSUME QuotaTypeOK, JobTypeOK, NEW r \in Runs
    PROVE  /\ Release(r) \in [Runs -> {"none", "open", "consumed", "released"}]
           /\ consumeReservation(r) => /\ resv' \in [Runs -> {"none", "open", "consumed", "released"}]
                                       /\ usage' \subseteq [run : Runs, delivery : Nat]
BY DEF QuotaTypeOK, JobTypeOK, Release, consumeReservation

LEMMA JobStatements ==
    ASSUME JobTypeOK, NEW r \in Runs, NEW s \in Queue!States, NEW from, UNCHANGED cancel
    PROVE  /\ Queue!Become(r, s) => JobTypeOK'
           /\ UpdateJob(r, from, s) => JobTypeOK'
           /\ Queue!Deliver(r) => JobTypeOK'
BY DEF JobTypeOK, Queue!Become, UpdateJob, Queue!Deliver, Queue!States, Queue!Ended

LEMMA PlanTypes ==
    ASSUME todo \subseteq Todo, NEW r \in Runs, NEW op \in Ops, Plan(r, op)
    PROVE  todo' \subseteq Todo
BY DEF Plan, Todo

LEMMA FinalizeCancelledTypes ==
    ASSUME RunTypeOK, todo \subseteq Todo, NEW r \in Runs, finalizeCancelled(r)
    PROVE  RunTypeOK' /\ todo' \subseteq Todo
<1>1. RunTypeOK'
  BY RunStatements DEF finalizeCancelled, Statuses, Final, Outcomes
<1>2. QED
  BY <1>1 DEF finalizeCancelled, Plan, Todo, Ops

-----------------------------------------------------------------------------
(***************************************************************************)
(* Types.                                                                  *)
(***************************************************************************)
LEMMA WebTypes ==
    ASSUME TypeInv, NEW r \in Runs, Web(r)
    PROVE  TypeInv'
<1> USE DEF TypeInv, CleaningIsFinal, workVars, execVars, mgrVars, envVars, runVars, quotaVars, jobVars
<1>0. RunTypeOK /\ QuotaTypeOK /\ JobTypeOK /\ WorkTypeOK /\ EnvTypeOK /\ CleaningIsFinal
  OBVIOUS
<1>1. CASE createQueuedTestRun(r)
  <2>1. RunTypeOK'
    BY <1>0, <1>1, RunStatements DEF createQueuedTestRun, Statuses, ActiveRun, Outcomes
  <2>2. JobTypeOK'
    BY <1>0, <1>1, JobStatements DEF createQueuedTestRun, Queue!Submit, Queue!States
  <2>3. QED
    BY <1>0, <1>1, <2>1, <2>2 DEF createQueuedTestRun, QuotaTypeOK, WorkTypeOK, EnvTypeOK
<1>2. CASE CancelJobOf(r)
  <2>1. JobTypeOK'
    BY <1>0, <1>2 DEF CancelJobOf, JobTypeOK, Queue!Become, Queue!States, Queue!Ended
  <2>2. EnvTypeOK'
    <3>1. [run |-> r, cancelled |-> job[r] \in {"pending", "cancelled"}]
              \in [run : Runs, cancelled : BOOLEAN]
      OBVIOUS
    <3>2. seen' = seen \cup {[run |-> r, cancelled |-> job[r] \in {"pending", "cancelled"}]}
      BY <1>2 DEF CancelJobOf
    <3>3. QED
      BY <1>0, <1>2, <3>1, <3>2 DEF CancelJobOf, EnvTypeOK
  <2>3. QED
    BY <1>0, <1>2, <2>1, <2>2 DEF CancelJobOf, RunTypeOK, QuotaTypeOK, WorkTypeOK
<1>3. ASSUME NEW b \in BOOLEAN, cancelRun([run |-> r, cancelled |-> b])
      PROVE  TypeInv'
  <2>1. RunTypeOK'
    <3>1. UNCHANGED runVars => RunTypeOK'
      BY <1>0 DEF RunTypeOK
    <3>2. QED
      BY <1>0, <1>3, <3>1, RunStatements
      DEF cancelRun, Statuses, ActiveRun, Final, Outcomes
  <2>2. QuotaTypeOK'
    BY <1>0, <1>3, QuotaStatements DEF cancelRun, QuotaTypeOK
  <2>3. QED
    BY <1>0, <1>3, <2>1, <2>2 DEF cancelRun, JobTypeOK, WorkTypeOK, EnvTypeOK
<1>4. CASE cancelJobAdmin(r)
  <2>1. JobTypeOK'
    BY <1>0, <1>4 DEF cancelJobAdmin, JobTypeOK, Queue!Become, Queue!States, Queue!Ended
  <2>2. QED
    BY <1>0, <1>4, <2>1
    DEF cancelJobAdmin, RunTypeOK, QuotaTypeOK, WorkTypeOK, EnvTypeOK
<1>5. CASE retryJobAdmin(r)
  <2>1. JobTypeOK'
    BY <1>0, <1>5 DEF retryJobAdmin, JobTypeOK, Queue!Reopen, Queue!Become, Queue!States
  <2>2. QED
    BY <1>0, <1>5, <2>1
    DEF retryJobAdmin, RunTypeOK, QuotaTypeOK, WorkTypeOK, EnvTypeOK
<1>6. QED
  BY <1>1, <1>2, <1>3, <1>4, <1>5 DEF Web

LEMMA HandleTypes ==
    ASSUME TypeInv, NEW r \in Runs, Claim(r) \/ Handle(r)
    PROVE  TypeInv'
<1> USE DEF TypeInv, execVars, mgrVars, envVars, runVars, quotaVars, jobVars
<1>0. RunTypeOK /\ QuotaTypeOK /\ JobTypeOK /\ WorkTypeOK /\ EnvTypeOK /\ CleaningIsFinal
  OBVIOUS
<1> DEFINE Kept == EnvTypeOK' /\ UNCHANGED quotaVars /\ UNCHANGED jobVars
<1>k. Kept => EnvTypeOK' /\ QuotaTypeOK' /\ JobTypeOK'
  BY <1>0 DEF QuotaTypeOK, JobTypeOK
<1>u. UNCHANGED runVars => RunTypeOK'
  BY <1>0 DEF RunTypeOK
<1>t. todo \subseteq Todo
  BY <1>0 DEF WorkTypeOK
<1>c. \A s \in Statuses : updateTestRunStatus(r, s) => RunTypeOK'
  BY <1>0, RunStatements DEF Outcomes
<1>f. finalizeCancelled(r) => RunTypeOK' /\ todo' \subseteq Todo
  BY <1>0, <1>t, FinalizeCancelledTypes
<1>1. CASE Claim(r)
  <2>1. JobTypeOK'
    BY <1>0, <1>1, JobStatements DEF Claim, Queue!States
  <2>2. WorkTypeOK' /\ CleaningIsFinal'
    BY <1>0, <1>1 DEF Claim, MoveTo, WorkTypeOK, CleaningIsFinal, Phases, Codes, Signals, Snaps
  <2>3. QED
    BY <1>0, <1>1, <1>u, <2>1, <2>2 DEF Claim, QuotaTypeOK, EnvTypeOK
<1>2. CASE Enter(r)
  <2>1. Kept
    BY <1>0, <1>2 DEF Enter, EnvTypeOK
  <2>2. RunTypeOK' /\ todo' \subseteq Todo
    BY <1>2, <1>u, <1>t, <1>c, <1>f DEF Enter, Statuses, ActiveRun
  <2>3. WorkTypeOK' /\ CleaningIsFinal'
    BY <1>0, <1>2, <2>2 DEF Enter, Unwind, MoveWith, MoveTo, WorkTypeOK, CleaningIsFinal, Phases, Codes
  <2>4. QED
    BY <1>k, <2>1, <2>2, <2>3
<1>3. ASSUME NEW c \in Codes \ {"ok"}, Caught(r, c)
      PROVE  TypeInv'
  <2>1. Kept
    BY <1>0, <1>3 DEF Caught, EnvTypeOK
  <2>2. RunTypeOK' /\ todo' \subseteq Todo
    <3>1. RunTypeOK'
      BY <1>0, <1>3, <1>u, <1>f, RunStatements DEF Caught, Statuses, Final, Outcomes
    <3>2. todo' \subseteq Todo
      BY <1>3, <1>t, <1>f, PlanTypes DEF Caught, Ops
    <3>3. QED
      BY <3>1, <3>2
  <2>3. WorkTypeOK' /\ CleaningIsFinal'
    BY <1>0, <1>3, <2>2 DEF Caught, Unwind, MoveWith, WorkTypeOK, CleaningIsFinal, Phases, Codes
  <2>4. QED
    BY <1>k, <2>1, <2>2, <2>3
<1>4. CASE Preflight(r)
  <2>1. Kept
    BY <1>0, <1>4 DEF Preflight, EnvTypeOK
  <2>2. RunTypeOK' /\ todo' \subseteq Todo
    BY <1>4, <1>t, <1>c, <1>f DEF Preflight, Statuses, ActiveRun
  <2>3. WorkTypeOK' /\ CleaningIsFinal'
    BY <1>0, <1>4, <2>2
    DEF Preflight, At, Unwind, MoveWith, MoveTo, SetMgr, WorkTypeOK, CleaningIsFinal, Phases, Codes, Snaps
  <2>4. QED
    BY <1>k, <2>1, <2>2, <2>3
<1>5. CASE SandboxStarts(r)
  <2>1. RunTypeOK' /\ todo' \subseteq Todo
    BY <1>5, <1>u, <1>t, <1>c DEF SandboxStarts, Plan, Todo, Ops, Statuses, ActiveRun
  <2>2. WorkTypeOK' /\ CleaningIsFinal'
    BY <1>0, <1>5, <2>1
    DEF SandboxStarts, Executing, At, MoveTo, WorkTypeOK, CleaningIsFinal, Phases
  <2>3. QED
    BY <1>0, <1>5, <2>1, <2>2 DEF SandboxStarts, QuotaTypeOK, JobTypeOK, EnvTypeOK
<1>6. ASSUME NEW c \in Codes \ {"ok"}, SandboxFails(r, c)
      PROVE  TypeInv'
  <2>1. Kept
    BY <1>0, <1>6 DEF SandboxFails, EnvTypeOK
  <2>2. RunTypeOK'
    BY <1>6, <1>c DEF SandboxFails, Statuses, Final
  <2>3. WorkTypeOK' /\ CleaningIsFinal'
    BY <1>0, <1>6
    DEF SandboxFails, MoveWith, SetMgr, WorkTypeOK, CleaningIsFinal, Phases, Codes, Snaps, Final
  <2>4. QED
    BY <1>k, <2>1, <2>2, <2>3
<1>7. ASSUME NEW s \in {"completed", "timeout"}, TestsEnd(r, s)
      PROVE  TypeInv'
  <2>1. Kept
    BY <1>0, <1>7 DEF TestsEnd, EnvTypeOK
  <2>2. RunTypeOK'
    BY <1>7, <1>c DEF TestsEnd, Statuses, Final
  <2>3. WorkTypeOK' /\ CleaningIsFinal'
    BY <1>0, <1>7 DEF TestsEnd, MoveTo, SetMgr, WorkTypeOK, CleaningIsFinal, Phases, Snaps, Final
  <2>4. QED
    BY <1>k, <2>1, <2>2, <2>3
<1>8. CASE ExecuteReturns(r)
  <2>1. Kept
    BY <1>0, <1>8 DEF ExecuteReturns, EnvTypeOK
  <2>2. WorkTypeOK' /\ CleaningIsFinal'
    BY <1>0, <1>8 DEF ExecuteReturns, Unwind, MoveWith, WorkTypeOK, CleaningIsFinal, Phases, Codes
  <2>3. QED
    BY <1>8, <1>k, <1>u, <2>1, <2>2 DEF ExecuteReturns
<1>9. CASE SandboxRemoved(r)
  <2>1. mgr[r] \in {"failed", "completed", "timeout"}
    BY <1>9 DEF SandboxRemoved, At, CleaningIsFinal
  <2>2. \A o \in deriveOutcome(mgr[r], code[r]) : o \in Outcomes
    BY <2>1 DEF deriveOutcome, Outcomes, Executed
  <2>3. RunTypeOK'
    <3>1. requeueTestRunForRetry(r) => RunTypeOK'
      BY <1>0, RunStatements DEF Statuses, Outcomes
    <3>2. \A o \in Outcomes : saveTestRunFinal(r, mgr[r], o) => RunTypeOK'
      BY <1>0, <2>1, RunStatements DEF saveTestRunFinal, Statuses, Final
    <3>3. QED
      BY <1>9, <2>2, <3>1, <3>2 DEF SandboxRemoved, Finished
  <2>4. QuotaTypeOK'
    BY <1>0, <1>9, QuotaStatements DEF SandboxRemoved, Finished, saveTestRunFinal, QuotaTypeOK
  <2>5. WorkTypeOK' /\ CleaningIsFinal'
    BY <1>0, <1>9 DEF SandboxRemoved, Finished, Unwind, MoveWith, WorkTypeOK, CleaningIsFinal, Phases, Codes
  <2>6. QED
    BY <1>0, <1>9, <2>3, <2>4, <2>5 DEF SandboxRemoved, JobTypeOK, EnvTypeOK
<1>10. CASE StopRun(r)
  <2>1. Kept
    BY <1>0, <1>10 DEF StopRun, EnvTypeOK
  <2>2. WorkTypeOK' /\ CleaningIsFinal'
    BY <1>0, <1>10 DEF StopRun, Executing, At, SetMgr, WorkTypeOK, CleaningIsFinal, Snaps
  <2>3. QED
    BY <1>10, <1>k, <1>u, <2>1, <2>2 DEF StopRun
<1>11. CASE StopDone(r)
  <2>1. Kept
    BY <1>0, <1>11 DEF StopDone, EnvTypeOK
  <2>2. RunTypeOK' /\ todo' \subseteq Todo
    BY <1>11, <1>t, <1>c DEF StopDone, Plan, Todo, Ops, Statuses, Final
  <2>3. WorkTypeOK' /\ CleaningIsFinal'
    BY <1>0, <1>11, <2>2 DEF StopDone, SetMgr, WorkTypeOK, CleaningIsFinal, Snaps, Final
  <2>4. QED
    BY <1>k, <2>1, <2>2, <2>3
<1>12. QED
  BY <1>1, <1>2, <1>3, <1>4, <1>5, <1>6, <1>7, <1>8, <1>9, <1>10, <1>11 DEF Handle

LEMMA RunOfWorkerTypes ==
    ASSUME TypeInv, NEW r \in Runs, Run(r) \/ JobTimeout(r) \/ AbortStop(r) \/ Maintain(r)
    PROVE  TypeInv'
<1> USE DEF TypeInv, execVars, mgrVars, workVars, envVars, runVars, quotaVars, jobVars
<1>0. RunTypeOK /\ QuotaTypeOK /\ JobTypeOK /\ WorkTypeOK /\ EnvTypeOK /\ CleaningIsFinal
  OBVIOUS
<1>u. UNCHANGED runVars => RunTypeOK'
  BY <1>0 DEF RunTypeOK
<1>q. UNCHANGED quotaVars => QuotaTypeOK'
  BY <1>0 DEF QuotaTypeOK
<1>t. todo \subseteq Todo
  BY <1>0 DEF WorkTypeOK
<1>f. finalizeCancelled(r) => RunTypeOK' /\ todo' \subseteq Todo
  BY <1>0, <1>t, FinalizeCancelledTypes
<1>e. UNCHANGED <<seen, envVars>> => EnvTypeOK'
  BY <1>0 DEF EnvTypeOK
<1>j. UNCHANGED jobVars => JobTypeOK'
  BY <1>0 DEF JobTypeOK
<1>b. ASSUME NEW s \in {"completed", "failed", "pending", "cancelled"}, NEW from, UpdateJob(r, from, s)
      PROVE  job' \in [Runs -> Queue!States] /\ deliveries' \in [Runs -> Nat]
  BY <1>0, <1>b DEF UpdateJob, Queue!Become, Queue!States, Queue!Ended, JobTypeOK
<1>1. CASE HandleReturned(r)
  <2>1. RunTypeOK' /\ todo' \subseteq Todo
    BY <1>1, <1>u, <1>t, <1>f DEF HandleReturned, finishCancelled
  <2>2. JobTypeOK'
    BY <1>0, <1>1, <1>b, <1>j DEF HandleReturned, finishCancelled, JobTypeOK
  <2>3. WorkTypeOK' /\ CleaningIsFinal'
    BY <1>0, <1>1, <2>1
    DEF HandleReturned, finishCancelled, MoveTo, End, WorkTypeOK, CleaningIsFinal, Phases, Codes, Signals
  <2>4. QED
    BY <1>1, <1>q, <1>e, <2>1, <2>2, <2>3 DEF HandleReturned
<1>2. CASE HandleThrew(r)
  <2>1. RunTypeOK' /\ todo' \subseteq Todo
    BY <1>2, <1>u, <1>t, <1>f DEF HandleThrew, finishCancelled
  <2>2. JobTypeOK'
    BY <1>0, <1>2, <1>b, <1>j DEF HandleThrew, finishCancelled, JobTypeOK
  <2>3. WorkTypeOK' /\ CleaningIsFinal'
    BY <1>0, <1>2, <2>1
    DEF HandleThrew, finishCancelled, MoveTo, End, WorkTypeOK, CleaningIsFinal, Phases, Codes, Signals
  <2>4. QED
    BY <1>2, <1>q, <1>e, <2>1, <2>2, <2>3 DEF HandleThrew
<1>3. CASE markCancelled(r)
  <2>1. JobTypeOK'
    BY <1>0, <1>3, <1>b DEF markCancelled, JobTypeOK
  <2>2. WorkTypeOK' /\ CleaningIsFinal'
    BY <1>0, <1>3 DEF markCancelled, End, WorkTypeOK, CleaningIsFinal, Phases, Codes, Signals
  <2>3. QED
    BY <1>3, <1>u, <1>q, <1>e, <2>1, <2>2 DEF markCancelled
<1>4. CASE FinishTimeout(r)
  <2>1. RunTypeOK' /\ todo' \subseteq Todo
    BY <1>4, <1>u, <1>t, <1>f DEF FinishTimeout
  <2>2. WorkTypeOK' /\ CleaningIsFinal'
    BY <1>0, <1>4, <2>1 DEF FinishTimeout, End, WorkTypeOK, CleaningIsFinal, Phases, Codes, Signals
  <2>3. QED
    BY <1>4, <1>q, <1>e, <1>j, <2>1, <2>2 DEF FinishTimeout
<1>5. CASE JobTimeout(r)
  <2>1. WorkTypeOK' /\ CleaningIsFinal'
    BY <1>0, <1>5 DEF JobTimeout, WorkTypeOK, CleaningIsFinal, Signals
  <2>2. QED
    BY <1>5, <1>u, <1>q, <1>e, <1>j, <2>1 DEF JobTimeout
<1>6. CASE AbortStop(r)
  <2>1. RunTypeOK' /\ todo' \subseteq Todo
    BY <1>6, <1>u, <1>t, <1>f DEF AbortStop
  <2>2. WorkTypeOK' /\ CleaningIsFinal'
    BY <1>0, <1>6, <2>1 DEF AbortStop, SetMgr, WorkTypeOK, CleaningIsFinal, Snaps, Signals
  <2>3. QED
    BY <1>6, <1>q, <1>e, <1>j, <2>1, <2>2 DEF AbortStop
<1>7. CASE ExpireStaleJob(r)
  BY <1>0, <1>7, <1>u, <1>q, <1>e
  DEF ExpireStaleJob, JobTypeOK, WorkTypeOK, CleaningIsFinal, Queue!Become, Queue!States, Queue!Ended
<1>8. CASE CloseStaleRun(r)
  <2>1. todo' \subseteq Todo
    BY <1>8, <1>t, PlanTypes DEF CloseStaleRun, Ops
  <2>2. QED
    BY <1>0, <1>8, <1>u, <1>q, <1>e, <1>j, <2>1 DEF CloseStaleRun, WorkTypeOK, CleaningIsFinal
<1>9. CASE releaseDanglingReservations(r)
  <2>1. QuotaTypeOK'
    BY <1>0, <1>9, QuotaStatements DEF releaseDanglingReservations, QuotaTypeOK
  <2>2. QED
    BY <1>0, <1>9, <1>u, <1>e, <1>j, <2>1
    DEF releaseDanglingReservations, WorkTypeOK, CleaningIsFinal
<1>10. QED
  BY <1>1, <1>2, <1>3, <1>4, <1>5, <1>6, <1>7, <1>8, <1>9 DEF Run, Maintain

LEMMA BlockTypes ==
    ASSUME TypeInv, NEW t \in todo, Do(t)
    PROVE  TypeInv'
<1> USE DEF TypeInv, execVars, mgrVars, workVars, envVars, runVars, quotaVars, jobVars
<1>0. RunTypeOK /\ QuotaTypeOK /\ JobTypeOK /\ WorkTypeOK /\ EnvTypeOK /\ CleaningIsFinal
  OBVIOUS
<1>t. todo \subseteq Todo /\ t \in Todo
  BY <1>0 DEF WorkTypeOK
<1>r. t.run \in Runs
  BY <1>t DEF Todo
<1>e. UNCHANGED <<seen, envVars>> => EnvTypeOK'
  BY <1>0 DEF EnvTypeOK
<1>u. UNCHANGED runVars => RunTypeOK'
  BY <1>0 DEF RunTypeOK
<1>w. ASSUME UNCHANGED <<execVars, mgrVars>>, todo' \subseteq Todo
      PROVE  WorkTypeOK' /\ CleaningIsFinal'
  BY <1>0, <1>w DEF WorkTypeOK, CleaningIsFinal
<1>1. CASE Recover(t)
  <2>1. JobTypeOK'
    BY <1>0, <1>1, <1>r, JobStatements DEF Recover, Queue!States, Queue!Ended
  <2>2. [run |-> t.run, op |-> "orphan"] \in Todo
    BY <1>r DEF Todo, Ops
  <2>3. todo' \subseteq Todo
    BY <1>1, <1>t, <2>2 DEF Recover
  <2>4. QED
    BY <1>0, <1>1, <1>e, <1>u, <1>w, <2>1, <2>3 DEF Recover, QuotaTypeOK
<1>2. CASE CloseRun(t)
  <2>1. RunTypeOK'
    BY <1>0, <1>2, <1>r, <1>u, RunStatements DEF CloseRun, Statuses, Final, Outcomes
  <2>2. [run |-> t.run, op |-> "release"] \in Todo
    BY <1>r DEF Todo, Ops
  <2>3. todo' \subseteq Todo
    BY <1>2, <1>t, <2>2 DEF CloseRun, Left
  <2>4. QED
    BY <1>0, <1>2, <1>e, <1>w, <2>1, <2>3 DEF CloseRun, QuotaTypeOK, JobTypeOK
<1>3. CASE SettleQuota(t)
  <2>1. QuotaTypeOK'
    BY <1>0, <1>3, <1>r, QuotaStatements DEF SettleQuota, QuotaTypeOK
  <2>2. todo' \subseteq Todo
    BY <1>3, <1>t DEF SettleQuota, Left
  <2>3. QED
    BY <1>0, <1>3, <1>e, <1>u, <1>w, <2>1, <2>2 DEF SettleQuota, JobTypeOK
<1>4. CASE SaveStopped(t)
  <2>1. RunTypeOK'
    BY <1>0, <1>4, <1>r, RunStatements DEF SaveStopped, saveTestRunFinal, Statuses, Final, Outcomes
  <2>2. QuotaTypeOK'
    BY <1>0, <1>4, <1>r, QuotaStatements DEF SaveStopped, saveTestRunFinal, QuotaTypeOK
  <2>3. todo' \subseteq Todo
    BY <1>4, <1>t DEF SaveStopped, Left
  <2>4. QED
    BY <1>0, <1>4, <1>e, <1>w, <2>1, <2>2, <2>3 DEF SaveStopped, JobTypeOK
<1>5. QED
  BY <1>1, <1>2, <1>3, <1>4 DEF Do

LEMMA ProcessTypes ==
    ASSUME TypeInv, Start \/ Stop \/ GraceElapsed \/ Exit \/ Crash
    PROVE  TypeInv'
<1> USE DEF TypeInv, execVars, mgrVars, workVars, runVars, quotaVars, jobVars,
            RunTypeOK, QuotaTypeOK, JobTypeOK
<1>1. CASE Start
  <2>1. todo' \subseteq Todo
    BY <1>1 DEF Start, Todo, Ops
  <2>2. QED
    BY <1>1, <2>1 DEF Start, WorkTypeOK, EnvTypeOK, CleaningIsFinal
<1>2. CASE Stop
  BY <1>2 DEF Stop, WorkTypeOK, EnvTypeOK, CleaningIsFinal
<1>3. CASE GraceElapsed
  <2>1. todo' \subseteq Todo
    BY <1>3 DEF GraceElapsed, Todo, Ops
  <2>2. QED
    BY <1>3, <2>1 DEF GraceElapsed, WorkTypeOK, EnvTypeOK, CleaningIsFinal
<1>4. CASE Exit
  BY <1>4 DEF Exit, Down, WorkTypeOK, EnvTypeOK, CleaningIsFinal, Phases, Codes, Signals, Snaps
<1>5. CASE Crash
  BY <1>5 DEF Crash, Down, WorkTypeOK, EnvTypeOK, CleaningIsFinal, Phases, Codes, Signals, Snaps
<1>6. QED
  BY <1>1, <1>2, <1>3, <1>4, <1>5

LEMMA TypeStep ==
    ASSUME TypeInv, [Next]_vars
    PROVE  TypeInv'
<1>1. CASE UNCHANGED vars
  BY <1>1 DEF vars, TypeInv, runVars, quotaVars, jobVars, workVars, execVars, mgrVars, envVars,
     RunTypeOK, QuotaTypeOK, JobTypeOK, WorkTypeOK, EnvTypeOK, CleaningIsFinal
<1>2. CASE Next
  BY <1>2, WebTypes, HandleTypes, RunOfWorkerTypes, BlockTypes, ProcessTypes DEF Next
<1>3. QED
  BY <1>1, <1>2

LEMMA TypeInit == Init => TypeInv
BY DEF Init, TypeInv, RunTypeOK, QuotaTypeOK, JobTypeOK, WorkTypeOK, EnvTypeOK, CleaningIsFinal,
   Statuses, Outcomes, Phases, Codes, Signals, Snaps, Queue!States

\* Every column keeps its type: no step writes a status or an outcome that is
\* not one, in particular not the state of a manager that is not final.
THEOREM TypeCorrect == Spec => []TypeOK
<1>1. Spec => []TypeInv
  BY TypeInit, TypeStep, PTL DEF Spec
<1>2. QED
  BY <1>1, TypeInvImpliesTypeOK, PTL

-----------------------------------------------------------------------------
(***************************************************************************)
(* What a step does to the quota: a reservation is opened with its run,    *)
(* released, or consumed by a statement that SandboxStarts planned.        *)
(***************************************************************************)
\* No statement on a run takes the row away.
RowsStay == \A r \in Runs : run'[r] = "absent" => run[r] = "absent"

\* A charge is planned only for a sandbox that has started.
PlansFromStart ==
    /\ booted \subseteq booted'
    /\ \A t \in todo' : t.op = "consume" => t \in todo \/ t.run \in booted'

ReservationEffect ==
    \/ resv' = resv /\ usage' = usage
    \/ \E r \in Runs : resv' = Release(r) /\ usage' = usage
    \/ \E r \in Runs : createQueuedTestRun(r)
    \/ \E t \in todo : t.op = "consume" /\ consumeReservation(t.run)

QuotaEffect == RowsStay /\ PlansFromStart /\ ReservationEffect

LEMMA RowsStayByStatement ==
    ASSUME RunTypeOK, NEW r \in Runs, NEW s \in Statuses \ {"absent"}, NEW o \in Outcomes
    PROVE  /\ SetRun(r, s, o) => RowsStay
           /\ updateTestRunStatus(r, s) => RowsStay
           /\ finalizeTestRunWithoutResults(r, s, o) => RowsStay
           /\ requeueTestRunForRetry(r) => RowsStay
           /\ finalizeCancelled(r) => RowsStay
<1>1. ASSUME NEW t \in Statuses \ {"absent"}, NEW p, SetRun(r, t, p)
      PROVE  RowsStay
  BY <1>1 DEF SetRun, RunTypeOK, RowsStay
<1>2. UNCHANGED runVars => RowsStay
  BY DEF runVars, RowsStay
<1>3. "queued" \in Statuses \ {"absent"} /\ "destroyed" \in Statuses \ {"absent"}
  BY DEF Statuses, ActiveRun, Final
<1>4. QED
  BY <1>1, <1>2, <1>3
  DEF updateTestRunStatus, finalizeTestRunWithoutResults, requeueTestRunForRetry, finalizeCancelled

LEMMA PlansByStatement ==
    ASSUME NEW r, booted' = booted,
           \/ \E op \in Ops \ {"consume"} : Plan(r, op)
           \/ finalizeCancelled(r)
           \/ todo' \subseteq todo
    PROVE  PlansFromStart
BY DEF Plan, finalizeCancelled, PlansFromStart, Ops

LEMMA WebQuota ==
    ASSUME TypeInv, NEW r \in Runs, Web(r)
    PROVE  QuotaEffect
<1> USE DEF TypeInv, QuotaEffect, runVars, quotaVars, workVars
<1>p. booted' = booted /\ todo' = todo => PlansFromStart
  BY PlansByStatement
<1>u. UNCHANGED runVars => RowsStay
  BY DEF RowsStay
<1>1. CASE createQueuedTestRun(r)
  <2>1. RowsStay
    BY <1>1, RowsStayByStatement DEF createQueuedTestRun, Statuses, ActiveRun, Outcomes
  <2>2. QED
    BY <1>1, <1>p, <2>1 DEF createQueuedTestRun, ReservationEffect
<1>2. CASE CancelJobOf(r)
  BY <1>2, <1>p, <1>u DEF CancelJobOf, ReservationEffect
<1>3. ASSUME NEW b \in BOOLEAN, cancelRun([run |-> r, cancelled |-> b])
      PROVE  QuotaEffect
  <2>1. RowsStay
    BY <1>3, <1>u, RowsStayByStatement DEF cancelRun, Statuses, ActiveRun, Final, Outcomes
  <2>2. ReservationEffect
    BY <1>3 DEF cancelRun, ReservationEffect
  <2>3. QED
    BY <1>3, <1>p, <2>1, <2>2 DEF cancelRun
<1>4. CASE cancelJobAdmin(r)
  BY <1>4, <1>p, <1>u DEF cancelJobAdmin, ReservationEffect
<1>5. CASE retryJobAdmin(r)
  BY <1>5, <1>p, <1>u DEF retryJobAdmin, ReservationEffect
<1>6. QED
  BY <1>1, <1>2, <1>3, <1>4, <1>5 DEF Web

LEMMA HandleQuota ==
    ASSUME TypeInv, NEW r \in Runs, Claim(r) \/ Handle(r)
    PROVE  QuotaEffect
<1> USE DEF TypeInv, QuotaEffect, runVars, quotaVars
<1>u. UNCHANGED runVars => RowsStay
  BY DEF RowsStay
<1>s. \A s \in Statuses \ {"absent"} : updateTestRunStatus(r, s) => RowsStay
  BY RowsStayByStatement DEF Outcomes
<1>f. finalizeCancelled(r) => RowsStay
  BY RowsStayByStatement DEF Statuses, Final, Outcomes
<1>q. ASSUME UNCHANGED quotaVars,
             finalizeCancelled(r) \/ todo' = todo \/ Plan(r, "release") \/ Plan(r, "saveStopped")
      PROVE  PlansFromStart /\ ReservationEffect
  BY <1>q, PlansByStatement DEF ReservationEffect, Ops
<1>1. CASE Claim(r)
  BY <1>1, <1>q, <1>u DEF Claim
<1>2. CASE Enter(r)
  BY <1>2, <1>q, <1>u, <1>s, <1>f DEF Enter, Statuses, ActiveRun
<1>3. ASSUME NEW c \in Codes \ {"ok"}, Caught(r, c)
      PROVE  QuotaEffect
  <2>1. \A o \in {"FAILED", "INFRASTRUCTURE_ERROR"} :
            finalizeTestRunWithoutResults(r, "failed", o) => RowsStay
    BY RowsStayByStatement DEF Statuses, Final, Outcomes
  <2>2. requeueTestRunForRetry(r) => RowsStay
    BY RowsStayByStatement DEF Statuses, Final, Outcomes
  <2>3. RowsStay
    BY <1>3, <1>u, <1>f, <2>1, <2>2 DEF Caught
  <2>4. PlansFromStart /\ ReservationEffect
    BY <1>3, <1>q DEF Caught
  <2>5. QED
    BY <2>3, <2>4
<1>4. CASE Preflight(r)
  BY <1>4, <1>q, <1>s, <1>f DEF Preflight, Statuses, ActiveRun
<1>5. CASE SandboxStarts(r)
  <2>1. RowsStay
    BY <1>5, <1>u, <1>s DEF SandboxStarts, Statuses, ActiveRun
  <2>2. PlansFromStart
    BY <1>5 DEF SandboxStarts, PlansFromStart, Plan
  <2>3. QED
    BY <1>5, <2>1, <2>2 DEF SandboxStarts, ReservationEffect
<1>6. ASSUME NEW c \in Codes \ {"ok"}, SandboxFails(r, c)
      PROVE  QuotaEffect
  BY <1>6, <1>q, <1>s DEF SandboxFails, Statuses, Final
<1>7. ASSUME NEW s \in {"completed", "timeout"}, TestsEnd(r, s)
      PROVE  QuotaEffect
  BY <1>7, <1>q, <1>s DEF TestsEnd, Statuses, Final
<1>8. CASE ExecuteReturns(r)
  BY <1>8, <1>q, <1>u DEF ExecuteReturns
<1>9. CASE SandboxRemoved(r)
  <2>1. mgr[r] \in {"failed", "completed", "timeout"}
    BY <1>9 DEF SandboxRemoved, At, CleaningIsFinal
  <2>2. \A o \in deriveOutcome(mgr[r], code[r]) : o \in Outcomes
    BY <2>1 DEF deriveOutcome, Outcomes, Executed
  <2>3. RowsStay
    <3>1. requeueTestRunForRetry(r) => RowsStay
      BY RowsStayByStatement DEF Statuses, ActiveRun, Outcomes
    <3>2. \A o \in Outcomes : saveTestRunFinal(r, mgr[r], o) => RowsStay
      BY <2>1, RowsStayByStatement DEF saveTestRunFinal, Statuses, Final
    <3>3. QED
      BY <1>9, <2>2, <3>1, <3>2 DEF SandboxRemoved, Finished
  <2>4. booted' = booted /\ todo' = todo
    BY <1>9 DEF SandboxRemoved, Finished, saveTestRunFinal
  <2>5. ReservationEffect
    BY <1>9 DEF SandboxRemoved, Finished, saveTestRunFinal, ReservationEffect
  <2>6. QED
    BY <2>3, <2>4, <2>5, PlansByStatement
<1>10. CASE StopRun(r)
  BY <1>10, <1>q, <1>u DEF StopRun
<1>11. CASE StopDone(r)
  BY <1>11, <1>q, <1>s DEF StopDone, Statuses, Final
<1>12. QED
  BY <1>1, <1>2, <1>3, <1>4, <1>5, <1>6, <1>7, <1>8, <1>9, <1>10, <1>11 DEF Handle

LEMMA RunOfWorkerQuota ==
    ASSUME TypeInv, NEW r \in Runs, Run(r) \/ JobTimeout(r) \/ AbortStop(r) \/ Maintain(r)
    PROVE  QuotaEffect
<1> USE DEF TypeInv, QuotaEffect, runVars, quotaVars, workVars
<1>u. UNCHANGED runVars => RowsStay
  BY DEF RowsStay
<1>f. finalizeCancelled(r) => RowsStay
  BY RowsStayByStatement DEF Statuses, Final, Outcomes
<1>q. ASSUME UNCHANGED quotaVars, finalizeCancelled(r) \/ todo' = todo \/ Plan(r, "stale")
      PROVE  PlansFromStart /\ ReservationEffect
  BY <1>q, PlansByStatement DEF ReservationEffect, Ops
<1>1. CASE HandleReturned(r)
  BY <1>1, <1>u, <1>f, <1>q DEF HandleReturned, finishCancelled
<1>2. CASE HandleThrew(r)
  BY <1>2, <1>u, <1>f, <1>q DEF HandleThrew, finishCancelled
<1>3. CASE markCancelled(r)
  BY <1>3, <1>u, <1>q DEF markCancelled
<1>4. CASE FinishTimeout(r)
  BY <1>4, <1>u, <1>f, <1>q DEF FinishTimeout
<1>5. CASE JobTimeout(r)
  BY <1>5, <1>u, <1>q DEF JobTimeout
<1>6. CASE AbortStop(r)
  BY <1>6, <1>u, <1>f, <1>q DEF AbortStop
<1>7. CASE ExpireStaleJob(r)
  BY <1>7, <1>u, <1>q DEF ExpireStaleJob
<1>8. CASE CloseStaleRun(r)
  BY <1>8, <1>u, <1>q DEF CloseStaleRun
<1>9. CASE releaseDanglingReservations(r)
  BY <1>9, <1>u, PlansByStatement DEF releaseDanglingReservations, ReservationEffect
<1>10. QED
  BY <1>1, <1>2, <1>3, <1>4, <1>5, <1>6, <1>7, <1>8, <1>9 DEF Run, Maintain

LEMMA BlockQuota ==
    ASSUME TypeInv, NEW t \in todo, Do(t)
    PROVE  QuotaEffect
<1> USE DEF TypeInv, QuotaEffect, runVars, quotaVars
<1>r. t \in Todo /\ t.run \in Runs
  BY DEF WorkTypeOK, Todo
<1>u. UNCHANGED runVars => RowsStay
  BY DEF RowsStay
<1>1. CASE Recover(t)
  BY <1>1, <1>u DEF Recover, PlansFromStart, ReservationEffect
<1>2. CASE CloseRun(t)
  <2>1. RowsStay
    BY <1>2, <1>r, <1>u, RowsStayByStatement DEF CloseRun, Statuses, Final, Outcomes
  <2>2. QED
    BY <1>2, <2>1 DEF CloseRun, Left, PlansFromStart, ReservationEffect
<1>3. CASE SettleQuota(t)
  <2>1. PlansFromStart
    BY <1>3 DEF SettleQuota, Left, PlansFromStart
  <2>2. ReservationEffect
    BY <1>3, <1>r DEF SettleQuota, ReservationEffect
  <2>3. QED
    BY <1>3, <1>u, <2>1, <2>2 DEF SettleQuota
<1>4. CASE SaveStopped(t)
  <2>1. RowsStay
    BY <1>4, <1>r, RowsStayByStatement DEF SaveStopped, saveTestRunFinal, Statuses, Final, Outcomes
  <2>2. ReservationEffect
    BY <1>4, <1>r DEF SaveStopped, saveTestRunFinal, ReservationEffect
  <2>3. PlansFromStart
    BY <1>4 DEF SaveStopped, saveTestRunFinal, Left, PlansFromStart
  <2>4. QED
    BY <2>1, <2>2, <2>3
<1>5. QED
  BY <1>1, <1>2, <1>3, <1>4 DEF Do

LEMMA NextHasQuotaEffect ==
    ASSUME TypeInv, [Next]_vars
    PROVE  QuotaEffect
<1> USE DEF QuotaEffect, runVars, quotaVars, workVars
<1>1. CASE UNCHANGED vars
  BY <1>1 DEF vars, RowsStay, PlansFromStart, ReservationEffect
<1>2. CASE Start \/ Stop \/ GraceElapsed \/ Exit \/ Crash
  <2>1. UNCHANGED <<runVars, quotaVars>> /\ \A t \in todo' : t \in todo \/ t.op # "consume"
    BY <1>2 DEF Start, Stop, GraceElapsed, Exit, Crash, Down
  <2>2. QED
    BY <2>1 DEF RowsStay, PlansFromStart, ReservationEffect
<1>3. CASE Next
  BY <1>2, <1>3, WebQuota, HandleQuota, RunOfWorkerQuota, BlockQuota DEF Next
<1>4. QED
  BY <1>1, <1>3

-----------------------------------------------------------------------------
(***************************************************************************)
(* Charges.                                                                *)
(***************************************************************************)
ChargePlans == \A t \in todo : t.op = "consume" => t.run \in booted

\* A reservation is opened with its run, so it is opened once.
Unreserved == \A r \in Runs : run[r] = "absent" => resv[r] = "none"

ChargeInv == ChargedOnce /\ ChargedOnlyIfStarted /\ ChargePlans /\ Unreserved

LEMMA ChargeInit == Init => ChargeInv
BY DEF Init, ChargeInv, ChargedOnce, ChargedOnlyIfStarted, ChargePlans, Unreserved

\* A statement that consumes does nothing, or charges a run whose reservation
\* is open and which has no charge.
LEMMA ConsumeCharges ==
    ASSUME QuotaTypeOK, NEW r \in Runs, consumeReservation(r)
    PROVE  \/ resv' = resv /\ usage' = usage
           \/ /\ resv[r] = "open"
              /\ resv' = [resv EXCEPT ![r] = "consumed"]
              /\ usage' = usage \cup {[run |-> r, delivery |-> deliveries[r]]}
BY DEF consumeReservation

LEMMA ChargeStep ==
    ASSUME TypeInv, ChargeInv, [Next]_vars
    PROVE  ChargeInv'
<1> USE DEF ChargeInv
<1>0. QuotaTypeOK /\ RunTypeOK /\ todo \subseteq Todo
  BY DEF TypeInv, WorkTypeOK
<1>1. RowsStay /\ PlansFromStart /\ ReservationEffect
  BY NextHasQuotaEffect DEF QuotaEffect
<1>2. ChargePlans'
  BY <1>1 DEF PlansFromStart, ChargePlans
<1>3. ASSUME resv' = resv, usage' = usage
      PROVE  ChargeInv'
  BY <1>1, <1>2, <1>3 DEF ChargedOnce, ChargedOnlyIfStarted, Unreserved, RowsStay, PlansFromStart
<1>4. ASSUME NEW r \in Runs, resv' = Release(r), usage' = usage
      PROVE  ChargeInv'
  <2>1. \A q \in Runs : /\ resv'[q] = "consumed" <=> resv[q] = "consumed"
                        /\ resv[q] = "none" => resv'[q] = "none"
    BY <1>0, <1>4 DEF Release, QuotaTypeOK
  <2>2. ChargedOnce' /\ Unreserved'
    BY <1>1, <1>4, <2>1 DEF ChargedOnce, Unreserved, RowsStay
  <2>3. ChargedOnlyIfStarted'
    BY <1>1, <1>4 DEF ChargedOnlyIfStarted, PlansFromStart
  <2>4. QED
    BY <1>2, <2>2, <2>3
<1>5. ASSUME NEW r \in Runs, createQueuedTestRun(r)
      PROVE  ChargeInv'
  <2>1. usage' = usage /\ resv' = [resv EXCEPT ![r] = "open"]
    BY <1>5 DEF createQueuedTestRun
  <2>2. resv[r] = "none" /\ run'[r] = "queued"
    BY <1>0, <1>5 DEF createQueuedTestRun, SetRun, Unreserved, RunTypeOK
  <2>3. \A q \in Runs : /\ resv'[q] = "consumed" <=> resv[q] = "consumed"
                        /\ q # r => resv'[q] = resv[q]
    BY <1>0, <2>1, <2>2 DEF QuotaTypeOK
  <2>4. ChargedOnce'
    BY <2>1, <2>3 DEF ChargedOnce
  <2>5. Unreserved'
    BY <1>1, <2>2, <2>3 DEF Unreserved, RowsStay
  <2>6. ChargedOnlyIfStarted'
    BY <1>1, <2>1 DEF ChargedOnlyIfStarted, PlansFromStart
  <2>7. QED
    BY <1>2, <2>4, <2>5, <2>6
<1>6. ASSUME NEW t \in todo, t.op = "consume", consumeReservation(t.run)
      PROVE  ChargeInv'
  <2> DEFINE charge == [run |-> t.run, delivery |-> deliveries[t.run]]
  <2>1. t.run \in Runs /\ t.run \in booted
    BY <1>0, <1>6 DEF Todo, ChargePlans
  <2>2. CASE resv' = resv /\ usage' = usage
    BY <1>3, <2>2
  <2>3. CASE /\ resv[t.run] = "open"
             /\ resv' = [resv EXCEPT ![t.run] = "consumed"]
             /\ usage' = usage \cup {charge}
    <3>1. \A e \in usage : e.run # t.run
      BY <2>1, <2>3 DEF ChargedOnce
    <3>2. \A q \in Runs : resv'[q] = IF q = t.run THEN "consumed" ELSE resv[q]
      BY <1>0, <2>1, <2>3 DEF QuotaTypeOK
    <3>3. charge.run = t.run
      OBVIOUS
    <3>4. \A d, e \in usage' : d.run = e.run => d = e
      BY <2>3, <3>1, <3>3 DEF ChargedOnce
    <3>5. \A q \in Runs : resv'[q] = "consumed" <=> \E e \in usage' : e.run = q
      <4>1. TAKE q \in Runs
      <4>2. CASE q = t.run
        BY <2>3, <3>2, <3>3, <4>2
      <4>3. CASE q # t.run
        BY <2>3, <3>2, <3>3, <4>3 DEF ChargedOnce
      <4>4. QED
        BY <4>2, <4>3
    <3>6. ChargedOnlyIfStarted'
      BY <1>1, <2>1, <2>3, <3>3 DEF ChargedOnlyIfStarted, PlansFromStart
    <3>7. Unreserved'
      BY <1>1, <2>1, <2>3, <3>2 DEF Unreserved, RowsStay
    <3>8. QED
      BY <1>2, <3>4, <3>5, <3>6, <3>7 DEF ChargedOnce
  <2>4. QED
    BY <1>0, <1>6, <2>1, <2>2, <2>3, ConsumeCharges
<1>7. QED
  BY <1>1, <1>3, <1>4, <1>5, <1>6 DEF ReservationEffect

LEMMA ChargeInvariant == Spec => [](TypeInv /\ ChargeInv)
<1>1. Init => TypeInv /\ ChargeInv
  BY TypeInit, ChargeInit
<1>2. TypeInv /\ ChargeInv /\ [Next]_vars => TypeInv' /\ ChargeInv'
  BY TypeStep, ChargeStep
<1>3. QED
  BY <1>1, <1>2, PTL DEF Spec

\* A run is charged at most once, and exactly when its reservation is consumed,
\* however often its job is delivered, recovered, retried or reopened.
THEOREM ChargedAtMostOnce == Spec => []ChargedOnce
<1>1. TypeInv /\ ChargeInv => ChargedOnce
  BY DEF ChargeInv
<1>2. QED
  BY <1>1, ChargeInvariant, PTL

\* A run whose sandbox never started is never charged.
THEOREM ChargedIfStarted == Spec => []ChargedOnlyIfStarted
<1>1. TypeInv /\ ChargeInv => ChargedOnlyIfStarted
  BY DEF ChargeInv
<1>2. QED
  BY <1>1, ChargeInvariant, PTL

-----------------------------------------------------------------------------
(***************************************************************************)
(* The quota.                                                              *)
(***************************************************************************)
QuotaInv == IsFiniteSet(usage) /\ QuotaBound

LEMMA ReservationsAreFinite ==
    ASSUME NEW u \in Users
    PROVE  IsFiniteSet(ReservedBy(u))
<1>1. ReservedBy(u) \subseteq Runs
  BY DEF ReservedBy
<1>2. QED
  BY <1>1, FS_Subset, TestRunsAssumption

LEMMA ChargesAreFinite ==
    ASSUME IsFiniteSet(usage), NEW u \in Users
    PROVE  IsFiniteSet(UsedBy(u))
<1>1. UsedBy(u) \subseteq usage
  BY DEF UsedBy
<1>2. QED
  BY <1>1, FS_Subset

LEMMA QuotaInit == Init => QuotaInv
<1> SUFFICES ASSUME Init PROVE QuotaInv
  OBVIOUS
<1>1. usage = {} /\ \A u \in Users : UsedBy(u) = {} /\ ReservedBy(u) = {}
  BY DEF Init, UsedBy, ReservedBy
<1>2. IsFiniteSet({}) /\ Cardinality({}) = 0
  BY FS_EmptySet
<1>3. Limit \in Nat
  BY TestRunsAssumption
<1>4. QED
  BY <1>1, <1>2, <1>3 DEF QuotaInv, QuotaBound

\* Fewer charges and reservations than before.
LEMMA BoundKept ==
    ASSUME IsFiniteSet(usage), QuotaBound, usage' = usage,
           \A u \in Users : ReservedBy(u)' \subseteq ReservedBy(u)
    PROVE  QuotaInv'
<1>1. ASSUME NEW u \in Users
      PROVE  (Cardinality(UsedBy(u)) + Cardinality(ReservedBy(u)) <= Limit)'
  <2>1. UsedBy(u)' = UsedBy(u)
    BY DEF UsedBy
  <2>2. /\ Cardinality(ReservedBy(u)') <= Cardinality(ReservedBy(u))
        /\ Cardinality(ReservedBy(u)') \in Nat /\ Cardinality(ReservedBy(u)) \in Nat
    <3>1. IsFiniteSet(ReservedBy(u)) /\ ReservedBy(u)' \subseteq ReservedBy(u)
      BY ReservationsAreFinite
    <3>2. QED
      BY <3>1, FS_Subset, FS_CardinalityType
  <2>3. Cardinality(UsedBy(u)) \in Nat
    BY ChargesAreFinite, FS_CardinalityType
  <2>4. Cardinality(UsedBy(u)) + Cardinality(ReservedBy(u)) <= Limit /\ Limit \in Nat
    BY TestRunsAssumption DEF QuotaBound
  <2>5. QED
    BY <2>1, <2>2, <2>3, <2>4
<1>2. QED
  BY <1>1 DEF QuotaInv, QuotaBound

LEMMA QuotaStep ==
    ASSUME TypeInv, ChargeInv, QuotaInv, [Next]_vars
    PROVE  QuotaInv'
<1>0. /\ IsFiniteSet(usage) /\ QuotaBound
      /\ QuotaTypeOK /\ RunTypeOK /\ todo \subseteq Todo
      /\ ReservationEffect
      /\ Limit \in Nat /\ UserOf \in [Runs -> Users]
  BY NextHasQuotaEffect, TestRunsAssumption DEF QuotaInv, TypeInv, WorkTypeOK, QuotaEffect
<1>1. CASE resv' = resv /\ usage' = usage
  BY <1>0, <1>1, BoundKept DEF ReservedBy
<1>2. ASSUME NEW r \in Runs, resv' = Release(r), usage' = usage
      PROVE  QuotaInv'
  <2>1. \A q \in Runs : resv'[q] = "open" => resv[q] = "open"
    BY <1>0, <1>2 DEF Release, QuotaTypeOK
  <2>2. \A u \in Users : ReservedBy(u)' \subseteq ReservedBy(u)
    BY <2>1 DEF ReservedBy
  <2>3. QED
    BY <1>0, <1>2, <2>2, BoundKept
<1>3. ASSUME NEW r \in Runs, createQueuedTestRun(r)
      PROVE  QuotaInv'
  <2>1. usage' = usage /\ canRunTests(UserOf[r]) /\ resv' = [resv EXCEPT ![r] = "open"]
    BY <1>3 DEF createQueuedTestRun
  <2>2. ASSUME NEW u \in Users
        PROVE  (Cardinality(UsedBy(u)) + Cardinality(ReservedBy(u)) <= Limit)'
    <3>1. UsedBy(u)' = UsedBy(u) /\ Cardinality(UsedBy(u)) \in Nat
      BY <1>0, <2>1, ChargesAreFinite, FS_CardinalityType DEF UsedBy
    <3>2. IsFiniteSet(ReservedBy(u)) /\ Cardinality(ReservedBy(u)) \in Nat
      BY ReservationsAreFinite, FS_CardinalityType
    <3>3. CASE u = UserOf[r]
      <4>1. ReservedBy(u)' = ReservedBy(u) \cup {r}
        BY <1>0, <2>1, <3>3 DEF ReservedBy, QuotaTypeOK
      <4>2. Cardinality(ReservedBy(u) \cup {r}) <= Cardinality(ReservedBy(u)) + 1
        BY <3>2, FS_AddElement
      <4>3. /\ Cardinality(ReservedBy(u) \cup {r}) \in Nat
            /\ Cardinality(UsedBy(u)) + Cardinality(ReservedBy(u)) < Limit
        BY <2>1, <3>2, <3>3, FS_AddElement, FS_CardinalityType DEF canRunTests
      <4>4. QED
        BY <1>0, <3>1, <3>2, <4>1, <4>2, <4>3
    <3>4. CASE u # UserOf[r]
      <4>1. ReservedBy(u)' = ReservedBy(u)
        BY <1>0, <2>1, <3>4 DEF ReservedBy, QuotaTypeOK
      <4>2. QED
        BY <1>0, <3>1, <4>1 DEF QuotaBound
    <3>5. QED
      BY <3>3, <3>4
  <2>3. QED
    BY <1>0, <2>1, <2>2 DEF QuotaInv, QuotaBound
<1>4. ASSUME NEW t \in todo, t.op = "consume", consumeReservation(t.run)
      PROVE  QuotaInv'
  <2> DEFINE charge == [run |-> t.run, delivery |-> deliveries[t.run]]
  <2>1. t.run \in Runs
    BY <1>0 DEF Todo
  <2>2. CASE /\ resv[t.run] = "open"
             /\ resv' = [resv EXCEPT ![t.run] = "consumed"]
             /\ usage' = usage \cup {charge}
    <3>1. IsFiniteSet(usage')
      BY <1>0, <2>2, FS_AddElement
    <3>2. ASSUME NEW u \in Users
          PROVE  (Cardinality(UsedBy(u)) + Cardinality(ReservedBy(u)) <= Limit)'
      <4>1. IsFiniteSet(UsedBy(u)) /\ Cardinality(UsedBy(u)) \in Nat
        BY <1>0, ChargesAreFinite, FS_CardinalityType
      <4>2. IsFiniteSet(ReservedBy(u)) /\ Cardinality(ReservedBy(u)) \in Nat
        BY ReservationsAreFinite, FS_CardinalityType
      <4>3. CASE u = UserOf[t.run]
        <5>1. UsedBy(u)' = UsedBy(u) \cup {charge}
          BY <2>2, <4>3 DEF UsedBy
        <5>2. ReservedBy(u)' = ReservedBy(u) \ {t.run} /\ t.run \in ReservedBy(u)
          BY <1>0, <2>1, <2>2, <4>3 DEF ReservedBy, QuotaTypeOK
        <5>3. /\ Cardinality(UsedBy(u) \cup {charge}) <= Cardinality(UsedBy(u)) + 1
              /\ Cardinality(UsedBy(u) \cup {charge}) \in Nat
          <6> HIDE DEF charge
          <6>1. Cardinality(UsedBy(u) \cup {charge})
                   = IF charge \in UsedBy(u) THEN Cardinality(UsedBy(u)) ELSE Cardinality(UsedBy(u)) + 1
            BY <4>1, FS_AddElement
          <6>2. QED
            BY <4>1, <6>1
        <5>4. Cardinality(ReservedBy(u) \ {t.run}) = Cardinality(ReservedBy(u)) - 1
          BY <4>2, <5>2, FS_RemoveElement
        <5>5. QED
          BY <1>0, <4>1, <4>2, <5>1, <5>2, <5>3, <5>4 DEF QuotaBound
      <4>4. CASE u # UserOf[t.run]
        <5>1. UsedBy(u)' = UsedBy(u)
          BY <2>2, <4>4 DEF UsedBy
        <5>2. ReservedBy(u)' = ReservedBy(u)
          BY <1>0, <2>1, <2>2, <4>4 DEF ReservedBy, QuotaTypeOK
        <5>3. QED
          BY <1>0, <5>1, <5>2 DEF QuotaBound
      <4>5. QED
        BY <4>3, <4>4
    <3>3. QED
      BY <3>1, <3>2 DEF QuotaInv, QuotaBound
  <2>3. QED
    BY <1>0, <1>1, <1>4, <2>1, <2>2, ConsumeCharges
<1>5. QED
  BY <1>0, <1>1, <1>2, <1>3, <1>4 DEF ReservationEffect

\* The charges and the open reservations of a user never exceed the limit of the
\* plan, for every limit, every number of runs and every history of the worker.
THEOREM QuotaHolds == Spec => []QuotaBound
<1>1. Init => QuotaInv
  BY QuotaInit
<1>2. TypeInv /\ ChargeInv /\ QuotaInv /\ [Next]_vars => QuotaInv'
  BY QuotaStep
<1>3. QuotaInv => QuotaBound
  BY DEF QuotaInv
<1>4. QED
  BY <1>1, <1>2, <1>3, ChargeInvariant, PTL DEF Spec

-----------------------------------------------------------------------------
(***************************************************************************)
(* The job.                                                                *)
(***************************************************************************)
JobEffect == [Queue!Next]_<<job, deliveries>>

\* A statement on a running job, or one that ends a waiting job without completing it.
LEMMA UpdateIsPromised ==
    ASSUME NEW r \in Runs, NEW from, NEW s, UpdateJob(r, from, s),
           \/ from = {"running"} /\ s \in {"pending", "completed", "failed"}
           \/ from = {"running", "pending"} /\ s \in {"failed", "cancelled"}
    PROVE  JobEffect
<1>1. CASE job[r] \notin from
  BY <1>1 DEF UpdateJob, JobEffect
<1>2. CASE job[r] \in from
  <2>1. Queue!Become(r, s)
    BY <1>2 DEF UpdateJob
  <2>2. CASE job[r] = "running"
    <3>1. Queue!Return(r) \/ Queue!Settle(r)
      BY <2>1, <2>2 DEF Queue!Return, Queue!Settle, Queue!Ended
    <3>2. QED
      BY <3>1 DEF JobEffect, Queue!Next
  <2>3. CASE job[r] = "pending"
    <3>1. Queue!Drop(r)
      BY <1>2, <2>1, <2>3 DEF Queue!Drop, Queue!Ended
    <3>2. QED
      BY <3>1 DEF JobEffect, Queue!Next
  <2>4. QED
    BY <1>2, <2>2, <2>3
<1>3. QED
  BY <1>1, <1>2

LEMMA CancelIsPromised ==
    ASSUME NEW r \in Runs, job[r] \in {"pending", "running"},
           NEW s \in {"cancelled", "expired"}, Queue!Become(r, s)
    PROVE  JobEffect
<1>1. Queue!Drop(r) \/ Queue!Settle(r)
  BY DEF Queue!Drop, Queue!Settle, Queue!Ended
<1>2. QED
  BY <1>1 DEF JobEffect, Queue!Next

LEMMA WebKeepsContract ==
    ASSUME NEW r \in Runs, Web(r)
    PROVE  JobEffect
<1>1. CASE createQueuedTestRun(r)
  BY <1>1 DEF createQueuedTestRun, JobEffect, Queue!Next
<1>2. CASE CancelJobOf(r)
  BY <1>2, CancelIsPromised DEF CancelJobOf, JobEffect
<1>3. ASSUME NEW b \in BOOLEAN, cancelRun([run |-> r, cancelled |-> b])
      PROVE  JobEffect
  BY <1>3 DEF cancelRun, jobVars, JobEffect
<1>4. CASE cancelJobAdmin(r)
  BY <1>4, CancelIsPromised DEF cancelJobAdmin, JobEffect
<1>5. CASE retryJobAdmin(r)
  BY <1>5 DEF retryJobAdmin, JobEffect, Queue!Next
<1>6. QED
  BY <1>1, <1>2, <1>3, <1>4, <1>5 DEF Web

LEMMA WorkerKeepsContract ==
    ASSUME NEW r \in Runs,
           Claim(r) \/ Handle(r) \/ Run(r) \/ JobTimeout(r) \/ AbortStop(r) \/ Maintain(r)
    PROVE  JobEffect
<1>u. UNCHANGED jobVars => JobEffect
  BY DEF jobVars, JobEffect
<1>1. CASE Claim(r)
  BY <1>1 DEF Claim, JobEffect, Queue!Next
<1>2. CASE Handle(r)
  BY <1>2, <1>u DEF Handle, Enter, Caught, SandboxFails, Preflight, SandboxStarts, TestsEnd,
     ExecuteReturns, SandboxRemoved, StopRun, StopDone
<1>3. CASE HandleReturned(r)
  BY <1>3, UpdateIsPromised DEF HandleReturned, finishCancelled, jobVars, JobEffect
<1>4. CASE HandleThrew(r)
  BY <1>4, UpdateIsPromised DEF HandleThrew, finishCancelled, jobVars, JobEffect
<1>5. CASE markCancelled(r)
  BY <1>5, UpdateIsPromised DEF markCancelled
<1>6. CASE FinishTimeout(r) \/ JobTimeout(r) \/ AbortStop(r)
  BY <1>6, <1>u DEF FinishTimeout, JobTimeout, AbortStop
<1>7. CASE Maintain(r)
  BY <1>7, <1>u, CancelIsPromised
  DEF Maintain, ExpireStaleJob, CloseStaleRun, releaseDanglingReservations, workVars, jobVars
<1>8. QED
  BY <1>1, <1>2, <1>3, <1>4, <1>5, <1>6, <1>7 DEF Run

LEMMA StepKeepsContract ==
    ASSUME TypeInv, [Next]_vars
    PROVE  JobEffect
<1>u. UNCHANGED jobVars => JobEffect
  BY DEF jobVars, JobEffect
<1>1. CASE UNCHANGED vars
  BY <1>1, <1>u DEF vars
<1>2. CASE \E t \in todo : Do(t)
  <2>1. PICK t \in todo : Do(t)
    BY <1>2
  <2>2. t.run \in Runs
    BY DEF TypeInv, WorkTypeOK, Todo
  <2>3. CASE Recover(t)
    BY <2>2, <2>3, UpdateIsPromised DEF Recover
  <2>4. CASE CloseRun(t) \/ SettleQuota(t) \/ SaveStopped(t)
    BY <2>4, <1>u DEF CloseRun, SettleQuota, SaveStopped
  <2>5. QED
    BY <2>1, <2>3, <2>4 DEF Do
<1>3. CASE Start \/ Stop \/ GraceElapsed \/ Exit \/ Crash
  BY <1>3, <1>u DEF Start, Stop, GraceElapsed, Exit, Crash, Down
<1>4. CASE Next
  BY <1>2, <1>3, <1>4, WebKeepsContract, WorkerKeepsContract DEF Next
<1>5. QED
  BY <1>1, <1>4

\* The job of every run goes the way JobContract promises: what the handler, the
\* worker, an administrator and maintenance do to it are steps of the queue.
THEOREM JobOfRunKeepsContract == Spec => JobKeepsContract
<1>1. Init => Queue!Init
  BY DEF Init, Queue!Init
<1>2. TypeInv /\ [Next]_vars => [Queue!Next]_(Queue!vars)
  BY StepKeepsContract DEF JobEffect, Queue!vars
<1>3. Spec => []TypeInv
  BY TypeInit, TypeStep, PTL DEF Spec
<1>4. QED
  BY <1>1, <1>2, <1>3, PTL DEF Spec, JobKeepsContract, Queue!Spec

-----------------------------------------------------------------------------
(***************************************************************************)
(* How test runs end: a run that may still execute holds its reservation,  *)
(* one with results is charged, and what has ended stays ended; and what   *)
(* they execute: the version of the saved test that they name; and what a  *)
(* test that was executed is said to have shown.                           *)
(***************************************************************************)

(***************************************************************************)
(* Where the execution of a job is, and what the other processes left it.  *)
(***************************************************************************)
\* A process that is down has nothing in memory.
DownIsIdle ==
    worker = "down" => todo = {} /\ \A r \in Runs : phase[r] = "idle" /\ mgr[r] = "none"

\* While a handler executes, its job is running: nobody but an administrator ends it.
DeliveredIsRunning ==
    \A r \in Runs : worker \in {"up", "stopping"} /\ phase[r] \notin {"idle", "timedOut"}
        => /\ job[r] \in {"running", "cancelled"}
           /\ overrides = 0 => job[r] = "running"

\* A shutdown aborts an execution before it gives its job back, and stops its sandbox.
ClosingIsAborted ==
    worker = "closing" => \A r \in Runs : phase[r] # "idle" => signal[r] \in {"stop", "timeoutStop"}

AbortedIsStopped ==
    \A r \in Runs : signal[r] \in {"stop", "timeoutStop"} => mgr[r] # "live"

\* The manager follows the phase.
ManagerFits ==
    \A r \in Runs : /\ mgr[r] = "live" => phase[r] \in {"booting", "testing"}
                    /\ phase[r] \in {"entering", "preparing"} => mgr[r] = "none"

\* A run is "running" only when its sandbox has started, and then it is charged.
BootingIsNotRunning == \A r \in Runs : phase[r] = "booting" => run[r] # "running"

\* A cancelled job stays cancelled until its run is updated, and is a run's.
CancelledIsFinal == \A s \in seen : s.cancelled => job[s.run] = "cancelled"
JobHasRun == \A r \in Runs : run[r] = "absent" => job[r] = "absent"

\* The execution may still start a sandbox, or has results to report.
Executes(r) ==
    phase[r] \in {"preparing", "booting", "testing", "cleaning"} /\ mgr[r] \notin {"stopping", "destroyed"}

Undisturbed(r) == Executes(r) /\ signal[r] \in {"none", "timeout"}

\* What a statement that is left finds when its turn comes.
PlansFit ==
    \A t \in todo :
        /\ t.op \in {"requeue", "fail", "orphan", "stale"} => phase[t.run] = "idle"
        /\ t.op = "abandon" => worker = "closing"
        /\ t.op = "consume" => phase[t.run] = "testing" /\ mgr[t.run] = "live"
        /\ t.op = "release" => run[t.run] \in Final /\ ~Undisturbed(t.run)
        /\ t.op = "saveStopped" => mgr[t.run] = "destroyed"

ExecInv ==
    /\ DownIsIdle /\ DeliveredIsRunning /\ ClosingIsAborted /\ AbortedIsStopped
    /\ ManagerFits /\ BootingIsNotRunning /\ CancelledIsFinal /\ JobHasRun /\ PlansFit

LEMMA WebExec ==
    ASSUME TypeInv, ExecInv, NEW r \in Runs, Web(r)
    PROVE  ExecInv'
<1> USE DEF TypeInv, ExecInv, workVars, execVars, mgrVars, envVars, runVars, quotaVars, jobVars,
            RunTypeOK, JobTypeOK, WorkTypeOK
<1> USE DEF DownIsIdle, DeliveredIsRunning, ClosingIsAborted, AbortedIsStopped, ManagerFits,
            BootingIsNotRunning, CancelledIsFinal, JobHasRun, PlansFit, Executes, Undisturbed
<1>t. (\A t \in todo : t.run \in Runs) /\ (\A s \in seen : s.run \in Runs)
  BY DEF Todo, EnvTypeOK
<1>1. CASE createQueuedTestRun(r)
  BY <1>1 DEF createQueuedTestRun, SetRun, Queue!Submit, Queue!Become, Final
<1>2. CASE CancelJobOf(r)
  <2>1. \/ UNCHANGED <<job, deliveries>>
        \/ job[r] = "pending" /\ job' = [job EXCEPT ![r] = "cancelled"]
    BY <1>2 DEF CancelJobOf, Queue!Become
  <2>2. CancelledIsFinal'
    <3> DEFINE mark == [run |-> r, cancelled |-> job[r] \in {"pending", "cancelled"}]
    <3>1. seen' = seen \cup {mark}
      BY <1>2 DEF CancelJobOf
    <3>2. mark.run = r /\ mark.cancelled = (job[r] \in {"pending", "cancelled"})
      BY Zenon
    <3>3. job[r] \in {"pending", "cancelled"} => job'[r] = "cancelled"
      BY <2>1, <1>2 DEF CancelJobOf, Queue!Become
    <3> HIDE DEF mark
    <3>4. \A q \in Runs : job[q] = "cancelled" => job'[q] = "cancelled"
      BY <2>1
    <3>5. \A s \in seen : s.run \in Runs
      BY DEF EnvTypeOK
    <3>6. QED
      BY <3>1, <3>2, <3>3, <3>4, <3>5
  <2>3. QED
    BY <1>2, <2>1, <2>2 DEF CancelJobOf, ActiveRun
<1>3. ASSUME NEW b \in BOOLEAN, cancelRun([run |-> r, cancelled |-> b])
      PROVE  ExecInv'
  <2>1. \/ UNCHANGED runVars
        \/ run[r] \notin Final /\ run' = [run EXCEPT ![r] = "destroyed"]
        \/ run[r] = "running" /\ run' = [run EXCEPT ![r] = "stopping"]
    BY <1>3 DEF cancelRun, SetRun, updateTestRunStatus, isFinal
  <2>2. \A t \in todo : run[t.run] \in Final => run'[t.run] \in Final
    BY <1>t, <2>1 DEF Final
  <2>3. QED
    BY <1>3, <2>1, <2>2 DEF cancelRun
<1>4. CASE cancelJobAdmin(r)
  BY <1>4 DEF cancelJobAdmin, Queue!Become, EnvTypeOK
<1>5. CASE retryJobAdmin(r)
  BY <1>5 DEF retryJobAdmin, Queue!Reopen, Queue!Become, EnvTypeOK
<1>6. QED
  BY <1>1, <1>2, <1>3, <1>4, <1>5 DEF Web

LEMMA HandleExec ==
    ASSUME TypeInv, ExecInv, NEW r \in Runs, Claim(r) \/ Handle(r)
    PROVE  ExecInv'
<1> USE DEF TypeInv, ExecInv, workVars, execVars, mgrVars, envVars, runVars, quotaVars, jobVars,
            RunTypeOK, JobTypeOK, WorkTypeOK
<1> USE DEF DownIsIdle, DeliveredIsRunning, ClosingIsAborted, AbortedIsStopped, ManagerFits,
            BootingIsNotRunning, CancelledIsFinal, JobHasRun, PlansFit, Executes, Undisturbed
<1> USE DEF SetRun, updateTestRunStatus, finalizeTestRunWithoutResults, requeueTestRunForRetry,
            finalizeCancelled, Plan, MoveTo, MoveWith, Unwind, SetMgr, At, InBlock, Executing
<1>t. (\A t \in todo : t.run \in Runs) /\ (\A s \in seen : s.run \in Runs)
  BY DEF Todo, EnvTypeOK
<1>1. CASE Claim(r)
  BY <1>1, <1>t DEF Claim, Queue!Deliver
<1>2. CASE Enter(r)
  BY <1>2, <1>t DEF Enter, Final
<1>3. ASSUME NEW c \in Codes \ {"ok"}, Caught(r, c)
      PROVE  ExecInv'
  <2>1. \/ run' = run /\ todo' = todo
        \/ run' = [run EXCEPT ![r] = "queued"] /\ todo' = todo
        \/ /\ \/ run[r] = "completed" /\ run' = run
              \/ \E s \in {"destroyed", "failed"} : run' = [run EXCEPT ![r] = s]
           /\ todo' = todo \cup {[run |-> r, op |-> "release"]}
    BY <1>3 DEF Caught
  <2>2. PlansFit'
    BY <1>3, <1>t, <2>1 DEF Caught, Final
  <2>3. QED
    BY <1>3, <2>1, <2>2 DEF Caught
<1>4. CASE Preflight(r)
  BY <1>4, <1>t DEF Preflight, Final, isCancelled, Aborted
<1>5. CASE SandboxStarts(r)
  BY <1>5, <1>t DEF SandboxStarts, Final
<1>6. ASSUME NEW c \in Codes \ {"ok"}, SandboxFails(r, c)
      PROVE  ExecInv'
  BY <1>6, <1>t DEF SandboxFails, Final
<1>7. ASSUME NEW s \in {"completed", "timeout"}, TestsEnd(r, s)
      PROVE  ExecInv'
  BY <1>7, <1>t DEF TestsEnd, Final
<1>8. CASE ExecuteReturns(r)
  BY <1>8, <1>t DEF ExecuteReturns
<1>9. CASE SandboxRemoved(r)
  <2>1. /\ phase[r] = "cleaning" /\ phase' = [phase EXCEPT ![r] = "unwinding"]
        /\ UNCHANGED <<jobVars, mgrVars, signal, todo, seen, envVars>> /\ todo = {}
    BY <1>9 DEF SandboxRemoved, Finished
  <2>2. run' = run \/ \E s : run' = [run EXCEPT ![r] = s]
    BY <1>9 DEF SandboxRemoved, Finished, saveTestRunFinal
  <2>3. JobHasRun'
    BY <1>9, <2>1, HandleQuota DEF Handle, QuotaEffect, RowsStay
  <2>4. QED
    BY <2>1, <2>2, <2>3
<1>10. CASE StopRun(r)
  BY <1>10, <1>t DEF StopRun
<1>11. CASE StopDone(r)
  BY <1>11, <1>t DEF StopDone, Final
<1>12. QED
  BY <1>1, <1>2, <1>3, <1>4, <1>5, <1>6, <1>7, <1>8, <1>9, <1>10, <1>11 DEF Handle

\* A statement on the job writes another state only in place of one it may end.
LEMMA UpdateJobWrites ==
    ASSUME NEW r, NEW from, NEW s, UpdateJob(r, from, s)
    PROVE  job' = job \/ (job[r] \in from /\ job' = [job EXCEPT ![r] = s])
BY DEF UpdateJob, Queue!Become

LEMMA RunOfWorkerExec ==
    ASSUME TypeInv, ExecInv, NEW r \in Runs, Run(r) \/ JobTimeout(r) \/ AbortStop(r) \/ Maintain(r)
    PROVE  ExecInv'
<1> USE DEF TypeInv, ExecInv, workVars, execVars, mgrVars, envVars, runVars, quotaVars, jobVars,
            RunTypeOK, JobTypeOK, WorkTypeOK
<1> USE DEF DownIsIdle, DeliveredIsRunning, ClosingIsAborted, AbortedIsStopped, ManagerFits,
            BootingIsNotRunning, CancelledIsFinal, JobHasRun, PlansFit, Executes, Undisturbed
<1> USE DEF SetRun, finalizeTestRunWithoutResults, finalizeCancelled, isFinal, Plan, MoveTo, SetMgr,
            At, InBlock, End, finishCancelled
<1>t. (\A t \in todo : t.run \in Runs) /\ (\A s \in seen : s.run \in Runs)
  BY DEF Todo, EnvTypeOK
<1>1. CASE HandleReturned(r)
  <2>1. CASE finishCancelled(r)
    <3>1. \/ UNCHANGED <<run, todo>>
          \/ /\ run' = [run EXCEPT ![r] = "destroyed"]
             /\ todo' = todo \cup {[run |-> r, op |-> "release"]}
      BY <2>1 DEF Final
    <3>2. QED
      BY <1>1, <1>t, <2>1, <3>1 DEF HandleReturned, Final
  <2>2. CASE End(r) /\ UNCHANGED <<runVars, todo>> /\ UpdateJob(r, {"running"}, "completed")
    <3>1. job' = job \/ (job[r] = "running" /\ job' = [job EXCEPT ![r] = "completed"])
      BY <2>2, UpdateJobWrites
    <3>2. QED
      BY <1>1, <1>t, <2>2, <3>1 DEF HandleReturned
  <2>3. QED
    BY <1>1, <2>1, <2>2 DEF HandleReturned
<1>2. CASE HandleThrew(r)
  <2>1. CASE finishCancelled(r)
    <3>1. \/ UNCHANGED <<run, todo>>
          \/ /\ run' = [run EXCEPT ![r] = "destroyed"]
             /\ todo' = todo \cup {[run |-> r, op |-> "release"]}
      BY <2>1 DEF Final
    <3>2. QED
      BY <1>2, <1>t, <2>1, <3>1 DEF HandleThrew, Final
  <2>2. CASE ~finishCancelled(r)
    <3>1. UNCHANGED <<runVars, cancel, mgrVars, todo, seen, envVars>> /\ todo = {}
      BY <1>2, <2>2 DEF HandleThrew
    <3>2. phase' = [phase EXCEPT ![r] = "idle"] \/ phase' = [phase EXCEPT ![r] = "timedOut"]
      BY <1>2, <2>2 DEF HandleThrew
    <3>3. signal' = [signal EXCEPT ![r] = "none"] \/ signal' = signal
      BY <1>2, <2>2 DEF HandleThrew
    <3>4. \/ job' = job
          \/ job[r] \in {"running", "pending"} /\ \E s : job' = [job EXCEPT ![r] = s]
      BY <1>2, <2>2, UpdateJobWrites DEF HandleThrew
    <3>5. phase[r] = "unwinding"
      BY <1>2 DEF HandleThrew
    <3>6. worker = "closing" /\ phase'[r] # "idle" => signal' = signal
      BY <1>2, <2>2 DEF HandleThrew
    <3>7. QED
      BY <1>t, <3>1, <3>2, <3>3, <3>4, <3>5, <3>6
  <2>3. QED
    BY <2>1, <2>2
<1>3. CASE markCancelled(r)
  <2>1. \/ job' = job
        \/ job[r] \in {"running", "pending"} /\ job' = [job EXCEPT ![r] = "cancelled"]
    BY <1>3, UpdateJobWrites DEF markCancelled
  <2>2. /\ todo = {} /\ UNCHANGED <<runVars, mgrVars, todo, seen, envVars>>
        /\ phase' = [phase EXCEPT ![r] = "idle"] /\ signal' = [signal EXCEPT ![r] = "none"]
    BY <1>3 DEF markCancelled
  <2>3. phase[r] = "marking"
    BY <1>3 DEF markCancelled
  <2>4. QED
    BY <1>t, <2>1, <2>2, <2>3
<1>4. CASE FinishTimeout(r)
  BY <1>4, <1>t DEF FinishTimeout, Final
<1>5. CASE JobTimeout(r)
  BY <1>5, <1>t DEF JobTimeout
<1>6. CASE AbortStop(r)
  BY <1>6, <1>t DEF AbortStop, Final
<1>7. CASE ExpireStaleJob(r)
  BY <1>7, <1>t DEF ExpireStaleJob, Maintaining, Queue!Become
<1>8. CASE CloseStaleRun(r)
  BY <1>8, <1>t DEF CloseStaleRun, Maintaining
<1>9. CASE releaseDanglingReservations(r)
  BY <1>9, <1>t DEF releaseDanglingReservations, Maintaining
<1>10. QED
  BY <1>1, <1>2, <1>3, <1>4, <1>5, <1>6, <1>7, <1>8, <1>9 DEF Run, Maintain

LEMMA BlockExec ==
    ASSUME TypeInv, ExecInv, NEW t \in todo, Do(t)
    PROVE  ExecInv'
<1> USE DEF TypeInv, ExecInv, workVars, execVars, mgrVars, envVars, runVars, quotaVars, jobVars,
            RunTypeOK, JobTypeOK, WorkTypeOK
<1> USE DEF DownIsIdle, DeliveredIsRunning, ClosingIsAborted, AbortedIsStopped, ManagerFits,
            BootingIsNotRunning, CancelledIsFinal, JobHasRun, PlansFit, Executes, Undisturbed
<1>t. (\A u \in todo : u.run \in Runs) /\ (\A s \in seen : s.run \in Runs)
  BY DEF Todo, EnvTypeOK
<1>1. CASE Recover(t)
  <2>1. job' = job \/ \E s : job[t.run] = "running" /\ job' = [job EXCEPT ![t.run] = s]
    BY <1>1, UpdateJobWrites DEF Recover
  <2>2. /\ UNCHANGED <<runVars, execVars, mgrVars, seen, envVars>>
        /\ worker = "closing" \/ phase[t.run] = "idle"
    BY <1>1 DEF Recover
  <2>3. PlansFit'
    BY <1>1, <1>t, <2>2 DEF Recover
  <2>4. QED
    BY <1>1, <1>t, <2>1, <2>2, <2>3 DEF Recover
<1>2. CASE CloseRun(t)
  BY <1>2, <1>t DEF CloseRun, finalizeTestRunWithoutResults, SetRun, Left, Final
<1>3. CASE SettleQuota(t)
  BY <1>3, <1>t DEF SettleQuota, Left
<1>4. CASE SaveStopped(t)
  BY <1>4, <1>t DEF SaveStopped, saveTestRunFinal, SetRun, Left, Final
<1>5. QED
  BY <1>1, <1>2, <1>3, <1>4 DEF Do

LEMMA ProcessExec ==
    ASSUME TypeInv, ExecInv, Start \/ Stop \/ GraceElapsed \/ Exit \/ Crash
    PROVE  ExecInv'
<1> USE DEF TypeInv, ExecInv, workVars, execVars, mgrVars, envVars, runVars, quotaVars, jobVars,
            RunTypeOK, JobTypeOK, WorkTypeOK
<1> USE DEF DownIsIdle, DeliveredIsRunning, ClosingIsAborted, AbortedIsStopped, ManagerFits,
            BootingIsNotRunning, CancelledIsFinal, JobHasRun, PlansFit, Executes, Undisturbed
<1>1. CASE Start
  BY <1>1 DEF Start
<1>2. CASE Stop
  BY <1>2 DEF Stop, InBlock
<1>3. CASE GraceElapsed
  BY <1>3 DEF GraceElapsed, InBlock
<1>4. CASE Exit
  BY <1>4 DEF Exit, Down
<1>5. CASE Crash
  BY <1>5 DEF Crash, Down
<1>6. QED
  BY <1>1, <1>2, <1>3, <1>4, <1>5

LEMMA ExecStep ==
    ASSUME TypeInv, ExecInv, [Next]_vars
    PROVE  ExecInv'
<1>1. CASE UNCHANGED vars
  BY <1>1
  DEF vars, runVars, jobVars, workVars, execVars, mgrVars, envVars, ExecInv, DownIsIdle,
      DeliveredIsRunning, ClosingIsAborted, AbortedIsStopped, ManagerFits, BootingIsNotRunning,
      CancelledIsFinal, JobHasRun, PlansFit, Executes, Undisturbed
<1>2. CASE Next
  BY <1>2, WebExec, HandleExec, RunOfWorkerExec, BlockExec, ProcessExec DEF Next
<1>3. QED
  BY <1>1, <1>2

LEMMA ExecInit == Init => ExecInv
BY DEF Init, ExecInv, DownIsIdle, DeliveredIsRunning, ClosingIsAborted, AbortedIsStopped,
   ManagerFits, BootingIsNotRunning, CancelledIsFinal, JobHasRun, PlansFit

LEMMA ExecInvariant == Spec => [](TypeInv /\ ExecInv)
<1>1. Init => TypeInv /\ ExecInv
  BY TypeInit, ExecInit
<1>2. TypeInv /\ ExecInv /\ [Next]_vars => TypeInv' /\ ExecInv'
  BY TypeStep, ExecStep
<1>3. QED
  BY <1>1, <1>2, PTL DEF Spec

-----------------------------------------------------------------------------
(***************************************************************************)
(* Reservations and charges.                                               *)
(***************************************************************************)
Held(r) == resv[r] \in {"open", "consumed"}

\* An execution that nobody aborted holds the reservation it may consume.
ExecutionHolds == \A r \in Runs : Undisturbed(r) => Held(r)

\* So does a run whose job may still be delivered, or is.
RunnableHolds ==
    \A r \in Runs : run[r] \in ActiveRun /\ job[r] \in {"pending", "running"} => Held(r)

\* The charge is made, or is the statement that is left, while the tests execute.
TestingIsCharged ==
    \A r \in Runs :
        /\ phase[r] = "testing" /\ mgr[r] = "live"
              => resv[r] = "consumed" \/ [run |-> r, op |-> "consume"] \in todo
        /\ phase[r] = "cleaning" /\ mgr[r] \in {"completed", "timeout"} => resv[r] = "consumed"

ResultsCharged == \A r \in Runs : outcome[r] \in Executed => resv[r] = "consumed"

HoldInv == overrides = 0 => ExecutionHolds /\ RunnableHolds /\ TestingIsCharged /\ ResultsCharged

\* Nobody aborted an execution only if its job still runs on a worker that stays.
LEMMA UndisturbedRuns ==
    ASSUME TypeInv, ExecInv, overrides = 0, NEW r \in Runs, Undisturbed(r)
    PROVE  job[r] = "running" /\ worker \in {"up", "stopping"}
BY DEF TypeInv, EnvTypeOK, ExecInv, Undisturbed, Executes, DownIsIdle, ClosingIsAborted,
   DeliveredIsRunning

\* Releasing the reservation of r leaves it consumed when it was, and all others.
LEMMA ReleaseKeeps ==
    ASSUME QuotaTypeOK, NEW r \in Runs, resv' = Release(r)
    PROVE  \A q \in Runs : /\ resv[q] = "consumed" => resv'[q] = "consumed"
                           /\ q # r => resv'[q] = resv[q]
BY DEF QuotaTypeOK, Release

LEMMA WebHolds ==
    ASSUME TypeInv, ExecInv, Unreserved, HoldInv, overrides' = 0, NEW r \in Runs, Web(r)
    PROVE  HoldInv'
<1> USE DEF workVars, execVars, mgrVars, envVars, runVars, quotaVars, jobVars,
            Held, Undisturbed, Executes
<1>0. overrides = 0
  <2>1. overrides' = overrides \/ overrides' = overrides + 1
    BY DEF Web, createQueuedTestRun, CancelJobOf, cancelRun, cancelJobAdmin, retryJobAdmin
  <2>2. QED
    BY <2>1 DEF TypeInv, EnvTypeOK
<1>h. ExecutionHolds /\ RunnableHolds /\ TestingIsCharged /\ ResultsCharged
  BY <1>0 DEF HoldInv
<1>t. RunTypeOK /\ QuotaTypeOK /\ JobTypeOK /\ WorkTypeOK
  BY DEF TypeInv
<1>1. CASE createQueuedTestRun(r)
  <2>1. /\ resv[r] = "none" /\ resv' = [resv EXCEPT ![r] = "open"]
        /\ run' = [run EXCEPT ![r] = "queued"] /\ outcome' = [outcome EXCEPT ![r] = "none"]
        /\ job' = [job EXCEPT ![r] = "pending"]
        /\ UNCHANGED <<phase, mgr, signal, todo>>
    BY <1>1 DEF createQueuedTestRun, SetRun, Queue!Submit, Queue!Become, Unreserved
  <2>2. ExecutionHolds' /\ RunnableHolds'
    BY <1>h, <1>t, <2>1 DEF ExecutionHolds, RunnableHolds, RunTypeOK, QuotaTypeOK, JobTypeOK
  <2>3. TestingIsCharged' /\ ResultsCharged'
    BY <1>h, <1>t, <2>1 DEF TestingIsCharged, ResultsCharged, RunTypeOK, QuotaTypeOK, Executed
  <2>4. QED
    BY <2>2, <2>3 DEF HoldInv
<1>2. CASE CancelJobOf(r)
  <2>1. job' = job \/ job' = [job EXCEPT ![r] = "cancelled"]
    BY <1>2 DEF CancelJobOf, Queue!Become
  <2>2. QED
    BY <1>2, <1>h, <1>t, <2>1
    DEF CancelJobOf, HoldInv, ExecutionHolds, RunnableHolds, TestingIsCharged, ResultsCharged, JobTypeOK
<1>3. ASSUME NEW b \in BOOLEAN, cancelRun([run |-> r, cancelled |-> b])
      PROVE  HoldInv'
  <2>1. UNCHANGED <<phase, mgr, signal, todo, job>>
    BY <1>3 DEF cancelRun
  <2>2. CASE b /\ resv' = Release(r)
    <3>1. job[r] = "cancelled"
      BY <1>3, <2>2 DEF cancelRun, ExecInv, CancelledIsFinal
    <3>2. ~Undisturbed(r)
      BY <1>0, <3>1, UndisturbedRuns
    <3>3. /\ \A q \in Runs : q # r => run'[q] = run[q]
          /\ \A q \in Runs : outcome'[q] \in Executed => outcome[q] \in Executed
      BY <1>3, <1>t, <2>2 DEF cancelRun, SetRun, updateTestRunStatus, RunTypeOK, Executed
    <3>4. QED
      BY <1>h, <1>t, <2>1, <2>2, <3>1, <3>2, <3>3, ReleaseKeeps
      DEF HoldInv, ExecutionHolds, RunnableHolds, TestingIsCharged, ResultsCharged
  <2>3. CASE ~b /\ resv' = resv
    <3>1. outcome' = outcome
      BY <1>3, <1>t, <2>3 DEF cancelRun, SetRun, updateTestRunStatus, RunTypeOK
    <3>2. run' = run \/ (run[r] = "running" /\ run' = [run EXCEPT ![r] = "stopping"])
      BY <1>3, <2>3 DEF cancelRun, SetRun, updateTestRunStatus
    <3>3. QED
      BY <1>h, <1>t, <2>1, <2>3, <3>1, <3>2
      DEF HoldInv, ExecutionHolds, RunnableHolds, TestingIsCharged, ResultsCharged, RunTypeOK, ActiveRun
  <2>4. QED
    BY <1>3, <2>2, <2>3 DEF cancelRun
<1>4. CASE cancelJobAdmin(r)
  <2>1. job' = job \/ job' = [job EXCEPT ![r] = "cancelled"]
    BY <1>4 DEF cancelJobAdmin, Queue!Become
  <2>2. QED
    BY <1>4, <1>h, <1>t, <2>1
    DEF cancelJobAdmin, HoldInv, ExecutionHolds, RunnableHolds, TestingIsCharged, ResultsCharged, JobTypeOK
<1>5. ~retryJobAdmin(r)
  BY <1>0 DEF retryJobAdmin
<1>6. QED
  BY <1>1, <1>2, <1>3, <1>4, <1>5 DEF Web

LEMMA HandleHolds ==
    ASSUME TypeInv, ExecInv, HoldInv, overrides' = 0, NEW r \in Runs, Claim(r) \/ Handle(r)
    PROVE  HoldInv'
<1> USE DEF execVars, mgrVars, envVars, runVars, quotaVars, jobVars, Held, Undisturbed, Executes
<1>0. overrides = 0
  BY DEF Claim, Handle, Enter, Caught, SandboxFails, Preflight, SandboxStarts, TestsEnd,
     ExecuteReturns, SandboxRemoved, StopRun, StopDone
<1>h. ExecutionHolds /\ RunnableHolds /\ TestingIsCharged /\ ResultsCharged
  BY <1>0 DEF HoldInv
<1>t. RunTypeOK /\ QuotaTypeOK /\ JobTypeOK /\ WorkTypeOK /\ EnvTypeOK
  BY DEF TypeInv
<1> USE DEF HoldInv, ExecutionHolds, RunnableHolds, TestingIsCharged, ResultsCharged, RunTypeOK, WorkTypeOK
<1>f. ASSUME finalizeCancelled(r), UNCHANGED <<quotaVars, jobVars, mgrVars>>,
             NEW p \in {"unwinding"}, phase' = [phase EXCEPT ![r] = p], UNCHANGED signal
      PROVE  HoldInv'
  BY <1>h, <1>t, <1>f
  DEF finalizeCancelled, finalizeTestRunWithoutResults, SetRun, Plan, ActiveRun, Executed
<1>u. ASSUME NEW p \in {"booting", "testing"}, Executing(r, p)
      PROVE  Undisturbed(r) /\ phase[r] = p /\ mgr[r] = "live" /\ todo = {}
  BY <1>t, <1>u DEF Executing, At, InBlock, ExecInv, AbortedIsStopped, Signals
<1>1. CASE Claim(r)
  BY <1>h, <1>t, <1>1 DEF Claim, MoveTo, Queue!Deliver, JobTypeOK
<1>2. CASE Enter(r)
  <2>1. CASE run' = [run EXCEPT ![r] = "preparing"] /\ outcome' = outcome /\ MoveTo(r, "preparing") /\ UNCHANGED todo /\ ~isFinal(r) /\ ~isCancelled(r)
    <3>1. worker = "up" /\ job[r] = "running"
      BY <1>0, <1>2, <1>t, <2>1 DEF Enter, isCancelled, Aborted, ExecInv, DeliveredIsRunning
    <3>2. run[r] \in ActiveRun
      BY <1>t, <2>1, <3>1 DEF isFinal, ExecInv, JobHasRun, Statuses
    <3>3. Held(r)
      BY <1>h, <3>1, <3>2
    <3>4. QED
      BY <1>h, <1>t, <1>2, <2>1, <3>1, <3>2, <3>3 DEF Enter, MoveTo
  <2>2. QED
    BY <1>2, <1>h, <1>t, <1>f, <2>1 DEF Enter, Unwind, MoveWith, updateTestRunStatus, SetRun
<1>3. ASSUME NEW c \in Codes \ {"ok"}, Caught(r, c)
      PROVE  HoldInv'
  <2>1. /\ phase[r] = "preparing" /\ phase' = [phase EXCEPT ![r] = "unwinding"]
        /\ UNCHANGED <<quotaVars, jobVars, mgrVars, signal>>
    BY <1>3 DEF Caught, At, Unwind, MoveWith
  <2>2. CASE UNCHANGED <<runVars, todo>>
    BY <1>h, <1>t, <2>1, <2>2
  <2>3. CASE finalizeCancelled(r)
    BY <1>f, <2>1, <2>3
  <2>4. CASE requeueTestRunForRetry(r) /\ UNCHANGED todo /\ FALSE \in Seen(r)
    <3>1. Undisturbed(r)
      BY <2>1, <2>4 DEF Seen, isCancelled, Aborted, ExecInv, ManagerFits
    <3>2. QED
      BY <1>h, <1>t, <2>1, <2>4, <3>1 DEF requeueTestRunForRetry, SetRun, Executed
  <2>5. CASE /\ \E o \in {"FAILED", "INFRASTRUCTURE_ERROR"} : finalizeTestRunWithoutResults(r, "failed", o)
             /\ Plan(r, "release")
    BY <1>h, <1>t, <2>1, <2>5 DEF finalizeTestRunWithoutResults, SetRun, Plan, Executed, ActiveRun
  <2>6. QED
    BY <1>3, <2>2, <2>3, <2>4, <2>5 DEF Caught
<1>4. CASE Preflight(r)
  <2>1. phase[r] = "preparing" /\ UNCHANGED <<quotaVars, jobVars>>
    BY <1>4 DEF Preflight, At
  <2>2. CASE finalizeCancelled(r) /\ Unwind(r, "ok") /\ UNCHANGED mgrVars
    BY <1>f, <2>1, <2>2 DEF Unwind, MoveWith
  <2>3. CASE ~isCancelled(r) /\ updateTestRunStatus(r, "starting") /\ MoveTo(r, "booting")
             /\ SetMgr(r, "live") /\ UNCHANGED todo
    <3>1. Undisturbed(r)
      BY <2>1, <2>3 DEF isCancelled, Aborted, ExecInv, ManagerFits
    <3>2. QED
      BY <1>h, <1>t, <2>1, <2>3, <3>1 DEF updateTestRunStatus, SetRun, MoveTo, SetMgr
  <2>4. QED
    BY <1>4, <2>2, <2>3 DEF Preflight
<1>5. CASE SandboxStarts(r)
  <2>1. Held(r) /\ run[r] # "running"
    BY <1>5, <1>u DEF SandboxStarts, Executing, At, ExecInv, BootingIsNotRunning
  <2>2. /\ run' = [run EXCEPT ![r] = "running"] /\ outcome' = outcome
        /\ [run |-> r, op |-> "consume"] \in todo' /\ todo \subseteq todo'
        /\ phase' = [phase EXCEPT ![r] = "testing"]
        /\ UNCHANGED <<resv, jobVars, mgr, signal>>
    BY <1>5, <1>t, <2>1 DEF SandboxStarts, updateTestRunStatus, SetRun, Plan, MoveTo
  <2>3. QED
    BY <1>h, <1>t, <2>1, <2>2
<1>6. ASSUME NEW c \in Codes \ {"ok"}, SandboxFails(r, c)
      PROVE  HoldInv'
  <2>1. Held(r)
    BY <1>h, <1>6, <1>u DEF SandboxFails
  <2>2. /\ run' = [run EXCEPT ![r] = "failed"] /\ outcome' = outcome
        /\ phase' = [phase EXCEPT ![r] = "cleaning"] /\ mgr' = [mgr EXCEPT ![r] = "failed"]
        /\ UNCHANGED <<quotaVars, jobVars, signal, todo>>
    BY <1>6, <1>t DEF SandboxFails, updateTestRunStatus, SetRun, MoveWith, SetMgr
  <2>3. QED
    BY <1>h, <1>t, <2>1, <2>2
<1>7. ASSUME NEW s \in {"completed", "timeout"}, TestsEnd(r, s)
      PROVE  HoldInv'
  <2>1. Held(r) /\ resv[r] = "consumed"
    BY <1>h, <1>7, <1>u DEF TestsEnd
  <2>2. /\ run' = [run EXCEPT ![r] = s] /\ outcome' = outcome
        /\ phase' = [phase EXCEPT ![r] = "cleaning"] /\ mgr' = [mgr EXCEPT ![r] = s]
        /\ UNCHANGED <<quotaVars, jobVars, signal, todo>>
    BY <1>7, <1>t DEF TestsEnd, updateTestRunStatus, SetRun, MoveTo, SetMgr
  <2>3. QED
    BY <1>h, <1>t, <2>1, <2>2
<1>8. CASE ExecuteReturns(r)
  BY <1>h, <1>t, <1>8 DEF ExecuteReturns, Unwind, MoveWith
<1>9. CASE SandboxRemoved(r)
  <2>1. /\ phase[r] = "cleaning" /\ phase' = [phase EXCEPT ![r] = "unwinding"]
        /\ UNCHANGED <<jobVars, mgrVars, signal, todo>>
    BY <1>9 DEF SandboxRemoved, Finished, At, Unwind, MoveWith
  <2>2. mgr[r] \in {"failed", "completed", "timeout"}
    BY <2>1 DEF TypeInv, CleaningIsFinal
  <2>3. CASE shouldRetry(r) /\ FALSE \in Seen(r) /\ requeueTestRunForRetry(r) /\ UNCHANGED quotaVars
    <3>1. Held(r)
      BY <1>h, <2>1, <2>2, <2>3 DEF Seen, isCancelled, Aborted
    <3>2. QED
      BY <1>h, <1>t, <2>1, <2>3, <3>1 DEF requeueTestRunForRetry, SetRun, Executed
  <2>4. CASE \E o \in deriveOutcome(mgr[r], code[r]) : saveTestRunFinal(r, mgr[r], o)
    <3>1. PICK o \in deriveOutcome(mgr[r], code[r]) : saveTestRunFinal(r, mgr[r], o)
      BY <2>4
    <3>2. o \in Executed => resv[r] = "consumed"
      BY <1>h, <2>1, <2>2, <3>1 DEF deriveOutcome, Executed
    <3>3. /\ run' = [run EXCEPT ![r] = mgr[r]] /\ outcome' = [outcome EXCEPT ![r] = o]
          /\ resv' = resv \/ resv' = Release(r)
      BY <3>1 DEF saveTestRunFinal, SetRun
    <3>4. \A q \in Runs : /\ resv[q] = "consumed" => resv'[q] = "consumed"
                          /\ q # r => resv'[q] = resv[q]
      BY <1>t, <3>3, ReleaseKeeps
    <3>5. QED
      BY <1>h, <1>t, <2>1, <2>2, <3>2, <3>3, <3>4 DEF ActiveRun
  <2>5. QED
    BY <1>9, <2>3, <2>4 DEF SandboxRemoved, Finished
<1>10. CASE StopRun(r)
  BY <1>h, <1>t, <1>10 DEF StopRun, SetMgr
<1>11. CASE StopDone(r)
  BY <1>h, <1>t, <1>11 DEF StopDone, SetMgr, updateTestRunStatus, SetRun, Plan, ActiveRun
<1>12. QED
  BY <1>1, <1>2, <1>3, <1>4, <1>5, <1>6, <1>7, <1>8, <1>9, <1>10, <1>11 DEF Handle

LEMMA RunOfWorkerHolds ==
    ASSUME TypeInv, ExecInv, HoldInv, overrides' = 0, NEW r \in Runs,
           Run(r) \/ JobTimeout(r) \/ AbortStop(r) \/ Maintain(r)
    PROVE  HoldInv'
<1> USE DEF workVars, execVars, mgrVars, envVars, runVars, quotaVars, jobVars,
            Held, Undisturbed, Executes
<1>0. overrides = 0
  BY DEF Run, HandleReturned, HandleThrew, markCancelled, FinishTimeout, JobTimeout, AbortStop,
     Maintain, ExpireStaleJob, CloseStaleRun, releaseDanglingReservations
<1>h. ExecutionHolds /\ RunnableHolds /\ TestingIsCharged /\ ResultsCharged
  BY <1>0 DEF HoldInv
<1>t. RunTypeOK /\ QuotaTypeOK /\ JobTypeOK /\ WorkTypeOK /\ EnvTypeOK
  BY DEF TypeInv
<1> USE DEF HoldInv, ExecutionHolds, RunnableHolds, TestingIsCharged, ResultsCharged, RunTypeOK, WorkTypeOK
\* The run is closed or left alone, and what remains of its execution holds nothing.
<1>f. ASSUME finalizeCancelled(r) \/ UNCHANGED <<runVars, todo>>,
             UNCHANGED <<quotaVars, mgrVars>>,
             \A q \in Runs : job'[q] \in {"pending", "running"} => job[q] \in {"pending", "running"},
             \A q \in Runs : q # r => phase'[q] = phase[q] /\ signal'[q] = signal[q],
             \/ phase'[r] \in {"idle", "marking", "timedOut"}
             \/ phase'[r] = phase[r] /\ signal'[r] \in {"stop", "timeoutStop"}
             \/ phase'[r] = phase[r] /\ signal[r] = "none" /\ UNCHANGED <<runVars, todo>>
      PROVE  HoldInv'
  BY <1>h, <1>t, <1>f
  DEF finalizeCancelled, finalizeTestRunWithoutResults, SetRun, Plan, ActiveRun, Executed
<1>1. CASE HandleReturned(r)
  <2>1. job' = job \/ (job[r] = "running" /\ job' = [job EXCEPT ![r] = "completed"])
    BY <1>1, UpdateJobWrites DEF HandleReturned, finishCancelled
  <2>2. /\ finalizeCancelled(r) \/ UNCHANGED <<runVars, todo>>
        /\ UNCHANGED <<quotaVars, mgrVars>>
        /\ phase'[r] \in {"idle", "marking"}
        /\ \A q \in Runs : q # r => phase'[q] = phase[q] /\ signal'[q] = signal[q]
    BY <1>1, <1>t DEF HandleReturned, finishCancelled, MoveTo, End
  <2>3. QED
    BY <1>t, <1>f, <2>1, <2>2 DEF JobTypeOK
<1>2. CASE HandleThrew(r)
  <2>1. \/ job' = job
        \/ job[r] \in {"running", "pending"} /\ \E s : job' = [job EXCEPT ![r] = s]
    BY <1>2, UpdateJobWrites DEF HandleThrew, finishCancelled
  <2>2. /\ finalizeCancelled(r) \/ UNCHANGED <<runVars, todo>>
        /\ UNCHANGED <<quotaVars, mgrVars>>
        /\ phase'[r] \in {"idle", "marking", "timedOut"}
        /\ \A q \in Runs : q # r => phase'[q] = phase[q] /\ signal'[q] = signal[q]
    BY <1>2, <1>t DEF HandleThrew, finishCancelled, MoveTo, End
  <2>3. QED
    BY <1>t, <1>f, <2>1, <2>2 DEF JobTypeOK
<1>3. CASE markCancelled(r)
  <2>1. \/ job' = job
        \/ job[r] \in {"running", "pending"} /\ job' = [job EXCEPT ![r] = "cancelled"]
    BY <1>3, UpdateJobWrites DEF markCancelled
  <2>2. QED
    BY <1>3, <1>t, <1>f, <2>1 DEF markCancelled, End, JobTypeOK
<1>4. CASE FinishTimeout(r)
  BY <1>4, <1>t, <1>f DEF FinishTimeout, End
<1>5. CASE JobTimeout(r)
  BY <1>5, <1>h, <1>t DEF JobTimeout
<1>6. CASE AbortStop(r)
  <2>1. CASE mgr[r] = "live" /\ SetMgr(r, "stopping") /\ UNCHANGED <<runVars, todo>>
    BY <1>6, <1>h, <1>t, <2>1 DEF AbortStop, SetMgr
  <2>2. CASE UNCHANGED <<runVars, mgrVars, todo>> \/ (finalizeCancelled(r) /\ UNCHANGED mgrVars)
    BY <1>6, <1>t, <1>f, <2>2 DEF AbortStop
  <2>3. QED
    BY <1>6, <2>1, <2>2 DEF AbortStop
<1>7. CASE ExpireStaleJob(r)
  BY <1>7, <1>h, <1>t DEF ExpireStaleJob, Queue!Become, JobTypeOK
<1>8. CASE CloseStaleRun(r)
  BY <1>8, <1>h, <1>t DEF CloseStaleRun, Plan
<1>9. CASE releaseDanglingReservations(r)
  BY <1>9, <1>h, <1>t, ReleaseKeeps DEF releaseDanglingReservations
<1>10. QED
  BY <1>1, <1>2, <1>3, <1>4, <1>5, <1>6, <1>7, <1>8, <1>9 DEF Run, Maintain

LEMMA BlockHolds ==
    ASSUME TypeInv, ExecInv, HoldInv, overrides' = 0, NEW t \in todo, Do(t)
    PROVE  HoldInv'
<1> USE DEF workVars, execVars, mgrVars, envVars, runVars, quotaVars, jobVars,
            Held, Undisturbed, Executes
<1>0. overrides = 0
  BY DEF Do, Recover, CloseRun, SettleQuota, SaveStopped
<1>h. ExecutionHolds /\ RunnableHolds /\ TestingIsCharged /\ ResultsCharged
  BY <1>0 DEF HoldInv
<1>t. RunTypeOK /\ QuotaTypeOK /\ JobTypeOK /\ WorkTypeOK /\ EnvTypeOK
  BY DEF TypeInv
<1>r. t.run \in Runs
  BY <1>t DEF WorkTypeOK, Todo
<1>p. /\ t.op = "consume" => phase[t.run] = "testing" /\ mgr[t.run] = "live"
      /\ t.op = "release" => run[t.run] \in Final /\ ~Undisturbed(t.run)
      /\ t.op = "saveStopped" => mgr[t.run] = "destroyed"
      /\ t.op \in {"orphan", "stale"} => phase[t.run] = "idle"
  BY DEF ExecInv, PlansFit
<1> USE DEF HoldInv, ExecutionHolds, RunnableHolds, TestingIsCharged, ResultsCharged, RunTypeOK, WorkTypeOK
<1>1. CASE Recover(t)
  <2>1. \/ job' = job
        \/ job[t.run] = "running" /\ \E s : job' = [job EXCEPT ![t.run] = s]
    BY <1>1, UpdateJobWrites DEF Recover
  <2>2. /\ UNCHANGED <<runVars, quotaVars, execVars, mgrVars>>
        /\ \A u \in todo : u.op = "consume" => u \in todo'
    BY <1>1 DEF Recover
  <2>3. QED
    BY <1>h, <1>t, <1>r, <2>1, <2>2 DEF JobTypeOK
<1>2. CASE CloseRun(t)
  <2>1. /\ UNCHANGED <<quotaVars, jobVars, execVars, mgrVars>>
        /\ \A u \in todo : u.op = "consume" => u \in todo'
    BY <1>2 DEF CloseRun, Left
  <2>2. \/ UNCHANGED runVars
        \/ /\ run' = [run EXCEPT ![t.run] = "failed"]
           /\ outcome' = [outcome EXCEPT ![t.run] = "INFRASTRUCTURE_ERROR"]
    BY <1>2 DEF CloseRun, finalizeTestRunWithoutResults, SetRun
  <2>3. QED
    BY <1>h, <1>t, <1>r, <2>1, <2>2 DEF ActiveRun, Executed
<1>3. CASE SettleQuota(t)
  <2>1. UNCHANGED <<runVars, jobVars, execVars, mgrVars>> /\ \A u \in todo : u # t => u \in todo'
    BY <1>3 DEF SettleQuota, Left
  <2>2. CASE t.op = "consume"
    <3>1. consumeReservation(t.run)
      BY <1>3, <2>2 DEF SettleQuota
    <3>2. \A q \in Runs : /\ resv[q] = "consumed" => resv'[q] = "consumed"
                          /\ q # t.run => resv'[q] = resv[q]
                          /\ Held(q) => resv'[q] = "consumed" \/ q # t.run
      BY <1>t, <1>r, <3>1 DEF consumeReservation, QuotaTypeOK
    <3>3. \A q \in Runs : q # t.run /\ [run |-> q, op |-> "consume"] \in todo => [run |-> q, op |-> "consume"] \in todo'
      <4>1. TAKE q \in Runs
      <4>2. [run |-> q, op |-> "consume"].run = q
        OBVIOUS
      <4>3. QED
        BY <2>1, <4>2
    <3>4. Undisturbed(t.run)
      BY <1>t, <1>r, <1>p, <2>2 DEF ExecInv, AbortedIsStopped, Signals
    <3>5. QED
      BY <1>h, <1>t, <1>r, <2>1, <3>2, <3>3, <3>4
  <2>3. CASE t.op = "release" /\ resv' = Release(t.run)
    <3>1. run[t.run] \notin ActiveRun
      BY <1>p, <2>3 DEF ActiveRun, Final
    <3>2. \A q \in Runs : [run |-> q, op |-> "consume"] \in todo => [run |-> q, op |-> "consume"] \in todo'
      <4>1. \A q \in Runs : [run |-> q, op |-> "consume"] # t
        BY <2>3
      <4>2. QED
        BY <2>1, <4>1
    <3>3. QED
      BY <1>h, <1>t, <1>r, <1>p, <2>1, <2>3, <3>1, <3>2, ReleaseKeeps
  <2>4. QED
    BY <1>3, <2>2, <2>3 DEF SettleQuota
<1>4. CASE SaveStopped(t)
  <2>1. /\ UNCHANGED <<jobVars, execVars, mgrVars>>
        /\ run' = [run EXCEPT ![t.run] = "destroyed"] /\ outcome' = [outcome EXCEPT ![t.run] = "CANCELLED"]
        /\ resv' = resv \/ resv' = Release(t.run)
        /\ t.op = "saveStopped" /\ \A u \in todo : u # t => u \in todo'
    BY <1>4 DEF SaveStopped, saveTestRunFinal, SetRun, Left
  <2>2. \A q \in Runs : [run |-> q, op |-> "consume"] \in todo => [run |-> q, op |-> "consume"] \in todo'
    <3>1. \A q \in Runs : [run |-> q, op |-> "consume"] # t
      BY <2>1
    <3>2. QED
      BY <2>1, <3>1
  <2>3. \A q \in Runs : /\ resv[q] = "consumed" => resv'[q] = "consumed"
                        /\ q # t.run => resv'[q] = resv[q]
    BY <1>t, <1>r, <2>1, ReleaseKeeps
  <2>4. QED
    BY <1>h, <1>t, <1>r, <1>p, <2>1, <2>2, <2>3 DEF ActiveRun, Executed
<1>5. QED
  BY <1>1, <1>2, <1>3, <1>4 DEF Do

LEMMA ProcessHolds ==
    ASSUME TypeInv, ExecInv, HoldInv, Start \/ Stop \/ GraceElapsed \/ Exit \/ Crash
    PROVE  HoldInv'
<1> USE DEF TypeInv, WorkTypeOK, workVars, execVars, mgrVars, runVars, quotaVars, jobVars, HoldInv,
            ExecutionHolds, RunnableHolds, TestingIsCharged, ResultsCharged, Held, Undisturbed, Executes
<1>1. CASE Start
  BY <1>1 DEF Start, ExecInv, DownIsIdle
<1>2. CASE Stop
  BY <1>2 DEF Stop
<1>3. CASE GraceElapsed
  BY <1>3 DEF GraceElapsed, InBlock
<1>4. CASE Exit
  BY <1>4 DEF Exit, Down
<1>5. CASE Crash
  BY <1>5 DEF Crash, Down
<1>6. QED
  BY <1>1, <1>2, <1>3, <1>4, <1>5

LEMMA HoldStep ==
    ASSUME TypeInv, ExecInv, Unreserved, HoldInv, [Next]_vars
    PROVE  HoldInv'
<1>1. CASE UNCHANGED vars
  BY <1>1 DEF vars, runVars, quotaVars, jobVars, workVars, execVars, mgrVars, envVars, HoldInv,
     ExecutionHolds, RunnableHolds, TestingIsCharged, ResultsCharged, Held, Undisturbed, Executes
<1>2. CASE overrides' # 0
  BY <1>2 DEF HoldInv
<1>3. CASE Next /\ overrides' = 0
  BY <1>3, WebHolds, HandleHolds, RunOfWorkerHolds, BlockHolds, ProcessHolds DEF Next
<1>4. QED
  BY <1>1, <1>2, <1>3

LEMMA HoldInvariant == Spec => [](TypeInv /\ ExecInv /\ HoldInv)
<1>1. Init => HoldInv
  BY DEF Init, HoldInv, ExecutionHolds, RunnableHolds, TestingIsCharged, ResultsCharged,
     Undisturbed, Executes, ActiveRun, Executed
<1>2. TypeInv /\ ExecInv /\ ChargeInv /\ HoldInv /\ [Next]_vars => HoldInv'
  BY HoldStep DEF ChargeInv
<1>3. QED
  BY <1>1, <1>2, ExecInvariant, ChargeInvariant, PTL DEF Spec

\* A run that reports results of executed tests was charged, whatever crashes,
\* shutdowns, retries and cancellations came between: the reservation is still there
\* when its sandbox starts, and no other statement gets between.
THEOREM ResultsCharge == Spec => []ResultsAreCharged
<1>1. TypeInv /\ ExecInv /\ HoldInv => ResultsAreCharged
  BY DEF TypeInv, EnvTypeOK, HoldInv, ResultsCharged, ResultsAreCharged
<1>2. QED
  BY <1>1, HoldInvariant, PTL

\* A run whose job waits to be delivered holds its reservation, however often it
\* was delivered, given back or recovered before.
THEOREM RunnableHold == Spec => []RunnableHoldsReservation
<1>1. TypeInv /\ ExecInv /\ HoldInv => RunnableHoldsReservation
  BY DEF TypeInv, EnvTypeOK, HoldInv, RunnableHolds, RunnableHoldsReservation, Held
<1>2. QED
  BY <1>1, HoldInvariant, PTL

-----------------------------------------------------------------------------
(***************************************************************************)
(* The end of a run.                                                       *)
(***************************************************************************)
\* Results are those of a run that ended.
ResultsEnd == \A r \in Runs : outcome[r] \in Executed => run[r] \in Final

\* A run with an outcome is open again only under a job that was cancelled meanwhile.
OpenIsCancelled ==
    \A r \in Runs : run[r] \notin Final /\ outcome[r] # "none" => job[r] = "cancelled"

\* An execution starts without results, and meets an outcome only of a cancellation.
ExecutionIsFresh ==
    \A r \in Runs : /\ Executes(r) => outcome[r] \notin Executed
                    /\ Undisturbed(r) /\ outcome[r] # "none" => job[r] = "cancelled"

StoppedHasNoResults ==
    \A r \in Runs : mgr[r] \in {"stopping", "destroyed"} => outcome[r] \notin Executed

StaleHasNoResults == \A t \in todo : t.op = "stale" => outcome[t.run] \notin Executed

EndedInv ==
    ResultsEnd /\ OpenIsCancelled /\ ExecutionIsFresh /\ StoppedHasNoResults /\ StaleHasNoResults

\* What EndedRunsStay says of a step.
EndedStays(r) ==
    /\ isFinal(r) /\ outcome[r] # "none"
          => run'[r] \in Final \/ (job[r] = "cancelled" /\ phase[r] # "idle")
    /\ outcome[r] \in Executed => run'[r] = run[r] /\ outcome'[r] = outcome[r]

StepEnds == EndedInv' /\ \A r \in Runs : EndedStays(r)

LEMMA WebEnds ==
    ASSUME TypeInv, ExecInv, EndedInv, NEW r \in Runs, Web(r)
    PROVE  StepEnds
<1> USE DEF workVars, execVars, mgrVars, envVars, runVars, quotaVars, jobVars,
            EndedInv, StepEnds, EndedStays, ResultsEnd, OpenIsCancelled, ExecutionIsFresh,
            StoppedHasNoResults, StaleHasNoResults, Undisturbed, Executes, Executed, isFinal
<1>t. RunTypeOK /\ JobTypeOK /\ WorkTypeOK
  BY DEF TypeInv
<1>r. \A t \in todo : t.run \in Runs
  BY <1>t DEF WorkTypeOK, Todo
<1> USE DEF RunTypeOK, JobTypeOK, WorkTypeOK
<1>1. CASE createQueuedTestRun(r)
  <2>1. /\ run[r] = "absent" /\ job[r] = "absent"
        /\ run' = [run EXCEPT ![r] = "queued"] /\ outcome' = [outcome EXCEPT ![r] = "none"]
        /\ job' = [job EXCEPT ![r] = "pending"] /\ UNCHANGED workVars
    BY <1>1 DEF createQueuedTestRun, SetRun, Queue!Submit, Queue!Become
  <2>2. QED
    BY <1>t, <1>r, <2>1 DEF Final
<1>2. CASE CancelJobOf(r)
  <2>1. job' = job \/ job' = [job EXCEPT ![r] = "cancelled"]
    BY <1>2 DEF CancelJobOf, Queue!Become
  <2>2. QED
    BY <1>2, <1>t, <2>1 DEF CancelJobOf
<1>3. ASSUME NEW b \in BOOLEAN, cancelRun([run |-> r, cancelled |-> b])
      PROVE  StepEnds
  <2>1. UNCHANGED <<job, workVars>>
    BY <1>3 DEF cancelRun
  <2>2. CASE UNCHANGED runVars
    BY <1>t, <2>1, <2>2
  <2>3. CASE /\ b /\ ~isFinal(r) /\ run' = [run EXCEPT ![r] = "destroyed"]
             /\ outcome' = [outcome EXCEPT ![r] = "CANCELLED"]
    <3>1. job[r] = "cancelled"
      BY <1>3, <2>3 DEF cancelRun, ExecInv, CancelledIsFinal
    <3>2. QED
      BY <1>t, <1>r, <2>1, <2>3, <3>1 DEF Final
  <2>4. CASE /\ run[r] = "running" /\ run' = [run EXCEPT ![r] = "stopping"]
             /\ outcome' = outcome
    BY <1>t, <2>1, <2>4 DEF Final
  <2>5. QED
    BY <1>3, <1>t, <2>2, <2>3, <2>4 DEF cancelRun, SetRun, updateTestRunStatus
<1>4. CASE cancelJobAdmin(r)
  <2>1. job' = job \/ job' = [job EXCEPT ![r] = "cancelled"]
    BY <1>4 DEF cancelJobAdmin, Queue!Become
  <2>2. QED
    BY <1>4, <1>t, <2>1 DEF cancelJobAdmin
<1>5. CASE retryJobAdmin(r)
  <2>1. job[r] = "failed" /\ job' = [job EXCEPT ![r] = "pending"]
    BY <1>5 DEF retryJobAdmin, Queue!Reopen, Queue!Become
  <2>2. QED
    BY <1>5, <1>t, <2>1 DEF retryJobAdmin
<1>6. QED
  BY <1>1, <1>2, <1>3, <1>4, <1>5 DEF Web

LEMMA HandleEnds ==
    ASSUME TypeInv, ExecInv, EndedInv, NEW r \in Runs, Claim(r) \/ Handle(r)
    PROVE  StepEnds
<1> USE DEF execVars, mgrVars, envVars, runVars, quotaVars, jobVars,
            EndedInv, StepEnds, EndedStays, ResultsEnd, OpenIsCancelled, ExecutionIsFresh,
            StoppedHasNoResults, StaleHasNoResults, Undisturbed, Executes, Executed, isFinal
<1>t. RunTypeOK /\ JobTypeOK /\ WorkTypeOK
  BY DEF TypeInv
<1>r. \A t \in todo : t.run \in Runs
  BY <1>t DEF WorkTypeOK, Todo
<1> USE DEF RunTypeOK, JobTypeOK, WorkTypeOK
<1>f. ASSUME finalizeCancelled(r), outcome[r] \notin Executed, UNCHANGED <<jobVars, mgrVars>>,
             phase' = [phase EXCEPT ![r] = "unwinding"], UNCHANGED signal
      PROVE  StepEnds
  <2>1. \/ run[r] = "completed" /\ UNCHANGED runVars
        \/ /\ run' = [run EXCEPT ![r] = "destroyed"]
           /\ outcome' = [outcome EXCEPT ![r] = "CANCELLED"]
    BY <1>f DEF finalizeCancelled, finalizeTestRunWithoutResults, SetRun
  <2>2. todo' = todo \cup {[run |-> r, op |-> "release"]}
    BY <1>f DEF finalizeCancelled, Plan
  <2>3. QED
    BY <1>t, <1>r, <1>f, <2>1, <2>2 DEF Final
<1>u. ASSUME NEW p \in {"booting", "testing"}, Executing(r, p)
      PROVE  Undisturbed(r) /\ phase[r] = p /\ mgr[r] = "live" /\ todo = {}
  BY <1>t, <1>u DEF Executing, At, InBlock, ExecInv, AbortedIsStopped, Signals
<1>1. CASE Claim(r)
  BY <1>t, <1>1 DEF Claim, MoveTo, Queue!Deliver
<1>2. CASE Enter(r)
  <2>1. /\ UNCHANGED <<jobVars, mgrVars, signal>>
        /\ \E p \in {"unwinding", "preparing"} : phase' = [phase EXCEPT ![r] = p]
    BY <1>2 DEF Enter, Unwind, MoveWith, MoveTo
  <2>2. CASE isFinal(r)
    BY <1>2, <1>t, <2>1, <2>2 DEF Enter, Unwind, MoveWith
  <2>3. CASE ~isFinal(r) /\ isCancelled(r)
    BY <1>2, <1>t, <1>f, <2>1, <2>3 DEF Enter, Unwind, MoveWith
  <2>4. CASE ~isFinal(r) /\ ~isCancelled(r)
    BY <1>2, <1>t, <1>r, <2>1, <2>4 DEF Enter, updateTestRunStatus, SetRun, MoveTo, Final
  <2>5. QED
    BY <2>2, <2>3, <2>4
<1>3. ASSUME NEW c \in Codes \ {"ok"}, Caught(r, c)
      PROVE  StepEnds
  <2>1. /\ phase[r] = "preparing" /\ phase' = [phase EXCEPT ![r] = "unwinding"]
        /\ UNCHANGED <<jobVars, mgrVars, signal>> /\ mgr[r] = "none"
    BY <1>3 DEF Caught, At, Unwind, MoveWith, ExecInv, ManagerFits
  <2>2. CASE UNCHANGED <<runVars, todo>>
    BY <1>t, <2>1, <2>2
  <2>3. CASE finalizeCancelled(r)
    BY <1>t, <1>f, <2>1, <2>3
  <2>4. CASE ~isFinal(r) /\ requeueTestRunForRetry(r) /\ UNCHANGED todo
    <3>1. run' = [run EXCEPT ![r] = "queued"] /\ outcome' = [outcome EXCEPT ![r] = "none"]
      BY <2>4 DEF requeueTestRunForRetry, SetRun, Final
    <3>2. QED
      BY <1>t, <1>r, <2>1, <2>4, <3>1
  <2>5. CASE /\ ~isFinal(r) /\ Plan(r, "release")
             /\ \E o \in {"FAILED", "INFRASTRUCTURE_ERROR"} : finalizeTestRunWithoutResults(r, "failed", o)
    <3>1. run' = [run EXCEPT ![r] = "failed"]
          /\ \E o \in {"FAILED", "INFRASTRUCTURE_ERROR"} : outcome' = [outcome EXCEPT ![r] = o]
      BY <2>5 DEF finalizeTestRunWithoutResults, SetRun, Final
    <3>2. QED
      BY <1>t, <1>r, <2>1, <2>5, <3>1 DEF Plan, Final
  <2>6. QED
    BY <1>3, <2>2, <2>3, <2>4, <2>5 DEF Caught
<1>4. CASE Preflight(r)
  <2>1. phase[r] = "preparing" /\ UNCHANGED jobVars /\ mgr[r] = "none"
    BY <1>4 DEF Preflight, At, ExecInv, ManagerFits
  <2>2. CASE finalizeCancelled(r) /\ Unwind(r, "ok") /\ UNCHANGED mgrVars
    BY <1>t, <1>f, <2>1, <2>2 DEF Unwind, MoveWith
  <2>3. CASE ~isCancelled(r) /\ updateTestRunStatus(r, "starting") /\ MoveTo(r, "booting")
             /\ SetMgr(r, "live") /\ UNCHANGED todo
    <3>1. outcome[r] = "none"
      BY <1>t, <2>1, <2>3 DEF isCancelled, isCancelRequested, Aborted
    <3>2. QED
      BY <1>t, <2>1, <2>3, <3>1 DEF updateTestRunStatus, SetRun, MoveTo, SetMgr
  <2>4. QED
    BY <1>4, <2>2, <2>3 DEF Preflight
<1>5. CASE SandboxStarts(r)
  <2>1. Undisturbed(r) /\ phase[r] = "booting" /\ mgr[r] = "live"
    BY <1>5, <1>u DEF SandboxStarts
  <2>2. /\ run' = [run EXCEPT ![r] = "running"] /\ outcome' = outcome
        /\ phase' = [phase EXCEPT ![r] = "testing"]
        /\ \A t \in todo' : t \in todo \/ t.op = "consume"
        /\ UNCHANGED <<jobVars, mgr, signal>>
    BY <1>5, <1>t DEF SandboxStarts, updateTestRunStatus, SetRun, Plan, MoveTo
  <2>3. QED
    BY <1>t, <2>1, <2>2
<1>6. ASSUME NEW c \in Codes \ {"ok"}, SandboxFails(r, c)
      PROVE  StepEnds
  <2>1. Undisturbed(r)
    BY <1>6, <1>u DEF SandboxFails
  <2>2. /\ run' = [run EXCEPT ![r] = "failed"] /\ outcome' = outcome
        /\ phase' = [phase EXCEPT ![r] = "cleaning"] /\ mgr' = [mgr EXCEPT ![r] = "failed"]
        /\ UNCHANGED <<jobVars, signal, todo>>
    BY <1>6, <1>t DEF SandboxFails, updateTestRunStatus, SetRun, MoveWith, SetMgr
  <2>3. QED
    BY <1>t, <2>1, <2>2 DEF Final
<1>7. ASSUME NEW s \in {"completed", "timeout"}, TestsEnd(r, s)
      PROVE  StepEnds
  <2>1. Undisturbed(r)
    BY <1>7, <1>u DEF TestsEnd
  <2>2. /\ run' = [run EXCEPT ![r] = s] /\ outcome' = outcome
        /\ phase' = [phase EXCEPT ![r] = "cleaning"] /\ mgr' = [mgr EXCEPT ![r] = s]
        /\ UNCHANGED <<jobVars, signal, todo>>
    BY <1>7, <1>t DEF TestsEnd, updateTestRunStatus, SetRun, MoveTo, SetMgr
  <2>3. QED
    BY <1>t, <2>1, <2>2 DEF Final
<1>8. CASE ExecuteReturns(r)
  BY <1>t, <1>8 DEF ExecuteReturns, Unwind, MoveWith
<1>9. CASE SandboxRemoved(r)
  <2>1. /\ phase[r] = "cleaning" /\ phase' = [phase EXCEPT ![r] = "unwinding"]
        /\ UNCHANGED <<jobVars, mgrVars, signal, todo>> /\ todo = {}
    BY <1>9 DEF SandboxRemoved, Finished, At, InBlock, Unwind, MoveWith
  <2>2. mgr[r] \in {"failed", "completed", "timeout"}
    BY <2>1 DEF TypeInv, CleaningIsFinal
  <2>3. CASE FALSE \in Seen(r) /\ requeueTestRunForRetry(r)
    <3>1. Undisturbed(r)
      BY <2>1, <2>2, <2>3 DEF Seen, isCancelled, Aborted
    <3>2. \/ UNCHANGED runVars
          \/ run' = [run EXCEPT ![r] = "queued"] /\ outcome' = [outcome EXCEPT ![r] = "none"]
      BY <2>3 DEF requeueTestRunForRetry, SetRun
    <3>3. QED
      BY <1>t, <2>1, <3>1, <3>2
  <2>4. CASE \E o \in deriveOutcome(mgr[r], code[r]) : saveTestRunFinal(r, mgr[r], o)
    <3>1. PICK o \in deriveOutcome(mgr[r], code[r]) : saveTestRunFinal(r, mgr[r], o)
      BY <2>4
    <3>2. run' = [run EXCEPT ![r] = mgr[r]] /\ outcome' = [outcome EXCEPT ![r] = o]
      BY <3>1 DEF saveTestRunFinal, SetRun
    <3>3. QED
      BY <1>t, <1>r, <2>1, <2>2, <3>2 DEF Final
  <2>5. QED
    BY <1>9, <2>3, <2>4 DEF SandboxRemoved, Finished
<1>10. CASE StopRun(r)
  <2>1. Undisturbed(r)
    BY <1>10, <1>u DEF StopRun
  <2>2. QED
    BY <1>t, <1>10, <2>1 DEF StopRun, SetMgr
<1>11. CASE StopDone(r)
  BY <1>t, <1>r, <1>11 DEF StopDone, SetMgr, updateTestRunStatus, SetRun, Plan, Final
<1>12. QED
  BY <1>1, <1>2, <1>3, <1>4, <1>5, <1>6, <1>7, <1>8, <1>9, <1>10, <1>11 DEF Handle

LEMMA RunOfWorkerEnds ==
    ASSUME TypeInv, ExecInv, EndedInv, NEW r \in Runs,
           Run(r) \/ JobTimeout(r) \/ AbortStop(r) \/ Maintain(r)
    PROVE  StepEnds
<1> USE DEF workVars, execVars, mgrVars, envVars, runVars, quotaVars, jobVars,
            EndedInv, StepEnds, EndedStays, ResultsEnd, OpenIsCancelled, ExecutionIsFresh,
            StoppedHasNoResults, StaleHasNoResults, Undisturbed, Executes, Executed, isFinal
<1>t. RunTypeOK /\ JobTypeOK /\ WorkTypeOK
  BY DEF TypeInv
<1>r. \A t \in todo : t.run \in Runs
  BY <1>t DEF WorkTypeOK, Todo
<1> USE DEF RunTypeOK, JobTypeOK, WorkTypeOK
\* The run is closed if it is open, and no execution gets further.
<1>f. ASSUME UNCHANGED <<runVars, todo>> \/ (~isFinal(r) /\ finalizeCancelled(r)),
             UNCHANGED mgrVars,
             \A q \in Runs : job[q] = "cancelled" => job'[q] = "cancelled",
             \A q \in Runs : q # r => phase'[q] = phase[q] /\ signal'[q] = signal[q],
             \/ phase'[r] \in {"idle", "marking", "timedOut"}
             \/ phase'[r] = phase[r] /\ signal'[r] \in {"stop", "timeoutStop"}
      PROVE  StepEnds
  <2>1. CASE UNCHANGED <<runVars, todo>>
    BY <1>t, <1>f, <2>1
  <2>2. CASE ~isFinal(r) /\ finalizeCancelled(r)
    <3>1. /\ run' = [run EXCEPT ![r] = "destroyed"]
          /\ outcome' = [outcome EXCEPT ![r] = "CANCELLED"]
          /\ todo' = todo \cup {[run |-> r, op |-> "release"]}
      BY <2>2 DEF finalizeCancelled, finalizeTestRunWithoutResults, SetRun, Plan, Final
    <3>2. QED
      BY <1>t, <1>r, <1>f, <2>2, <3>1 DEF Final
  <2>3. QED
    BY <1>f, <2>1, <2>2
<1>j. ASSUME NEW from, NEW s, UpdateJob(r, from, s), from = {"running"} \/ from = {"running", "pending"}
      PROVE  \A q \in Runs : job[q] = "cancelled" => job'[q] = "cancelled"
  BY <1>t, <1>j, UpdateJobWrites
<1>1. CASE HandleReturned(r)
  <2>1. \A q \in Runs : job[q] = "cancelled" => job'[q] = "cancelled"
    BY <1>1, <1>j DEF HandleReturned, finishCancelled
  <2>2. /\ UNCHANGED <<runVars, todo>> \/ (~isFinal(r) /\ finalizeCancelled(r))
        /\ UNCHANGED mgrVars
        /\ phase'[r] \in {"idle", "marking"}
        /\ \A q \in Runs : q # r => phase'[q] = phase[q] /\ signal'[q] = signal[q]
    BY <1>1, <1>t DEF HandleReturned, finishCancelled, MoveTo, End
  <2>3. QED
    BY <1>f, <2>1, <2>2
<1>2. CASE HandleThrew(r)
  <2>1. \A q \in Runs : job[q] = "cancelled" => job'[q] = "cancelled"
    BY <1>2, <1>j DEF HandleThrew, finishCancelled
  <2>2. /\ UNCHANGED <<runVars, todo>> \/ (~isFinal(r) /\ finalizeCancelled(r))
        /\ UNCHANGED mgrVars
        /\ phase'[r] \in {"idle", "marking", "timedOut"}
        /\ \A q \in Runs : q # r => phase'[q] = phase[q] /\ signal'[q] = signal[q]
    BY <1>2, <1>t DEF HandleThrew, finishCancelled, MoveTo, End
  <2>3. QED
    BY <1>f, <2>1, <2>2
<1>3. CASE markCancelled(r)
  <2>1. \A q \in Runs : job[q] = "cancelled" => job'[q] = "cancelled"
    BY <1>3, <1>j DEF markCancelled
  <2>2. QED
    BY <1>3, <1>t, <1>f, <2>1 DEF markCancelled, End
<1>4. CASE FinishTimeout(r)
  BY <1>4, <1>t, <1>f DEF FinishTimeout, End
<1>5. CASE JobTimeout(r)
  BY <1>5, <1>t DEF JobTimeout
<1>6. CASE AbortStop(r)
  <2>1. CASE mgr[r] = "live" /\ SetMgr(r, "stopping") /\ UNCHANGED <<runVars, todo>>
    <3>1. Executes(r)
      BY <2>1 DEF ExecInv, ManagerFits
    <3>2. QED
      BY <1>6, <1>t, <2>1, <3>1 DEF AbortStop, SetMgr
  <2>2. CASE UNCHANGED <<runVars, mgrVars, todo>> \/ (~isFinal(r) /\ finalizeCancelled(r) /\ UNCHANGED mgrVars)
    BY <1>6, <1>t, <1>f, <2>2 DEF AbortStop
  <2>3. QED
    BY <1>6, <2>1, <2>2 DEF AbortStop
<1>7. CASE ExpireStaleJob(r)
  BY <1>7, <1>t DEF ExpireStaleJob, Queue!Become
<1>8. CASE CloseStaleRun(r)
  <2>1. outcome[r] \notin Executed
    BY <1>8 DEF CloseStaleRun, ActiveRun, Final
  <2>2. QED
    BY <1>8, <1>t, <2>1 DEF CloseStaleRun, Plan
<1>9. CASE releaseDanglingReservations(r)
  BY <1>9, <1>t DEF releaseDanglingReservations
<1>10. QED
  BY <1>1, <1>2, <1>3, <1>4, <1>5, <1>6, <1>7, <1>8, <1>9 DEF Run, Maintain

LEMMA BlockEnds ==
    ASSUME TypeInv, ExecInv, EndedInv, NEW t \in todo, Do(t)
    PROVE  StepEnds
<1> USE DEF workVars, execVars, mgrVars, envVars, runVars, quotaVars, jobVars,
            EndedInv, StepEnds, EndedStays, ResultsEnd, OpenIsCancelled, ExecutionIsFresh,
            StoppedHasNoResults, StaleHasNoResults, Undisturbed, Executes, Executed, isFinal
<1>t. RunTypeOK /\ JobTypeOK /\ WorkTypeOK
  BY DEF TypeInv
<1>r. \A u \in todo : u.run \in Runs
  BY <1>t DEF WorkTypeOK, Todo
<1>p. /\ t.op = "saveStopped" => mgr[t.run] = "destroyed"
      /\ t.op \in {"orphan", "stale"} => phase[t.run] = "idle"
  BY DEF ExecInv, PlansFit
<1> USE DEF RunTypeOK, JobTypeOK, WorkTypeOK
<1>1. CASE Recover(t)
  <2>1. job' = job \/ \E s : job[t.run] = "running" /\ job' = [job EXCEPT ![t.run] = s]
    BY <1>1, UpdateJobWrites DEF Recover
  <2>2. /\ UNCHANGED <<runVars, execVars, mgrVars>>
        /\ \A u \in todo' : u \in todo \/ u.op = "orphan"
    BY <1>1 DEF Recover
  <2>3. QED
    BY <1>t, <1>r, <2>1, <2>2
<1>2. CASE CloseRun(t)
  <2>1. /\ UNCHANGED <<jobVars, execVars, mgrVars>>
        /\ \A u \in todo' : u \in todo \/ u.op = "release"
    BY <1>2 DEF CloseRun, Left
  <2>2. CASE UNCHANGED runVars
    BY <1>t, <2>1, <2>2
  <2>3. CASE /\ run' = [run EXCEPT ![t.run] = "failed"]
             /\ outcome' = [outcome EXCEPT ![t.run] = "INFRASTRUCTURE_ERROR"]
             /\ t.op = "stale" \/ ~isFinal(t.run)
    <3>1. outcome[t.run] \notin Executed
      BY <1>r, <2>3
    <3>2. QED
      BY <1>2, <1>t, <1>r, <1>p, <2>1, <2>3, <3>1 DEF CloseRun, Final
  <2>4. QED
    BY <1>2, <2>2, <2>3 DEF CloseRun, finalizeTestRunWithoutResults, SetRun
<1>3. CASE SettleQuota(t)
  BY <1>3, <1>t DEF SettleQuota, Left
<1>4. CASE SaveStopped(t)
  <2>1. /\ UNCHANGED <<jobVars, execVars, mgrVars>> /\ todo' \subseteq todo
        /\ run' = [run EXCEPT ![t.run] = "destroyed"] /\ outcome' = [outcome EXCEPT ![t.run] = "CANCELLED"]
        /\ t.op = "saveStopped"
    BY <1>4 DEF SaveStopped, saveTestRunFinal, SetRun, Left
  <2>2. QED
    BY <1>t, <1>r, <1>p, <2>1 DEF Final
<1>5. QED
  BY <1>1, <1>2, <1>3, <1>4 DEF Do

LEMMA ProcessEnds ==
    ASSUME TypeInv, ExecInv, EndedInv, Start \/ Stop \/ GraceElapsed \/ Exit \/ Crash
    PROVE  StepEnds
<1> USE DEF TypeInv, WorkTypeOK, workVars, execVars, mgrVars, runVars, quotaVars, jobVars,
            EndedInv, StepEnds, EndedStays, ResultsEnd, OpenIsCancelled, ExecutionIsFresh,
            StoppedHasNoResults, StaleHasNoResults, Undisturbed, Executes, isFinal
<1>1. CASE Start
  BY <1>1 DEF Start
<1>2. CASE Stop
  BY <1>2 DEF Stop
<1>3. CASE GraceElapsed
  BY <1>3 DEF GraceElapsed
<1>4. CASE Exit
  BY <1>4 DEF Exit, Down
<1>5. CASE Crash
  BY <1>5 DEF Crash, Down
<1>6. QED
  BY <1>1, <1>2, <1>3, <1>4, <1>5

LEMMA EndedStep ==
    ASSUME TypeInv, ExecInv, EndedInv, [Next]_vars
    PROVE  StepEnds
<1>1. CASE UNCHANGED vars
  BY <1>1 DEF vars, runVars, jobVars, workVars, execVars, mgrVars, EndedInv, StepEnds, EndedStays,
     ResultsEnd, OpenIsCancelled, ExecutionIsFresh, StoppedHasNoResults, StaleHasNoResults,
     Undisturbed, Executes, isFinal
<1>2. CASE Next
  BY <1>2, WebEnds, HandleEnds, RunOfWorkerEnds, BlockEnds, ProcessEnds DEF Next
<1>3. QED
  BY <1>1, <1>2

\* A run that ended is not opened again, but for the execution whose job an
\* administrator cancelled under it, and results are never written over: by a second
\* delivery, a late stop, the recovery of orphans or the sweep of stale runs.
THEOREM EndedStay == Spec => EndedRunsStay
<1>1. Init => EndedInv
  BY DEF Init, EndedInv, ResultsEnd, OpenIsCancelled, ExecutionIsFresh, StoppedHasNoResults,
     StaleHasNoResults, Undisturbed, Executes, Executed
<1>2. TypeInv /\ ExecInv /\ EndedInv /\ [Next]_vars => EndedInv'
  BY EndedStep DEF StepEnds
<1>3. TypeInv /\ ExecInv /\ EndedInv /\ [Next]_vars => [\A r \in Runs : EndedStays(r)]_vars
  BY EndedStep DEF StepEnds
<1>4. [\A r \in Runs : EndedStays(r)]_vars
        <=> [\A r \in Runs :
               /\ isFinal(r) /\ outcome[r] # "none"
                     => run'[r] \in Final \/ (job[r] = "cancelled" /\ phase[r] # "idle")
               /\ outcome[r] \in Executed => run'[r] = run[r] /\ outcome'[r] = outcome[r]]_vars
  BY DEF EndedStays
<1>5. QED
  BY <1>1, <1>2, <1>3, <1>4, ExecInvariant, PTL DEF Spec, EndedRunsStay

-----------------------------------------------------------------------------
(***************************************************************************)
(* The saved tests: what a launch carries was read in one turn, and what   *)
(* it was bound to cannot change under it.                                 *)
(***************************************************************************)
Stored   == Definitions \cup {NoDef}
TestStatuses == {"absent", "DRAFT", "ACTIVE", "ARCHIVED"}
Kinds    == {"none", "test", "matrix", "suite", "over"}
Members  == [test : Saved, version : Nat, def : Stored]

SavedTypes ==
    /\ saved \in [Saved -> [status : TestStatuses, version : Nat, def : Stored]]
    /\ history \in [Saved -> [1 .. MaxVersion -> Stored]]
    /\ editing \in [Editors -> [test : Saved, version : Nat, def : Stored] \cup {NotLoaded}]
    /\ copying \in [Saved -> Stored]
    /\ launch \in [Launches -> [kind : Kinds, todo : Seq(Saved), got : Seq(Members),
                                asked : {Current} \cup (1 .. MaxVersion), source : {"interactive", "ci"}]]

\* A test that exists has a definition and a version within the bound.
Exists(t) ==
    IF saved[t].status = "absent" THEN saved[t].version = 0
    ELSE saved[t].version \in 1 .. MaxVersion /\ saved[t].def \in Definitions
TestsExist == \A t \in Saved : Exists(t)

\* The rows of the versions: none beyond the current one, whose row, if a
\* crash did not leave it out, holds the definition of the test.
Agree(t) ==
    \A v \in 1 .. MaxVersion :
        /\ v > saved[t].version => history[t][v] = NoDef
        /\ v = saved[t].version => history[t][v] \in {NoDef, saved[t].def}
VersionsAgree == \A t \in Saved : Agree(t)

\* What is edited exists: no test becomes absent again.
EditedExist ==
    \A e \in Editors : editing[e] # NotLoaded => saved[editing[e].test].status # "absent"

\* A member of a run is bound to a version that is not to come.
Settled(m) ==
    /\ m \in Members
    /\ m.version \in 1 .. saved[m.test].version
    /\ Bound(m)

LaunchesAreSettled ==
    \A l \in Launches :
        /\ \A i \in 1 .. Len(launch[l].got) : Settled(launch[l].got[i])
        /\ launch[l].asked \in {Current, 1} \/ launch[l].source = "ci"

RunsAreSettled ==
    \A r \in queuedRuns :
        r.members \in Seq(Members) /\ \A i \in 1 .. Len(r.members) : Settled(r.members[i])

SavedInv ==
    /\ SavedTypes /\ TestsExist /\ VersionsAgree /\ EditedExist
    /\ LaunchesAreSettled /\ RunsAreSettled

LEMMA SavedStart == SavedTestsInit => SavedInv
<1>1. SUFFICES ASSUME SavedTestsInit
               PROVE  SavedInv
  OBVIOUS
<1> USE <1>1 DEF SavedTestsInit
<1>2. NotLaunched \in [kind : Kinds, todo : Seq(Saved), got : Seq(Members),
                       asked : {Current} \cup (1 .. MaxVersion), source : {"interactive", "ci"}]
  BY DEF NotLaunched, Kinds
<1>3. SavedTypes
  BY <1>2 DEF SavedTypes, Stored, TestStatuses
<1>4. TestsExist /\ VersionsAgree /\ EditedExist
  BY SavedTestsAssumption DEF TestsExist, Exists, VersionsAgree, Agree, EditedExist
<1>5. LaunchesAreSettled /\ RunsAreSettled
  BY DEF LaunchesAreSettled, RunsAreSettled, NotLaunched, Current
<1>6. QED
  BY <1>3, <1>4, <1>5 DEF SavedInv

\* Versions only grow, and the row of one that was there stays as it is.
Grows ==
    \A t \in Saved :
        /\ saved'[t].version >= saved[t].version
        /\ \A v \in 1 .. saved[t].version : history'[t][v] = history[t][v]

LEMMA SettledStays ==
    ASSUME SavedTypes, SavedTypes', Grows, NEW m, Settled(m)
    PROVE  Settled(m)'
<1>1. /\ m.test \in Saved /\ m.version \in 1 .. saved[m.test].version
      /\ history[m.test][m.version] \in {NoDef, m.def} /\ m \in Members
  BY DEF Settled, Members, Bound
<1>2. /\ saved[m.test].version \in Nat /\ saved'[m.test].version \in Nat
      /\ saved'[m.test].version >= saved[m.test].version
      /\ history'[m.test][m.version] = history[m.test][m.version]
  BY <1>1 DEF SavedTypes, Grows
<1>3. m.version \in 1 .. saved'[m.test].version
  BY <1>1, <1>2
<1>4. QED
  BY <1>1, <1>2, <1>3 DEF Settled, Bound

\* What is settled stays so when the launches and the runs are left alone.
LEMMA SettledStay ==
    ASSUME SavedInv, SavedTypes', Grows, UNCHANGED <<launch, queuedRuns>>
    PROVE  (LaunchesAreSettled /\ RunsAreSettled)'
<1>1. \A m : Settled(m) => Settled(m)'
  BY SettledStays DEF SavedInv
<1>2. QED
  BY <1>1 DEF SavedInv, LaunchesAreSettled, RunsAreSettled

\* A row is written: a new version comes next, with or without its own row,
\* or nothing changes but the status.
LEMMA RowIsWritten ==
    ASSUME SavedInv, NEW t \in Saved, NEW s \in TestStatuses \ {"absent"},
           NEW v \in 1 .. MaxVersion, NEW d \in Definitions,
           saved' = [saved EXCEPT ![t] = [status |-> s, version |-> v, def |-> d]],
           \/ v = saved[t].version + 1 /\ InsertVersion(t, v, d)
           \/ v = saved[t].version /\ d = saved[t].def /\ history' = history
    PROVE  /\ saved' \in [Saved -> [status : TestStatuses, version : Nat, def : Stored]]
           /\ history' \in [Saved -> [1 .. MaxVersion -> Stored]]
           /\ TestsExist' /\ VersionsAgree' /\ Grows
           /\ \A u \in Saved : saved'[u].status = "absent" => saved[u].status = "absent"
<1> DEFINE row == [status |-> s, version |-> v, def |-> d]
<1>1. /\ row \in [status : TestStatuses, version : Nat, def : Stored]
      /\ row.status = s /\ row.version = v /\ row.def = d
  BY DEF Stored
<1> HIDE DEF row
<1>2. /\ saved'[t] = row
      /\ \A u \in Saved \ {t} : saved'[u] = saved[u]
      /\ saved' \in [Saved -> [status : TestStatuses, version : Nat, def : Stored]]
  BY <1>1 DEF SavedInv, SavedTypes, row
<1>3. /\ \A u \in Saved \ {t} : history'[u] = history[u]
      /\ \A w \in 1 .. MaxVersion : w # v => history'[t][w] = history[t][w]
      /\ history'[t][v] \in {history[t][v], d}
      /\ v = saved[t].version => history' = history /\ d = saved[t].def
      /\ history' \in [Saved -> [1 .. MaxVersion -> Stored]]
      /\ v \in {saved[t].version, saved[t].version + 1}
  <2>1. CASE history' = [history EXCEPT ![t][v] = d] /\ v = saved[t].version + 1
    <3>1. saved[t].version \in Nat /\ d \in Stored
      BY DEF SavedInv, SavedTypes, Stored
    <3>2. v # saved[t].version
      BY <2>1, <3>1
    <3>3. QED
      BY <2>1, <3>1, <3>2 DEF SavedInv, SavedTypes
  <2>2. CASE history' = history
    BY <2>2 DEF SavedInv, SavedTypes, InsertVersion
  <2>3. QED
    BY <2>1, <2>2 DEF InsertVersion
<1>4. saved[t].version \in Nat /\ MaxVersion \in Nat /\ Agree(t) /\ d # NoDef
  BY SavedTestsAssumption DEF SavedInv, SavedTypes, VersionsAgree
<1>5. Grows
  <2>1. ASSUME NEW u \in Saved
        PROVE  /\ saved'[u].version >= saved[u].version
               /\ \A w \in 1 .. saved[u].version : history'[u][w] = history[u][w]
    <3>1. CASE u = t
      <4>1. saved[t].version <= MaxVersion
        BY SavedTestsAssumption DEF SavedInv, TestsExist, Exists
      <4>2. QED
        BY <1>1, <1>2, <1>3, <1>4, <3>1, <4>1
    <3>2. CASE u # t
      BY <1>2, <1>3, <3>2 DEF SavedInv, SavedTypes
    <3>3. QED
      BY <3>1, <3>2
  <2>2. QED
    BY <2>1 DEF Grows
<1>6. VersionsAgree'
  <2>1. ASSUME NEW u \in Saved
        PROVE  Agree(u)'
    <3>1. CASE u = t
      BY <1>1, <1>2, <1>3, <1>4, <3>1 DEF Agree
    <3>2. CASE u # t
      BY <1>2, <1>3, <3>2 DEF SavedInv, VersionsAgree, Agree
    <3>3. QED
      BY <3>1, <3>2
  <2>2. QED
    BY <2>1 DEF VersionsAgree
<1>7. TestsExist' /\ \A u \in Saved : saved'[u].status = "absent" => saved[u].status = "absent"
  BY <1>1, <1>2 DEF SavedInv, TestsExist, Exists
<1>8. QED
  BY <1>2, <1>3, <1>5, <1>6, <1>7

LEMMA TestIsCreated ==
    ASSUME SavedInv, NEW t \in Saved, NEW d \in Definitions, createSavedTest(t, d),
           copying' \in [Saved -> Stored], UNCHANGED <<editing, launch, queuedRuns>>
    PROVE  SavedInv'
<1>1. saved[t].version = 0 /\ 1 \in 1 .. MaxVersion
  BY SavedTestsAssumption DEF SavedInv, TestsExist, Exists, createSavedTest
<1>2. saved' = [saved EXCEPT ![t] = [status |-> "DRAFT", version |-> 1, def |-> d]] /\ InsertVersion(t, 1, d)
  BY DEF createSavedTest
<1>3. "DRAFT" \in TestStatuses \ {"absent"} /\ 1 = saved[t].version + 1
  BY <1>1 DEF TestStatuses
<1>4. /\ saved' \in [Saved -> [status : TestStatuses, version : Nat, def : Stored]]
      /\ history' \in [Saved -> [1 .. MaxVersion -> Stored]]
      /\ TestsExist' /\ VersionsAgree' /\ Grows
      /\ \A u \in Saved : saved'[u].status = "absent" => saved[u].status = "absent"
  BY <1>1, <1>2, <1>3, RowIsWritten
<1>5. SavedTypes'
  BY <1>4 DEF SavedInv, SavedTypes
<1>6. EditedExist'
  <2>1. \A e \in Editors : editing[e] # NotLoaded => editing[e].test \in Saved
    BY DEF SavedInv, SavedTypes
  <2>2. QED
    BY <1>4, <2>1 DEF SavedInv, EditedExist
<1>7. (LaunchesAreSettled /\ RunsAreSettled)'
  BY <1>4, <1>5, SettledStay
<1>8. QED
  BY <1>4, <1>5, <1>6, <1>7 DEF SavedInv

LEMMA TestIsUpdated ==
    ASSUME SavedInv, NEW e \in Editors, NEW s \in {"DRAFT", "ACTIVE", "ARCHIVED"},
           NEW d \in Definitions, updateStudioTest(e, s, d)
    PROVE  SavedInv'
<1> DEFINE t == editing[e].test
           v == IF d # saved[t].def THEN saved[t].version + 1 ELSE saved[t].version
<1>1. t \in Saved /\ saved[t].status # "absent" /\ editing[e] # NotLoaded
  BY DEF SavedInv, SavedTypes, EditedExist, updateStudioTest
<1>2. /\ v <= MaxVersion
      /\ saved' = [saved EXCEPT ![t] = [status |-> s, version |-> v, def |-> d]]
      /\ IF d # saved[t].def THEN InsertVersion(t, v, d) ELSE history' = history
      /\ editing' = [editing EXCEPT ![e] = NotLoaded]
      /\ UNCHANGED <<copying, launch, queuedRuns>>
  BY DEF updateStudioTest, updateSavedTest
<1>3. /\ saved[t].version \in 1 .. MaxVersion /\ MaxVersion \in Nat /\ v \in 1 .. MaxVersion
      /\ \/ v = saved[t].version + 1 /\ InsertVersion(t, v, d)
         \/ v = saved[t].version /\ d = saved[t].def /\ history' = history
  BY <1>1, <1>2, SavedTestsAssumption DEF SavedInv, TestsExist, Exists
<1>4. s \in TestStatuses \ {"absent"}
  BY DEF TestStatuses
<1> HIDE DEF v, t
<1>5. /\ saved' \in [Saved -> [status : TestStatuses, version : Nat, def : Stored]]
      /\ history' \in [Saved -> [1 .. MaxVersion -> Stored]]
      /\ TestsExist' /\ VersionsAgree' /\ Grows
      /\ \A u \in Saved : saved'[u].status = "absent" => saved[u].status = "absent"
  BY <1>1, <1>2, <1>3, <1>4, RowIsWritten
<1>6. /\ editing' \in [Editors -> [test : Saved, version : Nat, def : Stored] \cup {NotLoaded}]
      /\ \A x \in Editors : editing'[x] # NotLoaded => editing'[x] = editing[x] /\ editing[x].test \in Saved
  BY <1>2 DEF SavedInv, SavedTypes
<1>7. SavedTypes'
  BY <1>2, <1>5, <1>6 DEF SavedInv, SavedTypes
<1>8. EditedExist'
  BY <1>5, <1>6 DEF SavedInv, EditedExist
<1>9. (LaunchesAreSettled /\ RunsAreSettled)'
  BY <1>2, <1>5, <1>7, SettledStay
<1>10. QED
  BY <1>5, <1>7, <1>8, <1>9 DEF SavedInv

\* What a launch prepares is settled: the current version, or one before it.
LEMMA PreparedIsSettled ==
    ASSUME SavedInv, NEW t \in Saved, NEW asked \in {Current} \cup (1 .. MaxVersion),
           NEW source \in {"interactive", "ci"}, MayRun(t, source, asked),
           asked \in {Current, 1} \/ source = "ci"
    PROVE  Settled(Prepared(t, asked))
<1> DEFINE v == IF asked = Current THEN saved[t].version ELSE asked
           d == IF v = saved[t].version THEN NoDef ELSE history[t][v]
           m == [test |-> t, version |-> v, def |-> IF d = NoDef THEN saved[t].def ELSE d]
<1>1. m = Prepared(t, asked)
  BY DEF Prepared
<1>2. /\ saved[t].version \in 1 .. MaxVersion /\ saved[t].def \in Definitions
      /\ MaxVersion \in Nat
  BY SavedTestsAssumption DEF MayRun, SavedInv, TestsExist, Exists
<1>3. v \in 1 .. saved[t].version
  BY <1>2 DEF MayRun, Current
<1>4. history[t][v] \in Stored
  BY <1>2, <1>3 DEF SavedInv, SavedTypes
<1>5. v = saved[t].version => history[t][v] \in {NoDef, saved[t].def}
  BY <1>2, <1>3 DEF SavedInv, VersionsAgree, Agree
<1> HIDE DEF v
<1>6. /\ m.test = t /\ m.version = v
      /\ m.def = IF d = NoDef THEN saved[t].def ELSE d
      /\ m.def \in Stored
  BY <1>2, <1>4 DEF Stored
<1>7. m \in Members
  BY <1>2, <1>3, <1>6 DEF Members
<1>8. history[t][v] \in {NoDef, m.def}
  BY <1>5, <1>6
<1> HIDE DEF m
<1>9. Settled(m)
  BY <1>3, <1>6, <1>7, <1>8 DEF Settled, Bound
<1>10. QED
  BY <1>1, <1>9

LaunchRecords ==
    [kind : Kinds, todo : Seq(Saved), got : Seq(Members),
     asked : {Current} \cup (1 .. MaxVersion), source : {"interactive", "ci"}]

\* A launch that carries what is settled, and that names no version to come.
Sound(L) ==
    /\ L \in LaunchRecords
    /\ \A i \in 1 .. Len(L.got) : Settled(L.got[i])
    /\ L.asked \in {Current, 1} \/ L.source = "ci"

LEMMA LaunchMoves ==
    ASSUME SavedInv, NEW l \in Launches, NEW L, Sound(L), launch' = [launch EXCEPT ![l] = L],
           \/ queuedRuns' = queuedRuns
           \/ QueueRun(l, launch[l].got),
           UNCHANGED <<saved, history, editing, copying>>
    PROVE  SavedInv'
<1>1. \A m : Settled(m)' <=> Settled(m)
  BY DEF Settled, Bound
<1>2. SavedTypes'
  BY DEF SavedInv, SavedTypes, Sound, LaunchRecords
<1>3. TestsExist' /\ VersionsAgree' /\ EditedExist'
  BY DEF SavedInv, TestsExist, Exists, VersionsAgree, Agree, EditedExist
<1>4. LaunchesAreSettled'
  <2>1. launch'[l] = L /\ \A k \in Launches \ {l} : launch'[k] = launch[k]
    BY DEF SavedInv, SavedTypes
  <2>2. QED
    BY <1>1, <2>1 DEF SavedInv, LaunchesAreSettled, Sound
<1>5. RunsAreSettled'
  <2>1. launch[l].got \in Seq(Members) /\ \A i \in 1 .. Len(launch[l].got) : Settled(launch[l].got[i])
    BY DEF SavedInv, SavedTypes, LaunchesAreSettled
  <2>2. CASE queuedRuns' = queuedRuns
    BY <1>1, <2>2 DEF SavedInv, RunsAreSettled
  <2>3. CASE QueueRun(l, launch[l].got)
    <3> DEFINE new == [launch |-> l, members |-> launch[l].got]
    <3>1. new.members = launch[l].got
      OBVIOUS
    <3> HIDE DEF new
    <3>2. queuedRuns' = queuedRuns \cup {new}
      BY <2>3 DEF QueueRun, new
    <3>3. QED
      BY <1>1, <2>1, <3>1, <3>2 DEF SavedInv, RunsAreSettled
  <2>4. QED
    BY <2>2, <2>3
<1>6. QED
  BY <1>2, <1>3, <1>4, <1>5 DEF SavedInv

LEMMA LaunchOverIsSound == Sound(LaunchOver)
<1>1. LaunchOver = [kind |-> "over", todo |-> <<>>, got |-> <<>>, asked |-> Current, source |-> "ci"]
  BY DEF LaunchOver, NotLaunched
<1>2. QED
  BY <1>1 DEF Sound, LaunchRecords, Kinds, Current

\* The next test of a launch: prepared now, or the launch is over.
LEMMA NextIsPrepared ==
    ASSUME SavedInv, NEW l \in Launches, launch[l].todo # <<>>,
           NEW got \in Seq(Members), \A i \in 1 .. Len(got) : Settled(got[i]),
           prepareStudioTestRun(l, launch[l].todo, got)
    PROVE  \E L : Sound(L) /\ launch' = [launch EXCEPT ![l] = L]
<1> DEFINE t == Head(launch[l].todo)
           p == Prepared(t, launch[l].asked)
           L == [[launch[l] EXCEPT !.todo = Tail(launch[l].todo)] EXCEPT !.got = Append(got, p)]
<1>1. /\ launch[l] \in LaunchRecords /\ t \in Saved /\ Tail(launch[l].todo) \in Seq(Saved)
      /\ launch[l].asked \in {Current, 1} \/ launch[l].source = "ci"
  BY HeadTailProperties DEF SavedInv, SavedTypes, LaunchRecords, LaunchesAreSettled
<1>2. CASE MayRun(t, launch[l].source, launch[l].asked)
  <2>1. launch' = [launch EXCEPT ![l] = L]
    BY <1>2 DEF prepareStudioTestRun
  <2>2. Settled(p)
    BY <1>1, <1>2, PreparedIsSettled DEF LaunchRecords
  <2>3. p \in Members
    BY <2>2 DEF Settled
  <2> HIDE DEF p, t
  <2>4. /\ Append(got, p) \in Seq(Members) /\ Len(Append(got, p)) = Len(got) + 1
        /\ \A i \in 1 .. Len(got) : Append(got, p)[i] = got[i]
        /\ Append(got, p)[Len(got) + 1] = p /\ Len(got) \in Nat
    BY <2>3, AppendProperties
  <2>5. \A i \in 1 .. Len(Append(got, p)) : Settled(Append(got, p)[i])
    BY <2>2, <2>4
  <2>6. /\ L \in LaunchRecords /\ L.got = Append(got, p)
        /\ L.asked = launch[l].asked /\ L.source = launch[l].source
    BY <1>1, <2>4 DEF LaunchRecords
  <2>7. Sound(L)
    BY <1>1, <2>5, <2>6 DEF Sound
  <2>8. QED
    BY <2>1, <2>7
<1>3. CASE ~MayRun(t, launch[l].source, launch[l].asked)
  <2>1. launch' = [launch EXCEPT ![l] = LaunchOver]
    BY <1>3 DEF prepareStudioTestRun
  <2>2. QED
    BY <2>1, LaunchOverIsSound
<1>4. QED
  BY <1>2, <1>3

\* A launch begins with its first test.
LEMMA LaunchBegins ==
    ASSUME SavedInv, NEW l \in Launches, NEW kind \in {"test", "matrix", "suite"},
           NEW tests \in Seq(Saved), tests # <<>>,
           NEW asked \in {Current} \cup (1 .. MaxVersion), NEW source \in {"interactive", "ci"},
           asked \in {Current, 1} \/ source = "ci",
           Launch(l, kind, tests, asked, source)
    PROVE  SavedInv'
<1> DEFINE p == Prepared(Head(tests), asked)
           L == [kind |-> kind, todo |-> Tail(tests), got |-> <<p>>, asked |-> asked, source |-> source]
<1>1. Head(tests) \in Saved /\ Tail(tests) \in Seq(Saved) /\ MayRun(Head(tests), source, asked)
  BY HeadTailProperties DEF Launch
<1>2. Settled(p)
  BY <1>1, PreparedIsSettled
<1>3. p \in Members /\ launch' = [launch EXCEPT ![l] = L]
  BY <1>2 DEF Settled, Launch
<1> HIDE DEF p
<1>4. L \in LaunchRecords /\ L.got = <<p>> /\ L.asked = asked /\ L.source = source
  BY <1>1, <1>3 DEF LaunchRecords, Kinds
<1>5. \A i \in 1 .. Len(L.got) : Settled(L.got[i])
  BY <1>2, <1>4
<1>6. Sound(L)
  BY <1>4, <1>5 DEF Sound
<1> HIDE DEF L
<1>7. QED
  BY <1>3, <1>6, LaunchMoves DEF Launch

LEMMA PackageMovesOn ==
    ASSUME SavedInv, NEW l \in Launches, PackageRead(l)
    PROVE  SavedInv'
<1> USE DEF PackageRead
<1>1. /\ launch[l].got \in Seq(Members) /\ launch[l].todo \in Seq(Saved)
      /\ \A i \in 1 .. Len(launch[l].got) : Settled(launch[l].got[i])
  BY DEF SavedInv, SavedTypes, LaunchesAreSettled
<1>2. /\ <<>> \in Seq(Members)
      /\ \A i \in 1 .. Len(<<>>) : Settled(<<>>[i])
  OBVIOUS
<1>3. CASE QueueRun(l, launch[l].got) /\ launch[l].todo = <<>> /\ launch' = [launch EXCEPT ![l] = LaunchOver]
  BY <1>3, LaunchOverIsSound, LaunchMoves
<1>4. CASE QueueRun(l, launch[l].got) /\ launch[l].todo # <<>> /\ prepareStudioTestRun(l, launch[l].todo, <<>>)
  <2>1. PICK L : Sound(L) /\ launch' = [launch EXCEPT ![l] = L]
    BY <1>2, <1>4, NextIsPrepared
  <2>2. QED
    BY <1>4, <2>1, LaunchMoves
<1>5. CASE /\ launch[l].todo # <<>> /\ prepareStudioTestRun(l, launch[l].todo, launch[l].got)
           /\ queuedRuns' = queuedRuns
  <2>1. PICK L : Sound(L) /\ launch' = [launch EXCEPT ![l] = L]
    BY <1>1, <1>5, NextIsPrepared
  <2>2. QED
    BY <1>5, <2>1, LaunchMoves
<1>6. QED
  BY <1>3, <1>4, <1>5

\* A step that writes no row leaves what is settled settled.
LEMMA StoredTestsStay ==
    ASSUME SavedInv, UNCHANGED <<saved, history, launch, queuedRuns>>
    PROVE  (TestsExist /\ VersionsAgree /\ LaunchesAreSettled /\ RunsAreSettled)'
<1>1. \A m : Settled(m)' <=> Settled(m)
  BY DEF Settled, Bound
<1>2. QED
  BY <1>1 DEF SavedInv, TestsExist, Exists, VersionsAgree, Agree, LaunchesAreSettled, RunsAreSettled

LEMMA SavedStep ==
    ASSUME SavedInv, Asked \subseteq {1}, [SavedTestsNext]_stVars
    PROVE  SavedInv'
<1>1. CASE UNCHANGED stVars
  <2>1. SavedTypes' /\ EditedExist'
    BY <1>1 DEF SavedInv, SavedTypes, EditedExist, stVars
  <2>2. QED
    BY <1>1, <2>1, StoredTestsStay DEF SavedInv, stVars

<1>2. ASSUME NEW d \in Definitions, createStudioTest(d)
      PROVE  SavedInv'
  <2>1. 1 \in Saved /\ copying' \in [Saved -> Stored]
    BY <1>2, SavedTestsAssumption DEF createStudioTest, SavedInv, SavedTypes
  <2>2. QED
    BY <1>2, <2>1, TestIsCreated DEF createStudioTest
<1>3. ASSUME NEW t \in Saved, duplicateStudioTest(t)
      PROVE  SavedInv'
  <2>1. copying[t] \in Definitions /\ copying' \in [Saved -> Stored]
    BY <1>3 DEF duplicateStudioTest, SavedInv, SavedTypes, Stored
  <2>2. QED
    BY <1>3, <2>1, TestIsCreated DEF duplicateStudioTest
<1>4. ASSUME NEW t \in Saved, NEW s \in Saved, duplicateReads(s, t)
      PROVE  SavedInv'
  <2>1. SavedTypes' /\ EditedExist'
    BY <1>4 DEF SavedInv, SavedTypes, EditedExist, duplicateReads
  <2>2. QED
    BY <1>4, <2>1, StoredTestsStay DEF SavedInv, duplicateReads
<1>5. ASSUME NEW e \in Editors, EditorReloads(e)
      PROVE  SavedInv'
  <2>1. SavedTypes' /\ EditedExist'
    BY <1>5 DEF SavedInv, SavedTypes, EditedExist, EditorReloads
  <2>2. QED
    BY <1>5, <2>1, StoredTestsStay DEF SavedInv, EditorReloads
<1>6. ASSUME NEW e \in Editors, NEW t \in Saved, describeStudioTest(e, t)
      PROVE  SavedInv'
  <2> DEFINE new == [test |-> t, version |-> saved[t].version, def |-> saved[t].def]
  <2>1. new \in [test : Saved, version : Nat, def : Stored] /\ new.test = t
    BY DEF SavedInv, SavedTypes
  <2>2. editing' = [editing EXCEPT ![e] = new] /\ saved[t].status # "absent"
    BY <1>6 DEF describeStudioTest
  <2> HIDE DEF new
  <2>3. SavedTypes' /\ EditedExist'
    BY <1>6, <2>1, <2>2 DEF SavedInv, SavedTypes, EditedExist, describeStudioTest
  <2>4. QED
    BY <1>6, <2>3, StoredTestsStay DEF SavedInv, describeStudioTest
<1>7. ASSUME NEW e \in Editors, NEW s \in {"DRAFT", "ACTIVE", "ARCHIVED"}, NEW d \in Definitions,
             updateStudioTest(e, s, d)
      PROVE  SavedInv'
  BY <1>7, TestIsUpdated
<1>8. ASSUME NEW l \in Launches, runStudioSuite(l)
      PROVE  SavedInv'
  BY <1>8, SavedTestsAssumption, LaunchBegins DEF runStudioSuite
<1>9. ASSUME NEW l \in Launches, NEW t \in Saved, runStudioTest(l, t)
      PROVE  SavedInv'
  <2>1. PICK s \in {"interactive", "ci"}, a \in {Current} \cup (1 .. MaxVersion) :
           /\ a \in {Current, 1} \/ s = "ci"
           /\ Launch(l, "test", <<t>>, a, s)
    BY <1>9, SavedTestsAssumption DEF runStudioTest
  <2>2. <<t>> \in Seq(Saved) /\ <<t>> # <<>>
    OBVIOUS
  <2>3. QED
    BY <2>1, <2>2, LaunchBegins
<1>10. ASSUME NEW l \in Launches, NEW t \in Saved, runStudioTestMatrix(l, t)
       PROVE  SavedInv'
  <2>1. PICK a \in {Current} \cup (1 .. MaxVersion) :
           /\ a \in {Current, 1}
           /\ Launch(l, "matrix", <<t, t>>, a, "interactive")
    BY <1>10, SavedTestsAssumption DEF runStudioTestMatrix
  <2>2. <<t, t>> \in Seq(Saved) /\ <<t, t>> # <<>>
    OBVIOUS
  <2>3. QED
    BY <2>1, <2>2, LaunchBegins
<1>11. ASSUME NEW l \in Launches, PackageRead(l)
       PROVE  SavedInv'
  BY <1>11, PackageMovesOn
<1>12. ASSUME NEW l \in Launches, LaunchFails(l)
       PROVE  SavedInv'
  BY <1>12, LaunchOverIsSound, LaunchMoves DEF LaunchFails
<1>13. QED
  BY <1>1, <1>2, <1>3, <1>4, <1>5, <1>6, <1>7, <1>8, <1>9, <1>10, <1>11, <1>12 DEF SavedTestsNext

\* What a run executes is the definition of the version it names, for every
\* suite and every interleaving of edits, copies and launches.  The requests of
\* the dashboard name the current version or the first: of a version that is
\* still to come the fallback to the row's definition would not be it.
THEOREM VersionsAreBound ==
    ASSUME Asked \subseteq {1}
    PROVE  SavedTestsSpec => []RunsBindVersion
<1>1. SavedInv /\ [SavedTestsNext]_stVars => SavedInv'
  BY SavedStep
<1>2. SavedInv => RunsBindVersion
  BY DEF SavedInv, RunsAreSettled, RunsBindVersion, Settled
<1>3. QED
  BY SavedStart, <1>1, <1>2, PTL DEF SavedTestsSpec

-----------------------------------------------------------------------------
(***************************************************************************)
(* The tests of a run.  The last look that was answered is among those the *)
(* test has made, under the name of the element it looked at; an assertion *)
(* fails only if the browser supports it, and a test only if one of its    *)
(* assertions has failed.                                                  *)
(***************************************************************************)
KnownTests == getBuiltInTestCases \cup SavedTest \cup {NoTest}
StepLists ==
    {<<>>, <<Act("wait", "none")>>, <<Act("open_popup", "none")>>,
     <<Act("open_url", "none"), Act("wait", "none")>>,
     <<Act("open_url", "none"), Act("wait", "none"), Act("inspect_element", "#status")>>,
     <<Act("inspect_element", "a"), Act("inspect_element", "b")>>,
     <<Act("inspect_element", "a"), Act("click", "a"), Act("inspect_element", "a")>>}
TestIsKnown == test \in KnownTests
LookIsFound ==
    context.look.exists =>
        context.sel # "none" /\ [sel |-> context.sel, visible |-> context.look.visible] \in found
FailuresAreSupported == \A a \in DOMAIN verdicts : verdicts[a] = "failed" => isAssertionSupported(a)
AllAreJudged == stage = "cleanup" => DOMAIN verdicts = test.asserts
OnlyConcluded == stage \in {"launch", "step", "cleanup"} => result # "failed"
VerdictInv ==
    /\ TestIsKnown /\ LookIsFound /\ FailuresAreSupported /\ AllAreJudged /\ OnlyConcluded
    /\ at \in Nat \ {0}
    /\ stage \in {"launch", "ready", "step", "cleanup", "over"}
    /\ VerdictsAreEarned

\* A step of a test that looks at an element names it.
LEMMA StepsOfTests == ASSUME NEW t \in KnownTests PROVE t.steps \in StepLists
<1>1. CASE t \in SavedTest
  <2> DEFINE two == TestCase("two", <<Act("inspect_element", "a"), Act("inspect_element", "b")>>,
              {Act("element_exists", "a"), Act("element_visible", "b"), Act("text_contains", "a")}, "custom")
  <2>1. t.steps = two.steps \/ t.steps = <<Act("inspect_element", "a"), Act("click", "a"), Act("inspect_element", "a")>>
    BY <1>1 DEF SavedTest, TestCase
  <2>2. two.steps = <<Act("inspect_element", "a"), Act("inspect_element", "b")>>
    BY DEF TestCase
  <2>3. QED
    BY <2>1, <2>2 DEF StepLists
<1>2. CASE t \in getBuiltInTestCases
  <2>1. \A id, steps, asserts, category : TestCase(id, steps, asserts, category).steps = steps
    BY DEF TestCase
  <2>2. \/ t.steps = <<Act("open_url", "none"), Act("wait", "none")>>
        \/ t.steps = <<Act("open_url", "none"), Act("wait", "none"), Act("inspect_element", "#status")>>
        \/ t.steps = <<Act("wait", "none")>>
        \/ t.steps = <<Act("open_popup", "none")>>
        \/ t.steps = <<>>
    <3>1. \E id, asserts, category :
              \/ t = TestCase(id, <<Act("open_url", "none"), Act("wait", "none")>>, asserts, category)
              \/ t = TestCase(id, <<Act("open_url", "none"), Act("wait", "none"), Act("inspect_element", "#status")>>, asserts, category)
              \/ t = TestCase(id, <<Act("wait", "none")>>, asserts, category)
              \/ t = TestCase(id, <<Act("open_popup", "none")>>, asserts, category)
              \/ t = TestCase(id, <<>>, asserts, category)
      BY <1>2, Zenon DEF getBuiltInTestCases
    <3>2. QED
      BY <3>1, <2>1
  <2>3. QED
    BY <2>2 DEF StepLists
<1>3. CASE t = NoTest
  BY <1>3 DEF NoTest, StepLists
<1>4. QED
  BY <1>1, <1>2, <1>3 DEF KnownTests

LEMMA LooksAreNamed ==
    ASSUME NEW q \in StepLists
    PROVE  /\ Len(q) \in Nat
           /\ \A i \in 1 .. Len(q) : q[i].type = "inspect_element" => q[i].sel # "none"
BY DEF StepLists, Act

LEMMA SameSupport == browserId' = browserId => \A a : isAssertionSupported(a)' <=> isAssertionSupported(a)
BY DEF isAssertionSupported, capabilitiesForBrowser, ASSERTION_REQUIRED_CAPABILITIES

LEMMA VerdictInit == ExecutionInit => VerdictInv
<1> SUFFICES ASSUME ExecutionInit PROVE VerdictInv
  OBVIOUS
<1>1. DOMAIN verdicts = {}
  BY DEF ExecutionInit
<1>2. QED
  BY <1>1 DEF ExecutionInit, VerdictInv, KnownTests, TestIsKnown, LookIsFound, FailuresAreSupported, AllAreJudged,
     OnlyConcluded, VerdictsAreEarned, ElementsAreSeen, FailuresAreBlamed, NoLook, Nothing

judged == <<browserId, test, verdicts>>
looked == <<context, found>>

\* Steps beside the test, and steps to a stage that is judged no more.
LEMMA VerdictFrame ==
    ASSUME VerdictInv, UNCHANGED <<judged, looked, at, result>>, stage' \in {stage, "over"}
    PROVE  VerdictInv'
BY SameSupport DEF VerdictInv, judged, looked, TestIsKnown, LookIsFound, FailuresAreSupported, AllAreJudged,
   OnlyConcluded, VerdictsAreEarned, ElementsAreSeen, FailuresAreBlamed

\* What a look leaves behind.
LEMMA ActionAnswers == VerdictInv /\ actionAnswers => VerdictInv'
<1> SUFFICES ASSUME VerdictInv, actionAnswers PROVE VerdictInv'
  OBVIOUS
<1> DEFINE a == test.steps[at]
<1>1. /\ stage = "step" /\ at \in 1 .. Len(test.steps) /\ UNCHANGED <<judged, stage>>
      /\ at' \in {at + 1, Len(test.steps) + 1} /\ result' \in {result, "skipped"}
  <2>1. at <= Len(test.steps) /\ at \in Nat \ {0}
    BY DEF actionAnswers, VerdictInv
  <2>2. Len(test.steps) \in Nat
    BY StepsOfTests, LooksAreNamed DEF VerdictInv, TestIsKnown
  <2>3. QED
    BY <2>1, <2>2 DEF actionAnswers, judged
<1>2. at' \in Nat \ {0}
  BY <1>1
<1>3. /\ context' = context /\ found' = found
      \/ /\ a.type = "inspect_element"
         /\ \E l \in Looks : /\ context' = [sel |-> a.sel, look |-> l]
                             /\ found' = IF l.exists THEN found \cup {[sel |-> a.sel, visible |-> l.visible]} ELSE found
  BY DEF actionAnswers, handleTestAction, Looks
<1>4. LookIsFound' /\ found \subseteq found'
  <2>1. CASE context' = context /\ found' = found
    BY <2>1 DEF VerdictInv, LookIsFound
  <2>2. ASSUME NEW l \in Looks, a.type = "inspect_element", context' = [sel |-> a.sel, look |-> l],
               found' = IF l.exists THEN found \cup {[sel |-> a.sel, visible |-> l.visible]} ELSE found
        PROVE  LookIsFound' /\ found \subseteq found'
    <3>1. a.sel # "none"
      BY <1>1, <2>2, StepsOfTests, LooksAreNamed DEF VerdictInv, TestIsKnown
    <3>2. context'.sel = a.sel /\ context'.look = l
      BY <2>2
    <3>3. QED
      BY <2>2, <3>1, <3>2 DEF LookIsFound
  <2>3. QED
    BY <1>3, <2>1, <2>2
<1>5. ElementsAreSeen'
  BY <1>1, <1>4 DEF judged, VerdictInv, VerdictsAreEarned, ElementsAreSeen
<1>6. TestIsKnown' /\ FailuresAreSupported' /\ AllAreJudged' /\ OnlyConcluded' /\ FailuresAreBlamed'
  BY <1>1, SameSupport DEF judged, VerdictInv, TestIsKnown, FailuresAreSupported, AllAreJudged, OnlyConcluded,
     FailuresAreBlamed
<1>7. QED
  BY <1>1, <1>2, <1>4, <1>5, <1>6 DEF VerdictInv, VerdictsAreEarned

\* An assertion passes on the look of its own element.
LEMMA AssertionsDecide == VerdictInv /\ assertionsDecide => VerdictInv'
<1> SUFFICES ASSUME VerdictInv, assertionsDecide PROVE VerdictInv'
  OBVIOUS
<1>1. /\ stage = "step" /\ UNCHANGED <<browserId, test, looked, result>>
      /\ \A a : isAssertionSupported(a)' <=> isAssertionSupported(a)
  BY SameSupport DEF assertionsDecide, looked
<1>2. TestIsKnown' /\ LookIsFound' /\ OnlyConcluded' /\ stage' \in {"ready", "cleanup"} /\ at' \in Nat \ {0} /\ result # "failed"
  BY <1>1 DEF assertionsDecide, looked, VerdictInv, TestIsKnown, LookIsFound, OnlyConcluded
<1>3. CASE result = "running"
  <2>1. /\ verdicts' = [a \in test.asserts |->
                          IF ~ isAssertionSupported(a) THEN "skipped"
                          ELSE IF evaluateAssertion(a) THEN "passed" ELSE "failed"]
        /\ stage' = "cleanup"
    BY <1>3 DEF assertionsDecide
  <2>2. DOMAIN verdicts' = test.asserts
    BY <2>1
  <2>3. ASSUME NEW a \in test.asserts
        PROVE  /\ verdicts'[a] = "failed" => isAssertionSupported(a)
               /\ verdicts'[a] = "passed" => evaluateAssertion(a)
    BY <2>1
  <2>4. ASSUME NEW a, a.type \in {"element_exists", "element_visible"}, evaluateAssertion(a)
        PROVE  /\ \E f \in found : f.sel = a.sel
               /\ a.type = "element_visible" => [sel |-> a.sel, visible |-> TRUE] \in found
    <3>1. requireElement(a)
      BY <2>4 DEF evaluateAssertion
    <3>2. context.sel = a.sel /\ [sel |-> context.sel, visible |-> context.look.visible] \in found
      BY <3>1 DEF requireElement, VerdictInv, LookIsFound
    <3>3. context.look.visible \in BOOLEAN => (a.type = "element_visible" => context.look.visible = TRUE)
      BY <3>1 DEF requireElement
    <3>4. QED
      BY <3>1, <3>2, <3>3 DEF requireElement
  <2>5. ElementsAreSeen'
    BY <2>2, <2>3, <2>4, <1>1 DEF ElementsAreSeen, looked
  <2>6. QED
    BY <1>1, <1>2, <2>1, <2>2, <2>3, <2>5
       DEF VerdictInv, FailuresAreSupported, AllAreJudged, VerdictsAreEarned, FailuresAreBlamed
<1>4. CASE result # "running"
  <2>1. UNCHANGED verdicts /\ stage' = "ready"
    BY <1>4 DEF assertionsDecide
  <2>2. QED
    BY <1>1, <1>2, <2>1 DEF VerdictInv, FailuresAreSupported, AllAreJudged, VerdictsAreEarned, ElementsAreSeen,
       FailuresAreBlamed, looked
<1>5. QED
  BY <1>3, <1>4

LEMMA Concludes == VerdictInv /\ concludes => VerdictInv'
<1> SUFFICES ASSUME VerdictInv, concludes PROVE VerdictInv'
  OBVIOUS
<1>1. /\ stage = "cleanup" /\ stage' = "ready" /\ result' = verdict /\ UNCHANGED <<judged, looked, at>>
      /\ \A a : isAssertionSupported(a)' <=> isAssertionSupported(a)
  BY SameSupport DEF concludes, judged, looked
<1>2. verdict = "failed" => \E a \in test.asserts : verdicts[a] = "failed"
  BY DEF verdict, Failed
<1>3. FailuresAreBlamed'
  BY <1>1, <1>2 DEF judged, VerdictInv, AllAreJudged, FailuresAreSupported, FailuresAreBlamed
<1>4. QED
  BY <1>1, <1>3 DEF judged, looked, VerdictInv, TestIsKnown, LookIsFound, FailuresAreSupported, AllAreJudged,
     OnlyConcluded, VerdictsAreEarned, ElementsAreSeen

\* A test begins without looks and verdicts, or is skipped.
LEMMA TestBegins ==
    ASSUME VerdictInv, NEW t \in Cases, executeTest(t) \/ skippedResult(t)
    PROVE  VerdictInv'
<1>1. /\ verdicts' = <<>> /\ test' = t /\ t \in KnownTests /\ result' # "failed" /\ stage' \in {"step", "ready"}
      /\ at' \in Nat \ {0}
      /\ \/ context' = NoLook
         \/ UNCHANGED looked
  BY DEF executeTest, skippedResult, VerdictInv, looked, Cases, discoverTests, KnownTests
<1>2. DOMAIN verdicts' = {}
  BY <1>1
<1>3. LookIsFound'
  BY <1>1 DEF looked, NoLook, Nothing, VerdictInv, LookIsFound
<1>4. QED
  BY <1>1, <1>2, <1>3 DEF VerdictInv, TestIsKnown, FailuresAreSupported, AllAreJudged, OnlyConcluded,
     VerdictsAreEarned, ElementsAreSeen, FailuresAreBlamed

LEMMA VerdictStep == VerdictInv /\ [ExecutionNext]_teVars => VerdictInv'
<1> SUFFICES ASSUME VerdictInv, [ExecutionNext]_teVars PROVE VerdictInv'
  OBVIOUS
<1>1. CASE start \/ session \/ install \/ exits \/ startFails \/ runEnds \/ UNCHANGED teVars
  BY <1>1, VerdictFrame
     DEF start, session, install, exits, startFails, runEnds, teVars, testVars, judged, looked
<1>2. CASE running
  <2>1. stage = "launch" /\ stage' = "ready" /\ UNCHANGED <<judged, looked, at, result>>
    BY <1>2 DEF running, judged, looked
  <2>2. QED
    BY <2>1, SameSupport DEF judged, looked, VerdictInv, TestIsKnown, LookIsFound, FailuresAreSupported, AllAreJudged, OnlyConcluded,
       VerdictsAreEarned, ElementsAreSeen, FailuresAreBlamed
<1>3. CASE installed \/ \E k \in EventKinds : attachListeners(k) \/ handleBidiEvent(k)
  <2>1. UNCHANGED <<judged, looked, at, result, stage>>
    BY <1>3 DEF installed, attachListeners, handleBidiEvent, onRuntimeEvent, testVars, judged, looked
  <2>2. QED
    BY <2>1, VerdictFrame
<1>4. CASE actionThrows
  <2>1. /\ stage = "step" /\ stage' = "ready" /\ result' \in {"skipped", "timeout", "error"}
        /\ UNCHANGED <<judged, looked, at>>
    BY <1>4 DEF actionThrows, judged, looked
  <2>2. QED
    BY <2>1, SameSupport DEF judged, looked, VerdictInv, TestIsKnown, LookIsFound, FailuresAreSupported, AllAreJudged, OnlyConcluded,
       VerdictsAreEarned, ElementsAreSeen, FailuresAreBlamed
<1>5. CASE testTimer
  <2>1. /\ UNCHANGED <<judged, looked, at, stage>> /\ result' = "timeout"
    BY <1>5 DEF testTimer, judged, looked
  <2>2. QED
    BY <2>1, SameSupport DEF judged, looked, VerdictInv, TestIsKnown, LookIsFound, FailuresAreSupported, AllAreJudged, OnlyConcluded,
       VerdictsAreEarned, ElementsAreSeen, FailuresAreBlamed
<1>6. CASE cleanupStep
  <2>1. UNCHANGED <<judged, looked, stage, result>> /\ at' \in Nat \ {0}
    BY <1>6 DEF cleanupStep, judged, looked, VerdictInv
  <2>2. QED
    BY <2>1, SameSupport DEF judged, looked, VerdictInv, TestIsKnown, LookIsFound, FailuresAreSupported, AllAreJudged, OnlyConcluded,
       VerdictsAreEarned, ElementsAreSeen, FailuresAreBlamed
<1>7. QED
  BY <1>1, <1>2, <1>3, <1>4, <1>5, <1>6, ActionAnswers, AssertionsDecide, Concludes, TestBegins DEF ExecutionNext

\* The verdict of a test rests on what was looked at and is not blamed on what
\* the browser lacks, for any number of tests and events that are kept.
THEOREM VerdictsEarned == ExecutionSpec => []VerdictsAreEarned
<1>1. VerdictInv => VerdictsAreEarned
  BY DEF VerdictInv
<1>2. QED
  BY <1>1, VerdictInit, VerdictStep, PTL DEF ExecutionSpec
=============================================================================
