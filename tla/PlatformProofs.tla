---------------------------- MODULE PlatformProofs ----------------------------
(***************************************************************************)
(* Proofs about the parts of MCPlatform: the execution of a run and its    *)
(* sandbox, the packages, the exports and the organization, and that what  *)
(* holds of each part holds of the instance that has them side by side.    *)
(***************************************************************************)
EXTENDS MCPlatform, FiniteSetTheorems, SequenceTheorems, TLAPS
LOCAL INSTANCE FiniteSetsExt

(***************************************************************************)
(* The run in its sandbox.  A result is written only for the test whose    *)
(* turn it is, and whether that test may run was decided by the results    *)
(* before it, which nothing changes while it runs.                         *)
(***************************************************************************)
Status   == {"passed", "warning", "skipped", "failed", "error", "timeout"}
Deciding == {"acting", "cleanup", "shot"}

SandboxTypes ==
    /\ results \in Seq(Status) /\ Len(results) <= Tests
    /\ current \in Status \cup {"none", "running"}
    /\ step \in {"cleanup", "shot"} => current \in Status

ManagerFollows ==
    /\ manager \in {"completed", "failed", "timeout"} => step \in {"closing", "done"}
    /\ step \in {"loop"} \cup Deciding => manager \in {"running", "stopping", "destroyed"}
    /\ step \in Deciding => Turn <= Tests
    /\ manager = "completed" => Len(results) = Tests

\* The test may run after these results.
MayRun(t, rs) ==
    /\ t \notin Unsupported
    /\ \A d \in 1 .. t - 1 : <<t, d>> \in Needs => rs[d] \in Good
    /\ stopOnFailure => \A u \in 1 .. t - 1 : rs[u] \notin Bad

ResultsAreFair ==
    /\ \A t \in 1 .. Len(results) : results[t] # "skipped" => MayRun(t, results)
    /\ stopOnFailure /\ Turn <= Tests => \A u \in 1 .. Len(results) : results[u] \notin Bad
    /\ step \in Deciding => MayRun(Turn, results)

SandboxInv == SandboxTypes /\ ManagerFollows /\ ResultsAreFair

LEMMA SandboxStart == SandboxInit => SandboxInv
<1>1. SUFFICES ASSUME SandboxInit
               PROVE  SandboxInv
  OBVIOUS
<1>2. /\ results = <<>> /\ manager = "idle" /\ step = "idle" /\ current = "none"
      /\ results \in Seq(Status) /\ Len(results) = 0
  BY <1>1 DEF SandboxInit
<1>3. QED
  BY <1>2, SandboxAssumption DEF SandboxInv, SandboxTypes, ManagerFollows, ResultsAreFair, Deciding, Turn

\* The rest of the suite is skipped, and what was before stays.
LEMMA RestIsSkipped ==
    ASSUME NEW rs \in Seq(Status), Len(rs) <= Tests
    PROVE  /\ SkipRest(rs) \in Seq(Status) /\ Len(SkipRest(rs)) = Tests
           /\ \A i \in 1 .. Tests : SkipRest(rs)[i] = IF i <= Len(rs) THEN rs[i] ELSE "skipped"
<1> DEFINE n    == Tests - Len(rs)
           rest == [i \in 1 .. n |-> "skipped"]
<1>1. n \in Nat /\ Len(rs) \in Nat /\ Tests = Len(rs) + n
  BY SandboxAssumption
<1>2. rest \in Seq(Status) /\ Len(rest) = n /\ \A i \in 1 .. n : rest[i] = "skipped"
  <2>1. rest \in [1 .. n -> Status]
    BY DEF Status
  <2>2. QED
    BY <1>1, <2>1
<1>3. SkipRest(rs) = rs \o rest
  BY DEF SkipRest
<1> HIDE DEF rest, n
<1>4. /\ rs \o rest \in Seq(Status) /\ Len(rs \o rest) = Len(rs) + Len(rest)
      /\ \A i \in 1 .. Len(rs) + Len(rest) :
            (rs \o rest)[i] = IF i <= Len(rs) THEN rs[i] ELSE rest[i - Len(rs)]
  BY <1>2, ConcatProperties
<1>5. QED
  BY <1>1, <1>2, <1>3, <1>4

\* A test gets its status: the results go on, and if the suite stops here there is no
\* next test.
LEMMA PushKeeps ==
    ASSUME SandboxInv, Turn <= Tests, NEW s \in Status, s # "skipped" => MayRun(Turn, results),
           Push(s), UNCHANGED <<manager, stopOnFailure>>,
           manager \in {"running", "stopping", "destroyed"}
    PROVE  SandboxInv'
<1> DEFINE n  == Len(results)
           rs == Append(results, s)
<1>1. results \in Seq(Status) /\ n \in Nat /\ n + 1 <= Tests /\ Tests \in Nat
  BY SandboxAssumption DEF SandboxInv, SandboxTypes, Turn
<1>2. rs \in Seq(Status) /\ Len(rs) = n + 1 /\ \A i \in 1 .. n + 1 : rs[i] = IF i <= n THEN results[i] ELSE s
  BY <1>1
<1>3. \/ stopOnFailure /\ s \in Bad /\ results' = SkipRest(rs)
      \/ ~(stopOnFailure /\ s \in Bad) /\ results' = rs
  BY DEF Push
<1> HIDE DEF rs
<1>4. /\ results' \in Seq(Status) /\ Len(results') \in {n + 1, Tests}
      /\ \A i \in 1 .. Len(results') : results'[i] = IF i <= n THEN results[i] ELSE IF i = n + 1 THEN s ELSE "skipped"
      /\ stopOnFailure /\ s \in Bad => Len(results') = Tests
  <2>1. CASE results' = rs /\ ~(stopOnFailure /\ s \in Bad)
    BY <1>1, <1>2, <2>1
  <2>2. CASE results' = SkipRest(rs)
    <3>1. /\ SkipRest(rs) \in Seq(Status) /\ Len(SkipRest(rs)) = Tests
          /\ \A i \in 1 .. Tests : SkipRest(rs)[i] = IF i <= Len(rs) THEN rs[i] ELSE "skipped"
      BY <1>1, <1>2, RestIsSkipped
    <3>2. QED
      BY <1>1, <1>2, <2>2, <3>1
  <2>3. QED
    BY <1>3, <2>1, <2>2
<1>5. step' = "loop" /\ current' = "none"
  BY DEF Push
<1>6. SandboxTypes' /\ ManagerFollows'
  BY <1>1, <1>4, <1>5 DEF SandboxTypes, ManagerFollows, Deciding
<1>7. \A t \in 1 .. n + 1 : MayRun(t, results) => MayRun(t, results)'
  <2>1. SUFFICES ASSUME NEW t \in 1 .. n + 1, MayRun(t, results)
                 PROVE  MayRun(t, results)'
    OBVIOUS
  <2>2. \A d \in 1 .. t - 1 : d \in 1 .. n /\ d \in 1 .. Len(results') /\ results'[d] = results[d]
    BY <1>1, <1>4
  <2>3. QED
    BY <2>1, <2>2 DEF MayRun
<1>8. \A t \in 1 .. Len(results') : results'[t] # "skipped" => MayRun(t, results)'
  <2>1. SUFFICES ASSUME NEW t \in 1 .. Len(results'), results'[t] # "skipped"
                 PROVE  MayRun(t, results)'
    OBVIOUS
  <2>2. CASE t <= n
    BY <1>1, <1>4, <1>7, <2>1, <2>2 DEF SandboxInv, ResultsAreFair
  <2>3. CASE t = n + 1
    BY <1>1, <1>4, <1>7, <2>1, <2>3 DEF Turn
  <2>4. QED
    BY <1>1, <1>4, <2>1, <2>2, <2>3
<1>9. ASSUME stopOnFailure, Turn' <= Tests
      PROVE  \A u \in 1 .. Len(results') : results'[u] \notin Bad
  <2>1. Len(results') = n + 1 /\ s \notin Bad
    BY <1>1, <1>4, <1>9 DEF Turn
  <2>2. \A u \in 1 .. n : results[u] \notin Bad
    BY <1>9, <1>1 DEF SandboxInv, ResultsAreFair, Turn
  <2>3. QED
    BY <1>1, <1>4, <2>1, <2>2
<1>10. QED
  BY <1>5, <1>6, <1>8, <1>9 DEF SandboxInv, ResultsAreFair, Deciding

\* A step that writes no result, and takes up a test only if it may run.
LEMMA ResultsKept ==
    ASSUME SandboxInv, UNCHANGED <<results, stopOnFailure>>,
           current' \in Status \cup {"none", "running"},
           step' \in {"cleanup", "shot"} => current' \in Status,
           ManagerFollows',
           step' \in Deciding => step \in Deciding \/ MayRun(Turn, results)
    PROVE  SandboxInv'
<1>1. Turn' = Turn /\ \A t : MayRun(t, results)' <=> MayRun(t, results)
  BY DEF Turn, MayRun
<1>2. QED
  BY <1>1 DEF SandboxInv, SandboxTypes, ResultsAreFair

\* Where the manager and the run go at the same time, or one of them.
LEMMA ManagerMoves ==
    ASSUME SandboxInv, UNCHANGED <<results, current, stopOnFailure>>,
           step' \notin Deciding \/ step' = step,
           manager' \in {"completed", "failed", "timeout"} => step' \in {"closing", "done"},
           step' \in {"loop"} \cup Deciding => manager' \in {"running", "stopping", "destroyed"},
           manager' = "completed" => Len(results) = Tests
    PROVE  SandboxInv'
<1>1. Turn' = Turn
  BY DEF Turn
<1>2. ManagerFollows' /\ (step' \in {"cleanup", "shot"} => current' \in Status)
  BY <1>1 DEF SandboxInv, SandboxTypes, ManagerFollows, Deciding
<1>3. QED
  BY <1>2, ResultsKept DEF SandboxInv, SandboxTypes

\* The next test may run, if the loop takes it up.
LEMMA NextMayRun ==
    ASSUME SandboxInv, LoopGoesOn, ~ unsatisfiedDependency(Turn), Turn \notin Unsupported
    PROVE  MayRun(Turn, results) /\ Turn <= Tests
<1>1. Turn \in Nat /\ Turn - 1 = Len(results) /\ Turn <= Tests
  BY DEF SandboxInv, SandboxTypes, Turn, LoopGoesOn
<1>2. QED
  BY <1>1 DEF MayRun, unsatisfiedDependency, SandboxInv, ResultsAreFair

\* The loop of the run: tests are taken up, decided and pushed.
LEMMA TestSteps ==
    ASSUME SandboxInv,
           SkipsTest \/ StartsTest \/ ActionsEnd \/ AssertionsDecide \/ CleanupEnds \/ ShotTaken \/ TestTimer
    PROVE  SandboxInv'
<1>h. /\ UNCHANGED <<manager, stopOnFailure>>
      /\ step \in {"loop"} \cup Deciding => manager \in {"running", "stopping", "destroyed"}
  BY DEF SkipsTest, StartsTest, ActionsEnd, AssertionsDecide, CleanupEnds, ShotTaken, TestTimer, heldVars,
         SandboxInv, ManagerFollows
<1>t. current \in Status \cup {"none", "running"} /\ (step \in {"cleanup", "shot"} => current \in Status)
  BY DEF SandboxInv, SandboxTypes
<1>d. step \in Deciding => Turn <= Tests /\ MayRun(Turn, results)
  BY DEF SandboxInv, ManagerFollows, ResultsAreFair
\* In the middle of a test: it goes on, or it gets its status.
<1>c. ASSUME NEW s \in Status, step \in Deciding,
             \/ Concludes(s)
             \/ current' = s /\ step' = "cleanup" /\ UNCHANGED results
      PROVE  SandboxInv'
  <2>1. CASE Push(s)
    BY <1>h, <1>d, <1>c, <2>1, PushKeeps
  <2>2. CASE current' = s /\ step' \in {"cleanup", "shot"} /\ UNCHANGED results
    <3>1. Turn' = Turn
      BY <2>2 DEF Turn
    <3>2. ManagerFollows'
      BY <1>h, <1>c, <2>2, <3>1 DEF SandboxInv, ManagerFollows, Deciding
    <3>3. QED
      BY <1>h, <1>c, <2>2, <3>2, ResultsKept DEF Deciding
  <2>3. QED
    BY <1>c, <2>1, <2>2 DEF Concludes
<1>1. CASE SkipsTest
  <2>1. Turn <= Tests /\ step = "loop" /\ Push("skipped")
    BY <1>1 DEF SkipsTest, LoopGoesOn
  <2>2. QED
    BY <1>h, <2>1, PushKeeps DEF Status
<1>2. CASE StartsTest
  <2>1. MayRun(Turn, results) /\ Turn <= Tests /\ step = "loop"
    BY <1>2, NextMayRun DEF StartsTest, LoopGoesOn
  <2>2. CASE \E s \in Verdicts \cup {"error"} : Push(s)
    BY <1>h, <2>1, <2>2, PushKeeps DEF Status, Verdicts
  <2>3. CASE current' = "running" /\ step' = "acting" /\ UNCHANGED results
    <3>1. Turn' = Turn
      BY <2>3 DEF Turn
    <3>2. ManagerFollows'
      BY <1>h, <2>1, <2>3, <3>1 DEF SandboxInv, ManagerFollows, Deciding
    <3>3. QED
      BY <1>h, <2>1, <2>3, <3>2, ResultsKept
  <2>4. QED
    BY <1>2, <2>2, <2>3 DEF StartsTest
<1>3. CASE ActionsEnd
  BY <1>3, <1>c DEF ActionsEnd, Deciding, Status
<1>4. CASE AssertionsDecide
  BY <1>4, <1>c DEF AssertionsDecide, Deciding, Status, Verdicts
<1>5. CASE CleanupEnds
  BY <1>5, <1>t, <1>c DEF CleanupEnds, Deciding
<1>6. CASE ShotTaken
  <2>1. current \in Status /\ step \in Deciding /\ Push(current)
    BY <1>6, <1>t DEF ShotTaken, Deciding
  <2>2. QED
    BY <1>h, <1>d, <2>1, PushKeeps
<1>7. CASE TestTimer
  <2>1. step = "acting" /\ step' = step /\ current' = "timeout" /\ UNCHANGED results
    BY <1>7 DEF TestTimer
  <2>2. Turn' = Turn
    BY <2>1 DEF Turn
  <2>3. ManagerFollows'
    BY <1>h, <2>1, <2>2 DEF SandboxInv, ManagerFollows, Deciding
  <2>4. QED
    BY <1>h, <2>1, <2>3, ResultsKept DEF Status, Deciding
<1>8. QED
  BY <1>1, <1>2, <1>3, <1>4, <1>5, <1>6, <1>7

\* How a run begins and ends, and what happens around it.
LEMMA RunSteps ==
    ASSUME SandboxInv,
           \/ execute \/ CreateRefused \/ SandboxCreated \/ DockerCreates \/ DockerFails \/ RunnerStarts
           \/ RunnerRefuses \/ StreamOpens \/ StreamFails \/ LoopEnds \/ RunCloses
    PROVE  SandboxInv'
<1>h. UNCHANGED <<results, current, stopOnFailure>>
  BY DEF execute, CreateRefused, SandboxCreated, DockerCreates, DockerFails, RunnerStarts, RunnerRefuses,
         StreamOpens, StreamFails, LoopEnds, RunCloses, Fails, heldVars
<1>m. manager \in {"completed", "failed", "timeout"} => step \in {"closing", "done"}
  BY DEF SandboxInv, ManagerFollows
<1>1. CASE execute \/ CreateRefused \/ SandboxCreated
  BY <1>1, <1>h, <1>m, ManagerMoves DEF execute, CreateRefused, SandboxCreated, Cancelled, Deciding, heldVars
<1>2. CASE DockerCreates \/ DockerFails \/ RunnerStarts
  BY <1>2, <1>h, <1>m, ManagerMoves DEF DockerCreates, DockerFails, RunnerStarts, Cancelled, Deciding, heldVars
<1>3. CASE RunnerRefuses \/ StreamFails
  BY <1>3, <1>h, <1>m, ManagerMoves DEF RunnerRefuses, StreamFails, Fails, Cancelled, Deciding
<1>4. CASE StreamOpens
  BY <1>4, <1>h, <1>m, ManagerMoves DEF StreamOpens, Cancelled, Deciding
<1>5. CASE LoopEnds
  <2>1. step = "loop" /\ manager \in {"running", "stopping", "destroyed"}
    BY <1>5 DEF LoopEnds, SandboxInv, ManagerFollows
  <2>2. ~ Cancelled /\ ~ overtime => Len(results) = Tests
    BY <1>5, <2>1, SandboxAssumption DEF LoopEnds, Cancelled, Turn, SandboxInv, SandboxTypes
  <2>3. \/ step' = "done" /\ manager' = manager
        \/ step' = "closing" /\ ~ Cancelled /\ manager' = IF overtime THEN "timeout" ELSE "completed"
    BY <1>5 DEF LoopEnds, heldVars
  <2>4. QED
    BY <1>h, <2>1, <2>2, <2>3, ManagerMoves DEF Deciding
<1>6. CASE RunCloses
  BY <1>6, <1>h, <1>m, ManagerMoves DEF RunCloses, Deciding, SandboxInv, ManagerFollows
<1>7. QED
  BY <1>1, <1>2, <1>3, <1>4, <1>5, <1>6

LEMMA SandboxStep ==
    ASSUME SandboxInv, [SandboxNext]_xVars
    PROVE  SandboxInv'
<1>1. CASE RunStep \/ execute \/ TestTimer
  BY <1>1, TestSteps, RunSteps DEF RunStep
<1>2. CASE StopRequested \/ StopEnds
  <2>1. UNCHANGED <<step, results, current, stopOnFailure>> /\ manager' \in {"stopping", "destroyed"}
    BY <1>2 DEF StopRequested, StopEnds, heldVars
  <2>2. QED
    BY <2>1, ManagerMoves
<1>3. CASE \/ \E c \in Callers : StopAnswered(c) \/ Removed(c)
           \/ SandboxTimer \/ cleanupOrphans \/ Expires \/ EntryDeleted \/ RunTimer
           \/ UNCHANGED xVars
  <2>1. UNCHANGED <<manager, step, results, current, stopOnFailure>>
    BY <1>3 DEF StopAnswered, Removed, SandboxTimer, cleanupOrphans, Expires, EntryDeleted, RunTimer,
                runVars, xVars, heldVars
  <2>2. QED
    BY <2>1, ManagerMoves DEF SandboxInv, ManagerFollows
<1>4. QED
  BY <1>1, <1>2, <1>3 DEF SandboxNext

LEMMA FairIsComplete == SandboxInv => CompletedIsComplete
BY DEF SandboxInv, ManagerFollows, ResultsAreFair, MayRun, CompletedIsComplete

\* A run that is reported as completed has a status for every test, and executed none on a
\* dependency that did not pass, on a browser that cannot run it or after the failure at
\* which its suite stops, for any number of tests and any dependencies between them
\* (executeRun, unsatisfiedDependency).
THEOREM RunsAreComplete == SandboxSpec => []CompletedIsComplete
<1>1. SandboxSpec => SandboxInit /\ [][SandboxNext]_xVars
  BY DEF SandboxSpec
<1>2. SandboxInit /\ [][SandboxNext]_xVars => []SandboxInv
  BY SandboxStart, SandboxStep, PTL
<1>3. QED
  BY <1>1, <1>2, FairIsComplete, PTL

\* What the manager reports of a run that ended stays: a stop, a timer and the run itself
\* may all come to its end at once (stop, executeRun).
THEOREM RunsEndOnce == SandboxInit /\ [][SandboxNext]_xVars => RunEndsOnce
<1>1. SandboxInv /\ [SandboxNext]_xVars => [(manager \in Finished) => UNCHANGED manager]_manager
  <2>1. SUFFICES ASSUME SandboxInv, [SandboxNext]_xVars, manager \in Finished
                 PROVE  manager' = manager
    OBVIOUS
  <2>m. /\ manager \in {"completed", "failed", "timeout"} => step \in {"closing", "done"}
        /\ step \in {"loop"} \cup Deciding => manager \in {"running", "stopping", "destroyed"}
    BY <2>1 DEF SandboxInv, ManagerFollows
  <2>2. CASE execute \/ CreateRefused \/ SandboxCreated \/ DockerCreates \/ DockerFails \/ RunnerStarts
    BY <2>1, <2>2, <2>m DEF execute, CreateRefused, SandboxCreated, DockerCreates, DockerFails, RunnerStarts,
       Cancelled, Finished, heldVars
  <2>3. CASE RunnerRefuses \/ StreamFails \/ StreamOpens
    BY <2>1, <2>3, <2>m DEF RunnerRefuses, StreamFails, StreamOpens, Fails, Cancelled, Finished
  <2>4. CASE LoopEnds \/ RunCloses
    BY <2>1, <2>4, <2>m DEF LoopEnds, RunCloses, Cancelled, Finished, heldVars
  <2>5. CASE SkipsTest \/ StartsTest \/ ActionsEnd \/ AssertionsDecide \/ CleanupEnds \/ ShotTaken \/ TestTimer
    BY <2>5 DEF SkipsTest, StartsTest, ActionsEnd, AssertionsDecide, CleanupEnds, ShotTaken, TestTimer
  <2>6. CASE StopRequested \/ StopEnds
    BY <2>1, <2>6 DEF StopRequested, StopEnds, Finished
  <2>7. CASE \/ \E c \in Callers : StopAnswered(c) \/ Removed(c)
             \/ SandboxTimer \/ cleanupOrphans \/ Expires \/ EntryDeleted \/ RunTimer
             \/ UNCHANGED xVars
    BY <2>7 DEF StopAnswered, Removed, SandboxTimer, cleanupOrphans, Expires, EntryDeleted, RunTimer,
                runVars, xVars, heldVars
  <2>8. QED
    BY <2>1, <2>2, <2>3, <2>4, <2>5, <2>6, <2>7 DEF SandboxNext, RunStep
<1>2. QED
  BY <1>1, SandboxStart, SandboxStep, PTL DEF RunEndsOnce

-----------------------------------------------------------------------------
(***************************************************************************)
(* The packages.  A blob is removed by an upload that failed, for a row    *)
(* that is being deleted, or by the reconciliation; the first never had a  *)
(* row, the second has left "stored" for good, and the third is as old as  *)
(* its upload is over and was without a row when the keys were read.       *)
(***************************************************************************)
Cleanup == [phase : {"rest", "orphaned", "expired", "exists", "blobs", "pending"},
            todo : SUBSET Uploads, known : SUBSET Uploads, key : Uploads \cup {NoKey}]

PackageTypes ==
    /\ blob \subseteq Uploads /\ mature \subseteq Uploads /\ aged \subseteq Uploads /\ unused \subseteq Uploads
    /\ package \in [Uploads -> {"none", "stored", "deleting", "deleted", "removed"}]
    /\ upload \in [Uploads -> [phase : {"new", "exists", "put", "verified", "done"}, key : Uploads \cup {NoKey}]]
    /\ deleting \in Uploads \cup {NoKey}
    /\ cleanup \in Cleanup

\* An upload that is under way has no row yet, and its blob is young.
UploadsAreYoung ==
    \A u \in Uploads : /\ upload[u].phase # "done" => package[u] = "none" /\ u \notin mature
                       /\ upload[u].phase = "verified" => u \in blob

\* What is being deleted has left "stored", and what was listed has had a row.
DeletedIsGone ==
    /\ deleting # NoKey => package[deleting] \notin {"none", "stored"}
    /\ cleanup.key # NoKey => package[cleanup.key] \notin {"none", "stored"}
    /\ cleanup.phase \in {"orphaned", "expired"} => \A k \in cleanup.todo : package[k] # "none"
    /\ cleanup.phase = "pending" => \A k \in cleanup.todo : package[k] \notin {"none", "stored"}

\* An old blob whose key was not among the rows never gets one.
UnknownIsOrphan ==
    /\ cleanup.phase \in {"exists", "blobs"} =>
          \A k \in mature \ cleanup.known : package[k] \in {"none", "removed"}
    /\ cleanup.phase = "blobs" => cleanup.todo \cap cleanup.known = {}

PackageInv == PackageTypes /\ UploadsAreYoung /\ DeletedIsGone /\ UnknownIsOrphan /\ StoredHasBlob

LEMMA PackageStart == PackageInit => PackageInv
<1>1. SUFFICES ASSUME PackageInit
               PROVE  PackageInv
  OBVIOUS
<1>2. /\ cleanup.phase = "rest" /\ cleanup.key = NoKey
      /\ \A u \in Uploads : upload[u].phase = "new" /\ package[u] = "none"
  BY <1>1 DEF PackageInit, AtRest
<1>3. PackageTypes
  <2>1. AtRest \in Cleanup
    BY DEF AtRest, Cleanup
  <2>2. QED
    BY <1>1, <2>1 DEF PackageInit, PackageTypes
<1>4. UploadsAreYoung /\ DeletedIsGone /\ UnknownIsOrphan /\ StoredHasBlob
  BY <1>1, <1>2 DEF PackageInit, UploadsAreYoung, DeletedIsGone, UnknownIsOrphan, StoredHasBlob
<1>5. QED
  BY <1>3, <1>4 DEF PackageInv

\* Rows leave "stored" and never come to it, nor to "none"; blobs go where no row is stored.
LEMMA RowsLeave ==
    ASSUME PackageInv, UNCHANGED <<upload, mature>>, aged' \subseteq Uploads, unused' \subseteq Uploads,
           package' \in [Uploads -> {"none", "stored", "deleting", "deleted", "removed"}],
           \A k \in Uploads : /\ package[k] # "none" => package'[k] # "none"
                              /\ package'[k] = "stored" => package[k] = "stored"
                              /\ package[k] \in {"none", "removed"} => package'[k] = package[k],
           blob' \subseteq blob,
           \A k \in blob \ blob' : package'[k] # "stored" /\ upload[k].phase = "done",
           deleting' \in Uploads \cup {NoKey}, cleanup' \in Cleanup,
           deleting' # NoKey => package'[deleting'] \notin {"none", "stored"},
           cleanup'.key # NoKey => package'[cleanup'.key] \notin {"none", "stored"},
           \/ cleanup'.phase = "rest"
           \/ /\ cleanup'.phase = cleanup.phase /\ cleanup'.known = cleanup.known
              /\ cleanup'.todo \subseteq cleanup.todo
    PROVE  PackageInv'
<1>1. PackageTypes' /\ UploadsAreYoung'
  BY DEF PackageInv, PackageTypes, UploadsAreYoung
<1>2. DeletedIsGone'
  BY DEF PackageInv, PackageTypes, Cleanup, DeletedIsGone
<1>3. UnknownIsOrphan'
  BY DEF PackageInv, PackageTypes, Cleanup, UnknownIsOrphan
<1>4. StoredHasBlob'
  BY DEF PackageInv, StoredHasBlob
<1>5. QED
  BY <1>1, <1>2, <1>3, <1>4 DEF PackageInv

\* The uploads: a row is made for a blob that was just written.
LEMMA UploadSteps ==
    ASSUME PackageInv, NEW u \in Uploads,
           findStoredPackageByHash(u) \/ ReuseAnswered(u) \/ put(u) \/ createPackageRecord(u) \/ UploadFails(u)
    PROVE  PackageInv'
<1>t. /\ upload \in [Uploads -> [phase : {"new", "exists", "put", "verified", "done"}, key : Uploads \cup {NoKey}]]
      /\ package \in [Uploads -> {"none", "stored", "deleting", "deleted", "removed"}]
      /\ blob \subseteq Uploads /\ mature \subseteq Uploads
  BY DEF PackageInv, PackageTypes
<1>k. upload[u].key \in Uploads \cup {NoKey} /\ NoKey \notin Uploads /\ (upload[u].phase # "done" => package[u] = "none")
  BY <1>t, UploadsAssumption DEF PackageInv, UploadsAreYoung
\* What all of them leave, and where they go.
<1>1. ASSUME NEW phase \in {"exists", "put", "verified", "done"}, NEW key \in Uploads \cup {NoKey},
             Moves(u, phase, key), upload[u].phase # "done",
             UNCHANGED <<package, mature, aged, deleting, cleanup>>, unused' \subseteq unused,
             blob' \subseteq Uploads, \A k \in blob : k # u => k \in blob',
             u \notin blob' => package[u] # "stored" /\ phase # "verified"
      PROVE  PackageInv'
  <2>1. \A x \in Uploads : upload'[x] = IF x = u THEN [phase |-> phase, key |-> key] ELSE upload[x]
    BY <1>t, <1>1 DEF Moves
  <2>2. upload' \in [Uploads -> [phase : {"new", "exists", "put", "verified", "done"}, key : Uploads \cup {NoKey}]]
    BY <1>t, <1>1 DEF Moves
  <2>3. UploadsAreYoung'
    BY <1>1, <2>1 DEF PackageInv, UploadsAreYoung
  <2>4. StoredHasBlob'
    BY <1>1 DEF PackageInv, StoredHasBlob
  <2>5. PackageTypes'
    BY <1>1, <2>2 DEF PackageInv, PackageTypes
  <2>6. QED
    BY <1>1, <2>3, <2>4, <2>5 DEF PackageInv, DeletedIsGone, UnknownIsOrphan
<1>2. CASE findStoredPackageByHash(u)
  BY <1>1, <1>2, <1>t, <1>k DEF findStoredPackageByHash, ageVars
<1>3. CASE ReuseAnswered(u)
  BY <1>1, <1>3, <1>t, <1>k DEF ReuseAnswered, createRun
<1>4. CASE put(u)
  BY <1>1, <1>4, <1>t, <1>k DEF put, ageVars
<1>5. CASE UploadFails(u)
  <2>1. blob' \subseteq Uploads /\ (\A k \in blob : k # u => k \in blob') /\ package[u] # "stored"
    BY <1>5, <1>t, <1>k DEF UploadFails
  <2>2. QED
    BY <1>1, <1>5, <2>1 DEF UploadFails, ageVars
<1>6. CASE createPackageRecord(u)
  <2>1. /\ upload[u].phase = "verified" /\ UNCHANGED <<blob, mature, aged, deleting, cleanup>>
        /\ package' = [package EXCEPT ![u] = "stored"] /\ Moves(u, "done", u) /\ unused' \subseteq unused
    BY <1>6 DEF createPackageRecord, createRun
  <2>2. \A x \in Uploads : /\ upload'[x] = IF x = u THEN [phase |-> "done", key |-> u] ELSE upload[x]
                           /\ package'[x] = IF x = u THEN "stored" ELSE package[x]
    BY <1>t, <2>1 DEF Moves
  <2>3. PackageTypes'
    BY <1>t, <2>1 DEF Moves, PackageInv, PackageTypes
  <2>4. u \in blob /\ u \notin mature /\ package[u] = "none"
    BY <2>1 DEF PackageInv, UploadsAreYoung
  <2>5. UploadsAreYoung' /\ StoredHasBlob'
    BY <2>1, <2>2, <2>4 DEF PackageInv, UploadsAreYoung, StoredHasBlob
  <2>6. UnknownIsOrphan'
    BY <2>1, <2>2, <2>4 DEF PackageInv, PackageTypes, UnknownIsOrphan
  <2>7. DeletedIsGone'
    <3>1. cleanup.todo \subseteq Uploads /\ cleanup.key \in Uploads \cup {NoKey} /\ deleting \in Uploads \cup {NoKey}
      BY DEF PackageInv, PackageTypes, Cleanup
    <3>2. /\ deleting # NoKey => deleting \in Uploads \ {u}
          /\ cleanup.key # NoKey => cleanup.key \in Uploads \ {u}
          /\ cleanup.phase = "pending" => u \notin cleanup.todo
      BY <2>4, <3>1 DEF PackageInv, DeletedIsGone
    <3>3. QED
      BY <2>1, <2>2, <3>1, <3>2 DEF PackageInv, DeletedIsGone
  <2>8. QED
    BY <2>3, <2>5, <2>6, <2>7 DEF PackageInv
<1>7. QED
  BY <1>2, <1>3, <1>4, <1>5, <1>6

\* The owner deletes: the row is marked, its blob goes, the row goes.
LEMMA OwnerSteps ==
    ASSUME PackageInv,
           \/ \E k \in Uploads : deleteOwnedPackage(k)
           \/ OwnerBlobDeleted \/ OwnerRowDeleted \/ DeletionFails
    PROVE  PackageInv'
<1>t. /\ package \in [Uploads -> {"none", "stored", "deleting", "deleted", "removed"}]
      /\ deleting \in Uploads \cup {NoKey} /\ cleanup \in Cleanup /\ blob \subseteq Uploads /\ NoKey \notin Uploads
      /\ aged \subseteq Uploads /\ unused \subseteq Uploads
  BY UploadsAssumption DEF PackageInv, PackageTypes
<1>d. /\ deleting # NoKey => package[deleting] \notin {"none", "stored"}
      /\ cleanup.key # NoKey => cleanup.key \in Uploads /\ package[cleanup.key] \notin {"none", "stored"}
      /\ \A u \in Uploads : upload[u].phase # "done" => package[u] = "none"
  BY <1>t DEF PackageInv, DeletedIsGone, UploadsAreYoung, Cleanup
<1>1. ASSUME NEW k \in Uploads, deleteOwnedPackage(k)
      PROVE  PackageInv'
  <2>1. /\ UNCHANGED <<upload, ageVars, blob, cleanup>> /\ deleting' = k /\ package[k] = "stored"
        /\ package' = [package EXCEPT ![k] = "deleting"]
    BY <1>1, <1>t DEF deleteOwnedPackage, setPackageStatus, Row
  <2>2. QED
    BY <1>t, <1>d, <2>1, RowsLeave DEF ageVars
<1>2. CASE OwnerBlobDeleted
  <2>1. /\ UNCHANGED <<upload, ageVars, package, deleting, cleanup>> /\ deleting \in blob /\ blob' = blob \ {deleting}
    BY <1>2 DEF OwnerBlobDeleted
  <2>2. deleting \in Uploads /\ package[deleting] # "stored" /\ upload[deleting].phase = "done"
    BY <1>t, <1>d, <2>1
  <2>3. QED
    BY <1>t, <1>d, <2>1, <2>2, RowsLeave DEF ageVars
<1>3. CASE OwnerRowDeleted
  <2>1. /\ UNCHANGED <<upload, ageVars, blob, cleanup>> /\ deleting' = NoKey /\ deleting \in Uploads
        /\ package' = package \/ (package' = [package EXCEPT ![deleting] = "removed"] /\ Row(deleting))
    BY <1>3, <1>t DEF OwnerRowDeleted, deletePackageRecord
  <2>2. QED
    BY <1>t, <1>d, <2>1, RowsLeave DEF Row, ageVars
<1>4. CASE DeletionFails
  <2>1. UNCHANGED <<upload, ageVars, package, blob, cleanup>> /\ deleting' = NoKey
    BY <1>4 DEF DeletionFails
  <2>2. QED
    BY <1>t, <1>d, <2>1, RowsLeave DEF ageVars
<1>5. QED
  BY <1>1, <1>2, <1>3, <1>4

\* The cleanup reads its next list: the keys it knows are those of the rows there are.
LEMMA CleanupReads ==
    ASSUME PackageInv, CleanupLists
    PROVE  PackageInv'
<1>t. /\ package \in [Uploads -> {"none", "stored", "deleting", "deleted", "removed"}]
      /\ cleanup \in Cleanup /\ blob \subseteq Uploads /\ NoKey \notin Uploads
      /\ aged \subseteq Uploads /\ unused \subseteq Uploads
  BY UploadsAssumption DEF PackageInv, PackageTypes
<1> DEFINE next  == Following(cleanup.phase)
           known == IF next = "rest" THEN {} ELSE IF next = "exists" THEN listAllPackageKeys ELSE cleanup.known
<1>1. /\ UNCHANGED <<upload, ageVars, package, blob, deleting>>
      /\ cleanup' = [phase |-> next, todo |-> Listed(next), key |-> NoKey, known |-> known]
  BY DEF CleanupLists
<1>2. \/ next = "orphaned" /\ Listed(next) = {k \in aged : package[k] = "stored" /\ inUse[k] = "none"}
      \/ next = "expired" /\ Listed(next) = {k \in unused : package[k] = "stored" /\ inUse[k] # "active"}
      \/ next = "exists" /\ Listed(next) = {k \in Uploads : package[k] = "stored"}
      \/ next = "blobs" /\ Listed(next) = blob \ cleanup.known /\ cleanup.phase = "exists"
      \/ next = "pending" /\ Listed(next) = {k \in Uploads : package[k] = "deleting"}
      \/ next = "rest" /\ Listed(next) = {}
  BY <1>t DEF Following, Listed, listOrphanedPackages, listExpiredPackages, listPackagesMarkedDeleting, Cleanup
<1>3. listAllPackageKeys = {k \in Uploads : package[k] \notin {"none", "removed"}}
  BY DEF listAllPackageKeys, Row
<1>4. next \in {"rest", "orphaned", "expired", "exists", "blobs", "pending"} /\ Listed(next) \subseteq Uploads
  BY <1>2, <1>t
<1>5. known \subseteq Uploads /\ (next = "exists" => known = listAllPackageKeys)
      /\ (next = "blobs" => known = cleanup.known)
  BY <1>3, <1>t DEF Cleanup
<1> HIDE DEF next, known
<1>6. /\ cleanup'.phase = next /\ cleanup'.todo = Listed(next) /\ cleanup'.key = NoKey /\ cleanup'.known = known
      /\ cleanup' \in Cleanup
  BY <1>1, <1>4, <1>5 DEF Cleanup
<1>7. PackageTypes' /\ UploadsAreYoung' /\ StoredHasBlob'
  BY <1>1, <1>6 DEF PackageInv, PackageTypes, UploadsAreYoung, StoredHasBlob, ageVars
<1>8. DeletedIsGone'
  BY <1>1, <1>2, <1>6, <1>t DEF PackageInv, DeletedIsGone
<1>9. UnknownIsOrphan'
  <2>1. CASE next = "exists"
    BY <1>1, <1>3, <1>5, <1>6, <1>t, <2>1 DEF PackageInv, PackageTypes, UnknownIsOrphan, ageVars
  <2>2. CASE next = "blobs"
    BY <1>1, <1>2, <1>5, <1>6, <2>2 DEF PackageInv, UnknownIsOrphan, ageVars
  <2>3. CASE next \notin {"exists", "blobs"}
    BY <1>6, <2>3 DEF UnknownIsOrphan
  <2>4. QED
    BY <2>1, <2>2, <2>3
<1>10. QED
  BY <1>7, <1>8, <1>9 DEF PackageInv

\* The cleanup marks what it listed, removes blobs and rows, and reconciles the two.
LEMMA CleanupSteps ==
    ASSUME PackageInv,
           \/ CleanupBlobDeleted \/ CleanupRowDeleted \/ CleanupFails
           \/ \E k \in Uploads : CleanupMarks(k) \/ CleanupResumes(k) \/ ReconcileRow(k) \/ ReconcileBlob(k)
    PROVE  PackageInv'
<1>t. /\ package \in [Uploads -> {"none", "stored", "deleting", "deleted", "removed"}]
      /\ cleanup \in Cleanup /\ blob \subseteq Uploads /\ NoKey \notin Uploads /\ deleting \in Uploads \cup {NoKey}
      /\ aged \subseteq Uploads /\ unused \subseteq Uploads /\ mature \subseteq Uploads
  BY UploadsAssumption DEF PackageInv, PackageTypes
<1>d. /\ deleting # NoKey => package[deleting] \notin {"none", "stored"}
      /\ cleanup.key # NoKey => cleanup.key \in Uploads /\ package[cleanup.key] \notin {"none", "stored"}
      /\ \A u \in Uploads : upload[u].phase # "done" => package[u] = "none" /\ u \notin mature
  BY <1>t DEF PackageInv, DeletedIsGone, UploadsAreYoung, Cleanup
<1>c. /\ AtRest \in Cleanup /\ AtRest.phase = "rest" /\ AtRest.key = NoKey
      /\ \A k \in Uploads : /\ [cleanup EXCEPT !.todo = @ \ {k}, !.key = k] \in Cleanup
                            /\ [cleanup EXCEPT !.todo = @ \ {k}] \in Cleanup
  BY <1>t DEF AtRest, Cleanup
<1>r. ASSUME cleanup' = AtRest \/ cleanup' = [cleanup EXCEPT !.key = NoKey]
      PROVE  /\ cleanup' \in Cleanup /\ cleanup'.key = NoKey
             /\ \/ cleanup'.phase = "rest"
                \/ /\ cleanup'.phase = cleanup.phase /\ cleanup'.known = cleanup.known
                   /\ cleanup'.todo = cleanup.todo
  <2>1. CASE cleanup' = AtRest
    BY <1>c, <2>1
  <2>2. CASE cleanup' = [cleanup EXCEPT !.key = NoKey]
    BY <1>t, <2>2 DEF Cleanup
  <2>3. QED
    BY <1>r, <2>1, <2>2
<1>1. CASE CleanupBlobDeleted
  <2>1. /\ UNCHANGED <<upload, ageVars, package, deleting, cleanup>> /\ cleanup.key \in blob
        /\ blob' = blob \ {cleanup.key}
    BY <1>1 DEF CleanupBlobDeleted
  <2>2. cleanup.key \in Uploads /\ package[cleanup.key] # "stored" /\ upload[cleanup.key].phase = "done"
    BY <1>t, <1>d, <2>1
  <2>3. QED
    BY <1>t, <1>d, <2>1, <2>2, RowsLeave DEF ageVars
<1>2. CASE CleanupRowDeleted
  <2>1. /\ UNCHANGED <<upload, ageVars, blob, deleting>> /\ cleanup.key \in Uploads
        /\ package' = package \/ (package' = [package EXCEPT ![cleanup.key] = "removed"] /\ Row(cleanup.key))
        /\ cleanup' = AtRest \/ cleanup' = [cleanup EXCEPT !.key = NoKey]
    BY <1>2, <1>d, <1>t DEF CleanupRowDeleted, deletePackageRecord
  <2>2. /\ cleanup' \in Cleanup /\ cleanup'.key = NoKey
        /\ \/ cleanup'.phase = "rest"
           \/ cleanup'.phase = cleanup.phase /\ cleanup'.known = cleanup.known /\ cleanup'.todo = cleanup.todo
    BY <1>r, <2>1
  <2>3. QED
    BY <1>t, <1>d, <2>1, <2>2, RowsLeave DEF Row, ageVars
<1>3. CASE CleanupFails
  <2>1. /\ UNCHANGED <<upload, ageVars, package, blob, deleting>>
        /\ cleanup' = AtRest \/ cleanup' = [cleanup EXCEPT !.key = NoKey]
    BY <1>3 DEF CleanupFails
  <2>2. /\ cleanup' \in Cleanup /\ cleanup'.key = NoKey
        /\ \/ cleanup'.phase = "rest"
           \/ cleanup'.phase = cleanup.phase /\ cleanup'.known = cleanup.known /\ cleanup'.todo = cleanup.todo
    BY <1>r, <2>1
  <2>3. QED
    BY <1>t, <1>d, <2>1, <2>2, RowsLeave DEF ageVars
<1>4. ASSUME NEW k \in Uploads, CleanupMarks(k)
      PROVE  PackageInv'
  <2>1. /\ UNCHANGED <<upload, ageVars, blob, deleting>> /\ k \in cleanup.todo
        /\ cleanup.phase \in {"orphaned", "expired"} /\ cleanup' = [cleanup EXCEPT !.todo = @ \ {k}, !.key = k]
        /\ \/ package' = [package EXCEPT ![k] = "deleting"] /\ Row(k)
           \/ package' = package /\ ~ Row(k)
    BY <1>4, <1>t DEF CleanupMarks, setPackageStatus, Takes
  <2>2. package[k] # "none"
    BY <2>1 DEF PackageInv, DeletedIsGone
  <2>3. /\ cleanup' \in Cleanup /\ cleanup'.key = k /\ cleanup'.phase = cleanup.phase
        /\ cleanup'.known = cleanup.known /\ cleanup'.todo = cleanup.todo \ {k}
    BY <1>c, <1>t, <2>1 DEF Cleanup
  <2>4. QED
    BY <1>t, <1>d, <2>1, <2>2, <2>3, RowsLeave DEF Row, ageVars
<1>5. ASSUME NEW k \in Uploads, CleanupResumes(k)
      PROVE  PackageInv'
  <2>1. /\ UNCHANGED <<upload, ageVars, package, blob, deleting>> /\ k \in cleanup.todo
        /\ cleanup.phase = "pending" /\ cleanup' = [cleanup EXCEPT !.todo = @ \ {k}, !.key = k]
    BY <1>5 DEF CleanupResumes, Takes
  <2>2. package[k] \notin {"none", "stored"}
    BY <2>1 DEF PackageInv, DeletedIsGone
  <2>3. /\ cleanup' \in Cleanup /\ cleanup'.key = k /\ cleanup'.phase = cleanup.phase
        /\ cleanup'.known = cleanup.known /\ cleanup'.todo = cleanup.todo \ {k}
    BY <1>c, <1>t, <2>1 DEF Cleanup
  <2>4. QED
    BY <1>t, <1>d, <2>1, <2>2, <2>3, RowsLeave DEF ageVars
<1>6. ASSUME NEW k \in Uploads, ReconcileRow(k)
      PROVE  PackageInv'
  <2>1. /\ UNCHANGED <<upload, ageVars, blob, deleting>>
        /\ cleanup' = [cleanup EXCEPT !.todo = @ \ {k}]
        /\ package' = package \/ (package' = [package EXCEPT ![k] = "deleted"] /\ Row(k))
    BY <1>6, <1>t DEF ReconcileRow, Passes
  <2>2. /\ cleanup' \in Cleanup /\ cleanup'.key = cleanup.key /\ cleanup'.phase = cleanup.phase
        /\ cleanup'.known = cleanup.known /\ cleanup'.todo = cleanup.todo \ {k}
    BY <1>c, <1>t, <2>1 DEF Cleanup
  <2>3. QED
    BY <1>t, <1>d, <2>1, <2>2, RowsLeave DEF Row, ageVars
<1>7. ASSUME NEW k \in Uploads, ReconcileBlob(k)
      PROVE  PackageInv'
  <2>1. /\ UNCHANGED <<upload, ageVars, package, deleting>> /\ k \in cleanup.todo /\ cleanup.phase = "blobs"
        /\ cleanup' = [cleanup EXCEPT !.todo = @ \ {k}]
        /\ blob' = blob \/ (blob' = blob \ {k} /\ k \in mature)
    BY <1>7 DEF ReconcileBlob, Passes, mayBeUpload
  <2>2. k \in mature => package[k] # "stored" /\ upload[k].phase = "done"
    BY <1>d, <2>1 DEF PackageInv, UnknownIsOrphan
  <2>3. /\ cleanup' \in Cleanup /\ cleanup'.key = cleanup.key /\ cleanup'.phase = cleanup.phase
        /\ cleanup'.known = cleanup.known /\ cleanup'.todo = cleanup.todo \ {k}
    BY <1>c, <1>t, <2>1 DEF Cleanup
  <2>4. QED
    BY <1>t, <1>d, <2>1, <2>2, <2>3, RowsLeave DEF ageVars
<1>8. QED
  BY <1>1, <1>2, <1>3, <1>4, <1>5, <1>6, <1>7

\* A blob gets old when its upload is over, and not while the keys are compared.
LEMMA TimeSteps ==
    ASSUME PackageInv, NEW k \in Uploads, Matures(k) \/ Ages(k) \/ RunEnds(k)
    PROVE  PackageInv'
<1>1. CASE Matures(k)
  <2>1. /\ UNCHANGED <<package, blob, aged, unused, upload, deleting, cleanup>>
        /\ mature' = mature \cup {k} /\ upload[k].phase = "done" /\ cleanup.phase \notin {"exists", "blobs"}
    BY <1>1 DEF Matures
  <2>2. QED
    BY <2>1 DEF PackageInv, PackageTypes, UploadsAreYoung, DeletedIsGone, UnknownIsOrphan, StoredHasBlob
<1>2. CASE Ages(k) \/ RunEnds(k)
  <2>1. /\ UNCHANGED <<package, blob, mature, upload, deleting, cleanup>>
        /\ aged' \subseteq aged \cup {k} /\ unused' \subseteq unused \cup {k}
    BY <1>2 DEF Ages, RunEnds, ageVars
  <2>2. QED
    BY <2>1 DEF PackageInv, PackageTypes, UploadsAreYoung, DeletedIsGone, UnknownIsOrphan, StoredHasBlob
<1>3. QED
  BY <1>1, <1>2

LEMMA PackageStep ==
    ASSUME PackageInv, [PackageNext]_pVars
    PROVE  PackageInv'
<1>1. CASE UNCHANGED pVars
  BY <1>1 DEF pVars, ageVars, PackageInv, PackageTypes, UploadsAreYoung, DeletedIsGone, UnknownIsOrphan, StoredHasBlob
<1>2. CASE PackageNext
  BY <1>2, UploadSteps, OwnerSteps, CleanupReads, CleanupSteps, TimeSteps DEF PackageNext, CleanupStep
<1>3. QED
  BY <1>1, <1>2

\* A package that is listed as stored has its blob, for any number of uploads and failures,
\* whatever the owner, the cleanup and its reconciliation delete at once
\* (finalizePackageDeletion, reconcilePackages).
THEOREM PackagesAreThere == PackageSpec => []StoredHasBlob
<1>1. PackageInit /\ [][PackageNext]_pVars => []PackageInv
  BY PackageStart, PackageStep, PTL
<1>2. PackageInv => StoredHasBlob
  BY DEF PackageInv
<1>3. PackageSpec => PackageInit /\ [][PackageNext]_pVars
  BY DEF PackageSpec
<1>4. QED
  BY <1>1, <1>2, <1>3, PTL

-----------------------------------------------------------------------------
(***************************************************************************)
(* The exports.  The sweep removes a file only of an export whose time is  *)
(* over, and that never comes back.                                        *)
(***************************************************************************)
ExportInv ==
    /\ export \in [Exports -> {"absent", "queued", "running", "completed", "failed", "expired"}]
    /\ \A d \in dropping : d[1] \in lapsed
    /\ DownloadsAreThere

LEMMA ExportStart == ExportInit => ExportInv
BY DEF ExportInit, ExportInv, DownloadsAreThere

LEMMA ExportKeeps ==
    ASSUME ExportInv, [ExportNext]_expVars
    PROVE  ExportInv'
<1> USE DEF ExportInv, DownloadsAreThere, Becomes, JobSame
<1>1. CASE UNCHANGED expVars
  BY <1>1 DEF expVars
<1>2. ASSUME NEW e \in Exports, requestExport(e) \/ enqueueExport(e) \/ runOrganizationExport(e)
      PROVE  ExportInv'
  BY <1>2 DEF requestExport, enqueueExport, runOrganizationExport
<1>3. ASSUME NEW e \in Exports, ExportWritten(e)
      PROVE  ExportInv'
  BY <1>3 DEF ExportWritten
<1>4. ASSUME NEW e \in Exports, ExportReturns(e) \/ GivesUp(e) \/ ExportRecovered(e) \/ ExportLapses(e)
      PROVE  ExportInv'
  BY <1>4 DEF ExportReturns, GivesUp, ExportRecovered, ExportLapses
<1>5. ASSUME NEW e \in Exports, listExpiredExports(e)
      PROVE  ExportInv'
  BY <1>5 DEF listExpiredExports
<1>6. ASSUME NEW e \in Exports, expireExports(e)
      PROVE  ExportInv'
  BY <1>6 DEF expireExports
<1>7. CASE ExportWorkerCrash \/ ExportWebCrash
  BY <1>7 DEF ExportWorkerCrash, ExportWebCrash
<1>8. QED
  BY <1>1, <1>2, <1>3, <1>4, <1>5, <1>6, <1>7 DEF ExportNext, ExportStep

\* An export that can be downloaded has its file, for any number of exports, crashes and
\* failures of the storage, though the file and the row are written and removed one after
\* the other (runOrganizationExport, expireExports).
THEOREM DownloadsExist == ExportSpec => []DownloadsAreThere
<1>1. ExportInit /\ [][ExportNext]_expVars => []ExportInv
  BY ExportStart, ExportKeeps, PTL
<1>2. ExportInv => DownloadsAreThere
  BY DEF ExportInv
<1>3. ExportSpec => ExportInit /\ [][ExportNext]_expVars
  BY DEF ExportSpec
<1>4. QED
  BY <1>1, <1>2, <1>3, PTL

-----------------------------------------------------------------------------
(***************************************************************************)
(* The organization.  The row names the one owner there is; who joins is   *)
(* one person more than the members, who were fewer than the seats.        *)
(***************************************************************************)
OrganizationTypes ==
    /\ role \in [People -> Assignable \cup {"owner", "none"}]
    /\ ownerId \in People \cup {Nobody}
    /\ invitation \in [Invitations -> Invitation]
    /\ apiKeys \in [People -> Int]
    /\ plan \in Plans /\ seats \in Nat

Owners == {p \in People : role[p] = "owner"}

OrganizationInv == OrganizationTypes /\ OneOwner

LEMMA Roles == "owner" \notin Assignable /\ "none" \notin Assignable /\ Nobody \notin People
BY OrganizationsAssumption

LEMMA Closes == NoInvitation \in Invitation /\ Closed \in Invitation /\ Closed.state = "closed"
BY OrganizationsAssumption DEF NoInvitation, Closed, Invitation

LEMMA SmallerIsEither ==
    ASSUME NEW a \in Nat, NEW b \in Nat
    PROVE  Min({a, b}) \in {a, b}
<1>1. \E x \in {a, b} : \A y \in {a, b} : x <= y
  OBVIOUS
<1>2. QED
  BY <1>1 DEF Min

LEMMA GreaterIsEither ==
    ASSUME NEW a \in Nat, NEW b \in Nat
    PROVE  Max({a, b}) \in {a, b}
<1>1. \E x \in {a, b} : \A y \in {a, b} : x >= y
  OBVIOUS
<1>2. QED
  BY <1>1 DEF Max

LEMMA OrganizationStart == OrganizationInit => OrganizationInv
<1>1. SUFFICES ASSUME OrganizationInit
               PROVE  OrganizationInv
  OBVIOUS
<1>2. PICK u \in People : ownerId = u /\ role = [p \in People |-> IF p = u THEN "owner" ELSE "none"]
  BY <1>1, OrganizationsAssumption DEF OrganizationInit, createOrganization
<1>3. OrganizationTypes
  BY <1>1, <1>2, Closes, OrganizationsAssumption DEF OrganizationInit, OrganizationTypes
<1>4. QED
  BY <1>2, <1>3, Roles DEF OrganizationInv, OneOwner

\* Roles change but for the owner's, which goes only with the row.
LEMMA OwnerStays ==
    ASSUME OrganizationInv, OrganizationTypes', UNCHANGED ownerId, ownerId # Nobody,
           \A p \in People : role[p] = "owner" <=> role'[p] = "owner"
    PROVE  OrganizationInv'
BY DEF OrganizationInv, OneOwner

\* Nobody has a role without the row.
LEMMA RoleNeedsRow ==
    ASSUME OrganizationInv, NEW p \in People, role[p] # "none"
    PROVE  ownerId # Nobody
BY DEF OrganizationInv, OneOwner, Members

LEMMA CascadeSteps ==
    ASSUME OrganizationInv, NEW p \in People, Cascade(p), UNCHANGED planVars
    PROVE  OrganizationInv'
<1>t. OrganizationTypes
  BY DEF OrganizationInv
<1>1. /\ ownerId' = IF p = ownerId THEN Nobody ELSE ownerId
      /\ role' = [q \in People |-> IF p = ownerId \/ q = p THEN "none" ELSE role[q]]
      /\ apiKeys' = [q \in People |-> IF p = ownerId \/ q = p THEN 0 ELSE apiKeys[q]]
      /\ invitation' \in [Invitations -> Invitation]
  BY <1>t, Closes DEF Cascade, OrganizationTypes
<1>2. OrganizationTypes'
  BY <1>t, <1>1 DEF OrganizationTypes, planVars
<1>3. {q \in People : role[q] = "owner"} = {ownerId} \ {Nobody}
  BY DEF OrganizationInv, OneOwner
<1>4. CASE p = ownerId
  <2>1. ownerId' = Nobody /\ \A q \in People : role'[q] = "none" /\ apiKeys'[q] = 0
    BY <1>1, <1>4
  <2>2. QED
    BY <1>2, <2>1 DEF OrganizationInv, OneOwner, Members
<1>5. CASE p # ownerId
  <2>1. ownerId' = ownerId /\ \A q \in People : role'[q] = "owner" <=> role[q] = "owner"
    BY <1>1, <1>3, <1>5
  <2>2. CASE ownerId # Nobody
    BY <1>2, <2>1, <2>2, OwnerStays
  <2>3. CASE ownerId = Nobody
    <3>1. \A q \in People : role[q] = "none" /\ apiKeys[q] = 0
      BY <2>3 DEF OrganizationInv, OneOwner, Members
    <3>2. \A q \in People : role'[q] = "none" /\ apiKeys'[q] = 0
      BY <1>1, <3>1
    <3>3. QED
      BY <1>2, <2>1, <2>3, <3>2 DEF OrganizationInv, OneOwner, Members
  <2>4. QED
    BY <2>2, <2>3
<1>6. QED
  BY <1>4, <1>5

\* One person's role changes, neither from the owner's nor to it.
LEMMA RoleChanges ==
    ASSUME OrganizationInv, NEW p \in People, NEW r \in Assignable \cup {"none"}, role[p] # "owner",
           role' = [role EXCEPT ![p] = r], UNCHANGED <<ownerId, planVars, apiKeys>>,
           invitation' \in [Invitations -> Invitation], ownerId # Nobody
    PROVE  OrganizationInv'
<1>1. OrganizationTypes'
  BY DEF OrganizationInv, OrganizationTypes, planVars
<1>2. \A q \in People : role[q] = "owner" <=> role'[q] = "owner"
  BY Roles DEF OrganizationInv, OrganizationTypes
<1>3. QED
  BY <1>1, <1>2, OwnerStays

\* The owner changes: the old one is an admin from then on.
LEMMA OwnerMoves ==
    ASSUME OrganizationInv, NEW u \in People, NEW p \in People, transferOwnership(u, p)
    PROVE  OrganizationInv'
<1>1. /\ role[u] = "owner" /\ p # u /\ role' = [role EXCEPT ![u] = "admin", ![p] = "owner"] /\ ownerId' = p
      /\ UNCHANGED <<plan, seats, invitation, apiKeys>>
  BY DEF transferOwnership, planVars
<1>t. role \in [People -> Assignable \cup {"owner", "none"}]
  BY DEF OrganizationInv, OrganizationTypes
<1>2. \A q \in People : role'[q] = IF q = p THEN "owner" ELSE IF q = u THEN "admin" ELSE role[q]
  BY <1>t, <1>1
<1>3. {q \in People : role[q] = "owner"} = {ownerId} \ {Nobody}
  BY DEF OrganizationInv, OneOwner
<1>4. {q \in People : role'[q] = "owner"} = {p}
  <2>1. \A q \in People : role[q] = "owner" => q = u
    BY <1>1, <1>3
  <2>2. \A q \in People : role'[q] = "owner" <=> q = p
    BY <1>2, <2>1
  <2>3. QED
    BY <2>2
<1>5. OrganizationTypes'
  BY <1>t, <1>1, OrganizationsAssumption DEF OrganizationInv, OrganizationTypes
<1>6. QED
  BY <1>1, <1>4, <1>5, Roles DEF OrganizationInv, OneOwner

LEMMA MemberSteps ==
    ASSUME OrganizationInv, NEW u \in People,
           \/ leaveOrganization(u)
           \/ \E p \in People : \/ removeOrganizationMember(u, p)
                                \/ \E r \in Assignable : changeMemberRole(u, p, r)
           \/ \E i \in Invitations : \E t \in 1 .. invitation[i].token : acceptInvitation(u, i, t)
    PROVE  OrganizationInv'
<1>t. invitation \in [Invitations -> Invitation]
  BY DEF OrganizationInv, OrganizationTypes
<1>1. CASE leaveOrganization(u)
  <2>1. /\ role[u] \notin {"none", "owner"} /\ role' = [role EXCEPT ![u] = "none"]
        /\ UNCHANGED <<ownerId, planVars, apiKeys, invitation>>
    BY <1>1 DEF leaveOrganization, Leaves
  <2>2. QED
    BY <1>t, <2>1, RoleChanges, RoleNeedsRow
<1>2. ASSUME NEW p \in People, removeOrganizationMember(u, p)
      PROVE  OrganizationInv'
  <2>1. /\ role[p] \notin {"none", "owner"} /\ role' = [role EXCEPT ![p] = "none"]
        /\ UNCHANGED <<ownerId, planVars, apiKeys, invitation>>
    BY <1>2 DEF removeOrganizationMember, MayManage, Leaves
  <2>2. QED
    BY <1>t, <2>1, RoleChanges, RoleNeedsRow
<1>3. ASSUME NEW p \in People, NEW r \in Assignable, changeMemberRole(u, p, r)
      PROVE  OrganizationInv'
  <2>1. /\ role[p] \notin {"none", "owner"} /\ role' = [role EXCEPT ![p] = r]
        /\ UNCHANGED <<ownerId, planVars, apiKeys, invitation>>
    BY <1>3 DEF changeMemberRole, MayManage
  <2>2. QED
    BY <1>t, <2>1, RoleChanges, RoleNeedsRow
<1>4. ASSUME NEW i \in Invitations, NEW t, acceptInvitation(u, i, t)
      PROVE  OrganizationInv'
  <2>1. /\ role[u] = "none" /\ ownerId # Nobody /\ role' = [role EXCEPT ![u] = invitation[i].role]
        /\ invitation' = [invitation EXCEPT ![i] = Closed] /\ UNCHANGED <<ownerId, planVars, apiKeys>>
    BY <1>4 DEF acceptInvitation, Acceptable
  <2>2. invitation[i].role \in Assignable /\ invitation' \in [Invitations -> Invitation]
    BY <1>t, <2>1, Closes DEF Invitation
  <2>3. QED
    BY <2>1, <2>2, RoleChanges
<1>5. QED
  BY <1>1, <1>2, <1>3, <1>4

\* What leaves the members as they are: invitations, keys and the plan.
LEMMA OfficeSteps ==
    ASSUME OrganizationInv,
           \/ \E u \in People :
                \/ createApiKey(u)
                \/ \E p \in People : \/ revokeApiKeyById(u, p)
                                     \/ \E r \in Assignable, i \in Invitations : inviteMember(u, p, r, i)
                \/ \E i \in Invitations : resendInvitation(u, i) \/ revokeInvitation(u, i)
                \/ \E p \in Plans : \E n \in {seats, MembersOfPlan[p]} : setOrganizationPlan(u, p, n)
           \/ \E i \in Invitations : Lapses(i)
    PROVE  OrganizationInv' /\ UNCHANGED role
<1>t. /\ invitation \in [Invitations -> Invitation] /\ apiKeys \in [People -> Int]
      /\ plan \in Plans /\ seats \in Nat
  BY DEF OrganizationInv, OrganizationTypes
\* A step of the invitations alone, and one of a member.
<1>i. ASSUME NEW i \in Invitations, NEW to \in Invitation, Invites(i, to)
      PROVE  OrganizationInv' /\ UNCHANGED role
  <2>1. UNCHANGED <<role, ownerId, plan, seats, apiKeys>> /\ invitation' \in [Invitations -> Invitation]
    BY <1>t, <1>i DEF Invites, memberVars, planVars
  <2>2. QED
    BY <2>1 DEF OrganizationInv, OrganizationTypes, OneOwner, Members
<1>m. ASSUME NEW u \in People, role[u] \in Managers, UNCHANGED <<role, ownerId, invitation>>,
             apiKeys' \in [People -> Int], plan' \in Plans, seats' \in Nat
      PROVE  OrganizationInv'
  <2>1. ownerId # Nobody
    BY <1>m, RoleNeedsRow DEF Managers
  <2>2. OrganizationTypes'
    BY <1>m DEF OrganizationInv, OrganizationTypes
  <2>3. QED
    BY <1>m, <2>1, <2>2, OwnerStays
<1>1. ASSUME NEW u \in People, createApiKey(u)
      PROVE  OrganizationInv' /\ UNCHANGED role
  <2>1. /\ role[u] \in Managers /\ UNCHANGED <<role, ownerId, invitation, plan, seats>>
        /\ apiKeys' = [apiKeys EXCEPT ![u] = @ + 1]
    BY <1>1 DEF createApiKey, memberVars, planVars
  <2>2. QED
    BY <1>t, <1>m, <2>1
<1>2. ASSUME NEW u \in People, NEW p \in People, revokeApiKeyById(u, p)
      PROVE  OrganizationInv' /\ UNCHANGED role
  <2>1. /\ role[u] \in Managers /\ UNCHANGED <<role, ownerId, invitation, plan, seats>>
        /\ apiKeys' = [apiKeys EXCEPT ![p] = @ - 1]
    BY <1>2 DEF revokeApiKeyById, memberVars, planVars
  <2>2. QED
    BY <1>t, <1>m, <2>1
<1>3. ASSUME NEW u \in People, NEW p \in Plans, NEW n \in {seats, MembersOfPlan[p]}, setOrganizationPlan(u, p, n)
      PROVE  OrganizationInv' /\ UNCHANGED role
  <2>1. n \in Nat /\ MembersOfPlan[p] \in Nat
    BY <1>t, OrganizationsAssumption
  <2>2. Max({1, Min({n, MembersOfPlan[p]})}) \in Nat
    BY <2>1, SmallerIsEither, GreaterIsEither
  <2>3. /\ role[u] \in Managers /\ UNCHANGED <<role, ownerId, invitation, apiKeys>>
        /\ plan' \in Plans /\ seats' \in Nat
    BY <1>3, <2>2 DEF setOrganizationPlan, memberVars, Managers
  <2>4. QED
    BY <1>t, <1>m, <2>3
<1>4. ASSUME NEW u \in People, NEW p \in People, NEW r \in Assignable, NEW i \in Invitations, inviteMember(u, p, r, i)
      PROVE  OrganizationInv' /\ UNCHANGED role
  <2>1. [state |-> "open", to |-> p, by |-> u, role |-> r, token |-> 1, lapsed |-> FALSE] \in Invitation
    BY DEF Invitation
  <2>2. QED
    BY <1>4, <1>i, <2>1 DEF inviteMember
<1>5. ASSUME NEW i \in Invitations,
             Lapses(i) \/ \E u \in People : resendInvitation(u, i) \/ revokeInvitation(u, i)
      PROVE  OrganizationInv' /\ UNCHANGED role
  <2>1. /\ [invitation[i] EXCEPT !.token = @ + 1, !.lapsed = FALSE] \in Invitation
        /\ [invitation[i] EXCEPT !.lapsed = TRUE] \in Invitation /\ Closed \in Invitation
    <3> DEFINE j == invitation[i]
    <3>1. j \in Invitation /\ j.token + 1 \in Nat
      BY <1>t DEF Invitation
    <3>2. [j EXCEPT !.lapsed = TRUE] \in Invitation
      BY <3>1 DEF Invitation
    <3>3. [[j EXCEPT !.token = j.token + 1] EXCEPT !.lapsed = FALSE] \in Invitation
      BY <3>1 DEF Invitation
    <3>4. [j EXCEPT !.token = @ + 1, !.lapsed = FALSE] = [[j EXCEPT !.token = j.token + 1] EXCEPT !.lapsed = FALSE]
      OBVIOUS
    <3>5. QED
      BY <3>2, <3>3, <3>4, Closes
  <2>2. QED
    BY <1>5, <1>i, <2>1 DEF Lapses, resendInvitation, revokeInvitation
<1>6. QED
  BY <1>1, <1>2, <1>3, <1>4, <1>5

LEMMA OrganizationStep ==
    ASSUME OrganizationInv, [OrganizationNext]_oVars
    PROVE  OrganizationInv'
<1>1. CASE UNCHANGED oVars
  BY <1>1 DEF oVars, memberVars, planVars, OrganizationInv, OrganizationTypes, OneOwner, Members
<1>2. ASSUME NEW u \in People, deleteOrganization(u) \/ deleteAccount(u)
      PROVE  OrganizationInv'
  <2>1. role[u] = "owner" => ownerId = u
    BY DEF OrganizationInv, OneOwner
  <2>2. Cascade(u) /\ UNCHANGED planVars
    BY <1>2, <2>1 DEF deleteOrganization, deleteAccount
  <2>3. QED
    BY <2>2, CascadeSteps
<1>3. QED
  BY <1>1, <1>2, MemberSteps, OwnerMoves, OfficeSteps DEF OrganizationNext

\* The organization has the one owner that its row names, and without the row nothing is
\* left, for any number of people and through every order of transfers, changes of roles,
\* removals and deletions (transferOwnership, changeMemberRole, deleteOrganization).
THEOREM OwnerIsOne == OrganizationSpec => []OneOwner
<1>1. OrganizationInv => OneOwner
  BY DEF OrganizationInv
<1>2. QED
  BY <1>1, OrganizationStart, OrganizationStep, PTL DEF OrganizationSpec

\* Whoever joins takes a seat that was free.
LEMMA SeatIsFree ==
    ASSUME OrganizationInv, NEW u \in People, role[u] = "none", ~SeatsFull,
           NEW r \in Assignable, role' = [role EXCEPT ![u] = r]
    PROVE  Cardinality({q \in People : role'[q] # "none"}) <= Min({MembersOfPlan[plan], seats})
<1>1. role \in [People -> Assignable \cup {"owner", "none"}] /\ plan \in Plans /\ seats \in Nat
  BY DEF OrganizationInv, OrganizationTypes
<1>2. IsFiniteSet(Members) /\ u \notin Members
  BY FS_Subset, OrganizationsAssumption DEF Members
<1>3. {q \in People : role'[q] # "none"} = Members \cup {u}
  BY <1>1, Roles DEF Members
<1>4. Cardinality(Members \cup {u}) = Cardinality(Members) + 1 /\ Cardinality(Members) \in Nat
  BY <1>2, FS_AddElement, FS_CardinalityType
<1>5. Min({MembersOfPlan[plan], seats}) \in Nat
  BY <1>1, SmallerIsEither, OrganizationsAssumption
<1>6. ~(Cardinality(Members) >= Min({MembersOfPlan[plan], seats}))
  BY DEF SeatsFull
<1> DEFINE least == Min({MembersOfPlan[plan], seats})
           count == Cardinality(Members)
<1>7. least \in Nat /\ count \in Nat /\ ~(count >= least)
  BY <1>4, <1>5, <1>6
<1>8. count + 1 <= least
  <2> HIDE DEF least, count
  <2>1. QED
    BY <1>7
<1>9. QED
  BY <1>3, <1>4, <1>8, Zenon

Joins(p) == role[p] = "none" /\ role'[p] # "none" /\ ownerId # Nobody

\* Only the acceptance of an invitation makes a member of who was none.
LEMMA JoinIsAcceptance ==
    ASSUME OrganizationInv, [OrganizationNext]_oVars, NEW p \in People, Joins(p)
    PROVE  \E i \in Invitations : \E t : acceptInvitation(p, i, t)
<1>t. role \in [People -> Assignable \cup {"owner", "none"}]
  BY DEF OrganizationInv, OrganizationTypes
<1>j. role[p] = "none" /\ role'[p] # "none" /\ role' # role
  BY DEF Joins
<1>1. ASSUME NEW u \in People, deleteOrganization(u) \/ deleteAccount(u)
      PROVE  FALSE
  <2>1. \A q \in People : role'[q] \in {role[q], "none"}
    BY <1>1 DEF deleteOrganization, deleteAccount, Cascade
  <2>2. QED
    BY <1>j, <2>1
<1>2. ASSUME NEW u \in People, NEW q \in People,
             \/ leaveOrganization(u) \/ removeOrganizationMember(u, q) \/ transferOwnership(u, q)
             \/ \E r \in Assignable : changeMemberRole(u, q, r)
      PROVE  FALSE
  <2>1. \A x \in People : role'[x] = role[x] \/ role'[x] = "none" \/ role[x] # "none"
    BY <1>t, <1>2 DEF leaveOrganization, removeOrganizationMember, changeMemberRole, MayManage, Leaves, transferOwnership
  <2>2. QED
    BY <1>j, <2>1
<1>3. ASSUME NEW u \in People, NEW i \in Invitations, NEW t, acceptInvitation(u, i, t)
      PROVE  acceptInvitation(p, i, t)
  <2>1. \A q \in People : q # u => role'[q] = role[q]
    BY <1>t, <1>3 DEF acceptInvitation
  <2>2. p = u
    BY <1>j, <2>1
  <2>3. QED
    BY <1>3, <2>2
<1>4. role' # role => OrganizationNext
  BY DEF oVars, memberVars
<1>5. QED
  BY <1>1, <1>2, <1>3, <1>4, <1>j, OfficeSteps DEF OrganizationNext

\* The members grow only within the seats and the plan, one invitation for each, which was
\* open, sent to who joins, and is closed by it, for any number of people and invitations
\* (acceptInvitation).
THEOREM JoinsAreAccepted == OrganizationSpec => JoinsAreInvited
<1>1. ASSUME OrganizationInv, [OrganizationNext]_oVars, NEW p \in People, Joins(p)
      PROVE  /\ Cardinality({q \in People : role'[q] # "none"}) <= Min({MembersOfPlan[plan], seats})
             /\ \E i \in Invitations :
                   /\ invitation[i].state = "open" /\ invitation'[i].state = "closed"
                   /\ invitation[i].to = p /\ role'[p] = invitation[i].role
  <2>1. PICK i \in Invitations : \E t : acceptInvitation(p, i, t)
    BY <1>1, JoinIsAcceptance
  <2>2. /\ role[p] = "none" /\ ~SeatsFull /\ role' = [role EXCEPT ![p] = invitation[i].role]
        /\ invitation[i].state = "open" /\ invitation[i].to = p
        /\ invitation' = [invitation EXCEPT ![i] = Closed]
    BY <2>1 DEF acceptInvitation, Acceptable
  <2>t. invitation \in [Invitations -> Invitation] /\ role \in [People -> Assignable \cup {"owner", "none"}]
    BY <1>1 DEF OrganizationInv, OrganizationTypes
  <2>3. invitation[i].role \in Assignable
    BY <2>t DEF Invitation
  <2>4. invitation'[i].state = "closed" /\ role'[p] = invitation[i].role
    BY <2>2, <2>t, Closes
  <2>5. QED
    BY <1>1, <2>2, <2>3, <2>4, SeatIsFree
<1>2. OrganizationInv /\ [OrganizationNext]_oVars =>
        [\A p \in People :
          (role[p] = "none" /\ role'[p] # "none" /\ ownerId # Nobody) =>
              /\ Cardinality({q \in People : role'[q] # "none"}) <= Min({MembersOfPlan[plan], seats})
              /\ \E i \in Invitations :
                    /\ invitation[i].state = "open" /\ invitation'[i].state = "closed"
                    /\ invitation[i].to = p /\ role'[p] = invitation[i].role]_oVars
  BY <1>1 DEF Joins
<1>3. QED
  BY <1>2, OrganizationStart, OrganizationStep, PTL DEF OrganizationSpec, JoinsAreInvited

-----------------------------------------------------------------------------
(***************************************************************************)
(* Side by side: a part that does not run keeps what it has.               *)
(***************************************************************************)
\* The records are true in the composition, too.
THEOREM PlatformRecordsAreTrue == PlatformSpec => []RecordsAreTrue
<1>1. PlatformInit => PackageInv /\ ExportInv /\ OrganizationInv
  BY PackageStart, ExportStart, OrganizationStart DEF PlatformInit
<1>2. [PlatformNext]_platformVars => [PackageNext]_pVars /\ [ExportNext]_expVars /\ [OrganizationNext]_oVars
  BY DEF PlatformNext, platformVars
<1>3. PackageInv /\ ExportInv /\ OrganizationInv => RecordsAreTrue
  BY DEF RecordsAreTrue, PackageInv, ExportInv, OrganizationInv
<1>4. QED
  BY <1>1, <1>2, <1>3, PackageStep, ExportKeeps, OrganizationStep, PTL DEF PlatformSpec
=============================================================================
