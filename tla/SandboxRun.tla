----------------------------- MODULE SandboxRun -----------------------------
(***************************************************************************)
(* One execution of a test run inside a worker process: the run in the     *)
(* TestRunManager (lib/testing/test-runner.ts), its sandbox in the         *)
(* SandboxManager (lib/runtime/sandbox-manager.ts) and the container of    *)
(* the Docker driver (lib/runtime/docker-driver.ts).                       *)
(*                                                                         *)
(* The run is one asynchronous function; between two of its awaits nothing *)
(* else runs (step "loop"). Around it run the stop of a cancellation, the  *)
(* timer of the sandbox, the sweep of expired sandboxes and the timer of   *)
(* the run, each of which may find the others half done.                   *)
(***************************************************************************)
EXTENDS Integers, Sequences, FiniteSets

CONSTANTS
    Tests,          \* the number of tests of the run
    Needs,          \* pairs <<test, the test it depends on>>
    Unsupported     \* the tests that the browser cannot run

ASSUME SandboxAssumption ==
    /\ Tests \in Nat \ {0}
    /\ Needs \subseteq (1 .. Tests) \X (1 .. Tests)
    /\ Unsupported \subseteq 1 .. Tests

VARIABLES
    manager,        \* the state of the run in the manager
    step,           \* the await at which executeRun stands
    stopOnFailure,  \* the failure policy of the suite
    results,        \* the status of each test, in the order of the tests
    current,        \* the status of the test that runs
    overtime,       \* the timer of the run has fired
    sandbox,        \* the status of the sandbox
    listed,         \* the sandbox manager still has its entry
    leaving,        \* a timer will delete the entry
    expired,        \* the entry is older than its time to live
    armed,          \* the timer of the sandbox is set
    handle,         \* the sandbox manager has the handle of the container
    container,      \* the container
    closers         \* how far each caller that closes the sandbox has come

sandboxVars == <<sandbox, listed, leaving, expired, armed, handle, container, closers>>
heldVars == <<stopOnFailure, overtime, sandboxVars>>
runVars == <<manager, step, results, current>>
xVars == <<runVars, heldVars>>

Callers == {"run", "stop", "timer", "orphans"}
Finished == {"completed", "failed", "timeout", "destroyed"}
Bad == {"failed", "error", "timeout"}
Good == {"passed", "warning"}
Verdicts == {"passed", "warning", "skipped", "failed"}
\* An action or a screenshot of the sandbox reaches its container.
Reachable == listed /\ sandbox \in {"starting", "loading_extension", "ready", "running"} /\ handle
\* Mutated Cancelled: only while stop() is at work.
CancelledNow == manager = "stopping"
Cancelled == manager \in {"stopping", "destroyed"}
Yields == step # "loop"

SandboxInit ==
    /\ manager = "idle" /\ step = "idle" /\ results = <<>> /\ current = "none"
    /\ stopOnFailure \in BOOLEAN
    /\ overtime = FALSE
    /\ sandbox = "none" /\ listed = FALSE /\ leaving = FALSE /\ expired = FALSE
    /\ armed = FALSE /\ handle = FALSE /\ container = "none"
    /\ closers = [c \in Callers |-> "no"]

-----------------------------------------------------------------------------
\* The status that a closed sandbox gets: stop() destroys, a timer times out.
Target(c) == IF c \in {"run", "stop"} THEN "destroyed" ELSE "timeout"

\* The end of destroy(); only the run and a cancellation wait for it.
Destroyed(c) ==
    /\ sandbox' = Target(c) /\ leaving' = TRUE
    /\ closers' = [closers EXCEPT ![c] = IF c \in {"run", "stop"} THEN "done" ELSE "no"]

\* destroy(): the timer is cleared, the container removed if it is known.
destroy(c) ==
    /\ armed' = FALSE
    /\ IF handle
       THEN closers' = [closers EXCEPT ![c] = "remove"] /\ UNCHANGED <<sandbox, leaving>>
       ELSE Destroyed(c)
    /\ UNCHANGED <<listed, expired, handle, container>>

\* stop() of the sandbox manager, up to its first await.
stopSandbox(c) ==
    \/ /\ ~ listed \/ sandbox = "destroyed"
       /\ closers' = [closers EXCEPT ![c] = "done"]
       /\ UNCHANGED <<sandbox, listed, leaving, expired, armed, handle, container>>
    \/ /\ listed /\ sandbox # "destroyed" /\ handle
       /\ sandbox' = "stopping"
       /\ closers' = [closers EXCEPT ![c] = "command"]
       /\ UNCHANGED <<listed, leaving, expired, armed, handle, container>>
    \/ /\ listed /\ sandbox # "destroyed" /\ ~ handle
       /\ destroy(c)

\* The runner has stopped its browser, or did not answer within five seconds.
StopAnswered(c) ==
    /\ Yields /\ closers[c] = "command"
    /\ destroy(c)
    /\ UNCHANGED <<runVars, stopOnFailure, overtime>>

\* docker rm -f.
Removed(c) ==
    /\ Yields /\ closers[c] = "remove"
    /\ container' = "gone" /\ handle' = FALSE
    /\ Destroyed(c)
    /\ UNCHANGED <<runVars, stopOnFailure, overtime, listed, expired, armed>>

\* The timer that start() sets, and the sweep of expired entries.
SandboxTimer ==
    /\ Yields /\ armed /\ closers["timer"] = "no"
    /\ destroy("timer")
    /\ UNCHANGED <<runVars, stopOnFailure, overtime>>

cleanupOrphans ==
    /\ Yields /\ listed /\ expired /\ sandbox # "destroyed" /\ closers["orphans"] = "no"
    /\ destroy("orphans")
    /\ UNCHANGED <<runVars, stopOnFailure, overtime>>

\* The time to live is far longer than a start: an entry expires when the
\* run that made it has gone on or has gone.
Expires ==
    /\ Yields /\ listed /\ ~ expired /\ step \notin {"docker", "runner", "stream"}
    /\ expired' = TRUE
    /\ UNCHANGED <<runVars, stopOnFailure, overtime, sandbox, listed, leaving, armed, handle, container, closers>>

EntryDeleted ==
    /\ Yields /\ listed /\ leaving
    /\ listed' = FALSE /\ leaving' = FALSE
    /\ UNCHANGED <<runVars, stopOnFailure, overtime, sandbox, expired, armed, handle, container, closers>>

\* Mutated setStatus: whatever the sandbox is.
setStatusAlways(s) == sandbox' = s
\* setStatus(): a destroyed sandbox stays destroyed.
setStatus(s) == sandbox' = IF sandbox = "destroyed" THEN sandbox ELSE s

-----------------------------------------------------------------------------
\* execute() and the beginning of executeRun.
execute ==
    /\ manager = "idle" /\ step = "idle"
    /\ manager' = "starting" /\ step' = "available"
    /\ UNCHANGED <<results, current, heldVars>>

\* The catch and finally of executeRun after an error. The sandbox of a
\* cancelled run is left to stop().
Fails ==
    IF Cancelled
    THEN /\ step' = "done"
         /\ UNCHANGED sandbox \/ setStatus("failed")
         /\ UNCHANGED <<manager, listed, leaving, expired, armed, handle, container, closers>>
    ELSE manager' = "failed" /\ step' = "closing" /\ stopSandbox("run")

CreateRefused ==
    /\ step = "available"
    /\ step' = "done"
    /\ manager' = IF Cancelled THEN manager ELSE "failed"
    /\ UNCHANGED <<results, current, heldVars>>

\* create() of the sandbox manager, then start() up to the driver, unless the
\* run was cancelled or the circuit breaker refuses the browser.
SandboxCreated ==
    /\ step = "available"
    /\ listed' = TRUE
    /\ UNCHANGED <<results, current, stopOnFailure, overtime, expired, armed, handle, container>>
    /\ \/ /\ Cancelled
          /\ sandbox' = "preparing" /\ step' = "done"
          /\ UNCHANGED <<manager, leaving, closers>>
       \/ /\ ~ Cancelled
          /\ sandbox' = "creating" /\ step' = "docker"
          /\ UNCHANGED <<manager, leaving, closers>>
       \/ /\ ~ Cancelled       \* refused: failed, then stopped by the finally
          /\ manager' = "failed" /\ step' = "closing"
          /\ sandbox' = "destroyed" /\ leaving' = TRUE
          /\ closers' = [closers EXCEPT !["run"] = "done"]

DockerCreates ==
    /\ step = "docker"
    /\ container' = "up" /\ handle' = TRUE
    /\ setStatus("loading_extension")
    /\ step' = "runner"
    /\ UNCHANGED <<manager, results, current, stopOnFailure, overtime, listed, leaving, expired, armed, closers>>

\* docker create fails, or the runner does not answer and is removed, or
\* docker cp or docker start fails and the container stays.
DockerFails ==
    /\ step = "docker"
    /\ \E c \in {"none", "gone", "left"} :
         IF Cancelled
         THEN /\ container' = c /\ step' = "done"
              /\ setStatus("failed")
              /\ UNCHANGED <<manager, listed, leaving, expired, armed, handle, closers>>
         ELSE /\ container' = c /\ step' = "closing" /\ manager' = "failed"
              /\ sandbox' = "destroyed" /\ leaving' = TRUE
              /\ closers' = [closers EXCEPT !["run"] = "done"]
              /\ UNCHANGED <<listed, expired, armed, handle>>
    /\ UNCHANGED <<results, current, stopOnFailure, overtime>>

\* The command "start": loaded, refused, or no answer in time.
RunnerStarts ==
    /\ step = "runner" /\ container = "up"
    /\ step' = "stream"
    /\ UNCHANGED <<manager, results, current, heldVars>>

RunnerRefuses ==
    /\ step = "runner"
    /\ Fails
    /\ UNCHANGED <<results, current, stopOnFailure, overtime>>

\* The stream of events is open: start() sets the status and the timer, and
\* the run goes into its loop unless it was cancelled.
StreamOpens ==
    /\ step = "stream"
    /\ setStatus("running") /\ armed' = TRUE
    /\ IF Cancelled THEN step' = "done" /\ UNCHANGED manager
                    ELSE step' = "loop" /\ manager' = "running"
    /\ UNCHANGED <<results, current, stopOnFailure, overtime, listed, leaving, expired, handle, container, closers>>

StreamFails ==
    /\ step = "stream" /\ container = "gone"
    /\ Fails
    /\ UNCHANGED <<results, current, stopOnFailure, overtime>>

-----------------------------------------------------------------------------
\* The test whose turn it is, and whether a dependency did not pass.
Turn == Len(results) + 1
\* Mutated unsatisfiedDependency: only a failure of the dependency counts.
failedDependency(t) ==
    \E d \in 1 .. Len(results) : <<t, d>> \in Needs /\ results[d] \in Bad
unsatisfiedDependency(t) ==
    \E d \in 1 .. Len(results) : <<t, d>> \in Needs /\ results[d] \notin Good

\* The rest of a suite that stops at its first failure is skipped.
SkipRest(rs) == rs \o [i \in 1 .. Tests - Len(rs) |-> "skipped"]
Push(s) ==
    /\ results' = IF stopOnFailure /\ s \in Bad THEN SkipRest(Append(results, s)) ELSE Append(results, s)
    /\ current' = "none"
    /\ step' = "loop"

\* The loop takes its next test.
LoopGoesOn == step = "loop" /\ Turn <= Tests /\ ~ overtime /\ manager = "running"

SkipsTest ==
    /\ LoopGoesOn
    /\ unsatisfiedDependency(Turn) \/ Turn \in Unsupported
    /\ Push("skipped")
    /\ UNCHANGED <<manager, heldVars>>

\* executeTest() up to its first action. A test without steps is decided at
\* once; in a sandbox that is not running the first action throws.
StartsTest ==
    /\ LoopGoesOn
    /\ ~ unsatisfiedDependency(Turn) /\ Turn \notin Unsupported
    /\ \/ /\ Reachable
          /\ current' = "running" /\ step' = "acting"
          /\ UNCHANGED results
       \/ ~ Reachable /\ Push("error")
       \/ listed /\ (\E s \in Verdicts : Push(s))
    /\ UNCHANGED <<manager, heldVars>>

\* The timer of the test: it marks the result and interrupts nothing.
TestTimer ==
    /\ step = "acting" /\ current = "running"
    /\ current' = "timeout"
    /\ UNCHANGED <<manager, step, results, heldVars>>

\* The test has its status; a failure asks for a screenshot.
Concludes(s) ==
    IF s \in {"failed", "error"} /\ Reachable
    THEN current' = s /\ step' = "shot" /\ UNCHANGED results
    ELSE Push(s)

\* The actions are over. An open popup skips the test and an unsafe action
\* fails it, late or not; a call that throws is an error unless it is late.
ActionsEnd ==
    /\ step = "acting"
    /\ \/ \E s \in {"skipped", "error"} : Concludes(s)
       \/ current = "timeout" /\ Concludes("timeout")
    /\ UNCHANGED <<manager, heldVars>>

\* All actions were done in time: the assertions decide, and what the test
\* has of cleanup steps is done before it ends. The timer may still fire, and
\* the verdict is written over it.
AssertionsDecide ==
    /\ step = "acting" /\ current = "running" /\ listed
    /\ \E s \in Verdicts :
         \/ Concludes(s)
         \/ current' = s /\ step' = "cleanup" /\ UNCHANGED results
    /\ UNCHANGED <<manager, heldVars>>

CleanupEnds ==
    /\ step = "cleanup"
    /\ Concludes(current)
    /\ UNCHANGED <<manager, heldVars>>

\* The screenshot of a failure, or its error.
ShotTaken ==
    /\ step = "shot"
    /\ Push(current)
    /\ UNCHANGED <<manager, heldVars>>

RunTimer ==
    /\ Yields /\ ~ overtime /\ step \notin {"idle", "closing", "done"}
    /\ overtime' = TRUE
    /\ UNCHANGED <<runVars, stopOnFailure, sandboxVars>>

\* The loop is over: a cancelled run leaves the rest to stop(), any other is
\* reported and closes its sandbox.
LoopEnds ==
    /\ step = "loop"
    /\ Turn > Tests \/ overtime \/ manager # "running"
    /\ IF Cancelled
       THEN step' = "done" /\ UNCHANGED <<manager, heldVars>>
       ELSE /\ manager' = IF overtime THEN "timeout" ELSE "completed"
            /\ step' = "closing"
            /\ stopSandbox("run")
            /\ UNCHANGED <<stopOnFailure, overtime>>
    /\ UNCHANGED <<results, current>>

\* The finally of executeRun has waited for the sandbox.
RunCloses ==
    /\ step = "closing" /\ closers["run"] = "done"
    /\ step' = "done"
    /\ UNCHANGED <<manager, results, current, heldVars>>

-----------------------------------------------------------------------------
\* stop() of the manager, by a cancellation, a time limit or a shutdown.
StopRequested ==
    /\ Yields /\ manager \notin Finished \cup {"stopping"}
    /\ manager' = "stopping"
    /\ IF sandbox = "none"
       THEN closers' = [closers EXCEPT !["stop"] = "done"]
            /\ UNCHANGED <<sandbox, listed, leaving, expired, armed, handle, container>>
       ELSE stopSandbox("stop")
    /\ UNCHANGED <<step, results, current, stopOnFailure, overtime>>

StopEnds ==
    /\ Yields /\ manager = "stopping" /\ closers["stop"] = "done"
    /\ manager' = "destroyed"
    /\ UNCHANGED <<step, results, current, heldVars>>

RunStep ==
    \/ CreateRefused \/ SandboxCreated \/ DockerCreates \/ DockerFails
    \/ RunnerStarts \/ RunnerRefuses \/ StreamOpens \/ StreamFails
    \/ SkipsTest \/ StartsTest \/ ActionsEnd \/ AssertionsDecide \/ CleanupEnds \/ ShotTaken
    \/ LoopEnds \/ RunCloses

SandboxNext ==
    \/ execute \/ RunStep \/ TestTimer \/ RunTimer
    \/ StopRequested \/ StopEnds
    \/ \E c \in Callers : StopAnswered(c) \/ Removed(c)
    \/ SandboxTimer \/ cleanupOrphans \/ Expires \/ EntryDeleted

\* Every await has a time limit or is answered, timers fire, the sweep is an
\* interval of the process.
SandboxFairness ==
    /\ WF_xVars(RunStep) /\ WF_xVars(StopEnds)
    /\ \A c \in Callers : WF_xVars(StopAnswered(c) \/ Removed(c))
    /\ WF_xVars(SandboxTimer) /\ WF_xVars(cleanupOrphans)
    /\ WF_xVars(Expires) /\ WF_xVars(EntryDeleted)

SandboxSpec == SandboxInit /\ [][SandboxNext]_xVars /\ SandboxFairness

-----------------------------------------------------------------------------
\* A run that is reported as completed has the status of every test, although
\* it may have been stopped, timed out or have lost its sandbox on the way: no
\* test was executed on a dependency that did not pass or on a browser that
\* cannot run it, nor after the failure at which its suite stops.
CompletedIsComplete ==
    manager = "completed" =>
        /\ Len(results) = Tests
        /\ \A t \in 1 .. Tests :
             results[t] # "skipped" =>
                /\ t \notin Unsupported
                /\ \A d \in 1 .. t - 1 : <<t, d>> \in Needs => results[d] \in Good
                /\ stopOnFailure => \A u \in 1 .. t - 1 : results[u] \notin Bad

\* A container whose handle the manager took while its sandbox was not yet
\* destroyed is removed in the end, whatever fails, stops or times out.
ContainersGo == (handle /\ sandbox # "destroyed") ~> (container = "gone")

\* What the manager reports of a run that ended is not reported again otherwise.
RunEndsOnce == [][(manager \in Finished) => UNCHANGED manager]_manager

\* Every run that was started ends, once, and its sandbox gives back its slot.
RunsClose ==
    /\ RunEndsOnce
    /\ (manager = "starting") ~> (manager \in Finished /\ step = "done" /\ ~ listed)

\* The containers and the runs of the manager come to an end.
SandboxSettles == ContainersGo /\ RunsClose
=============================================================================
