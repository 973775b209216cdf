--------------------------- MODULE TestExecution ----------------------------
(***************************************************************************)
(* What SandboxRun takes as the verdict of a test: the browser comes up in *)
(* the container and loads the extension, the steps of a test act on its   *)
(* page through the runner, its events reach the host through a stream,    *)
(* and the assertions are judged on what the host has by then.             *)
(*                                                                         *)
(* Chromium is driven over its own protocol, Firefox through a driver      *)
(* process whose commands swallow their failures.  The page changes by     *)
(* itself and under the steps: what a look finds is left open, and so is   *)
(* whether there is something to click.                                    *)
(***************************************************************************)
EXTENDS Naturals, Sequences, FiniteSets

CONSTANTS
    MaxTests,       \* tests that a run executes, a bound
    MaxEvents       \* what the host keeps of the stream

VARIABLES
    browserId,
    manifest,       \* what the extension declares: "everything" or "nothing" of it
    status,         \* the runner's word for the sandbox
    engine,         \* the browser: "none", "driver", "session", "up", "dead"
    extension,      \* the extension is in the browser that runs
    listening,      \* the runner accepted the stream of events
    events,         \* kinds of events that the host has kept
    kept,           \* how many it has kept
    test,           \* the test that runs
    stage,          \* where executeTest stands
    at,             \* the next step
    context,        \* the last look that was answered
    verdicts,        \* of each assertion
    result,         \* the status of the test
    timer,          \* the timer of the test: "off", "on", "fired"
    left,           \* tests still to run
    found           \* what answered looks of this test have found: selectors, visible or not

engineVars == <<engine, extension>>
streamVars == <<listening, events, kept>>
testVars == <<test, stage, at, context, verdicts, result, timer, left, found>>
teVars == <<browserId, manifest, status, engineVars, streamVars, testVars>>

Nothing == [exists |-> FALSE, visible |-> FALSE, says |-> FALSE]
Looks == {Nothing, [Nothing EXCEPT !.exists = TRUE], [exists |-> TRUE, visible |-> TRUE, says |-> TRUE]}
NoLook == [sel |-> "none", look |-> Nothing]
NoTest == [steps |-> <<>>, asserts |-> {}, cleanup |-> <<>>, category |-> "none"]

\* What a stream tells, as far as an assertion can ask for it: the extension
\* has loaded, its content script has spoken, an error, a refused request.
EventKinds == {"loaded", "script", "error", "refused"}
Network == {"refused"}

-----------------------------------------------------------------------------
(* The tests.                                                              *)
Act(type, sel) == [type |-> type, sel |-> sel]
TestCase(id, steps, asserts, category) ==
    [id |-> id, steps |-> steps, asserts |-> asserts, cleanup |-> <<>>, category |-> category]

getBuiltInTestCases == {
    TestCase("extension-loads", <<Act("open_url", "none"), Act("wait", "none")>>,
             {Act("extension_loaded", "none")}, "loading"),
    TestCase("test-page-loads",
             <<Act("open_url", "none"), Act("wait", "none"), Act("inspect_element", "#status")>>,
             {Act("url_contains", "test page"), Act("element_exists", "#status")}, "page"),
    TestCase("content-script",
             <<Act("open_url", "none"), Act("wait", "none"), Act("inspect_element", "#status")>>,
             {Act("content_script_detected", "none")}, "content_script"),
    TestCase("service-worker", <<Act("wait", "none")>>,
             {Act("service_worker_detected", "none")}, "service_worker"),
    TestCase("popup", <<Act("open_popup", "none")>>, {Act("popup_available", "none")}, "popup"),
    TestCase("console-runtime-errors", <<Act("wait", "none")>>,
             {Act("runtime_error_none", "none")}, "console"),
    TestCase("network-requests", <<Act("wait", "none")>>,
             {Act("network_5xx_none", "none")}, "network"),
    TestCase("permissions-broad", <<>>, {}, "permissions")}

applicable(t) ==
    t.id \in {"content-script", "service-worker", "popup", "permissions-broad"} =>
        manifest = "everything"

discoverTests == {t \in getBuiltInTestCases : applicable(t)}

\* Tests that users have written: of two elements, and of one looked at again
\* after a click.
SavedTest == {
    [TestCase("two", <<Act("inspect_element", "a"), Act("inspect_element", "b")>>,
              {Act("element_exists", "a"), Act("element_visible", "b"), Act("text_contains", "a")},
              "custom")
        EXCEPT !.cleanup = <<Act("click", "a")>>],
    TestCase("again", <<Act("inspect_element", "a"), Act("click", "a"), Act("inspect_element", "a")>>,
             {Act("element_visible", "a"), Act("url_contains", "elsewhere")}, "custom")}

Cases == discoverTests \cup SavedTest

\* Gecko runs the background of an extension as an event page.
staticallySkippedTestsForBrowser ==
    {t \in discoverTests : browserId = "firefox" /\ t.id = "service-worker"}

ExecutionInit ==
    /\ browserId \in {"chromium", "firefox"} /\ listening \in BOOLEAN
    /\ manifest \in {"everything", "nothing"}
    /\ status = "idle" /\ engine = "none" /\ extension = FALSE
    /\ events = {} /\ kept = 0
    /\ test = NoTest /\ stage = "launch" /\ at = 1 /\ context = NoLook /\ verdicts = <<>>
    /\ result = "none" /\ timer = "off" /\ left = MaxTests /\ found = {}

-----------------------------------------------------------------------------
(* The start of the browser.                                               *)
start ==
    /\ stage = "launch" /\ status = "idle"
    /\ status' = "starting" /\ engine' = "driver"
    /\ UNCHANGED <<browserId, manifest, extension, streamVars, testVars>>

\* The driver answers and makes a session; the browser's own port answers.
session ==
    /\ stage = "launch" /\ engine = "driver" /\ engine' = "session"
    /\ UNCHANGED <<browserId, manifest, status, extension, streamVars, testVars>>

\* Firefox installs the add-on.  Chromium may show a background context, if the
\* extension has one; its manifest, which was copied in, can be read anyway.
verifyExtensionLoaded == engine = "session" /\ (extension \/ browserId = "chromium")

\* A service worker of the extension may register long after the start.
install ==
    /\ engine = "session" \/ (engine = "up" /\ browserId = "chromium")
    /\ ~ extension /\ (browserId = "firefox" \/ manifest = "everything")
    /\ extension' = TRUE
    /\ UNCHANGED <<browserId, manifest, status, engine, streamVars, testVars>>

running ==
    /\ stage = "launch" /\ verifyExtensionLoaded
    /\ status' = "running" /\ engine' = "up" /\ stage' = "ready"
    /\ UNCHANGED <<browserId, manifest, extension, streamVars, test, at, context, verdicts, result,
                   timer, left, found>>

\* No driver, no session, no add-on, no answer in time.
startFails ==
    /\ stage = "launch" /\ status = "starting"
    /\ status' = "failed" /\ engine' = "none" /\ stage' = "over"
    /\ UNCHANGED <<browserId, manifest, extension, streamVars, test, at, context, verdicts, result, timer,
                   left, found>>

\* The browser, or its driver, exits; the runner stays.
exits ==
    /\ engine = "up" /\ engine' = "dead"
    /\ UNCHANGED <<browserId, manifest, status, extension, streamVars, testVars>>

-----------------------------------------------------------------------------
(* The page and its events.                                                *)
\* An event arrives at the host, however long it was on its way.  Requests are
\* kept besides the list that has a limit.
onRuntimeEvent(k) ==
    /\ listening /\ stage \notin {"launch", "over"} /\ k \notin events
    /\ k = "script" => manifest = "everything"
    /\ k \in Network \/ kept < MaxEvents
    /\ events' = events \cup {k}
    /\ kept' = IF kept < MaxEvents THEN kept + 1 ELSE kept
    /\ UNCHANGED <<browserId, manifest, status, engineVars, listening, testVars>>

\* The protocol of Chromium tells of a worker that registers, of the console, of
\* exceptions and of responses.
attachListeners(k) ==
    /\ browserId = "chromium" /\ (k = "loaded" => extension)
    /\ onRuntimeEvent(k)

\* The driver of Firefox tells of the console, of errors and, at times, of
\* responses; of the installation the runner tells itself.
handleBidiEvent(k) == browserId = "firefox" /\ k # "loaded" /\ onRuntimeEvent(k)
installed == browserId = "firefox" /\ extension /\ onRuntimeEvent("loaded")

-----------------------------------------------------------------------------
(* The actions of a test, as the runner answers them.                      *)
Swallows == engine = "up" \/ browserId = "firefox"

\* What the runner can find where the test looks, if it answers at all.
handleTestAction(a) ==
    IF a.type # "inspect_element" \/ ~ Swallows THEN {} ELSE IF engine = "up" THEN Looks ELSE {Nothing}

skippedResult(t) ==
    /\ stage = "ready" /\ left > 0 /\ t \in staticallySkippedTestsForBrowser
    /\ test' = t /\ result' = "skipped" /\ left' = left - 1 /\ verdicts' = <<>>
    /\ UNCHANGED <<browserId, manifest, status, engineVars, streamVars, stage, at, context,
                   timer, found>>

executeTest(t) ==
    /\ stage = "ready" /\ left > 0 /\ t \notin staticallySkippedTestsForBrowser
    /\ test' = t /\ stage' = "step" /\ at' = 1 /\ left' = left - 1
    /\ context' = NoLook /\ found' = {} /\ verdicts' = <<>>
    /\ result' = "running" /\ timer' = "on"
    /\ UNCHANGED <<browserId, manifest, status, engineVars, streamVars>>

\* A look that is not answered leaves the last one where it was.
actionAnswers ==
    LET a == test.steps[at] IN
    /\ stage = "step" /\ at <= Len(test.steps)
    /\ IF a.type = "open_popup"
       THEN result' = "skipped" /\ at' = Len(test.steps) + 1
       ELSE UNCHANGED result /\ at' = at + 1
    /\ IF handleTestAction(a) = {} THEN UNCHANGED <<context, found>>
       ELSE \E l \in handleTestAction(a) :
                /\ context' = [sel |-> a.sel, look |-> l]
                /\ found' = IF l.exists THEN found \cup {[sel |-> a.sel, visible |-> l.visible]} ELSE found
    /\ UNCHANGED <<browserId, manifest, status, engine, extension, streamVars, test, stage, verdicts,
                   timer, left>>

\* The runner is gone, or does not answer in six seconds: the test is over.
actionThrows ==
    /\ stage = "step" /\ at <= Len(test.steps)
    /\ result' = IF result \in {"skipped", "timeout"} THEN result ELSE "error"
    /\ stage' = "ready" /\ timer' = "off"
    /\ UNCHANGED <<browserId, manifest, status, engineVars, streamVars, test, at, context, verdicts, left, found>>

testTimer ==
    /\ timer = "on" /\ stage \in {"step", "cleanup"}
    /\ timer' = "fired" /\ result' = "timeout"
    /\ UNCHANGED <<browserId, manifest, status, engineVars, streamVars, test, stage, at, context, verdicts,
                   left, found>>

-----------------------------------------------------------------------------
(* The judgement.                                                          *)
capabilitiesForBrowser ==
    {"serviceWorker", "popup", "contentScripts", "consoleEvents", "networkEvents"}
        \cup IF browserId = "firefox" THEN {} ELSE {"networkStatusCodes"}

ASSERTION_REQUIRED_CAPABILITIES(type) ==
    CASE type = "network_5xx_none" -> {"networkStatusCodes"}
      [] type = "content_script_detected" -> {"contentScripts"}
      [] type = "service_worker_detected" -> {"serviceWorker"}
      [] type = "popup_available" -> {"popup"}
      [] type = "runtime_error_none" -> {"consoleEvents"}
      [] OTHER -> {}

isAssertionSupported(a) == ASSERTION_REQUIRED_CAPABILITIES(a.type) \subseteq capabilitiesForBrowser

\* Mutated requireElement: of whichever element was looked at last.
requireAnyElement(a) ==
    /\ context.look.exists
    /\ a.type = "element_visible" => context.look.visible

requireElement(a) ==
    /\ context.sel \in {"none", a.sel} /\ context.look.exists
    /\ a.type = "element_visible" => context.look.visible

\* The text is the text of the element that was looked at last, and the address
\* is the one the run was started with.
evaluateAssertion(a) ==
    CASE a.type \in {"element_exists", "element_visible"} -> requireElement(a)
      [] a.type = "text_contains" -> context.look.says
      [] a.type = "url_contains" -> a.sel = "test page"
      [] a.type = "extension_loaded" -> "loaded" \in events
      [] a.type = "service_worker_detected" -> "loaded" \in events /\ browserId = "chromium"
      [] a.type = "content_script_detected" -> "script" \in events
      [] a.type = "popup_available" -> FALSE
      [] a.type = "runtime_error_none" -> "error" \notin events
      [] a.type = "network_5xx_none" -> "refused" \notin events

assertionsDecide ==
    /\ stage = "step" /\ at > Len(test.steps)
    /\ IF result = "running"
       THEN /\ verdicts' = [a \in test.asserts |->
                             IF ~ isAssertionSupported(a) THEN "skipped"
                             ELSE IF evaluateAssertion(a) THEN "passed" ELSE "failed"]
            /\ stage' = "cleanup" /\ at' = 1 /\ UNCHANGED timer
       ELSE stage' = "ready" /\ timer' = "off" /\ UNCHANGED <<verdicts, at>>
    /\ UNCHANGED <<browserId, manifest, status, engineVars, streamVars, test, context, result, left, found>>

\* Answered or not, a step of the cleanup costs a warning at most.
cleanupStep ==
    /\ stage = "cleanup" /\ at <= Len(test.cleanup)
    /\ at' = at + 1
    /\ UNCHANGED <<browserId, manifest, status, engine, extension, streamVars, test, stage, context,
                   verdicts, result, timer, left, found>>

Failed == \E a \in test.asserts : verdicts[a] = "failed"

\* Mutated verdict: an assertion that was skipped was not met.
verdictOfUnmet ==
    IF \E a \in test.asserts : verdicts[a] # "passed"
    THEN IF test.category = "content_script" THEN "skipped" ELSE "failed"
    ELSE IF test.category = "permissions" THEN "warning" ELSE "passed"

verdict ==
    IF test.asserts # {} /\ \A a \in test.asserts : verdicts[a] = "skipped" THEN "skipped"
    ELSE IF Failed THEN IF test.category = "content_script" THEN "skipped" ELSE "failed"
    ELSE IF test.category = "permissions" THEN "warning" ELSE "passed"

\* The verdict takes the place of a timeout that came during the cleanup.
concludes ==
    /\ stage = "cleanup" /\ at > Len(test.cleanup)
    /\ result' = verdict /\ stage' = "ready" /\ timer' = "off"
    /\ UNCHANGED <<browserId, manifest, status, engineVars, streamVars, test, at, context, verdicts, left, found>>

\* The run is over: its sandbox is removed.
runEnds ==
    /\ stage = "ready" /\ left = 0
    /\ stage' = "over" /\ status' = "stopped" /\ engine' = "none"
    /\ UNCHANGED <<browserId, manifest, extension, streamVars, test, at, context, verdicts, result, timer,
                   left, found>>

ExecutionNext ==
    \/ start \/ session \/ install \/ running \/ startFails \/ exits
    \/ installed
    \/ \E k \in EventKinds : attachListeners(k) \/ handleBidiEvent(k)
    \/ \E t \in Cases : executeTest(t) \/ skippedResult(t)
    \/ actionAnswers \/ actionThrows \/ testTimer
    \/ assertionsDecide \/ cleanupStep \/ concludes \/ runEnds

ExecutionSpec == ExecutionInit /\ [][ExecutionNext]_teVars

-----------------------------------------------------------------------------
\* "Every assertion is evaluated against evidence that was actually observed"
\* (src/lib/testing/assertions.ts:12): when a test is said to have found an
\* element, a look of this very test, at this element, was answered and found it.
ElementsAreSeen ==
    \A a \in DOMAIN verdicts : verdicts[a] = "passed" =>
        /\ a.type = "element_exists" => \E f \in found : f.sel = a.sel
        /\ a.type = "element_visible" => [sel |-> a.sel, visible |-> TRUE] \in found

\* "never as a failure of the extension" (src/lib/browsers/test-compat.ts:9): a
\* test that failed has an assertion that this browser supports and that did
\* not hold.
FailuresAreBlamed ==
    stage = "ready" /\ result = "failed" =>
        \E a \in test.asserts : isAssertionSupported(a) /\ verdicts[a] = "failed"

VerdictsAreEarned == ElementsAreSeen /\ FailuresAreBlamed
=============================================================================
