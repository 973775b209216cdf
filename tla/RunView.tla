------------------------------ MODULE RunView -------------------------------
(***************************************************************************)
(* The live page of a test run (components/tester/AutomatedTestRunView.tsx *)
(* in TestRunBrowser.tsx) and the stream of its events                     *)
(* (app/api/tests/[runId]/events/stream).  The page polls the status every *)
(* 1.5 s while the run is active, each poll without regard to the others,  *)
(* and reads the stream, which it resumes after the last event it saw.     *)
(* Once the run is over it hands over to the report.                       *)
(***************************************************************************)
EXTENDS Integers, Sequences, FiniteSets, SequencesExt

CONSTANTS
    MaxEvents,      \* bound on the events of the run
    Polls,          \* bound on the polls in flight at once
    MaxBreaks       \* bound on broken streams and failed polls

ASSUME RunViewAssumption == MaxEvents \in Nat /\ MaxBreaks \in Nat

VARIABLES
    testRun,            \* whether it is over, and the number of its events
    info,           \* what the page knows of it: "none", "active" or "over"
    polling,        \* the interval is set
    due,            \* a refresh beside those of the interval
    polls,          \* the polls in flight
    loop,           \* the reader of the stream and the route's side of it
    pipe,           \* what the stream sent and the page has not read
    shownEvents,    \* the events on the page; its last is lastEventId
    timer,          \* the 1200 ms before the report are running
    finishedNotified,
    live,           \* TestRunBrowser shows the live page
    breaks

vVars == <<testRun, info, polling, due, polls, loop, pipe, shownEvents, timer, finishedNotified, live, breaks>>
pageVars == <<info, polling, timer, finishedNotified, live>>

LoopOff == [at |-> "off", after |-> 0, idleTicks |-> 0]
Begin   == [LoopOff EXCEPT !.at = "connecting"]
Done    == 0        \* the message "done"; events are numbers from 1

RunViewInit ==
    /\ testRun = [over |-> FALSE, events |-> 0]
    /\ info = "none" /\ polling = FALSE /\ due = FALSE
    /\ polls = [p \in Polls |-> "idle"]
    /\ loop = LoopOff /\ pipe = <<>> /\ shownEvents = <<>>
    /\ timer = FALSE /\ finishedNotified = FALSE /\ live = FALSE
    /\ breaks = 0

lastEventId == IF shownEvents = <<>> THEN 0 ELSE shownEvents[Len(shownEvents)]

\* The worker and the queue write events, a few of them after the status.
RunMoves ==
    /\ \/ testRun.events < MaxEvents /\ testRun' = [testRun EXCEPT !.events = @ + 1]
       \/ ~testRun.over /\ testRun' = [testRun EXCEPT !.over = TRUE]
    /\ UNCHANGED <<pageVars, due, polls, loop, pipe, shownEvents, breaks>>

-----------------------------------------------------------------------------
\* TestRunBrowser finds the run active and shows the live page.
TestRunBrowser ==
    /\ info = "none" /\ ~polling
    /\ live' = TRUE /\ polling' = TRUE /\ due' = TRUE /\ loop' = Begin
    /\ UNCHANGED <<testRun, info, timer, finishedNotified, polls, pipe, shownEvents, breaks>>

\* Mutated setInfo: the effects run when the page mounts.
setInfoOnce(v) ==
    /\ info' = v
    /\ IF v = "over" THEN polling' = FALSE /\ loop' = LoopOff /\ pipe' = <<>>
                     ELSE UNCHANGED <<polling, loop, pipe>>
    /\ timer' = (v = "over" /\ ~finishedNotified)
    /\ finishedNotified' = (finishedNotified \/ v = "over")

\* setInfo and the three effects: the interval and the reader depend on
\* `active`, the timer on the object, which is new with each answer.
setInfo(v) ==
    /\ info' = v
    /\ polling' = (v # "over")
    /\ IF v = "over" THEN loop' = LoopOff /\ pipe' = <<>>
       ELSE IF info = "over" THEN loop' = Begin /\ pipe' = <<>>
       ELSE UNCHANGED <<loop, pipe>>
    /\ timer' = (v = "over" /\ ~finishedNotified)
    /\ finishedNotified' = (finishedNotified \/ v = "over")

\* refresh: the interval, or the one that an effect, "done" or a stop asks for.
refresh(p) ==
    /\ live /\ polls[p] = "idle" /\ (polling \/ due)
    /\ polls' = [polls EXCEPT ![p] = "sent"]
    /\ due' = FALSE
    /\ UNCHANGED <<testRun, pageVars, loop, pipe, shownEvents, breaks>>

buildRunInfo(p) ==
    /\ polls[p] = "sent"
    /\ polls' = [polls EXCEPT ![p] = IF testRun.over THEN "over" ELSE "active"]
    /\ UNCHANGED <<testRun, pageVars, due, loop, pipe, shownEvents, breaks>>

\* The effect on `active` refreshes once more, whichever way it changed.
Refreshed(p) ==
    /\ live /\ polls[p] \in {"active", "over"}
    /\ setInfo(polls[p])
    /\ due' = (due \/ (info = "over") # (polls[p] = "over"))
    /\ polls' = [polls EXCEPT ![p] = "idle"]
    /\ UNCHANGED <<testRun, shownEvents, live, breaks>>

RefreshFails(p) ==
    /\ polls[p] # "idle" /\ breaks < MaxBreaks /\ breaks' = breaks + 1
    /\ polls' = [polls EXCEPT ![p] = "idle"]
    /\ UNCHANGED <<testRun, pageVars, due, loop, pipe, shownEvents>>

stopTests ==
    /\ live /\ info # "over" /\ ~testRun.over
    /\ testRun' = [testRun EXCEPT !.over = TRUE] /\ due' = TRUE
    /\ UNCHANGED <<pageVars, polls, loop, pipe, shownEvents, breaks>>

-----------------------------------------------------------------------------
\* Mutated connectEvents: the route goes on where it stopped sending.
connectAfterSent ==
    /\ live /\ loop.at = "connecting"
    /\ loop' = [loop EXCEPT !.at = "open"]
    /\ UNCHANGED <<testRun, pageVars, due, polls, pipe, shownEvents, breaks>>

connectEvents ==
    /\ live /\ loop.at = "connecting"
    /\ loop' = [at |-> "open", after |-> lastEventId, idleTicks |-> 0]
    /\ UNCHANGED <<testRun, pageVars, due, polls, pipe, shownEvents, breaks>>

\* One tick of the route: the events after the last it sent; on the second
\* tick after the end it says so and closes.
pump ==
    /\ loop.at = "open" /\ loop.idleTicks < 2
    /\ testRun.over \/ loop.after < testRun.events
    /\ LET ticks == IF testRun.over THEN loop.idleTicks + 1 ELSE 0 IN
       /\ loop' = [loop EXCEPT !.after = testRun.events, !.idleTicks = ticks]
       /\ pipe' = pipe \o [i \in 1 .. testRun.events - loop.after |-> loop.after + i]
                       \o (IF ticks = 2 THEN <<Done>> ELSE <<>>)
    /\ UNCHANGED <<testRun, pageVars, due, polls, shownEvents, breaks>>

onEvent ==
    /\ live /\ pipe # <<>>
    /\ \/ /\ Head(pipe) # Done
          /\ shownEvents' = Append(shownEvents, Head(pipe)) /\ pipe' = Tail(pipe)
          /\ UNCHANGED <<pageVars, due, loop>>
       \/ /\ Head(pipe) = Done
          /\ setInfo("over") /\ due' = TRUE
          /\ UNCHANGED <<live, shownEvents>>
    /\ UNCHANGED <<testRun, polls, breaks>>

\* The connection is lost, or reaches its thirty minutes: again after 2 s.
StreamBreaks ==
    /\ loop.at = "open" /\ breaks < MaxBreaks /\ breaks' = breaks + 1
    /\ loop' = [loop EXCEPT !.at = "connecting"] /\ pipe' = <<>>
    /\ UNCHANGED <<testRun, pageVars, due, polls, shownEvents>>

\* 1200 ms after the end: the report replaces the page.
onFinished ==
    /\ live /\ timer
    /\ timer' = FALSE /\ live' = FALSE
    /\ UNCHANGED <<testRun, info, polling, finishedNotified, due, polls, loop, pipe, shownEvents, breaks>>

RunViewNext ==
    \/ TestRunBrowser \/ RunMoves \/ stopTests \/ connectEvents \/ pump \/ onEvent \/ StreamBreaks \/ onFinished
    \/ \E p \in Polls : refresh(p) \/ buildRunInfo(p) \/ Refreshed(p) \/ RefreshFails(p)

RunViewFairness ==
    /\ WF_vVars(connectEvents) /\ WF_vVars(pump) /\ WF_vVars(onEvent) /\ WF_vVars(onFinished)
    /\ \A p \in Polls : WF_vVars(refresh(p)) /\ WF_vVars(buildRunInfo(p)) /\ WF_vVars(Refreshed(p))

RunViewSpec == RunViewInit /\ [][RunViewNext]_vVars /\ RunViewFairness

-----------------------------------------------------------------------------
\* However often the stream breaks and resumes, and the status is polled
\* beside it, the page shows the events of the run in their order, each once
\* and none left out between two of them.
EventsResume == shownEvents = [i \in 1 .. Len(shownEvents) |-> i]

\* Whatever order the answers come in, the page ends up showing that a run
\* that is over is over.
PageFollowsRun == <>[]((live /\ testRun.over) => info = "over")

-----------------------------------------------------------------------------
(***************************************************************************)
(* The page of a browser matrix (components/tester/MatrixRunView.tsx) and  *)
(* the stream that tells it of changes                                     *)
(* (app/api/tests/matrix/[runId]/events/stream).  The stream carries no    *)
(* view: each message makes the page fetch one, and each view that arrives *)
(* closes the stream and, unless the matrix is over, opens another.        *)
(***************************************************************************)

CONSTANTS
    MaxChanges,     \* bound on the changes of the matrix; the last is its end
    Fetches,        \* bound on the fetches in flight at once
    MaxOutages      \* bound on broken streams and failed fetches

ASSUME MatrixViewAssumption == MaxChanges \in Nat \ {0} /\ MaxOutages \in Nat

VARIABLES
    signature,      \* the state of the matrix, counted by its changes
    matrixView,     \* the state the page shows; 0 for none, -1 before it is opened
    source,         \* the EventSource and the route's side of it
    messages,       \* sent and not read
    fetches,        \* the fetches in flight: their state on the way back
    wanted,         \* a refresh is asked for
    failed,         \* a fetch failed since the last that arrived
    outages

mvVars == <<signature, matrixView, source, messages, fetches, wanted, failed, outages>>

SourceOff == [at |-> "closed", last |-> 0]
SourceOpen == [at |-> "open", last |-> 0]
Ended(s)  == s = MaxChanges
Unopened  == -1
Idle      == 0
Sent      == MaxChanges + 1

MatrixViewInit ==
    /\ signature = 1 /\ matrixView = Unopened
    /\ source = SourceOff /\ messages = <<>>
    /\ fetches = [f \in Fetches |-> Idle] /\ wanted = FALSE
    /\ failed = FALSE /\ outages = 0

MatrixRunView ==
    /\ matrixView = Unopened
    /\ matrixView' = 0 /\ wanted' = TRUE
    /\ UNCHANGED <<signature, source, messages, fetches, failed, outages>>

MatrixMoves ==
    /\ signature < MaxChanges
    /\ signature' = signature + 1
    /\ UNCHANGED <<matrixView, source, messages, fetches, wanted, failed, outages>>

RefreshView(f) ==
    /\ wanted /\ fetches[f] = Idle
    /\ wanted' = FALSE /\ fetches' = [fetches EXCEPT ![f] = Sent]
    /\ UNCHANGED <<signature, matrixView, source, messages, failed, outages>>

ViewRead(f) ==
    /\ fetches[f] = Sent
    /\ fetches' = [fetches EXCEPT ![f] = signature]
    /\ UNCHANGED <<signature, matrixView, source, messages, wanted, failed, outages>>

\* setView, and the effect that depends on the view.
setView(f) ==
    /\ fetches[f] \notin {Idle, Sent}
    /\ matrixView' = fetches[f] /\ failed' = FALSE
    /\ source' = IF Ended(fetches[f]) THEN SourceOff ELSE SourceOpen
    /\ messages' = <<>>
    /\ fetches' = [fetches EXCEPT ![f] = Idle]
    /\ UNCHANGED <<signature, wanted, outages>>

\* The fetch is lost: nothing tries again.
FetchFails(f) ==
    /\ fetches[f] # Idle /\ outages < MaxOutages /\ outages' = outages + 1
    /\ fetches' = [fetches EXCEPT ![f] = Idle] /\ failed' = TRUE
    /\ UNCHANGED <<signature, matrixView, source, messages, wanted>>

\* A tick of the route: the first, one after a change, and the last, which
\* ends the stream.
pumpMatrix ==
    /\ source.at = "open" /\ signature # source.last
    /\ source' = [at |-> IF Ended(signature) THEN "ended" ELSE "open", last |-> signature]
    /\ messages' = Append(messages, "matrix") \o (IF Ended(signature) THEN <<"done">> ELSE <<>>)
    /\ UNCHANGED <<signature, matrixView, fetches, wanted, failed, outages>>

onmessage ==
    /\ messages # <<>>
    /\ wanted' = TRUE
    /\ IF Head(messages) = "done" THEN source' = SourceOff /\ messages' = <<>>
                                  ELSE messages' = Tail(messages) /\ UNCHANGED source
    /\ UNCHANGED <<signature, matrixView, fetches, failed, outages>>

\* Mutated onerror: the stream that breaks is only closed.
onerrorCloses ==
    /\ source.at \in {"open", "ended"} /\ messages = <<>> /\ outages < MaxOutages
    /\ outages' = outages + 1 /\ source' = SourceOff
    /\ UNCHANGED <<signature, matrixView, messages, fetches, wanted, failed>>

\* The stream breaks, or reaches its fifteen minutes.
onerror ==
    /\ source.at \in {"open", "ended"} /\ messages = <<>> /\ outages < MaxOutages
    /\ outages' = outages + 1 /\ source' = SourceOff /\ wanted' = TRUE
    /\ UNCHANGED <<signature, matrixView, messages, fetches, failed>>

MatrixViewNext ==
    \/ MatrixRunView \/ MatrixMoves \/ pumpMatrix \/ onmessage \/ onerror
    \/ \E f \in Fetches : RefreshView(f) \/ ViewRead(f) \/ setView(f) \/ FetchFails(f)

MatrixViewFairness ==
    /\ WF_mvVars(pumpMatrix) /\ WF_mvVars(onmessage)
    /\ \A f \in Fetches : WF_mvVars(RefreshView(f)) /\ WF_mvVars(ViewRead(f)) /\ WF_mvVars(setView(f))

MatrixViewSpec == MatrixViewInit /\ [][MatrixViewNext]_mvVars /\ MatrixViewFairness

-----------------------------------------------------------------------------
\* The page ends up showing the matrix as it is, whatever order the fetches
\* come back in and however often the stream breaks, unless a fetch was lost
\* and none came back after it.
PageFollowsMatrix == <>[](matrixView \in {signature, Unopened} \/ failed)

-----------------------------------------------------------------------------
(***************************************************************************)
(* The picture of the browser on the page of an interactive session: the   *)
(* polls of BrowserWorkspace.tsx, the capture of lib/interactive/service.ts*)
(* and the cache of the hub (lib/interactive/runtime.ts), which another    *)
(* viewer shares.  A capture awaits the container: what it returns may be  *)
(* older than what is cached or shown by then.                             *)
(***************************************************************************)

CONSTANTS
    MaxPictures,    \* bound on the changes of the page in the container
    Extra,          \* the polls that a reload, a restart or a viewport schedules
    MaxMisses       \* bound on captures without a picture and lost answers

ASSUME FrameAssumption == MaxPictures \in Nat /\ MaxMisses \in Nat /\ Extra \subseteq Nat \ {0}

VARIABLES
    picture,        \* the page in the container, counted by its changes
    frameCache,     \* what the hub holds, and whether it is younger than the interval
    captures,       \* the polls: 0 is the tick's, Extra those beside it
    pictureShown,   \* on the page; 0 for none
    opened,         \* the page is open and the session live
    misses

fVars == <<picture, frameCache, captures, pictureShown, opened, misses>>

Frames  == {0} \cup Extra
NoPoll  == [at |-> "idle", got |-> 0]

FrameInit ==
    /\ picture = 1
    /\ frameCache = [picture |-> 0, fresh |-> FALSE]
    /\ captures = [f \in Frames |-> NoPoll]
    /\ pictureShown = 0 /\ opened = FALSE /\ misses = 0

PageOpens ==
    /\ ~opened /\ opened' = TRUE
    /\ UNCHANGED <<picture, frameCache, captures, pictureShown, misses>>

PageChanges ==
    /\ picture < MaxPictures /\ picture' = picture + 1
    /\ UNCHANGED <<frameCache, captures, pictureShown, opened, misses>>

IntervalPasses ==
    /\ frameCache.fresh
    /\ frameCache' = [frameCache EXCEPT !.fresh = FALSE]
    /\ UNCHANGED <<picture, captures, pictureShown, opened, misses>>

Stage(f, at, got) == captures' = [captures EXCEPT ![f] = [at |-> at, got |-> got]]

\* The tick polls when its last poll has ended; the timeouts poll once.
pollFrames(f) ==
    /\ opened /\ captures[f].at = "idle"
    /\ Stage(f, "asked", 0)
    /\ UNCHANGED <<picture, frameCache, pictureShown, opened, misses>>

\* Mutated captureFrame: the first frame is good for ever.
captureOnce(f) ==
    /\ captures[f].at = "asked"
    /\ IF frameCache.picture # 0 THEN Stage(f, "answered", frameCache.picture) ELSE Stage(f, "capturing", 0)
    /\ UNCHANGED <<picture, frameCache, pictureShown, opened, misses>>

\* A frame of the cache, if it is young; otherwise the container is asked.
captureFrame(f) ==
    /\ captures[f].at = "asked"
    /\ IF frameCache.fresh THEN Stage(f, "answered", frameCache.picture) ELSE Stage(f, "capturing", 0)
    /\ UNCHANGED <<picture, frameCache, pictureShown, opened, misses>>

Rendered(f) ==
    /\ captures[f].at = "capturing"
    /\ Stage(f, "rendered", picture)
    /\ UNCHANGED <<picture, frameCache, pictureShown, opened, misses>>

\* The frame reaches the hub, which replaces what it holds; one that is empty
\* or too large is answered with what it holds, or with an error.
CaptureReturns(f) ==
    /\ captures[f].at = "rendered"
    /\ \/ /\ frameCache' = [picture |-> captures[f].got, fresh |-> TRUE]
          /\ Stage(f, "answered", captures[f].got) /\ UNCHANGED misses
       \/ /\ misses < MaxMisses /\ misses' = misses + 1
          /\ Stage(f, "answered", frameCache.picture) /\ UNCHANGED frameCache
    /\ UNCHANGED <<picture, pictureShown, opened>>

\* The answer replaces the picture, if it has one; the tick may poll again.
FrameArrives(f) ==
    /\ captures[f].at = "answered"
    /\ pictureShown' = IF captures[f].got = 0 THEN pictureShown ELSE captures[f].got
    /\ Stage(f, IF f = 0 THEN "idle" ELSE "over", 0)
    /\ UNCHANGED <<picture, frameCache, opened, misses>>

FrameLost(f) ==
    /\ captures[f].at \in {"asked", "capturing", "rendered", "answered"}
    /\ misses < MaxMisses /\ misses' = misses + 1
    /\ Stage(f, IF f = 0 THEN "idle" ELSE "over", 0)
    /\ UNCHANGED <<picture, frameCache, pictureShown, opened>>

FrameNext ==
    \/ PageOpens \/ PageChanges \/ IntervalPasses
    \/ \E f \in Frames : \/ pollFrames(f) \/ captureFrame(f) \/ Rendered(f) \/ CaptureReturns(f)
                         \/ FrameArrives(f) \/ FrameLost(f)

\* The session is live and the page visible: the interval fires, and requests
\* are answered.
FrameFairness ==
    /\ WF_fVars(IntervalPasses) /\ WF_fVars(pollFrames(0))
    /\ \A f \in Frames : /\ WF_fVars(captureFrame(f)) /\ WF_fVars(Rendered(f))
                         /\ WF_fVars(CaptureReturns(f)) /\ WF_fVars(FrameArrives(f))

FrameSpec == FrameInit /\ [][FrameNext]_fVars /\ FrameFairness

-----------------------------------------------------------------------------
\* A page that no longer changes is what its viewers end up seeing, though
\* late captures replace younger ones in the cache and on the page.
PictureCatchesUp == <>[](opened => pictureShown = picture)

-----------------------------------------------------------------------------
(***************************************************************************)
(* A sandbox a user watches: the card that launches it                     *)
(* (components/tester/RuntimeLaunchCard.tsx), the manager's record of it   *)
(* (lib/runtime/sandbox-manager.ts, behind the routes of api/sandbox) and  *)
(* the page that follows it (components/tester/TesterApp.tsx).  The page   *)
(* polls the status and the events on two timers, reads a stream that is   *)
(* opened once, and sends commands: the answers come back in any order.    *)
(***************************************************************************)

CONSTANTS
    MaxConsole,     \* bound on the events of the runner
    MaxShown,       \* the events the page keeps
    Requests        \* bounds on the polls in flight

ASSUME TesterPageAssumption == MaxConsole \in Nat /\ MaxShown \in Nat \ {0}

VARIABLES
    card,           \* the launch
    sandbox,        \* the manager's snapshot: its status; `known`: not yet deleted; `timed`: its time
                    \* was over; `asked`: a poll saw the end
    destroying,     \* the calls of destroy that await the removal of the container
    emitted, kept,  \* the runner's events: how many, and the ones the snapshot holds
    tester,         \* the page: the status it shows, `fatal` once it says the sandbox is unavailable
    shown, seen,    \* its events in the order they arrived, and their ids
    feed,           \* the stream: [at, frames]
    answers         \* the answers on their way back

tpVars == <<card, sandbox, destroying, emitted, kept, tester, shown, seen, feed, answers>>

Active  == {"preparing", "creating", "loading_extension", "running"}
Over    == {"failed", "timeout", "destroyed"}
NoPage  == [open |-> FALSE, status |-> "none", fatal |-> FALSE]

TesterInit ==
    /\ card = "idle" /\ destroying = {} /\ emitted = 0 /\ kept = {}
    /\ sandbox = [status |-> "none", asked |-> FALSE, known |-> FALSE, timed |-> FALSE]
    /\ tester = NoPage /\ shown = <<>> /\ seen = {} /\ answers = {}
    /\ feed = [at |-> "none", frames |-> <<>>]

pageSide == <<tester, shown, seen, feed, answers>>

-----------------------------------------------------------------------------
(* The launch: create, start, and stop when the start was refused.          *)

create ==
    /\ card = "idle"
    /\ \/ card' = "starting"
          /\ sandbox' = [sandbox EXCEPT !.status = "preparing", !.known = TRUE]
       \/ card' = "refused" /\ UNCHANGED sandbox
    /\ UNCHANGED <<destroying, emitted, kept, pageSide>>

\* The manager's start: the breaker, the container and the browser may each
\* refuse; a start that was refused answers the card with an error.
start ==
    /\ sandbox.status \in {"preparing", "creating", "loading_extension"}
    /\ \E next \in {"failed", CASE sandbox.status = "preparing" -> "creating"
                                [] sandbox.status = "creating" -> "loading_extension"
                                [] OTHER -> "running"} :
           /\ sandbox' = [sandbox EXCEPT !.status = next]
           /\ card' = CASE card = "starting" /\ next = "failed" -> "undoing"
                        [] card = "starting" /\ next = "running" -> "started"
                        [] OTHER -> card
    /\ UNCHANGED <<destroying, emitted, kept, pageSide>>

\* The answer of the start is lost: the card says so, the start goes on.
startLost ==
    /\ card = "starting"
    /\ card' = "lost"
    /\ UNCHANGED <<sandbox, destroying, emitted, kept, pageSide>>

undo ==
    /\ card = "undoing" /\ card' = "refused"
    /\ sandbox' = [sandbox EXCEPT !.status = "stopping"]
    /\ destroying' = destroying \union {"destroyed"}
    /\ UNCHANGED <<emitted, kept, pageSide>>

openPage ==
    /\ card = "started" /\ card' = "pushed"
    /\ tester' = [tester EXCEPT !.open = TRUE]
    /\ feed' = [feed EXCEPT !.at = "asked"]
    /\ UNCHANGED <<sandbox, destroying, emitted, kept, shown, seen, answers>>

-----------------------------------------------------------------------------
(* The manager.                                                             *)

emitEvents ==
    /\ sandbox.status = "running" /\ emitted < MaxConsole
    /\ emitted' = emitted + 1 /\ kept' = kept \union {emitted + 1}
    /\ feed' = IF feed.at = "open" THEN [feed EXCEPT !.frames = Append(@, emitted + 1)] ELSE feed
    /\ UNCHANGED <<card, sandbox, destroying, tester, shown, seen, answers>>

\* The timer of the run, and the sweep of the snapshots past their time.
timeOut ==
    /\ sandbox.known /\ sandbox.status \in {"running", "failed", "stopping"}
    /\ ~ sandbox.timed /\ sandbox' = [sandbox EXCEPT !.timed = TRUE]
    /\ destroying' = destroying \union {"timeout"}
    /\ UNCHANGED <<card, emitted, kept, pageSide>>

destroy(status) ==
    /\ status \in destroying
    /\ destroying' = destroying \ {status}
    /\ sandbox' = [sandbox EXCEPT !.status = status]
    /\ UNCHANGED <<card, emitted, kept, pageSide>>

\* The grace is over: the snapshot and its listeners are deleted.  It is five
\* seconds: the page is open by then, and polls the status every second.
forget ==
    /\ sandbox.known /\ sandbox.status \in {"timeout", "destroyed"} /\ destroying = {}
    /\ card # "started" /\ (tester.open => sandbox.asked)
    /\ sandbox' = [sandbox EXCEPT !.known = FALSE]
    /\ kept' = {}
    /\ feed' = [at |-> IF feed.at = "none" THEN "none" ELSE "silent", frames |-> <<>>]
    /\ UNCHANGED <<card, destroying, emitted, tester, shown, seen, answers>>

-----------------------------------------------------------------------------
(* The page.                                                                *)

Answer(kind) == {a \in answers : a.kind = kind}
Ask(kind)    == Cardinality(Answer(kind)) < Requests[kind] /\ tester.open /\ sandbox.known

pollStatus ==
    /\ Ask("status")
    /\ answers' = answers \union {[kind |-> "status", status |-> sandbox.status]}
    /\ sandbox' = [sandbox EXCEPT !.asked = @ \/ sandbox.status \in {"timeout", "destroyed"}]
    /\ UNCHANGED <<card, destroying, emitted, kept, tester, shown, seen, feed>>

StatusArrives(a) ==
    /\ a \in Answer("status")
    /\ answers' = answers \ {a}
    /\ tester' = [tester EXCEPT !.status = a.status, !.fatal = @ \/ a.status \in Over]
    /\ UNCHANGED <<card, sandbox, destroying, emitted, kept, shown, seen, feed>>

\* Each event once, in the order it came; the page keeps the last ones.
addEvents(incoming) ==
    LET fresh == SelectSeq(incoming, LAMBDA e : e \notin seen)
        all   == shown \o fresh
    IN  /\ shown' = SubSeq(all, IF Len(all) > MaxShown THEN Len(all) - MaxShown + 1 ELSE 1, Len(all))
        /\ seen' = seen \union ToSet(fresh)

pollEvents ==
    /\ Ask("events")
    /\ answers' = answers \union {[kind |-> "events", ids |-> kept]}
    /\ UNCHANGED <<card, sandbox, destroying, emitted, kept, tester, shown, seen, feed>>

EventsArrive(a) ==
    /\ a \in Answer("events")
    /\ answers' = answers \ {a}
    /\ addEvents(SetToSortSeq(a.ids, <))
    /\ UNCHANGED <<card, sandbox, destroying, emitted, kept, tester, feed>>

\* The stream is opened once: refused after the snapshot is deleted, and not
\* opened again when it breaks.
stream ==
    /\ feed.at = "asked"
    /\ feed' = [feed EXCEPT !.at = IF sandbox.known THEN "open" ELSE "silent"]
    /\ UNCHANGED <<card, sandbox, destroying, emitted, kept, tester, shown, seen, answers>>

watchBreaks ==
    /\ feed.at = "open"
    /\ feed' = [at |-> "silent", frames |-> <<>>]
    /\ UNCHANGED <<card, sandbox, destroying, emitted, kept, tester, shown, seen, answers>>

frameArrives ==
    /\ feed.frames # <<>>
    /\ addEvents(<<Head(feed.frames)>>)
    /\ feed' = [feed EXCEPT !.frames = Tail(@)]
    /\ UNCHANGED <<card, sandbox, destroying, emitted, kept, tester, answers>>

\* The buttons, while the page shows the sandbox; one command at a time.
CanCommand(statuses) == Answer("command") = {} /\ tester.open /\ ~ tester.fatal /\ sandbox.known /\ tester.status \in statuses

clearEvents ==
    /\ CanCommand(Active) /\ sandbox.status = "running"
    /\ kept' = {}
    /\ answers' = answers \union {[kind |-> "command", status |-> "running"]}
    /\ UNCHANGED <<card, sandbox, destroying, emitted, tester, shown, seen, feed>>

\* Reload and restart: the status they answer with is the one after the call.
reload ==
    /\ CanCommand(Active) /\ sandbox.status = "running"
    /\ answers' = answers \union {[kind |-> "command", status |-> "running"]}
    /\ UNCHANGED <<card, sandbox, destroying, emitted, kept, tester, shown, seen, feed>>

stop ==
    /\ CanCommand(Active \union {"stopping", "destroyed"})
    /\ sandbox.status # "destroyed" /\ "destroyed" \notin destroying
    /\ sandbox' = [sandbox EXCEPT !.status = "stopping"]
    /\ destroying' = destroying \union {"destroyed"}
    /\ answers' = answers \union {[kind |-> "command", status |-> "destroyed"]}
    /\ UNCHANGED <<card, emitted, kept, tester, shown, seen, feed>>

CommandArrives(a) ==
    /\ a \in Answer("command")
    /\ a.status = "destroyed" => "destroyed" \notin destroying
    /\ answers' = answers \ {a}
    /\ tester' = [tester EXCEPT !.status = a.status]
    /\ UNCHANGED <<card, sandbox, destroying, emitted, kept, shown, seen, feed>>

TesterNext ==
    \/ create \/ start \/ startLost \/ undo \/ openPage
    \/ emitEvents \/ timeOut \/ forget \/ \E s \in destroying : destroy(s)
    \/ pollStatus \/ pollEvents \/ stream \/ watchBreaks \/ frameArrives
    \/ clearEvents \/ reload \/ stop
    \/ \E a \in answers : StatusArrives(a) \/ EventsArrive(a) \/ CommandArrives(a)

\* The timers of the page run while it is shown, and its requests are answered.
TesterFairness ==
    /\ WF_tpVars(pollStatus \/ \E a \in answers : StatusArrives(a))
    /\ WF_tpVars(pollEvents \/ frameArrives \/ \E a \in answers : EventsArrive(a))

TesterSpec == TesterInit /\ [][TesterNext]_tpVars /\ TesterFairness

-----------------------------------------------------------------------------
\* A sandbox that ended is shown as unavailable for good, though older answers
\* arrive after the one that said so and the snapshot is soon deleted.
EndIsShown == <>[](tester.open /\ sandbox.status \in Over => tester.fatal)

\* The page shows an event once, whichever of the polls and the stream brings
\* it first.
ShownOnce == [](\A i, j \in DOMAIN shown : shown[i] = shown[j] => i = j)

\* Every event the sandbox goes on holding comes to be shown.
EventsAreShown == <>[](tester.open => kept \subseteq seen)

\* What the page of a sandbox owes its user.
TesterFollows == EndIsShown /\ ShownOnce /\ EventsAreShown
=============================================================================
