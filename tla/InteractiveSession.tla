------------------------- MODULE InteractiveSession -------------------------
(***************************************************************************)
(* An interactive browser session: its row, its quota reservation, its     *)
(* start job and the handler that executes it, the container the driver    *)
(* makes for it, the requests of its user and the sweep that closes and    *)
(* reconciles.                                                             *)
(*                                                                         *)
(* Two processes work on the row, each statement a step: the web process   *)
(* and the worker, which runs the start handler and the sweep.  A method   *)
(* that awaits the driver is cut there, and what it read before is kept:   *)
(* in `looks` until the row is moved, in `ending` until the container is   *)
(* removed.  The job is the one JobContract promises; an attempt makes one *)
(* container at most, which bears its number.                              *)
(***************************************************************************)
EXTENDS Naturals, FiniteSets

CONSTANTS
    Sessions,       \* sessions that may be created
    Users,
    OwnerOf,        \* [Sessions -> Users]
    GlobalLimit, UserLimit,     \* of sessions that hold a start slot
    MaxAttempts,    \* max_attempts of the start job
    OwnerListed,    \* listOwnedContainers returns the owner label
    MaxFaults,      \* crashes, dead browsers and driver errors, a bound
    MaxShots,       \* screenshots, a bound
    MaxLooks        \* rows that are read and not yet written, a bound

ASSUME SessionsAssumption ==
    /\ IsFiniteSet(Sessions)
    /\ OwnerOf \in [Sessions -> Users]
    /\ GlobalLimit \in Nat /\ UserLimit \in Nat

VARIABLES
    status,         \* interactive_browser_sessions.status
    bound,          \* the container runtime_json names; 0 for none
    resv,           \* the quota reservation
    jobKnown,       \* job_id is stored
    web,            \* where the request that starts the session is
    shot,           \* the status a screenshot read before its first await
    job, deliveries,            \* as in JobContract
    cancel,         \* jobs.cancel_requested_at is set
    phase,          \* where the execution of the start job is
    boxes,          \* the containers that exist
    dead,           \* those whose browser has stopped
    looks,          \* rows read in order to end the session
    ending,         \* ended sessions whose container is being removed
    faults, shots

rowVars   == <<status, bound, jobKnown>>
jobVars   == <<job, deliveries, cancel>>
boxVars   == <<boxes, dead>>
endVars   == <<looks, ending>>
envVars   == <<faults, shots>>
vars      == <<rowVars, resv, web, shot, jobVars, phase, boxVars, endVars, envVars>>

Terminal    == {"STOPPED", "EXPIRED", "FAILED"}
Commandable == {"READY", "ACTIVE", "IDLE"}
Slot        == {"STARTING"} \cup Commandable        \* STOPPING is never written
Admitted    == {"QUEUED"} \cup Slot
Live        == {"CREATED"} \cup Admitted
Statuses    == {"absent"} \cup Live \cup Terminal

Phases == {"idle", "entering", "resetting", "claiming", "checking", "creating", "persisting",
           "booting", "charging", "announcing", "unmade", "catching", "returned", "threw", "marking"}
\* Before these phases are over a start has recorded no container.
Unrecorded == {"checking", "creating", "persisting"}

Queue == INSTANCE JobContract WITH Jobs <- Sessions, state <- job

Box  == Sessions \X Nat
Look == [s : Sessions, by : {"stop", "lifetime", "orphan"}, box : Nat,
         tests : SUBSET {"job", "browser", "age"}]
End  == [s : Sessions, by : {"web", "sweep", "handler"}, box : Nat]

TypeOK ==
    /\ status \in [Sessions -> Statuses] /\ bound \in [Sessions -> Nat]
    /\ resv \in [Sessions -> {"none", "open", "consumed", "released"}]
    /\ jobKnown \in [Sessions -> BOOLEAN]
    /\ web \in [Sessions -> {"none", "queued", "enqueued"}]
    /\ shot \in [Sessions -> {"none"} \cup Live]
    /\ job \in [Sessions -> Queue!States] /\ deliveries \in [Sessions -> Nat]
    /\ cancel \in [Sessions -> BOOLEAN]
    /\ phase \in [Sessions -> Phases]
    /\ boxes \subseteq Box /\ dead \subseteq Box
    /\ looks \subseteq Look /\ ending \subseteq End
    /\ faults \in Nat /\ shots \in Nat

Init ==
    /\ status = [s \in Sessions |-> "absent"] /\ bound = [s \in Sessions |-> 0]
    /\ resv = [s \in Sessions |-> "none"]
    /\ jobKnown = [s \in Sessions |-> FALSE]
    /\ web = [s \in Sessions |-> "none"] /\ shot = [s \in Sessions |-> "none"]
    /\ Queue!Init /\ cancel = [s \in Sessions |-> FALSE]
    /\ phase = [s \in Sessions |-> "idle"]
    /\ boxes = {} /\ dead = {} /\ looks = {} /\ ending = {}
    /\ faults = 0 /\ shots = 0

-----------------------------------------------------------------------------
(***************************************************************************)
(* Statements.                                                             *)
(***************************************************************************)
transitionSession(s, from, to) ==
    status' = [status EXCEPT ![s] = IF @ \in from THEN to ELSE @]

\* destroyInteractiveSession, of a row that named `box`, up to its first await.
destroySession(s, from, to, by, box) ==
    /\ transitionSession(s, from, to)
    /\ ending' = IF status[s] \in from THEN ending \cup {[s |-> s, by |-> by, box |-> box]} ELSE ending

Fault == faults < MaxFaults /\ faults' = faults + 1

\* Its end: the container is gone, if the driver did not fail, and then the
\* reservation is released.
destroySessionDone(e) ==
    /\ e \in ending
    /\ ending' = ending \ {e}
    /\ \/ boxes' = boxes \ {<<e.s, e.box>>} /\ UNCHANGED <<dead, faults>>
       \/ Fault /\ <<e.s, e.box>> \in boxes /\ UNCHANGED boxVars
    /\ resv' = [resv EXCEPT ![e.s] = IF @ = "open" THEN "released" ELSE @]
    /\ UNCHANGED <<rowVars, web, shot, jobVars, phase, looks, shots>>

-----------------------------------------------------------------------------
(***************************************************************************)
(* The web process.                                                        *)
(***************************************************************************)
createInteractiveSession(s) ==
    /\ status[s] = "absent"
    /\ status' = [status EXCEPT ![s] = "CREATED"]
    /\ resv' = [resv EXCEPT ![s] = "open"]
    /\ UNCHANGED <<bound, jobKnown, web, shot, jobVars, phase, boxVars, endVars, envVars>>

\* startInteractiveSession: the row, the job, and the job's id in the row.
startInteractiveSession(s) ==
    \/ /\ status[s] = "CREATED" /\ web[s] = "none"
       /\ transitionSession(s, {"CREATED"}, "QUEUED")
       /\ web' = [web EXCEPT ![s] = "queued"]
       /\ UNCHANGED <<jobKnown, job, deliveries>>
    \/ /\ web[s] = "queued"
       /\ Queue!Submit(s)
       /\ web' = [web EXCEPT ![s] = "enqueued"]
       /\ UNCHANGED <<status, jobKnown>>
    \/ /\ web[s] = "enqueued"
       /\ jobKnown' = [jobKnown EXCEPT ![s] = status[s] = "QUEUED"]
       /\ web' = [web EXCEPT ![s] = "none"]
       /\ UNCHANGED <<status, job, deliveries>>

Start(s) ==
    /\ startInteractiveSession(s)
    /\ UNCHANGED <<bound, resv, shot, cancel, phase, boxVars, endVars, envVars>>

\* What is kept of a row that was read, why, and what is asked of it.
Read(s, by, tests) ==
    /\ Cardinality(looks) < MaxLooks
    /\ looks' = looks \cup {[s |-> s, by |-> by, box |-> bound[s], tests |-> tests]}

\* stopInteractiveSession, up to cancelJob.
stopReads(s) ==
    /\ status[s] \in Live /\ \A l \in looks : l.by # "stop" \/ l.s # s
    /\ Read(s, "stop", {})
    /\ IF jobKnown[s] /\ job[s] = "pending" THEN Queue!Become(s, "cancelled")
                                            ELSE UNCHANGED <<job, deliveries>>
    /\ cancel' = [cancel EXCEPT ![s] = @ \/ (jobKnown[s] /\ job[s] \in {"pending", "running"})]
    /\ UNCHANGED <<rowVars, resv, web, shot, phase, boxVars, ending, envVars>>

stopInteractiveSession(l) ==
    /\ l \in looks /\ l.by = "stop"
    /\ looks' = looks \ {l}
    /\ destroySession(l.s, Live, "STOPPED", "web", l.box)
    /\ UNCHANGED <<bound, jobKnown, resv, web, shot, jobVars, phase, boxVars, envVars>>

\* A command of the user was carried out, or restartBrowserSession was.
CommandDone(s) ==
    /\ status[s] \in Commandable
    /\ \E to \in {"ACTIVE", "READY"} : transitionSession(s, Commandable, to)
    /\ UNCHANGED <<bound, jobKnown, resv, web, shot, jobVars, phase, boxVars, endVars, envVars>>

\* The browser did not restart, or the package is gone.
CommandFails(s) ==
    /\ status[s] \in Commandable
    /\ destroySession(s, Commandable, "FAILED", "web", bound[s])
    /\ UNCHANGED <<bound, jobKnown, resv, web, shot, jobVars, phase, boxVars, looks, envVars>>

\* Mutated captureScreenshotArtifact: of a session that has ended, too.
ScreenshotOfEnded(s) ==
    /\ shot[s] = "none" /\ status[s] # "absent" /\ shots < MaxShots
    /\ shots' = shots + 1
    /\ shot' = [shot EXCEPT ![s] = status[s]]
    /\ UNCHANGED status

\* captureScreenshotArtifact reads the row twice, awaits the frame and the
\* storage, and writes the status of the first reading back.
captureScreenshotArtifact(s) ==
    \/ /\ shot[s] = "none" /\ status[s] \in Live /\ shots < MaxShots
       /\ shots' = shots + 1
       /\ shot' = [shot EXCEPT ![s] = status[s]]
       /\ UNCHANGED status
    \/ /\ shot[s] # "none" /\ status[s] \notin Commandable
       /\ shot' = [shot EXCEPT ![s] = "none"]
       /\ UNCHANGED <<status, shots>>
    \/ /\ shot[s] # "none" /\ status[s] \in Commandable
       /\ transitionSession(s, Live, shot[s])
       /\ shot' = [shot EXCEPT ![s] = "none"]
       /\ UNCHANGED shots

Screenshot(s) ==
    /\ captureScreenshotArtifact(s)
    /\ UNCHANGED <<bound, jobKnown, resv, web, jobVars, phase, boxVars, endVars, faults>>

Web(s) ==
    createInteractiveSession(s) \/ Start(s) \/ stopReads(s) \/ CommandDone(s) \/ CommandFails(s)
    \/ Screenshot(s)

-----------------------------------------------------------------------------
(***************************************************************************)
(* The handler of INTERACTIVE_BROWSER_START.                               *)
(***************************************************************************)
MoveTo(s, p) == phase' = [phase EXCEPT ![s] = p]
Own(s)       == <<s, deliveries[s]>>        \* the container of this attempt
Removing(s)  == \E e \in ending : e.s = s /\ e.by = "handler"

\* isCancelled() reads the job every 250 ms only.
Seen(s) == {FALSE, cancel[s]}

Claim(s) ==
    /\ phase[s] = "idle"
    /\ Queue!Deliver(s)
    /\ MoveTo(s, "entering")
    /\ UNCHANGED <<rowVars, resv, web, shot, cancel, boxVars, endVars, envVars>>

Before == {"CREATED", "QUEUED", "STARTING"}

Enter(s) ==
    /\ phase[s] = "entering"
    /\ \/ status[s] \in Commandable \cup Terminal
          /\ MoveTo(s, "returned") /\ UNCHANGED <<status, ending>>
       \/ /\ status[s] \in Before /\ TRUE \in Seen(s)
          /\ destroySession(s, Before, "STOPPED", "handler", bound[s])
          /\ MoveTo(s, "returned")
       \/ /\ status[s] \in Before /\ FALSE \in Seen(s)
          /\ MoveTo(s, IF status[s] = "STARTING" THEN "resetting" ELSE "claiming")
          /\ UNCHANGED <<status, ending>>
    /\ UNCHANGED <<bound, jobKnown, resv, web, shot, jobVars, boxVars, looks, envVars>>

\* The container an earlier attempt left is removed; the row goes on naming it.
Reset(s) ==
    /\ phase[s] = "resetting"
    /\ \/ boxes' = boxes \ {<<s, bound[s]>>} /\ UNCHANGED <<dead, faults>>
       \/ Fault /\ <<s, bound[s]>> \in boxes /\ UNCHANGED boxVars
    /\ transitionSession(s, {"STARTING"}, "QUEUED")
    /\ MoveTo(s, "claiming")
    /\ UNCHANGED <<bound, jobKnown, resv, web, shot, jobVars, endVars, shots>>

SlotsOf(S) == Cardinality({s \in S : status[s] \in Slot})
Others(s)  == Sessions \ {s}
OfUser(s)  == {q \in Others(s) : OwnerOf[q] = OwnerOf[s]}

\* Mutated hasCapacity: only those that run a browser are counted.
hasCapacityReady(s) ==
    /\ Cardinality({q \in Others(s) : status[q] \in Commandable}) < GlobalLimit
    /\ Cardinality({q \in OfUser(s) : status[q] \in Commandable}) < UserLimit

hasCapacity(s) == SlotsOf(Others(s)) < GlobalLimit /\ SlotsOf(OfUser(s)) < UserLimit

\* claimStartSlot, one transaction, after the circuit breaker.
claimStartSlot(s) ==
    /\ phase[s] = "claiming"
    /\ \/ status[s] # "QUEUED" /\ MoveTo(s, "returned") /\ UNCHANGED <<status, faults>>
       \/ status[s] = "QUEUED" /\ ~hasCapacity(s) /\ MoveTo(s, "threw") /\ UNCHANGED <<status, faults>>
       \/ Fault /\ MoveTo(s, "threw") /\ UNCHANGED status       \* the breaker is open
       \/ /\ status[s] = "QUEUED" /\ hasCapacity(s)
          /\ transitionSession(s, {"QUEUED"}, "STARTING")
          /\ MoveTo(s, "checking") /\ UNCHANGED faults
    /\ UNCHANGED <<bound, jobKnown, resv, web, shot, jobVars, boxVars, endVars, shots>>

\* The runtime, the package and its extraction.
Check(s) ==
    /\ phase[s] = "checking"
    /\ \/ MoveTo(s, "creating") /\ UNCHANGED <<status, ending, faults>>
       \/ /\ cancel[s]
          /\ destroySession(s, {"STARTING"}, "STOPPED", "handler", bound[s])
          /\ MoveTo(s, "returned") /\ UNCHANGED faults
       \/ Fault /\ MoveTo(s, "threw") /\ UNCHANGED <<status, ending>>       \* no runtime: still STARTING
       \/ /\ Fault                                              \* no package
          /\ destroySession(s, Live, "FAILED", "handler", bound[s])
          /\ MoveTo(s, "threw")
       \/ Fault /\ MoveTo(s, "unmade") /\ UNCHANGED <<status, ending>>
    /\ UNCHANGED <<bound, jobKnown, resv, web, shot, jobVars, boxVars, looks, shots>>

\* driver.create; one that fails after `docker create` may leave a container.
Create(s) ==
    /\ phase[s] = "creating"
    /\ \/ boxes' = boxes \cup {Own(s)} /\ MoveTo(s, "persisting") /\ UNCHANGED faults
       \/ Fault /\ boxes' \in {boxes, boxes \cup {Own(s)}} /\ MoveTo(s, "unmade")
    /\ UNCHANGED <<rowVars, resv, web, shot, jobVars, dead, endVars, shots>>

Persist(s) ==
    /\ phase[s] = "persisting"
    /\ bound' = [bound EXCEPT ![s] = IF status[s] = "STARTING" THEN deliveries[s] ELSE @]
    /\ MoveTo(s, "booting")
    /\ UNCHANGED <<status, jobKnown, resv, web, shot, jobVars, boxVars, endVars, envVars>>

\* The start command: the browser runs, refuses, or cannot be reached.
Boot(s) ==
    /\ phase[s] = "booting"
    /\ \/ Own(s) \in boxes \ dead /\ MoveTo(s, "charging") /\ UNCHANGED <<status, ending, faults>>
       \/ /\ Fault /\ destroySession(s, Live, "FAILED", "handler", bound[s])
          /\ MoveTo(s, "catching")
       \/ /\ \/ Own(s) \notin boxes \ dead /\ UNCHANGED faults
             \/ Fault
          /\ MoveTo(s, "catching") /\ UNCHANGED <<status, ending>>
    /\ UNCHANGED <<bound, jobKnown, resv, web, shot, jobVars, boxVars, looks, shots>>

\* consumeReservationForResource.
Charge(s) ==
    /\ phase[s] = "charging"
    /\ resv' = [resv EXCEPT ![s] = IF @ = "open" THEN "consumed" ELSE @]
    /\ MoveTo(s, "announcing")
    /\ UNCHANGED <<rowVars, web, shot, jobVars, boxVars, endVars, envVars>>

\* Mutated Announce: without the condition on the status.
AnnounceAnyway(s) ==
    /\ phase[s] = "announcing"
    /\ status' = [status EXCEPT ![s] = "READY"]
    /\ MoveTo(s, "returned")
    /\ UNCHANGED <<bound, jobKnown, resv, web, shot, jobVars, boxVars, endVars, envVars>>

Announce(s) ==
    /\ phase[s] = "announcing"
    /\ transitionSession(s, {"STARTING"}, "READY")
    /\ MoveTo(s, "returned")
    /\ UNCHANGED <<bound, jobKnown, resv, web, shot, jobVars, boxVars, endVars, envVars>>

\* The catch block: the container of this attempt, or the one the row names,
\* is removed, and a session that is still starting fails.
Catch(s) ==
    /\ phase[s] \in {"unmade", "catching"} /\ ~Removing(s)
    /\ LET box == IF phase[s] = "catching" THEN Own(s) ELSE <<s, bound[s]>>
       IN  \/ boxes' = boxes \ {box} /\ UNCHANGED <<dead, faults>>
           \/ Fault /\ box \in boxes /\ UNCHANGED boxVars
    /\ IF status[s] \notin Terminal \cup {"READY"}
       THEN destroySession(s, Live, "FAILED", "handler", bound[s])
       ELSE UNCHANGED <<status, ending>>
    /\ MoveTo(s, "threw")
    /\ UNCHANGED <<bound, jobKnown, resv, web, shot, jobVars, looks, shots>>

Handle(s) ==
    Enter(s) \/ Reset(s) \/ claimStartSlot(s) \/ Check(s) \/ Create(s) \/ Persist(s) \/ Boot(s)
    \/ Charge(s) \/ Announce(s) \/ Catch(s)

-----------------------------------------------------------------------------
(***************************************************************************)
(* JobWorker.run, and what becomes of a job whose worker crashed.          *)
(***************************************************************************)
attemptsRemain(s) == deliveries[s] < MaxAttempts
Ends(s, j)        == Queue!Become(s, j) /\ MoveTo(s, "idle")

\* Whether an error may be retried is left open.
HandleEnds(s) ==
    /\ phase[s] \in {"returned", "threw"} /\ ~Removing(s) /\ ~cancel[s]
    /\ \/ phase[s] = "returned" /\ Ends(s, "completed")
       \/ phase[s] = "threw" /\ attemptsRemain(s) /\ Ends(s, "pending")
       \/ phase[s] = "threw" /\ Ends(s, "failed")
    /\ UNCHANGED <<rowVars, resv, web, shot, cancel, boxVars, endVars, envVars>>

\* finishCancelled, with the handler's cancel.
finishCancelled(s) ==
    /\ phase[s] \in {"returned", "threw"} /\ ~Removing(s) /\ cancel[s]
    /\ destroySession(s, Before, "STOPPED", "handler", bound[s])
    /\ MoveTo(s, "marking")
    /\ UNCHANGED <<bound, jobKnown, resv, web, shot, jobVars, boxVars, looks, envVars>>

markCancelled(s) ==
    /\ phase[s] = "marking" /\ ~Removing(s)
    /\ Ends(s, "cancelled")
    /\ UNCHANGED <<rowVars, resv, web, shot, cancel, boxVars, endVars, envVars>>

Recover(s) ==
    /\ job[s] = "running" /\ phase[s] = "idle"
    /\ Queue!Become(s, IF attemptsRemain(s) /\ ~cancel[s] THEN "pending" ELSE "failed")
    /\ UNCHANGED <<rowVars, resv, web, shot, cancel, phase, boxVars, endVars, envVars>>

Run(s) == HandleEnds(s) \/ finishCancelled(s) \/ markCancelled(s) \/ Recover(s)

-----------------------------------------------------------------------------
(***************************************************************************)
(* The sweep, which lists rows and then treats one after the other.        *)
(***************************************************************************)
Sweeping(s) == \E l \in looks : l.s = s /\ l.by # "stop"

MarkIdle(s) ==
    /\ status[s] \in {"READY", "ACTIVE"}
    /\ transitionSession(s, {"READY", "ACTIVE"}, "IDLE")
    /\ UNCHANGED <<bound, jobKnown, resv, web, shot, jobVars, phase, boxVars, endVars, envVars>>

ExpireIdle(s) ==
    /\ status[s] = "IDLE"
    /\ destroySession(s, {"IDLE"}, "EXPIRED", "sweep", bound[s])
    /\ UNCHANGED <<bound, jobKnown, resv, web, shot, jobVars, phase, boxVars, looks, envVars>>

\* Mutated sweepReads: a session that was never queued is not listed.
sweepReadsAdmitted(s) ==
    /\ ~Sweeping(s) /\ status[s] \in Admitted
    /\ Read(s, "lifetime", {})
    /\ UNCHANGED <<rowVars, resv, web, shot, jobVars, phase, boxVars, ending, envVars>>

\* A lifetime passes at any time.
sweepReads(s) ==
    /\ ~Sweeping(s) /\ status[s] \in Live
    /\ Read(s, "lifetime", {})
    /\ UNCHANGED <<rowVars, resv, web, shot, jobVars, phase, boxVars, ending, envVars>>

\* What section 4 of the sweep asks of a row: does its start job still go on,
\* does its browser run, and how old is a start that has recorded no container
\* (five minutes, which no execution takes to do so).
orphanTests(s) ==
    {t \in {"job", "browser", "age"} :
        \/ t = "job" /\ status[s] \in {"QUEUED", "STARTING"} /\ jobKnown[s]
        \/ t = "browser" /\ status[s] \in Slot /\ bound[s] # 0
        \/ t = "age" /\ status[s] = "STARTING" /\ bound[s] = 0 /\ phase[s] \notin Unrecorded}

orphanReads(s) ==
    /\ ~Sweeping(s) /\ status[s] \in Admitted
    /\ \E tests \in {orphanTests(s), orphanTests(s) \ {"age"}} :
          tests # {} /\ Read(s, "orphan", tests)
    /\ UNCHANGED <<rowVars, resv, web, shot, jobVars, phase, boxVars, ending, envVars>>

ExpireLifetime(l) ==
    /\ l \in looks /\ l.by = "lifetime"
    /\ looks' = looks \ {l}
    /\ destroySession(l.s, Live, "EXPIRED", "sweep", l.box)
    /\ UNCHANGED <<bound, jobKnown, resv, web, shot, jobVars, phase, boxVars, envVars>>

isOrphan(l) ==
    \/ "job" \in l.tests /\ job[l.s] \in {"failed", "cancelled", "expired"}
    \/ "browser" \in l.tests /\ <<l.s, l.box>> \notin boxes \ dead
    \/ "age" \in l.tests

\* An error of the driver counts as a browser that does not run.
FailOrphan(l) ==
    /\ l \in looks /\ l.by = "orphan"
    /\ looks' = looks \ {l}
    /\ \/ isOrphan(l) /\ destroySession(l.s, Admitted, "FAILED", "sweep", l.box) /\ UNCHANGED faults
       \/ /\ "browser" \in l.tests /\ Fault
          /\ destroySession(l.s, Admitted, "FAILED", "sweep", l.box)
       \/ ~isOrphan(l) /\ UNCHANGED <<status, ending, faults>>
    /\ UNCHANGED <<bound, jobKnown, resv, web, shot, jobVars, phase, boxVars, shots>>

\* Mutated reconcileOrphanContainers: what the row of a starting session names
\* is not looked at.
ReconcileStarting(c) ==
    /\ OwnerListed /\ c \in boxes
    /\ ~(status[c[1]] \in Commandable /\ bound[c[1]] = c[2])
    /\ boxes' = boxes \ {c}
    /\ UNCHANGED <<rowVars, resv, web, shot, jobVars, phase, dead, endVars, envVars>>

\* Mutated reconcileOrphanContainers: containers are found by the rows only.
ReconcileByRow(c) ==
    /\ OwnerListed /\ c \in boxes
    /\ status[c[1]] \in Terminal /\ bound[c[1]] = c[2]
    /\ boxes' = boxes \ {c}
    /\ UNCHANGED <<rowVars, resv, web, shot, jobVars, phase, dead, endVars, envVars>>

\* A container that no admitted session names is removed.  While the session may
\* be starting only an old one is, which the execution under way did not make.
reconcileOrphanContainers(c) ==
    /\ OwnerListed /\ c \in boxes
    /\ LET s == c[1] IN
       /\ ~(status[s] \in Admitted /\ bound[s] = c[2])
       /\ status[s] \in {"QUEUED", "STARTING"} =>
             ~(phase[s] \in {"creating", "persisting"} /\ c = Own(s))
    /\ boxes' = boxes \ {c}
    /\ UNCHANGED <<rowVars, resv, web, shot, jobVars, phase, dead, endVars, envVars>>

\* Mutated releaseDanglingReservations: sessions outlive the hour.
DanglingOfLive(s) ==
    /\ resv[s] = "open"
    /\ resv' = [resv EXCEPT ![s] = "released"]
    /\ UNCHANGED <<rowVars, web, shot, jobVars, phase, boxVars, endVars, envVars>>

\* Mutated releaseDanglingReservations: only with a job, and one that ended.
DanglingWithJob(s) ==
    /\ resv[s] = "open" /\ status[s] \in Terminal /\ job[s] \in Queue!Ended
    /\ resv' = [resv EXCEPT ![s] = "released"]
    /\ UNCHANGED <<rowVars, web, shot, jobVars, phase, boxVars, endVars, envVars>>

\* An hour after the reservation was made; no session lives that long.
releaseDanglingReservations(s) ==
    /\ resv[s] = "open" /\ status[s] \in Terminal
    /\ resv' = [resv EXCEPT ![s] = "released"]
    /\ UNCHANGED <<rowVars, web, shot, jobVars, phase, boxVars, endVars, envVars>>

Sweep(s) ==
    MarkIdle(s) \/ ExpireIdle(s) \/ releaseDanglingReservations(s)
    \/ sweepReads(s) \/ orphanReads(s)

-----------------------------------------------------------------------------
BrowserDies(c) ==
    /\ c \in boxes \ dead /\ Fault
    /\ dead' = dead \cup {c}
    /\ UNCHANGED <<rowVars, resv, web, shot, jobVars, phase, boxes, endVars, shots>>

WorkerCrash ==
    /\ Fault
    /\ phase' = [s \in Sessions |-> "idle"]
    /\ looks' = {l \in looks : l.by = "stop"}
    /\ ending' = {e \in ending : e.by = "web"}
    /\ UNCHANGED <<rowVars, resv, web, shot, jobVars, boxVars, shots>>

WebCrash ==
    /\ Fault
    /\ web' = [s \in Sessions |-> "none"] /\ shot' = [s \in Sessions |-> "none"]
    /\ looks' = {l \in looks : l.by # "stop"}
    /\ ending' = {e \in ending : e.by # "web"}
    /\ UNCHANGED <<rowVars, resv, jobVars, phase, boxVars, shots>>

Next ==
    \/ \E s \in Sessions : Web(s) \/ Claim(s) \/ Handle(s) \/ Run(s) \/ Sweep(s)
    \/ \E l \in looks : stopInteractiveSession(l) \/ ExpireLifetime(l) \/ FailOrphan(l)
    \/ \E e \in ending : destroySessionDone(e)
    \/ \E c \in boxes : reconcileOrphanContainers(c) \/ BrowserDies(c)
    \/ WorkerCrash \/ WebCrash

Spec == Init /\ [][Next]_vars

\* Requests end, jobs are claimed and executed, and the sweep runs again and
\* again; no user has to do anything.
Fairness ==
    /\ \A s \in Sessions :
          /\ WF_vars(web[s] # "none" /\ Start(s))
          /\ WF_vars(Claim(s)) /\ WF_vars(Handle(s)) /\ WF_vars(Run(s))
          /\ SF_vars(sweepReads(s)) /\ WF_vars(releaseDanglingReservations(s))
    /\ WF_vars(\E l \in looks : stopInteractiveSession(l) \/ ExpireLifetime(l) \/ FailOrphan(l))
    /\ WF_vars(\E e \in ending : destroySessionDone(e))
    /\ WF_vars(\E c \in boxes : reconcileOrphanContainers(c))

FairSpec == Spec /\ Fairness

-----------------------------------------------------------------------------
(***************************************************************************)
(* Properties.                                                             *)
(***************************************************************************)
\* Parallel start jobs, sweeps, stops and screenshots never put more sessions
\* into start slots than the deployment and a user may have (claimStartSlot).
SlotsHold ==
    /\ SlotsOf(Sessions) <= GlobalLimit
    /\ \A u \in Users : SlotsOf({s \in Sessions : OwnerOf[s] = u}) <= UserLimit

\* A session whose browser can be commanded has been charged, and runs in a
\* container that is there: however the charge, the announcement, a stop, an
\* expiry or a crash interleave (handler :294-302), and whatever removes
\* containers on what it read earlier (stop, sweep, catch, reset, reconciliation).
LiveSessionsHold ==
    \A s \in Sessions : status[s] \in Commandable => resv[s] = "consumed" /\ <<s, bound[s]>> \in boxes

\* A session that ended is never revived by a late start, command or screenshot
\* (transitionSession).
EndedSessionsStay ==
    [][\A s \in Sessions : status[s] \in Terminal => status'[s] = status[s]]_vars

\* Every session ends, whatever crashes (the hard lifetime, sweep.ts:101).
EverySessionEnds == \A s \in Sessions : status[s] # "absent" ~> status[s] \in Terminal

\* No reservation stays open (destroyInteractiveSession, releaseDanglingReservations).
ReservationsSettle == \A s \in Sessions : resv[s] = "open" ~> resv[s] # "open"

\* Every session and its reservation come to an end, whatever crashes.
SessionsSettle == EverySessionEnds /\ ReservationsSettle

\* The containers of a session that ended are removed: "Every termination path
\* removes the container" (docs/INTERACTIVE_BROWSER.md:157).
ContainersAreReclaimed ==
    \A s \in Sessions : status[s] \in Terminal ~> \A c \in boxes : c[1] # s
=============================================================================
