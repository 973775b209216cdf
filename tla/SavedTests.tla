----------------------------- MODULE SavedTests -----------------------------
(***************************************************************************)
(* The test studio (lib/testing/studio-service.ts and                      *)
(* lib/db/repositories/saved-tests.ts): saved tests with their versions,   *)
(* editors who load a test and save it later, copies, a suite, and the     *)
(* launches of runs.  A launch reads the row of a test and then awaits its *)
(* package: what it queues is what it read.                                *)
(***************************************************************************)
EXTENDS Naturals, Sequences

CONSTANTS
    Saved,          \* the tests that may be created; 1 is the first of them
    Suite,          \* a sequence of tests: the members of a suite
    Definitions,    \* what a definition may say
    Editors,
    Checking,       \* the editors who send the version they loaded
    Launches,       \* the requests for runs
    Asked,          \* the versions that a request of the dashboard may name
    MaxVersion,     \* bound on the versions of a test
    MaxTorn         \* bound on the crashes between two statements

Current == 0        \* no version is named
NoDef == "none"

ASSUME SavedTestsAssumption ==
    /\ 1 \in Saved /\ Suite \in Seq(Saved) /\ Suite # <<>>
    /\ NoDef \notin Definitions
    /\ MaxVersion \in Nat \ {0} /\ Asked \subseteq 1 .. MaxVersion
    /\ MaxTorn \in Nat /\ Checking \subseteq Editors

VARIABLES
    saved,          \* saved_tests: status, current_version, definition_json
    history,        \* saved_test_versions: the definition of each version
    editing,        \* what each editor has loaded
    copying,        \* the definition that a copy has read, for each copy in flight
    launch,         \* the launches
    queuedRuns,     \* the runs that were queued: a launch and its prepared members
    torn

stVars == <<saved, history, editing, copying, launch, queuedRuns, torn>>

NotLoaded == [test |-> 0, version |-> 0, def |-> NoDef]
NotLaunched == [kind |-> "none", todo |-> <<>>, got |-> <<>>, asked |-> Current, source |-> "ci"]
LaunchOver  == [NotLaunched EXCEPT !.kind = "over"]

SavedTestsInit ==
    /\ saved = [t \in Saved |-> [status |-> "absent", version |-> 0, def |-> NoDef]]
    /\ history = [t \in Saved |-> [v \in 1 .. MaxVersion |-> NoDef]]
    /\ editing = [e \in Editors |-> NotLoaded]
    /\ copying = [t \in Saved |-> NoDef]
    /\ launch = [l \in Launches |-> NotLaunched]
    /\ queuedRuns = {}
    /\ torn = 0

-----------------------------------------------------------------------------
\* The row of a version is a statement after the row of its test: a crash in
\* between leaves it out.
InsertVersion(t, v, d) ==
    \/ history' = [history EXCEPT ![t][v] = d] /\ UNCHANGED torn
    \/ torn < MaxTorn /\ torn' = torn + 1 /\ UNCHANGED history

createSavedTest(t, d) ==
    /\ saved[t].status = "absent"
    /\ saved' = [saved EXCEPT ![t] = [status |-> "DRAFT", version |-> 1, def |-> d]]
    /\ InsertVersion(t, 1, d)

\* The validations and the package come before the row and change nothing.
createStudioTest(d) ==
    /\ createSavedTest(1, d)
    /\ UNCHANGED <<editing, copying, launch, queuedRuns>>

\* A copy reads its source, awaits the package, and begins again at version 1.
duplicateReads(s, t) ==
    /\ saved[s].status # "absent" /\ saved[t].status = "absent" /\ t # 1 /\ copying[t] = NoDef
    /\ copying' = [copying EXCEPT ![t] = saved[s].def]
    /\ UNCHANGED <<saved, history, editing, launch, queuedRuns, torn>>

duplicateStudioTest(t) ==
    /\ copying[t] # NoDef
    /\ createSavedTest(t, copying[t])
    /\ copying' = [copying EXCEPT ![t] = NoDef]
    /\ UNCHANGED <<editing, launch, queuedRuns>>

\* An editor opens a test.
describeStudioTest(e, t) ==
    /\ editing[e] = NotLoaded /\ saved[t].status # "absent"
    /\ editing' = [editing EXCEPT ![e] = [test |-> t, version |-> saved[t].version, def |-> saved[t].def]]
    /\ UNCHANGED <<saved, history, copying, launch, queuedRuns, torn>>

\* Mutated updateSavedTest: only the definition of an ACTIVE test gets a version.
updateWithoutVersion(t, s, d) ==
    LET bump == d # saved[t].def /\ saved[t].status = "ACTIVE"
        v == IF bump THEN saved[t].version + 1 ELSE saved[t].version
    IN
    /\ v <= MaxVersion
    /\ saved' = [saved EXCEPT ![t] = [status |-> s, version |-> v, def |-> d]]
    /\ IF bump THEN InsertVersion(t, v, d) ELSE UNCHANGED <<history, torn>>

\* A changed definition is a new version.
updateSavedTest(t, s, d) ==
    LET bump == d # saved[t].def
        v == IF bump THEN saved[t].version + 1 ELSE saved[t].version
    IN
    /\ v <= MaxVersion
    /\ saved' = [saved EXCEPT ![t] = [status |-> s, version |-> v, def |-> d]]
    /\ IF bump THEN InsertVersion(t, v, d) ELSE UNCHANGED <<history, torn>>

\* One synchronous handler; the save is refused when the test is archived or
\* when the editor's version is not the current one.
updateStudioTest(e, s, d) ==
    LET t == editing[e].test IN
    /\ editing[e] # NotLoaded
    /\ saved[t].status # "ARCHIVED"
    /\ e \in Checking => editing[e].version = saved[t].version
    /\ updateSavedTest(t, s, d)
    /\ editing' = [editing EXCEPT ![e] = NotLoaded]
    /\ UNCHANGED <<copying, launch, queuedRuns>>

\* An editor that is refused, or gives up.
EditorReloads(e) ==
    /\ editing[e] # NotLoaded
    /\ editing' = [editing EXCEPT ![e] = NotLoaded]
    /\ UNCHANGED <<saved, history, copying, launch, queuedRuns, torn>>

-----------------------------------------------------------------------------
\* prepareStudioTestRun up to the package: the version asked for, or the
\* definition of the row when that version has no row of its own.
Prepared(t, asked) ==
    LET v == IF asked = Current THEN saved[t].version ELSE asked
        d == IF v = saved[t].version THEN NoDef ELSE history[t][v]
    IN [test |-> t, version |-> v, def |-> IF d = NoDef THEN saved[t].def ELSE d]

\* The dashboard runs drafts too; the CI runs what is active, and its route
\* refuses a version above the current one.
MayRun(t, source, asked) ==
    /\ saved[t].status \notin {"absent", "ARCHIVED"}
    /\ source = "ci" => saved[t].status = "ACTIVE" /\ asked <= saved[t].version

prepareStudioTestRun(l, rest, prepared) ==
    LET t == Head(rest) IN
    IF MayRun(t, launch[l].source, launch[l].asked)
    THEN launch' = [launch EXCEPT ![l].todo = Tail(rest), ![l].got = Append(prepared, Prepared(t, launch[l].asked))]
    ELSE launch' = [launch EXCEPT ![l] = LaunchOver]

Launch(l, kind, tests, asked, source) ==
    /\ launch[l].kind = "none"
    /\ MayRun(Head(tests), source, asked)
    /\ launch' = [launch EXCEPT ![l] = [kind |-> kind, todo |-> Tail(tests),
                                        got |-> <<Prepared(Head(tests), asked)>>, asked |-> asked, source |-> source]]
    /\ UNCHANGED <<saved, history, editing, copying, queuedRuns, torn>>

\* One test in one browser, or in two, one after the other; or the suite.
runStudioTest(l, t) ==
    \E s \in {"interactive", "ci"} : \E a \in {Current} \cup (IF s = "ci" THEN 1 .. MaxVersion ELSE Asked) :
        Launch(l, "test", <<t>>, a, s)
runStudioTestMatrix(l, t) ==
    \E a \in {Current} \cup Asked : Launch(l, "matrix", <<t, t>>, a, "interactive")
runStudioSuite(l) ==
    /\ \A i \in 1 .. Len(Suite) : saved[Suite[i]].status # "absent"
    /\ \E s \in {"interactive", "ci"} : Launch(l, "suite", Suite, Current, s)

QueueRun(l, members) == queuedRuns' = queuedRuns \cup {[launch |-> l, members |-> members]}

\* The package was read: the launch goes on to its next test in the same turn;
\* a run of a suite is queued at its end, the others one by one.
PackageRead(l) ==
    LET L == launch[l] IN
    /\ L.kind \in {"test", "matrix", "suite"}
    /\ \/ /\ L.kind # "suite" \/ L.todo = <<>>
          /\ QueueRun(l, L.got)
          /\ IF L.todo = <<>> THEN launch' = [launch EXCEPT ![l] = LaunchOver]
                              ELSE prepareStudioTestRun(l, L.todo, <<>>)
       \/ /\ L.kind = "suite" /\ L.todo # <<>>
          /\ prepareStudioTestRun(l, L.todo, L.got)
          /\ UNCHANGED queuedRuns
    /\ UNCHANGED <<saved, history, editing, copying, torn>>

\* The package is gone, or the process crashes, or the quota refuses the run.
LaunchFails(l) ==
    /\ launch[l].kind \in {"test", "matrix", "suite"}
    /\ launch' = [launch EXCEPT ![l] = LaunchOver]
    /\ UNCHANGED <<saved, history, editing, copying, queuedRuns, torn>>

SavedTestsNext ==
    \/ \E d \in Definitions : createStudioTest(d)
    \/ \E t \in Saved : duplicateStudioTest(t) \/ (\E s \in Saved : duplicateReads(s, t))
    \/ \E e \in Editors :
         \/ EditorReloads(e)
         \/ \E t \in Saved : describeStudioTest(e, t)
         \/ \E s \in {"DRAFT", "ACTIVE", "ARCHIVED"}, d \in Definitions : updateStudioTest(e, s, d)
    \/ \E l \in Launches :
         \/ runStudioSuite(l) \/ PackageRead(l) \/ LaunchFails(l)
         \/ \E t \in Saved : runStudioTest(l, t) \/ runStudioTestMatrix(l, t)

SavedTestsSpec == SavedTestsInit /\ [][SavedTestsNext]_stVars

-----------------------------------------------------------------------------
Bound(m) == history[m.test][m.version] \in {NoDef, m.def}

\* What a run executes, and what a baseline taken from it holds, is the
\* definition of the version it names, however long its launch took and whoever
\* edited, archived or copied the test meanwhile.  A version whose row a crash
\* left out says nothing.
RunsBindVersion ==
    \A r \in queuedRuns : \A i \in 1 .. Len(r.members) : Bound(r.members[i])
=============================================================================
