------------------------------ MODULE Workbench ------------------------------
(***************************************************************************)
(* The page where a package is uploaded, analysed, saved and launched      *)
(* (components/extension/Workbench.tsx and UploadZone.tsx, the launch      *)
(* cards of components/tester), with the routes it calls: api/extensions,  *)
(* api/tests/create and api/tests/matrix.  Nothing ties an answer to the   *)
(* file that was on the page when its request left.                        *)
(***************************************************************************)
EXTENDS Integers, FiniteSets, Sequences

CONSTANTS
    Files,          \* packages the user may drop
    Tries,          \* the selections of a file
    Launches,       \* the launches
    Limit           \* the analyses of the plan in a period

ASSUME WorkbenchAssumption == IsFiniteSet(Tries) /\ Tries # {} /\ Limit \in Nat

VARIABLES
    bench,          \* the page: [state, file, analysis, saved, error]; `zone`: its upload zone is on screen
    tries,          \* each call of handleFileSelect: [at, file, saved]
    crossed,        \* a file was selected, or the page reset, while a call was under way or
                    \* the zone was fading
    extensions,     \* the rows of the user: the package of each, or Deleted
    usage,          \* the analyses counted in the period
    passed,         \* the saves that passed the check of the plan and are not written yet
    together,       \* two saves were past the check at once
    launch, runs    \* the launches of the page, and what they queued

wbVars == <<bench, tries, crossed, extensions, usage, passed, together, launch, runs>>

Nothing    == "none"
Deleted == "deleted"
Fresh   == [state |-> "idle", file |-> Nothing, analysis |-> Nothing, saved |-> 0, error |-> FALSE, zone |-> TRUE]
NoTry   == [at |-> "none", file |-> Nothing, saved |-> 0]
NoLaunch == [at |-> "none", file |-> Nothing, extension |-> 0]

WorkbenchInit ==
    /\ bench = Fresh /\ tries = [t \in Tries |-> NoTry] /\ crossed = FALSE
    /\ extensions = <<>> /\ usage = 0 /\ passed = {} /\ together = FALSE
    /\ launch = [l \in Launches |-> NoLaunch] /\ runs = {}

\* A page that was left shows nothing more.
Shown(b) == IF bench.state = "left" THEN bench ELSE b

UnderWay == \E t \in Tries : tries[t].at \notin {"none", "over"}
serverSide == <<extensions, usage, passed, together>>

-----------------------------------------------------------------------------
(* The page.                                                                *)

\* The zone of a page that moved on stays on screen while it fades, and takes
\* a file like before.
zoneFades ==
    /\ bench.zone /\ bench.state \in {"uploading", "done"}
    /\ bench' = [bench EXCEPT !.zone = FALSE]
    /\ UNCHANGED <<tries, crossed, serverSide, launch, runs>>

\* A file dropped or picked: refused by its name or size, or analysed.
handleFileSelect(t, f) ==
    /\ bench.zone /\ tries[t] = NoTry /\ \A u \in Tries : u < t => tries[u] # NoTry
    /\ crossed' = (crossed \/ UnderWay \/ bench.state \notin {"idle", "error"})
    /\ \/ bench' = [bench EXCEPT !.state = "error"] /\ tries' = [tries EXCEPT ![t].at = "over"]
       \/ /\ bench' = [bench EXCEPT !.state = "uploading", !.file = f]
          /\ tries' = [tries EXCEPT ![t] = [at |-> "analysing", file |-> f, saved |-> 0]]
    /\ UNCHANGED <<serverSide, launch, runs>>

analyzed(t) ==
    /\ tries[t].at = "analysing"
    /\ \/ /\ bench' = Shown([bench EXCEPT !.state = "done", !.analysis = tries[t].file])
          /\ tries' = [tries EXCEPT ![t].at = "posted"]
       \/ /\ bench' = Shown([bench EXCEPT !.state = "error", !.zone = TRUE])
          /\ tries' = [tries EXCEPT ![t].at = "over"]
    /\ UNCHANGED <<crossed, serverSide, launch, runs>>

\* The answer of the save: the id of the extension, or why there is none.
saveAnswered(t) ==
    /\ tries[t].at = "answered"
    /\ bench' = Shown(IF tries[t].saved = 0 THEN [bench EXCEPT !.error = TRUE]
                                            ELSE [bench EXCEPT !.saved = tries[t].saved])
    /\ tries' = [tries EXCEPT ![t].at = "over"]
    /\ UNCHANGED <<crossed, serverSide, launch, runs>>

\* Mutated reset: the extension of the old package is kept.
resetKeepsSaved ==
    /\ bench.state \in {"done", "error"}
    /\ bench' = [Fresh EXCEPT !.saved = bench.saved] /\ crossed' = (crossed \/ UnderWay)
    /\ UNCHANGED <<tries, serverSide, launch, runs>>

\* "Analyze Another".
reset ==
    /\ bench.state \in {"done", "error"}
    /\ bench' = Fresh /\ crossed' = (crossed \/ UnderWay)
    /\ UNCHANGED <<tries, serverSide, launch, runs>>

-----------------------------------------------------------------------------
(* POST and DELETE of api/extensions.                                       *)

canAnalyze == usage < Limit

\* The check of the plan, before the body is read.
checkSave(t) ==
    /\ tries[t].at = "posted"
    /\ IF canAnalyze
       THEN /\ passed' = passed \union {t} /\ together' = (together \/ passed # {})
            /\ tries' = [tries EXCEPT ![t].at = "checked"]
       ELSE tries' = [tries EXCEPT ![t].at = "answered"] /\ UNCHANGED <<passed, together>>
    /\ UNCHANGED <<bench, crossed, extensions, usage, launch, runs>>

\* The body is read: it is refused, or the extension, its snapshot and the
\* usage are written.  The page sends no extension: each save makes one.  The
\* answer may be lost.
createExtension(t) ==
    /\ tries[t].at = "checked"
    /\ passed' = passed \ {t}
    /\ \/ /\ extensions' = Append(extensions, tries[t].file) /\ usage' = usage + 1
          /\ \E id \in {0, Len(extensions) + 1} :
                 tries' = [tries EXCEPT ![t].at = "answered", ![t].saved = id]
       \/ tries' = [tries EXCEPT ![t].at = "answered"] /\ UNCHANGED <<extensions, usage>>
    /\ UNCHANGED <<bench, crossed, together, launch, runs>>

\* From the list of extensions: the runs of the extension keep their rows and
\* lose their extension.
deleteExtension(id) ==
    /\ extensions[id] # Deleted
    /\ extensions' = [extensions EXCEPT ![id] = Deleted]
    /\ runs' = {[r EXCEPT !.extension = IF r.extension = id THEN 0 ELSE r.extension] : r \in runs}
    /\ UNCHANGED <<bench, tries, crossed, usage, passed, together, launch>>

-----------------------------------------------------------------------------
(* The launch cards, and POST of api/tests/create and api/tests/matrix.     *)

\* The card sends the package of the page and the extension it was saved as.
launchTests(l) ==
    /\ bench.state = "done" /\ bench.file # Nothing
    /\ launch[l] = NoLaunch /\ \A k \in Launches : launch[k].at # "sent"
    /\ launch' = [launch EXCEPT ![l] = [at |-> "sent", file |-> bench.file, extension |-> bench.saved]]
    /\ UNCHANGED <<bench, tries, crossed, serverSide, runs>>

getOwnedExtension(id) == extensions[id] # Deleted

\* The route: the extension must be the user's before the package is stored.
ownExtension(l) ==
    /\ launch[l].at = "sent"
    /\ launch' = [launch EXCEPT ![l].at =
                     IF launch[l].extension # 0 => getOwnedExtension(launch[l].extension) THEN "owned" ELSE "refused"]
    /\ UNCHANGED <<bench, tries, crossed, serverSide, runs>>

\* The package is stored, and the run queued: one transaction, which the row
\* of a deleted extension makes fail.
queueRun(l) ==
    /\ launch[l].at = "owned"
    /\ \/ /\ launch[l].extension # 0 => extensions[launch[l].extension] # Deleted
          /\ launch' = [launch EXCEPT ![l].at = "queued"]
          /\ runs' = runs \union {[launch |-> l, file |-> launch[l].file, extension |-> launch[l].extension]}
       \/ launch' = [launch EXCEPT ![l].at = "refused"] /\ UNCHANGED runs
    /\ UNCHANGED <<bench, tries, crossed, serverSide>>

\* The page moves to the run; the launch of a card that is gone does so too.
pushRun(l) ==
    /\ launch[l].at = "queued"
    /\ launch' = [launch EXCEPT ![l].at = "over"]
    /\ bench' = [Fresh EXCEPT !.state = "left", !.zone = FALSE]
    /\ UNCHANGED <<tries, crossed, serverSide, runs>>

WorkbenchNext ==
    \/ zoneFades \/ reset
    \/ \E t \in Tries : \/ \E f \in Files : handleFileSelect(t, f)
                        \/ analyzed(t) \/ saveAnswered(t) \/ checkSave(t) \/ createExtension(t)
    \/ \E id \in DOMAIN extensions : deleteExtension(id)
    \/ \E l \in Launches : launchTests(l) \/ ownExtension(l) \/ queueRun(l) \/ pushRun(l)

WorkbenchSpec == WorkbenchInit /\ [][WorkbenchNext]_wbVars

-----------------------------------------------------------------------------
\* Unless the user went on while a file was still being analysed or saved, the
\* report, the package that is launched and the extension it is filed under
\* are one and the same.
BenchIsOfOneFile ==
    ~ crossed /\ bench.state = "done" =>
        /\ bench.analysis = bench.file
        /\ bench.saved # 0 => extensions[bench.saved] \in {bench.file, Deleted}

\* A run is filed under an extension the user still has, and so is what a card
\* sends until it is answered.
RunsAreFiled ==
    \A r \in runs : r.extension # 0 => extensions[r.extension] # Deleted

\* The analyses of a period pass the limit only when two were saved at once,
\* and by no more than the saves that were past the check together.
AnalysesAreBounded ==
    /\ usage > Limit => together
    /\ usage <= Limit + Cardinality(Tries) - 1

\* What the workbench promises.
WorkbenchHolds == BenchIsOfOneFile /\ RunsAreFiled /\ AnalysesAreBounded
=============================================================================
