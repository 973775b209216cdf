----------------------------- MODULE MCOutcomes -----------------------------
(***************************************************************************)
(* What the user meets around the work of the queue, side by side in one   *)
(* instance: the start slots of sessions, the browser inside a sandbox,    *)
(* the evidence and the artifacts it leaves, what its results are taken to *)
(* mean, the studio its tests are written in, the workbench its packages   *)
(* are launched from, the analysis of a package, the interpretations the   *)
(* user asks for, and the plan it is paid with.  A behaviour is one of     *)
(* them, the others stay.                                                  *)
(***************************************************************************)
EXTENDS RunnerBrowser, Evidence, StudioEditor, Checkout, InteractiveSession, Workbench, AIRequests, Analyzer,
        Evaluation, AIContext

VARIABLES
    outcome         \* the part that runs

\* One test, one category, two browsers; policies that ask for every
\* combination of a health score, a test and a browser.
Gates == {[health |-> h, tests |-> ts, browsers |-> bs, allowRegressions |-> ~h] :
              h \in BOOLEAN, ts \in {{}, {"t1"}}, bs \in {{}, {"chromium"}}}

OneTest == [t \in {"t1"} |-> "c"]

\* Two sessions of one user.
OneOwner == [s \in {"s1", "s2"} |-> "u1"]

\* Two panels of different users, and the plans they may have.
Askers12 == [p \in {"p1", "p2"} |-> IF p = "p1" THEN "u1" ELSE "u2"]
Plans == {[keeps |-> TRUE, allowance |-> 2, perUser |-> 2, global |-> 2],
          [keeps |-> TRUE, allowance |-> 2, perUser |-> 1, global |-> 1],
          [keeps |-> FALSE, allowance |-> 2, perUser |-> 2, global |-> 2]}

\* A record of up to three findings and three tests, some of them beyond what
\* is read or shown, and budgets for almost nothing, for some and for all.
Failed    == [id |-> "t", failing |-> TRUE]
Passed(t) == [id |-> t, failing |-> FALSE]
IssueLists      == {<<>>, <<"f">>, <<"f", "g">>, <<"g", "h", "f">>}
DiagnosticLists == {<<>>} \union {<<[id |-> i, related |-> r]>> : i \in {"f", "d"}, r \in {"t", "u", "none"}}
ListsOfTests    == {<<>>, <<Failed>>, <<Passed("u"), Failed>>, <<Passed("v"), Passed("u"), Failed>>}

\* Packages with one manifest of each kind, at the top or in a folder, with
\* what it refers to or without; and those that are refused.
Plain(kind) == [kind |-> kind, popup |-> NoPath]
PlainManifest ==
    [version |-> "v3", action |-> Plain("absent"), browser_action |-> Plain("absent"), page_action |-> Plain("absent"),
     background |-> [kind |-> "absent", worker |-> NoPath, scripts |-> <<>>, page |-> NoPath],
     content_scripts |-> [groups |-> 0, js |-> <<>>, css |-> <<>>], icons |-> [kind |-> "absent", paths |-> <<>>],
     options_page |-> NoPath, options_ui |-> [kind |-> "absent", page |-> NoPath],
     resources |-> [kind |-> "absent", paths |-> <<>>], permissions |-> {}, hosts |-> {}, gecko |-> FALSE]
PathSegments == {"manifest.json", "x", "y", "lib", "packed", "a.js", "b.js", "..", ".", ""}
Script == <<"a.js">>
Library == <<"..", "lib", "b.js">>
Manifests ==
    {[PlainManifest EXCEPT !.version = v, !.background = b, !.permissions = pm, !.hosts = h, !.gecko = g] :
        v \in {"v2", "v3", "unknown"}, g \in BOOLEAN,
        b \in {PlainManifest.background, [kind |-> "object", worker |-> Script, scripts |-> <<>>, page |-> NoPath],
               [kind |-> "object", worker |-> NoPath, scripts |-> <<Script, Library>>, page |-> NoPath]},
        pm \in {{}, {"sidePanel", "declarativeNetRequest"}}, h \in {{}, {"<all_urls>"}}}
    \union
    {[PlainManifest EXCEPT !.action = a, !.browser_action = b, !.page_action = [kind |-> "object", popup |-> Library],
         !.content_scripts = c, !.icons = [kind |-> "object", paths |-> i], !.options_page = o,
         !.options_ui = [kind |-> "object", page |-> Script],
         !.resources = [kind |-> "array", paths |-> <<Library, Library, Script>>]] :
        a \in {Plain("absent"), Plain("scalar"), [kind |-> "object", popup |-> Script]},
        b \in {Plain("absent"), [kind |-> "object", popup |-> Script]},
        c \in {PlainManifest.content_scripts, [groups |-> 1, js |-> <<Script, Library>>, css |-> <<Script>>]},
        i \in {<<>>, <<Script>>}, o \in {NoPath, Library}}

NoText == [kind |-> "none", json |-> PlainManifest]
PackedFile(path, size, uses, text) ==
    [path |-> path, folder |-> FALSE, size |-> size, script |-> text = NoText, uses |-> uses, text |-> text]
PackedFolder(path) == [path |-> path, folder |-> TRUE, size |-> 0, script |-> FALSE, uses |-> {}, text |-> NoText]
ManifestAt(path, m) == PackedFile(path, 1, {}, [kind |-> "json", json |-> m])
Layouts(m) ==
    {<<ManifestAt(<<"manifest.json">>, m), PackedFile(Script, 2, {"chrome"}, NoText)>>,
     <<ManifestAt(<<"x", "manifest.json">>, m), PackedFolder(<<"x">>), PackedFile(<<"x", "lib", "b.js">>, 1, {"browser"}, NoText)>>,
     <<PackedFolder(<<"lib">>), PackedFile(<<"x", "y", "manifest.json">>, 1, {}, NoText), ManifestAt(<<"lib", "manifest.json">>, m),
       PackedFile(<<"lib", "lib", "b.js">>, 2, {"chrome", "browser"}, NoText)>>}

ZipOf(files) == [zip |-> TRUE, size |-> 1, readable |-> TRUE, files |-> files]
OddPackages ==
    {[ZipOf(<<>>) EXCEPT !.zip = FALSE], [ZipOf(<<>>) EXCEPT !.size = 2], [ZipOf(<<>>) EXCEPT !.readable = FALSE], ZipOf(<<>>),
     ZipOf([i \in 1 .. 5 |-> PackedFolder(<<"x">>)]),
     ZipOf(<<PackedFile(Script, 1, {}, NoText), PackedFile(Library, 9, {}, NoText)>>),
     ZipOf(<<PackedFile(Script, 3, {}, NoText), PackedFile(Library, 3, {}, NoText), PackedFile(Library, 9, {}, NoText)>>),
     ZipOf(<<PackedFile(Script, 1, {}, NoText)>>),
     ZipOf(<<PackedFolder(<<".", "">>), ManifestAt(<<".", "manifest.json">>, PlainManifest)>>),
     ZipOf(<<PackedFile(<<"manifest.json">>, 1, {}, [kind |-> "long", json |-> PlainManifest])>>),
     ZipOf(<<PackedFile(<<"manifest.json">>, 1, {}, [kind |-> "text", json |-> PlainManifest])>>)}
PackagesOfEachKind == OddPackages \union {ZipOf(files) : files \in UNION {Layouts(m) : m \in Manifests}}

\* Of the manifests of one depth the one outside of lib is the first.
ByName ==
    [p \in UNION {[1 .. n -> {"manifest.json", "x", "y", "lib", "packed"}] : n \in 1 .. 4} |->
        Cardinality({i \in DOMAIN p : p[i] = "lib"})]

\* The comparisons and the policy read the same rows and never each other:
\* a behaviour has one of them.
OutcomesInit ==
    /\ outcome \in {"slots", "evidence", "browser", "comparison", "policy", "studio", "billing",
                    "workbench", "ai", "interpretation", "analyzer"}
    /\ Init /\ EvidenceInit /\ BrowserInit /\ EvaluationInit /\ StudioInit
    /\ CheckoutInit /\ WorkbenchInit /\ ContextInit /\ AIInit
    /\ IF outcome = "analyzer" THEN AnalyzerInit
       ELSE package = ZipOf(<<>>) /\ step = "chosen" /\ entries = <<>> /\ report = NotAnalyzed
    /\ outcome # "ai" => settings.keeps /\ settings.perUser = 1
    /\ outcome # "policy" => analysis = NoOutcome
    /\ outcome # "browser" => viewport = CHOOSE size \in Sizes : TRUE
    /\ outcome # "studio" => savedTest["a"] = NoTest

OutcomesNext ==
    /\ UNCHANGED outcome
    /\ IF outcome = "slots" THEN Next ELSE UNCHANGED vars
    /\ IF outcome = "evidence" THEN EvidenceNext ELSE UNCHANGED eVars
    /\ IF outcome = "browser" THEN BrowserNext ELSE UNCHANGED rbVars
    /\ \/ outcome = "comparison" /\ ComparisonNext
       \/ outcome = "policy" /\ PolicyNext
       \/ outcome \notin {"comparison", "policy"} /\ UNCHANGED evVars
    /\ IF outcome = "studio" THEN StudioNext ELSE UNCHANGED seVars
    /\ IF outcome = "billing" THEN CheckoutNext ELSE UNCHANGED coVars
    /\ IF outcome = "workbench" THEN WorkbenchNext ELSE UNCHANGED wbVars
    /\ IF outcome = "ai" THEN AINext ELSE UNCHANGED aiVars
    /\ IF outcome = "interpretation" THEN ContextNext ELSE UNCHANGED acVars
    /\ IF outcome = "analyzer" THEN AnalyzerNext ELSE UNCHANGED anVars

OutcomesSpec == OutcomesInit /\ [][OutcomesNext]_<<outcome, vars, eVars, rbVars, evVars, seVars, coVars, wbVars, aiVars, acVars, anVars>>

\* EvaluationIsFair of Evaluation, InterpretationHolds of AIContext and
\* AnalysisHolds of Analyzer: what the results of a run, an answer about them
\* and a package are taken to say.
ConclusionsHold == EvaluationIsFair /\ InterpretationHolds /\ AnalysisHolds

\* WorkbenchHolds of Workbench and AnswersHold of AIRequests: what a user
\* sends from a page, and what comes of it.
RequestsHold == WorkbenchHolds /\ AnswersHold
=============================================================================
