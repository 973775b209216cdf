------------------------------ MODULE Analyzer ------------------------------
(***************************************************************************)
(* The analysis of an extension's ZIP (lib/extension), as the workbench    *)
(* does it in the browser and the upload does it on the server: the        *)
(* entries are read within limits, the manifest is found and parsed, what  *)
(* it refers to is looked for, and notes, issues and scores are written.   *)
(*                                                                         *)
(* A path is the sequence of its segments.  A manifest is a record of what *)
(* the analysis asks of it; a source is the set of the namespaces it uses. *)
(* A ZIP in which one path is a file and a folder at once is left out, and *)
(* so is a field of a manifest that is there without the shape it must     *)
(* have, where the analysis only asks whether it is there.                 *)
(***************************************************************************)
EXTENDS Integers, Sequences, FiniteSets, FiniteSetsExt, SequencesExt

CONSTANTS
    Segments,       \* what paths are made of
    Packages,       \* the files that are handed in
    MaxSize,        \* MAX_EXTENSION_SIZE
    MaxFiles,       \* MAX_FILE_COUNT
    MaxFileSize,    \* MAX_SINGLE_FILE_SIZE
    MaxTotalSize,   \* MAX_TOTAL_UNCOMPRESSED_SIZE
    MaxScanned,     \* the sources of which the namespaces are read
    Rank            \* the order of paths of one depth: shorter ones first

VARIABLES
    package,        \* what was handed in
    step,           \* the step that is on its way
    entries,        \* what was read of the package
    report          \* the result

anVars == <<package, step, entries, report>>

NoPath == <<>>
NotAnalyzed == [error |-> "none", root |-> NoPath, tree |-> <<>>, issues |-> <<>>, scores |-> <<>>,
                total |-> 0, shown |-> {}, features |-> {}, notes |-> {}]
Refused(code) == [NotAnalyzed EXCEPT !.error = code]

-----------------------------------------------------------------------------
(* The entries of the package.                                             *)

\* Before a file is read: its name and its size.
validateExtensionFile(pkg) ==
    IF ~pkg.zip THEN "unsupported-file" ELSE IF pkg.size > MaxSize THEN "file-too-large" ELSE "none"

\* The items at some indices, in their order.
Kept(s, I) == FlattenSeq([i \in DOMAIN s |-> IF i \in I THEN <<s[i]>> ELSE <<>>])

normalizePath(name) == Kept(name, {i \in DOMAIN name : name[i] \notin {"", ".", ".."}})

isFile(e) == ~e.folder
fileIndices(es) == {i \in DOMAIN es : isFile(es[i])}
depth(e) == Len(e.path) - 1
fileName(e) == e.path[Len(e.path)]

\* Every entry by its normalized path, at its place in the ZIP; one that has
\* none is passed over.
readEntries(raw) ==
    LET named == [i \in DOMAIN raw |-> [raw[i] EXCEPT !.path = normalizePath(@)]]
    IN  [i \in {k \in DOMAIN raw : named[k].path # NoPath} |-> named[i]]

\* What some files take together.
sizes(es) == [i \in DOMAIN es |-> es[i].size]
SizeOf(es, files) == SumFunctionOnSet(sizes(es), files)

\* The reading stops at the first file that is too large, or too large with
\* those before it.
OverSized(es, i) == isFile(es[i]) /\ (es[i].size > MaxFileSize \/ SizeOf(es, {j \in fileIndices(es) : j <= i}) > MaxTotalSize)

readingError(pkg) ==
    LET es == readEntries(pkg.files)
        over == {i \in DOMAIN es : OverSized(es, i)}
        first == CHOOSE i \in over : \A j \in over : i <= j
    IN  IF ~pkg.readable THEN "zip-corrupt"
        ELSE IF Len(pkg.files) = 0 THEN "zip-empty"
        ELSE IF Len(pkg.files) > MaxFiles THEN "too-many-files"
        ELSE IF over = {} THEN "none"
        ELSE IF es[first].size > MaxFileSize THEN "file-too-large-in-zip" ELSE "total-too-large"

\* A path is looked up by the name it has in the ZIP, which may not be the
\* normalized one.
zipFile(pkg, path) == {i \in fileIndices(pkg.files) : pkg.files[i].path = path}

\* The shallowest manifest.json, the first of those.
manifestEntries(es) == {i \in fileIndices(es) : fileName(es[i]) = "manifest.json"}

findManifestEntry(es) ==
    CHOOSE i \in manifestEntries(es) :
        \A j \in manifestEntries(es) :
            \/ depth(es[i]) < depth(es[j])
            \/ depth(es[i]) = depth(es[j]) /\ Rank[es[i].path] <= Rank[es[j].path]

getExtensionRoot(es) ==
    LET found == es[findManifestEntry(es)] IN SubSeq(found.path, 1, depth(found))

\* The folders, those that no entry names included; a folder is as large as
\* its children together.
Ancestors(path) == {SubSeq(path, 1, n) : n \in 1 .. Len(path) - 1}
folders(es) == {es[i].path : i \in DOMAIN es \ fileIndices(es)} \union UNION {Ancestors(es[i].path) : i \in DOMAIN es}

Child(path, folder) == Len(path) = Len(folder) + 1 /\ SubSeq(path, 1, Len(folder)) = folder

\* The size of each folder, and of the top, which is no path.
buildFileTree(es) ==
    LET all == folders(es) \union {NoPath}
        deepest == Max({Len(f) : f \in all})
        ofFiles(f) == SizeOf(es, {i \in fileIndices(es) : Child(es[i].path, f)})
        computeSize[n \in 0 .. deepest] ==     \* of the folders n above the deepest, and below
            [f \in {g \in all : Len(g) >= deepest - n} |->
                IF Len(f) > deepest - n THEN computeSize[n - 1][f]
                ELSE ofFiles(f) + SumFunctionOnSet(computeSize[n - 1], {g \in all : Child(g, f)})]
    IN  computeSize[deepest]

-----------------------------------------------------------------------------
(* The manifest.                                                           *)

\* What is not a string is no path; what is not an object has no fields.
Reference(field, path, category) ==
    IF path = NoPath THEN <<>> ELSE <<[field |-> field, path |-> path, category |-> category]>>
References(field, paths, category) ==
    [i \in 1 .. Len(paths) |-> [field |-> field, path |-> paths[i], category |-> category]]

\* One action counts: the first of the three that is an object.
actionOf(m) ==
    IF m.action.kind = "object" THEN m.action
    ELSE IF m.browser_action.kind = "object" THEN m.browser_action ELSE m.page_action

collectReferencedResources(m) ==
    Reference("action", actionOf(m).popup, "structure")
    \o Reference("background", m.background.worker, "structure")
    \o References("background", m.background.scripts, "structure")
    \o Reference("background", m.background.page, "structure")
    \o References("content_scripts", m.content_scripts.js, "structure")
    \o References("content_scripts", m.content_scripts.css, "assets")
    \o References("icons", m.icons.paths, "assets")
    \o Reference("options", m.options_page, "structure")
    \o Reference("options", m.options_ui.page, "structure")
    \o References("web_accessible_resources", m.resources.paths, "assets")

\* The settings the result shows as present.
buildDetectedConfig(m) ==
    {field \in {"action", "background", "content_scripts", "options", "icons", "web_accessible_resources"} :
        CASE field = "action" -> "object" \in {m.action.kind, m.browser_action.kind}
          [] field = "background" -> m.background.kind = "object"
          [] field = "content_scripts" -> m.content_scripts.groups > 0
          [] field = "options" -> m.options_page # NoPath \/ m.options_ui.kind = "object"
          [] field = "icons" -> m.icons.kind = "object"
          [] field = "web_accessible_resources" -> m.resources.kind = "array"}

\* The features that are declared: an action of any shape, icons if any.
describeManifest(m) ==
    {feature \in {"action", "browser_action", "page_action", "background"} : m[feature].kind # "absent"}
    \union {feature \in {"content_scripts", "icons", "options_page", "options_ui", "web_accessible_resources"} :
        CASE feature = "content_scripts" -> m.content_scripts.groups > 0
          [] feature = "icons" -> m.icons.kind = "object" /\ m.icons.paths # <<>>
          [] feature = "options_page" -> m.options_page # NoPath
          [] feature = "options_ui" -> m.options_ui.kind = "object"
          [] feature = "web_accessible_resources" -> m.resources.kind = "array"}

analyzePermissions(m) == [permissions |-> m.permissions, hosts |-> m.hosts, broad |-> "<all_urls>" \in m.hosts]

parseManifestJson(text) ==
    IF text.kind = "long" THEN "manifest-too-large" ELSE IF text.kind = "json" THEN "none" ELSE "manifest-invalid"

-----------------------------------------------------------------------------
(* What is found.                                                          *)

resolveReferencedPath(root, path) == root \o normalizePath(path)

Issue(severity, category, field) == [severity |-> severity, category |-> category, field |-> field]

\* One issue for each reference to a file that is not there.
buildIssues(es, m, root) ==
    LET fileMap == {es[i].path : i \in fileIndices(es)}
        refs == collectReferencedResources(m)
        missing == Kept(refs, {i \in DOMAIN refs : resolveReferencedPath(root, refs[i].path) \notin fileMap})
    IN  [i \in 1 .. Len(missing) |-> Issue("warning", missing[i].category, missing[i].field)]

allIssues(es, m, root) ==
    buildIssues(es, m, root)
    \o (IF m.version = "v2" THEN <<Issue("info", "configuration", "manifest")>> ELSE <<>>)
    \o (IF analyzePermissions(m).broad THEN <<Issue("warning", "permissions", "manifest")>> ELSE <<>>)

\* No check files an issue under the manifest: its score is of its version.
ScoreCategories == <<"manifest", "structure", "configuration", "permissions", "assets">>

buildCategoryScores(issues, version) ==
    LET count(c) == Cardinality({i \in DOMAIN issues : issues[i].category = c})
        Lowered(c) == IF 100 - count(c) * 8 > 0 THEN 100 - count(c) * 8 ELSE 0
    IN  [k \in 1 .. 5 |-> IF ScoreCategories[k] # "manifest" THEN Lowered(ScoreCategories[k])
                          ELSE IF version = "unknown" THEN 55
                          ELSE IF count("manifest") > 0 THEN 70 ELSE 100]

\* Math.round of the mean of the five.
healthScore(scores) == (2 * (scores[1] + scores[2] + scores[3] + scores[4] + scores[5]) + 5) \div 10

\* The namespaces of the first sources that are small enough.
scanNamespaces(pkg, es) ==
    LET sources == {i \in fileIndices(es) : es[i].script}
        scanned == {i \in sources : Cardinality({j \in sources : j <= i}) <= MaxScanned}
    IN  UNION {pkg.files[k].uses : k \in UNION {zipFile(pkg, es[i].path) : i \in scanned}}

Chromium == {"chromium", "edge"}
Firefox == {"firefox"}
Note(id, severity, browsers) == [id |-> id, severity |-> severity, browsers |-> browsers]

analyzeBrowserCompatibility(pkg, es, m) ==
    LET uses == scanNamespaces(pkg, es)
        When(condition, note) == IF condition THEN {note} ELSE {}
    IN  When(m.version = "v2", Note("manifest-v2", "info", Chromium))
        \union When(m.version = "v3" /\ m.background.worker # NoPath, Note("background-model", "info", Firefox))
        \union When(m.version = "v2" /\ (m.background.page # NoPath \/ m.background.scripts # <<>>),
                    Note("background-page", "info", Chromium))
        \union When(m.version = "v3" /\ m.hosts # {}, Note("host-permissions", "info", Firefox))
        \union When(m.gecko, Note("firefox-settings", "info", Firefox))
        \union When(m.permissions \cap {"offscreen", "sidePanel"} # {}, Note("chromium-only", "warning", Firefox))
        \union When("declarativeNetRequest" \in m.permissions, Note("partial", "info", Firefox))
        \union When("browser" \in uses, Note("browser-namespace", "info", Chromium))
        \union When("chrome" \in uses /\ ~m.gecko /\ "browser" \notin uses, Note("no-firefox", "info", Firefox))

verdict(notes, browser) == IF \E n \in notes : browser \in n.browsers THEN "review" ELSE "supported"

-----------------------------------------------------------------------------
(* The steps, with an await between one and the next.                      *)

AnalyzerInit ==
    /\ package \in Packages
    /\ step \in {"chosen", "reading"}   \* in the workbench, on the server
    /\ entries = <<>>
    /\ report = NotAnalyzed

chooseFile ==
    /\ step = "chosen"
    /\ IF validateExtensionFile(package) = "none"
       THEN step' = "reading" /\ UNCHANGED report
       ELSE step' = "over" /\ report' = Refused(validateExtensionFile(package))
    /\ UNCHANGED <<package, entries>>

readPackage ==
    /\ step = "reading"
    /\ IF readingError(package) = "none"
       THEN /\ entries' = readEntries(package.files)
            /\ step' = "manifest"
            /\ UNCHANGED report
       ELSE /\ report' = Refused(readingError(package))
            /\ step' = "over"
            /\ UNCHANGED entries
    /\ UNCHANGED package

\* The text is read whole before its length is looked at.
manifestText == LET found == zipFile(package, entries[findManifestEntry(entries)].path)
                IN  package.files[CHOOSE i \in found : TRUE].text

readManifest ==
    /\ step = "manifest"
    /\ LET error == IF \/ manifestEntries(entries) = {}
                       \/ zipFile(package, entries[findManifestEntry(entries)].path) = {}
                    THEN "manifest-missing" ELSE parseManifestJson(manifestText)
       IN  IF error = "none"
           THEN step' = "structure" /\ UNCHANGED report
           ELSE step' = "over" /\ report' = Refused(error)
    /\ UNCHANGED <<package, entries>>

resultOf(pkg, es, m) ==
    LET root == getExtensionRoot(es)
        issues == allIssues(es, m, root)
        scores == buildCategoryScores(issues, m.version)
    IN  [error |-> "none", root |-> root, tree |-> buildFileTree(es), issues |-> issues, scores |-> scores,
         total |-> healthScore(scores), shown |-> buildDetectedConfig(m), features |-> describeManifest(m),
         notes |-> analyzeBrowserCompatibility(pkg, es, m)]

reportAnalysis ==
    /\ step = "structure"
    /\ report' = resultOf(package, entries, manifestText.json)
    /\ step' = "over"
    /\ UNCHANGED <<package, entries>>

AnalyzerNext == chooseFile \/ readPackage \/ readManifest \/ reportAnalysis

AnalyzerSpec == AnalyzerInit /\ [][AnalyzerNext]_anVars

-----------------------------------------------------------------------------
(* The packages that can be handed in.                                     *)

\* A manifest as the analysis reads it: what is not an object, or not a list,
\* holds no path.
ManifestsOf(Paths) ==
    {m \in [version : STRING, gecko : BOOLEAN, permissions : SUBSET STRING, hosts : SUBSET STRING,
            action : [kind : STRING, popup : Paths], browser_action : [kind : STRING, popup : Paths],
            page_action : [kind : STRING, popup : Paths],
            background : [kind : STRING, worker : Paths, scripts : Seq(Paths), page : Paths],
            content_scripts : [groups : Nat, js : Seq(Paths), css : Seq(Paths)],
            icons : [kind : STRING, paths : Seq(Paths)], resources : [kind : STRING, paths : Seq(Paths)],
            options_page : Paths, options_ui : [kind : STRING, page : Paths]] :
        /\ \A k \in {"action", "browser_action", "page_action"} : m[k].popup # NoPath => m[k].kind = "object"
        /\ \/ m.background.kind = "object"
           \/ m.background.worker = NoPath /\ m.background.scripts = <<>> /\ m.background.page = NoPath
        /\ m.content_scripts.groups > 0 \/ (m.content_scripts.js = <<>> /\ m.content_scripts.css = <<>>)
        /\ m.icons.kind = "object" \/ m.icons.paths = <<>>
        /\ m.options_ui.kind = "object" \/ m.options_ui.page = NoPath
        /\ m.resources.kind = "array" \/ m.resources.paths = <<>>}

\* What a ZIP holds; what has no name is a folder.
ZipFiles(Names) ==
    {e \in [path : Seq(Names), folder : BOOLEAN, size : Nat, script : BOOLEAN, uses : SUBSET STRING,
            text : [kind : STRING, json : ManifestsOf(Seq(Names))]] :
        normalizePath(e.path) = NoPath => e.folder}

\* A path with a folder ahead of it.
Pack(p) == <<"packed">> \o p

\* How the paths are ranked does not change with a folder ahead of them.
PathsAreRanked(P) ==
    \A p, q \in P : Rank[p] \in Nat /\ (Len(p) = Len(q) => (Rank[Pack(p)] <= Rank[Pack(q)] <=> Rank[p] <= Rank[q]))

ManifestPaths(pkg) ==
    LET es == readEntries(pkg.files) IN {es[i].path : i \in manifestEntries(es)}

ASSUME AnalyzerAssumption ==
    /\ "packed" \in Segments
    /\ MaxFileSize \in Nat /\ MaxTotalSize \in Nat /\ MaxFiles \in Nat
    /\ \A pkg \in Packages :
        /\ pkg \in [zip : BOOLEAN, size : Nat, readable : BOOLEAN, files : Seq(ZipFiles(Segments))]
        /\ PathsAreRanked(ManifestPaths(pkg))

-----------------------------------------------------------------------------
Reported == step = "over" /\ report.error = "none"

\* A score is a percentage, whatever is found; a package has all of it only
\* if there is nothing to report about it and its version is known.
ScoresAreBounded ==
    Reported => /\ report.total \in 0 .. 100
                /\ report.total = 100 => report.issues = <<>>
                /\ report.issues = <<>> => report.total \in {91, 100}

\* What is analyzed is within every limit, the files taken together too.
LimitsAreKept ==
    Reported => /\ Len(package.files) <= MaxFiles
                /\ \A i \in fileIndices(entries) : entries[i].size <= MaxFileSize
                /\ SizeOf(entries, fileIndices(entries)) <= MaxTotalSize

\* A missing file is reported for a field that is said to be declared, and
\* the field is shown as present unless the action is that of a page.
IssuesAreDeclared ==
    Reported => \A i \in DOMAIN report.issues :
        LET field == report.issues[i].field
            declaring == CASE field = "action" -> {"action", "browser_action", "page_action"}
                           [] field = "options" -> {"options_page", "options_ui"}
                           [] OTHER -> {field}
        IN  field # "manifest" => /\ declaring \cap report.features # {}
                                  /\ \/ field \in report.shown
                                     \/ field = "action" /\ "page_action" \in report.features

\* The sizes of the tree add up: a folder is as large as the files below it,
\* and the top as large as the package is said to be.
TreeAddsUp ==
    Reported =>
        \A f \in DOMAIN report.tree :
            report.tree[f] = SizeOf(entries, {i \in fileIndices(entries) :
                                                 f \in Ancestors(entries[i].path) \union {NoPath}})

\* A package is judged alike whether it was packed with its folder or
\* without: the root is found, and all that is said is said from there.
Packed(pkg) == [pkg EXCEPT !.files = [i \in DOMAIN pkg.files |->
                   [pkg.files[i] EXCEPT !.path = <<"packed">> \o pkg.files[i].path]]]

NestingIsIgnored ==
    Reported =>
        LET packed == Packed(package)
            again == resultOf(packed, readEntries(packed.files), manifestText.json)
        IN  /\ again.root = <<"packed">> \o report.root
            /\ again.tree[<<"packed">>] = report.tree[NoPath]
            /\ [again EXCEPT !.root = report.root, !.tree = report.tree] = report

AnalysisHolds == ScoresAreBounded /\ LimitsAreKept /\ IssuesAreDeclared /\ TreeAddsUp /\ NestingIsIgnored
=============================================================================
