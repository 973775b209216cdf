------------------------------- MODULE Reports ------------------------------
(***************************************************************************)
(* Reports of extensions and their runs, the links that share them and the *)
(* slugs that publish them (app/api/reports, lib/reports and the           *)
(* repositories under them).  A handler is one step, but for the request   *)
(* of a link, which looks the report up before it awaits its body.  The    *)
(* foreign keys of the schema are part of every deletion.                  *)
(***************************************************************************)
EXTENDS Integers, FiniteSets

CONSTANTS
    Owners, Extensions, Snapshots, Tests, Reports,
    Shares,         \* the tokens of links, each given once
    Slugs,
    Sharers,        \* the requests of links
    Scores          \* what an analysis or a run may score

None == "none"
Null == -1

ASSUME ReportsAssumption ==
    /\ Scores \subseteq 0 .. 100 /\ 0 \in Scores
    /\ None \notin Owners \union Extensions \union Snapshots \union Tests \union Reports

VARIABLES
    accounts,       \* users: those that are there
    extensions,     \* extensions: the row of each
    snapshots,      \* analysis_snapshots: the row of each
    testRuns,       \* test_runs: the row of each
    reports,        \* reports: the row of each
    shares,         \* shares: the row of each token
    publications,   \* report_publications: the row of each slug
    sharers         \* the report each request of a link looked up

rpVars == <<accounts, extensions, snapshots, testRuns, reports, shares, publications, sharers>>

NoCounts == [passed |-> 0, failed |-> 0, warnings |-> 0]
NoExtension == [status |-> "absent", owner |-> None, score |-> 0]
NoSnapshot == [status |-> "absent", extension |-> None, at |-> 0]
NoRun == [status |-> "absent", owner |-> None, outcome |-> None, score |-> 0, counts |-> NoCounts]
NoReport == [status |-> "absent", owner |-> None, organization |-> FALSE, extension |-> None, snapshot |-> None,
             run |-> None, health |-> Null, runtime |-> Null, overall |-> Null, tests |-> "none", counts |-> NoCounts]
NoShare == [status |-> "unused", report |-> None, expires |-> FALSE]
OverShare == [NoShare EXCEPT !.status = "over"]   \* revoked, expired or deleted: no link any more
NoPublication == [report |-> None, by |-> None]

There(rows) == {id \in DOMAIN rows : rows[id].status \notin {"absent", "gone"}}

\* Runs of the first versions were saved without an outcome.
Terminal == {"completed", "failed", "timeout", "destroyed"}
LegacyRuns == [status : Terminal, owner : Owners, outcome : {None}, score : Scores,
               counts : [passed : {1}, failed : {0, 1}, warnings : {0, 1}]]

ReportsInit ==
    /\ accounts = Owners
    /\ extensions = [x \in Extensions |-> NoExtension]
    /\ snapshots = [n \in Snapshots |-> NoSnapshot]
    /\ testRuns \in [Tests -> {NoRun} \union LegacyRuns]
    /\ reports = [r \in Reports |-> NoReport]
    /\ shares = [s \in Shares |-> NoShare]
    /\ publications = [g \in Slugs |-> NoPublication]
    /\ sharers = [c \in Sharers |-> None]

-----------------------------------------------------------------------------
(* Extensions and runs.                                                    *)

getOwnedExtension(u, x) == x \in There(extensions) /\ extensions[x].owner = u

\* Snapshots are numbered in the order they are made.
createSnapshot(n, x) ==
    /\ snapshots[n].status = "absent"
    /\ LET made == Cardinality({m \in Snapshots : snapshots[m].at > 0})
       IN  snapshots' = [snapshots EXCEPT ![n] = [status |-> "there", extension |-> x, at |-> made + 1]]

\* An analysis is saved: the extension is made, or takes its new score.
saveAnalysis(u, x, n, score) ==
    /\ u \in accounts
    /\ extensions[x].status = "absent" \/ getOwnedExtension(u, x)
    /\ extensions' = [extensions EXCEPT ![x] = [status |-> "there", owner |-> u, score |-> score]]
    /\ createSnapshot(n, x)
    /\ UNCHANGED <<accounts, testRuns, reports, shares, publications, sharers>>

\* The snapshots go with their extension (ON DELETE CASCADE).
cascades(gone) ==
    /\ extensions' = [x \in Extensions |->
          IF x \in gone THEN [NoExtension EXCEPT !.status = "gone"] ELSE extensions[x]]
    /\ snapshots' = [n \in Snapshots |->
          IF snapshots[n].extension \in gone
          THEN [NoSnapshot EXCEPT !.status = "gone", !.at = snapshots[n].at] ELSE snapshots[n]]

\* A report stays when its extension goes (ON DELETE SET NULL).
Cleared(report, gone) ==
    [report EXCEPT !.extension = IF @ \in gone THEN None ELSE @,
                   !.snapshot = IF @ # None /\ snapshots[@].extension \in gone THEN None ELSE @]

deleteExtension(u, x) ==
    /\ getOwnedExtension(u, x)
    /\ cascades({x})
    /\ reports' = [r \in Reports |-> Cleared(reports[r], {x})]
    /\ UNCHANGED <<accounts, testRuns, shares, publications, sharers>>

rpRunStep(t, row) ==
    /\ testRuns' = [testRuns EXCEPT ![t] = row]
    /\ UNCHANGED <<accounts, extensions, snapshots, reports, shares, publications, sharers>>

createTestRun(u, t) ==
    /\ u \in accounts /\ testRuns[t].status = "absent"
    /\ rpRunStep(t, [NoRun EXCEPT !.status = "active", !.owner = u])

\* notifyStatus writes the status as soon as it is known, while the sandbox is
\* still to be stopped; the results follow, unless the process goes down.
notifyStatus(t, state) ==
    /\ testRuns[t].status = "active" /\ state \in Terminal
    /\ rpRunStep(t, [testRuns[t] EXCEPT !.status = state])

\* What outcomesOf may say of each status.
outcomesOf(state) ==
    CASE state = "completed" -> {"PASSED", "FAILED", "WARNING", "SKIPPED", "TIMEOUT", "INFRASTRUCTURE_ERROR"}
      [] state = "failed" -> {"FAILED", "INFRASTRUCTURE_ERROR"}
      [] state = "timeout" -> {"TIMEOUT"}
      [] OTHER -> {"CANCELLED"}

AwaitsResults(t) ==
    testRuns[t].status \in Terminal /\ testRuns[t].outcome = None /\ testRuns[t].counts = NoCounts

savesFinal(t, ended, score) ==
    /\ AwaitsResults(t)
    /\ ended \in outcomesOf(testRuns[t].status)
    /\ rpRunStep(t, [testRuns[t] EXCEPT !.outcome = ended, !.score = score,
                        !.counts = [passed |-> IF ended = "PASSED" THEN 1 ELSE 0,
                                    failed |-> IF ended = "FAILED" THEN 1 ELSE 0,
                                    warnings |-> IF ended = "WARNING" THEN 1 ELSE 0]])

\* A failure that may pass is tried again: its results are not saved.
requeuesForRetry(t) ==
    /\ AwaitsResults(t) /\ testRuns[t].status = "failed"
    /\ rpRunStep(t, [testRuns[t] EXCEPT !.status = "active"])

\* A run that never had results: its score stays 0.
finalizesWithoutResults(t, state, ended) ==
    /\ testRuns[t].status = "active"
    /\ <<state, ended>> \in {<<"failed", "FAILED">>, <<"failed", "INFRASTRUCTURE_ERROR">>, <<"destroyed", "CANCELLED">>}
    /\ rpRunStep(t, [testRuns[t] EXCEPT !.status = state, !.outcome = ended])

-----------------------------------------------------------------------------
(* Reports.                                                                *)

rpNewReport(u, r, row) ==
    /\ u \in accounts /\ reports[r].status = "absent"
    /\ reports' = [reports EXCEPT ![r] = row]
    /\ UNCHANGED <<accounts, extensions, snapshots, testRuns, shares, publications, sharers>>

getOwnedSnapshot(u, n) == n \in There(snapshots) /\ getOwnedExtension(u, snapshots[n].extension)
getLatestSnapshot(x) ==
    {n \in There(snapshots) : /\ snapshots[n].extension = x
                              /\ \A m \in Snapshots : snapshots[m].extension = x => snapshots[m].at <= snapshots[n].at}

\* A row of the first versions has no outcome: its status and counts tell.
runOutcomeOf(row) ==
    CASE row.outcome # None -> row.outcome
      [] row.outcome = None /\ row.status = "completed" ->
            IF row.counts.failed > 0 THEN "FAILED" ELSE IF row.counts.warnings > 0 THEN "WARNING" ELSE "PASSED"
      [] row.outcome = None /\ row.status = "timeout" -> "TIMEOUT"
      [] row.outcome = None /\ row.status = "destroyed" -> "CANCELLED"
      [] OTHER -> "INFRASTRUCTURE_ERROR"

RuntimeExecuted(row) == runOutcomeOf(row) \notin {"INFRASTRUCTURE_ERROR", "CANCELLED"}

\* Math.round of the mean.
OverallScore(health, runtime) == (health + runtime + 1) \div 2

\* What a report says of the run it names, or of none.
RuntimePart(t) ==
    IF t = None THEN [run |-> None, runtime |-> Null, tests |-> "none", counts |-> NoCounts]
    ELSE [run |-> t, runtime |-> IF RuntimeExecuted(testRuns[t]) THEN testRuns[t].score ELSE Null,
          tests |-> IF RuntimeExecuted(testRuns[t]) THEN "executed" ELSE "not-executed",
          counts |-> testRuns[t].counts]

\* The snapshot is one the request names, of any extension of the user, or the latest.
createReport(u, r, x, named, t) ==
    /\ getOwnedExtension(u, x)
    /\ t # None => testRuns[t].owner = u /\ testRuns[t].status \in Terminal
    /\ \E n \in IF named = None THEN getLatestSnapshot(x) ELSE {named} :
          /\ named # None => getOwnedSnapshot(u, n)
          /\ LET part == RuntimePart(t) IN LET health == extensions[x].score IN
             rpNewReport(u, r,
                [status |-> "there", owner |-> u, organization |-> FALSE, extension |-> x, snapshot |-> n,
                 run |-> t, health |-> health, runtime |-> part.runtime, tests |-> part.tests,
                 overall |-> IF part.runtime = Null THEN health ELSE OverallScore(health, part.runtime),
                 counts |-> part.counts])

\* A matrix of browsers, or the evidence of a session: no analysis, no single run.
createCrossReport(u, r, x, score, org) ==
    /\ x # None => getOwnedExtension(u, x)
    /\ rpNewReport(u, r, [NoReport EXCEPT !.status = "there", !.owner = u, !.organization = org, !.extension = x,
                                          !.runtime = score, !.overall = score])

-----------------------------------------------------------------------------
(* Links and publications.                                                 *)

\* The row of a token is live until it is revoked or its time passes.
getActiveShareForReport(r) == {s \in Shares : shares[s].status = "live" /\ shares[s].report = r}
revoked(some) == [s \in Shares |-> IF s \in some THEN OverShare ELSE shares[s]]

shareLooksUp(c, r) ==
    /\ sharers[c] = None /\ r \in There(reports)
    /\ sharers' = [sharers EXCEPT ![c] = r]
    /\ UNCHANGED <<accounts, extensions, snapshots, testRuns, reports, shares, publications>>

\* After the body: the plan may refuse; a report that is gone by now is refused by the key.
createShare(c, s, expires) ==
    /\ sharers[c] \in Reports /\ shares[s].status = "unused"
    /\ LET r == sharers[c] IN
       \/ UNCHANGED shares
       \/ /\ r \in There(reports)
          /\ shares' = [revoked(getActiveShareForReport(r)) EXCEPT ![s] = [status |-> "live", report |-> r, expires |-> expires]]
    /\ sharers' = [sharers EXCEPT ![c] = "answered"]
    /\ UNCHANGED <<accounts, extensions, snapshots, testRuns, reports, publications>>

revokeShare(r) ==
    /\ r \in There(reports) /\ getActiveShareForReport(r) # {}
    /\ shares' = revoked(getActiveShareForReport(r))
    /\ UNCHANGED <<accounts, extensions, snapshots, testRuns, reports, publications, sharers>>

shareExpires(s) ==
    /\ shares[s].status = "live" /\ shares[s].expires
    /\ shares' = [shares EXCEPT ![s] = OverShare]
    /\ UNCHANGED <<accounts, extensions, snapshots, testRuns, reports, publications, sharers>>

publishReport(u, g, r) ==
    /\ u \in accounts
    /\ r \in There(reports) /\ reports[r].organization
    /\ publications[g] = NoPublication
    /\ publications' = [publications EXCEPT ![g] = [report |-> r, by |-> u]]
    /\ UNCHANGED <<accounts, extensions, snapshots, testRuns, reports, shares, sharers>>

unpublishReport(g) ==
    /\ publications[g] # NoPublication
    /\ publications' = [publications EXCEPT ![g] = NoPublication]
    /\ UNCHANGED <<accounts, extensions, snapshots, testRuns, reports, shares, sharers>>

\* Whatever the keys lead to goes with an account; a publication has none to its report.
accountDeleted(u) ==
    /\ u \in accounts
    /\ accounts' = accounts \ {u}
    /\ cascades({x \in Extensions : extensions[x].owner = u})
    /\ testRuns' = [t \in Tests |-> IF testRuns[t].owner = u THEN [NoRun EXCEPT !.status = "gone"] ELSE testRuns[t]]
    /\ LET gone == {r \in Reports : reports[r].owner = u}
       IN  /\ reports' = [r \in Reports |-> IF r \in gone THEN [NoReport EXCEPT !.status = "gone"] ELSE reports[r]]
           /\ shares' = [s \in Shares |-> IF shares[s].report \in gone THEN OverShare ELSE shares[s]]
    /\ publications' = [g \in Slugs |-> IF publications[g].by = u THEN NoPublication ELSE publications[g]]
    /\ UNCHANGED sharers

\* What the page of a link and the page of a slug show.
getLiveShareByToken(s) == IF shares[s].status = "live" THEN shares[s].report ELSE None
getPublicReportBySlug(g) == IF publications[g].report \in There(reports) THEN publications[g].report ELSE None

-----------------------------------------------------------------------------
(* Two reports side by side.                                               *)

OrZero(score) == IF score = Null THEN 0 ELSE score

Direction(before, after, invert) ==
    LET diff == OrZero(after) - OrZero(before)
    IN  CASE diff = 0 -> "unchanged"
          [] diff > 0 -> IF invert THEN "worsened" ELSE "improved"
          [] OTHER -> IF invert THEN "improved" ELSE "worsened"

\* The counts are compared when both ran.
buildRows(a, b) ==
    [health |-> Direction(reports[a].health, reports[b].health, FALSE),
     runtime |-> Direction(reports[a].runtime, reports[b].runtime, FALSE),
     counts |-> IF reports[a].runtime = Null \/ reports[b].runtime = Null THEN <<>>
                ELSE <<Direction(reports[a].counts.passed, reports[b].counts.passed, FALSE),
                       Direction(reports[a].counts.failed, reports[b].counts.failed, TRUE),
                       Direction(reports[a].counts.warnings, reports[b].counts.warnings, TRUE)>>]

-----------------------------------------------------------------------------
ReportsNext ==
    \/ \E u \in Owners :
          \/ accountDeleted(u)
          \/ \E x \in Extensions : deleteExtension(u, x) \/ \E n \in Snapshots, score \in Scores : saveAnalysis(u, x, n, score)
          \/ \E t \in Tests : createTestRun(u, t)
          \/ \E r \in Reports :
                \/ \E x \in Extensions, named \in Snapshots \union {None}, t \in Tests \union {None} : createReport(u, r, x, named, t)
                \/ \E x \in Extensions \union {None}, score \in Scores \union {Null}, org \in BOOLEAN :
                      createCrossReport(u, r, x, score, org)
                \/ \E g \in Slugs : publishReport(u, g, r)
    \/ \E t \in Tests :
          \/ \E state \in Terminal : notifyStatus(t, state)
          \/ \E state \in Terminal : \E ended \in outcomesOf(state) :
                \/ finalizesWithoutResults(t, state, ended)
                \/ \E score \in Scores : savesFinal(t, ended, score)
          \/ requeuesForRetry(t)
    \/ \E c \in Sharers :
          \/ \E r \in Reports : shareLooksUp(c, r)
          \/ \E s \in Shares, expires \in BOOLEAN : createShare(c, s, expires)
    \/ \E r \in Reports : revokeShare(r)
    \/ \E s \in Shares : shareExpires(s)
    \/ \E g \in Slugs : unpublishReport(g)

ReportsSpec == ReportsInit /\ [][ReportsNext]_rpVars

-----------------------------------------------------------------------------
\* A report shows the runtime score of its run or, when the results of the run
\* were still to be saved, 0; the overall score is its health when nothing ran.
ScoresAreTheirs ==
    \A r \in There(reports) : LET rep == reports[r] IN
        /\ rep.run # None => /\ testRuns[rep.run].owner = rep.owner
                             /\ rep.runtime \in {Null, 0, testRuns[rep.run].score}
        /\ rep.health # Null /\ rep.runtime = Null => rep.overall = rep.health
        /\ rep.tests = "not-executed" => rep.runtime = Null

\* What a report names is there, and its owner's.
ReferencesExist ==
    \A r \in There(reports) : LET rep == reports[r] IN
        /\ rep.owner \in accounts
        /\ rep.extension # None => getOwnedExtension(rep.owner, rep.extension)
        /\ rep.snapshot # None => getOwnedSnapshot(rep.owner, rep.snapshot)

\* However the requests for links cross, one link of a report is live, and its
\* report is there: what a token shows is a report.
LinksAreSingle ==
    \A s \in Shares : shares[s].status = "live" =>
        /\ getLiveShareByToken(s) \in There(reports)
        /\ getActiveShareForReport(shares[s].report) = {s}

\* Every publication has its author, and shows a report of an organization or none.
PublicationsAreOrganizations ==
    \A g \in Slugs : publications[g] # NoPublication =>
        /\ publications[g].by \in accounts
        /\ getPublicReportBySlug(g) # None => reports[getPublicReportBySlug(g)].organization

Opposite(d) == CASE d = "improved" -> "worsened" [] d = "worsened" -> "improved" [] OTHER -> "unchanged"

\* Two reports compared the other way round have changed the other way round.
ComparisonsMirror ==
    \A a, b \in Scores \union {Null}, invert \in BOOLEAN : Direction(b, a, invert) = Opposite(Direction(a, b, invert))

\* What reports say, link to and name holds together (app/api/reports,
\* lib/db/repositories/shares.ts and the keys of the schema).
ReportsHold == ScoresAreTheirs /\ ReferencesExist /\ LinksAreSingle /\ PublicationsAreOrganizations /\ ComparisonsMirror
=============================================================================
