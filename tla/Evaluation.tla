----------------------------- MODULE Evaluation -----------------------------
(***************************************************************************)
(* What finished runs are taken to mean: the outcome and the score of one, *)
(* the comparison of a matrix across its browsers, the regression against  *)
(* a designated baseline, and the verdict of an organization's policy.     *)
(*                                                                         *)
(* Each is a function of stored rows; the rows change under it, because    *)
(* the policy is evaluated on every read of a matrix, finished or not, and *)
(* the baseline is whatever finished matrix was designated last.           *)
(***************************************************************************)
EXTENDS Integers, FiniteSets, FiniteSetsExt

CONSTANTS
    Tests,         \* the tests of the suite
    Categories,    \* the score categories
    CategoryOf,    \* [Tests -> Categories]
    Browsers,      \* the browsers a matrix asks for
    EndStatuses,   \* the statuses a test ends with, some of ResultStatuses
    RuleSets       \* the policies an organization may set

\* With 200 browsers or more Math.round would show 100 although one of them
\* failed.
ASSUME EvaluationAssumption ==
    /\ IsFiniteSet(Tests) /\ IsFiniteSet(Categories) /\ CategoryOf \in [Tests -> Categories]
    /\ IsFiniteSet(Browsers) /\ Cardinality(Browsers) < 200
    /\ "(overall)" \notin Tests

VARIABLES
    execution,     \* per browser: the row of its test run
    compared,      \* the comparison stored when the matrix was finalized
    reference,     \* the executions of the baseline, unfinished before there is one
    regression,    \* the regression comparison made, if one is
    rules,         \* the policy of the organization
    analysis       \* what the analysis of the package says

evVars == <<execution, compared, reference, regression, rules, analysis>>

NoOutcome == "none"
Passing == {"passed", "warning"}
Failing == {"failed", "error", "timeout"}
ResultStatuses == Passing \cup Failing \cup {"skipped", "unsupported"}
NoResult == "absent"

-----------------------------------------------------------------------------
(* A test run: its state, whether the extension failed to load, a result   *)
(* per test (NoResult if there is none), whether it logged an error.       *)
Unfinished == [state |-> NoOutcome, load |-> FALSE, results |-> [t \in Tests |-> NoResult], errors |-> FALSE]

Completed == [state : {"completed"}, load : {FALSE}, results : [Tests -> EndStatuses], errors : BOOLEAN]
TimedOut == [state : {"timeout"}, load : {FALSE}, results : [Tests -> {NoResult, "failed"}],
             errors : {FALSE}]
Stopped == {[Unfinished EXCEPT !.state = end.state, !.load = end.load] :
                end \in [state : {"failed"}, load : BOOLEAN] \cup [state : {"destroyed"}, load : {FALSE}]}
Rows == Completed \cup TimedOut \cup Stopped

Having(e, s) == {t \in Tests : e.results[t] \in s}

\* A run that is not over has no outcome.
deriveOutcome(e) ==
    IF e.state = NoOutcome THEN NoOutcome
    ELSE IF e.state = "destroyed" THEN "CANCELLED"
    ELSE IF e.state = "failed" THEN IF e.load THEN "FAILED" ELSE "INFRASTRUCTURE_ERROR"
    ELSE IF e.state = "timeout" THEN "TIMEOUT"
    ELSE IF Having(e, ResultStatuses) = {} THEN "INFRASTRUCTURE_ERROR"
    ELSE IF Having(e, {"failed", "error"}) # {} THEN "FAILED"
    ELSE IF Having(e, {"timeout"}) # {} THEN "TIMEOUT"
    ELSE IF Having(e, {"warning"}) # {} THEN "WARNING"
    ELSE IF Having(e, {"passed"}) = {} THEN "SKIPPED" ELSE "PASSED"

Executed(e) == deriveOutcome(e) \notin {NoOutcome, "INFRASTRUCTURE_ERROR", "CANCELLED"}
               /\ e.state \notin {"failed", "timeout", "destroyed"}

\* Math.round of a quotient of naturals.
Rounded(n, d) == (2 * n + d) \div (2 * d)
Points(s) == IF s = "passed" THEN 100 ELSE IF s = "warning" THEN 50 ELSE 0

\* A mean over the categories of the means over their tests that ran.
computeTestScore(e) ==
    LET applicable == Having(e, Passing \cup Failing)
        grouped == {c \in Categories : \E t \in applicable : CategoryOf[t] = c}
        OfCategory(c) == {t \in applicable : CategoryOf[t] = c}
        Score(c) == Rounded(MapThenSumSet(LAMBDA t : Points(e.results[t]), OfCategory(c)),
                            Cardinality(OfCategory(c)))
    IN  IF applicable = {} THEN 0 ELSE Rounded(MapThenSumSet(Score, grouped), Cardinality(grouped))

-----------------------------------------------------------------------------
(* The comparison of a matrix.                                             *)
NullScore == -1

Status(e) == IF deriveOutcome(e) = NoOutcome THEN "INFRASTRUCTURE_ERROR" ELSE deriveOutcome(e)
Ran(m) == {b \in DOMAIN m : Executed(m[b])}
browsersPassing(m) == {b \in Ran(m) : Status(m[b]) \in {"PASSED", "WARNING"}}
browsersFailing(m) == {b \in Ran(m) : Status(m[b]) \in {"FAILED", "TIMEOUT"}}

\* Mutated compatibilityScore: out of the browsers asked for.
scoreOfRequested(m) ==
    IF Ran(m) = {} THEN NullScore ELSE Rounded(100 * Cardinality(browsersPassing(m)), Cardinality(DOMAIN m))

compatibilityScore(m) ==
    IF Ran(m) = {} THEN NullScore ELSE Rounded(100 * Cardinality(browsersPassing(m)), Cardinality(Ran(m)))

Cell(m, b, t) ==
    IF ~Executed(m[b])
    THEN IF Status(m[b]) \in {"INFRASTRUCTURE_ERROR", "CANCELLED"} THEN "unavailable" ELSE "not-run"
    ELSE IF m[b].results[t] = NoResult THEN "not-run" ELSE m[b].results[t]

\* The browsers that logged the error.
buildConsoleComparison(m) == {b \in Ran(m) : m[b].errors}

\* A test that fails in one browser and passes in another; an error that
\* some browsers that ran logged and others did not.
Findings(m) ==
    LET In(t, s) == {b \in DOMAIN m : Cell(m, b, t) \in s}
        logged == buildConsoleComparison(m)
    IN  {<<"BROWSER_ONLY_FAILURE", t>> :
            t \in {u \in Tests : Cardinality(In(u, Failing)) = 1 /\ In(u, Passing) # {}}}
        \cup {<<"UNSUPPORTED_FEATURE", t>> : t \in {u \in Tests : In(u, {"unsupported"}) # {}}}
        \cup IF logged \notin {{}, Ran(m)} THEN {<<"RUNTIME_ERROR_BROWSER_SPECIFIC", NoResult>>} ELSE {}
        \cup {<<"INFRASTRUCTURE_UNAVAILABLE", b>> :
                 b \in {c \in DOMAIN m : Status(m[c]) \in {"INFRASTRUCTURE_ERROR", "CANCELLED"}}}

buildMatrixComparison(m) ==
    [score |-> compatibilityScore(m), passing |-> browsersPassing(m), failing |-> browsersFailing(m),
     unavailable |-> DOMAIN m \ Ran(m), findings |-> Findings(m)]

-----------------------------------------------------------------------------
(* The regression of one browser from its earlier to its later run.        *)
NoRegressions == [regressions |-> {}, improvements |-> {}, newErrors |-> FALSE]

\* Mutated TestRegressions: a test that still fails is reported again.
anyFailure(p, c) == {t \in Tests : p.results[t] # NoResult /\ c.results[t] \in Failing}

TestRegressions(p, c) ==
    {t \in Tests : \/ p.results[t] \in Passing /\ c.results[t] \in Failing
                   \/ p.results[t] = "passed" /\ c.results[t] = "unsupported"}

compareBrowserRun(p, c) ==
    IF ~Executed(p) \/ ~Executed(c) THEN NoRegressions
    ELSE [regressions |-> IF TestRegressions(p, c) # {} THEN TestRegressions(p, c)
                          ELSE IF computeTestScore(c) < computeTestScore(p) THEN {"(overall)"} ELSE {},
          improvements |-> {t \in Tests : p.results[t] \in Failing /\ c.results[t] = "passed"},
          newErrors |-> c.errors /\ ~p.errors]

buildRegressionComparison(p, c) == [b \in Browsers |-> compareBrowserRun(p[b], c[b])]

\* A run of a saved test against its baseline in the same browser; how long
\* they took is left out.  A run that timed out does not count as failed.
failedRun(e) == deriveOutcome(e) = "FAILED" \/ Having(e, {"failed"}) # {}

compareSavedTestRuns(p, c) ==
    LET more == (c.errors /\ ~p.errors)
                \/ Cardinality(Having(c, {"warning"})) > Cardinality(Having(p, {"warning"}))
    IN  IF NoOutcome \in {deriveOutcome(p), deriveOutcome(c)} THEN "NO_REGRESSION"
        ELSE IF failedRun(c) THEN IF failedRun(p) THEN "UNCHANGED_FAILURE" ELSE "NEW_FAILURE"
        ELSE IF failedRun(p) THEN "FIXED_FAILURE"
        ELSE IF more THEN "NEW_WARNING" ELSE "NO_REGRESSION"

-----------------------------------------------------------------------------
(* The policy: rules are the least health score (or none), the tests and   *)
(* the browsers that must pass, and whether regressions are allowed; the   *)
(* analysis is good or bad enough for it, or there is none.                *)
NoRules == [health |-> FALSE, tests |-> {}, browsers |-> {}, allowRegressions |-> TRUE]

failedTestIds == UNION {Having(execution[b], {"failed", "error"}) : b \in Browsers}
executedTestIds == UNION {Having(execution[b], ResultStatuses) : b \in Browsers}
infrastructureFailed == \E b \in Browsers : deriveOutcome(execution[b]) = "INFRASTRUCTURE_ERROR"

Verdict(ok) == IF ok THEN "pass" ELSE "fail"

\* A matrix brings no regression evidence along.
Checks ==
    {<<"min-health-score", IF analysis = NoOutcome THEN "not_evaluated" ELSE Verdict(analysis = "good")>> :
        x \in {y \in {1} : rules.health}}
    \cup {<<"required-tests", Verdict(rules.tests \subseteq executedTestIds \ failedTestIds)>> :
        x \in {y \in {1} : rules.tests # {}}}
    \cup {<<"required-browsers",
            Verdict(\A b \in rules.browsers : deriveOutcome(execution[b]) \in {"PASSED", "WARNING"})>> :
        x \in {y \in {1} : rules.browsers # {}}}
    \cup {<<"regressions", "not_evaluated">> : x \in {y \in {1} : ~rules.allowRegressions}}

\* Mutated evaluatePolicy: the infrastructure is not asked about.
checksOnly ==
    IF Checks = {} THEN "NOT_EVALUATED"
    ELSE IF \E c \in Checks : c[2] = "fail" THEN "FAIL"
    ELSE IF \A c \in Checks : c[2] = "not_evaluated" THEN "NOT_EVALUATED" ELSE "PASS"

evaluatePolicy ==
    IF Checks = {} THEN "NOT_EVALUATED"
    ELSE IF infrastructureFailed \/ \E c \in Checks : c[2] = "fail" THEN "FAIL"
    ELSE IF \A c \in Checks : c[2] = "not_evaluated" THEN "NOT_EVALUATED" ELSE "PASS"

-----------------------------------------------------------------------------
NoComparison == [score |-> NullScore, passing |-> {}, failing |-> {}, unavailable |-> {}, findings |-> {}]
NoRuns == [b \in Browsers |-> Unfinished]
Finalized == compared # NoComparison /\ \E b \in Browsers : Executed(execution[b])
Over == \A b \in Browsers : execution[b] # Unfinished

EvaluationInit ==
    /\ execution = NoRuns /\ compared = NoComparison
    /\ reference = NoRuns /\ regression = {}
    /\ rules = NoRules /\ analysis \in {NoOutcome, "good", "bad"}

\* The run of one browser is saved with its outcome, results and score.
saveTestRunFinal(b, e) ==
    /\ execution[b] = Unfinished
    /\ execution' = [execution EXCEPT ![b] = e]
    /\ UNCHANGED <<compared, reference, regression, rules, analysis>>

finalizeMatrixRun ==
    /\ Over /\ compared = NoComparison
    /\ compared' = buildMatrixComparison(execution)
    /\ UNCHANGED <<execution, reference, regression, rules, analysis>>

\* Only a finished matrix becomes the baseline; a new matrix is compared
\* with it, since a run is never compared with itself.
setBaseline ==
    /\ Finalized /\ reference = NoRuns
    /\ reference' = execution
    /\ execution' = NoRuns /\ compared' = NoComparison
    /\ UNCHANGED <<regression, rules, analysis>>

compareForRegression ==
    /\ reference # NoRuns /\ regression = {}
    /\ Finalized
    /\ regression' = {buildRegressionComparison(reference, execution)}
    /\ UNCHANGED <<execution, compared, reference, rules, analysis>>

updateOrganizationPolicy(r) ==
    /\ rules = NoRules /\ reference = NoRuns /\ r # NoRules
    /\ rules' = r
    /\ UNCHANGED <<execution, compared, reference, regression, analysis>>

MatrixNext ==
    \/ \E b \in Browsers, e \in Rows : saveTestRunFinal(b, e)
    \/ finalizeMatrixRun
ComparisonNext == MatrixNext \/ setBaseline \/ compareForRegression
PolicyNext == MatrixNext \/ \E r \in RuleSets : updateOrganizationPolicy(r)

EvaluationNext == ComparisonNext \/ PolicyNext

EvaluationSpec == EvaluationInit /\ [][EvaluationNext]_evVars

-----------------------------------------------------------------------------
(* Safety.                                                                 *)

\* The stored score of a matrix is the one its browsers that ran would have
\* had on their own: a browser without a container takes nothing from it
\* (docs/BROWSERS.md), 100 is earned by all of them, and no browser counts as
\* passing and failing.
ScoreIgnoresUnavailable ==
    compared # NoComparison =>
        /\ compared.score = compatibilityScore([b \in Ran(execution) |-> execution[b]])
        /\ (compared.score = 100) = (Ran(execution) # {} /\ compared.passing = Ran(execution))
        /\ compared.passing \cap (compared.failing \cup compared.unavailable) = {}

\* A regression is news: read backwards it would have been an improvement, a
\* recovered capability or a better score, and never a failure that failed
\* before; a browser that did not run both times is not judged; a score that
\* fell is always reported; and the saved test's own comparison says of the
\* same two runs that a failure is new exactly when it says of them in the
\* other order that it is fixed.
RegressionsAreNews ==
    \A r \in regression, b \in Browsers :
        LET back == buildRegressionComparison(execution, reference)[b]
            fell == computeTestScore(execution[b]) < computeTestScore(reference[b])
        IN  /\ r[b].regressions \cap (r[b].improvements \cup back.regressions) = {}
            /\ r[b].regressions # {} => Executed(execution[b]) /\ Executed(reference[b])
            /\ \A t \in r[b].regressions \cap Tests : reference[b].results[t] \notin Failing
            /\ (fell /\ Executed(execution[b]) /\ Executed(reference[b])) => r[b].regressions # {}
            /\ (compareSavedTestRuns(reference[b], execution[b]) = "NEW_FAILURE")
                    = (compareSavedTestRuns(execution[b], reference[b]) = "FIXED_FAILURE")

\* The gate says PASS only of a matrix no container of which failed, whose
\* required browsers all passed and whose required tests ran and did not fail
\* anywhere, over an analysis that is good enough if there is one.
PassIsEarned ==
    evaluatePolicy = "PASS" =>
        /\ \A b \in Browsers : deriveOutcome(execution[b]) # "INFRASTRUCTURE_ERROR"
        /\ \A b \in rules.browsers : deriveOutcome(execution[b]) \in {"PASSED", "WARNING"}
        /\ \A t \in rules.tests : \A b \in Browsers : execution[b].results[t] \notin {"failed", "error"}
        /\ \A t \in rules.tests : \E b \in Browsers : execution[b].results[t] # NoResult
        /\ rules.health => analysis # "bad"

EvaluationIsFair == ScoreIgnoresUnavailable /\ RegressionsAreNews /\ PassIsEarned
=============================================================================
