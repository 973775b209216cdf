------------------------------ MODULE AIContext ------------------------------
(***************************************************************************)
(* What the provider is shown and what is believed of its answer           *)
(* (lib/ai/sources.ts, context.ts, prompts.ts, schema.ts,                  *)
(* test-suggestions.ts): the stored findings, tests, events and requests   *)
(* of a report, a run or a snapshot are capped, shaped for the question    *)
(* and trimmed until they fit; the answer may cite what was shown, and the *)
(* tests it suggests must pass the rules of the engine.  A size stands for *)
(* the detail an item is shown with: 2 in full, 1 summarised.              *)
(***************************************************************************)
EXTENDS Integers, Sequences, FiniteSets, SequencesExt

CONSTANTS
    Named,          \* what the items of a record are called
    Issues, Diagnostics, TestLists,  \* the lists a record may hold: of ids, of [id, related],
                                     \* and of [id, failing]
    MaxEvents,      \* events and failed requests of a run, at most
    HardCap, Cap,   \* HARD_CAP; MAX_FINDINGS and MAX_TESTS
    Few, Fewer,     \* the lengths the lists are trimmed to, one after the other
    Budgets,        \* maxBytes
    Citations,      \* the ids a request or an answer may name, of the record or made up
    MaxSuggested    \* SUGGESTED_TESTS

VARIABLES
    source,         \* the stored record, once it is loaded
    options,        \* [feature, focus, maxBytes]
    context,        \* what the provider is shown, or why it is not asked
    answer          \* what the user is shown: [evidence, tests, rejected]

acVars == <<source, options, context, answer>>

NotGiven == "none"

\* What a record holds of the diagnostics and of the tests of a run.
DiagnosticRecords(Names) == [id : Names, related : Names \union {NotGiven}]
TestRecords(Names)       == [id : Names, failing : BOOLEAN]

\* The caps are those of the code, each of them at least one.
ASSUME ContextAssumption ==
    /\ NotGiven \notin Named
    /\ Issues \subseteq Seq(Named)
    /\ Diagnostics \subseteq Seq(DiagnosticRecords(Named)) /\ TestLists \subseteq Seq(TestRecords(Named))
    /\ HardCap \in Nat \ {0} /\ Cap \in Nat \ {0} /\ Cap <= HardCap
    /\ Few \in Nat \ {0} /\ Fewer \in Nat \ {0} /\ MaxSuggested \in Nat

NoContext == [state |-> NotGiven]
NoAnswer  == [evidence |-> <<>>, tests |-> <<>>, rejected |-> 0, given |-> FALSE]

ContextInit ==
    /\ source = [issues |-> <<>>, diagnostics |-> <<>>, tests |-> <<>>, events |-> 0, network |-> 0, loaded |-> FALSE]
    /\ options = [feature |-> NotGiven, focus |-> NotGiven, maxBytes |-> 0]
    /\ context = NoContext /\ answer = NoAnswer

Features == {"explain_finding", "explain_test_failure", "summarize_report",
             "analyze_runtime_error", "suggest_tests", "answer_report_question"}

FirstOf(s, n) == IF Len(s) <= n THEN s ELSE SubSeq(s, 1, n)
Fewest(m, n)  == IF m < n THEN m ELSE n
Ids(s)        == {s[i].id : i \in DOMAIN s}
Sized(s, size) == [i \in DOMAIN s |-> [s[i] EXCEPT !.size = size]]

\* The items at some indices, in their order.
Those(s, I)   == FlattenSeq([i \in DOMAIN s |-> IF i \in I THEN <<s[i]>> ELSE <<>>])
Of(s, id)     == Those(s, {i \in DOMAIN s : s[i].id = id})
Besides(s, id) == Those(s, {i \in DOMAIN s : s[i].id # id})

-----------------------------------------------------------------------------
(* The elements of a context.                                               *)

staticFindings(issues) ==
    [i \in DOMAIN FirstOf(issues, HardCap) |-> [id |-> issues[i], related |-> NotGiven, kind |-> "finding", size |-> 2]]
diagnosticFindings(ds) ==
    [i \in DOMAIN FirstOf(ds, HardCap) |-> [id |-> ds[i].id, related |-> ds[i].related, kind |-> "diagnostic", size |-> 2]]
testContexts(ts) ==
    [i \in DOMAIN FirstOf(ts, HardCap) |-> [id |-> ts[i].id, failing |-> ts[i].failing, size |-> 2]]

\* What is asked about comes first, the rest in its order, up to the cap.
prioritize(s, focus) ==
    FirstOf(Of(s, focus) \o Besides(s, focus), Cap)

\* What is asked about, in full, then some of the rest, summarised.
shapeForFeature(c, feature, focus) ==
    LET others(s, n) == Sized(FirstOf(Besides(s, focus), n), 1)
        focused(s)   == Of(s, focus)[1]
        ofFocus      == {i \in DOMAIN c.findings : c.findings[i].related = focus}
        ofRuns       == {i \in DOMAIN c.findings : c.findings[i].kind = "diagnostic"}
        failing      == {i \in DOMAIN c.tests : c.tests[i].failing}
        rest(s, I)   == Those(s, DOMAIN s \ I)
        few(n)       == Fewest(n, Few)
    IN  CASE feature = "explain_finding" ->
               [c EXCEPT !.findings = <<focused(c.findings)>> \o others(c.findings, Few),
                         !.tests = Of(c.tests, focused(c.findings).related),
                         !.events = 0, !.network = 0]
          [] feature = "explain_test_failure" ->
               [c EXCEPT !.findings = Those(c.findings, ofFocus) \o Sized(FirstOf(rest(c.findings, ofFocus), Few), 1),
                         !.tests = <<focused(c.tests)>> \o others(c.tests, Cap),
                         !.events = few(@), !.network = few(@)]
          [] feature = "analyze_runtime_error" ->
               [c EXCEPT !.findings = Those(c.findings, ofRuns) \o Sized(FirstOf(rest(c.findings, ofRuns), Few), 1),
                         !.tests = Those(c.tests, failing) \o Sized(rest(c.tests, failing), 1)]
          [] feature = "suggest_tests" ->
               [c EXCEPT !.findings = Sized(@, 1), !.tests = Sized(@, 1), !.events = few(@), !.network = few(@)]
          [] OTHER ->
               [c EXCEPT !.tests = Sized(@, 1), !.events = few(@), !.network = few(@)]

\* Every item weighs its detail, every entry of the index a unit.
measure(c) ==
    FoldLeft(LAMBDA sum, x : sum + x.size, FoldLeft(LAMBDA sum, x : sum + x.size, 0, c.findings), c.tests)
    + c.events + c.network + Cardinality(c.evidenceIndex)

\* The trims, each of them tried only when the one before was not enough.
Trim(c, n, focus) ==
    LET head(s, k) == Those(s, {i \in DOMAIN s : s[i].id = focus \/ i <= k})
    IN  CASE n = 1 -> [c EXCEPT !.network = Fewest(@, Few), !.events = Fewest(@, Few)]
          [] n = 2 -> [c EXCEPT !.tests = [i \in DOMAIN @ |-> IF @[i].id = focus THEN @[i] ELSE [@[i] EXCEPT !.size = 1]]]
          [] n = 3 -> [c EXCEPT !.findings = head(@, Few)]
          [] n = 4 -> [c EXCEPT !.tests = head(@, Few)]
          [] n = 5 -> [c EXCEPT !.network = 0, !.events = Fewest(@, Fewer)]
          [] n = 6 -> [c EXCEPT !.findings = head(@, Fewer), !.tests = head(@, Fewer)]
          [] OTHER -> [c EXCEPT !.findings = Sized(@, 1), !.tests = Sized(@, 1)]

fitToBudget(c, maxBytes, focus) ==
    LET after[n \in 0 .. 7] ==
            IF n = 0 THEN c
            ELSE IF measure(after[n - 1]) <= maxBytes THEN after[n - 1]
            ELSE [Trim(after[n - 1], n, focus) EXCEPT !.truncated = TRUE]
    IN  after[7]

buildEvidenceIndex(c) ==
    {<<c.findings[i].kind, c.findings[i].id>> : i \in DOMAIN c.findings}
    \union {<<"test", c.tests[i].id>> : i \in DOMAIN c.tests}
    \union {<<"event", i>> : i \in (source.events - c.events + 1) .. source.events}
    \union {<<"network", i>> : i \in (source.network - c.network + 1) .. source.network}

\* Mutated assemble: the index is that of the context before it was trimmed.
indexFirst(c) ==
    [fitToBudget(c, options.maxBytes, options.focus) EXCEPT !.evidenceIndex = buildEvidenceIndex(c)]

assemble(c) ==
    LET fitted == fitToBudget(c, options.maxBytes, options.focus)
    IN  [fitted EXCEPT !.evidenceIndex = buildEvidenceIndex(fitted)]

-----------------------------------------------------------------------------
(* The steps of a request.                                                  *)

\* The route loads the record and passes what is asked about.
loadSource ==
    /\ ~ source.loaded
    /\ \E is \in Issues, ds \in Diagnostics, ts \in TestLists, e \in 0 .. MaxEvents, n \in 0 .. MaxEvents :
           source' = [issues |-> is, diagnostics |-> ds, tests |-> ts, events |-> e, network |-> n, loaded |-> TRUE]
    /\ UNCHANGED <<options, context, answer>>

\* A finding or a test may be asked about that is not in the record.
ask ==
    /\ source.loaded /\ options.feature = NotGiven
    /\ \E feature \in Features, maxBytes \in Budgets :
           \E focus \in CASE feature = "explain_finding"      -> Citations
                          [] feature = "explain_test_failure" -> Citations
                          [] OTHER -> {NotGiven} :
               options' = [feature |-> feature, focus |-> focus, maxBytes |-> maxBytes]
    /\ UNCHANGED <<source, context, answer>>

buildContext ==
    LET findings == prioritize(staticFindings(source.issues) \o diagnosticFindings(source.diagnostics),
                               IF options.feature = "explain_finding" THEN options.focus ELSE NotGiven)
        tests    == prioritize(testContexts(source.tests),
                               IF options.feature = "explain_test_failure" THEN options.focus ELSE NotGiven)
        whole    == [state |-> "built", findings |-> findings, tests |-> tests, events |-> source.events,
                     network |-> source.network, evidenceIndex |-> {}, truncated |-> FALSE]
        missing  == \/ options.feature = "explain_finding" /\ options.focus \notin Ids(findings)
                    \/ options.feature = "explain_test_failure" /\ options.focus \notin Ids(tests)
    IN  /\ options.feature # NotGiven /\ context = NoContext
        /\ context' = IF missing THEN [state |-> "AI_UNAUTHORIZED_CONTEXT"]
                      ELSE LET built == assemble(shapeForFeature(whole, options.feature, options.focus))
                           IN  IF measure(built) > options.maxBytes THEN [state |-> "AI_CONTEXT_TOO_LARGE"] ELSE built
        /\ UNCHANGED <<source, options, answer>>

\* Of what the answer cites, once each, what is in the index.
validateEvidence(cited) ==
    FoldLeft(LAMBDA out, ref : IF ref \in context.evidenceIndex /\ ref \notin ToSet(out) THEN Append(out, ref) ELSE out,
             <<>>, cited)

\* Every suggested test that is looked at breaks a rule of the engine, repeats
\* an id, or is shown.
validateTestSuggestions(candidates) ==
    FoldLeft(LAMBDA out, c : IF Len(out.tests) >= MaxSuggested THEN out
                             ELSE IF c.ok /\ c.id \notin ToSet(out.tests) THEN [out EXCEPT !.tests = Append(@, c.id)]
                             ELSE [out EXCEPT !.rejected = @ + 1],
             [NoAnswer EXCEPT !.given = TRUE], FirstOf(candidates, 2 * MaxSuggested))

Candidates == [id : {"x", "y"}, ok : BOOLEAN]

\* The answer of the provider, whatever it is.
validateOutput ==
    /\ context.state = "built" /\ ~ answer.given
    /\ IF options.feature = "suggest_tests"
       THEN \E candidates \in TupleOf(Candidates, 3) : answer' = validateTestSuggestions(candidates)
       ELSE \E kinds \in {<<"finding", "diagnostic">>, <<"test", "test">>}, ids \in TupleOf(Citations, 2) :
                answer' = [NoAnswer EXCEPT !.given = TRUE,
                                           !.evidence = validateEvidence([i \in 1 .. 2 |-> <<kinds[i], ids[i]>>])]
    /\ UNCHANGED <<source, options, context>>

ContextNext == loadSource \/ ask \/ buildContext \/ validateOutput
ContextSpec == ContextInit /\ [][ContextNext]_acVars

-----------------------------------------------------------------------------
Capped(s) == FirstOf(s, HardCap)
Built   == context.state = "built"

\* What is asked about is refused only when it is not among what is read of the
\* record, and whatever is trimmed, it is shown, in full unless nothing else
\* could make the context fit; a finding is shown with the test it is about, if
\* that is among the tests the context may hold.
FocusIsShown ==
    /\ options.feature = "explain_finding" =>
           LET recorded == ToSet(Capped(source.issues)) \union Ids(Capped(source.diagnostics))
           IN  /\ context.state = "AI_UNAUTHORIZED_CONTEXT" => options.focus \notin recorded
               /\ Built => /\ context.findings[1].id = options.focus
                           /\ ~ context.truncated => context.findings[1].size = 2
                           /\ context.findings[1].related \in Ids(FirstOf(source.tests, Cap)) =>
                                  context.findings[1].related \in Ids(context.tests)
    /\ options.feature = "explain_test_failure" =>
           /\ context.state = "AI_UNAUTHORIZED_CONTEXT" => options.focus \notin Ids(Capped(source.tests))
           /\ Built => /\ context.tests[1].id = options.focus
                       /\ ~ context.truncated => context.tests[1].size = 2

\* Whatever the provider answers, the user is shown as evidence only what the
\* provider was shown, once each; and of the tests it suggests those that pass
\* the rules, no two with one id, with every other one it was told about.
AnswerIsGrounded ==
    Built /\ answer.given =>
        /\ ToSet(answer.evidence) \subseteq
               {<<context.findings[i].kind, context.findings[i].id>> : i \in DOMAIN context.findings}
               \union {<<"test", context.tests[i].id>> : i \in DOMAIN context.tests}
        /\ IsInjective(answer.evidence) /\ IsInjective(answer.tests)
        /\ Len(answer.tests) <= MaxSuggested /\ answer.rejected <= 2 * MaxSuggested

\* What an interpretation promises.
InterpretationHolds == FocusIsShown /\ AnswerIsGrounded
=============================================================================
