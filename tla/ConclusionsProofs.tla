------------------------- MODULE ConclusionsProofs --------------------------
(***************************************************************************)
(* What is concluded is sound.  Proofs about what finished runs are taken  *)
(* to mean (Evaluation), for any suite, browsers and policies; about what  *)
(* an answer of the model may rest on (AIContext), for any packages,       *)
(* records, caps and answers; and about the analysis of a package          *)
(* (Analyzer), for any archives whose entries are well-formed.             *)
(***************************************************************************)
EXTENDS Evaluation, AIContext, Analyzer, FiniteSetTheorems, SequenceTheorems, TLAPS

-----------------------------------------------------------------------------
(* Sums over finite sets.                                                  *)

\* A set of numbers that is not empty has a least one.
LEMMA LeastNatural ==
    ASSUME NEW T, T \subseteq Nat, T # {}
    PROVE  \E x \in T : \A y \in T : x <= y
<1> DEFINE R == OpToRel(<, Nat)
<1>1. IsWellFoundedOn(R, Nat)
  BY NatLessThanWellFounded
<1>2. \A x, y \in Nat : <<x, y>> \in R <=> x < y
  BY DEF OpToRel
<1> HIDE DEF R
<1>3. IsWellFoundedOn(R, T)
  BY <1>1, IsWellFoundedOnSubset
<1>4. PICK x \in T : \A y \in T : ~(<<y, x>> \in R)
  BY <1>3, WFMin
<1>5. \A y \in T : ~(y < x)
  BY <1>2, <1>4
<1>6. \A y \in T : x <= y
  BY <1>5
<1>7. QED
  BY <1>6

Pick(s) == CHOOSE x \in s : TRUE

LEMMA PickIsOfSet == \A s : s # {} => Pick(s) \in s
BY DEF Pick

\* A property of the empty set that a set has if it has it without any one of
\* its elements is one of every subset.
LEMMA SubsetsByRemoval ==
    ASSUME NEW S, IsFiniteSet(S), NEW P, {} \in P,
           \A s \in SUBSET S : s # {} /\ (\A x \in s : s \ {x} \in P) => s \in P
    PROVE  SUBSET S \subseteq P
<1> DEFINE Bad == (SUBSET S) \ P
           Sizes == {Cardinality(s) : s \in Bad}
<1>1. \A s \in SUBSET S : IsFiniteSet(s) /\ Cardinality(s) \in Nat
  BY FS_Subset, FS_CardinalityType
<1>2. SUFFICES ASSUME Bad # {} PROVE FALSE
  OBVIOUS
<1>3. PICK n \in Sizes : \A k \in Sizes : n <= k
  <2>1. Sizes \subseteq Nat /\ Sizes # {}
    BY <1>1, <1>2
  <2> HIDE DEF Sizes
  <2>2. QED
    BY <2>1, LeastNatural
<1>4. PICK s \in Bad : n = Cardinality(s)
  BY <1>3
<1>5. SUFFICES ASSUME NEW x \in s PROVE s \ {x} \in P
  BY <1>4
<1>6. s \ {x} \in SUBSET S /\ Cardinality(s \ {x}) = Cardinality(s) - 1
  BY <1>1, <1>4, <1>5, FS_RemoveElement
<1>7. SUFFICES ASSUME s \ {x} \in Bad PROVE FALSE
  BY <1>6
<1>8. n <= Cardinality(s \ {x})
  BY <1>3, <1>7
<1>9. QED
  BY <1>1, <1>4, <1>6, <1>8

\* g folds G over every subset of S, taking the elements that ch chooses.
Folds(g, G, ch, base, S) ==
    g = [s \in SUBSET S |-> IF s = {} THEN base ELSE G[ch[s]][g[s \ {ch[s]}]]]

\* There is such a fold.
LEMMA FoldsExist ==
    ASSUME NEW S, IsFiniteSet(S), NEW B, NEW base \in B, NEW G \in [S -> [B -> B]],
           NEW ch, \A s \in SUBSET S : s # {} => ch[s] \in s
    PROVE  \E g \in [SUBSET S -> B] : Folds(g, G, ch, base, S)
<1> DEFINE UpTo(n) == {s \in SUBSET S : Cardinality(s) <= n}
           FoldsUpTo(g, n) == /\ g \in [UpTo(n) -> B]
                              /\ g = [s \in UpTo(n) |-> IF s = {} THEN base ELSE G[ch[s]][g[s \ {ch[s]}]]]
           Missing == {n \in Nat : ~\E g : FoldsUpTo(g, n)}
<1>1. \A s \in SUBSET S : IsFiniteSet(s) /\ Cardinality(s) \in Nat
  BY FS_Subset, FS_CardinalityType
<1>2. Missing = {}
  <2>1. SUFFICES ASSUME Missing # {} PROVE FALSE
    OBVIOUS
  <2>2. PICK n \in Missing : \A k \in Missing : n <= k
    <3>1. Missing \subseteq Nat
      OBVIOUS
    <3> HIDE DEF Missing
    <3>2. QED
      BY <2>1, <3>1, LeastNatural
  <2>3. n # 0
    <3>1. UpTo(0) = {{}}
      BY <1>1, FS_EmptySet
    <3> DEFINE g == [s \in {{}} |-> base]
    <3>2. FoldsUpTo(g, 0)
      BY <3>1
    <3>3. 0 \notin Missing
      BY <3>2
    <3>4. QED
      BY <3>3
  <2>4. n - 1 \in Nat /\ n - 1 \notin Missing
    <3>1. n \in Nat
      BY <2>2
    <3>2. n - 1 \in Nat /\ ~(n <= n - 1)
      BY <2>3, <3>1
    <3> HIDE DEF Missing
    <3>3. QED
      BY <2>2, <3>2
  <2>5. PICK g : FoldsUpTo(g, n - 1)
    BY <2>4
  <2> DEFINE h == [s \in UpTo(n) |-> IF s = {} THEN base ELSE G[ch[s]][g[s \ {ch[s]}]]]
  <2>6. \A s \in UpTo(n - 1) : h[s] = g[s]
    <3>1. TAKE s \in UpTo(n - 1)
    <3>2. s \in UpTo(n)
      BY <1>1, <2>4
    <3>3. g[s] = IF s = {} THEN base ELSE G[ch[s]][g[s \ {ch[s]}]]
      BY <2>5
    <3>4. h[s] = IF s = {} THEN base ELSE G[ch[s]][g[s \ {ch[s]}]]
      BY <3>2
    <3>5. QED
      BY <3>3, <3>4
  <2>7. \A s \in UpTo(n) : s # {} => ch[s] \in S /\ s \ {ch[s]} \in UpTo(n - 1)
    <3>1. SUFFICES ASSUME NEW s \in UpTo(n), s # {} PROVE ch[s] \in S /\ s \ {ch[s]} \in UpTo(n - 1)
      OBVIOUS
    <3>2. ch[s] \in s
      BY <3>1
    <3>3. Cardinality(s \ {ch[s]}) = Cardinality(s) - 1
      BY <1>1, <3>2, FS_RemoveElement
    <3>4. s \in SUBSET S /\ Cardinality(s) <= n
      OBVIOUS
    <3>5. s \ {ch[s]} \in SUBSET S /\ Cardinality(s) \in Nat
      BY <1>1, <3>4, ZenonT(30)
    <3>6. QED
      BY <2>4, <3>2, <3>3, <3>4, <3>5
  <2>8. FoldsUpTo(h, n)
    <3>1. h = [s \in UpTo(n) |-> IF s = {} THEN base ELSE G[ch[s]][h[s \ {ch[s]}]]]
      BY <2>6, <2>7
    <3>2. \A s \in UpTo(n) : h[s] \in B
      <4>1. TAKE s \in UpTo(n)
      <4>2. CASE s = {}
        BY <4>2
      <4>3. CASE s # {}
        <5>1. g[s \ {ch[s]}] \in B /\ ch[s] \in S
          BY <2>5, <2>7, <4>3
        <5>2. h[s] = G[ch[s]][g[s \ {ch[s]}]]
          BY <4>3
        <5>3. G[ch[s]] \in [B -> B]
          BY <5>1
        <5> HIDE DEF h
        <5>4. G[ch[s]][g[s \ {ch[s]}]] \in B
          BY <5>1, <5>3
        <5>5. QED
          BY <5>2, <5>4
      <4> HIDE DEF h
      <4>4. QED
        BY <4>2, <4>3
    <3>3. DOMAIN h = UpTo(n) /\ h = [s \in UpTo(n) |-> h[s]]
      OBVIOUS
    <3> HIDE DEF h, UpTo
    <3>4. h \in [UpTo(n) -> B]
      BY <3>2, <3>3, SMTT(40)
    <3>5. QED
      BY <3>1, <3>4
  <2>9. n \notin Missing
    BY <2>8
  <2>10. QED
    BY <2>2, <2>9
<1>3. Cardinality(S) \in Nat /\ UpTo(Cardinality(S)) = SUBSET S
  BY <1>1, FS_Subset
<1>4. PICK g : FoldsUpTo(g, Cardinality(S))
  BY <1>2, <1>3
<1>5. g \in [SUBSET S -> B] /\ g = [s \in SUBSET S |-> IF s = {} THEN base ELSE G[ch[s]][g[s \ {ch[s]}]]]
  BY <1>3, <1>4
<1>6. QED
  BY <1>5 DEF Folds

\* g sums F over every subset of S.
Sums(g, F, S) == g = [s \in SUBSET S |-> IF s = {} THEN 0 ELSE F[Pick(s)] + g[s \ {Pick(s)}]]

LEMMA SumsExist ==
    ASSUME NEW S, IsFiniteSet(S), NEW F \in [S -> Nat]
    PROVE  \E g : Sums(g, F, S)
<1> DEFINE G == [x \in S |-> [y \in Nat |-> F[x] + y]]
           ch == [s \in SUBSET S |-> Pick(s)]
<1>1. G \in [S -> [Nat -> Nat]] /\ \A x \in S, y \in Nat : G[x][y] = F[x] + y
  OBVIOUS
<1>2. \A s \in SUBSET S : ch[s] = Pick(s) /\ (s # {} => ch[s] \in s)
  BY PickIsOfSet
<1> HIDE DEF G, ch
<1>3. PICK g \in [SUBSET S -> Nat] : Folds(g, G, ch, 0, S)
  BY <1>1, <1>2, FoldsExist
<1>4. \A s \in SUBSET S : s # {} => G[ch[s]][g[s \ {ch[s]}]] = F[Pick(s)] + g[s \ {Pick(s)}]
  <2>1. TAKE s \in SUBSET S
  <2>2. HAVE s # {}
  <2>3. ch[s] = Pick(s) /\ Pick(s) \in S
    BY <1>2, <2>2
  <2>4. s \ {Pick(s)} \in SUBSET S
    OBVIOUS
  <2>5. g[s \ {Pick(s)}] \in Nat
    BY <2>4, Zenon
  <2>6. QED
    BY <1>1, <2>3, <2>5
<1>5. g = [s \in SUBSET S |-> IF s = {} THEN 0 ELSE F[Pick(s)] + g[s \ {Pick(s)}]]
  BY <1>3, <1>4 DEF Folds
<1>6. QED
  BY <1>5 DEF Sums

\* Whatever sums naturals yields naturals.
LEMMA SumsAreNatural ==
    ASSUME NEW S, IsFiniteSet(S), NEW F \in [S -> Nat], NEW g, Sums(g, F, S)
    PROVE  \A s \in SUBSET S : g[s] \in Nat
<1> DEFINE P == {s \in SUBSET S : g[s] \in Nat}
<1>1. {} \in P
  BY DEF Sums
<1>2. \A s \in SUBSET S : s # {} => Pick(s) \in s /\ g[s] = F[Pick(s)] + g[s \ {Pick(s)}]
  BY PickIsOfSet DEF Sums
<1>3. \A s \in SUBSET S : s # {} /\ (\A x \in s : s \ {x} \in P) => s \in P
  <2>1. TAKE s \in SUBSET S
  <2>2. HAVE s # {} /\ \A x \in s : s \ {x} \in P
  <2>3. Pick(s) \in s /\ g[s] = F[Pick(s)] + g[s \ {Pick(s)}]
    BY <1>2, <2>2
  <2>4. F[Pick(s)] \in Nat /\ g[s \ {Pick(s)}] \in Nat
    BY <2>2, <2>3
  <2>5. QED
    BY <2>3, <2>4
<1> HIDE DEF P
<1>4. SUBSET S \subseteq P
  BY <1>1, <1>3, SubsetsByRemoval
<1>5. QED
  BY <1>4 DEF P

LEMMA RoundedIsNatural ==
    ASSUME NEW n \in Nat, NEW d \in Nat \ {0}
    PROVE  Rounded(n, d) \in Nat
BY DEF Rounded

\* What the tests of a category count together.
PointsOf(e, S) == MapThenSumSet(LAMBDA t : Points(e.results[t]), S)

LEMMA PointsAreNatural ==
    ASSUME NEW S, IsFiniteSet(S), NEW e
    PROVE  PointsOf(e, S) \in Nat
<1> DEFINE F == [t \in S |-> Points(e.results[t])]
           Iter(g) == g = [s \in SUBSET S |->
                             IF s = {} THEN 0 ELSE Points(e.results[Pick(s)]) + g[s \ {Pick(s)}]]
<1>1. F \in [S -> Nat]
  BY DEF Points
<1>2. \A g : Iter(g) <=> Sums(g, F, S)
  <2>1. \A s \in SUBSET S : s # {} => F[Pick(s)] = Points(e.results[Pick(s)])
    BY PickIsOfSet
  <2>2. TAKE g
  <2>3. [s \in SUBSET S |-> IF s = {} THEN 0 ELSE Points(e.results[Pick(s)]) + g[s \ {Pick(s)}]]
            = [s \in SUBSET S |-> IF s = {} THEN 0 ELSE F[Pick(s)] + g[s \ {Pick(s)}]]
    BY <2>1
  <2>4. QED
    BY <2>3 DEF Sums
<1> HIDE DEF F
<1>3. Iter(CHOOSE g : Iter(g))
  <2>1. \E g : Iter(g)
    BY <1>1, <1>2, SumsExist
  <2> HIDE DEF Iter
  <2>2. QED
    BY <2>1
<1>4. (CHOOSE g : Iter(g))[S] \in Nat
  BY <1>1, <1>2, <1>3, SumsAreNatural
<1>5. PointsOf(e, S) = (CHOOSE g : Iter(g))[S]
  BY DEF PointsOf, MapThenSumSet, MapThenFoldSet, Pick
<1>6. QED
  BY <1>4, <1>5

\* A score is a number, so that of two scores one is not less than the other
\* and less.
LEMMA ScoresAreNatural ==
    ASSUME NEW e
    PROVE  computeTestScore(e) \in Nat
<1> DEFINE applicable == Having(e, Passing \cup Failing)
           grouped == {c \in Categories : \E t \in applicable : CategoryOf[t] = c}
           OfCategory(c) == {t \in applicable : CategoryOf[t] = c}
           Score(c) == Rounded(PointsOf(e, OfCategory(c)), Cardinality(OfCategory(c)))
           F == [c \in grouped |-> Score(c)]
           Iter(g) == g = [s \in SUBSET grouped |-> IF s = {} THEN 0 ELSE Score(Pick(s)) + g[s \ {Pick(s)}]]
<1>1. SUFFICES ASSUME applicable # {} PROVE computeTestScore(e) \in Nat
  BY DEF computeTestScore
<1>2. applicable \subseteq Tests /\ IsFiniteSet(applicable)
  BY FS_Subset, EvaluationAssumption DEF Having
<1>3. \A c \in grouped : Score(c) \in Nat
  <2>1. TAKE c \in grouped
  <2>2. OfCategory(c) # {} /\ IsFiniteSet(OfCategory(c))
    BY <1>2, FS_Subset
  <2>3. Cardinality(OfCategory(c)) \in Nat \ {0}
    BY <2>2, FS_CardinalityType, FS_EmptySet
  <2>4. PointsOf(e, OfCategory(c)) \in Nat
    BY <2>2, PointsAreNatural
  <2>5. QED
    BY <2>3, <2>4, RoundedIsNatural
<1>4. grouped # {} /\ IsFiniteSet(grouped)
  BY <1>1, <1>2, FS_Subset, EvaluationAssumption
<1>5. Cardinality(grouped) \in Nat \ {0}
  BY <1>4, FS_CardinalityType, FS_EmptySet
<1>6. MapThenSumSet(Score, grouped) \in Nat
  <2>1. F \in [grouped -> Nat]
    BY <1>3
  <2> HIDE DEF Score, grouped
  <2>2. \A g : Iter(g) <=> Sums(g, F, grouped)
    <3>1. \A s \in SUBSET grouped : s # {} => F[Pick(s)] = Score(Pick(s))
      BY PickIsOfSet
    <3>2. TAKE g
    <3>3. [s \in SUBSET grouped |-> IF s = {} THEN 0 ELSE Score(Pick(s)) + g[s \ {Pick(s)}]]
              = [s \in SUBSET grouped |-> IF s = {} THEN 0 ELSE F[Pick(s)] + g[s \ {Pick(s)}]]
      BY <3>1
    <3>4. QED
      BY <3>3 DEF Sums
  <2> HIDE DEF F
  <2>3. Iter(CHOOSE g : Iter(g))
    <3>1. PICK g : Sums(g, F, grouped)
      BY <1>4, <2>1, SumsExist
    <3>2. Iter(g)
      BY <2>2, <3>1
    <3> HIDE DEF Iter
    <3>3. QED
      BY <3>2
  <2>4. (CHOOSE g : Iter(g))[grouped] \in Nat
    BY <1>4, <2>1, <2>2, <2>3, SumsAreNatural
  <2>5. MapThenSumSet(Score, grouped) = (CHOOSE g : Iter(g))[grouped]
    BY DEF MapThenSumSet, MapThenFoldSet, Pick
  <2>6. QED
    BY <2>4, <2>5
<1>7. computeTestScore(e) = Rounded(MapThenSumSet(Score, grouped), Cardinality(grouped))
  BY <1>1 DEF computeTestScore, PointsOf
<1>8. QED
  BY <1>5, <1>6, <1>7, RoundedIsNatural

-----------------------------------------------------------------------------
(* The comparison of a matrix.                                             *)

\* What is stored is the comparison of the runs as they are: none of them
\* changes once all are over.
ComparedAsTheyAre ==
    compared # NoComparison => Over /\ compared = buildMatrixComparison(execution)

\* A rounded percentage is 100 only of all, among fewer than 200.
LEMMA RoundedToAll ==
    ASSUME NEW n \in Nat \ {0}, n < 200, NEW k \in Nat, k <= n
    PROVE  Rounded(100 * k, n) = 100 <=> k = n
<1>1. Rounded(100 * k, n) = (200 * k + n) \div (2 * n)
  BY DEF Rounded
<1>2. CASE k = n
  <2>1. (200 * k + n) \div (2 * n) = 100
    BY <1>2
  <2>2. QED
    BY <1>1, <1>2, <2>1
<1>3. CASE k # n
  <2>1. k + 1 <= n
    BY <1>3
  <2>2. 200 * k + n < 100 * (2 * n)
    BY <2>1
  <2>3. (200 * k + n) \div (2 * n) # 100
    <3> DEFINE a == 200 * k + n
               d == 2 * n
    <3>1. a \in Nat /\ d \in Nat \ {0} /\ a < 100 * d
      BY <2>2
    <3> HIDE DEF a, d
    <3>2. a \div d # 100
      BY <3>1
    <3>3. QED
      BY <3>2 DEF a, d
  <2>4. QED
    BY <1>1, <1>3, <2>3
<1>4. QED
  BY <1>2, <1>3

\* Browsers that did not run take no part in the score.
LEMMA ScoreOfThoseThatRan ==
    ASSUME NEW m
    PROVE  compatibilityScore([b \in Ran(m) |-> m[b]]) = compatibilityScore(m)
<1> DEFINE own == [b \in Ran(m) |-> m[b]]
<1>1. DOMAIN own = Ran(m) /\ \A b \in Ran(m) : own[b] = m[b]
  OBVIOUS
<1>2. Ran(own) = Ran(m)
  BY <1>1 DEF Ran
<1>3. browsersPassing(own) = browsersPassing(m)
  BY <1>1, <1>2 DEF browsersPassing
<1>4. QED
  BY <1>2, <1>3 DEF compatibilityScore

LEMMA ScoresIgnoreUnavailable ==
    ASSUME ComparedAsTheyAre, DOMAIN execution = Browsers
    PROVE  ScoreIgnoresUnavailable
<1>1. SUFFICES ASSUME compared # NoComparison
               PROVE  /\ compared.score = compatibilityScore([b \in Ran(execution) |-> execution[b]])
                      /\ (compared.score = 100) = (Ran(execution) # {} /\ compared.passing = Ran(execution))
                      /\ compared.passing \cap (compared.failing \cup compared.unavailable) = {}
  BY DEF ScoreIgnoresUnavailable
<1>2. /\ compared.score = compatibilityScore(execution)
      /\ compared.passing = browsersPassing(execution)
      /\ compared.failing = browsersFailing(execution)
      /\ compared.unavailable = DOMAIN execution \ Ran(execution)
  BY <1>1 DEF ComparedAsTheyAre, buildMatrixComparison
<1>3. Ran(execution) \subseteq Browsers /\ browsersPassing(execution) \subseteq Ran(execution)
  BY DEF Ran, browsersPassing
<1>4. /\ IsFiniteSet(Ran(execution)) /\ IsFiniteSet(browsersPassing(execution))
      /\ Cardinality(Ran(execution)) \in Nat /\ Cardinality(browsersPassing(execution)) \in Nat
      /\ Cardinality(Ran(execution)) < 200
      /\ Cardinality(browsersPassing(execution)) <= Cardinality(Ran(execution))
      /\ Cardinality(browsersPassing(execution)) = Cardinality(Ran(execution))
            <=> browsersPassing(execution) = Ran(execution)
  <2>1. /\ IsFiniteSet(Ran(execution)) /\ Cardinality(Ran(execution)) <= Cardinality(Browsers)
    BY <1>3, FS_Subset, EvaluationAssumption
  <2>2. /\ IsFiniteSet(browsersPassing(execution))
        /\ Cardinality(browsersPassing(execution)) <= Cardinality(Ran(execution))
        /\ Cardinality(Ran(execution)) = Cardinality(browsersPassing(execution))
              => Ran(execution) = browsersPassing(execution)
    BY <1>3, <2>1, FS_Subset
  <2>3. /\ Cardinality(Browsers) \in Nat /\ Cardinality(Ran(execution)) \in Nat
        /\ Cardinality(browsersPassing(execution)) \in Nat
    BY <2>1, <2>2, FS_CardinalityType, EvaluationAssumption
  <2>4. Cardinality(Ran(execution)) < 200
    BY <2>1, <2>3, EvaluationAssumption
  <2>5. QED
    BY <2>1, <2>2, <2>3, <2>4
<1>5. (compatibilityScore(execution) = 100)
        <=> (Ran(execution) # {} /\ browsersPassing(execution) = Ran(execution))
  <2>1. CASE Ran(execution) = {}
    <3>1. compatibilityScore(execution) = -1
      BY <2>1 DEF compatibilityScore, NullScore
    <3>2. QED
      BY <2>1, <3>1
  <2>2. CASE Ran(execution) # {}
    <3>1. compatibilityScore(execution)
            = Rounded(100 * Cardinality(browsersPassing(execution)), Cardinality(Ran(execution)))
      BY <2>2 DEF compatibilityScore
    <3>2. Cardinality(Ran(execution)) # 0
      BY <1>4, <2>2, FS_EmptySet
    <3>3. compatibilityScore(execution) = 100
            <=> Cardinality(browsersPassing(execution)) = Cardinality(Ran(execution))
      BY <1>4, <3>1, <3>2, RoundedToAll
    <3>4. QED
      BY <1>4, <2>2, <3>3
  <2>3. QED
    BY <2>1, <2>2
<1>6. browsersPassing(execution) \cap (browsersFailing(execution) \cup (DOMAIN execution \ Ran(execution))) = {}
  BY DEF browsersPassing, browsersFailing
<1>7. QED
  BY <1>2, <1>5, <1>6, ScoreOfThoseThatRan

-----------------------------------------------------------------------------
(* Regressions.                                                            *)

\* A regression compares runs that do not change any more.
RegressionsAsTheyAre ==
    regression # {} =>
        /\ reference # NoRuns /\ Finalized
        /\ regression = {buildRegressionComparison(reference, execution)}

LEMMA NewFailureIsFixedFailure ==
    ASSUME NEW p, NEW c
    PROVE  (compareSavedTestRuns(p, c) = "NEW_FAILURE") = (compareSavedTestRuns(c, p) = "FIXED_FAILURE")
BY DEF compareSavedTestRuns

LEMMA ComparisonsAreNews ==
    ASSUME NEW p, NEW c
    PROVE  LET now == compareBrowserRun(p, c)
           IN  /\ now.regressions \cap (now.improvements \cup compareBrowserRun(c, p).regressions) = {}
               /\ now.regressions # {} => Executed(c) /\ Executed(p)
               /\ \A t \in now.regressions \cap Tests : p.results[t] \notin Failing
               /\ computeTestScore(c) < computeTestScore(p) /\ Executed(c) /\ Executed(p) => now.regressions # {}
<1>1. CASE ~Executed(p) \/ ~Executed(c)
  BY <1>1 DEF compareBrowserRun, NoRegressions
<1>2. CASE Executed(p) /\ Executed(c)
  <2> DEFINE a == computeTestScore(p)
             z == computeTestScore(c)
             there == TestRegressions(p, c)
             back == TestRegressions(c, p)
  <2>1. /\ compareBrowserRun(p, c).regressions = IF there # {} THEN there ELSE IF z < a THEN {"(overall)"} ELSE {}
        /\ compareBrowserRun(c, p).regressions = IF back # {} THEN back ELSE IF a < z THEN {"(overall)"} ELSE {}
        /\ compareBrowserRun(p, c).improvements = {t \in Tests : p.results[t] \in Failing /\ c.results[t] = "passed"}
    BY <1>2 DEF compareBrowserRun
  <2>2. ~(a < z /\ z < a)
    BY ScoresAreNatural
  <2>3. there \subseteq Tests /\ back \subseteq Tests /\ "(overall)" \notin Tests
    BY EvaluationAssumption DEF TestRegressions
  <2>4. there \cap back = {}
    BY DEF TestRegressions, Passing, Failing
  <2>5. \A t \in there : p.results[t] \in Passing
    BY DEF TestRegressions, Passing
  <2>6. \A t \in there : p.results[t] \notin Failing
    BY <2>5 DEF Passing, Failing
  <2> HIDE DEF a, z, there, back
  <2>7. compareBrowserRun(p, c).regressions
          \cap (compareBrowserRun(p, c).improvements \cup compareBrowserRun(c, p).regressions) = {}
    BY <2>1, <2>2, <2>3, <2>4, <2>6
  <2>8. \A t \in compareBrowserRun(p, c).regressions \cap Tests : p.results[t] \notin Failing
    BY <2>1, <2>3, <2>6
  <2>9. z < a => compareBrowserRun(p, c).regressions # {}
    BY <2>1
  <2>10. QED
    BY <1>2, <2>7, <2>8, <2>9 DEF a, z
<1>3. QED
  BY <1>1, <1>2

LEMMA ReportedRegressionsAreNews ==
    ASSUME RegressionsAsTheyAre
    PROVE  RegressionsAreNews
<1>1. SUFFICES ASSUME NEW r \in regression, NEW b \in Browsers
               PROVE  LET back == buildRegressionComparison(execution, reference)[b]
                          fell == computeTestScore(execution[b]) < computeTestScore(reference[b])
                      IN  /\ r[b].regressions \cap (r[b].improvements \cup back.regressions) = {}
                          /\ r[b].regressions # {} => Executed(execution[b]) /\ Executed(reference[b])
                          /\ \A t \in r[b].regressions \cap Tests : reference[b].results[t] \notin Failing
                          /\ (fell /\ Executed(execution[b]) /\ Executed(reference[b])) => r[b].regressions # {}
                          /\ (compareSavedTestRuns(reference[b], execution[b]) = "NEW_FAILURE")
                                  = (compareSavedTestRuns(execution[b], reference[b]) = "FIXED_FAILURE")
  BY DEF RegressionsAreNews
<1>2. r[b] = compareBrowserRun(reference[b], execution[b])
  BY <1>1 DEF RegressionsAsTheyAre, buildRegressionComparison
<1>3. buildRegressionComparison(execution, reference)[b] = compareBrowserRun(execution[b], reference[b])
  BY DEF buildRegressionComparison
<1>4. QED
  BY <1>2, <1>3, ComparisonsAreNews, NewFailureIsFixedFailure

-----------------------------------------------------------------------------
(* Policies.                                                               *)

LEMMA ChecksOfRules ==
    /\ rules.health =>
          <<"min-health-score", IF analysis = NoOutcome THEN "not_evaluated" ELSE Verdict(analysis = "good")>> \in Checks
    /\ rules.tests # {} =>
          <<"required-tests", Verdict(rules.tests \subseteq executedTestIds \ failedTestIds)>> \in Checks
    /\ rules.browsers # {} =>
          <<"required-browsers",
            Verdict(\A b \in rules.browsers : deriveOutcome(execution[b]) \in {"PASSED", "WARNING"})>> \in Checks
BY DEF Checks

LEMMA VerdictsOfPass ==
    ASSUME evaluatePolicy = "PASS"
    PROVE  /\ ~infrastructureFailed
           /\ \A c \in Checks : c[2] # "fail"
BY DEF evaluatePolicy

LEMMA PassesAreEarned == PassIsEarned
<1>1. SUFFICES ASSUME evaluatePolicy = "PASS"
               PROVE  /\ \A b \in Browsers : deriveOutcome(execution[b]) # "INFRASTRUCTURE_ERROR"
                      /\ \A b \in rules.browsers : deriveOutcome(execution[b]) \in {"PASSED", "WARNING"}
                      /\ \A t \in rules.tests : \A b \in Browsers : execution[b].results[t] \notin {"failed", "error"}
                      /\ \A t \in rules.tests : \E b \in Browsers : execution[b].results[t] # NoResult
                      /\ rules.health => analysis # "bad"
  BY DEF PassIsEarned
<1>2. \A b \in Browsers : deriveOutcome(execution[b]) # "INFRASTRUCTURE_ERROR"
  BY <1>1, VerdictsOfPass DEF infrastructureFailed
<1>3. \A b \in rules.browsers : deriveOutcome(execution[b]) \in {"PASSED", "WARNING"}
  <2>1. SUFFICES ASSUME rules.browsers # {},
                        ~\A b \in rules.browsers : deriveOutcome(execution[b]) \in {"PASSED", "WARNING"}
                 PROVE  FALSE
    OBVIOUS
  <2>2. <<"required-browsers", "fail">> \in Checks
    BY <2>1, ChecksOfRules DEF Verdict
  <2>3. QED
    BY <1>1, <2>2, VerdictsOfPass
<1>4. rules.tests \subseteq executedTestIds \ failedTestIds
  <2>1. SUFFICES ASSUME rules.tests # {}, ~(rules.tests \subseteq executedTestIds \ failedTestIds)
                 PROVE  FALSE
    OBVIOUS
  <2>2. <<"required-tests", "fail">> \in Checks
    BY <2>1, ChecksOfRules DEF Verdict
  <2>3. QED
    BY <1>1, <2>2, VerdictsOfPass
<1>5. \A t \in rules.tests : \E b \in Browsers : execution[b].results[t] # NoResult
  BY <1>4 DEF executedTestIds, Having, ResultStatuses, Passing, Failing, NoResult
<1>6. \A t \in rules.tests : \A b \in Browsers : execution[b].results[t] \notin {"failed", "error"}
  <2>1. \A t \in rules.tests : t \in Tests
    BY <1>4 DEF executedTestIds, Having
  <2>2. QED
    BY <1>4, <2>1 DEF failedTestIds, Having
<1>7. rules.health => analysis # "bad"
  <2>1. SUFFICES ASSUME rules.health, analysis = "bad" PROVE FALSE
    OBVIOUS
  <2>2. <<"min-health-score", "fail">> \in Checks
    BY <2>1, ChecksOfRules DEF Verdict, NoOutcome
  <2>3. QED
    BY <1>1, <2>2, VerdictsOfPass
<1>8. QED
  BY <1>2, <1>3, <1>5, <1>6, <1>7

-----------------------------------------------------------------------------
EvaluationInv ==
    /\ DOMAIN execution = Browsers /\ DOMAIN reference = Browsers
    /\ ComparedAsTheyAre /\ RegressionsAsTheyAre

LEMMA EvaluationStart == EvaluationInit => EvaluationInv
BY DEF EvaluationInit, EvaluationInv, NoRuns, ComparedAsTheyAre, RegressionsAsTheyAre

LEMMA EvaluationStep == EvaluationInv /\ [EvaluationNext]_evVars => EvaluationInv'
<1>1. SUFFICES ASSUME EvaluationInv, [EvaluationNext]_evVars PROVE EvaluationInv'
  OBVIOUS
<1>2. CASE \E b \in Browsers, e \in Rows : saveTestRunFinal(b, e)
  <2>1. PICK b \in Browsers, e \in Rows : saveTestRunFinal(b, e)
    BY <1>2
  <2>2. ~Over
    BY <2>1 DEF saveTestRunFinal, Over
  <2>3. compared = NoComparison /\ regression = {}
    BY <1>1, <2>2 DEF EvaluationInv, ComparedAsTheyAre, RegressionsAsTheyAre, Finalized
  <2>4. QED
    BY <1>1, <2>1, <2>3 DEF saveTestRunFinal, EvaluationInv, ComparedAsTheyAre, RegressionsAsTheyAre
<1>3. CASE finalizeMatrixRun
  <2>1. regression = {}
    BY <1>1, <1>3 DEF finalizeMatrixRun, EvaluationInv, RegressionsAsTheyAre, Finalized
  <2>2. compared' = buildMatrixComparison(execution') /\ Over'
    BY <1>3 DEF finalizeMatrixRun, Over
  <2>3. QED
    BY <1>1, <1>3, <2>1, <2>2 DEF finalizeMatrixRun, EvaluationInv, ComparedAsTheyAre, RegressionsAsTheyAre
<1>4. CASE setBaseline
  <2>1. regression = {}
    BY <1>1, <1>4 DEF setBaseline, EvaluationInv, RegressionsAsTheyAre
  <2>2. QED
    BY <1>1, <1>4, <2>1 DEF setBaseline, EvaluationInv, ComparedAsTheyAre, RegressionsAsTheyAre, NoRuns
<1>5. CASE compareForRegression
  BY <1>1, <1>5 DEF compareForRegression, EvaluationInv, ComparedAsTheyAre, RegressionsAsTheyAre, Finalized, Over
<1>6. CASE \E r \in RuleSets : updateOrganizationPolicy(r)
  BY <1>1, <1>6 DEF updateOrganizationPolicy, EvaluationInv, ComparedAsTheyAre, RegressionsAsTheyAre, Finalized, Over
<1>7. CASE UNCHANGED evVars
  BY <1>1, <1>7 DEF evVars, EvaluationInv, ComparedAsTheyAre, RegressionsAsTheyAre, Finalized, Over
<1>8. QED
  BY <1>1, <1>2, <1>3, <1>4, <1>5, <1>6, <1>7 DEF EvaluationNext, ComparisonNext, PolicyNext, MatrixNext

\* The score of a matrix is of the browsers that ran, a regression is news and
\* PASS is earned, for any suite, any fewer than 200 browsers and any policies
\* (lib/testing/comparison.ts, lib/testing/regression.ts, lib/policies).
THEOREM EvaluationsAreFair == EvaluationSpec => []EvaluationIsFair
<1>1. EvaluationInv => EvaluationIsFair
  BY ScoresIgnoreUnavailable, ReportedRegressionsAreNews, PassesAreEarned DEF EvaluationInv, EvaluationIsFair
<1>2. QED
  BY <1>1, EvaluationStart, EvaluationStep, PTL DEF EvaluationSpec

-----------------------------------------------------------------------------
(* Interpretations.                                                        *)

Fields == {"state", "findings", "tests", "events", "network", "evidenceIndex", "truncated"}

LEMMA ShapingKeepsFields ==
    ASSUME NEW c, DOMAIN c = Fields, NEW feature, NEW focus
    PROVE  DOMAIN shapeForFeature(c, feature, focus) = Fields
BY DEF shapeForFeature

LEMMA TrimmingKeepsFields ==
    ASSUME NEW c, DOMAIN c = Fields, NEW n, NEW focus
    PROVE  DOMAIN Trim(c, n, focus) = Fields
BY DEF Trim

\* One trim after the other, each only if it is needed.
Trimmed(c, n, maxBytes, focus) ==
    IF measure(c) <= maxBytes THEN c ELSE [Trim(c, n, focus) EXCEPT !.truncated = TRUE]

LEMMA TrimmedKeepsFields ==
    ASSUME NEW c, DOMAIN c = Fields, NEW n, NEW maxBytes, NEW focus
    PROVE  DOMAIN Trimmed(c, n, maxBytes, focus) = Fields
BY TrimmingKeepsFields DEF Trimmed

\* A context fitted to its budget has been trimmed up to seven times.
LEMMA FittingTrims ==
    ASSUME NEW c, NEW maxBytes, NEW focus
    PROVE  \E after : /\ after[0] = c
                      /\ \A n \in 1 .. 7 : after[n] = Trimmed(after[n - 1], n, maxBytes, focus)
                      /\ fitToBudget(c, maxBytes, focus) = after[7]
<1> DEFINE After(a) == a = [n \in 0 .. 7 |-> IF n = 0 THEN c
                                              ELSE IF measure(a[n - 1]) <= maxBytes THEN a[n - 1]
                                              ELSE [Trim(a[n - 1], n, focus) EXCEPT !.truncated = TRUE]]
           Step(x, n) == Trimmed(x, n, maxBytes, focus)
           ShortAfter(a) == a = [n \in 0 .. 7 |-> IF n = 0 THEN c ELSE Step(a[n - 1], n)]
<1>1. \A a : After(a) <=> ShortAfter(a)
  BY DEF Trimmed
<1>2. fitToBudget(c, maxBytes, focus) = (CHOOSE a : After(a))[7]
  BY DEF fitToBudget
<1> HIDE DEF After, Step
<1>3. \E a : ShortAfter(a)
  <2> DEFINE t1 == Step(c, 1)
             t2 == Step(t1, 2)
             t3 == Step(t2, 3)
             t4 == Step(t3, 4)
             t5 == Step(t4, 5)
             t6 == Step(t5, 6)
             t7 == Step(t6, 7)
             ts == <<t1, t2, t3, t4, t5, t6, t7>>
             a  == [n \in 0 .. 7 |-> IF n = 0 THEN c ELSE ts[n]]
  <2>1. /\ ts[1] = Step(c, 1)
        /\ ts[2] = Step(ts[1], 2) /\ ts[3] = Step(ts[2], 3) /\ ts[4] = Step(ts[3], 4)
        /\ ts[5] = Step(ts[4], 5) /\ ts[6] = Step(ts[5], 6) /\ ts[7] = Step(ts[6], 7)
    OBVIOUS
  <2> HIDE DEF ts
  <2>2. \A n \in 1 .. 7 : a[n] = Step(a[n - 1], n)
    <3>1. TAKE n \in 1 .. 7
    <3>2. n \in {1, 2, 3, 4, 5, 6, 7}
      OBVIOUS
    <3>3. QED
      BY <2>1, <3>2
  <2>3. a = [n \in 0 .. 7 |-> IF n = 0 THEN c ELSE Step(a[n - 1], n)]
    BY <2>2
  <2> HIDE DEF a
  <2>4. ShortAfter(a)
    BY <2>3
  <2> HIDE DEF ShortAfter
  <2>5. QED
    BY <2>4
<1>4. PICK a : a = CHOOSE x : After(x)
  OBVIOUS
<1>5. ShortAfter(a)
  <2> HIDE DEF ShortAfter
  <2>1. After(a)
    BY <1>1, <1>3, <1>4
  <2>2. QED
    BY <1>1, <2>1
<1>6. a[0] = c /\ \A n \in 1 .. 7 : a[n] = Trimmed(a[n - 1], n, maxBytes, focus)
  BY <1>5 DEF Step
<1>7. QED
  BY <1>2, <1>4, <1>6

LEMMA FittingKeepsFields ==
    ASSUME NEW c, DOMAIN c = Fields, NEW maxBytes, NEW focus
    PROVE  DOMAIN fitToBudget(c, maxBytes, focus) = Fields
<1>1. PICK after : /\ after[0] = c
                   /\ \A n \in 1 .. 7 : after[n] = Trimmed(after[n - 1], n, maxBytes, focus)
                   /\ fitToBudget(c, maxBytes, focus) = after[7]
  BY FittingTrims
<1>2. \A n \in 1 .. 7 : DOMAIN after[n - 1] = Fields => DOMAIN after[n] = Fields
  BY <1>1, TrimmedKeepsFields
<1> HIDE DEF Fields
<1>3. DOMAIN after[0] = Fields
  BY <1>1
<1>4. DOMAIN after[1] = Fields
  BY <1>2, <1>3
<1>5. DOMAIN after[2] = Fields
  BY <1>2, <1>4
<1>6. DOMAIN after[3] = Fields
  BY <1>2, <1>5
<1>7. DOMAIN after[4] = Fields
  BY <1>2, <1>6
<1>8. DOMAIN after[5] = Fields
  BY <1>2, <1>7
<1>9. DOMAIN after[6] = Fields
  BY <1>2, <1>8
<1>10. DOMAIN after[7] = Fields
  BY <1>2, <1>9
<1>11. QED
  BY <1>1, <1>10

\* The index of an assembled context is that of what it holds.
LEMMA AssembledIsIndexed ==
    ASSUME NEW c, DOMAIN c = Fields
    PROVE  assemble(c).evidenceIndex = buildEvidenceIndex(assemble(c))
<1>1. PICK fitted : fitted = fitToBudget(c, options.maxBytes, options.focus)
  OBVIOUS
<1>2. DOMAIN fitted = Fields
  BY <1>1, FittingKeepsFields
<1>3. PICK index : index = buildEvidenceIndex(fitted)
  OBVIOUS
<1>4. assemble(c) = [fitted EXCEPT !.evidenceIndex = index]
  BY <1>1, <1>3 DEF assemble
<1>5. /\ assemble(c).evidenceIndex = index
      /\ assemble(c).findings = fitted.findings /\ assemble(c).tests = fitted.tests
      /\ assemble(c).events = fitted.events /\ assemble(c).network = fitted.network
  BY <1>2, <1>4 DEF Fields
<1>6. buildEvidenceIndex(assemble(c)) = buildEvidenceIndex(fitted)
  BY <1>5 DEF buildEvidenceIndex
<1>7. QED
  BY <1>3, <1>5, <1>6


\* The indices of a sequence are taken from the last one.
LEMMA LastIndex ==
    ASSUME NEW k \in Nat
    PROVE  \A s \in SUBSET (1 .. k) : s # {} => Max(s) \in s
<1>1. SUFFICES ASSUME NEW s \in SUBSET (1 .. k), s # {} PROVE Max(s) \in s
  OBVIOUS
<1> DEFINE D == {k - x : x \in s}
<1>2. PICK d \in D : \A y \in D : d <= y
  <2>1. \A x \in s : k - x \in Nat
    BY <1>1
  <2>2. PICK x \in s : TRUE
    BY <1>1
  <2>3. D \subseteq Nat /\ D # {}
    BY <2>1, <2>2
  <2> HIDE DEF D
  <2>4. QED
    BY <2>3, LeastNatural
<1>3. PICK x \in s : d = k - x
  BY <1>2
<1>4. \A y \in s : k - x <= k - y
  BY <1>2, <1>3
<1>5. \A y \in s : x >= y
  BY <1>1, <1>3, <1>4
<1>6. \E z \in s : \A y \in s : z >= y
  BY <1>3, <1>5
<1>7. QED
  BY <1>6 DEF Max

\* What 1 is and what i + 1 is if i is, all numbers are.
LEMMA NumbersByStep ==
    ASSUME NEW n \in Nat, NEW P, n > 0 => 1 \in P, \A i \in 1 .. n - 1 : i \in P => i + 1 \in P
    PROVE  1 .. n \subseteq P
<1> DEFINE Bad == (1 .. n) \ P
<1>1. SUFFICES ASSUME Bad # {} PROVE FALSE
  OBVIOUS
<1>2. PICK i \in Bad : \A j \in Bad : i <= j
  <2>1. Bad \subseteq Nat
    OBVIOUS
  <2> HIDE DEF Bad
  <2>2. QED
    BY <1>1, <2>1, LeastNatural
<1>3. i # 1
  BY <1>2
<1>4. i - 1 \in 1 .. n - 1 /\ i - 1 \notin Bad
  BY <1>2, <1>3
<1>5. i - 1 \in P
  BY <1>4
<1>6. QED
  BY <1>2, <1>4, <1>5

\* y is the first k of ss one after the other.
Joined(y, k, ss, X) ==
    /\ y \in Seq(X)
    /\ ToSet(y) = UNION {ToSet(ss[i]) : i \in 1 .. k}
    /\ \A i \in 1 .. k : ss[i] # <<>> /\ (\A j \in 1 .. k : j < i => ss[j] = <<>>) => y[1] = ss[i][1]
    /\ (\A i \in 1 .. k : Len(ss[i]) = 1) => Len(y) = k /\ \A i \in 1 .. k : y[i] = ss[i][1]

LEMMA EmptyHasNoItems ==
    ASSUME NEW X, NEW y \in Seq(X)
    PROVE  /\ y = <<>> <=> ToSet(y) = {}
           /\ y # <<>> => Len(y) \in Nat \ {0} /\ 1 \in DOMAIN y
<1>1. Len(y) \in Nat /\ DOMAIN y = 1 .. Len(y) /\ (y = <<>> <=> Len(y) = 0)
  BY EmptySeq, LenProperties
<1>2. CASE y = <<>>
  BY <1>1, <1>2 DEF ToSet
<1>3. CASE y # <<>>
  <2>1. Len(y) \in Nat \ {0} /\ 1 \in DOMAIN y
    BY <1>1, <1>3
  <2>2. y[1] \in ToSet(y)
    BY <2>1, ZenonT(40) DEF ToSet
  <2>3. QED
    BY <1>3, <2>1, <2>2
<1>4. QED
  BY <1>2, <1>3

LEMMA ConcatenatedItems ==
    ASSUME NEW X, NEW y \in Seq(X), NEW z \in Seq(X)
    PROVE  /\ y \o z \in Seq(X)
           /\ ToSet(y \o z) = ToSet(y) \union ToSet(z)
           /\ y # <<>> => (y \o z)[1] = y[1]
           /\ y = <<>> => y \o z = z
           /\ Len(y \o z) = Len(y) + Len(z)
           /\ \A i \in 1 .. Len(y) : (y \o z)[i] = y[i]
           /\ Len(z) = 1 => (y \o z)[Len(y) + 1] = z[1]
<1>1. /\ y \o z \in Seq(X)
      /\ Len(y) \in Nat /\ Len(z) \in Nat /\ DOMAIN y = 1 .. Len(y) /\ DOMAIN z = 1 .. Len(z)
      /\ DOMAIN (y \o z) = 1 .. Len(y) + Len(z)
      /\ \A i \in 1 .. Len(y) + Len(z) : (y \o z)[i] = IF i <= Len(y) THEN y[i] ELSE z[i - Len(y)]
  BY ConcatProperties, LenProperties
<1>2. ToSet(y \o z) \subseteq ToSet(y) \union ToSet(z)
  BY <1>1 DEF ToSet
<1>3. ToSet(y) \subseteq ToSet(y \o z)
  <2>1. \A i \in 1 .. Len(y) : i \in 1 .. Len(y) + Len(z) /\ (y \o z)[i] = y[i]
    BY <1>1
  <2>2. QED
    BY <1>1, <2>1 DEF ToSet
<1>4. ToSet(z) \subseteq ToSet(y \o z)
  <2>1. \A i \in 1 .. Len(z) : i + Len(y) \in 1 .. Len(y) + Len(z) /\ (y \o z)[i + Len(y)] = z[i]
    BY <1>1
  <2>2. \A i \in DOMAIN z : i + Len(y) \in DOMAIN (y \o z) /\ (y \o z)[i + Len(y)] = z[i]
    BY <1>1, <2>1
  <2>3. QED
    BY <2>2, Zenon DEF ToSet
<1>5. y # <<>> => (y \o z)[1] = y[1]
  BY <1>1, EmptyHasNoItems
<1>6. y = <<>> => y \o z = z
  BY ConcatEmptySeq
<1>7. Len(y \o z) = Len(y) + Len(z)
  BY <1>1, LenProperties
<1>8. \A i \in 1 .. Len(y) : (y \o z)[i] = y[i]
  BY <1>1
<1>9. Len(z) = 1 => (y \o z)[Len(y) + 1] = z[1]
  BY <1>1
<1>10. QED
  BY <1>1, <1>2, <1>3, <1>4, <1>5, <1>6, <1>7, <1>8, <1>9

LEMMA JoinedFurther ==
    ASSUME NEW X, NEW n \in Nat, NEW ss \in [1 .. n -> Seq(X)], NEW k \in 1 .. n - 1, NEW y, Joined(y, k, ss, X)
    PROVE  Joined(y \o ss[k + 1], k + 1, ss, X)
<1>1. k + 1 \in 1 .. n /\ ss[k + 1] \in Seq(X) /\ y \in Seq(X) /\ 1 .. k + 1 = (1 .. k) \union {k + 1}
  BY DEF Joined
<1>2. PICK both : both = y \o ss[k + 1]
  OBVIOUS
<1>3. /\ both \in Seq(X) /\ ToSet(both) = ToSet(y) \union ToSet(ss[k + 1])
      /\ y # <<>> => both[1] = y[1]
      /\ y = <<>> => both = ss[k + 1]
      /\ Len(both) = Len(y) + Len(ss[k + 1])
      /\ \A i \in 1 .. Len(y) : both[i] = y[i]
      /\ Len(ss[k + 1]) = 1 => both[Len(y) + 1] = ss[k + 1][1]
  <2>1. PICK z \in Seq(X) : z = ss[k + 1] /\ both = y \o z
    BY <1>1, <1>2
  <2>2. y \in Seq(X)
    BY <1>1
  <2>3. /\ y \o z \in Seq(X) /\ ToSet(y \o z) = ToSet(y) \union ToSet(z)
        /\ y # <<>> => (y \o z)[1] = y[1]
        /\ y = <<>> => y \o z = z
        /\ Len(y \o z) = Len(y) + Len(z)
        /\ \A i \in 1 .. Len(y) : (y \o z)[i] = y[i]
        /\ Len(z) = 1 => (y \o z)[Len(y) + 1] = z[1]
    BY <2>2, ConcatenatedItems, SMTT(30)
  <2>4. y \o z = both /\ z = ss[k + 1]
    BY <2>1
  <2>5. QED
    BY <2>3, <2>4, SMT
<1>4. ToSet(both) = UNION {ToSet(ss[i]) : i \in 1 .. k + 1}
  <2>1. ToSet(both) = (UNION {ToSet(ss[i]) : i \in 1 .. k}) \union ToSet(ss[k + 1])
    BY <1>3 DEF Joined
  <2>2. QED
    BY <1>1, <2>1
<1>5. ASSUME NEW i \in 1 .. k + 1, ss[i] # <<>>, \A j \in 1 .. k + 1 : j < i => ss[j] = <<>>
      PROVE  both[1] = ss[i][1]
  <2>1. CASE i \in 1 .. k
    <3>1. y[1] = ss[i][1]
      BY <1>1, <1>5, <2>1 DEF Joined
    <3>2. ToSet(ss[i]) # {}
      <4>1. ss[i] \in Seq(X)
        BY <2>1
      <4>2. QED
        BY <1>5, <4>1, EmptyHasNoItems
    <3>3. ToSet(y) # {}
      BY <2>1, <3>2 DEF Joined
    <3>4. y # <<>>
      BY <1>1, <3>3, EmptyHasNoItems
    <3>5. QED
      BY <1>3, <3>1, <3>4
  <2>2. CASE i = k + 1
    <3>1. \A j \in 1 .. k : ss[j] = <<>>
      BY <1>5, <2>2
    <3>2. ToSet(y) = {}
      <4>1. \A j \in 1 .. k : ToSet(ss[j]) = {}
        BY <3>1 DEF ToSet
      <4>2. UNION {ToSet(ss[j]) : j \in 1 .. k} = {}
        BY <4>1
      <4>3. QED
        BY <4>2, Zenon DEF Joined
    <3>3. y = <<>>
      BY <1>1, <3>2, EmptyHasNoItems
    <3>4. QED
      BY <1>3, <2>2, <3>3
  <2>3. QED
    BY <1>1, <2>1, <2>2
<1>6. ASSUME \A i \in 1 .. k + 1 : Len(ss[i]) = 1
      PROVE  Len(both) = k + 1 /\ \A i \in 1 .. k + 1 : both[i] = ss[i][1]
  <2>1. Len(y) = k /\ \A i \in 1 .. k : y[i] = ss[i][1]
    BY <1>1, <1>6 DEF Joined
  <2>2. Len(ss[k + 1]) = 1
    BY <1>1, <1>6
  <2>3. QED
    BY <1>1, <1>3, <2>1, <2>2
<1>7. QED
  BY <1>2, <1>3, <1>4, <1>5, <1>6 DEF Joined

\* f holds what is put together of ss, one at a time.
Stepwise(f, n, ss) == \A i \in 1 .. n : f[i] = IF i = 1 THEN ss[i] ELSE f[i - 1] \o ss[i]

LEMMA FlattenedByStep ==
    ASSUME NEW X, NEW n \in Nat \ {0}, NEW ss \in [1 .. n -> Seq(X)]
    PROVE  \E f : FlattenSeq(ss) = f[n] /\ Stepwise(f, n, ss)
<1> DEFINE S == 1 .. n
           B == Seq(X)
           G == [i \in S |-> [y \in B |-> y \o ss[i]]]
           ch == [s \in SUBSET S |-> Max(s)]
           Flat(f) == f = [i \in S |-> IF i = 1 THEN ss[i] ELSE f[i - 1] \o ss[i]]
           FlatOf(f) == f = [i \in 1 .. Len(ss) |-> IF i = 1 THEN ss[i] ELSE f[i - 1] \o ss[i]]
<1>1. ss \in Seq(B) /\ Len(ss) = n
  BY LenProperties
<1>2. \E f : Flat(f)
  <2>1. \A s \in SUBSET S : ch[s] = Max(s) /\ (s # {} => ch[s] \in s)
    BY LastIndex
  <2>2. G \in [S -> [B -> B]] /\ <<>> \in B /\ \A i \in S, y \in B : G[i][y] = y \o ss[i]
    <3>1. \A i \in S : ss[i] \in B
      OBVIOUS
    <3>2. QED
      BY <3>1
  <2>3. IsFiniteSet(S)
    BY FS_Interval
  <2>4. \A i \in S : ch[1 .. i] = i /\ 1 .. i \in SUBSET S /\ 1 .. i # {} /\ (1 .. i) \ {i} = 1 .. i - 1
    <3>1. TAKE i \in S
    <3>2. 1 .. i \in SUBSET S /\ i \in 1 .. i /\ (1 .. i) \ {i} = 1 .. i - 1
      OBVIOUS
    <3>3. Max(1 .. i) = i
      BY <3>2 DEF Max
    <3>4. QED
      BY <2>1, <3>2, <3>3
  <2> HIDE DEF G, ch
  <2>5. PICK g \in [SUBSET S -> B] : Folds(g, G, ch, <<>>, S)
    <3> HIDE DEF S, B
    <3>1. QED
      BY <2>1, <2>2, <2>3, FoldsExist
  <2>6. g[{}] = <<>> /\ \A i \in S : g[1 .. i] = g[1 .. i - 1] \o ss[i]
    <3>1. g[{}] = <<>>
      BY <2>5 DEF Folds
    <3>2. ASSUME NEW i \in S PROVE g[1 .. i] = g[1 .. i - 1] \o ss[i]
      <4>1. g[1 .. i] = G[ch[1 .. i]][g[(1 .. i) \ {ch[1 .. i]}]]
        BY <2>4, <2>5 DEF Folds
      <4>2. g[1 .. i] = G[i][g[1 .. i - 1]] /\ g[1 .. i - 1] \in B
        BY <2>4, <2>5, <4>1
      <4>3. QED
        BY <2>2, <4>2
    <3>3. QED
      BY <3>1, <3>2
  <2> DEFINE f == [i \in S |-> g[1 .. i]]
  <2>7. \A i \in S : f[i] = g[1 .. i]
    OBVIOUS
  <2>8. 1 .. 1 - 1 = {} /\ \A i \in S : ss[i] \in Seq(X) /\ (i # 1 => i - 1 \in S)
    OBVIOUS
  <2> HIDE DEF f, S
  <2>9. \A i \in S : f[i] = IF i = 1 THEN ss[i] ELSE f[i - 1] \o ss[i]
    <3>1. TAKE i \in S
    <3>2. CASE i = 1
      <4>1. f[i] = g[1 .. 1 - 1] \o ss[i]
        BY <2>6, <2>7, <3>2
      <4>2. f[i] = <<>> \o ss[i]
        BY <2>6, <2>8, <4>1
      <4>3. QED
        BY <2>8, <3>2, <4>2, ConcatEmptySeq
    <3>3. CASE i # 1
      <4>1. f[i] = g[1 .. i - 1] \o ss[i]
        BY <2>6, <2>7
      <4>2. f[i - 1] = g[1 .. i - 1]
        BY <2>7, <2>8, <3>3
      <4>3. QED
        BY <3>3, <4>1, <4>2
    <3>4. QED
      BY <3>2, <3>3
  <2>10. Flat(f)
    BY <2>9 DEF f
  <2> HIDE DEF Flat
  <2>11. QED
    BY <2>10
<1>3. FlattenSeq(ss) = (CHOOSE f : FlatOf(f))[Len(ss)]
  BY <1>1 DEF FlattenSeq
<1>4. \A f : FlatOf(f) <=> Flat(f)
  BY <1>1
<1>5. \A f : Flat(f) => Stepwise(f, n, ss)
  BY DEF Stepwise
<1> HIDE DEF Flat, FlatOf
<1>6. PICK f : f = CHOOSE x : FlatOf(x)
  OBVIOUS
<1>7. Flat(f) /\ FlattenSeq(ss) = f[n]
  BY <1>1, <1>2, <1>3, <1>4, <1>6
<1>8. QED
  BY <1>5, <1>7

\* Sequences one after the other have the items of all of them, the first one
\* first.
LEMMA FlattenedItems ==
    ASSUME NEW X, NEW n \in Nat, NEW ss \in [1 .. n -> Seq(X)]
    PROVE  Joined(FlattenSeq(ss), n, ss, X)
<1>1. ss \in Seq(Seq(X)) /\ Len(ss) = n
  BY LenProperties
<1>2. CASE n = 0
  <2>1. FlattenSeq(ss) = ss /\ ss = <<>> /\ Len(ss) = 0
    BY <1>1, <1>2, EmptySeq DEF FlattenSeq
  <2>2. QED
    BY <1>2, <2>1, EmptySeq DEF Joined, ToSet
<1>3. CASE n # 0
  <2>1. PICK f : FlattenSeq(ss) = f[n] /\ Stepwise(f, n, ss)
    <3>1. n \in Nat \ {0}
      BY <1>3
    <3>2. QED
      BY <3>1, FlattenedByStep
  <2> DEFINE P == {i \in 1 .. n : Joined(f[i], i, ss, X)}
  <2>2. 1 \in P
    <3>1. 1 \in 1 .. n /\ f[1] = ss[1] /\ ss[1] \in Seq(X) /\ 1 .. 1 = {1}
      BY <1>3, <2>1 DEF Stepwise
    <3>2. QED
      BY <3>1 DEF Joined
  <2>3. \A i \in 1 .. n - 1 : i \in P => i + 1 \in P
    <3>1. TAKE i \in 1 .. n - 1
    <3>2. HAVE i \in P
    <3>3. i + 1 \in 1 .. n /\ f[i + 1] = f[i] \o ss[i + 1]
      <4>1. PICK k \in 1 .. n : k = i + 1 /\ k # 1 /\ k - 1 = i
        OBVIOUS
      <4>2. QED
        BY <2>1, <4>1 DEF Stepwise
    <3>4. QED
      BY <3>2, <3>3, JoinedFurther
  <2> HIDE DEF P
  <2>4. 1 .. n \subseteq P
    BY <2>2, <2>3, NumbersByStep
  <2>5. QED
    BY <1>3, <2>1, <2>4 DEF P
<1>4. QED
  BY <1>2, <1>3

\* The items at some indices are those, the first of them first; those at all
\* indices are all of them, in their order.
LEMMA ThoseItems ==
    ASSUME NEW X, NEW s \in Seq(X), NEW I
    PROVE  /\ Those(s, I) \in Seq(X)
           /\ ToSet(Those(s, I)) = {s[i] : i \in DOMAIN s \cap I}
           /\ \A i \in DOMAIN s \cap I : (\A j \in DOMAIN s \cap I : i <= j) => Those(s, I)[1] = s[i]
           /\ DOMAIN s \subseteq I => Those(s, I) = s
<1>1. PICK n \in Nat : n = Len(s) /\ DOMAIN s = 1 .. n /\ s \in [1 .. n -> X]
  BY LenProperties
<1> DEFINE ss == [i \in DOMAIN s |-> IF i \in I THEN <<s[i]>> ELSE <<>>]
<1>2. ss \in [1 .. n -> Seq(X)]
  BY <1>1
<1>3. \A i \in 1 .. n : /\ i \in I => ss[i] = <<s[i]>> /\ ss[i] # <<>> /\ ss[i][1] = s[i] /\ Len(ss[i]) = 1 /\ ToSet(ss[i]) = {s[i]}
                        /\ i \notin I => ss[i] = <<>> /\ ToSet(ss[i]) = {}
  BY <1>1 DEF ToSet
<1>4. Those(s, I) = FlattenSeq(ss)
  BY DEF Those
<1> HIDE DEF ss
<1>5. PICK y : y = Those(s, I) /\ Joined(y, n, ss, X)
  BY <1>2, <1>4, FlattenedItems
<1>6. y \in Seq(X)
  BY <1>5 DEF Joined
<1>7. ToSet(y) = {s[i] : i \in DOMAIN s \cap I}
  <2>1. ToSet(y) = UNION {ToSet(ss[i]) : i \in 1 .. n}
    BY <1>5 DEF Joined
  <2>2. ASSUME NEW x \in ToSet(y) PROVE x \in {s[i] : i \in DOMAIN s \cap I}
    <3>1. PICK i \in 1 .. n : x \in ToSet(ss[i])
      BY <2>1, <2>2
    <3>2. i \in I /\ x = s[i]
      BY <1>3, <3>1
    <3>3. QED
      BY <1>1, <3>2
  <2>3. ASSUME NEW i \in DOMAIN s \cap I PROVE s[i] \in ToSet(y)
    <3>1. i \in 1 .. n /\ s[i] \in ToSet(ss[i])
      BY <1>1, <1>3
    <3>2. QED
      BY <2>1, <3>1
  <2>4. QED
    BY <2>2, <2>3
<1>8. \A i \in DOMAIN s \cap I : (\A j \in DOMAIN s \cap I : i <= j) => y[1] = s[i]
  <2>1. TAKE i \in DOMAIN s \cap I
  <2>2. HAVE \A j \in DOMAIN s \cap I : i <= j
  <2>3. \A j \in 1 .. n : j < i => j \notin I
    BY <1>1, <2>2
  <2>4. ss[i] # <<>> /\ \A j \in 1 .. n : j < i => ss[j] = <<>>
    BY <1>1, <1>3, <2>3
  <2>5. y[1] = ss[i][1]
    BY <1>1, <1>5, <2>4 DEF Joined
  <2>6. QED
    BY <1>1, <1>3, <2>5
<1>9. ASSUME DOMAIN s \subseteq I PROVE y = s
  <2>1. \A i \in 1 .. n : Len(ss[i]) = 1 /\ ss[i][1] = s[i]
    BY <1>1, <1>3, <1>9
  <2>2. Len(y) = n /\ \A i \in 1 .. n : y[i] = ss[i][1]
    BY <1>5, <2>1 DEF Joined
  <2>3. \A i \in 1 .. Len(s) : y[i] = s[i]
    BY <1>1, <2>1, <2>2
  <2>4. QED
    BY <1>1, <1>6, <2>2, <2>3, SeqEqual
<1>10. QED
  BY <1>5, <1>6, <1>7, <1>8, <1>9

\* One citation of an answer, seen after the others.
Cite(ref, out) == IF ref \in context.evidenceIndex /\ ref \notin ToSet(out) THEN Append(out, ref) ELSE out

\* Different members of S, in some order.
Lists(S) == {s \in Seq(S) : IsInjective(s)}

LEMMA EmptyIsList == \A S : <<>> \in Lists(S)
BY DEF Lists, IsInjective

LEMMA AppendedIsList ==
    ASSUME NEW S, NEW s \in Lists(S), NEW x \in S, x \notin ToSet(s)
    PROVE  Append(s, x) \in Lists(S)
<1>1. s \in Seq(S) /\ \A a, b \in 1 .. Len(s) : s[a] = s[b] => a = b
  BY DEF Lists, IsInjective
<1>2. \A a \in 1 .. Len(s) : s[a] # x
  BY <1>1 DEF ToSet
<1>3. Append(s, x) \in Seq(S) /\ DOMAIN Append(s, x) = 1 .. Len(s) + 1
  BY <1>1
<1>4. \A a \in 1 .. Len(s) + 1 : Append(s, x)[a] = IF a <= Len(s) THEN s[a] ELSE x
  BY <1>1
<1>5. \A a, b \in 1 .. Len(s) + 1 : Append(s, x)[a] = Append(s, x)[b] => a = b
  <2>1. Len(s) \in Nat
    BY <1>1
  <2>2. TAKE a, b \in 1 .. Len(s) + 1
  <2>3. HAVE Append(s, x)[a] = Append(s, x)[b]
  <2>4. CASE a <= Len(s) /\ b <= Len(s)
    BY <1>1, <1>4, <2>1, <2>3, <2>4
  <2>5. CASE a <= Len(s) /\ ~(b <= Len(s))
    BY <1>2, <1>4, <2>1, <2>3, <2>5
  <2>6. CASE ~(a <= Len(s)) /\ b <= Len(s)
    BY <1>2, <1>4, <2>1, <2>3, <2>6
  <2>7. CASE ~(a <= Len(s)) /\ ~(b <= Len(s))
    BY <2>1, <2>7
  <2>8. QED
    BY <2>4, <2>5, <2>6, <2>7
<1>6. QED
  BY <1>3, <1>5 DEF Lists, IsInjective

\* Whatever is cited, what is kept of it was shown, once each.
LEMMA EvidenceIsShown ==
    ASSUME NEW k \in Nat, NEW X, NEW cited \in [1 .. k -> X]
    PROVE  validateEvidence(cited) \in Lists(X \cap context.evidenceIndex)
<1> DEFINE S == 1 .. k
           B == Lists(X \cap context.evidenceIndex)
           Iter(g) == g = [s \in SUBSET S |-> IF s = {} THEN <<>> ELSE Cite(cited[Max(s)], g[s \ {Max(s)}])]
           G == [i \in S |-> [out \in B |-> Cite(cited[i], out)]]
           ch == [s \in SUBSET S |-> Max(s)]
<1>1. \A i \in S, out \in B : Cite(cited[i], out) \in B
  <2>1. TAKE i \in S, out \in B
  <2>2. cited[i] \in X
    OBVIOUS
  <2> HIDE DEF S
  <2>3. QED
    BY <2>1, <2>2, AppendedIsList DEF Cite
<1>2. IsFiniteSet(S)
  BY FS_Interval
<1>3. \A s \in SUBSET S : s # {} => Max(s) \in s
  BY LastIndex
<1>4. <<>> \in B
  BY EmptyIsList
<1> HIDE DEF B
<1>5. \E g : Iter(g)
  <2>1. G \in [S -> [B -> B]] /\ \A i \in S, out \in B : G[i][out] = Cite(cited[i], out)
    BY <1>1
  <2>2. \A s \in SUBSET S : ch[s] = Max(s) /\ (s # {} => ch[s] \in s)
    BY <1>3
  <2> HIDE DEF G, ch, S
  <2>3. PICK g \in [SUBSET S -> B] : Folds(g, G, ch, <<>>, S)
    BY <1>2, <1>4, <2>1, <2>2, FoldsExist
  <2>4. \A s \in SUBSET S : s # {} => G[ch[s]][g[s \ {ch[s]}]] = Cite(cited[Max(s)], g[s \ {Max(s)}])
    <3>1. TAKE s \in SUBSET S
    <3>2. HAVE s # {}
    <3>3. ch[s] = Max(s) /\ Max(s) \in S
      BY <2>2, <3>2
    <3>4. s \ {Max(s)} \in SUBSET S
      OBVIOUS
    <3>5. g[s \ {Max(s)}] \in B
      BY <3>4, ZenonT(40)
    <3>6. QED
      BY <2>1, <3>3, <3>5
  <2>5. Iter(g)
    BY <2>3, <2>4 DEF Folds
  <2> HIDE DEF Iter
  <2>6. QED
    BY <2>5
<1>6. \A g : Iter(g) => g[S] \in B
  <2>1. SUFFICES ASSUME NEW g, Iter(g) PROVE g[S] \in B
    OBVIOUS
  <2> DEFINE P == {s \in SUBSET S : g[s] \in B}
  <2>2. {} \in P
    BY <1>4, <2>1
  <2>3. \A s \in SUBSET S : s # {} /\ (\A x \in s : s \ {x} \in P) => s \in P
    <3>1. TAKE s \in SUBSET S
    <3>2. HAVE s # {} /\ \A x \in s : s \ {x} \in P
    <3>3. Max(s) \in s /\ g[s] = Cite(cited[Max(s)], g[s \ {Max(s)}])
      BY <1>3, <2>1, <3>2
    <3>4. g[s \ {Max(s)}] \in B
      BY <3>2, <3>3
    <3>5. QED
      BY <1>1, <3>3, <3>4
  <2> HIDE DEF P, S
  <2>4. SUBSET S \subseteq P
    BY <1>2, <2>2, <2>3, SubsetsByRemoval
  <2>5. QED
    BY <2>4 DEF P
<1>7. validateEvidence(cited) = (CHOOSE g : Iter(g))[S]
  BY DEF validateEvidence, FoldLeft, MapThenFoldSet, Cite
<1> HIDE DEF Iter
<1>8. QED
  BY <1>5, <1>6, <1>7 DEF B


\* One suggestion of an answer, seen after the others.
Suggest(c, out) ==
    IF Len(out.tests) >= MaxSuggested THEN out
    ELSE IF c.ok /\ c.id \notin ToSet(out.tests) THEN [out EXCEPT !.tests = Append(@, c.id)]
    ELSE [out EXCEPT !.rejected = @ + 1]

\* What may be shown of suggestions.
OnlyShown(X) == [evidence : {<<>>}, tests : {t \in Lists(X) : Len(t) <= MaxSuggested}, rejected : Nat, given : {TRUE}]

LEMMA SuggestingIsShown ==
    ASSUME MaxSuggested \in Nat, NEW X, NEW out \in OnlyShown(X), NEW c \in [id : X, ok : BOOLEAN]
    PROVE  /\ Suggest(c, out) \in OnlyShown(X)
           /\ Suggest(c, out).rejected <= out.rejected + 1
<1>1. PICK L : L = {t \in Lists(X) : Len(t) <= MaxSuggested}
  OBVIOUS
<1>2. out \in [evidence : {<<>>}, tests : L, rejected : Nat, given : {TRUE}]
  BY <1>1 DEF OnlyShown
<1> SUFFICES /\ Suggest(c, out) \in [evidence : {<<>>}, tests : L, rejected : Nat, given : {TRUE}]
             /\ Suggest(c, out).rejected <= out.rejected + 1
  BY <1>1 DEF OnlyShown
<1>3. out.rejected \in Nat /\ out.tests \in L /\ out.tests \in Lists(X) /\ out.tests \in Seq(X)
  BY <1>1, <1>2 DEF Lists
<1>4. CASE Len(out.tests) >= MaxSuggested
  <2>1. Suggest(c, out) = out
    BY <1>4 DEF Suggest
  <2>2. Suggest(c, out).rejected <= out.rejected + 1
    BY <1>3, <2>1
  <2>3. QED
    BY <1>2, <2>1, <2>2
<1>5. CASE ~(Len(out.tests) >= MaxSuggested) /\ c.ok /\ c.id \notin ToSet(out.tests)
  <2>1. PICK added : added = Append(out.tests, c.id)
    OBVIOUS
  <2>2. added \in L
    <3>1. added \in Lists(X)
      BY <1>3, <1>5, <2>1, AppendedIsList
    <3>2. Len(added) <= MaxSuggested
      BY <1>3, <1>5, <2>1
    <3>3. QED
      BY <1>1, <3>1, <3>2
  <2>3. Suggest(c, out) = [out EXCEPT !.tests = added]
    BY <1>5, <2>1 DEF Suggest
  <2>4. [out EXCEPT !.tests = added] \in [evidence : {<<>>}, tests : L, rejected : Nat, given : {TRUE}]
    BY <1>2, <2>2
  <2>5. [out EXCEPT !.tests = added].rejected = out.rejected
    BY <1>2
  <2>6. QED
    <3>1. Suggest(c, out).rejected <= out.rejected + 1
      BY <1>3, <2>3, <2>5
    <3>2. QED
      BY <2>3, <2>4, <3>1
<1>6. CASE ~(Len(out.tests) >= MaxSuggested) /\ ~(c.ok /\ c.id \notin ToSet(out.tests))
  <2>1. PICK more \in Nat : more = out.rejected + 1
    BY <1>3
  <2>2. Suggest(c, out) = [out EXCEPT !.rejected = more]
    BY <1>6, <2>1 DEF Suggest
  <2>3. [out EXCEPT !.rejected = more] \in [evidence : {<<>>}, tests : L, rejected : Nat, given : {TRUE}]
    BY <1>2, <2>1
  <2>4. [out EXCEPT !.rejected = more].rejected = more
    BY <1>2
  <2>5. QED
    <3>1. Suggest(c, out).rejected <= out.rejected + 1
      BY <1>3, <2>1, <2>2, <2>4
    <3>2. QED
      BY <2>2, <2>3, <3>1
<1>7. QED
  BY <1>4, <1>5, <1>6

\* Whatever is suggested, no two tests with one id are shown, as many as may be
\* at most, and no more were rejected than were looked at.
LEMMA SuggestionsAreShown ==
    ASSUME MaxSuggested \in Nat, NEW k \in Nat, NEW X, NEW candidates \in [1 .. k -> [id : X, ok : BOOLEAN]]
    PROVE  /\ validateTestSuggestions(candidates) \in OnlyShown(X)
           /\ validateTestSuggestions(candidates).rejected <= 2 * MaxSuggested
<1>1. PICK looked \in Nat : /\ looked <= 2 * MaxSuggested
                            /\ FirstOf(candidates, 2 * MaxSuggested) \in [1 .. looked -> [id : X, ok : BOOLEAN]]
  <2>1. candidates \in Seq([id : X, ok : BOOLEAN]) /\ Len(candidates) = k
    <3> DEFINE C == [id : X, ok : BOOLEAN]
    <3>1. candidates \in [1 .. k -> C]
      OBVIOUS
    <3> HIDE DEF C
    <3>2. candidates \in Seq(C) /\ Len(candidates) = k
      BY <3>1, LenProperties
    <3>3. QED
      BY <3>2 DEF C
  <2>2. CASE k <= 2 * MaxSuggested
    <3>1. FirstOf(candidates, 2 * MaxSuggested) = candidates
      BY <2>1, <2>2 DEF FirstOf
    <3>2. QED
      BY <2>2, <3>1
  <2>3. CASE ~(k <= 2 * MaxSuggested)
    <3>1. FirstOf(candidates, 2 * MaxSuggested) = SubSeq(candidates, 1, 2 * MaxSuggested)
      BY <2>1, <2>3 DEF FirstOf
    <3>2. 2 * MaxSuggested \in Nat /\ 2 * MaxSuggested <= k
      BY <2>3
    <3>3. FirstOf(candidates, 2 * MaxSuggested) \in [1 .. 2 * MaxSuggested -> [id : X, ok : BOOLEAN]]
      BY <2>1, <3>1, <3>2
    <3>4. QED
      BY <3>2, <3>3
  <2>4. QED
    BY <2>2, <2>3
<1> DEFINE cs == FirstOf(candidates, 2 * MaxSuggested)
           S == 1 .. looked
           B == OnlyShown(X)
           nothing == [NoAnswer EXCEPT !.given = TRUE]
           Chosen(g) == g = [s \in SUBSET DOMAIN cs |-> IF s = {} THEN nothing ELSE Suggest(cs[Max(s)], g[s \ {Max(s)}])]
           Iter(g) == g = [s \in SUBSET S |-> IF s = {} THEN nothing ELSE Suggest(cs[Max(s)], g[s \ {Max(s)}])]
           G == [i \in S |-> [out \in B |-> Suggest(cs[i], out)]]
           ch == [s \in SUBSET S |-> Max(s)]
<1>2. validateTestSuggestions(candidates) = (CHOOSE g : Chosen(g))[DOMAIN cs]
  BY DEF validateTestSuggestions, FoldLeft, MapThenFoldSet, Suggest
<1> HIDE DEF cs
<1>3. cs \in [1 .. looked -> [id : X, ok : BOOLEAN]] /\ DOMAIN cs = S
  BY <1>1 DEF cs
<1>4. \A i \in S, out \in B : Suggest(cs[i], out) \in B /\ Suggest(cs[i], out).rejected <= out.rejected + 1
  <2>1. TAKE i \in S, out \in B
  <2>2. cs[i] \in [id : X, ok : BOOLEAN]
    BY <1>3
  <2>3. QED
    BY <2>2, SuggestingIsShown
<1>5. IsFiniteSet(S) /\ Cardinality(S) = looked
  BY FS_Interval
<1>6. \A s \in SUBSET S : s # {} => Max(s) \in s
  BY LastIndex
<1>7. nothing \in B /\ nothing.rejected = 0
  <2>1. PICK L : L = {t \in Lists(X) : Len(t) <= MaxSuggested}
    OBVIOUS
  <2>2. Len(<<>>) <= MaxSuggested
    OBVIOUS
  <2>3. <<>> \in L
    BY <2>1, <2>2, EmptyIsList
  <2>4. nothing \in [evidence : {<<>>}, tests : L, rejected : Nat, given : {TRUE}] /\ nothing.rejected = 0
    BY <2>3 DEF NoAnswer
  <2>5. QED
    BY <2>1, <2>4 DEF OnlyShown
<1> HIDE DEF B, nothing
<1>8. \E g : Iter(g)
  <2>1. G \in [S -> [B -> B]] /\ \A i \in S, out \in B : G[i][out] = Suggest(cs[i], out)
    BY <1>4
  <2>2. \A s \in SUBSET S : ch[s] = Max(s) /\ (s # {} => ch[s] \in s)
    BY <1>6
  <2> HIDE DEF G, ch, S
  <2>3. PICK g \in [SUBSET S -> B] : Folds(g, G, ch, nothing, S)
    BY <1>5, <1>7, <2>1, <2>2, FoldsExist
  <2>4. \A s \in SUBSET S : s # {} => G[ch[s]][g[s \ {ch[s]}]] = Suggest(cs[Max(s)], g[s \ {Max(s)}])
    <3>1. TAKE s \in SUBSET S
    <3>2. HAVE s # {}
    <3>3. ch[s] = Max(s) /\ Max(s) \in S
      BY <2>2, <3>2
    <3>4. s \ {Max(s)} \in SUBSET S
      OBVIOUS
    <3>5. g[s \ {Max(s)}] \in B
      BY <3>4, ZenonT(40)
    <3>6. QED
      BY <2>1, <3>3, <3>5
  <2>5. Iter(g)
    BY <2>3, <2>4 DEF Folds
  <2> HIDE DEF Iter
  <2>6. QED
    BY <2>5
<1>9. \A g : Iter(g) => g[S] \in B /\ g[S].rejected <= looked
  <2>1. SUFFICES ASSUME NEW g, Iter(g) PROVE g[S] \in B /\ g[S].rejected <= looked
    OBVIOUS
  <2> DEFINE P == {s \in SUBSET S : g[s] \in B /\ g[s].rejected <= Cardinality(s)}
  <2>2. {} \in P
    BY <1>7, <2>1, FS_EmptySet
  <2>3. \A s \in SUBSET S : s # {} /\ (\A x \in s : s \ {x} \in P) => s \in P
    <3>1. TAKE s \in SUBSET S
    <3>2. HAVE s # {} /\ \A x \in s : s \ {x} \in P
    <3>3. PICK i \in s : i = Max(s) /\ g[s] = Suggest(cs[i], g[s \ {i}])
      BY <1>6, <2>1, <3>2
    <3>4. g[s \ {i}] \in B /\ g[s \ {i}].rejected <= Cardinality(s \ {i})
      BY <3>2, <3>3
    <3>5. g[s] \in B /\ g[s].rejected <= g[s \ {i}].rejected + 1
      <4>1. i \in S
        BY <3>3
      <4> HIDE DEF S, Iter, P
      <4>2. QED
        BY <1>4, <3>3, <3>4, <4>1, Zenon
    <3>6. IsFiniteSet(s) /\ Cardinality(s) \in Nat /\ Cardinality(s \ {i}) = Cardinality(s) - 1
      <4> HIDE DEF S
      <4>1. QED
        BY <1>5, <3>3, FS_Subset, FS_CardinalityType, FS_RemoveElement
    <3>7. g[s].rejected \in Nat /\ g[s \ {i}].rejected \in Nat
      BY <3>4, <3>5 DEF B, OnlyShown
    <3>8. QED
      BY <3>4, <3>5, <3>6, <3>7
  <2> HIDE DEF P, S
  <2>4. SUBSET S \subseteq P
    BY <1>5, <2>2, <2>3, SubsetsByRemoval
  <2>5. QED
    BY <1>5, <2>4 DEF P
<1>10. \A g : Chosen(g) <=> Iter(g)
  BY <1>3
<1> HIDE DEF Iter, Chosen, S
<1>11. PICK g : g = CHOOSE x : Chosen(x)
  OBVIOUS
<1>12. g[S] \in B /\ g[S].rejected <= looked
  BY <1>8, <1>9, <1>10, <1>11
<1>13. g[S].rejected \in Nat
  BY <1>12 DEF B, OnlyShown
<1>14. QED
  BY <1>1, <1>2, <1>3, <1>11, <1>12, <1>13 DEF B

-----------------------------------------------------------------------------
(* What is asked about stays in the context.                               *)

\* The items of a context, of a record that names its findings and tests with
\* Names.
FindingItems(Names) ==
    [id : Names, related : Names \union {NotGiven}, kind : {"finding", "diagnostic"}, size : {1, 2}]
TestItems(Names) == [id : Names, failing : BOOLEAN, size : {1, 2}]

LEMMA IdsOfItems ==
    ASSUME NEW s
    PROVE  Ids(s) = {x.id : x \in ToSet(s)}
BY DEF Ids, ToSet

LEMMA FirstOfItems ==
    ASSUME NEW X, NEW s \in Seq(X), NEW n \in Nat
    PROVE  /\ FirstOf(s, n) \in Seq(X) /\ ToSet(FirstOf(s, n)) \subseteq ToSet(s)
           /\ n > 0 /\ s # <<>> => FirstOf(s, n) # <<>> /\ FirstOf(s, n)[1] = s[1]
           /\ DOMAIN FirstOf(s, n) = {i \in DOMAIN s : i <= n}
           /\ \A i \in DOMAIN FirstOf(s, n) : FirstOf(s, n)[i] = s[i]
<1>1. Len(s) \in Nat /\ DOMAIN s = 1 .. Len(s) /\ (s # <<>> <=> Len(s) # 0)
  BY LenProperties, EmptySeq
<1>2. CASE Len(s) <= n
  <2>1. FirstOf(s, n) = s
    BY <1>2 DEF FirstOf
  <2>2. QED
    BY <1>1, <1>2, <2>1
<1>3. CASE ~(Len(s) <= n)
  <2>1. PICK t : t = SubSeq(s, 1, n)
    OBVIOUS
  <2>2. FirstOf(s, n) = t
    BY <1>3, <2>1 DEF FirstOf
  <2>3. /\ t \in Seq(X) /\ Len(t) = n /\ DOMAIN t = 1 .. n
        /\ \A i \in 1 .. n : t[i] = s[i]
    BY <1>1, <1>3, <2>1
  <2>4. \A i \in 1 .. n : i \in DOMAIN s
    BY <1>1, <1>3
  <2>5. ToSet(t) \subseteq ToSet(s)
    BY <2>3, <2>4 DEF ToSet
  <2>6. n > 0 => t # <<>> /\ t[1] = s[1]
    BY <2>3
  <2>7. 1 .. n = {i \in DOMAIN s : i <= n}
    BY <1>1, <1>3
  <2>8. QED
    BY <2>2, <2>3, <2>5, <2>6, <2>7
<1>4. QED
  BY <1>2, <1>3

LEMMA OfItems ==
    ASSUME NEW X, NEW s \in Seq(X), NEW id
    PROVE  /\ Of(s, id) \in Seq(X)
           /\ ToSet(Of(s, id)) = {x \in ToSet(s) : x.id = id}
           /\ id \in Ids(s) => Of(s, id) # <<>> /\ Of(s, id)[1] \in ToSet(s) /\ Of(s, id)[1].id = id
<1>1. PICK y : y = Of(s, id)
  OBVIOUS
<1>2. y \in Seq(X) /\ ToSet(y) = {s[i] : i \in DOMAIN s \cap {i \in DOMAIN s : s[i].id = id}}
  BY <1>1, ThoseItems DEF Of
<1>3. ToSet(y) = {x \in ToSet(s) : x.id = id}
  BY <1>2 DEF ToSet
<1>4. ASSUME id \in Ids(s) PROVE y # <<>> /\ y[1] \in ToSet(s) /\ y[1].id = id
  <2>1. ToSet(y) # {}
    BY <1>3, <1>4, IdsOfItems
  <2>2. y # <<>> /\ 1 \in DOMAIN y
    BY <1>2, <2>1, EmptyHasNoItems
  <2>3. y[1] \in ToSet(y)
    BY <2>2 DEF ToSet
  <2>4. QED
    BY <1>3, <2>2, <2>3
<1>5. QED
  BY <1>1, <1>2, <1>3, <1>4

\* What is asked about is among what comes first, if it is there at all; when
\* nothing is asked about the items keep their places.
LEMMA PrioritizedItems ==
    ASSUME Cap \in Nat \ {0}, NEW X, NEW s \in Seq(X), NEW focus
    PROVE  /\ prioritize(s, focus) \in Seq(X) /\ ToSet(prioritize(s, focus)) \subseteq ToSet(s)
           /\ focus \in Ids(s) => focus \in Ids(prioritize(s, focus))
           /\ focus \notin Ids(s) => prioritize(s, focus) = FirstOf(s, Cap)
<1>1. PICK y \in Seq(X), z \in Seq(X) : y = Of(s, focus) /\ z = Besides(s, focus)
  BY OfItems, ThoseItems DEF Besides
<1>2. prioritize(s, focus) = FirstOf(y \o z, Cap)
  BY <1>1 DEF prioritize
<1>3. ToSet(y) = {x \in ToSet(s) : x.id = focus}
  BY <1>1, OfItems
<1>4. ToSet(z) \subseteq ToSet(s)
  <2>1. ToSet(z) = {s[i] : i \in DOMAIN s \cap {i \in DOMAIN s : s[i].id # focus}}
    BY <1>1, ThoseItems DEF Besides
  <2>2. QED
    BY <2>1 DEF ToSet
<1>5. PICK both \in Seq(X) : /\ both = y \o z /\ ToSet(both) = ToSet(y) \union ToSet(z)
                             /\ y # <<>> => both # <<>> /\ both[1] = y[1]
                             /\ y = <<>> => both = z
  <2>1. /\ y \o z \in Seq(X) /\ ToSet(y \o z) = ToSet(y) \union ToSet(z)
        /\ y # <<>> => (y \o z)[1] = y[1]
        /\ y = <<>> => y \o z = z
    BY ConcatenatedItems
  <2>2. y # <<>> => y \o z # <<>>
    BY <2>1, EmptyHasNoItems
  <2>3. QED
    BY <2>1, <2>2
<1>6. PICK p \in Seq(X) : /\ p = prioritize(s, focus) /\ p = FirstOf(both, Cap) /\ ToSet(p) \subseteq ToSet(both)
                          /\ both # <<>> => p # <<>> /\ p[1] = both[1]
  <2>1. Cap \in Nat /\ Cap > 0
    OBVIOUS
  <2>2. PICK p : p = FirstOf(both, Cap)
    OBVIOUS
  <2>3. /\ p \in Seq(X) /\ ToSet(p) \subseteq ToSet(both)
        /\ both # <<>> => p # <<>> /\ p[1] = both[1]
    BY <2>1, <2>2, FirstOfItems
  <2>4. p = prioritize(s, focus)
    BY <1>2, <1>5, <2>2
  <2>5. QED
    BY <2>2, <2>3, <2>4
<1>7. ToSet(p) \subseteq ToSet(s)
  BY <1>3, <1>4, <1>5, <1>6
<1>8. ASSUME focus \in Ids(s) PROVE focus \in Ids(p)
  <2>1. y # <<>> /\ y[1].id = focus
    BY <1>1, <1>8, OfItems
  <2>2. p # <<>> /\ p[1].id = focus
    BY <1>5, <1>6, <2>1
  <2>3. 1 \in DOMAIN p
    BY <2>2, EmptyHasNoItems
  <2>4. QED
    BY <2>2, <2>3 DEF Ids
<1>9. ASSUME focus \notin Ids(s) PROVE p = FirstOf(s, Cap)
  <2>1. ToSet(y) = {}
    BY <1>3, <1>9, IdsOfItems
  <2>2. y = <<>>
    BY <2>1, EmptyHasNoItems
  <2>3. DOMAIN s \subseteq {i \in DOMAIN s : s[i].id # focus}
    BY <1>9 DEF Ids
  <2>4. z = s
    BY <1>1, <2>3, ThoseItems DEF Besides
  <2>5. QED
    BY <1>5, <1>6, <2>2, <2>4
<1>10. QED
  BY <1>6, <1>7, <1>8, <1>9

LEMMA HeadItems ==
    ASSUME NEW X, NEW s \in Seq(X), s # <<>>, NEW I, 1 \in I
    PROVE  Those(s, I) \in Seq(X) /\ Those(s, I) # <<>> /\ Those(s, I)[1] = s[1]
<1>1. PICK t : t = Those(s, I)
  OBVIOUS
<1>2. 1 \in DOMAIN s \cap I /\ \A j \in DOMAIN s \cap I : 1 <= j
  BY EmptyHasNoItems, LenProperties
<1>3. t \in Seq(X) /\ t[1] = s[1] /\ s[1] \in ToSet(t)
  BY <1>1, <1>2, ThoseItems
<1>4. t # <<>>
  BY <1>3, EmptyHasNoItems
<1>5. QED
  BY <1>1, <1>3, <1>4

LEMMA SizedFindings ==
    ASSUME NEW Names, NEW s \in Seq(FindingItems(Names))
    PROVE  /\ Sized(s, 1) \in Seq(FindingItems(Names)) /\ DOMAIN Sized(s, 1) = DOMAIN s
           /\ \A i \in DOMAIN s : Sized(s, 1)[i].id = s[i].id /\ Sized(s, 1)[i].related = s[i].related
<1>1. Len(s) \in Nat /\ DOMAIN s = 1 .. Len(s) /\ s \in [1 .. Len(s) -> FindingItems(Names)]
  BY LenProperties
<1>2. \A x \in FindingItems(Names) : /\ [x EXCEPT !.size = 1] \in FindingItems(Names)
                                     /\ [x EXCEPT !.size = 1].id = x.id
                                     /\ [x EXCEPT !.size = 1].related = x.related
  BY DEF FindingItems
<1>3. \A i \in DOMAIN s : Sized(s, 1)[i] = [s[i] EXCEPT !.size = 1] /\ s[i] \in FindingItems(Names)
  BY <1>1 DEF Sized
<1>4. Sized(s, 1) \in [1 .. Len(s) -> FindingItems(Names)]
  BY <1>1, <1>2, <1>3 DEF Sized
<1>5. Sized(s, 1) \in Seq(FindingItems(Names)) /\ DOMAIN Sized(s, 1) = DOMAIN s
  BY <1>1, <1>4, SeqDef
<1>6. QED
  BY <1>1, <1>2, <1>3, <1>5

LEMMA SizedTests ==
    ASSUME NEW Names, NEW s \in Seq(TestItems(Names))
    PROVE  /\ Sized(s, 1) \in Seq(TestItems(Names)) /\ DOMAIN Sized(s, 1) = DOMAIN s
           /\ \A i \in DOMAIN s : Sized(s, 1)[i].id = s[i].id
<1>1. Len(s) \in Nat /\ DOMAIN s = 1 .. Len(s) /\ s \in [1 .. Len(s) -> TestItems(Names)]
  BY LenProperties
<1>2. \A x \in TestItems(Names) : /\ [x EXCEPT !.size = 1] \in TestItems(Names)
                                  /\ [x EXCEPT !.size = 1].id = x.id
  BY DEF TestItems
<1>3. \A i \in DOMAIN s : Sized(s, 1)[i] = [s[i] EXCEPT !.size = 1] /\ s[i] \in TestItems(Names)
  BY <1>1 DEF Sized
<1>4. Sized(s, 1) \in [1 .. Len(s) -> TestItems(Names)]
  BY <1>1, <1>2, <1>3 DEF Sized
<1>5. Sized(s, 1) \in Seq(TestItems(Names)) /\ DOMAIN Sized(s, 1) = DOMAIN s
  BY <1>1, <1>4, SeqDef
<1>6. QED
  BY <1>1, <1>2, <1>3, <1>5

\* The findings of a context are led by id, which is about related; its tests
\* are led by id.
FindingLeads(c, id, related, Names) ==
    /\ c.findings \in Seq(FindingItems(Names)) /\ c.findings # <<>>
    /\ c.findings[1].id = id /\ c.findings[1].related = related
TestLeads(c, id, Names) ==
    c.tests \in Seq(TestItems(Names)) /\ c.tests # <<>> /\ c.tests[1].id = id

\* A context that something was taken from.
Truncated(c) == c.truncated = TRUE

LEMMA TrimmingKeepsFinding ==
    ASSUME Few \in Nat \ {0}, Fewer \in Nat \ {0}, NEW Names,
           NEW c, DOMAIN c = Fields, NEW id, NEW related, FindingLeads(c, id, related, Names), NEW n \in 1 .. 7, NEW focus
    PROVE  FindingLeads(Trim(c, n, focus), id, related, Names)
<1> DEFINE top(k)  == {i \in DOMAIN c.findings : c.findings[i].id = focus \/ i <= k}
           head(k) == Those(c.findings, top(k))
<1>1. \/ Trim(c, n, focus).findings = c.findings
      \/ Trim(c, n, focus).findings = head(Few)
      \/ Trim(c, n, focus).findings = head(Fewer)
      \/ Trim(c, n, focus).findings = Sized(c.findings, 1)
  BY DEF Trim, Fields
<1>2. \A k \in Nat \ {0} : head(k) \in Seq(FindingItems(Names)) /\ head(k) # <<>> /\ head(k)[1] = c.findings[1]
  <2>1. TAKE k \in Nat \ {0}
  <2>2. c.findings \in Seq(FindingItems(Names)) /\ c.findings # <<>>
    BY DEF FindingLeads
  <2>3. 1 \in top(k)
    BY <2>2, EmptyHasNoItems
  <2> HIDE DEF top
  <2>4. QED
    BY <2>2, <2>3, HeadItems
<1>3. PICK t : t = Sized(c.findings, 1)
  OBVIOUS
<1>4. 1 \in DOMAIN c.findings
  BY EmptyHasNoItems DEF FindingLeads
<1>5. t \in Seq(FindingItems(Names)) /\ 1 \in DOMAIN t /\ t[1].id = c.findings[1].id /\ t[1].related = c.findings[1].related
  BY <1>3, <1>4, SizedFindings DEF FindingLeads
<1>6. t # <<>>
  BY <1>5, EmptyHasNoItems
<1> HIDE DEF head
<1>7. QED
  BY <1>1, <1>2, <1>3, <1>5, <1>6 DEF FindingLeads

LEMMA TrimmingKeepsTest ==
    ASSUME Few \in Nat \ {0}, Fewer \in Nat \ {0}, NEW Names,
           NEW c, DOMAIN c = Fields, NEW id, TestLeads(c, id, Names), NEW n \in 1 .. 7, NEW focus
    PROVE  TestLeads(Trim(c, n, focus), id, Names)
<1> DEFINE top(k)  == {i \in DOMAIN c.tests : c.tests[i].id = focus \/ i <= k}
           head(k) == Those(c.tests, top(k))
           others == [i \in DOMAIN c.tests |-> IF c.tests[i].id = focus THEN c.tests[i] ELSE [c.tests[i] EXCEPT !.size = 1]]
<1>1. \/ Trim(c, n, focus).tests = c.tests
      \/ Trim(c, n, focus).tests = others
      \/ Trim(c, n, focus).tests = head(Few)
      \/ Trim(c, n, focus).tests = head(Fewer)
      \/ Trim(c, n, focus).tests = Sized(c.tests, 1)
  BY DEF Trim, Fields
<1>2. \A k \in Nat \ {0} : head(k) \in Seq(TestItems(Names)) /\ head(k) # <<>> /\ head(k)[1] = c.tests[1]
  <2>1. TAKE k \in Nat \ {0}
  <2>2. c.tests \in Seq(TestItems(Names)) /\ c.tests # <<>>
    BY DEF TestLeads
  <2>3. 1 \in top(k)
    BY <2>2, EmptyHasNoItems
  <2> HIDE DEF top
  <2>4. QED
    BY <2>2, <2>3, HeadItems
<1>3. PICK t : t = Sized(c.tests, 1)
  OBVIOUS
<1>4. 1 \in DOMAIN c.tests /\ c.tests \in Seq(TestItems(Names))
  BY EmptyHasNoItems DEF TestLeads
<1>5. t \in Seq(TestItems(Names)) /\ 1 \in DOMAIN t /\ t[1].id = c.tests[1].id
  BY <1>3, <1>4, SizedTests
<1>6. t # <<>>
  BY <1>5, EmptyHasNoItems
<1>7. others \in Seq(TestItems(Names)) /\ others # <<>> /\ others[1].id = c.tests[1].id
  <2>1. t \in [DOMAIN c.tests -> TestItems(Names)] /\ c.tests \in [DOMAIN c.tests -> TestItems(Names)]
    BY <1>3, <1>4, <1>5, SizedTests, LenProperties
  <2>2. \A i \in DOMAIN c.tests : others[i] = IF c.tests[i].id = focus THEN c.tests[i] ELSE t[i]
    BY <1>3 DEF Sized
  <2>3. others \in [DOMAIN c.tests -> TestItems(Names)]
    <3>1. \A i \in DOMAIN c.tests : others[i] \in TestItems(Names)
      BY <2>1, <2>2
    <3>2. QED
      BY <3>1
  <2>4. others[1].id = c.tests[1].id
    BY <1>4, <1>5, <2>2
  <2>5. DOMAIN others = DOMAIN c.tests
    OBVIOUS
  <2> HIDE DEF others
  <2>6. others \in Seq(TestItems(Names))
    BY <1>4, <2>3, LenProperties, SeqDef
  <2>7. others # <<>>
    BY <1>4, <2>5, <2>6, EmptyHasNoItems
  <2>8. QED
    BY <2>4, <2>6, <2>7
<1> HIDE DEF head, others
<1>8. QED
  BY <1>1, <1>2, <1>3, <1>5, <1>6, <1>7 DEF TestLeads

LEMMA TrimmedKeepsLead ==
    ASSUME Few \in Nat \ {0}, Fewer \in Nat \ {0}, NEW Names, NEW c, DOMAIN c = Fields, NEW id, NEW related,
           NEW n \in 1 .. 7, NEW maxBytes, NEW focus
    PROVE  /\ FindingLeads(c, id, related, Names) => FindingLeads(Trimmed(c, n, maxBytes, focus), id, related, Names)
           /\ TestLeads(c, id, Names) => TestLeads(Trimmed(c, n, maxBytes, focus), id, Names)
<1>1. PICK e : e = Trim(c, n, focus) /\ DOMAIN e = Fields
  BY TrimmingKeepsFields
<1>2. /\ FindingLeads(c, id, related, Names) => FindingLeads(e, id, related, Names)
      /\ TestLeads(c, id, Names) => TestLeads(e, id, Names)
  BY <1>1, TrimmingKeepsFinding, TrimmingKeepsTest
<1>3. PICK d : d = Trimmed(c, n, maxBytes, focus)
  OBVIOUS
<1>4. CASE d = c
  BY <1>3, <1>4
<1>5. CASE d = [e EXCEPT !.truncated = TRUE]
  <2>1. d.findings = e.findings /\ d.tests = e.tests
    BY <1>1, <1>5 DEF Fields
  <2>2. QED
    BY <1>2, <1>3, <2>1 DEF FindingLeads, TestLeads
<1>6. QED
  BY <1>1, <1>3, <1>4, <1>5 DEF Trimmed

LEMMA TrimmedIsTruncated ==
    ASSUME NEW c, DOMAIN c = Fields, NEW n, NEW maxBytes, NEW focus
    PROVE  /\ Trimmed(c, n, maxBytes, focus).state = c.state
           /\ Trimmed(c, n, maxBytes, focus) = c \/ Truncated(Trimmed(c, n, maxBytes, focus))
<1>1. PICK e : e = Trim(c, n, focus) /\ DOMAIN e = Fields
  BY TrimmingKeepsFields
<1>2. e.state = c.state
  BY <1>1 DEF Trim, Fields
<1>3. PICK d : d = Trimmed(c, n, maxBytes, focus)
  OBVIOUS
<1>4. d = c \/ d = [e EXCEPT !.truncated = TRUE]
  BY <1>1, <1>3 DEF Trimmed
<1>5. d.state = c.state /\ (d = c \/ Truncated(d))
  BY <1>1, <1>2, <1>4 DEF Fields, Truncated
<1>6. QED
  BY <1>3, <1>5

LEMMA FittingKeepsLead ==
    ASSUME Few \in Nat \ {0}, Fewer \in Nat \ {0}, NEW Names, NEW c, DOMAIN c = Fields, NEW maxBytes, NEW focus,
           NEW d, d = fitToBudget(c, maxBytes, focus)
    PROVE  /\ \A id, related : FindingLeads(c, id, related, Names) => FindingLeads(d, id, related, Names)
           /\ \A id : TestLeads(c, id, Names) => TestLeads(d, id, Names)
           /\ d.state = c.state /\ (d = c \/ Truncated(d))
<1>1. PICK after : /\ after[0] = c
                   /\ \A n \in 1 .. 7 : after[n] = Trimmed(after[n - 1], n, maxBytes, focus)
                   /\ fitToBudget(c, maxBytes, focus) = after[7]
  BY FittingTrims
<1> DEFINE Stays(e) ==
             /\ DOMAIN e = Fields
             /\ \A id, related : FindingLeads(c, id, related, Names) => FindingLeads(e, id, related, Names)
             /\ \A id : TestLeads(c, id, Names) => TestLeads(e, id, Names)
             /\ e.state = c.state /\ (e = c \/ Truncated(e))
<1>2. \A n \in 1 .. 7 : Stays(after[n - 1]) => Stays(after[n])
  <2>1. TAKE n \in 1 .. 7
  <2>2. HAVE Stays(after[n - 1])
  <2>3. PICK b, e : b = after[n - 1] /\ e = after[n] /\ e = Trimmed(b, n, maxBytes, focus)
    BY <1>1
  <2>4. DOMAIN b = Fields
    BY <2>2, <2>3
  <2>5. DOMAIN e = Fields
    BY <2>3, <2>4, TrimmedKeepsFields
  <2>6. /\ \A id, related : FindingLeads(b, id, related, Names) => FindingLeads(e, id, related, Names)
        /\ \A id : TestLeads(b, id, Names) => TestLeads(e, id, Names)
    BY <2>3, <2>4, TrimmedKeepsLead
  <2>7. e.state = b.state /\ (e = b \/ Truncated(e))
    BY <2>3, <2>4, TrimmedIsTruncated
  <2>8. Stays(b)
    BY <2>2, <2>3
  <2>9. QED
    BY <2>3, <2>5, <2>6, <2>7, <2>8
<1>3. Stays(after[0])
  BY <1>1
<1> HIDE DEF Stays
<1>4. Stays(after[1])
  BY <1>2, <1>3
<1>5. Stays(after[2])
  BY <1>2, <1>4
<1>6. Stays(after[3])
  BY <1>2, <1>5
<1>7. Stays(after[4])
  BY <1>2, <1>6
<1>8. Stays(after[5])
  BY <1>2, <1>7
<1>9. Stays(after[6])
  BY <1>2, <1>8
<1>10. Stays(after[7])
  BY <1>2, <1>9
<1>11. Stays(d)
  BY <1>1, <1>10
<1>12. QED
  BY <1>11 DEF Stays

LEMMA AssemblingKeepsLead ==
    ASSUME Few \in Nat \ {0}, Fewer \in Nat \ {0}, NEW Names, NEW c, DOMAIN c = Fields, NEW d, d = assemble(c)
    PROVE  /\ \A id, related : FindingLeads(c, id, related, Names) => FindingLeads(d, id, related, Names)
           /\ \A id : TestLeads(c, id, Names) => TestLeads(d, id, Names)
           /\ d.state = c.state
           /\ (d.findings = c.findings /\ d.tests = c.tests) \/ Truncated(d)
<1>1. PICK e : e = fitToBudget(c, options.maxBytes, options.focus)
  OBVIOUS
<1>2. DOMAIN e = Fields
  BY <1>1, FittingKeepsFields
<1>3. /\ \A id, related : FindingLeads(c, id, related, Names) => FindingLeads(e, id, related, Names)
      /\ \A id : TestLeads(c, id, Names) => TestLeads(e, id, Names)
      /\ e.state = c.state /\ (e = c \/ Truncated(e))
  BY <1>1, FittingKeepsLead
<1>4. PICK index : index = buildEvidenceIndex(e)
  OBVIOUS
<1>5. d = [e EXCEPT !.evidenceIndex = index]
  BY <1>1, <1>4 DEF assemble
<1>6. d.findings = e.findings /\ d.tests = e.tests /\ d.state = e.state /\ d.truncated = e.truncated
  BY <1>2, <1>5 DEF Fields
<1>7. QED
  BY <1>3, <1>6 DEF FindingLeads, TestLeads, Truncated

\* One item before others.
LEMMA LedItems ==
    ASSUME NEW X, NEW x \in X, NEW s \in Seq(X)
    PROVE  <<x>> \o s \in Seq(X) /\ <<x>> \o s # <<>> /\ (<<x>> \o s)[1] = x
<1>1. <<x>> \in Seq(X) /\ <<x>> # <<>> /\ <<x>>[1] = x
  OBVIOUS
<1>2. PICK one : one = <<x>>
  OBVIOUS
<1>3. one \in Seq(X) /\ one # <<>> /\ one[1] = x
  BY <1>1, <1>2
<1>4. PICK y : y = one \o s
  OBVIOUS
<1>5. one \o s \in Seq(X) /\ ToSet(one \o s) = ToSet(one) \union ToSet(s) /\ (one \o s)[1] = one[1]
  BY <1>3, ConcatenatedItems
<1>6. y \in Seq(X) /\ ToSet(one) \subseteq ToSet(y) /\ y[1] = x
  BY <1>3, <1>4, <1>5
<1>7. ToSet(one) # {}
  BY <1>3, EmptyHasNoItems
<1>8. y # <<>>
  BY <1>6, <1>7, EmptyHasNoItems
<1>9. QED
  BY <1>2, <1>4, <1>6, <1>8

LEMMA FindingIsShaped ==
    ASSUME Few \in Nat \ {0}, NEW Names, NEW c, DOMAIN c = Fields, NEW focus, focus \in Ids(c.findings),
           c.findings \in Seq(FindingItems(Names)), c.tests \in Seq(TestItems(Names)),
           NEW d, d = shapeForFeature(c, "explain_finding", focus)
    PROVE  /\ d.state = c.state /\ d.truncated = c.truncated
           /\ d.findings[1] \in ToSet(c.findings)
           /\ FindingLeads(d, focus, d.findings[1].related, Names)
           /\ d.findings[1].related \in Ids(c.tests) => TestLeads(d, d.findings[1].related, Names)
<1>1. PICK x : x = Of(c.findings, focus)[1]
  OBVIOUS
<1>2. x \in ToSet(c.findings) /\ x.id = focus
  BY <1>1, OfItems
<1>3. x \in FindingItems(Names)
  BY <1>2, LenProperties DEF ToSet
<1>4. PICK s \in Seq(FindingItems(Names)) : s = Sized(FirstOf(Besides(c.findings, focus), Few), 1)
  <2>1. PICK b \in Seq(FindingItems(Names)) : b = Besides(c.findings, focus)
    BY ThoseItems DEF Besides
  <2>2. PICK e \in Seq(FindingItems(Names)) : e = FirstOf(b, Few)
    BY FirstOfItems
  <2>3. Sized(e, 1) \in Seq(FindingItems(Names))
    BY SizedFindings
  <2>4. QED
    BY <2>1, <2>2, <2>3
<1>5. PICK findings, tests : findings = <<x>> \o s /\ tests = Of(c.tests, x.related)
  OBVIOUS
<1>6. d = [c EXCEPT !.findings = findings, !.tests = tests, !.events = 0, !.network = 0]
  BY <1>1, <1>4, <1>5 DEF shapeForFeature
<1>7. d.state = c.state /\ d.truncated = c.truncated /\ d.findings = findings /\ d.tests = tests
  BY <1>6 DEF Fields
<1>8. findings \in Seq(FindingItems(Names)) /\ findings # <<>> /\ findings[1] = x
  BY <1>3, <1>5, LedItems
<1>9. tests \in Seq(TestItems(Names)) /\ (x.related \in Ids(c.tests) => tests # <<>> /\ tests[1].id = x.related)
  BY <1>5, OfItems
<1>10. QED
  BY <1>2, <1>7, <1>8, <1>9 DEF FindingLeads, TestLeads

LEMMA TestIsShaped ==
    ASSUME Cap \in Nat, NEW Names, NEW c, DOMAIN c = Fields, NEW focus, focus \in Ids(c.tests),
           c.tests \in Seq(TestItems(Names)), NEW d, d = shapeForFeature(c, "explain_test_failure", focus)
    PROVE  /\ d.state = c.state /\ d.truncated = c.truncated
           /\ d.tests[1] \in ToSet(c.tests) /\ TestLeads(d, focus, Names)
<1>1. PICK x : x = Of(c.tests, focus)[1]
  OBVIOUS
<1>2. x \in ToSet(c.tests) /\ x.id = focus
  BY <1>1, OfItems
<1>3. x \in TestItems(Names)
  BY <1>2, LenProperties DEF ToSet
<1>4. PICK s \in Seq(TestItems(Names)) : s = Sized(FirstOf(Besides(c.tests, focus), Cap), 1)
  <2>1. PICK b \in Seq(TestItems(Names)) : b = Besides(c.tests, focus)
    BY ThoseItems DEF Besides
  <2>2. PICK e \in Seq(TestItems(Names)) : e = FirstOf(b, Cap)
    BY FirstOfItems
  <2>3. Sized(e, 1) \in Seq(TestItems(Names))
    BY SizedTests
  <2>4. QED
    BY <2>1, <2>2, <2>3
<1>5. PICK tests : tests = <<x>> \o s
  OBVIOUS
<1>6. d.state = c.state /\ d.truncated = c.truncated /\ d.tests = tests
  BY <1>1, <1>4, <1>5 DEF shapeForFeature, Fields
<1>7. tests \in Seq(TestItems(Names)) /\ tests # <<>> /\ tests[1] = x
  BY <1>3, <1>5, LedItems
<1>8. QED
  BY <1>2, <1>6, <1>7 DEF TestLeads

LEMMA ReadItems ==
    ASSUME HardCap \in Nat, NEW X, NEW s \in Seq(X)
    PROVE  /\ Capped(s) \in Seq(X)
           /\ DOMAIN Capped(s) = {i \in DOMAIN s : i <= HardCap}
           /\ \A i \in DOMAIN Capped(s) : Capped(s)[i] = s[i]
BY FirstOfItems DEF Capped

\* Every one of these is shown with all its detail.
InFull(s) == \A x \in ToSet(s) : x.size = 2

\* What is read of a record, each item in full.
LEMMA FindingsOfRecord ==
    ASSUME HardCap \in Nat, NEW Names, NEW is \in Seq(Names), NEW ds \in Seq(DiagnosticRecords(Names)),
           NEW all, all = staticFindings(is) \o diagnosticFindings(ds)
    PROVE  /\ all \in Seq(FindingItems(Names))
           /\ InFull(all)
           /\ Ids(all) = ToSet(Capped(is)) \union Ids(Capped(ds))
<1>1. PICK a, b : a = staticFindings(is) /\ b = diagnosticFindings(ds)
  OBVIOUS
<1>2. PICK n \in Nat : DOMAIN Capped(is) = 1 .. n /\ \A i \in 1 .. n : i \in DOMAIN is /\ Capped(is)[i] = is[i] /\ is[i] \in Names
  <2>1. PICK r \in Seq(Names) : r = Capped(is) /\ DOMAIN r = {i \in DOMAIN is : i <= HardCap} /\ \A i \in DOMAIN r : r[i] = is[i]
    BY ReadItems
  <2>2. Len(r) \in Nat /\ DOMAIN r = 1 .. Len(r) /\ \A i \in DOMAIN r : r[i] \in Names
    BY <2>1, LenProperties
  <2>3. QED
    BY <2>1, <2>2
<1>3. PICK m \in Nat : /\ DOMAIN Capped(ds) = 1 .. m
                       /\ \A i \in 1 .. m : /\ i \in DOMAIN ds /\ Capped(ds)[i] = ds[i]
                                            /\ ds[i].id \in Names /\ ds[i].related \in Names \union {NotGiven}
  <2>1. PICK r \in Seq(DiagnosticRecords(Names)) :
            r = Capped(ds) /\ DOMAIN r = {i \in DOMAIN ds : i <= HardCap} /\ \A i \in DOMAIN r : r[i] = ds[i]
    BY ReadItems
  <2>2. Len(r) \in Nat /\ DOMAIN r = 1 .. Len(r) /\ \A i \in DOMAIN r : r[i] \in DiagnosticRecords(Names)
    BY <2>1, LenProperties
  <2>3. QED
    BY <2>1, <2>2 DEF DiagnosticRecords
<1>4. /\ DOMAIN a = 1 .. n
      /\ \A i \in 1 .. n : a[i] = [id |-> is[i], related |-> NotGiven, kind |-> "finding", size |-> 2]
  BY <1>1, <1>2 DEF staticFindings, Capped
<1>5. /\ DOMAIN b = 1 .. m
      /\ \A i \in 1 .. m : b[i] = [id |-> ds[i].id, related |-> ds[i].related, kind |-> "diagnostic", size |-> 2]
  BY <1>1, <1>3 DEF diagnosticFindings, Capped
<1>6. a \in Seq(FindingItems(Names)) /\ (\A x \in ToSet(a) : x.size = 2) /\ Ids(a) = ToSet(Capped(is))
  <2>1. \A i \in 1 .. n : a[i] \in FindingItems(Names) /\ a[i].size = 2 /\ a[i].id = is[i]
    BY <1>2, <1>4 DEF FindingItems
  <2>2. a \in [1 .. n -> FindingItems(Names)]
    BY <1>1, <1>2, <1>4, <2>1 DEF staticFindings, Capped
  <2>3. a \in Seq(FindingItems(Names))
    BY <2>2, SeqDef
  <2>4. \A x \in ToSet(a) : x.size = 2
    BY <1>4, <2>1 DEF ToSet
  <2>5. Ids(a) = ToSet(Capped(is))
    BY <1>2, <1>4, <2>1 DEF Ids, ToSet
  <2>6. QED
    BY <2>3, <2>4, <2>5
<1>7. b \in Seq(FindingItems(Names)) /\ (\A x \in ToSet(b) : x.size = 2) /\ Ids(b) = Ids(Capped(ds))
  <2>1. \A i \in 1 .. m : b[i] \in FindingItems(Names) /\ b[i].size = 2 /\ b[i].id = ds[i].id
    BY <1>3, <1>5 DEF FindingItems
  <2>2. b \in [1 .. m -> FindingItems(Names)]
    BY <1>1, <1>3, <1>5, <2>1 DEF diagnosticFindings, Capped
  <2>3. b \in Seq(FindingItems(Names))
    BY <2>2, SeqDef
  <2>4. \A x \in ToSet(b) : x.size = 2
    BY <1>5, <2>1 DEF ToSet
  <2>5. Ids(b) = Ids(Capped(ds))
    <3>1. \A i \in 1 .. m : b[i].id = Capped(ds)[i].id
      BY <1>3, <2>1
    <3>2. DOMAIN b = 1 .. m /\ DOMAIN Capped(ds) = 1 .. m
      BY <1>3, <1>5
    <3>3. QED
      BY <3>1, <3>2 DEF Ids
  <2>6. QED
    BY <2>3, <2>4, <2>5
<1>8. all \in Seq(FindingItems(Names)) /\ ToSet(all) = ToSet(a) \union ToSet(b)
  BY <1>1, <1>6, <1>7, ConcatenatedItems
<1>9. Ids(all) = Ids(a) \union Ids(b)
  BY <1>8, IdsOfItems
<1>10. QED
  BY <1>6, <1>7, <1>8, <1>9 DEF InFull

LEMMA TestsOfRecord ==
    ASSUME HardCap \in Nat, NEW Names, NEW ts \in Seq(TestRecords(Names)), NEW all, all = testContexts(ts)
    PROVE  /\ all \in Seq(TestItems(Names))
           /\ InFull(all)
           /\ Ids(all) = Ids(Capped(ts))
           /\ DOMAIN all = {i \in DOMAIN ts : i <= HardCap} /\ \A i \in DOMAIN all : all[i].id = ts[i].id
<1>1. PICK r \in Seq(TestRecords(Names)) :
          r = Capped(ts) /\ DOMAIN r = {i \in DOMAIN ts : i <= HardCap} /\ \A i \in DOMAIN r : r[i] = ts[i]
  BY ReadItems
<1>2. Len(r) \in Nat /\ DOMAIN r = 1 .. Len(r) /\ \A i \in DOMAIN r : r[i] \in TestRecords(Names)
  BY <1>1, LenProperties
<1>3. all = [i \in DOMAIN r |-> [id |-> ts[i].id, failing |-> ts[i].failing, size |-> 2]]
  BY <1>1 DEF testContexts, Capped
<1>4. \A i \in DOMAIN r : all[i] \in TestItems(Names) /\ all[i].size = 2 /\ all[i].id = ts[i].id
  BY <1>1, <1>2, <1>3 DEF TestRecords, TestItems
<1>5. all \in [1 .. Len(r) -> TestItems(Names)]
  BY <1>2, <1>3, <1>4
<1>6. all \in Seq(TestItems(Names)) /\ DOMAIN all = DOMAIN r
  BY <1>2, <1>5, SeqDef
<1>7. Ids(all) = Ids(Capped(ts))
  BY <1>1, <1>4, <1>6 DEF Ids
<1>8. InFull(all)
  BY <1>4, <1>6 DEF InFull, ToSet
<1>9. QED
  BY <1>1, <1>4, <1>6, <1>7, <1>8

-----------------------------------------------------------------------------
\* A context indexes what it holds, once the record is loaded, and an answer is
\* given from it.
ContextInv ==
    /\ options.feature # NotGiven => source.loaded
    /\ context # NoContext => options.feature # NotGiven
    /\ Built => context.evidenceIndex = buildEvidenceIndex(context)
    /\ answer.given => Built
    /\ AnswerIsGrounded

LEMMA ContextStart == ContextInit => ContextInv
BY DEF ContextInit, ContextInv, NoContext, NoAnswer, NotGiven, Built, AnswerIsGrounded

LEMMA BuildingKeeps ==
    ASSUME ContextInv, buildContext
    PROVE  ContextInv'
<1>1. PICK whole : /\ DOMAIN whole = Fields
                   /\ \/ context'.state \in {"AI_UNAUTHORIZED_CONTEXT", "AI_CONTEXT_TOO_LARGE"}
                      \/ context' = assemble(shapeForFeature(whole, options.feature, options.focus))
  BY DEF buildContext, Fields
<1>2. ~Built
  BY DEF buildContext, Built, NoContext, NotGiven
<1>3. options.feature # NotGiven /\ UNCHANGED <<source, options, answer>>
  BY DEF buildContext
<1>4. Built' => context'.evidenceIndex = buildEvidenceIndex(context')
  <2>1. SUFFICES ASSUME Built' PROVE context'.evidenceIndex = buildEvidenceIndex(context')
    OBVIOUS
  <2>2. PICK shaped : /\ DOMAIN shaped = Fields
                      /\ context' = assemble(shaped)
    BY <1>1, <2>1, ShapingKeepsFields DEF Built
  <2>3. QED
    BY <2>2, AssembledIsIndexed
<1>5. buildEvidenceIndex(context)' = buildEvidenceIndex(context')
  BY <1>3 DEF buildEvidenceIndex
<1>6. QED
  BY <1>2, <1>3, <1>4, <1>5 DEF ContextInv, AnswerIsGrounded

\* The kinds of what an answer may cite.
Kinds == {"finding", "diagnostic", "test"}

LEMMA CitedIsHeld ==
    ASSUME ContextInv, Built, NEW ref \in (Kinds \X Citations) \cap context.evidenceIndex
    PROVE  ref \in {<<context.findings[i].kind, context.findings[i].id>> : i \in DOMAIN context.findings}
                   \union {<<"test", context.tests[i].id>> : i \in DOMAIN context.tests}
<1>1. ref \in buildEvidenceIndex(context)
  BY DEF ContextInv
<1>2. ref[1] # "event" /\ ref[1] # "network"
  BY DEF Kinds
<1>3. ref \notin {<<"event", i>> : i \in (source.events - context.events + 1) .. source.events}
  BY <1>2
<1>4. ref \notin {<<"network", i>> : i \in (source.network - context.network + 1) .. source.network}
  BY <1>2
<1>5. QED
  BY <1>1, <1>3, <1>4 DEF buildEvidenceIndex

LEMMA AnsweringKeeps ==
    ASSUME MaxSuggested \in Nat, ContextInv, validateOutput
    PROVE  ContextInv'
<1>1. Built /\ UNCHANGED <<source, options, context>>
  BY DEF validateOutput, Built
<1>2. buildEvidenceIndex(context)' = buildEvidenceIndex(context)
  BY <1>1 DEF buildEvidenceIndex
<1> DEFINE held == {<<context.findings[i].kind, context.findings[i].id>> : i \in DOMAIN context.findings}
                   \union {<<"test", context.tests[i].id>> : i \in DOMAIN context.tests}
<1>3. /\ ToSet(answer'.evidence) \subseteq held
      /\ IsInjective(answer'.evidence) /\ IsInjective(answer'.tests)
      /\ Len(answer'.tests) <= MaxSuggested /\ answer'.rejected <= 2 * MaxSuggested
  <2>1. CASE \E candidates \in TupleOf(Candidates, 3) : answer' = validateTestSuggestions(candidates)
    <3>1. PICK candidates \in [1 .. 3 -> [id : {"x", "y"}, ok : BOOLEAN]] : answer' = validateTestSuggestions(candidates)
      BY <2>1 DEF TupleOf, Candidates
    <3>2. answer' \in OnlyShown({"x", "y"}) /\ answer'.rejected <= 2 * MaxSuggested
      BY <3>1, SuggestionsAreShown
    <3>3. /\ answer'.evidence = <<>> /\ answer'.tests \in Lists({"x", "y"})
          /\ Len(answer'.tests) <= MaxSuggested
      BY <3>2 DEF OnlyShown
    <3>4. ToSet(<<>>) = {} /\ IsInjective(<<>>)
      BY DEF ToSet, IsInjective
    <3>5. QED
      BY <3>2, <3>3, <3>4 DEF Lists
  <2>2. CASE \E kinds \in {<<"finding", "diagnostic">>, <<"test", "test">>}, ids \in TupleOf(Citations, 2) :
                 answer' = [NoAnswer EXCEPT !.given = TRUE,
                                            !.evidence = validateEvidence([i \in 1 .. 2 |-> <<kinds[i], ids[i]>>])]
    <3>1. PICK kinds \in {<<"finding", "diagnostic">>, <<"test", "test">>}, ids \in [1 .. 2 -> Citations] :
                 answer' = [NoAnswer EXCEPT !.given = TRUE,
                                            !.evidence = validateEvidence([i \in 1 .. 2 |-> <<kinds[i], ids[i]>>])]
      BY <2>2 DEF TupleOf
    <3>2. \A i \in 1 .. 2 : kinds[i] \in Kinds
      BY <3>1 DEF Kinds
    <3>3. PICK cited : cited = [i \in 1 .. 2 |-> <<kinds[i], ids[i]>>]
      OBVIOUS
    <3>4. cited \in [1 .. 2 -> Kinds \X Citations]
      BY <3>2, <3>3
    <3>5. PICK kept : kept = validateEvidence(cited)
      OBVIOUS
    <3>6. kept \in Lists((Kinds \X Citations) \cap context.evidenceIndex)
      BY <3>4, <3>5, EvidenceIsShown
    <3>7. /\ answer'.evidence = kept /\ answer'.tests = <<>> /\ answer'.rejected = 0
      BY <3>1, <3>3, <3>5 DEF NoAnswer
    <3>8. ToSet(kept) \subseteq (Kinds \X Citations) \cap context.evidenceIndex
      BY <3>6 DEF Lists, ToSet
    <3>9. ToSet(kept) \subseteq held
      <4> HIDE DEF held
      <4>1. QED
        BY <1>1, <3>8, CitedIsHeld DEF held
    <3>10. IsInjective(<<>>) /\ Len(<<>>) = 0
      BY DEF IsInjective
    <3>11. QED
      BY <3>6, <3>7, <3>9, <3>10 DEF Lists
  <2>3. QED
    BY <2>1, <2>2 DEF validateOutput
<1>4. AnswerIsGrounded'
  BY <1>1, <1>3 DEF AnswerIsGrounded
<1>5. Built'
  BY <1>1 DEF Built
<1>6. QED
  BY <1>1, <1>2, <1>4, <1>5 DEF ContextInv

LEMMA ContextStep == ContextInv /\ [ContextNext]_acVars => ContextInv'
<1>1. SUFFICES ASSUME ContextInv, [ContextNext]_acVars PROVE ContextInv'
  OBVIOUS
<1>2. CASE loadSource
  <2>1. options.feature = NotGiven /\ context = NoContext /\ UNCHANGED <<options, context, answer>>
    BY <1>1, <1>2 DEF loadSource, ContextInv
  <2>2. ~Built /\ ~Built'
    BY <2>1 DEF Built, NoContext, NotGiven
  <2>3. QED
    BY <1>1, <2>1, <2>2 DEF ContextInv, AnswerIsGrounded
<1>3. CASE ask
  <2>1. context = NoContext /\ source.loaded /\ UNCHANGED <<source, context, answer>>
    BY <1>1, <1>3 DEF ask, ContextInv
  <2>2. ~Built /\ ~Built'
    BY <2>1 DEF Built, NoContext, NotGiven
  <2>3. QED
    BY <1>1, <2>1, <2>2 DEF ContextInv, AnswerIsGrounded
<1>4. CASE buildContext
  BY <1>1, <1>4, BuildingKeeps
<1>5. CASE validateOutput
  BY <1>1, <1>5, AnsweringKeeps, ContextAssumption
<1>6. CASE UNCHANGED acVars
  <2>1. buildEvidenceIndex(context)' = buildEvidenceIndex(context)
    BY <1>6 DEF acVars, buildEvidenceIndex
  <2>2. QED
    BY <1>1, <1>6, <2>1 DEF acVars, ContextInv, AnswerIsGrounded, Built
<1>7. QED
  BY <1>1, <1>2, <1>3, <1>4, <1>5, <1>6 DEF ContextNext

\* The user is shown as evidence only what the provider was shown, once each,
\* and of the suggested tests no two with one id, whatever the provider answers
\* (lib/ai/schema.ts, lib/ai/test-suggestions.ts), for any records, caps and
\* budgets.
THEOREM AnswersAreGrounded == ContextSpec => []AnswerIsGrounded
<1>1. ContextInv => AnswerIsGrounded
  BY DEF ContextInv
<1>2. QED
  BY <1>1, ContextStart, ContextStep, PTL DEF ContextSpec

\* The record that is loaded is one of these.
SourceIsRecord ==
    source.loaded => source.issues \in Issues /\ source.diagnostics \in Diagnostics /\ source.tests \in TestLists

\* The tests of a context before it is shaped for a question about a finding:
\* the first ones of the record.
LEMMA FirstTests ==
    ASSUME NEW ts \in Seq(TestRecords(Named)),
           NEW tests, tests = prioritize(testContexts(ts), NotGiven)
    PROVE  tests \in Seq(TestItems(Named)) /\ Ids(FirstOf(ts, Cap)) \subseteq Ids(tests)
<1>1. /\ HardCap \in Nat /\ Cap \in Nat \ {0} /\ Cap \in Nat /\ Cap <= HardCap /\ NotGiven \notin Named
  BY ContextAssumption
<1>2. PICK all : all = testContexts(ts)
  OBVIOUS
<1>3. /\ all \in Seq(TestItems(Named)) /\ DOMAIN all = {i \in DOMAIN ts : i <= HardCap}
      /\ \A i \in DOMAIN all : all[i].id = ts[i].id
  <2>1. HardCap \in Nat /\ all = testContexts(ts)
    BY <1>1, <1>2
  <2>2. QED
    BY <2>1, TestsOfRecord
<1>4. DOMAIN ts = 1 .. Len(ts) /\ Len(ts) \in Nat
  BY LenProperties
<1>5. NotGiven \notin Ids(all)
  <2>1. \A i \in DOMAIN all : all[i] \in TestItems(Named)
    BY <1>3, LenProperties
  <2>2. QED
    BY <1>1, <2>1 DEF Ids, TestItems
<1>6. tests = FirstOf(all, Cap)
  <2>1. Cap \in Nat \ {0}
    BY <1>1
  <2>2. prioritize(all, NotGiven) = FirstOf(all, Cap)
    BY <1>3, <1>5, <2>1, PrioritizedItems
  <2>3. QED
    BY <1>2, <2>2
<1>7. tests \in Seq(TestItems(Named)) /\ DOMAIN tests = {i \in DOMAIN all : i <= Cap} /\ \A i \in DOMAIN tests : tests[i] = all[i]
  <2>1. Cap \in Nat
    BY <1>1
  <2>2. /\ FirstOf(all, Cap) \in Seq(TestItems(Named)) /\ DOMAIN FirstOf(all, Cap) = {i \in DOMAIN all : i <= Cap}
        /\ \A i \in DOMAIN FirstOf(all, Cap) : FirstOf(all, Cap)[i] = all[i]
    BY <1>3, <2>1, FirstOfItems
  <2>3. QED
    BY <1>6, <2>2
<1>8. PICK first : first = FirstOf(ts, Cap) /\ DOMAIN first = {i \in DOMAIN ts : i <= Cap} /\ \A i \in DOMAIN first : first[i] = ts[i]
  <2>1. Cap \in Nat
    BY <1>1
  <2>2. /\ DOMAIN FirstOf(ts, Cap) = {i \in DOMAIN ts : i <= Cap}
        /\ \A i \in DOMAIN FirstOf(ts, Cap) : FirstOf(ts, Cap)[i] = ts[i]
    BY <2>1, FirstOfItems
  <2>3. QED
    BY <2>2
<1>9. \A i \in DOMAIN first : i \in DOMAIN tests /\ tests[i].id = first[i].id
  BY <1>1, <1>3, <1>4, <1>7, <1>8
<1>10. Ids(first) \subseteq Ids(tests)
  BY <1>9 DEF Ids
<1>11. QED
  BY <1>7, <1>8, <1>10

\* A context built for a finding: of its record, or refused.
LEMMA FindingIsBuilt ==
    ASSUME SourceIsRecord, ContextInv, buildContext,
           options.feature = "explain_finding"
    PROVE  /\ context'.state = "AI_UNAUTHORIZED_CONTEXT" =>
                  options.focus \notin ToSet(Capped(source.issues)) \union Ids(Capped(source.diagnostics))
           /\ context'.state = "built" =>
                  /\ context'.findings[1].id = options.focus
                  /\ ~ context'.truncated => context'.findings[1].size = 2
                  /\ context'.findings[1].related \in Ids(FirstOf(source.tests, Cap)) =>
                         context'.findings[1].related \in Ids(context'.tests)
<1> DEFINE focus == options.focus
<1>1. /\ HardCap \in Nat /\ Cap \in Nat \ {0} /\ Few \in Nat \ {0} /\ Fewer \in Nat \ {0}
      /\ source.issues \in Seq(Named) /\ source.diagnostics \in Seq(DiagnosticRecords(Named))
      /\ source.tests \in Seq(TestRecords(Named))
  BY ContextAssumption DEF SourceIsRecord, ContextInv, NotGiven
<1>2. PICK all \in Seq(FindingItems(Named)) :
          /\ all = staticFindings(source.issues) \o diagnosticFindings(source.diagnostics)
          /\ InFull(all)
          /\ Ids(all) = ToSet(Capped(source.issues)) \union Ids(Capped(source.diagnostics))
  <2>1. PICK is \in Seq(Named), ds \in Seq(DiagnosticRecords(Named)) :
            is = source.issues /\ ds = source.diagnostics
    BY <1>1
  <2>2. PICK all : all = staticFindings(is) \o diagnosticFindings(ds)
    OBVIOUS
  <2>3. /\ all \in Seq(FindingItems(Named)) /\ InFull(all)
        /\ Ids(all) = ToSet(Capped(is)) \union Ids(Capped(ds))
    <3>1. HardCap \in Nat
      BY <1>1
    <3>2. QED
      BY <2>2, <3>1, FindingsOfRecord, ZenonT(40)
  <2>4. QED
    BY <2>1, <2>2, <2>3
<1>3. PICK findings \in Seq(FindingItems(Named)) :
          /\ findings = prioritize(all, focus) /\ ToSet(findings) \subseteq ToSet(all)
          /\ focus \in Ids(all) => focus \in Ids(findings)
  BY <1>1, PrioritizedItems
<1>4. PICK tests \in Seq(TestItems(Named)) :
          /\ tests = prioritize(testContexts(source.tests), NotGiven)
          /\ Ids(FirstOf(source.tests, Cap)) \subseteq Ids(tests)
  BY <1>1, FirstTests
<1>5. PICK whole : whole = [state |-> "built", findings |-> findings, tests |-> tests, events |-> source.events,
                            network |-> source.network, evidenceIndex |-> {}, truncated |-> FALSE]
  OBVIOUS
<1>6. PICK shaped : shaped = shapeForFeature(whole, "explain_finding", focus)
  OBVIOUS
<1>7. PICK built : built = assemble(shaped)
  OBVIOUS
<1>8. context' = IF focus \notin Ids(findings) THEN [state |-> "AI_UNAUTHORIZED_CONTEXT"]
                 ELSE IF measure(built) > options.maxBytes THEN [state |-> "AI_CONTEXT_TOO_LARGE"] ELSE built
  BY <1>2, <1>3, <1>4, <1>5, <1>6, <1>7 DEF buildContext
<1>9. CASE focus \notin Ids(findings)
  <2>1. context'.state = "AI_UNAUTHORIZED_CONTEXT"
    BY <1>8, <1>9
  <2>2. QED
    BY <1>2, <1>3, <1>9, <2>1
<1>10. CASE focus \in Ids(findings)
  <2>1. DOMAIN whole = Fields /\ whole.state = "built" /\ whole.findings = findings /\ whole.tests = tests
    BY <1>5 DEF Fields
  <2>2. PICK related : related = shaped.findings[1].related
    OBVIOUS
  <2>3. /\ shaped.state = "built" /\ shaped.findings[1] \in ToSet(findings)
        /\ FindingLeads(shaped, focus, related, Named)
        /\ related \in Ids(tests) => TestLeads(shaped, related, Named)
    <3>1. /\ Few \in Nat \ {0} /\ focus \in Ids(whole.findings)
          /\ whole.findings \in Seq(FindingItems(Named)) /\ whole.tests \in Seq(TestItems(Named))
      BY <1>1, <1>10, <2>1
    <3> HIDE DEF focus
    <3>2. /\ shaped.state = whole.state /\ shaped.findings[1] \in ToSet(whole.findings)
          /\ FindingLeads(shaped, focus, shaped.findings[1].related, Named)
          /\ shaped.findings[1].related \in Ids(whole.tests) => TestLeads(shaped, shaped.findings[1].related, Named)
      BY <1>6, <2>1, <3>1, FindingIsShaped
    <3>3. QED
      BY <2>1, <2>2, <3>2
  <2>4. DOMAIN shaped = Fields
    BY <1>6, <2>1, ShapingKeepsFields
  <2>5. /\ built.state = "built"
        /\ FindingLeads(built, focus, related, Named)
        /\ related \in Ids(tests) => TestLeads(built, related, Named)
        /\ built.findings = shaped.findings \/ Truncated(built)
    BY <1>1, <1>7, <2>3, <2>4, AssemblingKeepsLead
  <2>6. shaped.findings[1].size = 2
    BY <1>2, <1>3, <2>3 DEF InFull
  <2>7. context'.state # "AI_UNAUTHORIZED_CONTEXT" /\ (context'.state = "built" => context' = built)
    BY <1>8, <1>10, <2>5
  <2>8. built.findings[1].id = focus /\ built.findings[1].related = related
    BY <2>5 DEF FindingLeads
  <2>9. ~ built.truncated => built.findings[1].size = 2
    BY <2>5, <2>6 DEF Truncated
  <2>10. related \in Ids(tests) => related \in Ids(built.tests)
    <3>1. SUFFICES ASSUME TestLeads(built, related, Named) PROVE related \in Ids(built.tests)
      BY <2>5
    <3>2. 1 \in DOMAIN built.tests /\ built.tests[1].id = related
      BY <3>1, EmptyHasNoItems DEF TestLeads
    <3>3. QED
      BY <3>2 DEF Ids
  <2>11. QED
    BY <1>4, <2>7, <2>8, <2>9, <2>10
<1>11. QED
  BY <1>9, <1>10

\* The same of a context built for a test.
LEMMA TestIsBuilt ==
    ASSUME SourceIsRecord, ContextInv, buildContext,
           options.feature = "explain_test_failure"
    PROVE  /\ context'.state = "AI_UNAUTHORIZED_CONTEXT" => options.focus \notin Ids(Capped(source.tests))
           /\ context'.state = "built" =>
                  /\ context'.tests[1].id = options.focus
                  /\ ~ context'.truncated => context'.tests[1].size = 2
<1> DEFINE focus == options.focus
<1>1. /\ HardCap \in Nat /\ Cap \in Nat /\ Cap \in Nat \ {0} /\ Few \in Nat \ {0} /\ Fewer \in Nat \ {0}
      /\ source.tests \in Seq(TestRecords(Named))
  BY ContextAssumption DEF SourceIsRecord, ContextInv, NotGiven
<1>2. PICK all \in Seq(TestItems(Named)) :
          /\ all = testContexts(source.tests)
          /\ InFull(all)
          /\ Ids(all) = Ids(Capped(source.tests))
  BY <1>1, TestsOfRecord
<1>3. PICK tests \in Seq(TestItems(Named)) :
          /\ tests = prioritize(all, focus) /\ ToSet(tests) \subseteq ToSet(all)
          /\ focus \in Ids(all) => focus \in Ids(tests)
  BY <1>1, PrioritizedItems
<1>4. PICK findings : findings = prioritize(staticFindings(source.issues) \o diagnosticFindings(source.diagnostics), NotGiven)
  OBVIOUS
<1>5. PICK whole : whole = [state |-> "built", findings |-> findings, tests |-> tests, events |-> source.events,
                            network |-> source.network, evidenceIndex |-> {}, truncated |-> FALSE]
  OBVIOUS
<1>6. PICK shaped : shaped = shapeForFeature(whole, "explain_test_failure", focus)
  OBVIOUS
<1>7. PICK built : built = assemble(shaped)
  OBVIOUS
<1>8. context' = IF focus \notin Ids(tests) THEN [state |-> "AI_UNAUTHORIZED_CONTEXT"]
                 ELSE IF measure(built) > options.maxBytes THEN [state |-> "AI_CONTEXT_TOO_LARGE"] ELSE built
  BY <1>2, <1>3, <1>4, <1>5, <1>6, <1>7 DEF buildContext
<1>9. CASE focus \notin Ids(tests)
  <2>1. context'.state = "AI_UNAUTHORIZED_CONTEXT"
    BY <1>8, <1>9
  <2>2. QED
    BY <1>2, <1>3, <1>9, <2>1
<1>10. CASE focus \in Ids(tests)
  <2>1. DOMAIN whole = Fields /\ whole.state = "built" /\ whole.tests = tests
    BY <1>5 DEF Fields
  <2>2. /\ shaped.state = "built" /\ shaped.tests[1] \in ToSet(tests) /\ TestLeads(shaped, focus, Named)
    BY <1>1, <1>6, <1>10, <2>1, TestIsShaped
  <2>3. DOMAIN shaped = Fields
    BY <1>6, <2>1, ShapingKeepsFields
  <2>4. /\ built.state = "built" /\ TestLeads(built, focus, Named)
        /\ built.tests = shaped.tests \/ Truncated(built)
    BY <1>1, <1>7, <2>2, <2>3, AssemblingKeepsLead
  <2>5. shaped.tests[1].size = 2
    BY <1>2, <1>3, <2>2 DEF InFull
  <2>6. context'.state # "AI_UNAUTHORIZED_CONTEXT" /\ (context'.state = "built" => context' = built)
    BY <1>8, <1>10, <2>4
  <2>7. built.tests[1].id = focus
    BY <2>4 DEF TestLeads
  <2>8. ~ built.truncated => built.tests[1].size = 2
    BY <2>4, <2>5 DEF Truncated
  <2>9. QED
    BY <2>6, <2>7, <2>8
<1>11. QED
  BY <1>9, <1>10

\* What a request relies on: the record it reads, and what it asks about shown
\* of it.
InterpretationInv == ContextInv /\ SourceIsRecord /\ FocusIsShown

LEMMA InterpretationStart == ContextInit => InterpretationInv
BY ContextStart DEF ContextInit, InterpretationInv, SourceIsRecord, FocusIsShown, NotGiven

LEMMA InterpretationStep == InterpretationInv /\ [ContextNext]_acVars => InterpretationInv'
<1>1. SUFFICES ASSUME InterpretationInv, [ContextNext]_acVars PROVE SourceIsRecord' /\ FocusIsShown'
  BY ContextStep DEF InterpretationInv
<1>2. CASE loadSource
  <2>1. options'.feature = NotGiven
    BY <1>1, <1>2 DEF loadSource, InterpretationInv, ContextInv
  <2>2. SourceIsRecord'
    BY <1>2 DEF loadSource, SourceIsRecord
  <2>3. QED
    BY <2>1, <2>2 DEF FocusIsShown, NotGiven
<1>3. CASE ask
  <2>1. context' = NoContext /\ source' = source
    BY <1>1, <1>3 DEF ask, InterpretationInv, ContextInv
  <2>2. context'.state = "none"
    BY <2>1 DEF NoContext, NotGiven
  <2>3. QED
    BY <1>1, <2>1, <2>2 DEF InterpretationInv, SourceIsRecord, FocusIsShown, Built
<1>4. CASE buildContext
  <2>1. UNCHANGED <<source, options>>
    BY <1>4 DEF buildContext
  <2>2. SourceIsRecord /\ ContextInv
    BY <1>1 DEF InterpretationInv
  <2>3. SourceIsRecord'
    BY <2>1, <2>2 DEF SourceIsRecord
  <2>4. options.feature = "explain_finding" \/ options.feature = "explain_test_failure" => FocusIsShown'
    <3>1. CASE options.feature = "explain_finding"
      BY <1>4, <2>1, <2>2, <3>1, FindingIsBuilt DEF FocusIsShown, Built
    <3>2. CASE options.feature = "explain_test_failure"
      BY <1>4, <2>1, <2>2, <3>2, TestIsBuilt DEF FocusIsShown, Built
    <3>3. QED
      BY <3>1, <3>2
  <2>5. QED
    BY <2>1, <2>3, <2>4 DEF FocusIsShown
<1>5. CASE validateOutput
  <2>1. UNCHANGED <<source, options, context>>
    BY <1>5 DEF validateOutput
  <2>2. QED
    BY <1>1, <2>1 DEF InterpretationInv, SourceIsRecord, FocusIsShown, Built
<1>6. CASE UNCHANGED acVars
  BY <1>1, <1>6 DEF acVars, InterpretationInv, SourceIsRecord, FocusIsShown, Built
<1>7. QED
  BY <1>1, <1>2, <1>3, <1>4, <1>5, <1>6 DEF ContextNext

\* What is asked about is refused only when it is not among what is read of the
\* record, and whatever is trimmed to make the context fit, it is shown; and the
\* answer shows only what was shown (lib/ai/context.ts, prompts.ts, schema.ts),
\* for any records, caps, budgets and answers.
THEOREM InterpretationsHold == ContextSpec => []InterpretationHolds
<1>1. InterpretationInv => InterpretationHolds
  BY DEF InterpretationInv, ContextInv, InterpretationHolds
<1>2. InterpretationInv /\ [ContextNext]_acVars => InterpretationInv'
  BY InterpretationStep
<1>3. QED
  BY <1>1, <1>2, InterpretationStart, PTL DEF ContextSpec

-----------------------------------------------------------------------------
(* What sums over finite sets add up to.                                   *)

\* Of a function that is summed one element at a time, any element may be the
\* first.
LEMMA SumsByAnyElement ==
    ASSUME NEW S, IsFiniteSet(S), NEW F \in [S -> Nat], NEW g, Sums(g, F, S)
    PROVE  /\ g[{}] = 0
           /\ \A s \in SUBSET S, x \in S : x \in s => g[s] = F[x] + g[s \ {x}]
<1> DEFINE P == {s \in SUBSET S : \A x \in s : g[s] = F[x] + g[s \ {x}]}
<1>1. g[{}] = 0 /\ {} \in P
  BY DEF Sums
<1>2. \A s \in SUBSET S : g[s] \in Nat
  BY SumsAreNatural
<1>3. \A s \in SUBSET S : s # {} => Pick(s) \in s /\ g[s] = F[Pick(s)] + g[s \ {Pick(s)}]
  BY PickIsOfSet DEF Sums
<1>4. \A s \in SUBSET S : s # {} /\ (\A x \in s : s \ {x} \in P) => s \in P
  <2>1. TAKE s \in SUBSET S
  <2>2. HAVE s # {} /\ \A x \in s : s \ {x} \in P
  <2>3. PICK p \in s : g[s] = F[p] + g[s \ {p}]
    BY <1>3, <2>2
  <2>4. ASSUME NEW x \in s PROVE g[s] = F[x] + g[s \ {x}]
    <3>1. CASE x = p
      BY <2>3, <3>1
    <3>2. CASE x # p
      <4>1. g[s \ {p}] = F[x] + g[(s \ {p}) \ {x}]
        <5>1. x \in s \ {p} /\ s \ {p} \in P
          BY <2>2, <3>2
        <5>2. QED
          BY <5>1
      <4>2. g[s \ {x}] = F[p] + g[(s \ {x}) \ {p}]
        <5>1. p \in s \ {x} /\ s \ {x} \in P
          BY <2>2, <3>2
        <5>2. QED
          BY <5>1
      <4>3. (s \ {p}) \ {x} = (s \ {x}) \ {p} /\ (s \ {p}) \ {x} \in SUBSET S
        OBVIOUS
      <4>4. PICK a \in Nat, b \in Nat, c \in Nat : a = F[x] /\ b = F[p] /\ c = g[(s \ {p}) \ {x}]
        BY <1>2, <4>3
      <4>5. g[s \ {p}] = a + c /\ g[s \ {x}] = b + c
        BY <4>1, <4>2, <4>3, <4>4
      <4>6. g[s] = b + (a + c)
        BY <2>3, <4>4, <4>5
      <4>7. QED
        BY <4>4, <4>5, <4>6
    <3>3. QED
      BY <3>1, <3>2
  <2>5. QED
    BY <2>4
<1> HIDE DEF P
<1>5. SUBSET S \subseteq P
  BY <1>1, <1>4, SubsetsByRemoval
<1>6. QED
  BY <1>1, <1>5 DEF P

\* Two such functions are one.
LEMMA SumsAreOne ==
    ASSUME NEW S, IsFiniteSet(S), NEW F \in [S -> Nat], NEW g, Sums(g, F, S),
           NEW T, T \subseteq S, NEW E \in [T -> Nat], \A x \in T : E[x] = F[x], NEW h, Sums(h, E, T)
    PROVE  \A s \in SUBSET T : h[s] = g[s]
<1> DEFINE P == {s \in SUBSET T : h[s] = g[s]}
<1>1. IsFiniteSet(T)
  BY FS_Subset
<1>2. /\ g[{}] = 0
      /\ \A s \in SUBSET S, x \in S : x \in s => g[s] = F[x] + g[s \ {x}]
  BY SumsByAnyElement
<1>3. h[{}] = 0
  BY <1>1, SumsByAnyElement
<1>4. \A s \in SUBSET T, x \in T : x \in s => h[s] = E[x] + h[s \ {x}]
  BY <1>1, SumsByAnyElement
<1>5. \A s \in SUBSET T : s # {} /\ (\A x \in s : s \ {x} \in P) => s \in P
  <2>1. TAKE s \in SUBSET T
  <2>2. HAVE s # {} /\ \A x \in s : s \ {x} \in P
  <2>3. PICK x \in s : TRUE
    BY <2>2
  <2>4. h[s \ {x}] = g[s \ {x}]
    BY <2>2
  <2>5. g[s] = F[x] + g[s \ {x}] /\ h[s] = E[x] + h[s \ {x}]
    BY <1>2, <1>4
  <2>6. QED
    BY <2>4, <2>5
<1>6. {} \in P
  BY <1>2, <1>3
<1> HIDE DEF P
<1>7. SUBSET T \subseteq P
  BY <1>1, <1>5, <1>6, SubsetsByRemoval
<1>8. QED
  BY <1>7 DEF P

\* What SumFunctionOnSet yields for a set of indices and its subsets is one
\* function that is summed one element at a time.
LEMMA SummedOnSet ==
    ASSUME NEW S, IsFiniteSet(S), NEW f, \A x \in S : f[x] \in Nat
    PROVE  /\ SumFunctionOnSet(f, S) \in Nat
           /\ \E g : Sums(g, [x \in S |-> f[x]], S) /\ g[S] = SumFunctionOnSet(f, S)
<1> DEFINE F == [x \in S |-> f[x]]
           Iter(g) == g = [s \in SUBSET S |-> IF s = {} THEN 0 ELSE f[Pick(s)] + g[s \ {Pick(s)}]]
<1>1. F \in [S -> Nat]
  OBVIOUS
<1>2. \A g : Iter(g) <=> Sums(g, F, S)
  <2>1. \A s \in SUBSET S : s # {} => F[Pick(s)] = f[Pick(s)]
    BY PickIsOfSet
  <2>2. TAKE g
  <2>3. [s \in SUBSET S |-> IF s = {} THEN 0 ELSE f[Pick(s)] + g[s \ {Pick(s)}]]
            = [s \in SUBSET S |-> IF s = {} THEN 0 ELSE F[Pick(s)] + g[s \ {Pick(s)}]]
    BY <2>1
  <2>4. QED
    BY <2>3 DEF Sums
<1> HIDE DEF F
<1>3. Iter(CHOOSE g : Iter(g))
  <2>1. \E g : Iter(g)
    BY <1>1, <1>2, SumsExist
  <2> HIDE DEF Iter
  <2>2. QED
    BY <2>1
<1>4. SumFunctionOnSet(f, S) = (CHOOSE g : Iter(g))[S]
  BY DEF SumFunctionOnSet, FoldFunctionOnSet, MapThenFoldSet, Pick
<1>5. PICK g : g = (CHOOSE h : Iter(h))
  OBVIOUS
<1>6. Sums(g, F, S) /\ g[S] = SumFunctionOnSet(f, S)
  BY <1>2, <1>3, <1>4, <1>5
<1>7. g[S] \in Nat
  BY <1>1, <1>6, SumsAreNatural
<1>8. QED
  BY <1>6, <1>7 DEF F

\* One function sums every subset.
LEMMA SummedOnSubsets ==
    ASSUME NEW S, IsFiniteSet(S), NEW f, \A x \in S : f[x] \in Nat
    PROVE  \E g : Sums(g, [x \in S |-> f[x]], S) /\ \A T \in SUBSET S : g[T] = SumFunctionOnSet(f, T)
<1>1. PICK F : F = [x \in S |-> f[x]]
  OBVIOUS
<1>2. F \in [S -> Nat] /\ \A x \in S : F[x] = f[x]
  BY <1>1
<1>3. PICK g : Sums(g, F, S)
  BY <1>2, SumsExist
<1>4. ASSUME NEW T \in SUBSET S PROVE g[T] = SumFunctionOnSet(f, T)
  <2>1. IsFiniteSet(T) /\ \A x \in T : f[x] \in Nat
    BY FS_Subset
  <2>2. PICK E : E = [x \in T |-> f[x]]
    OBVIOUS
  <2>3. E \in [T -> Nat] /\ \A x \in T : E[x] = F[x]
    BY <1>2, <2>1, <2>2
  <2>4. PICK h : Sums(h, E, T) /\ h[T] = SumFunctionOnSet(f, T)
    BY <2>1, <2>2, SummedOnSet
  <2>5. \A s \in SUBSET T : h[s] = g[s]
    BY <1>3, <1>2, <2>4, <2>3, SumsAreOne
  <2>6. QED
    BY <2>4, <2>5
<1>5. QED
  BY <1>1, <1>3, <1>4

LEMMA SumOfNothing == \A f : SumFunctionOnSet(f, {}) = 0
<1>1. TAKE f
<1>2. IsFiniteSet({})
  BY FS_EmptySet
<1>3. PICK g : Sums(g, [x \in {} |-> f[x]], {}) /\ g[{}] = SumFunctionOnSet(f, {})
  BY <1>2, SummedOnSet
<1>4. QED
  BY <1>3 DEF Sums

LEMMA SumOfElement ==
    ASSUME NEW S, IsFiniteSet(S), NEW f, \A x \in S : f[x] \in Nat, NEW T, T \subseteq S, NEW x \in T
    PROVE  SumFunctionOnSet(f, T) = f[x] + SumFunctionOnSet(f, T \ {x})
<1>1. PICK F : F = [y \in S |-> f[y]]
  OBVIOUS
<1>2. F \in [S -> Nat] /\ F[x] = f[x]
  BY <1>1
<1>3. PICK g : Sums(g, F, S) /\ \A U \in SUBSET S : g[U] = SumFunctionOnSet(f, U)
  BY <1>1, SummedOnSubsets
<1>4. \A s \in SUBSET S, y \in S : y \in s => g[s] = F[y] + g[s \ {y}]
  BY <1>2, <1>3, SumsByAnyElement
<1>5. g[T] = F[x] + g[T \ {x}]
  BY <1>4
<1>6. QED
  BY <1>2, <1>3, <1>5

LEMMA SumIsNatural ==
    ASSUME NEW S, IsFiniteSet(S), NEW f, \A x \in S : f[x] \in Nat, NEW T, T \subseteq S
    PROVE  SumFunctionOnSet(f, T) \in Nat
<1>1. IsFiniteSet(T) /\ \A x \in T : f[x] \in Nat
  BY FS_Subset
<1>2. QED
  BY <1>1, SummedOnSet

LEMMA SumsAgree ==
    ASSUME NEW S, IsFiniteSet(S), NEW f, \A x \in S : f[x] \in Nat, NEW e, \A x \in S : e[x] = f[x]
    PROVE  SumFunctionOnSet(e, S) = SumFunctionOnSet(f, S)
<1>1. PICK F, E : F = [x \in S |-> f[x]] /\ E = [x \in S |-> e[x]]
  OBVIOUS
<1>2. F \in [S -> Nat] /\ E = F /\ \A x \in S : e[x] \in Nat
  BY <1>1
<1>3. PICK g : Sums(g, F, S) /\ g[S] = SumFunctionOnSet(f, S)
  BY <1>1, SummedOnSet
<1>4. PICK h : Sums(h, E, S) /\ h[S] = SumFunctionOnSet(e, S)
  BY <1>1, <1>2, SummedOnSet
<1>5. \A s \in SUBSET S : h[s] = g[s]
  BY <1>2, <1>3, <1>4, SumsAreOne
<1>6. QED
  BY <1>3, <1>4, <1>5

LEMMA SumOfUnion ==
    ASSUME NEW S, IsFiniteSet(S), NEW f, \A x \in S : f[x] \in Nat,
           NEW A, A \subseteq S, NEW B, B \subseteq S, A \cap B = {}
    PROVE  SumFunctionOnSet(f, A \union B) = SumFunctionOnSet(f, A) + SumFunctionOnSet(f, B)
<1> DEFINE P == {s \in SUBSET B : SumFunctionOnSet(f, A \union s) = SumFunctionOnSet(f, A) + SumFunctionOnSet(f, s)}
<1>1. IsFiniteSet(B)
  BY FS_Subset
<1>2. {} \in P
  <2>1. A \union {} = A /\ SumFunctionOnSet(f, A) \in Nat
    BY SumIsNatural
  <2>2. QED
    BY <2>1, SumOfNothing
<1>3. \A s \in SUBSET B : s # {} /\ (\A x \in s : s \ {x} \in P) => s \in P
  <2>1. TAKE s \in SUBSET B
  <2>2. HAVE s # {} /\ \A x \in s : s \ {x} \in P
  <2>3. PICK x \in s : s \ {x} \in P
    BY <2>2
  <2>4. /\ s \subseteq S /\ A \union s \subseteq S /\ s \ {x} \subseteq S /\ x \in A \union s
        /\ (A \union s) \ {x} = A \union (s \ {x})
    OBVIOUS
  <2>5. SumFunctionOnSet(f, A \union s) = f[x] + SumFunctionOnSet(f, A \union (s \ {x}))
    BY <2>4, SumOfElement
  <2>6. SumFunctionOnSet(f, s) = f[x] + SumFunctionOnSet(f, s \ {x})
    BY <2>4, SumOfElement
  <2>7. SumFunctionOnSet(f, A \union (s \ {x})) = SumFunctionOnSet(f, A) + SumFunctionOnSet(f, s \ {x})
    BY <2>3
  <2>8. f[x] \in Nat /\ SumFunctionOnSet(f, A) \in Nat /\ SumFunctionOnSet(f, s \ {x}) \in Nat
    BY <2>4, SumIsNatural
  <2>9. QED
    BY <2>5, <2>6, <2>7, <2>8
<1> HIDE DEF P
<1>4. SUBSET B \subseteq P
  BY <1>1, <1>2, <1>3, SubsetsByRemoval
<1>5. QED
  BY <1>4 DEF P

\* The parts of a set, of which no two share anything, have together what the
\* set has.
LEMMA SumOfParts ==
    ASSUME NEW S, IsFiniteSet(S), NEW f, \A x \in S : f[x] \in Nat,
           NEW K, IsFiniteSet(K), NEW part, \A k \in K : part[k] \subseteq S,
           \A j, k \in K : j # k => part[j] \cap part[k] = {},
           NEW t, \A k \in K : t[k] = SumFunctionOnSet(f, part[k])
    PROVE  SumFunctionOnSet(t, K) = SumFunctionOnSet(f, UNION {part[k] : k \in K})
<1> DEFINE All(q) == UNION {part[k] : k \in q}
           P == {q \in SUBSET K : SumFunctionOnSet(t, q) = SumFunctionOnSet(f, All(q))}
<1>1. \A k \in K : t[k] \in Nat
  BY SumIsNatural
<1>2. {} \in P
  BY SumOfNothing
<1>3. \A q \in SUBSET K : q # {} /\ (\A k \in q : q \ {k} \in P) => q \in P
  <2>1. TAKE q \in SUBSET K
  <2>2. HAVE q # {} /\ \A k \in q : q \ {k} \in P
  <2>3. PICK k \in q : q \ {k} \in P
    BY <2>2
  <2>4. PICK rest : rest = All(q \ {k})
    OBVIOUS
  <2>5. rest \subseteq S /\ part[k] \subseteq S /\ rest \cap part[k] = {} /\ All(q) = rest \union part[k]
    BY <2>4
  <2>6. SumFunctionOnSet(t, q) = t[k] + SumFunctionOnSet(t, q \ {k})
    BY <1>1, SumOfElement
  <2>7. SumFunctionOnSet(f, rest \union part[k]) = SumFunctionOnSet(f, rest) + SumFunctionOnSet(f, part[k])
    BY <2>5, SumOfUnion
  <2>8. SumFunctionOnSet(t, q \ {k}) = SumFunctionOnSet(f, rest)
    BY <2>3, <2>4
  <2>9. SumFunctionOnSet(f, rest) \in Nat /\ SumFunctionOnSet(f, part[k]) \in Nat /\ t[k] = SumFunctionOnSet(f, part[k])
    BY <2>5, SumIsNatural
  <2>10. SumFunctionOnSet(t, q) = SumFunctionOnSet(f, rest \union part[k])
    BY <2>6, <2>7, <2>8, <2>9
  <2> HIDE DEF All
  <2>11. QED
    BY <2>5, <2>10
<1> HIDE DEF P, All
<1>4. SUBSET K \subseteq P
  BY <1>2, <1>3, SubsetsByRemoval
<1>5. K \in P
  BY <1>4
<1>6. QED
  BY <1>5 DEF P, All

LEMMA ImageIsFinite ==
    ASSUME NEW S, IsFiniteSet(S), NEW f
    PROVE  IsFiniteSet({f[x] : x \in S})
<1> DEFINE Image(s) == {f[x] : x \in s}
           P == {s \in SUBSET S : IsFiniteSet(Image(s))}
<1>1. {} \in P
  BY FS_EmptySet
<1>2. \A s \in SUBSET S : s # {} /\ (\A x \in s : s \ {x} \in P) => s \in P
  <2>1. TAKE s \in SUBSET S
  <2>2. HAVE s # {} /\ \A x \in s : s \ {x} \in P
  <2>3. PICK x \in s : IsFiniteSet(Image(s \ {x}))
    BY <2>2
  <2>4. Image(s) = Image(s \ {x}) \union {f[x]}
    OBVIOUS
  <2> HIDE DEF Image
  <2>5. PICK T : T = Image(s \ {x}) /\ IsFiniteSet(T)
    BY <2>3
  <2>6. IsFiniteSet(T \union {f[x]})
    BY <2>5, FS_AddElement
  <2>7. IsFiniteSet(Image(s))
    BY <2>4, <2>5, <2>6
  <2>8. QED
    BY <2>7
<1> HIDE DEF P
<1>3. SUBSET S \subseteq P
  BY <1>1, <1>2, SubsetsByRemoval
<1>4. QED
  BY <1>3 DEF P

LEMMA MaxOfFinite ==
    ASSUME NEW S, IsFiniteSet(S), S \subseteq Nat, S # {}
    PROVE  Max(S) \in S /\ \A y \in S : y <= Max(S)
<1> DEFINE P == {s \in SUBSET S : s # {} => \E x \in s : \A y \in s : y <= x}
<1>1. {} \in P
  OBVIOUS
<1>2. \A s \in SUBSET S : s # {} /\ (\A x \in s : s \ {x} \in P) => s \in P
  <2>1. TAKE s \in SUBSET S
  <2>2. HAVE s # {} /\ \A x \in s : s \ {x} \in P
  <2>3. PICK x \in s : s \ {x} \in P
    BY <2>2
  <2>4. CASE s \ {x} = {}
    <3>1. \A y \in s : y <= x
      BY <2>4
    <3>2. QED
      BY <3>1
  <2>5. CASE s \ {x} # {}
    <3>1. PICK z \in s \ {x} : \A y \in s \ {x} : y <= z
      BY <2>3, <2>5
    <3>2. x \in Nat /\ \A y \in s : y \in Nat
      OBVIOUS
    <3>3. (\A y \in s : y <= x) \/ (\A y \in s : y <= z)
      BY <3>1, <3>2
    <3>4. QED
      BY <3>1, <3>3
  <2>6. QED
    BY <2>4, <2>5
<1> HIDE DEF P
<1>3. SUBSET S \subseteq P
  BY <1>1, <1>2, SubsetsByRemoval
<1>4. \E x \in S : \A y \in S : x >= y
  BY <1>3 DEF P
<1>5. QED
  BY <1>4 DEF Max

-----------------------------------------------------------------------------
(* The tree of a package.                                                  *)

\* f is above p in a tree.
Above(f, p) == Len(f) < Len(p) /\ \A k \in 1 .. Len(f) : f[k] = p[k]

LEMMA BeginningOfPath ==
    ASSUME NEW Names, NEW p \in Seq(Names), NEW n \in Nat, n < Len(p)
    PROVE  /\ SubSeq(p, 1, n) \in Seq(Names) /\ Len(SubSeq(p, 1, n)) = n
           /\ \A k \in 1 .. n : SubSeq(p, 1, n)[k] = p[k]
<1>1. Len(p) \in Nat /\ \A i \in 1 .. n : p[i] \in Names
  BY LenProperties
<1>2. /\ SubSeq(p, 1, n) \in Seq(Names)
      /\ Len(SubSeq(p, 1, n)) = IF 1 <= n THEN n - 1 + 1 ELSE 0
      /\ \A i \in 1 .. n - 1 + 1 : SubSeq(p, 1, n)[i] = p[1 + i - 1]
  BY <1>1, SubSeqProperties
<1>3. QED
  BY <1>2

\* The beginnings of a path, but for itself, are what is above it.
LEMMA AncestorsAreAbove ==
    ASSUME NEW Names, NEW p \in Seq(Names), p # NoPath, NEW f \in Seq(Names)
    PROVE  f \in Ancestors(p) \union {NoPath} <=> Above(f, p)
<1>1. Len(p) \in Nat \ {0} /\ Len(f) \in Nat
  BY LenProperties, EmptySeq DEF NoPath
<1>2. ASSUME f \in Ancestors(p) PROVE Above(f, p)
  <2>1. PICK n \in 1 .. Len(p) - 1 : f = SubSeq(p, 1, n)
    BY <1>2 DEF Ancestors
  <2>2. n \in Nat /\ n < Len(p)
    BY <1>1
  <2>3. QED
    BY <2>1, <2>2, BeginningOfPath DEF Above
<1>3. ASSUME f = NoPath PROVE Above(f, p)
  BY <1>1, <1>3, EmptySeq DEF Above, NoPath
<1>4. ASSUME Above(f, p), f # NoPath PROVE f \in Ancestors(p)
  <2>1. PICK n \in Nat : n = Len(f) /\ n < Len(p) /\ n # 0
    BY <1>1, <1>4, EmptySeq DEF Above, NoPath
  <2>2. PICK q : q = SubSeq(p, 1, n)
    OBVIOUS
  <2>3. q \in Seq(Names) /\ Len(q) = n /\ \A k \in 1 .. n : q[k] = p[k]
    BY <2>1, <2>2, BeginningOfPath
  <2>4. \A k \in 1 .. Len(f) : f[k] = q[k]
    BY <1>4, <2>1, <2>3 DEF Above
  <2>5. f = q
    BY <2>1, <2>4, <2>3, SeqEqual
  <2>6. n \in 1 .. Len(p) - 1
    BY <1>1, <2>1
  <2>7. QED
    BY <2>2, <2>5, <2>6 DEF Ancestors
<1>5. QED
  BY <1>2, <1>3, <1>4

LEMMA ChildIsBelow ==
    ASSUME NEW Names, NEW p \in Seq(Names), NEW f \in Seq(Names)
    PROVE  Child(p, f) <=> Len(p) = Len(f) + 1 /\ Above(f, p)
<1>1. Len(p) \in Nat /\ Len(f) \in Nat
  BY LenProperties
<1>2. SUFFICES ASSUME Len(p) = Len(f) + 1 PROVE SubSeq(p, 1, Len(f)) = f <=> Above(f, p)
  BY <1>1 DEF Child, Above
<1>3. PICK n \in Nat : n = Len(f) /\ n < Len(p)
  BY <1>1, <1>2
<1>4. PICK q : n = Len(f) /\ n < Len(p) /\ q = SubSeq(p, 1, n)
  BY <1>3
<1>5. q \in Seq(Names) /\ Len(q) = n /\ \A k \in 1 .. n : q[k] = p[k]
  BY <1>4, BeginningOfPath
<1>6. Above(f, p) => f = q
  <2>1. SUFFICES ASSUME Above(f, p) PROVE f = q
    OBVIOUS
  <2>2. Len(f) = Len(q) /\ \A k \in 1 .. Len(f) : f[k] = q[k]
    BY <1>4, <1>5, <2>1 DEF Above
  <2>3. QED
    BY <1>5, <2>2, SeqEqual
<1>7. f = q => Above(f, p)
  BY <1>1, <1>2, <1>4, <1>5 DEF Above
<1>8. QED
  BY <1>4, <1>6, <1>7

\* Entries as they are read: every one of them has a path.
Listed(es, Names) ==
    /\ IsFiniteSet(DOMAIN es) /\ DOMAIN es \subseteq Nat
    /\ \A i \in DOMAIN es : es[i].path \in Seq(Names) /\ es[i].path # NoPath /\ es[i].size \in Nat

AllFolders(es) == folders(es) \union {NoPath}
Deepest(es)    == Max({Len(f) : f \in AllFolders(es)})
Inside(es, f)  == {g \in AllFolders(es) : Child(g, f)}
Directly(es, f) == {i \in fileIndices(es) : Child(es[i].path, f)}
Below(es, f)   == {i \in fileIndices(es) : Above(f, es[i].path)}

LEMMA FoldersOfEntries ==
    ASSUME NEW Names, NEW es, Listed(es, Names)
    PROVE  /\ IsFiniteSet(AllFolders(es)) /\ AllFolders(es) \subseteq Seq(Names)
           /\ Deepest(es) \in Nat /\ \A f \in AllFolders(es) : Len(f) \in Nat /\ Len(f) <= Deepest(es)
           /\ \A i \in DOMAIN es, g \in Seq(Names) : Above(g, es[i].path) => g \in AllFolders(es)
<1>1. IsFiniteSet(DOMAIN es) /\ NoPath \in Seq(Names)
  BY EmptySeq DEF Listed, NoPath
<1>2. \A i \in DOMAIN es : IsFiniteSet(Ancestors(es[i].path)) /\ Ancestors(es[i].path) \subseteq Seq(Names)
  <2>1. TAKE i \in DOMAIN es
  <2>2. PICK p \in Seq(Names) : p = es[i].path /\ Len(p) \in Nat
    BY LenProperties DEF Listed
  <2>3. PICK b : b = [n \in 1 .. Len(p) - 1 |-> SubSeq(p, 1, n)]
    OBVIOUS
  <2>4. Ancestors(p) = {b[n] : n \in 1 .. Len(p) - 1}
    BY <2>3 DEF Ancestors
  <2>5. IsFiniteSet(1 .. Len(p) - 1)
    BY <2>2, FS_Interval
  <2>6. IsFiniteSet({b[n] : n \in 1 .. Len(p) - 1})
    BY <2>5, ImageIsFinite
  <2>7. \A n \in 1 .. Len(p) - 1 : b[n] \in Seq(Names)
    <3>1. TAKE n \in 1 .. Len(p) - 1
    <3>2. n \in Nat /\ n < Len(p)
      BY <2>2
    <3>3. SubSeq(p, 1, n) \in Seq(Names)
      BY <3>2, BeginningOfPath
    <3>4. QED
      BY <2>3, <3>3
  <2>8. QED
    BY <2>2, <2>4, <2>6, <2>7
<1>3. PICK named : named = {es[i].path : i \in DOMAIN es \ fileIndices(es)}
  OBVIOUS
<1>4. IsFiniteSet(named) /\ named \subseteq Seq(Names)
  <2>1. PICK b : b = [i \in DOMAIN es |-> es[i].path]
    OBVIOUS
  <2>2. named = {b[i] : i \in DOMAIN es \ fileIndices(es)}
    BY <1>3, <2>1
  <2>3. IsFiniteSet(DOMAIN es \ fileIndices(es))
    BY <1>1, FS_Subset
  <2>4. IsFiniteSet({b[i] : i \in DOMAIN es \ fileIndices(es)})
    BY <2>3, ImageIsFinite
  <2>5. QED
    BY <1>3, <2>2, <2>4 DEF Listed
<1>5. PICK above : above = {Ancestors(es[i].path) : i \in DOMAIN es}
  OBVIOUS
<1>6. IsFiniteSet(UNION above) /\ UNION above \subseteq Seq(Names)
  <2>1. PICK b : b = [i \in DOMAIN es |-> Ancestors(es[i].path)]
    OBVIOUS
  <2>2. above = {b[i] : i \in DOMAIN es}
    BY <1>5, <2>1
  <2>3. IsFiniteSet({b[i] : i \in DOMAIN es})
    BY <1>1, ImageIsFinite
  <2>4. \A T \in above : IsFiniteSet(T) /\ T \subseteq Seq(Names)
    BY <1>2, <1>5
  <2>5. IsFiniteSet(above)
    BY <2>2, <2>3
  <2>6. QED
    BY <2>4, <2>5, FS_UNION
<1>7. AllFolders(es) = (named \union UNION above) \union {NoPath}
  BY <1>3, <1>5 DEF AllFolders, folders
<1>8. IsFiniteSet(AllFolders(es)) /\ AllFolders(es) \subseteq Seq(Names)
  <2>1. IsFiniteSet(named \union UNION above)
    BY <1>4, <1>6, FS_Union
  <2>2. PICK T : T = named \union UNION above
    OBVIOUS
  <2>3. IsFiniteSet(T \union {NoPath})
    BY <2>1, <2>2, FS_AddElement
  <2>4. QED
    BY <1>1, <1>4, <1>6, <1>7, <2>2, <2>3
<1>9. Deepest(es) \in Nat /\ \A f \in AllFolders(es) : Len(f) \in Nat /\ Len(f) <= Deepest(es)
  <2>1. PICK all : all = AllFolders(es)
    OBVIOUS
  <2>2. PICK b : b = [f \in all |-> Len(f)]
    OBVIOUS
  <2>3. PICK lengths : lengths = {Len(f) : f \in all}
    OBVIOUS
  <2>4. lengths = {b[f] : f \in all}
    BY <2>2, <2>3
  <2>5. IsFiniteSet({b[f] : f \in all})
    BY <1>8, <2>1, ImageIsFinite
  <2>6. \A f \in all : Len(f) \in Nat
    BY <1>8, <2>1, LenProperties
  <2>7. lengths # {} /\ lengths \subseteq Nat /\ IsFiniteSet(lengths)
    <3>1. NoPath \in all
      BY <1>7, <2>1
    <3>2. lengths # {}
      BY <2>3, <3>1
    <3>3. lengths \subseteq Nat
      BY <2>3, <2>6
    <3>4. QED
      BY <2>4, <2>5, <3>2, <3>3
  <2>8. Max(lengths) \in lengths /\ \A y \in lengths : y <= Max(lengths)
    BY <2>7, MaxOfFinite
  <2>9. Deepest(es) = Max(lengths)
    BY <2>1, <2>3 DEF Deepest
  <2>10. QED
    BY <2>1, <2>3, <2>6, <2>7, <2>8, <2>9
<1>10. \A i \in DOMAIN es, g \in Seq(Names) : Above(g, es[i].path) => g \in AllFolders(es)
  <2>1. TAKE i \in DOMAIN es, g \in Seq(Names)
  <2>2. HAVE Above(g, es[i].path)
  <2>3. g \in Ancestors(es[i].path) \union {NoPath}
    BY <2>2, AncestorsAreAbove DEF Listed
  <2>4. QED
    BY <1>5, <1>7, <2>3
<1>11. QED
  BY <1>8, <1>9, <1>10

\* The files below a folder are those directly in it and those below the
\* folders in it, each of them once.
LEMMA FilesBelow ==
    ASSUME NEW Names, NEW es, Listed(es, Names), NEW f \in AllFolders(es)
    PROVE  /\ Below(es, f) = Directly(es, f) \union UNION {Below(es, g) : g \in Inside(es, f)}
           /\ Directly(es, f) \cap UNION {Below(es, g) : g \in Inside(es, f)} = {}
           /\ \A g, h \in Inside(es, f) : g # h => Below(es, g) \cap Below(es, h) = {}
<1>1. AllFolders(es) \subseteq Seq(Names) /\ f \in Seq(Names) /\ Len(f) \in Nat
  BY FoldersOfEntries, LenProperties
<1>2. \A i \in fileIndices(es) : i \in DOMAIN es /\ es[i].path \in Seq(Names) /\ Len(es[i].path) \in Nat
  BY LenProperties DEF fileIndices, Listed
<1>3. \A g \in Inside(es, f) : g \in Seq(Names) /\ Len(g) = Len(f) + 1 /\ Above(f, g)
  BY <1>1, ChildIsBelow DEF Inside
<1>4. \A i \in Directly(es, f) : i \in fileIndices(es) /\ Len(es[i].path) = Len(f) + 1 /\ Above(f, es[i].path)
  BY <1>1, <1>2, ChildIsBelow DEF Directly
<1>5. ASSUME NEW i \in Below(es, f), i \notin Directly(es, f) PROVE \E g \in Inside(es, f) : i \in Below(es, g)
  <2>1. PICK p \in Seq(Names) : p = es[i].path /\ Len(p) \in Nat /\ Above(f, p) /\ i \in fileIndices(es) /\ i \in DOMAIN es
    BY <1>2, <1>5 DEF Below
  <2>2. Len(p) # Len(f) + 1
    BY <1>1, <1>5, <2>1, ChildIsBelow DEF Directly
  <2>3. PICK n \in Nat : n = Len(f) + 1 /\ n < Len(p)
    BY <1>1, <2>1, <2>2 DEF Above
  <2>4. PICK g : g = SubSeq(p, 1, n)
    OBVIOUS
  <2>5. g \in Seq(Names) /\ Len(g) = n /\ \A k \in 1 .. n : g[k] = p[k]
    BY <2>3, <2>4, BeginningOfPath
  <2>6. Above(g, p) /\ Above(f, g)
    BY <1>1, <2>1, <2>3, <2>5 DEF Above
  <2>7. g \in AllFolders(es)
    BY <2>1, <2>5, <2>6, FoldersOfEntries
  <2>8. Child(g, f)
    BY <1>1, <2>3, <2>5, <2>6, ChildIsBelow
  <2>9. QED
    BY <2>1, <2>6, <2>7, <2>8 DEF Inside, Below
<1>6. ASSUME NEW g \in Inside(es, f), NEW i \in Below(es, g) PROVE i \in Below(es, f) /\ i \notin Directly(es, f)
  <2>1. i \in fileIndices(es) /\ Above(g, es[i].path) /\ Above(f, g) /\ Len(g) = Len(f) + 1
    BY <1>3, <1>6 DEF Below
  <2>2. Above(f, es[i].path) /\ Len(es[i].path) # Len(f) + 1
    BY <1>1, <1>2, <2>1 DEF Above
  <2>3. QED
    BY <1>4, <2>1, <2>2 DEF Below
<1>7. ASSUME NEW g \in Inside(es, f), NEW h \in Inside(es, f), NEW i \in Below(es, g) \cap Below(es, h) PROVE g = h
  <2>1. Len(g) = Len(h) /\ \A k \in 1 .. Len(g) : g[k] = h[k]
    BY <1>3 DEF Below, Above
  <2>2. QED
    BY <1>3, <2>1, SeqEqual
<1>8. Directly(es, f) \subseteq Below(es, f)
  BY <1>4 DEF Below
<1>9. QED
  BY <1>5, <1>6, <1>7, <1>8

Weight(es, f) == SizeOf(es, Below(es, f))

\* The folders of the n deepest levels, and of the one above them.
Level(es, n) == {g \in AllFolders(es) : Len(g) >= Deepest(es) - n}

\* What a folder of a level is said to take, d being what those of the levels
\* below it are said to take.
Computed(es, n, d, f) ==
    IF Len(f) > Deepest(es) - n THEN d[f]
    ELSE SizeOf(es, Directly(es, f)) + SumFunctionOnSet(d, Inside(es, f))

LEMMA SizesOfFiles ==
    ASSUME NEW Names, NEW es, Listed(es, Names)
    PROVE  /\ IsFiniteSet(fileIndices(es)) /\ fileIndices(es) \subseteq DOMAIN es
           /\ \A i \in fileIndices(es) : sizes(es)[i] = es[i].size /\ sizes(es)[i] \in Nat
<1>1. IsFiniteSet(DOMAIN es)
  BY DEF Listed
<1>2. fileIndices(es) \subseteq DOMAIN es
  BY DEF fileIndices
<1>3. IsFiniteSet(fileIndices(es))
  BY <1>1, <1>2, FS_Subset
<1>4. QED
  BY <1>2, <1>3 DEF sizes, Listed

LEMMA FolderAddsUp ==
    ASSUME NEW Names, NEW es, Listed(es, Names), NEW f \in AllFolders(es),
           NEW d, \A g \in Inside(es, f) : d[g] = Weight(es, g)
    PROVE  SizeOf(es, Directly(es, f)) + SumFunctionOnSet(d, Inside(es, f)) = Weight(es, f)
<1>1. PICK F, K, z : F = fileIndices(es) /\ K = Inside(es, f) /\ z = sizes(es)
  OBVIOUS
<1>2. PICK part : part = [g \in K |-> Below(es, g)]
  OBVIOUS
<1>3. IsFiniteSet(F)
  BY <1>1, SizesOfFiles
<1>4. \A i \in F : z[i] \in Nat
  BY <1>1, SizesOfFiles
<1>5. IsFiniteSet(K)
  <2>1. K \subseteq AllFolders(es)
    BY <1>1 DEF Inside
  <2>2. QED
    BY <2>1, FoldersOfEntries, FS_Subset
<1>6. \A g \in K : part[g] = Below(es, g) /\ part[g] \subseteq F
  BY <1>1, <1>2 DEF Below
<1>7. \A g \in K : d[g] = SumFunctionOnSet(z, part[g])
  BY <1>1, <1>6 DEF Weight, SizeOf
<1>8. \A g, h \in K : g # h => part[g] \cap part[h] = {}
  BY <1>1, <1>6, FilesBelow
<1>9. PICK direct, within : direct = Directly(es, f) /\ within = UNION {part[g] : g \in K}
  OBVIOUS
<1>10. SumFunctionOnSet(d, K) = SumFunctionOnSet(z, within)
  BY <1>3, <1>4, <1>5, <1>6, <1>7, <1>8, <1>9, SumOfParts
<1>11. within = UNION {Below(es, g) : g \in Inside(es, f)}
  BY <1>1, <1>6, <1>9
<1>12. direct \cap within = {} /\ Below(es, f) = direct \union within
  BY <1>9, <1>11, FilesBelow
<1>13. direct \subseteq F /\ within \subseteq F
  BY <1>1, <1>12 DEF Below
<1>14. SumFunctionOnSet(z, direct \union within) = SumFunctionOnSet(z, direct) + SumFunctionOnSet(z, within)
  <2>1. direct \cap within = {}
    BY <1>12
  <2>2. QED
    BY <1>3, <1>4, <1>13, <2>1, SumOfUnion
<1>15. QED
  BY <1>1, <1>9, <1>10, <1>12, <1>14 DEF Weight, SizeOf

LEMMA LevelAddsUp ==
    ASSUME NEW Names, NEW es, Listed(es, Names), NEW n \in 0 .. Deepest(es), NEW d,
           n # 0 => \A g \in Level(es, n - 1) : d[g] = Weight(es, g), NEW f \in Level(es, n)
    PROVE  Computed(es, n, d, f) = Weight(es, f)
<1>1. /\ Deepest(es) \in Nat /\ f \in AllFolders(es) /\ Len(f) \in Nat /\ Len(f) <= Deepest(es) /\ Len(f) >= Deepest(es) - n
      /\ n \in Nat
  BY FoldersOfEntries DEF Level
<1>2. CASE Len(f) > Deepest(es) - n
  <2>1. n # 0 /\ Len(f) >= Deepest(es) - (n - 1)
    BY <1>1, <1>2
  <2>2. f \in Level(es, n - 1)
    BY <1>1, <2>1 DEF Level
  <2>3. QED
    BY <1>2, <2>1, <2>2 DEF Computed
<1>3. CASE ~(Len(f) > Deepest(es) - n)
  <2>1. Len(f) = Deepest(es) - n
    BY <1>1, <1>3
  <2>2. \A g \in Inside(es, f) : n # 0 /\ g \in Level(es, n - 1)
    <3>1. TAKE g \in Inside(es, f)
    <3>2. g \in AllFolders(es) /\ Len(g) = Len(f) + 1
      BY DEF Inside, Child
    <3>3. Len(g) <= Deepest(es)
      BY <3>2, FoldersOfEntries
    <3>4. QED
      BY <1>1, <2>1, <3>2, <3>3 DEF Level
  <2>3. \A g \in Inside(es, f) : d[g] = Weight(es, g)
    BY <2>2
  <2>4. QED
    BY <1>1, <1>3, <2>3, FolderAddsUp DEF Computed
<1>4. QED
  BY <1>2, <1>3

\* A folder of the tree takes what the files below it take.
LEMMA TreeOfEntries ==
    ASSUME NEW Names, NEW es, Listed(es, Names)
    PROVE  buildFileTree(es) = [f \in AllFolders(es) |-> Weight(es, f)]
<1> DEFINE Tree(c) == c = [n \in 0 .. Deepest(es) |-> [f \in Level(es, n) |-> Computed(es, n, c[n - 1], f)]]
           Weights(n) == [f \in Level(es, n) |-> Weight(es, f)]
<1>1. Deepest(es) \in Nat /\ Level(es, Deepest(es)) = AllFolders(es)
  BY FoldersOfEntries DEF Level
<1>2. Tree([n \in 0 .. Deepest(es) |-> Weights(n)])
  <2> DEFINE c == [n \in 0 .. Deepest(es) |-> Weights(n)]
  <2>1. ASSUME NEW n \in 0 .. Deepest(es), NEW f \in Level(es, n) PROVE Computed(es, n, c[n - 1], f) = Weight(es, f)
    <3>1. PICK d : d = c[n - 1]
      OBVIOUS
    <3>2. n # 0 => \A g \in Level(es, n - 1) : d[g] = Weight(es, g)
      <4>1. SUFFICES ASSUME n # 0 PROVE \A g \in Level(es, n - 1) : d[g] = Weight(es, g)
        OBVIOUS
      <4>2. n - 1 \in 0 .. Deepest(es)
        BY <1>1, <4>1
      <4>3. QED
        BY <3>1, <4>2
    <3>3. QED
      BY <3>1, <3>2, LevelAddsUp
  <2> HIDE DEF Weights
  <2>2. \A n \in 0 .. Deepest(es) : c[n] = [f \in Level(es, n) |-> Computed(es, n, c[n - 1], f)]
    BY <2>1 DEF Weights
  <2>3. QED
    BY <2>2
<1>3. ASSUME NEW c, Tree(c) PROVE c[Deepest(es)] = Weights(Deepest(es))
  <2> DEFINE Bad == {n \in 0 .. Deepest(es) : c[n] # Weights(n)}
  <2>1. SUFFICES ASSUME Bad # {} PROVE FALSE
    BY <1>1
  <2>2. PICK n \in Bad : \A k \in Bad : n <= k
    <3>1. Bad \subseteq Nat
      OBVIOUS
    <3> HIDE DEF Bad
    <3>2. QED
      BY <2>1, <3>1, LeastNatural
  <2>3. n # 0 => n - 1 \in 0 .. Deepest(es) /\ n - 1 \notin Bad
    BY <1>1, <2>2
  <2>4. n # 0 => \A g \in Level(es, n - 1) : c[n - 1][g] = Weight(es, g)
    BY <2>3
  <2>5. \A f \in Level(es, n) : Computed(es, n, c[n - 1], f) = Weight(es, f)
    <3>1. TAKE f \in Level(es, n)
    <3>2. PICK d : d = c[n - 1]
      OBVIOUS
    <3>3. QED
      BY <2>2, <2>4, <3>2, LevelAddsUp
  <2>6. c[n] = [f \in Level(es, n) |-> Computed(es, n, c[n - 1], f)]
    BY <1>3, <2>2
  <2>7. c[n] = Weights(n)
    BY <2>5, <2>6
  <2>8. QED
    BY <2>2, <2>7
<1>4. buildFileTree(es) = (CHOOSE c : Tree(c))[Deepest(es)]
  BY DEF buildFileTree, Deepest, AllFolders, Level, Computed, Directly, Inside
<1>5. PICK c : c = CHOOSE x : Tree(x)
  OBVIOUS
<1>6. Tree(c)
  <2>1. \E x : Tree(x)
    BY <1>2
  <2> HIDE DEF Tree
  <2>2. QED
    BY <1>5, <2>1
<1>7. QED
  BY <1>1, <1>3, <1>4, <1>5, <1>6, SMTT(40)

-----------------------------------------------------------------------------
(* What is read of a package, and of the same one packed with its folder.  *)

\* tt is ss, of which there are n, with x ahead.
Prepended(X, x, n, ss, tt) ==
    /\ x \in Seq(X) /\ n \in Nat /\ ss \in [1 .. n -> Seq(X)] /\ tt \in [1 .. n + 1 -> Seq(X)]
    /\ tt[1] = x /\ \A k \in 1 .. n : tt[k + 1] = ss[k]

Joins(c, a, b) == c = a \o b

LEMMA AddedLater ==
    \A X, v, w : \A x, y, z \in Seq(X) : Joins(v, x, y) /\ Joins(w, y, z) => w \in Seq(X) /\ Joins(v \o z, x, w)
<1>1. TAKE X, v, w
<1>2. TAKE x, y, z \in Seq(X)
<1>3. (x \o y) \o z = x \o (y \o z)
  BY ConcatAssociative
<1>4. y \o z \in Seq(X)
  BY ConcatProperties
<1>5. QED
  BY <1>3, <1>4 DEF Joins

LEMMA PrependedIsFlattened ==
    \A X, x, n, ss, tt : Prepended(X, x, n, ss, tt) => Joins(FlattenSeq(tt), x, FlattenSeq(ss))
<1>1. SUFFICES ASSUME NEW X, NEW x, NEW n, NEW ss, NEW tt, Prepended(X, x, n, ss, tt)
               PROVE  FlattenSeq(tt) = x \o FlattenSeq(ss)
  BY DEF Joins
<1>2. PICK m : m = n + 1
  OBVIOUS
<1>3. /\ x \in Seq(X) /\ n \in Nat /\ ss \in [1 .. n -> Seq(X)] /\ tt \in [1 .. m -> Seq(X)]
      /\ tt[1] = x /\ \A k \in 1 .. n : tt[k + 1] = ss[k]
  BY <1>1, <1>2 DEF Prepended
<1>4. m \in Nat \ {0} /\ m = n + 1
  BY <1>2, <1>3
<1>5. PICK g : FlattenSeq(tt) = g[m] /\ Stepwise(g, m, tt)
  <2>1. m \in Nat \ {0} /\ tt \in [1 .. m -> Seq(X)]
    BY <1>4, <1>3
  <2>2. QED
    BY <2>1, FlattenedByStep
<1>6. g[1] = x
  BY <1>4, <1>5, <1>3 DEF Stepwise
<1>7. CASE n = 0
  <2>1. ss \in Seq(Seq(X)) /\ Len(ss) = 0 /\ ss = <<>>
    BY <1>7, <1>3, LenProperties, EmptySeq
  <2>2. FlattenSeq(ss) = <<>>
    BY <2>1 DEF FlattenSeq
  <2>3. x \o <<>> = x
    BY <1>3, ConcatEmptySeq
  <2>4. QED
    BY <1>4, <1>5, <1>6, <1>7, <2>2, <2>3
<1>8. CASE n # 0
  <2>1. PICK f : FlattenSeq(ss) = f[n] /\ Stepwise(f, n, ss)
    <3>1. n \in Nat \ {0} /\ ss \in [1 .. n -> Seq(X)]
      BY <1>8, <1>3
    <3>2. QED
      BY <3>1, FlattenedByStep
  <2> DEFINE P == {k \in 1 .. n : f[k] \in Seq(X) /\ g[k + 1] = x \o f[k]}
  <2>2. \A k \in 1 .. n : ss[k] \in Seq(X) /\ k + 1 \in 1 .. m /\ k + 1 # 1 /\ (k + 1) - 1 = k /\ g[k + 1] = g[k] \o ss[k]
    <3>1. TAKE k \in 1 .. n
    <3>2. PICK j \in 1 .. m : j = k + 1 /\ j # 1 /\ j - 1 = k
      BY <1>4, <1>3
    <3>3. tt[j] = ss[k]
      BY <1>3, <3>2
    <3>4. QED
      BY <1>5, <1>3, <3>2, <3>3 DEF Stepwise
  <2>3. 1 \in P
    <3>1. 1 \in 1 .. n /\ f[1] = ss[1]
      BY <1>8, <1>3, <2>1 DEF Stepwise
    <3>2. QED
      BY <1>6, <2>2, <3>1
  <2>4. \A k \in 1 .. n - 1 : k \in P => k + 1 \in P
    <3>1. TAKE k \in 1 .. n - 1
    <3>2. HAVE k \in P
    <3>3. PICK j \in 1 .. n : j = k + 1 /\ j # 1 /\ j - 1 = k
      BY <1>3
    <3>4. f[j] = f[k] \o ss[j] /\ g[j] = x \o f[k] /\ g[j + 1] = g[j] \o ss[j]
      BY <2>1, <2>2, <3>2, <3>3 DEF Stepwise
    <3>5. f[k] \in Seq(X) /\ ss[j] \in Seq(X)
      BY <1>3, <3>2
    <3>6. Joins(g[j], x, f[k]) /\ Joins(f[j], f[k], ss[j])
      BY <3>4 DEF Joins
    <3>7. f[j] \in Seq(X) /\ Joins(g[j] \o ss[j], x, f[j])
      BY <1>3, <3>5, <3>6, AddedLater
    <3>8. g[j + 1] = x \o f[j]
      BY <3>4, <3>7 DEF Joins
    <3>9. QED
      BY <3>3, <3>7, <3>8
  <2> HIDE DEF P
  <2>5. 1 .. n \subseteq P
    BY <1>3, <2>3, <2>4, NumbersByStep
  <2>6. n \in 1 .. n
    BY <1>8, <1>3
  <2>7. g[n + 1] = x \o f[n]
    BY <2>5, <2>6 DEF P
  <2>8. QED
    BY <1>4, <1>5, <2>1, <2>7
<1>9. QED
  BY <1>7, <1>8

LEMMA KeptItems ==
    ASSUME NEW X, NEW s \in Seq(X), NEW I
    PROVE  Kept(s, I) \in Seq(X) /\ ToSet(Kept(s, I)) = {s[i] : i \in DOMAIN s \cap I}
<1>1. Kept(s, I) = Those(s, I)
  BY DEF Kept, Those
<1>2. QED
  BY <1>1, ThoseItems

\* x stays ahead of the items that are kept after it.
LEMMA PrependedIsKept ==
    ASSUME NEW X, NEW x \in X, NEW s \in Seq(X), NEW I, NEW J, 1 \in J,
           \A k \in DOMAIN s : k \in I <=> k + 1 \in J
    PROVE  Kept(<<x>> \o s, J) = <<x>> \o Kept(s, I)
<1>1. PICK n \in Nat : n = Len(s) /\ DOMAIN s = 1 .. n /\ s \in [1 .. n -> X]
  BY LenProperties
<1>2. PICK t : t = <<x>> \o s
  OBVIOUS
<1>3. <<x>> \in Seq(X) /\ Len(<<x>>) = 1 /\ <<x>>[1] = x
  OBVIOUS
<1>4. /\ t \in Seq(X) /\ Len(t) = 1 + n /\ \A i \in 1 .. 1 + n : t[i] = IF i <= 1 THEN <<x>>[i] ELSE s[i - 1]
  BY <1>1, <1>2, <1>3, ConcatProperties
<1>5. DOMAIN t = 1 .. n + 1 /\ t[1] = x /\ \A k \in 1 .. n : t[k + 1] = s[k]
  <2>1. DOMAIN t = 1 .. n + 1
    BY <1>4, LenProperties
  <2>2. QED
    BY <1>3, <1>4, <2>1
<1>6. PICK ss : ss = [i \in DOMAIN s |-> IF i \in I THEN <<s[i]>> ELSE <<>>]
  OBVIOUS
<1>7. PICK tt : tt = [i \in DOMAIN t |-> IF i \in J THEN <<t[i]>> ELSE <<>>]
  OBVIOUS
<1>8. ss \in [1 .. n -> Seq(X)]
  BY <1>1, <1>6
<1>9. tt \in [1 .. n + 1 -> Seq(X)]
  <2>1. \A i \in DOMAIN t : t[i] \in X
    BY <1>4, LenProperties
  <2>2. QED
    BY <1>5, <1>7, <2>1
<1>10. tt[1] = <<x>> /\ \A k \in 1 .. n : tt[k + 1] = ss[k]
  <2>1. 1 \in 1 .. n + 1
    OBVIOUS
  <2>2. tt[1] = <<x>>
    BY <1>5, <1>7, <2>1
  <2>3. ASSUME NEW k \in 1 .. n PROVE tt[k + 1] = ss[k]
    <3>1. k + 1 \in DOMAIN t /\ k \in DOMAIN s /\ t[k + 1] = s[k]
      BY <1>1, <1>5
    <3>2. QED
      BY <1>6, <1>7, <3>1
  <2>4. QED
    BY <2>2, <2>3
<1>11. FlattenSeq(tt) = <<x>> \o FlattenSeq(ss)
  <2>1. Prepended(X, <<x>>, n, ss, tt)
    BY <1>3, <1>8, <1>9, <1>10 DEF Prepended
  <2>2. Joins(FlattenSeq(tt), <<x>>, FlattenSeq(ss))
    BY <2>1, PrependedIsFlattened
  <2>3. QED
    BY <2>2 DEF Joins
<1>12. QED
  BY <1>2, <1>6, <1>7, <1>11 DEF Kept

LEMMA PackedPath ==
    ASSUME NEW Names, "packed" \in Names, NEW p \in Seq(Names)
    PROVE  /\ Pack(p) \in Seq(Names) /\ Len(p) \in Nat /\ Len(Pack(p)) = Len(p) + 1 /\ Pack(p) # NoPath
           /\ Pack(p)[1] = "packed" /\ \A k \in 1 .. Len(p) : Pack(p)[k + 1] = p[k]
           /\ Pack(p)[Len(Pack(p))] = IF p = NoPath THEN "packed" ELSE p[Len(p)]
<1>1. PICK n \in Nat : n = Len(p)
  BY LenProperties
<1>2. PICK x : x = <<"packed">>
  OBVIOUS
<1>3. x \in Seq(Names) /\ Len(x) = 1 /\ x[1] = "packed"
  BY <1>2
<1>4. PICK t : t = x \o p
  OBVIOUS
<1>5. t \in Seq(Names) /\ Len(t) = 1 + n /\ \A i \in 1 .. 1 + n : t[i] = IF i <= 1 THEN x[i] ELSE p[i - 1]
  <2>1. x \in Seq(Names)
    BY <1>3
  <2>2. /\ x \o p \in Seq(Names) /\ Len(x \o p) = Len(x) + Len(p)
        /\ \A i \in 1 .. Len(x) + Len(p) : (x \o p)[i] = IF i <= Len(x) THEN x[i] ELSE p[i - Len(x)]
    BY <2>1, ConcatProperties
  <2>3. QED
    BY <1>1, <1>3, <1>4, <2>2
<1>6. t[1] = "packed" /\ \A k \in 1 .. n : t[k + 1] = p[k]
  BY <1>3, <1>5
<1>7. t # NoPath
  BY <1>5, EmptySeq DEF NoPath
<1>8. p = NoPath <=> n = 0
  BY <1>1, EmptySeq DEF NoPath
<1>9. t[n + 1] = IF p = NoPath THEN "packed" ELSE p[n]
  BY <1>6, <1>8
<1>10. t = Pack(p)
  BY <1>2, <1>4 DEF Pack
<1>11. QED
  BY <1>1, <1>5, <1>6, <1>7, <1>9, <1>10

LEMMA PackedPathsDiffer ==
    ASSUME NEW Names, "packed" \in Names, NEW p \in Seq(Names), NEW q \in Seq(Names), Pack(p) = Pack(q)
    PROVE  p = q
<1>1. Len(p) = Len(q)
  BY PackedPath
<1>2. \A k \in 1 .. Len(p) : p[k] = q[k]
  <2>1. \A k \in 1 .. Len(p) : Pack(p)[k + 1] = p[k]
    BY PackedPath
  <2>2. \A k \in 1 .. Len(q) : Pack(q)[k + 1] = q[k]
    BY PackedPath
  <2>3. QED
    BY <1>1, <2>1, <2>2
<1>3. QED
  BY <1>1, <1>2, SeqEqual

LEMMA NormalizedPath ==
    ASSUME NEW Names, "packed" \in Names, NEW p \in Seq(Names)
    PROVE  normalizePath(p) \in Seq(Names) /\ normalizePath(Pack(p)) = Pack(normalizePath(p))
<1>1. PICK I : I = {i \in DOMAIN p : p[i] \notin {"", ".", ".."}}
  OBVIOUS
<1>2. PICK q : q = Pack(p)
  OBVIOUS
<1>3. PICK J : J = {i \in DOMAIN q : q[i] \notin {"", ".", ".."}}
  OBVIOUS
<1>4. normalizePath(p) = Kept(p, I) /\ normalizePath(q) = Kept(q, J)
  BY <1>1, <1>3 DEF normalizePath
<1>5. Kept(p, I) \in Seq(Names)
  BY KeptItems
<1>6. /\ Len(p) \in Nat /\ DOMAIN p = 1 .. Len(p) /\ DOMAIN q = 1 .. Len(p) + 1
      /\ q[1] = "packed" /\ \A k \in 1 .. Len(p) : q[k + 1] = p[k]
  BY <1>2, PackedPath, LenProperties, SMTT(40)
<1>7. PICK n \in Nat : n = Len(p)
  BY <1>6
<1>8. 1 \in J
  <2>1. 1 \in DOMAIN q
    BY <1>6, <1>7
  <2>2. q[1] \notin {"", ".", ".."}
    BY <1>6
  <2>3. QED
    BY <1>3, <2>1, <2>2
<1>9. \A k \in DOMAIN p : k \in I <=> k + 1 \in J
  <2>1. TAKE k \in DOMAIN p
  <2>2. k + 1 \in DOMAIN q /\ q[k + 1] = p[k]
    BY <1>6, <1>7
  <2>3. QED
    BY <1>1, <1>3, <2>2
<1>10. Kept(<<"packed">> \o p, J) = <<"packed">> \o Kept(p, I)
  BY <1>8, <1>9, PrependedIsKept
<1>11. QED
  BY <1>2, <1>4, <1>5, <1>10 DEF Pack

LEMMA ReadOne ==
    ASSUME NEW Names, NEW e \in ZipFiles(Names), NEW p
    PROVE  /\ e.path \in Seq(Names) /\ e.size \in Nat /\ (normalizePath(e.path) = NoPath => e.folder)
           /\ [e EXCEPT !.path = p].path = p /\ [e EXCEPT !.path = p].folder = e.folder
           /\ [e EXCEPT !.path = p].size = e.size /\ [e EXCEPT !.path = p].script = e.script
           /\ [e EXCEPT !.path = p].uses = e.uses /\ [e EXCEPT !.path = p].text = e.text
<1> HIDE DEF normalizePath
<1>1. /\ e \in [path : Seq(Names), folder : BOOLEAN, size : Nat, script : BOOLEAN, uses : SUBSET STRING,
                text : [kind : STRING, json : ManifestsOf(Seq(Names))]]
      /\ normalizePath(e.path) = NoPath => e.folder
  BY DEF ZipFiles
<1>2. QED
  BY <1>1

\* es are the entries of a ZIP, those without a name left out.
ReadFrom(es, raw) ==
    /\ DOMAIN es = {i \in DOMAIN raw : normalizePath(raw[i].path) # NoPath}
    /\ \A i \in DOMAIN es : /\ es[i].path = normalizePath(raw[i].path) /\ es[i].folder = raw[i].folder
                            /\ es[i].size = raw[i].size /\ es[i].script = raw[i].script

LEMMA EntriesAreListed ==
    ASSUME NEW Names, "packed" \in Names, NEW raw \in Seq(ZipFiles(Names))
    PROVE  Listed(readEntries(raw), Names) /\ ReadFrom(readEntries(raw), raw)
<1>1. PICK es : es = readEntries(raw)
  OBVIOUS
<1>2. PICK n \in Nat : n = Len(raw) /\ DOMAIN raw = 1 .. n /\ \A i \in DOMAIN raw : raw[i] \in ZipFiles(Names)
  BY LenProperties
<1>3. PICK named : named = [i \in DOMAIN raw |-> [raw[i] EXCEPT !.path = normalizePath(@)]]
  OBVIOUS
<1>4. \A i \in DOMAIN raw : /\ named[i].path = normalizePath(raw[i].path) /\ named[i].folder = raw[i].folder
                            /\ named[i].size = raw[i].size /\ named[i].script = raw[i].script
                            /\ named[i].path \in Seq(Names) /\ named[i].size \in Nat
  <2>1. TAKE i \in DOMAIN raw
  <2>2. named[i] = [raw[i] EXCEPT !.path = normalizePath(raw[i].path)]
    BY <1>3
  <2>3. raw[i] \in ZipFiles(Names)
    BY <1>2
  <2>4. normalizePath(raw[i].path) \in Seq(Names)
    BY <2>3, ReadOne, NormalizedPath
  <2>5. QED
    BY <2>2, <2>3, <2>4, ReadOne
<1>5. es = [i \in {k \in DOMAIN raw : named[k].path # NoPath} |-> named[i]]
  BY <1>3, <1>1 DEF readEntries
<1>6. DOMAIN es = {k \in DOMAIN raw : named[k].path # NoPath} /\ \A i \in DOMAIN es : es[i] = named[i]
  BY <1>5
<1>7. DOMAIN es \subseteq DOMAIN raw /\ IsFiniteSet(DOMAIN es) /\ DOMAIN es \subseteq Nat
  <2>1. IsFiniteSet(1 .. n)
    BY FS_Interval
  <2>2. DOMAIN es \subseteq 1 .. n
    BY <1>2, <1>6
  <2>3. IsFiniteSet(DOMAIN es)
    BY <2>1, <2>2, FS_Subset
  <2>4. QED
    BY <1>2, <2>2, <2>3
<1>8. \A i \in DOMAIN es : i \in DOMAIN raw /\ named[i].path # NoPath
  BY <1>6
<1>9. Listed(es, Names)
  BY <1>4, <1>6, <1>7, <1>8 DEF Listed
<1>10. QED
  BY <1>4, <1>6, <1>8, <1>9, <1>1 DEF ReadFrom

\* fs holds the files of es, below one more folder.
Nested(es, fs) ==
    /\ fileIndices(fs) = fileIndices(es)
    /\ \A i \in fileIndices(es) : fs[i].path = Pack(es[i].path) /\ fs[i].size = es[i].size /\ fs[i].script = es[i].script

\* The same files with their folder.
Wrapped(raw) == [i \in DOMAIN raw |-> [raw[i] EXCEPT !.path = Pack(raw[i].path)]]

WrappedFrom(wrapped, raw) ==
    /\ DOMAIN wrapped = DOMAIN raw
    /\ \A i \in DOMAIN raw : /\ wrapped[i].path = Pack(raw[i].path) /\ wrapped[i].folder = raw[i].folder
                             /\ wrapped[i].size = raw[i].size /\ wrapped[i].script = raw[i].script
                             /\ wrapped[i].uses = raw[i].uses

LEMMA PackedFiles ==
    ASSUME NEW Names, "packed" \in Names, NEW raw \in Seq(ZipFiles(Names))
    PROVE  Wrapped(raw) \in Seq(ZipFiles(Names)) /\ WrappedFrom(Wrapped(raw), raw)
<1>1. PICK wrapped : wrapped = Wrapped(raw)
  OBVIOUS
<1>2. PICK n \in Nat : n = Len(raw) /\ DOMAIN raw = 1 .. n /\ \A i \in DOMAIN raw : raw[i] \in ZipFiles(Names)
  BY LenProperties
<1>3. ASSUME NEW e \in ZipFiles(Names) PROVE [e EXCEPT !.path = Pack(e.path)] \in ZipFiles(Names)
  <2>1. e.path \in Seq(Names)
    BY ReadOne
  <2>2. Pack(e.path) \in Seq(Names)
    BY <2>1, PackedPath
  <2>3. normalizePath(Pack(e.path)) # NoPath
    <3>1. PICK q : q = normalizePath(e.path)
      OBVIOUS
    <3>2. q \in Seq(Names) /\ normalizePath(Pack(e.path)) = Pack(q)
      BY <2>1, <3>1, NormalizedPath
    <3>3. Pack(q) # NoPath
      BY <3>2, PackedPath
    <3>4. QED
      BY <3>2, <3>3
  <2>4. PICK p : p = Pack(e.path)
    OBVIOUS
  <2>5. p \in Seq(Names) /\ normalizePath(p) # NoPath
    BY <2>2, <2>3, <2>4
  <2>6. [e EXCEPT !.path = p] \in ZipFiles(Names)
    BY <2>5 DEF ZipFiles
  <2>7. QED
    BY <2>4, <2>6
<1>4. DOMAIN wrapped = DOMAIN raw /\ \A i \in DOMAIN raw : wrapped[i] = [raw[i] EXCEPT !.path = Pack(raw[i].path)]
  BY <1>1 DEF Wrapped
<1>5. \A i \in 1 .. n : wrapped[i] \in ZipFiles(Names)
  BY <1>2, <1>3, <1>4
<1>6. wrapped \in Seq(ZipFiles(Names)) /\ DOMAIN wrapped = DOMAIN raw
  BY <1>2, <1>4, <1>5, <1>1 DEF Wrapped
<1>7. ASSUME NEW i \in DOMAIN raw
      PROVE  /\ wrapped[i].path = Pack(raw[i].path) /\ wrapped[i].folder = raw[i].folder
             /\ wrapped[i].size = raw[i].size /\ wrapped[i].script = raw[i].script
             /\ wrapped[i].uses = raw[i].uses
  <2>1. PICK e \in ZipFiles(Names) : e = raw[i]
    BY <1>2
  <2>2. PICK p : p = Pack(e.path)
    OBVIOUS
  <2>3. PICK w : w = [e EXCEPT !.path = p]
    OBVIOUS
  <2>4. w.path = p /\ w.folder = e.folder /\ w.size = e.size /\ w.script = e.script /\ w.uses = e.uses
    BY <2>3, ReadOne
  <2>5. w = wrapped[i]
    BY <1>4, <2>1, <2>2, <2>3
  <2>6. QED
    BY <2>1, <2>2, <2>4, <2>5
<1>8. QED
  BY <1>6, <1>7, <1>1 DEF WrappedFrom

LEMMA PackedIsNested ==
    ASSUME NEW Names, "packed" \in Names, NEW raw \in Seq(ZipFiles(Names)),
           NEW es, es = readEntries(raw), NEW fs, fs = readEntries(Wrapped(raw))
    PROVE  Listed(es, Names) /\ Listed(fs, Names) /\ Nested(es, fs)
<1>1. PICK wrapped : wrapped = Wrapped(raw)
  OBVIOUS
<1>2. Listed(es, Names) /\ ReadFrom(es, raw)
  BY EntriesAreListed
<1>3. wrapped \in Seq(ZipFiles(Names)) /\ WrappedFrom(wrapped, raw)
  BY <1>1, PackedFiles
<1>4. Listed(fs, Names) /\ ReadFrom(fs, wrapped)
  BY <1>3, <1>1, EntriesAreListed
<1>5. \A i \in DOMAIN raw : raw[i] \in ZipFiles(Names)
  BY LenProperties
<1>6. ASSUME NEW i \in DOMAIN raw
      PROVE  /\ i \in DOMAIN fs /\ fs[i].path = Pack(normalizePath(raw[i].path))
             /\ normalizePath(raw[i].path) = NoPath => raw[i].folder
  <2>1. raw[i].path \in Seq(Names) /\ (normalizePath(raw[i].path) = NoPath => raw[i].folder)
    BY <1>5, ReadOne
  <2>2. PICK q : q = normalizePath(raw[i].path)
    OBVIOUS
  <2>3. q \in Seq(Names) /\ normalizePath(Pack(raw[i].path)) = Pack(q)
    BY <2>1, <2>2, NormalizedPath
  <2>4. Pack(q) # NoPath
    BY <2>3, PackedPath
  <2>5. i \in DOMAIN wrapped /\ wrapped[i].path = Pack(raw[i].path)
    BY <1>3 DEF WrappedFrom
  <2>6. i \in DOMAIN fs /\ fs[i].path = normalizePath(wrapped[i].path)
    BY <1>4, <2>3, <2>4, <2>5 DEF ReadFrom
  <2>7. QED
    BY <2>1, <2>2, <2>3, <2>5, <2>6
<1>7. fileIndices(es) = {i \in DOMAIN raw : ~ raw[i].folder}
  BY <1>2, <1>6 DEF fileIndices, isFile, ReadFrom
<1>8. fileIndices(fs) = {i \in DOMAIN raw : ~ raw[i].folder}
  BY <1>3, <1>4, <1>6 DEF fileIndices, isFile, ReadFrom, WrappedFrom
<1>9. \A i \in fileIndices(es) : fs[i].path = Pack(es[i].path) /\ fs[i].size = es[i].size /\ fs[i].script = es[i].script
  <2>1. TAKE i \in fileIndices(es)
  <2>2. i \in DOMAIN es /\ i \in DOMAIN raw /\ i \in DOMAIN fs
    BY <1>2, <1>6 DEF fileIndices, ReadFrom
  <2>3. QED
    BY <1>2, <1>3, <1>4, <1>6, <2>2 DEF ReadFrom, WrappedFrom
<1>10. QED
  BY <1>2, <1>4, <1>7, <1>8, <1>9 DEF Nested

LEMMA ManifestIsFound ==
    ASSUME NEW Names, NEW es, Listed(es, Names), \A i \in manifestEntries(es) : Rank[es[i].path] \in Nat, manifestEntries(es) # {}
    PROVE  findManifestEntry(es) \in manifestEntries(es)
<1>1. PICK M : M = manifestEntries(es)
  OBVIOUS
<1>2. \A i \in M : depth(es[i]) \in Nat /\ Rank[es[i].path] \in Nat
  <2>1. TAKE i \in M
  <2>2. i \in DOMAIN es /\ es[i].path \in Seq(Names) /\ es[i].path # <<>>
    BY <1>1 DEF manifestEntries, fileIndices, Listed, NoPath
  <2>3. Len(es[i].path) \in Nat \ {0}
    BY <2>2, EmptySeq, LenProperties
  <2>4. QED
    BY <1>1, <2>2, <2>3 DEF depth
<1>3. PICK d : d \in {depth(es[i]) : i \in M} /\ \A i \in M : d <= depth(es[i])
  <2>1. PICK D : D = {depth(es[i]) : i \in M}
    OBVIOUS
  <2>2. D \subseteq Nat /\ D # {}
    BY <1>1, <1>2, <2>1
  <2>3. \E x \in D : \A y \in D : x <= y
    BY <2>2, LeastNatural
  <2>4. QED
    BY <2>1, <2>3
<1>4. PICK R : R = {Rank[es[i].path] : i \in {j \in M : depth(es[j]) = d}}
  OBVIOUS
<1>5. PICK r \in R : \A y \in R : r <= y
  <2>1. R \subseteq Nat /\ R # {}
    BY <1>2, <1>3, <1>4
  <2>2. QED
    BY <2>1, LeastNatural
<1>6. PICK i \in M : depth(es[i]) = d /\ Rank[es[i].path] = r
  BY <1>4, <1>5
<1>7. \A j \in M : depth(es[i]) < depth(es[j]) \/ (depth(es[i]) = depth(es[j]) /\ Rank[es[i].path] <= Rank[es[j].path])
  <2>1. TAKE j \in M
  <2>2. CASE depth(es[j]) = d
    BY <1>4, <1>5, <1>6, <2>2
  <2>3. CASE depth(es[j]) # d
    <3>1. d \in Nat /\ depth(es[j]) \in Nat /\ d <= depth(es[j])
      BY <1>2, <1>3, <1>6
    <3>2. QED
      BY <1>6, <2>3, <3>1
  <2>4. QED
    BY <2>2, <2>3
<1>8. \E k \in M : \A j \in M : depth(es[k]) < depth(es[j]) \/ (depth(es[k]) = depth(es[j]) /\ Rank[es[k].path] <= Rank[es[j].path])
  BY <1>6, <1>7
<1>9. QED
  BY <1>1, <1>8 DEF findManifestEntry

\* The manifest is the same one, and what it is the root of is a folder deeper.
LEMMA NestedManifest ==
    ASSUME NEW Names, "packed" \in Names, NEW es, Listed(es, Names), NEW fs, Listed(fs, Names), Nested(es, fs),
           PathsAreRanked({es[i].path : i \in manifestEntries(es)}), manifestEntries(es) # {}
    PROVE  /\ manifestEntries(fs) = manifestEntries(es) /\ findManifestEntry(fs) = findManifestEntry(es)
           /\ findManifestEntry(es) \in manifestEntries(es)
           /\ getExtensionRoot(es) \in Seq(Names) /\ getExtensionRoot(fs) = Pack(getExtensionRoot(es))
<1>1. \A i \in fileIndices(es) : /\ i \in DOMAIN es /\ es[i].path \in Seq(Names) /\ es[i].path # NoPath
                                 /\ Len(es[i].path) \in Nat \ {0}
                                 /\ fs[i].path = Pack(es[i].path) /\ Len(fs[i].path) = Len(es[i].path) + 1
                                 /\ fileName(fs[i]) = fileName(es[i]) /\ depth(fs[i]) = depth(es[i]) + 1
                                 /\ depth(es[i]) \in Nat
  <2>1. TAKE i \in fileIndices(es)
  <2>2. PICK p \in Seq(Names) : p = es[i].path /\ p # NoPath /\ i \in DOMAIN es
    BY DEF fileIndices, Listed
  <2>3. Len(p) \in Nat \ {0}
    BY <2>2, EmptySeq, LenProperties DEF NoPath
  <2>4. fs[i].path = Pack(p)
    BY <2>2 DEF Nested
  <2>5. Len(Pack(p)) = Len(p) + 1 /\ Pack(p)[Len(Pack(p))] = p[Len(p)]
    BY <2>2, PackedPath
  <2>6. QED
    BY <2>2, <2>3, <2>4, <2>5 DEF fileName, depth
<1>2. manifestEntries(fs) = manifestEntries(es)
  BY <1>1 DEF manifestEntries, Nested
<1>3. \A i \in manifestEntries(es) : Rank[es[i].path] \in Nat
  BY DEF PathsAreRanked
<1>4. PICK found : found = findManifestEntry(es) /\ found \in manifestEntries(es)
  BY <1>3, ManifestIsFound
<1>5. PICK M : M = manifestEntries(es) /\ \A i \in M : i \in fileIndices(es)
  BY DEF manifestEntries
<1>6. \A i \in M : \A j \in M :
        (depth(fs[i]) < depth(fs[j]) \/ (depth(fs[i]) = depth(fs[j]) /\ Rank[fs[i].path] <= Rank[fs[j].path]))
        <=> (depth(es[i]) < depth(es[j]) \/ (depth(es[i]) = depth(es[j]) /\ Rank[es[i].path] <= Rank[es[j].path]))
  <2>1. TAKE i \in M
  <2>2. TAKE j \in M
  <2>3. depth(fs[i]) < depth(fs[j]) <=> depth(es[i]) < depth(es[j])
    BY <1>1, <1>5
  <2>4. depth(fs[i]) = depth(fs[j]) <=> depth(es[i]) = depth(es[j])
    BY <1>1, <1>5
  <2>5. ASSUME depth(es[i]) = depth(es[j])
        PROVE  Rank[fs[i].path] <= Rank[fs[j].path] <=> Rank[es[i].path] <= Rank[es[j].path]
    <3>1. Len(es[i].path) = Len(es[j].path)
      BY <1>1, <1>5, <2>5 DEF depth
    <3>2. QED
      BY <1>1, <1>5, <3>1 DEF PathsAreRanked
  <2>6. QED
    BY <2>3, <2>4, <2>5
<1>7. findManifestEntry(fs) = findManifestEntry(es)
  BY <1>2, <1>5, <1>6, Zenon DEF findManifestEntry
<1>8. PICK p \in Seq(Names) : p = es[found].path /\ Len(p) \in Nat \ {0} /\ fs[found].path = Pack(p)
  BY <1>1, <1>4, <1>5
<1>9. PICK n : n \in Nat /\ n = Len(p) - 1 /\ n < Len(p)
  <2>1. Len(p) - 1 \in Nat /\ Len(p) - 1 < Len(p)
    BY <1>8
  <2>2. QED
    BY <2>1
<1>10. PICK root : root = SubSeq(p, 1, n)
  OBVIOUS
<1>11. root \in Seq(Names) /\ Len(root) = n /\ \A k \in 1 .. n : root[k] = p[k]
  BY <1>9, <1>10, BeginningOfPath
<1>12. getExtensionRoot(es) = root
  BY <1>4, <1>8, <1>9, <1>10 DEF getExtensionRoot, depth
<1>13. PICK deeper : deeper = SubSeq(Pack(p), 1, n + 1)
  OBVIOUS
<1>14. deeper \in Seq(Names) /\ Len(deeper) = n + 1 /\ \A k \in 1 .. n + 1 : deeper[k] = Pack(p)[k]
  <2>1. PICK q : q = Pack(p)
    OBVIOUS
  <2>2. q \in Seq(Names) /\ Len(q) = Len(p) + 1
    BY <2>1, PackedPath
  <2>3. PICK k \in Nat : k = n + 1 /\ k < Len(q)
    BY <1>8, <1>9, <2>2
  <2>4. /\ SubSeq(q, 1, k) \in Seq(Names) /\ Len(SubSeq(q, 1, k)) = k /\ \A j \in 1 .. k : SubSeq(q, 1, k)[j] = q[j]
    BY <2>2, <2>3, BeginningOfPath
  <2>5. QED
    BY <1>13, <2>1, <2>3, <2>4
<1>15. getExtensionRoot(fs) = deeper
  <2>1. Len(Pack(p)) - 1 = n + 1
    BY <1>8, <1>9, PackedPath
  <2>2. QED
    BY <1>4, <1>7, <1>8, <1>13, <2>1 DEF getExtensionRoot, depth
<1>16. deeper = Pack(root)
  <2>1. PICK q : q = Pack(root)
    OBVIOUS
  <2>2. q \in Seq(Names) /\ Len(q) = n + 1 /\ q[1] = "packed" /\ \A k \in 1 .. n : q[k + 1] = root[k]
    BY <1>11, <2>1, PackedPath
  <2>3. Pack(p)[1] = "packed" /\ \A k \in 1 .. Len(p) : Pack(p)[k + 1] = p[k]
    BY PackedPath
  <2>4. \A k \in 1 .. n + 1 : deeper[k] = q[k]
    <3>1. TAKE k \in 1 .. n + 1
    <3>2. CASE k = 1
      BY <1>14, <2>2, <2>3, <3>2
    <3>3. CASE k # 1
      <4>1. PICK j \in 1 .. n : k = j + 1
        BY <1>9, <3>3
      <4>2. j \in 1 .. Len(p)
        BY <1>8, <1>9
      <4>3. QED
        BY <1>11, <1>14, <2>2, <2>3, <4>1, <4>2
    <3>4. QED
      BY <3>2, <3>3
  <2>5. QED
    BY <1>14, <2>1, <2>2, <2>4, SeqEqual
<1>17. QED
  BY <1>2, <1>4, <1>7, <1>11, <1>12, <1>15, <1>16

\* It takes as much.
LEMMA NestedTree ==
    ASSUME NEW Names, "packed" \in Names, NEW es, Listed(es, Names), NEW fs, Listed(fs, Names), Nested(es, fs),
           fileIndices(es) # {}
    PROVE  buildFileTree(fs)[<<"packed">>] = buildFileTree(es)[NoPath]
<1>1. PICK F : F = fileIndices(es)
  OBVIOUS
<1>2. PICK top : top = <<"packed">>
  OBVIOUS
<1>3. top \in Seq(Names) /\ Len(top) = 1 /\ top[1] = "packed"
  BY <1>2
<1>4. \A i \in F : Above(top, fs[i].path) /\ Above(NoPath, es[i].path) /\ i \in DOMAIN fs
  <2>1. TAKE i \in F
  <2>2. PICK p \in Seq(Names) : p = es[i].path /\ p # NoPath /\ fs[i].path = Pack(p)
    BY <1>1 DEF fileIndices, Listed, Nested
  <2>3. Len(p) \in Nat \ {0} /\ Len(NoPath) = 0
    BY <2>2, EmptySeq, LenProperties DEF NoPath
  <2>4. Above(NoPath, p)
    BY <2>3 DEF Above
  <2>5. Above(top, Pack(p))
    <3>1. PICK q : q = Pack(p)
      OBVIOUS
    <3>2. Len(q) = Len(p) + 1 /\ q[1] = "packed"
      BY <2>2, <3>1, PackedPath
    <3>3. Len(top) < Len(q) /\ \A k \in 1 .. Len(top) : top[k] = q[k]
      BY <1>3, <2>3, <3>2
    <3>4. QED
      BY <3>1, <3>3 DEF Above
  <2>6. QED
    BY <1>1, <2>2, <2>4, <2>5 DEF Nested, fileIndices
<1>5. Below(es, NoPath) = F /\ Below(fs, top) = F
  BY <1>1, <1>4 DEF Below, Nested
<1>6. NoPath \in AllFolders(es) /\ top \in AllFolders(fs)
  <2>1. PICK i \in F : i \in DOMAIN fs /\ Above(top, fs[i].path)
    BY <1>1, <1>4
  <2>2. top \in AllFolders(fs)
    BY <1>3, <2>1, FoldersOfEntries
  <2>3. QED
    BY <2>2 DEF AllFolders
<1>7. buildFileTree(es)[NoPath] = Weight(es, NoPath) /\ buildFileTree(fs)[top] = Weight(fs, top)
  BY <1>6, TreeOfEntries
<1>8. SizeOf(fs, F) = SizeOf(es, F)
  <2>1. IsFiniteSet(F) /\ \A i \in F : sizes(es)[i] \in Nat /\ sizes(es)[i] = es[i].size
    BY <1>1, SizesOfFiles
  <2>2. \A i \in F : sizes(fs)[i] = fs[i].size
    BY <1>1, SizesOfFiles DEF Nested
  <2>3. \A i \in F : sizes(fs)[i] = sizes(es)[i]
    BY <1>1, <2>1, <2>2 DEF Nested
  <2>4. PICK e, f : e = sizes(fs) /\ f = sizes(es)
    OBVIOUS
  <2>5. (\A i \in F : f[i] \in Nat) /\ \A i \in F : e[i] = f[i]
    BY <2>1, <2>3, <2>4
  <2>6. SumFunctionOnSet(e, F) = SumFunctionOnSet(f, F)
    BY <2>1, <2>5, SumsAgree
  <2>7. QED
    BY <2>4, <2>6 DEF SizeOf
<1>9. QED
  BY <1>2, <1>5, <1>7, <1>8 DEF Weight

-----------------------------------------------------------------------------
(* The issues of a manifest.                                               *)

\* The field is one the manifest is said to declare, and one that is shown.
Declaring(field) ==
    CASE field = "action" -> {"action", "browser_action", "page_action"}
      [] field = "options" -> {"options_page", "options_ui"}
      [] OTHER -> {field}

Declared(shown, features, field) ==
    /\ Declaring(field) \cap features # {}
    /\ field \in shown \/ (field = "action" /\ "page_action" \in features)

Declares(m, field) == Declared(buildDetectedConfig(m), describeManifest(m), field)

LEMMA FeaturesOfManifest ==
    ASSUME NEW m
    PROVE  /\ m.action.kind = "object" => "action" \in describeManifest(m) /\ "action" \in buildDetectedConfig(m)
           /\ m.browser_action.kind = "object" => "browser_action" \in describeManifest(m) /\ "action" \in buildDetectedConfig(m)
           /\ m.page_action.kind = "object" => "page_action" \in describeManifest(m)
           /\ m.background.kind = "object" => "background" \in describeManifest(m) /\ "background" \in buildDetectedConfig(m)
<1>1. \A k \in {"action", "browser_action", "page_action", "background"} :
        m[k].kind = "object" => k \in describeManifest(m)
  BY DEF describeManifest
<1>2. m.action.kind = "object" \/ m.browser_action.kind = "object" => "action" \in buildDetectedConfig(m)
  BY DEF buildDetectedConfig
<1>3. m.background.kind = "object" => "background" \in buildDetectedConfig(m)
  BY DEF buildDetectedConfig
<1>4. QED
  BY <1>1, <1>2, <1>3

LEMMA ListsOfManifest ==
    ASSUME NEW m
    PROVE  /\ m.content_scripts.groups > 0 => "content_scripts" \in describeManifest(m) /\ "content_scripts" \in buildDetectedConfig(m)
           /\ m.icons.kind = "object" /\ m.icons.paths # <<>> => "icons" \in describeManifest(m) /\ "icons" \in buildDetectedConfig(m)
           /\ m.options_page # NoPath => "options_page" \in describeManifest(m) /\ "options" \in buildDetectedConfig(m)
           /\ m.options_ui.kind = "object" => "options_ui" \in describeManifest(m) /\ "options" \in buildDetectedConfig(m)
           /\ m.resources.kind = "array" =>
                "web_accessible_resources" \in describeManifest(m) /\ "web_accessible_resources" \in buildDetectedConfig(m)
<1>1. m.content_scripts.groups > 0 => "content_scripts" \in describeManifest(m) /\ "content_scripts" \in buildDetectedConfig(m)
  BY DEF describeManifest, buildDetectedConfig
<1>2. m.icons.kind = "object" /\ m.icons.paths # <<>> => "icons" \in describeManifest(m) /\ "icons" \in buildDetectedConfig(m)
  BY DEF describeManifest, buildDetectedConfig
<1>3. m.options_page # NoPath => "options_page" \in describeManifest(m) /\ "options" \in buildDetectedConfig(m)
  BY DEF describeManifest, buildDetectedConfig
<1>4. m.options_ui.kind = "object" => "options_ui" \in describeManifest(m) /\ "options" \in buildDetectedConfig(m)
  BY DEF describeManifest, buildDetectedConfig
<1>5. m.resources.kind = "array" =>
        "web_accessible_resources" \in describeManifest(m) /\ "web_accessible_resources" \in buildDetectedConfig(m)
  BY DEF describeManifest, buildDetectedConfig
<1>6. QED
  BY <1>1, <1>2, <1>3, <1>4, <1>5

\* A path, and paths, that a manifest may hold for a field.
MayRefer(m, P, field, path)  == path \in P /\ (path # NoPath => Declares(m, field))
MayList(m, P, field, paths)  == paths \in Seq(P) /\ (paths # <<>> => Declares(m, field))

LEMMA PathsOfManifest ==
    ASSUME NEW P, NEW m \in ManifestsOf(P)
    PROVE  /\ MayRefer(m, P, "action", actionOf(m).popup)
           /\ MayRefer(m, P, "background", m.background.worker)
           /\ MayList(m, P, "background", m.background.scripts)
           /\ MayRefer(m, P, "background", m.background.page)
           /\ MayList(m, P, "content_scripts", m.content_scripts.js)
           /\ MayList(m, P, "content_scripts", m.content_scripts.css)
           /\ MayList(m, P, "icons", m.icons.paths)
           /\ MayRefer(m, P, "options", m.options_page)
           /\ MayRefer(m, P, "options", m.options_ui.page)
           /\ MayList(m, P, "web_accessible_resources", m.resources.paths)
<1>1. /\ m \in [version : STRING, gecko : BOOLEAN, permissions : SUBSET STRING, hosts : SUBSET STRING,
                action : [kind : STRING, popup : P], browser_action : [kind : STRING, popup : P],
                page_action : [kind : STRING, popup : P],
                background : [kind : STRING, worker : P, scripts : Seq(P), page : P],
                content_scripts : [groups : Nat, js : Seq(P), css : Seq(P)],
                icons : [kind : STRING, paths : Seq(P)], resources : [kind : STRING, paths : Seq(P)],
                options_page : P, options_ui : [kind : STRING, page : P]]
      /\ \A k \in {"action", "browser_action", "page_action"} : m[k].popup # NoPath => m[k].kind = "object"
      /\ \/ m.background.kind = "object"
         \/ m.background.worker = NoPath /\ m.background.scripts = <<>> /\ m.background.page = NoPath
      /\ m.content_scripts.groups > 0 \/ (m.content_scripts.js = <<>> /\ m.content_scripts.css = <<>>)
      /\ m.icons.kind = "object" \/ m.icons.paths = <<>>
      /\ m.options_ui.kind = "object" \/ m.options_ui.page = NoPath
      /\ m.resources.kind = "array" \/ m.resources.paths = <<>>
  BY DEF ManifestsOf
<1>2. actionOf(m).popup \in P /\ (actionOf(m).popup # NoPath => Declares(m, "action"))
  <2>1. actionOf(m).popup \in P
    BY <1>1 DEF actionOf
  <2>2. ASSUME actionOf(m).popup # NoPath PROVE Declares(m, "action")
    <3>1. CASE m.action.kind = "object"
      BY <3>1, FeaturesOfManifest DEF Declares, Declared, Declaring
    <3>2. CASE m.browser_action.kind = "object"
      BY <3>2, FeaturesOfManifest DEF Declares, Declared, Declaring
    <3>3. CASE m.action.kind # "object" /\ m.browser_action.kind # "object"
      <4>1. m.page_action.popup # NoPath
        BY <2>2, <3>3 DEF actionOf
      <4>2. m.page_action.kind = "object"
        BY <1>1, <4>1
      <4>3. QED
        BY <4>2, FeaturesOfManifest DEF Declares, Declared, Declaring
    <3>4. QED
      BY <3>1, <3>2, <3>3
  <2>3. QED
    BY <2>1, <2>2
<1>3. m.background.kind = "object" => Declares(m, "background")
  BY FeaturesOfManifest DEF Declares, Declared, Declaring
<1>4. m.content_scripts.groups > 0 => Declares(m, "content_scripts")
  BY ListsOfManifest DEF Declares, Declared, Declaring
<1>5. m.icons.kind = "object" /\ m.icons.paths # <<>> => Declares(m, "icons")
  BY ListsOfManifest DEF Declares, Declared, Declaring
<1>6. m.options_page # NoPath \/ m.options_ui.kind = "object" => Declares(m, "options")
  BY ListsOfManifest DEF Declares, Declared, Declaring
<1>7. m.resources.kind = "array" => Declares(m, "web_accessible_resources")
  BY ListsOfManifest DEF Declares, Declared, Declaring
<1>8. QED
  BY <1>1, <1>2, <1>3, <1>4, <1>5, <1>6, <1>7 DEF MayRefer, MayList

\* The references a manifest may make.
ReferenceFields == {"action", "background", "content_scripts", "icons", "options", "web_accessible_resources"}

ReferencesOf(m, P) ==
    {r \in [field : ReferenceFields, path : P, category : {"structure", "assets"}] : Declares(m, r.field)}

\* What is named in a list of such references.
Refers(s, m, P) == s \in Seq(ReferencesOf(m, P))

OneRefers(m, P, field, path, category) == MayRefer(m, P, field, path) => Refers(Reference(field, path, category), m, P)
ManyRefer(m, P, field, paths, category) == MayList(m, P, field, paths) => Refers(References(field, paths, category), m, P)

LEMMA OneReference ==
    \A P, m, path, field, category :
        field \in ReferenceFields /\ category \in {"structure", "assets"} => OneRefers(m, P, field, path, category)
<1>1. TAKE P, m, path, field, category
<1>2. HAVE field \in ReferenceFields /\ category \in {"structure", "assets"}
<1>3. SUFFICES ASSUME MayRefer(m, P, field, path)
               PROVE  Reference(field, path, category) \in Seq(ReferencesOf(m, P))
  BY DEF OneRefers, Refers
<1>4. CASE path = NoPath
  BY <1>4 DEF Reference
<1>5. CASE path # NoPath
  <2>1. PICK r : r = [field |-> field, path |-> path, category |-> category]
    OBVIOUS
  <2>2. r \in ReferencesOf(m, P)
    BY <1>5, <1>2, <1>3, <2>1 DEF ReferencesOf, MayRefer
  <2>3. <<r>> \in Seq(ReferencesOf(m, P))
    BY <2>2
  <2>4. QED
    BY <1>5, <2>1, <2>3 DEF Reference
<1>6. QED
  BY <1>4, <1>5

LEMMA ManyReferences ==
    \A P, m, paths, field, category :
        field \in ReferenceFields /\ category \in {"structure", "assets"} => ManyRefer(m, P, field, paths, category)
<1>1. TAKE P, m, paths, field, category
<1>2. HAVE field \in ReferenceFields /\ category \in {"structure", "assets"}
<1>3. SUFFICES ASSUME MayList(m, P, field, paths)
               PROVE  References(field, paths, category) \in Seq(ReferencesOf(m, P))
  BY DEF ManyRefer, Refers
<1>4. paths \in Seq(P) /\ (paths # <<>> => Declares(m, field))
  BY <1>3 DEF MayList
<1>5. PICK n \in Nat : n = Len(paths) /\ DOMAIN paths = 1 .. n /\ \A i \in 1 .. n : paths[i] \in P
  BY <1>4, LenProperties
<1>6. PICK rs : rs = [i \in 1 .. n |-> [field |-> field, path |-> paths[i], category |-> category]]
  OBVIOUS
<1>7. \A i \in 1 .. n : rs[i] \in ReferencesOf(m, P)
  <2>1. TAKE i \in 1 .. n
  <2>2. paths # <<>>
    BY <1>5, <1>4, EmptySeq
  <2>3. PICK r : r = [field |-> field, path |-> paths[i], category |-> category]
    OBVIOUS
  <2>4. r \in ReferencesOf(m, P)
    BY <1>5, <1>2, <1>4, <2>2, <2>3 DEF ReferencesOf
  <2>5. QED
    BY <1>6, <2>3, <2>4
<1>8. rs \in Seq(ReferencesOf(m, P))
  BY <1>6, <1>7
<1>9. QED
  BY <1>5, <1>6, <1>8 DEF References

LEMMA ReferencesInOrder ==
    ASSUME NEW P, NEW m \in ManifestsOf(P)
    PROVE  /\ Refers(Reference("action", actionOf(m).popup, "structure"), m, P)
           /\ Refers(Reference("background", m.background.worker, "structure"), m, P)
           /\ Refers(References("background", m.background.scripts, "structure"), m, P)
           /\ Refers(Reference("background", m.background.page, "structure"), m, P)
           /\ Refers(References("content_scripts", m.content_scripts.js, "structure"), m, P)
           /\ Refers(References("content_scripts", m.content_scripts.css, "assets"), m, P)
           /\ Refers(References("icons", m.icons.paths, "assets"), m, P)
           /\ Refers(Reference("options", m.options_page, "structure"), m, P)
           /\ Refers(Reference("options", m.options_ui.page, "structure"), m, P)
           /\ Refers(References("web_accessible_resources", m.resources.paths, "assets"), m, P)
<1>1. /\ "action" \in ReferenceFields /\ "background" \in ReferenceFields /\ "content_scripts" \in ReferenceFields
      /\ "icons" \in ReferenceFields /\ "options" \in ReferenceFields /\ "web_accessible_resources" \in ReferenceFields
  BY DEF ReferenceFields
<1>2. /\ OneRefers(m, P, "action", actionOf(m).popup, "structure")
      /\ OneRefers(m, P, "background", m.background.worker, "structure")
      /\ ManyRefer(m, P, "background", m.background.scripts, "structure")
      /\ OneRefers(m, P, "background", m.background.page, "structure")
      /\ ManyRefer(m, P, "content_scripts", m.content_scripts.js, "structure")
      /\ ManyRefer(m, P, "content_scripts", m.content_scripts.css, "assets")
      /\ ManyRefer(m, P, "icons", m.icons.paths, "assets")
      /\ OneRefers(m, P, "options", m.options_page, "structure")
      /\ OneRefers(m, P, "options", m.options_ui.page, "structure")
      /\ ManyRefer(m, P, "web_accessible_resources", m.resources.paths, "assets")
  BY <1>1, OneReference, ManyReferences
<1>3. QED
  BY <1>2, PathsOfManifest DEF OneRefers, ManyRefer

LEMMA CollectedReferences ==
    ASSUME NEW P, NEW m \in ManifestsOf(P)
    PROVE  collectReferencedResources(m) \in Seq(ReferencesOf(m, P))
<1>1. PICK R : R = ReferencesOf(m, P)
  OBVIOUS
<1>2. /\ Reference("action", actionOf(m).popup, "structure") \in Seq(R)
      /\ Reference("background", m.background.worker, "structure") \in Seq(R)
      /\ References("background", m.background.scripts, "structure") \in Seq(R)
      /\ Reference("background", m.background.page, "structure") \in Seq(R)
      /\ References("content_scripts", m.content_scripts.js, "structure") \in Seq(R)
      /\ References("content_scripts", m.content_scripts.css, "assets") \in Seq(R)
      /\ References("icons", m.icons.paths, "assets") \in Seq(R)
      /\ Reference("options", m.options_page, "structure") \in Seq(R)
      /\ Reference("options", m.options_ui.page, "structure") \in Seq(R)
      /\ References("web_accessible_resources", m.resources.paths, "assets") \in Seq(R)
  BY <1>1, ReferencesInOrder DEF Refers
<1>3. QED
  BY <1>1, <1>2 DEF collectReferencedResources

-----------------------------------------------------------------------------
(* The issues, and what they are scored.                                   *)

IssueCategories == {"structure", "assets", "configuration", "permissions"}

\* What an issue of a manifest may be.
IssuesOf(m) ==
    {i \in [severity : {"info", "warning"}, category : IssueCategories, field : ReferenceFields \union {"manifest"}] :
        i.field # "manifest" => Declares(m, i.field)}

LEMMA BuiltIssues ==
    ASSUME NEW P, NEW m \in ManifestsOf(P), NEW es, NEW root
    PROVE  buildIssues(es, m, root) \in Seq(IssuesOf(m))
<1>1. PICK refs : refs = collectReferencedResources(m) /\ refs \in Seq(ReferencesOf(m, P))
  BY CollectedReferences
<1>2. PICK fileMap : fileMap = {es[i].path : i \in fileIndices(es)}
  OBVIOUS
<1>3. PICK I : I = {i \in DOMAIN refs : resolveReferencedPath(root, refs[i].path) \notin fileMap}
  OBVIOUS
<1>4. PICK missing : missing = Kept(refs, I) /\ missing \in Seq(ReferencesOf(m, P))
  <2>1. Kept(refs, I) \in Seq(ReferencesOf(m, P))
    BY <1>1, KeptItems
  <2>2. QED
    BY <2>1
<1>5. PICK n \in Nat : n = Len(missing) /\ \A i \in 1 .. n : missing[i] \in ReferencesOf(m, P)
  BY <1>4, LenProperties
<1>6. PICK is : is = [i \in 1 .. n |-> Issue("warning", missing[i].category, missing[i].field)]
  OBVIOUS
<1>7. \A i \in 1 .. n : is[i] \in IssuesOf(m)
  <2>1. TAKE i \in 1 .. n
  <2>2. PICK r \in ReferencesOf(m, P) : r = missing[i]
    BY <1>5
  <2>3. r.field \in ReferenceFields /\ r.category \in {"structure", "assets"} /\ Declares(m, r.field)
    BY DEF ReferencesOf
  <2>4. PICK issue : issue = [severity |-> "warning", category |-> r.category, field |-> r.field]
    OBVIOUS
  <2>5. issue \in IssuesOf(m)
    BY <2>3, <2>4 DEF IssuesOf, IssueCategories
  <2>6. QED
    BY <1>6, <2>2, <2>4, <2>5 DEF Issue
<1>8. is \in Seq(IssuesOf(m))
  BY <1>6, <1>7
<1>9. buildIssues(es, m, root) = is
  BY <1>1, <1>2, <1>3, <1>4, <1>5, <1>6 DEF buildIssues
<1>10. QED
  BY <1>8, <1>9

LEMMA AllIssues ==
    ASSUME NEW P, NEW m \in ManifestsOf(P), NEW es, NEW root
    PROVE  allIssues(es, m, root) \in Seq(IssuesOf(m))
<1>1. PICK X : X = IssuesOf(m)
  OBVIOUS
<1>2. PICK built : built = buildIssues(es, m, root) /\ built \in Seq(X)
  BY <1>1, BuiltIssues
<1>3. PICK a, b : a = Issue("info", "configuration", "manifest") /\ b = Issue("warning", "permissions", "manifest")
  OBVIOUS
<1>4. a \in X /\ b \in X
  BY <1>1, <1>3 DEF Issue, IssuesOf, IssueCategories
<1>5. PICK of, broad : /\ of = IF m.version = "v2" THEN <<a>> ELSE <<>>
                       /\ broad = IF analyzePermissions(m).broad THEN <<b>> ELSE <<>>
  OBVIOUS
<1>6. of \in Seq(X) /\ broad \in Seq(X)
  BY <1>4, <1>5
<1>7. built \o of \o broad \in Seq(X)
  BY <1>2, <1>6
<1>8. allIssues(es, m, root) = built \o of \o broad
  BY <1>2, <1>3, <1>5 DEF allIssues
<1>9. QED
  BY <1>1, <1>7, <1>8

\* How many issues are of a category, and what it is scored for them.
OfCategory(issues, c) == {i \in DOMAIN issues : issues[i].category = c}
Counted(issues, c)    == Cardinality(OfCategory(issues, c))
Lowering(n)           == IF 100 - n * 8 > 0 THEN 100 - n * 8 ELSE 0
VersionScore(issues, version) ==
    IF version = "unknown" THEN 55 ELSE IF Counted(issues, "manifest") > 0 THEN 70 ELSE 100

LEMMA CountedIssues ==
    ASSUME NEW X, NEW issues \in Seq(X), NEW c
    PROVE  Counted(issues, c) \in Nat /\ (Counted(issues, c) = 0 <=> \A i \in DOMAIN issues : issues[i].category # c)
<1>1. PICK n \in Nat : DOMAIN issues = 1 .. n
  BY LenProperties
<1>2. IsFiniteSet(DOMAIN issues)
  <2>1. IsFiniteSet(1 .. n)
    BY FS_Interval
  <2>2. QED
    BY <1>1, <2>1
<1>3. PICK S : S = OfCategory(issues, c)
  OBVIOUS
<1>4. S \subseteq DOMAIN issues /\ (S = {} <=> \A i \in DOMAIN issues : issues[i].category # c)
  BY <1>3 DEF OfCategory
<1>5. IsFiniteSet(S)
  BY <1>2, <1>4, FS_Subset
<1>6. Cardinality(S) \in Nat /\ (Cardinality(S) = 0 <=> S = {})
  BY <1>5, FS_CardinalityType, FS_EmptySet
<1>7. QED
  BY <1>3, <1>4, <1>6 DEF Counted

LEMMA LoweredScore ==
    \A n \in Nat : /\ Lowering(n) \in 0 .. 100 /\ (n = 0 => Lowering(n) = 100) /\ (n # 0 => Lowering(n) <= 92)
BY DEF Lowering

LEMMA ScoresOfIssues ==
    ASSUME NEW issues, NEW version
    PROVE  LET scores == buildCategoryScores(issues, version)
           IN  /\ scores[1] = VersionScore(issues, version)
               /\ scores[2] = Lowering(Counted(issues, "structure"))
               /\ scores[3] = Lowering(Counted(issues, "configuration"))
               /\ scores[4] = Lowering(Counted(issues, "permissions"))
               /\ scores[5] = Lowering(Counted(issues, "assets"))
<1>1. /\ ScoreCategories[1] = "manifest" /\ ScoreCategories[2] = "structure" /\ ScoreCategories[3] = "configuration"
      /\ ScoreCategories[4] = "permissions" /\ ScoreCategories[5] = "assets"
  BY DEF ScoreCategories
<1>2. 1 \in 1 .. 5 /\ 2 \in 1 .. 5 /\ 3 \in 1 .. 5 /\ 4 \in 1 .. 5 /\ 5 \in 1 .. 5
  OBVIOUS
<1>3. buildCategoryScores(issues, version) =
        [k \in 1 .. 5 |-> IF ScoreCategories[k] # "manifest" THEN Lowering(Counted(issues, ScoreCategories[k]))
                          ELSE VersionScore(issues, version)]
  BY DEF buildCategoryScores, Lowering, VersionScore, Counted, OfCategory
<1>4. QED
  BY <1>1, <1>2, <1>3

\* The five scores, and the health they make.
Five(s, a, b, c, d, e) ==
    /\ a \in {55, 70, 100} /\ b \in 0 .. 100 /\ c \in 0 .. 100 /\ d \in 0 .. 100 /\ e \in 0 .. 100
    /\ s[1] = a /\ s[2] = b /\ s[3] = c /\ s[4] = d /\ s[5] = e

Health(h, a, b, c, d, e) ==
    /\ h \in 0 .. 100
    /\ h = 100 => a = 100 /\ b > 92 /\ c > 92 /\ d > 92 /\ e > 92
    /\ b = 100 /\ c = 100 /\ d = 100 /\ e = 100 /\ a # 70 => h \in {91, 100}

LEMMA HealthOfScores ==
    \A s, a, b, c, d, e : Five(s, a, b, c, d, e) => Health(healthScore(s), a, b, c, d, e)
<1>1. TAKE s, a, b, c, d, e
<1>2. SUFFICES ASSUME a \in {55, 70, 100}, b \in 0 .. 100, c \in 0 .. 100, d \in 0 .. 100, e \in 0 .. 100,
                      s[1] = a, s[2] = b, s[3] = c, s[4] = d, s[5] = e
               PROVE  Health(healthScore(s), a, b, c, d, e)
  BY <1>1 DEF Five
<1>3. PICK t \in Nat : t = a + b + c + d + e /\ t <= 500
  BY <1>2
<1>4. healthScore(s) = (2 * t + 5) \div 10
  BY <1>2, <1>3 DEF healthScore
<1>5. (2 * t + 5) \div 10 \in 0 .. 100 /\ ((2 * t + 5) \div 10 = 100 => t >= 498)
  BY <1>3
<1>6. t >= 498 => a = 100 /\ b > 92 /\ c > 92 /\ d > 92 /\ e > 92
  BY <1>2, <1>3
<1>7. ASSUME b = 100, c = 100, d = 100, e = 100, a # 70
      PROVE  (2 * t + 5) \div 10 \in {91, 100}
  <2>1. t = 455 \/ t = 500
    BY <1>2, <1>3, <1>7
  <2>2. QED
    BY <2>1
<1>8. QED
  BY <1>4, <1>5, <1>6, <1>7 DEF Health

LEMMA ScoresAreSound ==
    ASSUME NEW m, NEW issues \in Seq(IssuesOf(m)), NEW version, NEW total, total = healthScore(buildCategoryScores(issues, version))
    PROVE  /\ total \in 0 .. 100 /\ (total = 100 => issues = <<>>)
           /\ issues = <<>> => total \in {91, 100}
<1>1. PICK s : s = buildCategoryScores(issues, version)
  OBVIOUS
<1>2. PICK c2, c3, c4, c5 : /\ c2 = Counted(issues, "structure") /\ c3 = Counted(issues, "configuration")
                            /\ c4 = Counted(issues, "permissions") /\ c5 = Counted(issues, "assets")
  OBVIOUS
<1>3. /\ s[1] = VersionScore(issues, version) /\ s[2] = Lowering(c2) /\ s[3] = Lowering(c3)
      /\ s[4] = Lowering(c4) /\ s[5] = Lowering(c5)
  BY <1>1, <1>2, ScoresOfIssues
<1>4. /\ c2 \in Nat /\ (c2 = 0 <=> \A i \in DOMAIN issues : issues[i].category # "structure")
      /\ c3 \in Nat /\ (c3 = 0 <=> \A i \in DOMAIN issues : issues[i].category # "configuration")
      /\ c4 \in Nat /\ (c4 = 0 <=> \A i \in DOMAIN issues : issues[i].category # "permissions")
      /\ c5 \in Nat /\ (c5 = 0 <=> \A i \in DOMAIN issues : issues[i].category # "assets")
  BY <1>2, CountedIssues
<1>5. \A i \in DOMAIN issues : issues[i] \in IssuesOf(m) /\ issues[i].category \in IssueCategories
  <2>1. TAKE i \in DOMAIN issues
  <2>2. PICK x \in IssuesOf(m) : x = issues[i]
    BY LenProperties
  <2>3. x.category \in IssueCategories
    BY DEF IssuesOf
  <2>4. QED
    BY <2>2, <2>3
<1>6. VersionScore(issues, version) \in {55, 70, 100} /\ (issues = <<>> => VersionScore(issues, version) # 70)
  <2>1. Counted(issues, "manifest") \in Nat /\ (issues = <<>> => Counted(issues, "manifest") = 0)
    BY CountedIssues
  <2>2. QED
    BY <2>1 DEF VersionScore
<1>7. PICK a, b, c, d, e : /\ a = VersionScore(issues, version) /\ b = Lowering(c2) /\ c = Lowering(c3)
                           /\ d = Lowering(c4) /\ e = Lowering(c5)
  OBVIOUS
<1>8. /\ b \in 0 .. 100 /\ (c2 = 0 => b = 100) /\ (c2 # 0 => b <= 92)
      /\ c \in 0 .. 100 /\ (c3 = 0 => c = 100) /\ (c3 # 0 => c <= 92)
      /\ d \in 0 .. 100 /\ (c4 = 0 => d = 100) /\ (c4 # 0 => d <= 92)
      /\ e \in 0 .. 100 /\ (c5 = 0 => e = 100) /\ (c5 # 0 => e <= 92)
  BY <1>4, <1>7, LoweredScore
<1>9. /\ healthScore(s) \in 0 .. 100
      /\ healthScore(s) = 100 => a = 100 /\ b > 92 /\ c > 92 /\ d > 92 /\ e > 92
      /\ b = 100 /\ c = 100 /\ d = 100 /\ e = 100 /\ a # 70 => healthScore(s) \in {91, 100}
  <2>1. Five(s, a, b, c, d, e)
    BY <1>3, <1>6, <1>7, <1>8 DEF Five
  <2>2. Health(healthScore(s), a, b, c, d, e)
    BY <2>1, HealthOfScores
  <2>3. QED
    BY <2>2 DEF Health
<1>10. total = 100 => issues = <<>>
  <2>1. SUFFICES ASSUME total = 100 PROVE issues = <<>>
    OBVIOUS
  <2>2. b > 92 /\ c > 92 /\ d > 92 /\ e > 92
    BY <1>1, <1>9, <2>1
  <2>3. c2 = 0 /\ c3 = 0 /\ c4 = 0 /\ c5 = 0
    BY <1>8, <2>2
  <2>4. DOMAIN issues = {}
    BY <1>4, <1>5, <2>3 DEF IssueCategories
  <2>5. QED
    BY <2>4, EmptySeq, LenProperties
<1>11. issues = <<>> => total \in {91, 100}
  <2>1. SUFFICES ASSUME issues = <<>> PROVE total \in {91, 100}
    OBVIOUS
  <2>2. c2 = 0 /\ c3 = 0 /\ c4 = 0 /\ c5 = 0
    BY <1>4, <2>1
  <2>3. QED
    BY <1>1, <1>6, <1>7, <1>8, <1>9, <2>1, <2>2
<1>12. QED
  BY <1>1, <1>9, <1>10, <1>11

LEMMA IssuesAreOfFields ==
    ASSUME NEW m, NEW issues \in Seq(IssuesOf(m)), NEW i \in DOMAIN issues, issues[i].field # "manifest"
    PROVE  Declares(m, issues[i].field)
<1>1. PICK x \in IssuesOf(m) : x = issues[i]
  BY LenProperties
<1>2. QED
  BY <1>1 DEF IssuesOf

-----------------------------------------------------------------------------
(* What is said of a package that was packed with its folder.              *)

LEMMA PackedResolution ==
    ASSUME NEW Names, "packed" \in Names, NEW root \in Seq(Names), NEW q \in Seq(Names)
    PROVE  /\ resolveReferencedPath(root, q) \in Seq(Names)
           /\ resolveReferencedPath(Pack(root), q) = Pack(resolveReferencedPath(root, q))
<1>1. PICK n : n = normalizePath(q) /\ n \in Seq(Names)
  BY NormalizedPath
<1>2. PICK x \in Seq(Names) : x = <<"packed">>
  <2>1. <<"packed">> \in Seq(Names)
    OBVIOUS
  <2>2. QED
    BY <2>1
<1>3. root \o n \in Seq(Names)
  BY <1>1
<1>4. (x \o root) \o n = x \o (root \o n)
  BY <1>1, <1>2
<1>5. QED
  BY <1>1, <1>2, <1>3, <1>4 DEF resolveReferencedPath, Pack

FilePaths(es) == {es[i].path : i \in fileIndices(es)}

LEMMA PackedIsThere ==
    ASSUME NEW Names, "packed" \in Names, NEW es, Listed(es, Names), NEW fs, Nested(es, fs), NEW p \in Seq(Names)
    PROVE  Pack(p) \in FilePaths(fs) <=> p \in FilePaths(es)
<1>1. \A i \in fileIndices(es) : es[i].path \in Seq(Names) /\ fs[i].path = Pack(es[i].path)
  BY DEF Listed, Nested, fileIndices
<1>2. fileIndices(fs) = fileIndices(es)
  BY DEF Nested
<1>3. ASSUME Pack(p) \in FilePaths(fs) PROVE p \in FilePaths(es)
  <2>1. PICK i \in fileIndices(es) : Pack(p) = fs[i].path
    BY <1>2, <1>3 DEF FilePaths
  <2>2. PICK q \in Seq(Names) : q = es[i].path /\ Pack(p) = Pack(q)
    BY <1>1, <2>1
  <2>3. p = q
    BY <2>2, PackedPathsDiffer
  <2>4. QED
    BY <2>2, <2>3 DEF FilePaths
<1>4. ASSUME p \in FilePaths(es) PROVE Pack(p) \in FilePaths(fs)
  BY <1>1, <1>2, <1>4 DEF FilePaths
<1>5. QED
  BY <1>3, <1>4

LEMMA NestedIssues ==
    ASSUME NEW Names, "packed" \in Names, NEW es, Listed(es, Names), NEW fs, Nested(es, fs),
           NEW m \in ManifestsOf(Seq(Names)), NEW root \in Seq(Names)
    PROVE  allIssues(fs, m, Pack(root)) = allIssues(es, m, root)
<1>1. PICK refs : refs = collectReferencedResources(m) /\ refs \in Seq(ReferencesOf(m, Seq(Names)))
  BY CollectedReferences
<1>2. \A i \in DOMAIN refs : refs[i].path \in Seq(Names)
  <2>1. TAKE i \in DOMAIN refs
  <2>2. PICK r \in ReferencesOf(m, Seq(Names)) : r = refs[i]
    BY <1>1, LenProperties
  <2>3. QED
    BY <2>2 DEF ReferencesOf
<1>3. \A i \in DOMAIN refs : resolveReferencedPath(Pack(root), refs[i].path) \notin FilePaths(fs)
                             <=> resolveReferencedPath(root, refs[i].path) \notin FilePaths(es)
  <2>1. TAKE i \in DOMAIN refs
  <2>2. PICK q \in Seq(Names) : q = refs[i].path
    BY <1>2
  <2>3. PICK p \in Seq(Names) : p = resolveReferencedPath(root, q) /\ resolveReferencedPath(Pack(root), q) = Pack(p)
    BY PackedResolution
  <2>4. Pack(p) \in FilePaths(fs) <=> p \in FilePaths(es)
    BY PackedIsThere
  <2>5. QED
    BY <2>2, <2>3, <2>4
<1>4. PICK I : I = {i \in DOMAIN refs : resolveReferencedPath(root, refs[i].path) \notin FilePaths(es)}
  OBVIOUS
<1>5. I = {i \in DOMAIN refs : resolveReferencedPath(Pack(root), refs[i].path) \notin FilePaths(fs)}
  BY <1>3, <1>4
<1>6. PICK missing : missing = Kept(refs, I)
  OBVIOUS
<1>7. PICK is : is = [i \in 1 .. Len(missing) |-> Issue("warning", missing[i].category, missing[i].field)]
  OBVIOUS
<1>8. buildIssues(es, m, root) = is
  BY <1>1, <1>4, <1>6, <1>7 DEF buildIssues, FilePaths
<1>9. buildIssues(fs, m, Pack(root)) = is
  BY <1>1, <1>5, <1>6, <1>7 DEF buildIssues, FilePaths
<1>10. QED
  BY <1>8, <1>9 DEF allIssues

\* The files of a path, in the ZIP.
At(raw, path) == {k \in fileIndices(raw) : raw[k].path = path}

LEMMA NestedNamespaces ==
    ASSUME NEW Names, "packed" \in Names, NEW es, Listed(es, Names), NEW fs, Nested(es, fs),
           NEW raw \in Seq(ZipFiles(Names)), NEW wrapped, WrappedFrom(wrapped, raw),
           NEW pkg, pkg.files = raw, NEW packed, packed.files = wrapped
    PROVE  scanNamespaces(packed, fs) = scanNamespaces(pkg, es)
<1>1. \A k \in DOMAIN raw : /\ raw[k].path \in Seq(Names) /\ wrapped[k].path = Pack(raw[k].path)
                            /\ wrapped[k].uses = raw[k].uses /\ wrapped[k].folder = raw[k].folder
  <2>1. TAKE k \in DOMAIN raw
  <2>2. PICK e \in ZipFiles(Names) : e = raw[k]
    BY LenProperties
  <2>3. e.path \in Seq(Names)
    BY ReadOne
  <2>4. QED
    BY <2>2, <2>3 DEF WrappedFrom
<1>2. fileIndices(wrapped) = fileIndices(raw) /\ \A k \in fileIndices(raw) : k \in DOMAIN raw
  BY <1>1 DEF fileIndices, isFile, WrappedFrom
<1>3. ASSUME NEW i \in fileIndices(es)
      PROVE  zipFile(packed, fs[i].path) = zipFile(pkg, es[i].path)
  <2>1. PICK p \in Seq(Names) : p = es[i].path /\ fs[i].path = Pack(p)
    BY DEF Listed, Nested, fileIndices
  <2>2. \A k \in fileIndices(raw) : wrapped[k].path = Pack(p) <=> raw[k].path = p
    <3>1. TAKE k \in fileIndices(raw)
    <3>2. PICK q \in Seq(Names) : q = raw[k].path /\ wrapped[k].path = Pack(q)
      BY <1>1, <1>2
    <3>3. Pack(q) = Pack(p) => q = p
      BY PackedPathsDiffer
    <3>4. QED
      BY <3>2, <3>3
  <2>3. QED
    BY <1>2, <2>1, <2>2 DEF zipFile
<1>4. PICK sources : sources = {i \in fileIndices(es) : es[i].script}
  OBVIOUS
<1>5. sources = {i \in fileIndices(fs) : fs[i].script}
  BY <1>4 DEF Nested
<1>6. PICK scanned : scanned = {i \in sources : Cardinality({j \in sources : j <= i}) <= MaxScanned}
  OBVIOUS
<1>7. PICK K : K = UNION {zipFile(pkg, es[i].path) : i \in scanned}
  OBVIOUS
<1>8. K = UNION {zipFile(packed, fs[i].path) : i \in scanned} /\ K \subseteq fileIndices(raw)
  <2>1. \A i \in scanned : i \in fileIndices(es)
    BY <1>4, <1>6
  <2>2. {zipFile(packed, fs[i].path) : i \in scanned} = {zipFile(pkg, es[i].path) : i \in scanned}
    BY <1>3, <2>1
  <2>3. \A i \in scanned : zipFile(pkg, es[i].path) \subseteq fileIndices(raw)
    BY DEF zipFile
  <2>4. QED
    BY <1>7, <2>2, <2>3
<1>9. UNION {wrapped[k].uses : k \in K} = UNION {raw[k].uses : k \in K}
  <2>1. \A k \in K : wrapped[k].uses = raw[k].uses
    BY <1>1, <1>2, <1>8
  <2>2. {wrapped[k].uses : k \in K} = {raw[k].uses : k \in K}
    BY <2>1
  <2>3. QED
    BY <2>2
<1>10. scanNamespaces(pkg, es) = UNION {raw[k].uses : k \in K}
  BY <1>4, <1>6, <1>7 DEF scanNamespaces
<1>11. scanNamespaces(packed, fs) = UNION {wrapped[k].uses : k \in K}
  BY <1>5, <1>6, <1>8 DEF scanNamespaces
<1>12. QED
  BY <1>9, <1>10, <1>11

LEMMA NestedNotes ==
    ASSUME NEW es, NEW fs, NEW pkg, NEW packed, NEW m, scanNamespaces(packed, fs) = scanNamespaces(pkg, es)
    PROVE  analyzeBrowserCompatibility(packed, fs, m) = analyzeBrowserCompatibility(pkg, es, m)
BY DEF analyzeBrowserCompatibility

SaidAlike(r, again) ==
    /\ again.root = Pack(r.root) /\ again.tree[<<"packed">>] = r.tree[NoPath]
    /\ [again EXCEPT !.root = r.root, !.tree = r.tree] = r

LEMMA NestedResult ==
    ASSUME NEW Names, "packed" \in Names, NEW pkg, pkg.files \in Seq(ZipFiles(Names)),
           NEW packed, packed.files = Wrapped(pkg.files),
           NEW es, es = readEntries(pkg.files), NEW fs, fs = readEntries(packed.files),
           PathsAreRanked({es[i].path : i \in manifestEntries(es)}), manifestEntries(es) # {},
           NEW m \in ManifestsOf(Seq(Names)), NEW r, r = resultOf(pkg, es, m), NEW again, again = resultOf(packed, fs, m)
    PROVE  SaidAlike(r, again)
<1>1. PICK raw \in Seq(ZipFiles(Names)) : raw = pkg.files
  OBVIOUS
<1>2. Listed(es, Names) /\ Listed(fs, Names) /\ Nested(es, fs)
  BY <1>1, PackedIsNested
<1>3. WrappedFrom(Wrapped(raw), raw)
  BY PackedFiles
<1>4. PICK root : root = getExtensionRoot(es) /\ root \in Seq(Names) /\ getExtensionRoot(fs) = Pack(root)
  BY <1>2, NestedManifest
<1>5. allIssues(fs, m, Pack(root)) = allIssues(es, m, root)
  BY <1>2, <1>4, NestedIssues
<1>6. scanNamespaces(packed, fs) = scanNamespaces(pkg, es)
  BY <1>1, <1>2, <1>3, NestedNamespaces
<1>7. analyzeBrowserCompatibility(packed, fs, m) = analyzeBrowserCompatibility(pkg, es, m)
  BY <1>6, NestedNotes
<1>8. fileIndices(es) # {}
  BY DEF manifestEntries
<1>9. buildFileTree(fs)[<<"packed">>] = buildFileTree(es)[NoPath]
  BY <1>2, <1>8, NestedTree
<1>10. PICK issues, scores, notes, shown, features, total :
         /\ issues = allIssues(es, m, root) /\ scores = buildCategoryScores(issues, m.version)
         /\ total = healthScore(scores) /\ notes = analyzeBrowserCompatibility(pkg, es, m)
         /\ shown = buildDetectedConfig(m) /\ features = describeManifest(m)
  OBVIOUS
<1>11. PICK t, u : t = buildFileTree(es) /\ u = buildFileTree(fs)
  OBVIOUS
<1>12. r = [error |-> "none", root |-> root, tree |-> t, issues |-> issues, scores |-> scores, total |-> total,
            shown |-> shown, features |-> features, notes |-> notes]
  BY <1>4, <1>10, <1>11 DEF resultOf
<1>13. again = [error |-> "none", root |-> Pack(root), tree |-> u, issues |-> issues, scores |-> scores, total |-> total,
                shown |-> shown, features |-> features, notes |-> notes]
  BY <1>4, <1>5, <1>7, <1>10, <1>11 DEF resultOf
<1>14. again.root = Pack(r.root) /\ again.tree[<<"packed">>] = r.tree[NoPath]
  BY <1>9, <1>11, <1>12, <1>13
<1>15. [again EXCEPT !.root = r.root, !.tree = r.tree] = r
  <2>1. r.root = root /\ r.tree = t
    BY <1>12
  <2>2. PICK D : D = {"error", "root", "tree", "issues", "scores", "total", "shown", "features", "notes"}
    OBVIOUS
  <2>3. DOMAIN again = D /\ DOMAIN r = D
    BY <1>12, <1>13, <2>2
  <2>4. [again EXCEPT !.root = root, !.tree = t] = [k \in D |-> IF k = "tree" THEN t ELSE IF k = "root" THEN root ELSE again[k]]
    BY <2>3
  <2>5. \A k \in D : r[k] = IF k = "tree" THEN t ELSE IF k = "root" THEN root ELSE again[k]
    BY <1>12, <1>13, <2>2
  <2>6. r = [k \in D |-> r[k]]
    BY <1>12, <2>3
  <2>7. QED
    BY <2>1, <2>4, <2>5, <2>6
<1>16. QED
  BY <1>14, <1>15 DEF SaidAlike

-----------------------------------------------------------------------------
(* Every analysis.                                                         *)

\* What was read is what the package holds, within the limits.
PackageIsRead == readingError(package) = "none" /\ entries = readEntries(package.files)

\* The manifest that was found is a file of the ZIP by the same name.
ManifestIsThere ==
    /\ manifestEntries(entries) # {}
    /\ zipFile(package, entries[findManifestEntry(entries)].path) # {}

AnalyzerInv ==
    /\ package \in Packages
    /\ step \in {"manifest", "structure"} \/ Reported => PackageIsRead
    /\ step = "structure" \/ Reported => ManifestIsThere
    /\ Reported => report = resultOf(package, entries, manifestText.json)
    /\ step # "over" => report = NotAnalyzed

LEMMA AnalyzerStart ==
    ASSUME AnalyzerInit
    PROVE  AnalyzerInv
BY DEF AnalyzerInit, AnalyzerInv, Reported

LEMMA AnalyzerStep ==
    ASSUME AnalyzerInv, [AnalyzerNext]_anVars
    PROVE  AnalyzerInv'
<1>1. CASE chooseFile
  <2>1. package' = package /\ entries' = entries /\ package \in Packages
    BY <1>1 DEF chooseFile, AnalyzerInv
  <2>2. CASE validateExtensionFile(package) = "none"
    BY <1>1, <2>1, <2>2 DEF chooseFile, AnalyzerInv, Reported
  <2>3. CASE validateExtensionFile(package) # "none"
    <3>1. step' = "over" /\ report' = Refused(validateExtensionFile(package))
      BY <1>1, <2>3 DEF chooseFile
    <3>2. report'.error # "none"
      BY <2>3, <3>1 DEF Refused, NotAnalyzed
    <3>3. QED
      BY <2>1, <3>1, <3>2 DEF AnalyzerInv, Reported
  <2>4. QED
    BY <2>2, <2>3
<1>2. CASE readPackage
  <2>1. CASE readingError(package) = "none"
    <3>1. step' = "manifest" /\ package' = package /\ entries' = readEntries(package.files) /\ report' = report /\ step # "over"
      BY <1>2, <2>1 DEF readPackage
    <3>2. PackageIsRead'
      BY <2>1, <3>1 DEF PackageIsRead, readingError
    <3>3. QED
      BY <3>1, <3>2 DEF AnalyzerInv, Reported
  <2>2. CASE readingError(package) # "none"
    <3>1. step' = "over" /\ package' = package /\ report' = Refused(readingError(package))
      BY <1>2, <2>2 DEF readPackage
    <3>2. report'.error # "none"
      BY <2>2, <3>1 DEF Refused, NotAnalyzed
    <3>3. QED
      BY <3>1, <3>2 DEF AnalyzerInv, Reported
  <2>3. QED
    BY <2>1, <2>2
<1>3. CASE readManifest
  <2>1. PICK error : error = IF ManifestIsThere THEN parseManifestJson(manifestText) ELSE "manifest-missing"
    OBVIOUS
  <2>2. step = "manifest" /\ package' = package /\ entries' = entries
    BY <1>3 DEF readManifest
  <2>3. /\ error = "none" => step' = "structure" /\ report' = report
        /\ error # "none" => step' = "over" /\ report' = Refused(error)
    BY <1>3, <2>1 DEF readManifest, ManifestIsThere
  <2>4. PackageIsRead'
    BY <2>2 DEF AnalyzerInv, PackageIsRead, readingError
  <2>5. CASE error = "none"
    <3>1. ManifestIsThere
      BY <2>1, <2>5
    <3>2. ManifestIsThere'
      BY <2>2, <3>1 DEF ManifestIsThere, zipFile
    <3>3. QED
      BY <2>2, <2>3, <2>4, <2>5, <3>2 DEF AnalyzerInv, Reported
  <2>6. CASE error # "none"
    <3>1. report'.error # "none"
      BY <2>3, <2>6 DEF Refused, NotAnalyzed
    <3>2. QED
      BY <2>2, <2>3, <2>6, <3>1 DEF AnalyzerInv, Reported
  <2>7. QED
    BY <2>5, <2>6
<1>4. CASE reportAnalysis
  <2>1. /\ step = "structure" /\ step' = "over" /\ package' = package /\ entries' = entries
        /\ report' = resultOf(package, entries, manifestText.json)
    BY <1>4 DEF reportAnalysis
  <2>2. PackageIsRead' /\ ManifestIsThere'
    BY <2>1 DEF AnalyzerInv, PackageIsRead, ManifestIsThere, readingError, zipFile
  <2>3. manifestText' = manifestText
    BY <2>1 DEF manifestText, zipFile
  <2>4. report' = resultOf(package, entries, manifestText.json)'
    BY <2>1, <2>3 DEF resultOf, analyzeBrowserCompatibility, scanNamespaces, zipFile
  <2>5. QED
    BY <2>1, <2>2, <2>4 DEF AnalyzerInv
<1>5. CASE UNCHANGED anVars
  <2>1. package' = package /\ step' = step /\ entries' = entries /\ report' = report
    BY <1>5 DEF anVars
  <2>2. PackageIsRead' = PackageIsRead /\ ManifestIsThere' = ManifestIsThere /\ Reported' = Reported
    BY <2>1 DEF PackageIsRead, ManifestIsThere, readingError, zipFile, Reported
  <2>3. manifestText' = manifestText
    BY <2>1 DEF manifestText, zipFile
  <2>4. (report = resultOf(package, entries, manifestText.json))' = (report = resultOf(package, entries, manifestText.json))
    BY <2>1, <2>3 DEF resultOf, analyzeBrowserCompatibility, scanNamespaces, zipFile
  <2>5. QED
    BY <2>1, <2>2, <2>4 DEF AnalyzerInv
<1>6. QED
  BY <1>1, <1>2, <1>3, <1>4, <1>5 DEF AnalyzerNext

\* What is reported of a package, the invariant and the hypothesis given.
Analyzed(Words, pkg, es, m) ==
    /\ pkg \in [zip : BOOLEAN, size : Nat, readable : BOOLEAN, files : Seq(ZipFiles(Words))]
    /\ es = readEntries(pkg.files) /\ Listed(es, Words) /\ readingError(pkg) = "none"
    /\ manifestEntries(es) # {} /\ PathsAreRanked({es[i].path : i \in manifestEntries(es)})
    /\ m \in ManifestsOf(Seq(Words))

LEMMA WhatIsReported ==
    ASSUME AnalyzerInv, Reported
    PROVE  Analyzed(Segments, package, entries, manifestText.json) /\ report = resultOf(package, entries, manifestText.json)
<1>1. /\ package \in [zip : BOOLEAN, size : Nat, readable : BOOLEAN, files : Seq(ZipFiles(Segments))]
      /\ PathsAreRanked(ManifestPaths(package))
  BY AnalyzerAssumption DEF AnalyzerInv
<1>2. readingError(package) = "none" /\ entries = readEntries(package.files)
  BY DEF AnalyzerInv, PackageIsRead
<1>3. "packed" \in Segments
  BY AnalyzerAssumption
<1>4. PICK raw \in Seq(ZipFiles(Segments)) : raw = package.files
  BY <1>1
<1>5. Listed(readEntries(raw), Segments)
  BY <1>3, <1>4, EntriesAreListed
<1>6. PICK found : found = zipFile(package, entries[findManifestEntry(entries)].path)
  OBVIOUS
<1>7. PICK k : k = CHOOSE i \in found : TRUE
  OBVIOUS
<1>8. k \in DOMAIN raw
  <2>1. k \in found
    BY <1>6, <1>7 DEF AnalyzerInv, ManifestIsThere
  <2>2. QED
    BY <1>4, <1>6, <2>1 DEF zipFile, fileIndices
<1>9. manifestText = raw[k].text
  BY <1>4, <1>6, <1>7 DEF manifestText
<1>10. PICK e \in ZipFiles(Segments) : e = raw[k]
  BY <1>8, LenProperties
<1>11. e.text.json \in ManifestsOf(Seq(Segments))
  BY DEF ZipFiles
<1>12. QED
  BY <1>1, <1>2, <1>4, <1>5, <1>9, <1>10, <1>11 DEF Analyzed, AnalyzerInv, ManifestIsThere, ManifestPaths

LEMMA TreeOfAnalyzed ==
    ASSUME NEW Words, NEW es, Listed(es, Words), NEW f \in DOMAIN buildFileTree(es)
    PROVE  buildFileTree(es)[f] = SizeOf(es, {i \in fileIndices(es) : f \in Ancestors(es[i].path) \union {NoPath}})
<1>1. buildFileTree(es) = [g \in AllFolders(es) |-> Weight(es, g)]
  BY TreeOfEntries
<1>2. f \in AllFolders(es) /\ f \in Seq(Words)
  BY <1>1, FoldersOfEntries
<1>3. \A i \in fileIndices(es) : f \in Ancestors(es[i].path) \union {NoPath} <=> Above(f, es[i].path)
  <2>1. TAKE i \in fileIndices(es)
  <2>2. PICK p \in Seq(Words) : p = es[i].path /\ p # NoPath
    BY DEF Listed, fileIndices
  <2>3. f \in Ancestors(p) \union {NoPath} <=> Above(f, p)
    BY <1>2, <2>2, AncestorsAreAbove
  <2>4. QED
    BY <2>2, <2>3
<1>4. {i \in fileIndices(es) : f \in Ancestors(es[i].path) \union {NoPath}} = Below(es, f)
  BY <1>3 DEF Below
<1>5. QED
  BY <1>1, <1>2, <1>4 DEF Weight

LEMMA LimitsOfAnalyzed ==
    ASSUME NEW Words, NEW pkg, NEW es, es = readEntries(pkg.files), Listed(es, Words), readingError(pkg) = "none",
           pkg.files \in Seq(ZipFiles(Words)), MaxFiles \in Nat, MaxFileSize \in Nat, MaxTotalSize \in Nat
    PROVE  /\ Len(pkg.files) <= MaxFiles
           /\ \A i \in fileIndices(es) : es[i].size <= MaxFileSize
           /\ SizeOf(es, fileIndices(es)) <= MaxTotalSize
<1>1. PICK over : over = {i \in DOMAIN es : OverSized(es, i)}
  OBVIOUS
<1>2. over = {} /\ ~(Len(pkg.files) > MaxFiles)
  BY <1>1 DEF readingError
<1>3. Len(pkg.files) <= MaxFiles
  <2>1. Len(pkg.files) \in Nat
    BY LenProperties
  <2>2. QED
    BY <1>2, <2>1
<1>4. PICK F : F = fileIndices(es) /\ IsFiniteSet(F) /\ F \subseteq DOMAIN es /\ F \subseteq Nat
  BY SizesOfFiles DEF Listed
<1>5. \A i \in F : sizes(es)[i] = es[i].size /\ sizes(es)[i] \in Nat
  BY <1>4, SizesOfFiles
<1>6. \A i \in F : ~(es[i].size > MaxFileSize) /\ ~(SizeOf(es, {j \in F : j <= i}) > MaxTotalSize)
  <2>1. TAKE i \in F
  <2>2. isFile(es[i]) /\ i \in DOMAIN es
    BY <1>4 DEF fileIndices
  <2>3. ~OverSized(es, i)
    BY <1>1, <1>2, <2>2
  <2>4. QED
    BY <1>4, <2>2, <2>3 DEF OverSized
<1>7. \A i \in F : es[i].size <= MaxFileSize
  <2>1. TAKE i \in F
  <2>2. PICK size \in Nat : size = es[i].size
    BY <1>5
  <2>3. ~(size > MaxFileSize)
    BY <1>6, <2>2
  <2>4. QED
    BY <2>2, <2>3
<1>8. SizeOf(es, F) \in Nat
  <2>1. \A i \in F : sizes(es)[i] \in Nat
    BY <1>5
  <2>2. SumFunctionOnSet(sizes(es), F) \in Nat
    BY <1>4, <2>1, SumIsNatural
  <2>3. QED
    BY <2>2 DEF SizeOf
<1>9. SizeOf(es, F) <= MaxTotalSize
  <2>1. CASE F = {}
    <3>1. SizeOf(es, F) = 0
      BY <2>1, SumOfNothing DEF SizeOf
    <3>2. QED
      BY <3>1
  <2>2. CASE F # {}
    <3>1. PICK last \in F : \A j \in F : j <= last
      BY <1>4, <2>2, MaxOfFinite
    <3>2. {j \in F : j <= last} = F
      BY <3>1
    <3>3. ~(SizeOf(es, F) > MaxTotalSize)
      BY <1>6, <3>2
    <3>4. QED
      BY <1>8, <3>3
  <2>3. QED
    BY <2>1, <2>2
<1>10. QED
  BY <1>3, <1>4, <1>7, <1>9

LEMMA NestingOfAnalyzed ==
    ASSUME NEW Words, "packed" \in Words, NEW pkg, NEW es, NEW m, Analyzed(Words, pkg, es, m), NEW r, r = resultOf(pkg, es, m)
    PROVE  SaidAlike(r, resultOf(Packed(pkg), readEntries(Packed(pkg).files), m))
<1>1. PICK packed : packed = Packed(pkg)
  OBVIOUS
<1>2. packed.files = Wrapped(pkg.files) /\ pkg.files \in Seq(ZipFiles(Words))
  BY <1>1 DEF Packed, Wrapped, Pack, Analyzed
<1>3. PICK fs : fs = readEntries(packed.files)
  OBVIOUS
<1>4. PICK again : again = resultOf(packed, fs, m)
  OBVIOUS
<1>5. /\ es = readEntries(pkg.files) /\ PathsAreRanked({es[i].path : i \in manifestEntries(es)})
      /\ manifestEntries(es) # {} /\ m \in ManifestsOf(Seq(Words))
  BY DEF Analyzed
<1>6. SaidAlike(r, again)
  BY <1>2, <1>3, <1>4, <1>5, NestedResult
<1>7. QED
  BY <1>1, <1>3, <1>4, <1>6

LEMMA AnalyzerSound ==
    ASSUME AnalyzerInv
    PROVE  AnalysisHolds
<1>1. SUFFICES ASSUME Reported PROVE AnalysisHolds
  BY DEF AnalysisHolds, ScoresAreBounded, LimitsAreKept, IssuesAreDeclared, TreeAddsUp, NestingIsIgnored
<1>2. PICK m : m = manifestText.json
  OBVIOUS
<1>3. Analyzed(Segments, package, entries, m) /\ report = resultOf(package, entries, m)
  BY <1>1, <1>2, WhatIsReported
<1>4. /\ m \in ManifestsOf(Seq(Segments)) /\ Listed(entries, Segments) /\ entries = readEntries(package.files)
      /\ readingError(package) = "none" /\ package.files \in Seq(ZipFiles(Segments))
  BY <1>3 DEF Analyzed
<1>5. PICK issues : issues = allIssues(entries, m, getExtensionRoot(entries)) /\ issues \in Seq(IssuesOf(m))
  BY <1>4, AllIssues
<1>6. /\ report.issues = issues /\ report.total = healthScore(buildCategoryScores(issues, m.version))
      /\ report.tree = buildFileTree(entries)
      /\ report.shown = buildDetectedConfig(m) /\ report.features = describeManifest(m)
  BY <1>3, <1>5 DEF resultOf
<1>7. ScoresAreBounded
  <2>1. PICK total : total = healthScore(buildCategoryScores(issues, m.version))
    OBVIOUS
  <2>2. total \in 0 .. 100 /\ (total = 100 => issues = <<>>) /\ (issues = <<>> => total \in {91, 100})
    BY <1>5, <2>1, ScoresAreSound
  <2>3. QED
    BY <1>6, <2>1, <2>2 DEF ScoresAreBounded
<1>8. LimitsAreKept
  <2>1. MaxFiles \in Nat /\ MaxFileSize \in Nat /\ MaxTotalSize \in Nat
    BY AnalyzerAssumption
  <2>2. QED
    BY <1>4, <2>1, LimitsOfAnalyzed DEF LimitsAreKept
<1>9. IssuesAreDeclared
  <2>1. \A i \in DOMAIN issues : issues[i].field # "manifest" => Declares(m, issues[i].field)
    BY <1>5, IssuesAreOfFields
  <2>2. QED
    BY <1>6, <2>1 DEF IssuesAreDeclared, Declares, Declared, Declaring
<1>10. TreeAddsUp
  BY <1>4, <1>6, TreeOfAnalyzed DEF TreeAddsUp
<1>11. NestingIsIgnored
  <2>1. "packed" \in Segments
    BY AnalyzerAssumption
  <2>2. SaidAlike(report, resultOf(Packed(package), readEntries(Packed(package).files), m))
    BY <1>3, <2>1, NestingOfAnalyzed
  <2>3. QED
    BY <1>2, <2>2 DEF NestingIsIgnored, SaidAlike, Pack
<1>12. QED
  BY <1>7, <1>8, <1>9, <1>10, <1>11 DEF AnalysisHolds

\* AnalysisHolds: the score of a package is a percentage that is whole only
\* if there is nothing to report, what is analyzed is within every limit, an
\* issue is of a field that is shown, the sizes of the tree add up, and a
\* package is judged alike with its folder and without, of every package.
THEOREM AnalysesAreSound == AnalyzerSpec => []AnalysisHolds
<1>1. AnalyzerInit => AnalyzerInv
  BY AnalyzerStart
<1>2. AnalyzerInv /\ [AnalyzerNext]_anVars => AnalyzerInv'
  BY AnalyzerStep
<1>3. AnalyzerInv => AnalysisHolds
  BY AnalyzerSound
<1>4. QED
  BY <1>1, <1>2, <1>3, PTL DEF AnalyzerSpec
=============================================================================
