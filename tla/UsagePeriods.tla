---------------------------- MODULE UsagePeriods ----------------------------
(***************************************************************************)
(* The quota of one user and kind from one billing period to the next.  A  *)
(* reservation is counted in the period that created it, the usage event   *)
(* it becomes in the period that consumed it: work that is under way when  *)
(* the period turns leaves the one count and enters the other.             *)
(***************************************************************************)
EXTENDS Naturals, FiniteSets

CONSTANTS
    Limit,          \* of the plan, in one period
    Units,          \* reservations there can be
    LastPeriod      \* a bound

ASSUME UsageAssumption == Limit \in Nat /\ IsFiniteSet(Units)

VARIABLES
    period,         \* the current one, they are numbered
    created,        \* of every reservation: its period, 0 for none
    consumed,       \* of every reservation: the period of its usage event, 0 for none
    released        \* reservations

uVars == <<period, created, consumed, released>>

UsageTypeOK ==
    /\ period \in Nat \ {0}
    /\ created \in [Units -> Nat] /\ consumed \in [Units -> Nat]
    /\ released \subseteq Units

UsageInit ==
    /\ period = 1
    /\ created = [u \in Units |-> 0] /\ consumed = [u \in Units |-> 0] /\ released = {}

openUnit(u) == created[u] # 0 /\ consumed[u] = 0 /\ u \notin released

countUsageInPeriod(p)            == {u \in Units : consumed[u] = p}
\* Mutated countOpenReservationsInPeriod: usage alone counts.
countNoReservations(p)           == {}
countOpenReservationsInPeriod(p) == {u \in Units : openUnit(u) /\ created[u] = p}

\* quotaCheck and the insert, one transaction.
reserveQuota(u) ==
    /\ created[u] = 0
    /\ Cardinality(countUsageInPeriod(period))
        + Cardinality(countOpenReservationsInPeriod(period)) < Limit
    /\ created' = [created EXCEPT ![u] = period]
    /\ UNCHANGED <<period, consumed, released>>

consumeUnit(u) ==
    /\ openUnit(u) /\ consumed' = [consumed EXCEPT ![u] = period]
    /\ UNCHANGED <<period, created, released>>

releaseUnit(u) ==
    /\ openUnit(u) /\ released' = released \cup {u}
    /\ UNCHANGED <<period, created, consumed>>

\* A renewal, or the first of the month.
periodTurns ==
    /\ period < LastPeriod /\ period' = period + 1
    /\ UNCHANGED <<created, consumed, released>>

UsageNext ==
    \/ \E u \in Units : reserveQuota(u) \/ consumeUnit(u) \/ releaseUnit(u)
    \/ periodTurns

UsageSpec == UsageInit /\ [][UsageNext]_uVars

\* Whatever is under way when periods turn, no period admits more than the
\* plan allows: of the units reserved in it, those that were charged, in it or
\* in a later one, and those still open are never more than Limit.  (The
\* charges dated in one period may be: they include what it was handed.)
PeriodBound ==
    \A p \in 1 .. period :
        Cardinality({u \in Units : created[u] = p /\ u \notin released}) <= Limit
=============================================================================
