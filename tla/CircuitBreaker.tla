--------------------------- MODULE CircuitBreaker ---------------------------
(***************************************************************************)
(* The breaker of one browser in one worker.  Starts ask it whether they   *)
(* may try, and report what became of them when they know, in any order    *)
(* and however late: a report says nothing of when its start was admitted. *)
(***************************************************************************)
EXTENDS Naturals, Sequences, FiniteSets

CONSTANTS
    FailureThreshold, Window, Cooldown, RecoveryProbes,
    Starts,         \* under way at once: the worker's concurrency
    LastTime,       \* a bound
    MaxReports      \* a bound

ASSUME BreakerAssumption ==
    /\ FailureThreshold \in Nat \ {0} /\ Window \in Nat \ {0}
    /\ Cooldown \in Nat \ {0} /\ RecoveryProbes \in Nat \ {0}

VARIABLES
    now,
    failures,       \* times, oldest first
    openedAt,       \* 0 is null
    probeSuccesses,
    pendingStarts,  \* starts that were admitted and have not reported
    history         \* every report, newest first: of what, and when

brVars == <<now, failures, openedAt, probeSuccesses, pendingStarts, history>>

BreakerTypeOK ==
    /\ now \in Nat /\ failures \in Seq(Nat) /\ openedAt \in Nat
    /\ probeSuccesses \in Nat /\ pendingStarts \in 0 .. Starts
    /\ history \in Seq([ok : BOOLEAN, at : Nat])

BreakerInit ==
    /\ now = 1 /\ failures = <<>> /\ openedAt = 0 /\ probeSuccesses = 0
    /\ pendingStarts = 0 /\ history = <<>>

InWindow(at) == now - at < Window
\* The times are in order: those that have left the window come first.
Left(f) == CHOOSE k \in 0 .. Len(f) :
               /\ \A i \in 1 .. k : ~InWindow(f[i])
               /\ \A i \in (k + 1) .. Len(f) : InWindow(f[i])
prune(f) == SubSeq(f, Left(f) + 1, Len(f))

breakerAllows ==
    /\ pendingStarts < Starts
    /\ failures' = prune(failures)
    /\ pendingStarts' = IF openedAt = 0 \/ now - openedAt >= Cooldown THEN pendingStarts + 1 ELSE pendingStarts
    /\ UNCHANGED <<now, openedAt, probeSuccesses, history>>

Report(ok) ==
    /\ pendingStarts > 0 /\ pendingStarts' = pendingStarts - 1
    /\ Len(history) < MaxReports
    /\ history' = <<[ok |-> ok, at |-> now]>> \o history
    /\ UNCHANGED now

\* Mutated recordBreakerSuccess: a breaker that closes keeps its failures.
successKeepsFailures ==
    /\ Report(TRUE)
    /\ IF openedAt = 0
       THEN failures' = <<>> /\ UNCHANGED <<openedAt, probeSuccesses>>
       ELSE IF probeSuccesses + 1 >= RecoveryProbes
            THEN openedAt' = 0 /\ probeSuccesses' = 0 /\ failures' = prune(failures)
            ELSE probeSuccesses' = probeSuccesses + 1 /\ failures' = prune(failures) /\ UNCHANGED openedAt

recordBreakerSuccess ==
    /\ Report(TRUE)
    /\ IF openedAt = 0
       THEN failures' = <<>> /\ UNCHANGED <<openedAt, probeSuccesses>>
       ELSE IF probeSuccesses + 1 >= RecoveryProbes
            THEN openedAt' = 0 /\ probeSuccesses' = 0 /\ failures' = <<>>
            ELSE probeSuccesses' = probeSuccesses + 1 /\ failures' = prune(failures) /\ UNCHANGED openedAt

recordBreakerFailure ==
    /\ Report(FALSE)
    /\ failures' = Append(prune(failures), now)
    /\ IF openedAt # 0 \/ Len(failures') >= FailureThreshold
       THEN openedAt' = now /\ probeSuccesses' = 0
       ELSE UNCHANGED <<openedAt, probeSuccesses>>

timeGoesOn ==
    /\ now < LastTime /\ now' = now + 1
    /\ UNCHANGED <<failures, openedAt, probeSuccesses, pendingStarts, history>>

BreakerNext ==
    breakerAllows \/ recordBreakerSuccess \/ recordBreakerFailure \/ timeGoesOn

BreakerSpec == BreakerInit /\ [][BreakerNext]_brVars

Newest(n)   == IF Len(history') < n THEN {} ELSE {history'[i] : i \in 1 .. n}
Failing(n)  == Newest(n) # {} /\ \A r \in Newest(n) : ~r.ok /\ now' - r.at < Window
Starting(n) == Newest(n) # {} /\ \A r \in Newest(n) : r.ok /\ r.at >= openedAt

\* The breaker opens when the newest FailureThreshold reports are failures
\* within the window, and not before; it closes when, since it opened, the
\* newest RecoveryProbes reports are successes, and not before.  It goes by
\* the reports alone: one of a start that was admitted before the breaker
\* opened counts as that of a probe, and may close it while it is cooling.
BreakerFollowsReports ==
    [][/\ openedAt = 0 => (openedAt' # 0 <=> Failing(FailureThreshold) /\ history' # history)
       /\ openedAt # 0 => (openedAt' = 0 <=> Starting(RecoveryProbes) /\ history' # history)]_brVars
=============================================================================
