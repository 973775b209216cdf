---------------------------- MODULE Idempotency -----------------------------
(***************************************************************************)
(* Requests of one owner with the same Idempotency-Key: a record is made   *)
(* before the operation is executed and keeps its response for a day.  A   *)
(* record still in flight after five minutes is taken to be abandoned, and *)
(* the next request replaces it, whether its own request died or is slow.  *)
(* Statements of two requests are interleaved.  Not modelled: a database   *)
(* that refuses the commit of a response.                                  *)
(***************************************************************************)
EXTENDS Naturals, FiniteSets

CONSTANT Requests       \* same owner, key and body

ASSUME RequestsAssumption == Requests \subseteq Nat \ {0}

VARIABLES
    record,     \* of the key: whose it is, 0 if there is none, and its status
    at,         \* where every request is
    found,      \* the record it has read
    lapsed      \* requests whose record is out of date: five minutes without a
                \* response, or a day with one

iVars == <<record, at, found, lapsed>>

NoRecord  == [of |-> 0, status |-> "none"]
Record    == [of : Requests, status : {"in_flight", "completed"}] \cup {NoRecord}
Ended     == {"replayed", "refused", "failed", "executed", "crashed"}
\* A request that died may have had its effect.
Effective == {"executing", "responding", "executed", "crashed"}

IdempotencyTypeOK ==
    /\ record \in Record /\ lapsed \subseteq Requests
    /\ at \in [Requests -> {"new", "replacing", "inserting", "executing", "responding"} \cup Ended]
    /\ found \in [Requests -> Record]

IdempotencyInit ==
    /\ record = NoRecord /\ lapsed = {}
    /\ at = [r \in Requests |-> "new"] /\ found = [r \in Requests |-> NoRecord]

Go(r, to) == at' = [at EXCEPT ![r] = to]

\* Mutated verdict: a record in flight is replaced whatever its age.
verdictOfCompleted(rec) ==
    CASE rec = NoRecord -> "inserting"
      [] rec # NoRecord /\ rec.of \in lapsed -> "replacing"
      [] rec.of \notin lapsed /\ rec.status = "completed" -> "replayed"
      [] OTHER -> "replacing"

verdict(rec) ==
    CASE rec = NoRecord -> "inserting"
      [] rec # NoRecord /\ rec.of \in lapsed -> "replacing"
      [] rec.of \notin lapsed /\ rec.status = "completed" -> "replayed"
      [] OTHER -> "refused"

getRecord(r) ==
    /\ at[r] = "new"
    /\ found' = [found EXCEPT ![r] = record]
    /\ Go(r, verdict(record))
    /\ UNCHANGED <<record, lapsed>>

\* By the id of what was found, which may be another's row by now.
replaceRecord(r) ==
    /\ at[r] = "replacing"
    /\ record' = IF record.of = found[r].of THEN NoRecord ELSE record
    /\ Go(r, "inserting")
    /\ UNCHANGED <<found, lapsed>>

\* The key is unique: of two inserts the second fails.
insertRecord(r) ==
    /\ at[r] = "inserting"
    /\ IF record = NoRecord
       THEN record' = [of |-> r, status |-> "in_flight"] /\ Go(r, "executing")
       ELSE UNCHANGED record /\ Go(r, "failed")
    /\ UNCHANGED <<found, lapsed>>

\* It returns, or throws without an effect, and the key is released.
operation(r) ==
    /\ at[r] = "executing"
    /\ \/ Go(r, "responding") /\ UNCHANGED record
       \/ /\ Go(r, "failed")
          /\ record' = IF record.of = r THEN NoRecord ELSE record
    /\ UNCHANGED <<found, lapsed>>

commit(r) ==
    /\ at[r] = "responding" /\ Go(r, "executed")
    /\ record' = IF record.of = r THEN [record EXCEPT !.status = "completed"] ELSE record
    /\ UNCHANGED <<found, lapsed>>

requestDies(r) ==
    /\ at[r] \in {"executing", "responding"} /\ Go(r, "crashed")
    /\ UNCHANGED <<record, found, lapsed>>

lapse(r) ==
    /\ r \notin lapsed /\ (at[r] \in {"executing", "responding"} \/ record.of = r)
    /\ lapsed' = lapsed \cup {r}
    /\ UNCHANGED <<record, at, found>>

\* Retention.
deleteExpiredIdempotencyRecords ==
    /\ record # NoRecord /\ record.of \in lapsed /\ at[record.of] \in Ended
    /\ record' = NoRecord
    /\ UNCHANGED <<at, found, lapsed>>

IdempotencyNext ==
    \/ \E r \in Requests :
        \/ getRecord(r) \/ replaceRecord(r) \/ insertRecord(r)
        \/ operation(r) \/ commit(r) \/ requestDies(r) \/ lapse(r)
    \/ deleteExpiredIdempotencyRecords

IdempotencySpec == IdempotencyInit /\ [][IdempotencyNext]_iVars

\* "replays the stored original response instead of creating a second
\* package/run/matrix": an operation has its effect once, however requests
\* interleave, fail, die and replace records they read before, unless the
\* record of an earlier one lapsed.
ExecutesOnce ==
    \A q, r \in Requests :
        q # r /\ at[q] \in Effective /\ at[r] \in Effective => q \in lapsed \/ r \in lapsed
=============================================================================
