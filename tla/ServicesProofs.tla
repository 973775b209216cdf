---------------------------- MODULE ServicesProofs ----------------------------
(***************************************************************************)
(* Proofs about the components of MCServices, each on its own and for      *)
(* every value of its constants: quota over the periods, idempotent        *)
(* requests, webhook deliveries, the matrix, the provider's events and the *)
(* circuit breaker.                                                        *)
(***************************************************************************)
EXTENDS MCServices, FiniteSetTheorems, SequenceTheorems, NaturalsInduction, WellFoundedInduction, TLAPS

-----------------------------------------------------------------------------
(***************************************************************************)
(* Quota over the periods.  A unit reserved in the current period is       *)
(* either open, and counted as a reservation of it, or charged, and then   *)
(* in this period: nothing is charged before it is reserved.               *)
(***************************************************************************)
UsageIsOrdered ==
    \A u \in Units :
        /\ created[u] <= period /\ consumed[u] <= period
        /\ consumed[u] # 0 => u \notin released /\ created[u] # 0 /\ created[u] <= consumed[u]

UsageInv == UsageTypeOK /\ UsageIsOrdered /\ PeriodBound

Admitted(p) == {u \in Units : created[u] = p /\ u \notin released}

LEMMA UsageTypes == UsageTypeOK /\ UsageIsOrdered /\ [UsageNext]_uVars => UsageTypeOK' /\ UsageIsOrdered'
BY DEF UsageTypeOK, UsageIsOrdered, UsageNext, uVars, reserveQuota, consumeUnit, releaseUnit, openUnit, periodTurns

LEMMA UnitsFinite ==
    ASSUME NEW S \in SUBSET Units
    PROVE  IsFiniteSet(S) /\ Cardinality(S) \in Nat
BY UsageAssumption, FS_Subset, FS_CardinalityType

\* What the two counts of quotaCheck cover.
LEMMA AdmittedIsCounted ==
    ASSUME UsageTypeOK, UsageIsOrdered
    PROVE  Cardinality(Admitted(period))
             <= Cardinality(countUsageInPeriod(period)) + Cardinality(countOpenReservationsInPeriod(period))
<1> DEFINE charged == countUsageInPeriod(period)
           open == countOpenReservationsInPeriod(period)
<1>1. Admitted(period) \subseteq charged \cup open
  BY DEF Admitted, countUsageInPeriod, countOpenReservationsInPeriod, openUnit, UsageTypeOK, UsageIsOrdered
<1>2. charged \in SUBSET Units /\ open \in SUBSET Units
  BY DEF countUsageInPeriod, countOpenReservationsInPeriod
<1> HIDE DEF charged, open
<1>3. IsFiniteSet(charged \cup open) /\ Cardinality(charged \cap open) \in Nat
  BY <1>2, UnitsFinite
<1>4. Cardinality(charged \cup open) = Cardinality(charged) + Cardinality(open) - Cardinality(charged \cap open)
  BY <1>2, UnitsFinite, FS_Union
<1>5. Cardinality(Admitted(period)) <= Cardinality(charged \cup open)
  BY <1>1, <1>3, FS_Subset
<1>6. Cardinality(Admitted(period)) \in Nat /\ Cardinality(charged) \in Nat /\ Cardinality(open) \in Nat
  BY <1>2, UnitsFinite DEF Admitted
<1>7. QED
  BY <1>3, <1>4, <1>5, <1>6 DEF charged, open

LEMMA UsageStep ==
    ASSUME UsageInv, [UsageNext]_uVars
    PROVE  UsageInv'
<1>1. UsageTypeOK' /\ UsageIsOrdered'
  BY UsageTypes DEF UsageInv
<1>2. ASSUME NEW p \in 1 .. period'
      PROVE  Cardinality(Admitted(p)') <= Limit
  <2>1. CASE p = period /\ \E u \in Units : reserveQuota(u)
    <3>1. PICK u \in Units : reserveQuota(u)
      BY <2>1
    <3>2. Admitted(p)' \subseteq Admitted(p) \cup {u}
      BY <3>1 DEF reserveQuota, Admitted, UsageInv, UsageTypeOK
    <3>3. Cardinality(Admitted(p)) < Limit
      <4>1. /\ Cardinality(Admitted(p)) \in Nat /\ Cardinality(countUsageInPeriod(p)) \in Nat
            /\ Cardinality(countOpenReservationsInPeriod(p)) \in Nat
        BY UnitsFinite DEF Admitted, countUsageInPeriod, countOpenReservationsInPeriod
      <4>2. QED
        BY <2>1, <3>1, <4>1, AdmittedIsCounted, UsageAssumption DEF reserveQuota, UsageInv
    <3>4. IsFiniteSet(Admitted(p)) /\ Cardinality(Admitted(p)) \in Nat
      BY UnitsFinite DEF Admitted
    <3>5. IsFiniteSet(Admitted(p) \cup {u}) /\ Cardinality(Admitted(p) \cup {u}) <= Cardinality(Admitted(p)) + 1
      <4>1. /\ IsFiniteSet(Admitted(p) \cup {u})
            /\ \/ Cardinality(Admitted(p) \cup {u}) = Cardinality(Admitted(p))
               \/ Cardinality(Admitted(p) \cup {u}) = Cardinality(Admitted(p)) + 1
        BY <3>4, FS_AddElement
      <4>2. QED
        BY <3>4, <4>1
    <3>6. Cardinality(Admitted(p)') <= Cardinality(Admitted(p) \cup {u})
      BY <3>2, <3>5, FS_Subset
    <3>7. Cardinality(Admitted(p)') \in Nat /\ Cardinality(Admitted(p) \cup {u}) \in Nat
      <4>1. Admitted(p)' \in SUBSET Units /\ Admitted(p) \cup {u} \in SUBSET Units
        BY DEF Admitted
      <4>2. QED
        BY <4>1, UnitsFinite
    <3>8. QED
      BY <3>3, <3>4, <3>5, <3>6, <3>7, UsageAssumption
  <2>2. CASE p \in 1 .. period /\ ~(p = period /\ \E u \in Units : reserveQuota(u))
    <3>1. Admitted(p)' \subseteq Admitted(p)
      BY <2>2 DEF UsageInv, UsageTypeOK, UsageNext, uVars, reserveQuota, consumeUnit, releaseUnit, periodTurns, Admitted
    <3>2. IsFiniteSet(Admitted(p)) /\ Cardinality(Admitted(p)) \in Nat
      BY UnitsFinite DEF Admitted
    <3>3. Cardinality(Admitted(p)') <= Cardinality(Admitted(p)) /\ Cardinality(Admitted(p)') \in Nat
      BY <3>1, <3>2, FS_Subset, FS_CardinalityType
    <3>4. Cardinality(Admitted(p)) <= Limit
      BY <2>2 DEF UsageInv, PeriodBound, Admitted
    <3>5. QED
      BY <3>2, <3>3, <3>4, UsageAssumption
  <2>3. CASE p \notin 1 .. period
    <3>1. p = period + 1 /\ UNCHANGED <<created, released>>
      BY <2>3 DEF UsageInv, UsageTypeOK, UsageNext, uVars, reserveQuota, consumeUnit, releaseUnit, periodTurns
    <3>2. Admitted(p)' = {}
      BY <3>1 DEF Admitted, UsageInv, UsageTypeOK, UsageIsOrdered
    <3>3. QED
      BY <3>2, FS_EmptySet, UsageAssumption
  <2>4. QED
    BY <2>1, <2>2, <2>3
<1>3. PeriodBound'
  BY <1>2 DEF PeriodBound, Admitted
<1>4. QED
  BY <1>1, <1>3 DEF UsageInv

LEMMA UsageStart == UsageInit => UsageInv
<1>1. SUFFICES ASSUME UsageInit
               PROVE  UsageInv
  OBVIOUS
<1>2. \A p \in 1 .. period : {u \in Units : created[u] = p /\ u \notin released} = {}
  BY <1>1 DEF UsageInit
<1>3. PeriodBound
  BY <1>2, FS_EmptySet, UsageAssumption DEF PeriodBound
<1>4. QED
  BY <1>1, <1>3 DEF UsageInit, UsageInv, UsageTypeOK, UsageIsOrdered

\* No period admits more than the plan allows, for any number of units and periods,
\* though a unit leaves the count of the period that reserved it and enters that of
\* the one that charges it (quotaCheck, countUsageInPeriod).
THEOREM PeriodsAreBounded == UsageSpec => []PeriodBound
<1>1. UsageInv => PeriodBound
  BY DEF UsageInv
<1>2. QED
  BY <1>1, UsageStart, UsageStep, PTL DEF UsageSpec

-----------------------------------------------------------------------------
(***************************************************************************)
(* Idempotent requests.  The record of a request that may have had its     *)
(* effect is its own until it lapses: whoever takes it away has read one   *)
(* that had lapsed.                                                        *)
(***************************************************************************)
RecordIsOwn ==
    /\ \A r \in Requests : at[r] \in Effective /\ r \notin lapsed => record.of = r
    /\ \A r \in Requests : at[r] = "replacing" => found[r].of \in lapsed

IdempotencyInv == IdempotencyTypeOK /\ RecordIsOwn

LEMMA IdempotencyStart == IdempotencyInit => IdempotencyInv
BY DEF IdempotencyInit, IdempotencyInv, IdempotencyTypeOK, RecordIsOwn, Effective, NoRecord, Record

LEMMA IdempotencyStep ==
    ASSUME IdempotencyInv, [IdempotencyNext]_iVars
    PROVE  IdempotencyInv'
<1> USE DEF IdempotencyInv, IdempotencyTypeOK, RecordIsOwn, Effective, Ended, Go
<1>z. 0 \notin Requests /\ NoRecord \in Record /\ NoRecord.of = 0
  BY RequestsAssumption DEF NoRecord, Record
<1>r. \A rec \in Record : rec.of \in Requests \/ rec = NoRecord
  BY DEF Record, NoRecord
<1>1. ASSUME NEW r \in Requests, getRecord(r)
      PROVE  IdempotencyInv'
  <2>1. /\ verdict(record) \in {"inserting", "replacing", "replayed", "refused"}
        /\ verdict(record) = "replacing" => record.of \in lapsed
    BY <1>r DEF verdict
  <2>2. QED
    BY <1>1, <2>1 DEF getRecord
<1>2. ASSUME NEW r \in Requests, replaceRecord(r)
      PROVE  IdempotencyInv'
  <2>1. record' \in Record
    BY <1>2, <1>z DEF replaceRecord
  <2>2. record'.of = record.of \/ record.of \in lapsed
    BY <1>2 DEF replaceRecord
  <2>3. QED
    BY <1>2, <2>1, <2>2 DEF replaceRecord
<1>3. ASSUME NEW r \in Requests, insertRecord(r)
      PROVE  IdempotencyInv'
  <2>1. [of |-> r, status |-> "in_flight"] \in Record
    BY DEF Record
  <2>2. CASE record = NoRecord
    BY <1>3, <1>z, <2>1, <2>2 DEF insertRecord
  <2>3. CASE record # NoRecord
    BY <1>3, <2>3 DEF insertRecord
  <2>4. QED
    BY <2>2, <2>3
<1>4. ASSUME NEW r \in Requests, operation(r)
      PROVE  IdempotencyInv'
  BY <1>4, <1>z DEF operation
<1>5. ASSUME NEW r \in Requests, commit(r)
      PROVE  IdempotencyInv'
  <2>1. record' \in Record /\ record'.of = record.of
    BY <1>5, <1>z DEF commit, Record, NoRecord
  <2>2. QED
    BY <1>5, <2>1 DEF commit
<1>6. ASSUME NEW r \in Requests, requestDies(r) \/ lapse(r)
      PROVE  IdempotencyInv'
  BY <1>6 DEF requestDies, lapse
<1>7. CASE deleteExpiredIdempotencyRecords
  BY <1>7, <1>z DEF deleteExpiredIdempotencyRecords
<1>8. CASE UNCHANGED iVars
  BY <1>8 DEF iVars
<1>9. QED
  BY <1>1, <1>2, <1>3, <1>4, <1>5, <1>6, <1>7, <1>8 DEF IdempotencyNext

\* An operation has its effect once, for any number of requests with one key, unless
\* a record lapsed (five minutes without a response, or a day with one).
THEOREM EffectsAreSingle == IdempotencySpec => []ExecutesOnce
<1>1. IdempotencyInv => ExecutesOnce
  BY DEF IdempotencyInv, RecordIsOwn, ExecutesOnce
<1>2. QED
  BY <1>1, IdempotencyStart, IdempotencyStep, PTL DEF IdempotencySpec

-----------------------------------------------------------------------------
(***************************************************************************)
(* Webhook deliveries.  An attempt has read no more attempts than have     *)
(* ended, so what it writes, one more, is never ahead of them once its own *)
(* has.                                                                    *)
(***************************************************************************)
ReadsAreBehind ==
    /\ \A r \in running : r.read <= tries[r.d] /\ r.read <= MaxRetries + 1
    /\ \A d \in Deliveries : delivery[d] \notin Skipped => attempts[d] <= MaxRetries + 1

DeliveryInv == DeliveryTypeOK /\ ReadsAreBehind /\ DeadLetterIsEarned

LEMMA DeliveryStart == DeliveryInit => DeliveryInv
BY RetriesAssumption DEF DeliveryInit, DeliveryInv, DeliveryTypeOK, ReadsAreBehind, DeadLetterIsEarned,
   Skipped, Settled

\* What is read of a row.
LEMMA AttemptStarts ==
    ASSUME DeliveryInv, NEW d \in Deliveries, NEW by \in 0 .. Sweep, readDelivery(d, by),
           UNCHANGED <<hook, edit, edits, tries, crashes>>,
           keys' \subseteq Deliveries \X (0 .. MaxRetries + 1), queued' \subseteq keys',
           sweeping' \subseteq Deliveries
    PROVE  DeliveryInv'
<1> USE RetriesAssumption DEF DeliveryInv, DeliveryTypeOK, ReadsAreBehind, DeadLetterIsEarned
<1>1. CASE UNCHANGED <<dRow, running>>
  BY <1>1 DEF dRow
<1>2. CASE /\ delivery[d] \notin Skipped
           /\ delivery' = [delivery EXCEPT ![d] = "dead_letter"]
           /\ due' = [due EXCEPT ![d] = FALSE] /\ removed' = [removed EXCEPT ![d] = TRUE]
           /\ UNCHANGED <<attempts, running>>
  BY <1>2 DEF Skipped, Settled
<1>3. CASE /\ delivery[d] \notin Skipped
           /\ running' = running \cup {[d |-> d, by |-> by, read |-> attempts[d], got |-> "nothing"]}
           /\ UNCHANGED dRow
  <2> DEFINE new == [d |-> d, by |-> by, read |-> attempts[d], got |-> "nothing"]
  <2>1. new \in Attempt /\ new.read = attempts[d] /\ new.d = d
    BY DEF Attempt
  <2>2. running' = running \cup {new}
    BY <1>3
  <2> HIDE DEF new
  <2>3. QED
    BY <1>3, <2>1, <2>2 DEF dRow
<1>4. QED
  BY <1>1, <1>2, <1>3 DEF readDelivery

\* What an attempt that ends with n attempts writes.
LEMMA AttemptEnds ==
    ASSUME DeliveryInv, NEW r \in running, finishAttempt(r)
    PROVE  DeliveryInv'
<1> DEFINE d == r.d
           n == r.read + 1
<1> USE RetriesAssumption DEF DeliveryInv, DeliveryTypeOK, ReadsAreBehind, DeadLetterIsEarned
<1>1. d \in Deliveries /\ n \in Nat /\ n <= tries[d] + 1 /\ n <= MaxRetries + 2
  BY DEF Attempt
<1>2. /\ running' \subseteq running /\ tries' = [tries EXCEPT ![d] = @ + 1]
      /\ UNCHANGED <<hook, edit, edits, sweeping>>
  BY DEF finishAttempt, dHook
<1>m. ~(n > MaxRetries + 1) => n <= MaxRetries + 1
  BY <1>1
<1>w. \/ updateWebhookDelivery(d, "succeeded", n, FALSE) /\ UNCHANGED <<dJobs, crashes>>
      \/ /\ n > MaxRetries + 1
         /\ updateWebhookDelivery(d, "dead_letter", n, FALSE) /\ UNCHANGED <<dJobs, crashes>>
      \/ /\ ~(n > MaxRetries + 1)
         /\ updateWebhookDelivery(d, "failed", n, FALSE)
         /\ \/ /\ keys' = keys \cup {<<d, n>>} /\ queued' = queued \cup ({<<d, n>>} \ keys)
               /\ UNCHANGED crashes
            \/ Dies /\ UNCHANGED dJobs
  BY DEF finishAttempt, recordFailure
<1>3. \E status \in {"succeeded", "failed", "dead_letter"} :
         /\ updateWebhookDelivery(d, status, n, FALSE)
         /\ status = "dead_letter" => n > MaxRetries + 1
         /\ status = "failed" => n <= MaxRetries + 1
  <2>1. \/ updateWebhookDelivery(d, "succeeded", n, FALSE)
        \/ n > MaxRetries + 1 /\ updateWebhookDelivery(d, "dead_letter", n, FALSE)
        \/ ~(n > MaxRetries + 1) /\ updateWebhookDelivery(d, "failed", n, FALSE)
    BY <1>w
  <2>2. QED
    BY <2>1, <1>m
<1>4. keys' \subseteq Deliveries \X (0 .. MaxRetries + 1) /\ queued' \subseteq keys' /\ crashes' \in Nat
  <2>1. CASE UNCHANGED <<dJobs, crashes>>
    BY <2>1 DEF dJobs
  <2>2. CASE n <= MaxRetries + 1 /\ keys' = keys \cup {<<d, n>>} /\ queued' = queued \cup ({<<d, n>>} \ keys)
             /\ UNCHANGED crashes
    BY <1>1, <2>2
  <2>3. CASE Dies /\ UNCHANGED dJobs
    BY <2>3 DEF Dies, dJobs
  <2>4. QED
    BY <1>w, <1>m, <2>1, <2>2, <2>3
<1>5. PICK status \in {"succeeded", "failed", "dead_letter"} :
         /\ updateWebhookDelivery(d, status, n, FALSE)
         /\ status = "dead_letter" => n > MaxRetries + 1
         /\ status = "failed" => n <= MaxRetries + 1
  BY <1>3
<1>6. tries' \in [Deliveries -> Nat] /\ tries'[d] = tries[d] + 1
      /\ \A x \in Deliveries : tries'[x] >= tries[x]
  BY <1>1, <1>2
<1>7. \A x \in running' : x.read <= tries'[x.d] /\ x.read <= MaxRetries + 1
  BY <1>2, <1>6 DEF Attempt
<1> HIDE DEF d, n
<1>8. CASE UNCHANGED dRow
  BY <1>2, <1>4, <1>6, <1>7, <1>8 DEF dRow
<1>9. CASE /\ delivery' = [delivery EXCEPT ![d] = status] /\ attempts' = [attempts EXCEPT ![d] = n]
           /\ due' = [due EXCEPT ![d] = FALSE] /\ removed' = [removed EXCEPT ![d] = FALSE]
  <2>1. /\ delivery' \in [Deliveries -> {"absent", "pending", "failed", "gone"} \cup Settled]
        /\ attempts' \in [Deliveries -> 0 .. MaxRetries + 2]
        /\ due' \in [Deliveries -> BOOLEAN] /\ removed' \in [Deliveries -> BOOLEAN]
    BY <1>1, <1>9 DEF Settled
  <2>2. ASSUME NEW x \in Deliveries
        PROVE  /\ attempts'[x] <= tries'[x]
               /\ delivery'[x] = "dead_letter" => removed'[x] \/ tries'[x] >= MaxRetries + 2
               /\ delivery'[x] \notin Skipped => attempts'[x] <= MaxRetries + 1
    <3>1. CASE x = d
      BY <1>1, <1>5, <1>6, <1>9, <3>1 DEF Skipped, Settled
    <3>2. CASE x # d
      BY <1>6, <1>9, <3>2
    <3>3. QED
      BY <3>1, <3>2
  <2>3. QED
    BY <1>2, <1>4, <1>6, <1>7, <2>1, <2>2
<1>10. QED
  BY <1>5, <1>8, <1>9 DEF updateWebhookDelivery

LEMMA DeliveryStep ==
    ASSUME DeliveryInv, [DeliveryNext]_dVars
    PROVE  DeliveryInv'
<1>1. ASSUME NEW h \in Hooks, updateWebhook(h) \/ updateWebhookRow(h)
      PROVE  DeliveryInv'
  BY <1>1 DEF updateWebhook, updateWebhookRow, DeliveryInv, DeliveryTypeOK, ReadsAreBehind,
     DeadLetterIsEarned, dRow, dJobs
<1>2. ASSUME NEW h \in Hooks, deleteWebhook(h)
      PROVE  DeliveryInv'
  BY <1>2 DEF deleteWebhook, DeliveryInv, DeliveryTypeOK, ReadsAreBehind, DeadLetterIsEarned, dJobs,
     Skipped, Settled
<1>3. ASSUME NEW e \in Events, dispatchOrganizationEvent(e)
      PROVE  DeliveryInv'
  <2> DEFINE Active == {h \in Hooks : hook[h] = "active"}
  <2>1. PICK H \in SUBSET Active, J \in SUBSET Active :
          /\ J \subseteq H
          /\ IF J = Active THEN UNCHANGED crashes ELSE Dies
          /\ delivery' = [d \in Deliveries |-> IF d[1] = e /\ HookOf(d) \in H THEN "pending" ELSE delivery[d]]
          /\ due' = [d \in Deliveries |-> due[d] \/ (d[1] = e /\ HookOf(d) \in H)]
          /\ keys'   = keys \cup {<<<<e, h>>, 0>> : h \in J}
          /\ queued' = queued \cup {<<<<e, h>>, 0>> : h \in J}
    BY <1>3 DEF dispatchOrganizationEvent
  <2>2. UNCHANGED <<hook, edit, edits, attempts, removed, running, sweeping, tries>>
    BY <1>3 DEF dispatchOrganizationEvent, dHook
  <2>3. \A d \in Deliveries : d[1] = e => delivery[d] = "absent"
    BY <1>3 DEF dispatchOrganizationEvent, Deliveries
  <2>4. keys' \subseteq Deliveries \X (0 .. MaxRetries + 1) /\ queued' \subseteq keys'
    BY <2>1, RetriesAssumption DEF DeliveryInv, DeliveryTypeOK, Deliveries
  <2>5. crashes' \in Nat
    BY <2>1 DEF DeliveryInv, DeliveryTypeOK, Dies
  <2>6. /\ delivery' \in [Deliveries -> {"absent", "pending", "failed", "gone"} \cup Settled]
        /\ due' \in [Deliveries -> BOOLEAN]
    BY <2>1 DEF DeliveryInv, DeliveryTypeOK
  <2>7. \A d \in Deliveries : delivery'[d] = delivery[d] \/ (delivery[d] = "absent" /\ delivery'[d] = "pending")
    BY <2>1, <2>3
  <2>8. QED
    BY <2>2, <2>4, <2>5, <2>6, <2>7 DEF DeliveryInv, DeliveryTypeOK, ReadsAreBehind, DeadLetterIsEarned,
       Skipped, Settled
<1>4. ASSUME NEW k \in queued, handleDeliveryJob(k)
      PROVE  DeliveryInv'
  <2>1. k[1] \in Deliveries /\ k[2] \in 0 .. Sweep
    BY RetriesAssumption DEF DeliveryInv, DeliveryTypeOK, Sweep
  <2>2. QED
    BY <1>4, <2>1, AttemptStarts DEF handleDeliveryJob, dHook, DeliveryInv, DeliveryTypeOK
<1>5. CASE startSweep
  BY <1>5 DEF startSweep, listPendingWebhookDeliveries, dHook, dRow, dJobs, DeliveryInv, DeliveryTypeOK,
     ReadsAreBehind, DeadLetterIsEarned
<1>6. ASSUME NEW d \in Deliveries, sweepDueWebhookDeliveries(d)
      PROVE  DeliveryInv'
  <2>1. Sweep \in 0 .. Sweep
    BY RetriesAssumption DEF Sweep
  <2>2. QED
    BY <1>6, <2>1, AttemptStarts DEF sweepDueWebhookDeliveries, dHook, dJobs, DeliveryInv, DeliveryTypeOK
<1>7. ASSUME NEW d \in Deliveries, becomeDue(d)
      PROVE  DeliveryInv'
  BY <1>7 DEF becomeDue, dHook, dJobs, DeliveryInv, DeliveryTypeOK, ReadsAreBehind, DeadLetterIsEarned
<1>8. ASSUME NEW r \in running, post(r)
      PROVE  DeliveryInv'
  <2>1. PICK got \in {"2xx", "failure"} : running' = (running \ {r}) \cup {[r EXCEPT !.got = got]}
    BY <1>8 DEF post
  <2> DEFINE answered == [r EXCEPT !.got = got]
  <2>2. answered \in Attempt /\ answered.read = r.read /\ answered.d = r.d
    BY DEF DeliveryInv, DeliveryTypeOK, Attempt
  <2> HIDE DEF answered
  <2>3. QED
    BY <1>8, <2>1, <2>2 DEF post, answered, dHook, dRow, dJobs, DeliveryInv, DeliveryTypeOK, ReadsAreBehind,
       DeadLetterIsEarned
<1>9. ASSUME NEW r \in running, finishAttempt(r)
      PROVE  DeliveryInv'
  BY <1>9, AttemptEnds
<1>10. ASSUME NEW r \in running, crashAttempt(r)
       PROVE  DeliveryInv'
  BY <1>10 DEF crashAttempt, Dies, dHook, dRow, dJobs, DeliveryInv, DeliveryTypeOK, ReadsAreBehind,
     DeadLetterIsEarned
<1>11. CASE UNCHANGED dVars
  BY <1>11 DEF dVars, dHook, dRow, dJobs, DeliveryInv, DeliveryTypeOK, ReadsAreBehind, DeadLetterIsEarned
<1>12. QED
  BY <1>1, <1>2, <1>3, <1>4, <1>5, <1>6, <1>7, <1>8, <1>9, <1>10, <1>11 DEF DeliveryNext, Deliver

\* A delivery is given up after MaxRetries + 2 attempts or because its webhook was
\* removed, for any number of events, webhooks, retries and crashes, though attempts of
\* the job and of the sweep run at once and each writes the count it read (recordFailure).
THEOREM DeadLettersAreEarned == DeliverySpec => []DeadLetterIsEarned
<1>1. DeliveryInv => DeadLetterIsEarned
  BY DEF DeliveryInv
<1>2. QED
  BY <1>1, DeliveryStart, DeliveryStep, PTL DEF DeliverySpec

-----------------------------------------------------------------------------
(***************************************************************************)
(* The browser matrix.  Every row of the matrix that an actor holds, of    *)
(* whatever age, says "completed" only if every child passed, since a      *)
(* child that passed stays so: its job has ended.                          *)
(***************************************************************************)
PassedIsFinal ==
    \A b \in Browsers :
        /\ execution[b] = "passed" => run[b] = "passed"
        /\ run[b] \in AllResults => job[b] \in {"ended", "cancelled"}

RowHolds(r) ==
    r.status \in MatrixEnd =>
        /\ r.report
        /\ r.status = "completed" => \A b \in Browsers : run[b] = "passed"

HeldRowsHold == \A a \in Actors : RowHolds(act[a].row) /\ act[a].row.status # "absent"

\* Before there is a matrix nothing works on it.
NothingBefore ==
    matrix.status = "absent" =>
        /\ \A b \in Browsers : run[b] = "open" /\ job[b] = "absent"
        /\ \A a \in Actors : act[a].pc = "idle"

MatrixInv == MatrixTypeOK /\ PassedIsFinal /\ HeldRowsHold /\ RowHolds(matrix) /\ NothingBefore

PassedStay == \A b \in Browsers : run[b] = "passed" => run'[b] = "passed"

LEMMA RowKept ==
    ASSUME NEW r, RowHolds(r), PassedStay
    PROVE  r.status \in MatrixEnd =>
               r.report /\ (r.status = "completed" => \A b \in Browsers : run'[b] = "passed")
BY DEF RowHolds, PassedStay

LEMMA MatrixStart == MatrixInit => MatrixInv
<1>1. Idle \in Activity /\ Idle.row.status = "queued"
  BY DEF Idle, Activity, Row, MatrixEnd
<1>2. SUFFICES ASSUME MatrixInit
               PROVE  MatrixInv
  OBVIOUS
<1>3. MatrixTypeOK
  BY <1>1, <1>2 DEF MatrixInit, MatrixTypeOK, Row
<1>4. PassedIsFinal
  BY <1>2 DEF MatrixInit, PassedIsFinal, AllResults
<1>5. HeldRowsHold /\ RowHolds(matrix)
  BY <1>1, <1>2 DEF MatrixInit, HeldRowsHold, RowHolds, MatrixEnd
<1>6. NothingBefore
  BY <1>2 DEF MatrixInit, NothingBefore, Idle
<1>7. QED
  BY <1>3, <1>4, <1>5, <1>6 DEF MatrixInv

\* The aggregate of rows of any age is "completed" only if all of them passed.
LEMMA DerivedStatus ==
    ASSUME NEW rows \in [Browsers -> {"queued"} \cup RunEnded]
    PROVE  /\ deriveMatrixStatus(rows) \in MatrixEnd
           /\ deriveMatrixStatus(rows) = "completed" => \A b \in Browsers : rows[b] = "passed"
<1> DEFINE With(results) == {b \in Browsers : rows[b] \in results}
<1>1. deriveMatrixStatus(rows) \in MatrixEnd
  BY DEF deriveMatrixStatus, MatrixEnd
<1>2. deriveMatrixStatus(rows) = "completed" => With({"passed"}) = Browsers
  BY DEF deriveMatrixStatus
<1>3. QED
  BY <1>1, <1>2

\* The children alone: no actor but one that begins.
LEMMA ChildSteps ==
    ASSUME MatrixInv, NEW b \in Browsers,
           claimChild(b) \/ childFails(b) \/ childRetries(b) \/ childEnds(b) \/ childCloses(b)
    PROVE  MatrixInv'
<1> USE DEF MatrixInv, MatrixTypeOK
<1>1. PassedStay
  BY DEF PassedStay, PassedIsFinal, claimChild, childFails, childRetries, childEnds, childCloses, mChild,
     AllResults, Executing
<1>2. run' \in [Browsers -> {"open"} \cup RunEnded]
  BY ResultsAssumption DEF claimChild, childFails, childRetries, childEnds, childCloses, RunEnded, AllResults
<1>3. job' \in [Browsers -> {"absent", "queued", "running", "stopping", "ended", "cancelled"}]
  BY DEF claimChild, childFails, childRetries, childEnds, childCloses
<1>4. UNCHANGED <<execution, matrix, overdue, deaths>>
  BY DEF claimChild, childFails, childRetries, childEnds, childCloses, mRow
<1>5. act' \in [Actors -> Activity] /\ \A a \in Actors : act'[a].row = act[a].row
  <2>1. b \in Actors /\ {b} \in SUBSET Browsers
    BY DEF Actors
  <2>2. CASE Begin(b, "visiting", {b})
    <3>1. act' = [act EXCEPT ![b] = [[act[b] EXCEPT !.pc = "visiting"] EXCEPT !.todo = {b}]]
      BY <2>2, Zenon DEF Begin
    <3>2. QED
      BY <2>1, <3>1 DEF Activity
  <2>3. CASE UNCHANGED act
    BY <2>3
  <2>4. QED
    BY <2>2, <2>3 DEF claimChild, childFails, childRetries, childEnds, childCloses
<1>6. PassedIsFinal'
  <2>1. \A c \in Browsers : run'[c] \in AllResults => job'[c] \in {"ended", "cancelled"}
    BY DEF PassedIsFinal, claimChild, childFails, childRetries, childEnds, childCloses, AllResults, Executing
  <2>2. QED
    BY <1>1, <1>4, <2>1 DEF PassedIsFinal, PassedStay
<1>7. RowHolds(matrix)' /\ HeldRowsHold'
  <2>1. \A a \in Actors : RowHolds(act[a].row) /\ act[a].row.status # "absent"
    BY DEF HeldRowsHold
  <2>2. QED
    BY <1>1, <1>4, <1>5, <2>1, RowKept DEF RowHolds, HeldRowsHold
<1>8. NothingBefore'
  <2>1. job[b] # "absent"
    BY DEF claimChild, childFails, childRetries, childEnds, childCloses, Executing
  <2>2. QED
    BY <1>4, <2>1 DEF NothingBefore
<1>9. QED
  BY <1>2, <1>3, <1>4, <1>5, <1>6, <1>7, <1>8

\* An actor moves, with a row that holds: nothing of the children changes but their
\* jobs, and no execution is taken to have passed that did not.
LEMMA ActorMoves ==
    ASSUME MatrixInv, UNCHANGED run,
           job' \in [Browsers -> {"absent", "queued", "running", "stopping", "ended", "cancelled"}],
           \A b \in Browsers : job[b] \in {"ended", "cancelled"} => job'[b] \in {"ended", "cancelled"},
           execution' \in [Browsers -> {"queued"} \cup RunEnded],
           \A b \in Browsers : execution'[b] \in {execution[b], run[b], "cancelled"},
           matrix' \in Row, RowHolds(matrix'), matrix'.status # "absent",
           overdue' \in BOOLEAN, deaths' \in Nat, act' \in [Actors -> Activity],
           \A a \in Actors : RowHolds(act'[a].row) /\ act'[a].row.status # "absent"
    PROVE  MatrixInv'
<1>1. PassedIsFinal'
  BY DEF MatrixInv, PassedIsFinal, AllResults
<1>2. MatrixTypeOK'
  BY DEF MatrixInv, MatrixTypeOK
<1>3. RowHolds(matrix)' /\ HeldRowsHold'
  BY DEF RowHolds, HeldRowsHold
<1>4. QED
  BY <1>1, <1>2, <1>3 DEF MatrixInv, NothingBefore

LEMMA ActorSteps ==
    ASSUME MatrixInv, NEW a \in Actors, Proceed(a) \/ processDies(a)
    PROVE  MatrixInv'
<1>t. /\ run \in [Browsers -> {"open"} \cup RunEnded]
      /\ job \in [Browsers -> {"absent", "queued", "running", "stopping", "ended", "cancelled"}]
      /\ execution \in [Browsers -> {"queued"} \cup RunEnded]
      /\ matrix \in Row /\ overdue \in BOOLEAN /\ act \in [Actors -> Activity] /\ deaths \in Nat
  BY DEF MatrixInv, MatrixTypeOK
<1>r. \A x \in Actors : RowHolds(act[x].row) /\ act[x].row.status # "absent" /\ act[x].row \in Row
  BY <1>t DEF MatrixInv, HeldRowsHold, Activity
<1>m. RowHolds(matrix)
  BY DEF MatrixInv
<1>i. Idle \in Activity /\ RowHolds(Idle.row) /\ Idle.row.status # "absent"
  BY DEF Idle, Activity, Row, RowHolds, MatrixEnd
<1>b. matrix.status # "absent" \/ act[a].pc = "idle"
  BY DEF MatrixInv, NothingBefore
\* The next activity of the actor, and what it may leave of its row.
<1>n. ASSUME NEW next \in Activity, RowHolds(next.row), next.row.status # "absent",
             act' = [act EXCEPT ![a] = next]
      PROVE  /\ act' \in [Actors -> Activity]
             /\ \A x \in Actors : RowHolds(act'[x].row) /\ act'[x].row.status # "absent"
  BY <1>t, <1>r, <1>n
<1>p. ASSUME NEW pc \in {"visiting", "starting", "marking", "cancelling"}, Pc(a, pc)
      PROVE  /\ act' \in [Actors -> Activity]
             /\ \A x \in Actors : RowHolds(act'[x].row) /\ act'[x].row.status # "absent"
  <2>1. act' = [act EXCEPT ![a] = [act[a] EXCEPT !.pc = pc]]
    BY <1>p DEF Pc
  <2>2. [act[a] EXCEPT !.pc = pc] \in Activity /\ [act[a] EXCEPT !.pc = pc].row = act[a].row
    BY <1>t DEF Activity
  <2>3. QED
    BY <1>n, <1>r, <2>1, <2>2
<1>s. ASSUME Stop(a)
      PROVE  /\ act' \in [Actors -> Activity]
             /\ \A x \in Actors : RowHolds(act'[x].row) /\ act'[x].row.status # "absent"
  BY <1>n, <1>i, <1>s DEF Stop
\* finalize, of rows that are as they are now.
<1>f. ASSUME NEW last \in BOOLEAN, finalize(a, last)
      PROVE  /\ act' \in [Actors -> Activity]
             /\ \A x \in Actors : RowHolds(act'[x].row) /\ act'[x].row.status # "absent"
  <2> DEFINE written == [status |-> deriveMatrixStatus(execution), report |-> TRUE]
             next == [[[act[a] EXCEPT !.pc = "finishing"] EXCEPT !.last = last] EXCEPT !.row = written]
  <2>1. written \in Row /\ RowHolds(written) /\ written.status # "absent"
    BY <1>t, DerivedStatus DEF Row, RowHolds, MatrixEnd, MatrixInv, PassedIsFinal
  <2>2. act' = [act EXCEPT ![a] = next]
    BY <1>f, Zenon DEF finalize
  <2> HIDE DEF written
  <2>3. next \in Activity /\ next.row = written
    BY <1>t, <2>1 DEF Activity
  <2>4. QED
    BY <1>n, <2>1, <2>2, <2>3
<1>1. CASE updateMatrixExecution(a)
  <2>1. PICK b \in act[a].todo :
          IF run[b] \in RunEnded
          THEN /\ execution' = [execution EXCEPT ![b] = run[b]]
               /\ act' = [act EXCEPT ![a].pc = "noted", ![a].todo = @ \ {b}]
          ELSE /\ act' = [act EXCEPT ![a].todo = @ \ {b}]
               /\ UNCHANGED execution
    BY <1>1 DEF updateMatrixExecution
  <2>2. b \in Browsers /\ act[a].todo \ {b} \in SUBSET Browsers /\ matrix.status # "absent"
    BY <1>1, <1>t, <1>b DEF updateMatrixExecution, Activity
  <2>3. /\ act' \in [Actors -> Activity]
        /\ \A x \in Actors : RowHolds(act'[x].row) /\ act'[x].row.status # "absent"
    <3>1. CASE act' = [act EXCEPT ![a].pc = "noted", ![a].todo = @ \ {b}]
      <4> DEFINE next == [[act[a] EXCEPT !.pc = "noted"] EXCEPT !.todo = act[a].todo \ {b}]
      <4>1. act' = [act EXCEPT ![a] = next]
        BY <3>1, Zenon
      <4>2. next \in Activity /\ next.row = act[a].row
        BY <1>t, <2>2 DEF Activity
      <4>3. QED
        BY <1>n, <1>r, <4>1, <4>2
    <3>2. CASE act' = [act EXCEPT ![a].todo = @ \ {b}]
      <4> DEFINE next == [act[a] EXCEPT !.todo = act[a].todo \ {b}]
      <4>1. act' = [act EXCEPT ![a] = next]
        BY <3>2, Zenon
      <4>2. next \in Activity /\ next.row = act[a].row
        BY <1>t, <2>2 DEF Activity
      <4>3. QED
        BY <1>n, <1>r, <4>1, <4>2
    <3>3. QED
      BY <2>1, <3>1, <3>2
  <2>4. /\ execution' \in [Browsers -> {"queued"} \cup RunEnded]
        /\ \A x \in Browsers : execution'[x] \in {execution[x], run[x], "cancelled"}
    BY <1>t, <2>1, <2>2
  <2>5. UNCHANGED <<run, job, matrix, overdue, deaths>>
    BY <1>1 DEF updateMatrixExecution, mChild
  <2>6. QED
    BY <1>t, <1>m, <2>2, <2>3, <2>4, <2>5, ActorMoves
<1>2. CASE noteMatrixChildFinished(a)
  <2>1. \/ Pc(a, "visiting") \/ finalize(a, FALSE) \/ Pc(a, "starting")
    <3>1. matrix.status \in {"absent", "queued", "running"} \cup MatrixEnd
      BY <1>t DEF Row
    <3>2. QED
      BY <1>2, <3>1, <1>b DEF noteMatrixChildFinished, MatrixEnd
  <2>2. UNCHANGED <<run, job, execution, matrix, overdue, deaths>> /\ matrix.status # "absent"
    BY <1>2, <1>b DEF noteMatrixChildFinished, mChild
  <2>3. /\ act' \in [Actors -> Activity]
        /\ \A x \in Actors : RowHolds(act'[x].row) /\ act'[x].row.status # "absent"
    BY <2>1, <1>p, <1>f
  <2>4. QED
    BY <1>t, <1>m, <2>2, <2>3, ActorMoves
<1>3. CASE relook(a)
  <2>1. UNCHANGED <<run, job, execution, matrix, overdue, deaths>> /\ matrix.status # "absent"
    BY <1>3, <1>b DEF relook, mChild
  <2>2. \/ Stop(a) \/ finalize(a, TRUE) \/ Pc(a, "marking")
        \/ act' = [act EXCEPT ![a] = IF overdue THEN [Idle EXCEPT !.pc = "expiring", !.todo = Pending] ELSE Idle]
    BY <1>3 DEF relook, Actors
  <2>3. ASSUME act' = [act EXCEPT ![a] = IF overdue THEN [Idle EXCEPT !.pc = "expiring", !.todo = Pending] ELSE Idle]
        PROVE  /\ act' \in [Actors -> Activity]
               /\ \A x \in Actors : RowHolds(act'[x].row) /\ act'[x].row.status # "absent"
    <3> DEFINE expiring == [Idle EXCEPT !.pc = "expiring", !.todo = Pending]
               next == IF overdue THEN expiring ELSE Idle
    <3>1. expiring \in Activity /\ expiring.row = Idle.row
      BY <1>i DEF Activity, Pending
    <3>2. next \in Activity /\ next.row = Idle.row
      BY <3>1, <1>i
    <3> HIDE DEF next
    <3>3. act' = [act EXCEPT ![a] = next]
      BY <2>3 DEF next
    <3>4. QED
      BY <1>i, <1>n, <3>2, <3>3
  <2>4. /\ act' \in [Actors -> Activity]
        /\ \A x \in Actors : RowHolds(act'[x].row) /\ act'[x].row.status # "absent"
    BY <2>2, <2>3, <1>p, <1>f, <1>s
  <2>5. QED
    BY <1>t, <1>m, <2>1, <2>4, ActorMoves
<1>4. CASE markRunning(a)
  <2> DEFINE written == [matrix EXCEPT !.status = "running"]
             next == [[act[a] EXCEPT !.pc = "saving"] EXCEPT !.row = written]
  <2>1. UNCHANGED <<run, job, execution, matrix, overdue, deaths>> /\ matrix.status # "absent"
    BY <1>4, <1>b DEF markRunning, mChild, mRow
  <2>2. written \in Row /\ RowHolds(written) /\ written.status # "absent"
    BY <1>t DEF Row, RowHolds, MatrixEnd
  <2>3. act' = [act EXCEPT ![a] = next]
    BY <1>4, Zenon DEF markRunning
  <2> HIDE DEF written
  <2>4. next \in Activity /\ next.row = written
    BY <1>t, <2>2 DEF Activity
  <2>5. QED
    BY <1>t, <1>m, <1>n, <2>1, <2>2, <2>3, <2>4, ActorMoves
<1>5. CASE markReason(a)
  <2> DEFINE next == [[[act[a] EXCEPT !.pc = "saving"] EXCEPT !.row = matrix] EXCEPT !.last = TRUE]
  <2>1. UNCHANGED <<run, job, execution, matrix, overdue, deaths>> /\ matrix.status # "absent"
    BY <1>5, <1>b DEF markReason, mChild, mRow
  <2>2. act' = [act EXCEPT ![a] = next]
    BY <1>5, Zenon DEF markReason
  <2>3. next \in Activity /\ next.row = matrix
    BY <1>t DEF Activity
  <2>4. QED
    BY <1>t, <1>m, <1>n, <2>1, <2>2, <2>3, ActorMoves
<1>6. CASE updateMatrixRun(a)
  <2> DEFINE next == [Idle EXCEPT !.pc = "visiting", !.todo = act[a].todo]
  <2>1. UNCHANGED <<run, job, execution, overdue, deaths>> /\ matrix' = act[a].row
    BY <1>6 DEF updateMatrixRun, mChild
  <2>2. Stop(a) \/ act' = [act EXCEPT ![a] = next]
    BY <1>6 DEF updateMatrixRun
  <2>3. next \in Activity /\ next.row = Idle.row
    BY <1>t, <1>i DEF Activity
  <2>4. /\ act' \in [Actors -> Activity]
        /\ \A x \in Actors : RowHolds(act'[x].row) /\ act'[x].row.status # "absent"
    BY <1>i, <1>n, <1>s, <2>2, <2>3
  <2>5. QED
    BY <1>t, <1>r, <2>1, <2>4, ActorMoves
<1>7. CASE processDies(a)
  <2>1. UNCHANGED <<run, job, execution, matrix, overdue>> /\ matrix.status # "absent" /\ deaths' \in Nat /\ Stop(a)
    BY <1>7, <1>b, <1>t DEF processDies, mChild, mRow
  <2>2. QED
    BY <1>t, <1>m, <1>s, <2>1, ActorMoves
<1>8. CASE a = "sweep" /\ expireListed
  <2>1. UNCHANGED <<run, matrix, overdue, deaths>> /\ matrix.status # "absent"
    BY <1>8, <1>b DEF expireListed
  <2>2. CASE finalize("sweep", TRUE) /\ UNCHANGED <<job, execution>>
    BY <1>8, <1>t, <1>m, <1>f, <2>1, <2>2, ActorMoves
  <2>3. CASE \E b \in act["sweep"].todo :
            /\ requestCancel(b)
            /\ execution' = [execution EXCEPT ![b] = "cancelled"]
            /\ act' = [act EXCEPT !["sweep"].todo = @ \ {b}]
    <3>1. PICK b \in act[a].todo :
            /\ requestCancel(b)
            /\ execution' = [execution EXCEPT ![b] = "cancelled"]
            /\ act' = [act EXCEPT ![a].todo = @ \ {b}]
      BY <1>8, <2>3
    <3>2. b \in Browsers /\ act[a].todo \ {b} \in SUBSET Browsers
      BY <1>t DEF Activity
    <3> DEFINE next == [act[a] EXCEPT !.todo = act[a].todo \ {b}]
    <3>3. act' = [act EXCEPT ![a] = next]
      BY <3>1, Zenon
    <3>4. next \in Activity /\ next.row = act[a].row
      BY <1>t, <3>2 DEF Activity
    <3>5. /\ job' \in [Browsers -> {"absent", "queued", "running", "stopping", "ended", "cancelled"}]
          /\ \A x \in Browsers : job[x] \in {"ended", "cancelled"} => job'[x] \in {"ended", "cancelled"}
      BY <1>t, <3>1, <3>2 DEF requestCancel
    <3>6. /\ execution' \in [Browsers -> {"queued"} \cup RunEnded]
          /\ \A x \in Browsers : execution'[x] \in {execution[x], run[x], "cancelled"}
      BY <1>t, <3>1, <3>2 DEF RunEnded, AllResults
    <3>7. QED
      BY <1>t, <1>m, <1>n, <1>r, <2>1, <3>3, <3>4, <3>5, <3>6, ActorMoves
  <2>4. QED
    BY <1>8, <2>2, <2>3 DEF expireListed
<1>9. CASE a = "cancel" /\ cancelListed
  <2>1. UNCHANGED <<run, execution, matrix, overdue, deaths>> /\ matrix.status # "absent"
    BY <1>9, <1>b DEF cancelListed, mRow
  <2>2. PICK b \in act[a].todo :
        /\ requestCancel(b)
        /\ act' = [act EXCEPT ![a].todo = @ \ {b},
                    ![a].pc = IF job[b] \in {"queued", "cancelled"} THEN "cancelled" ELSE @,
                    ![a].at = IF job[b] \in {"queued", "cancelled"} THEN b ELSE @]
    BY <1>9 DEF cancelListed
  <2>3. b \in Browsers /\ act[a].todo \ {b} \in SUBSET Browsers
    BY <1>t DEF Activity
  <2> DEFINE pc == IF job[b] \in {"queued", "cancelled"} THEN "cancelled" ELSE act[a].pc
             where == IF job[b] \in {"queued", "cancelled"} THEN b ELSE act[a].at
             next == [[[act[a] EXCEPT !.todo = act[a].todo \ {b}] EXCEPT !.pc = pc] EXCEPT !.at = where]
  <2>4. act' = [act EXCEPT ![a] = next]
    BY <2>2
  <2>5. next \in Activity /\ next.row = act[a].row
    BY <1>t, <2>3 DEF Activity
  <2>6. /\ job' \in [Browsers -> {"absent", "queued", "running", "stopping", "ended", "cancelled"}]
        /\ \A x \in Browsers : job[x] \in {"ended", "cancelled"} => job'[x] \in {"ended", "cancelled"}
    BY <1>t, <2>2, <2>3 DEF requestCancel
  <2>7. QED
    BY <1>t, <1>m, <1>n, <1>r, <2>1, <2>4, <2>5, <2>6, ActorMoves
<1>10. CASE a = "cancel" /\ cancelExecution
  <2>1. UNCHANGED <<run, job, matrix, overdue, deaths>> /\ matrix.status # "absent"
    BY <1>10, <1>b DEF cancelExecution, mChild
  <2> DEFINE next == [[act[a] EXCEPT !.pc = "cancelling"] EXCEPT !.at = "none"]
  <2>2. act' = [act EXCEPT ![a] = next]
    BY <1>10, Zenon DEF cancelExecution
  <2>3. next \in Activity /\ next.row = act[a].row
    BY <1>t DEF Activity
  <2>4. /\ execution' \in [Browsers -> {"queued"} \cup RunEnded]
        /\ \A x \in Browsers : execution'[x] \in {execution[x], run[x], "cancelled"}
    BY <1>10, <1>t DEF cancelExecution, RunEnded, AllResults
  <2>5. QED
    BY <1>t, <1>m, <1>n, <1>r, <2>1, <2>2, <2>3, <2>4, ActorMoves
<1>11. CASE a = "cancel" /\ cancelVisits
  <2>1. UNCHANGED <<run, job, execution, matrix, overdue, deaths>> /\ matrix.status # "absent"
    BY <1>11, <1>b DEF cancelVisits, mChild, mRow
  <2> DEFINE next == [[act[a] EXCEPT !.pc = "visiting"] EXCEPT !.todo = Pending]
  <2>2. act' = [act EXCEPT ![a] = next]
    BY <1>11, Zenon DEF cancelVisits
  <2>3. next \in Activity /\ next.row = act[a].row
    BY <1>t DEF Activity, Pending
  <2>4. QED
    BY <1>t, <1>m, <1>n, <1>r, <2>1, <2>2, <2>3, ActorMoves
<1>12. QED
  BY <1>1, <1>2, <1>3, <1>4, <1>5, <1>6, <1>7, <1>8, <1>9, <1>10, <1>11 DEF Proceed

LEMMA MatrixBegins ==
    ASSUME MatrixInv, createMatrixRun \/ sweepStaleMatrixRuns \/ cancelMatrixRun \/ passDeadline
    PROVE  MatrixInv'
<1>t. /\ execution \in [Browsers -> {"queued"} \cup RunEnded] /\ act \in [Actors -> Activity]
      /\ matrix \in Row /\ overdue \in BOOLEAN /\ deaths \in Nat
      /\ job \in [Browsers -> {"absent", "queued", "running", "stopping", "ended", "cancelled"}]
  BY DEF MatrixInv, MatrixTypeOK
<1>r. RowHolds(matrix) /\ \A a \in Actors : RowHolds(act[a].row) /\ act[a].row.status # "absent"
  BY DEF MatrixInv, HeldRowsHold
<1>1. CASE createMatrixRun
  <2>1. \A b \in Browsers : run[b] = "open" /\ job[b] = "absent"
    BY <1>1 DEF createMatrixRun, MatrixInv, NothingBefore
  <2>2. matrix' \in Row /\ matrix'.status = "queued"
    BY <1>1, <1>t DEF createMatrixRun, Row
  <2>3. RowHolds(matrix') /\ UNCHANGED <<run, execution, overdue, act, deaths>>
    BY <1>1, <2>2 DEF createMatrixRun, RowHolds, MatrixEnd
  <2>4. job' \in [Browsers -> {"absent", "queued", "running", "stopping", "ended", "cancelled"}]
    BY <1>1 DEF createMatrixRun
  <2>5. \A b \in Browsers : job[b] \in {"ended", "cancelled"} => job'[b] \in {"ended", "cancelled"}
    BY <2>1
  <2>6. QED
    BY <1>t, <1>r, <2>2, <2>3, <2>4, <2>5, ActorMoves
<1>2. CASE sweepStaleMatrixRuns
  <2> DEFINE next == [[act["sweep"] EXCEPT !.pc = "visiting"] EXCEPT !.todo = Pending]
  <2>1. UNCHANGED <<run, job, execution, matrix, overdue, deaths>> /\ matrix.status # "absent"
    BY <1>2 DEF sweepStaleMatrixRuns, listStaleActiveMatrixRuns, MatrixActive, mChild, mRow
  <2>2. act' = [act EXCEPT !["sweep"] = next]
    BY <1>2, Zenon DEF sweepStaleMatrixRuns, Begin
  <2>a. "sweep" \in Actors /\ act["sweep"] \in Activity
    BY <1>t DEF Actors
  <2>3. next \in Activity /\ next.row = act["sweep"].row
    BY <2>a DEF Activity, Pending
  <2>4. act' \in [Actors -> Activity] /\ \A x \in Actors : act'[x].row = act[x].row
    BY <1>t, <2>a, <2>2, <2>3
  <2>5. QED
    BY <1>t, <1>r, <2>1, <2>4, ActorMoves
<1>3. CASE cancelMatrixRun
  <2> DEFINE next == [[act["cancel"] EXCEPT !.pc = "cancelling"] EXCEPT !.todo = Pending]
  <2>1. UNCHANGED <<run, job, execution, matrix, overdue, deaths>> /\ matrix.status # "absent"
    BY <1>3 DEF cancelMatrixRun, MatrixActive, mChild, mRow
  <2>2. act' = [act EXCEPT !["cancel"] = next]
    BY <1>3, Zenon DEF cancelMatrixRun, Begin
  <2>a. "cancel" \in Actors /\ act["cancel"] \in Activity
    BY <1>t DEF Actors
  <2>3. next \in Activity /\ next.row = act["cancel"].row
    BY <2>a DEF Activity, Pending
  <2>4. act' \in [Actors -> Activity] /\ \A x \in Actors : act'[x].row = act[x].row
    BY <1>t, <2>a, <2>2, <2>3
  <2>5. QED
    BY <1>t, <1>r, <2>1, <2>4, ActorMoves
<1>4. CASE passDeadline
  <2>1. UNCHANGED <<run, job, execution, matrix, act, deaths>> /\ overdue' = TRUE /\ matrix.status # "absent"
    BY <1>4 DEF passDeadline, mChild, mRow
  <2>2. QED
    BY <1>t, <1>r, <2>1, ActorMoves
<1>5. QED
  BY <1>1, <1>2, <1>3, <1>4

LEMMA MatrixStep ==
    ASSUME MatrixInv, [MatrixNext]_mVars
    PROVE  MatrixInv'
<1>1. CASE UNCHANGED mVars
  BY <1>1 DEF mVars, mChild, mRow, MatrixInv, MatrixTypeOK, PassedIsFinal, HeldRowsHold, RowHolds, NothingBefore
<1>2. CASE MatrixNext
  BY <1>2, ChildSteps, ActorSteps, MatrixBegins DEF MatrixNext
<1>3. QED
  BY <1>1, <1>2

LEMMA MatrixInvariant == MatrixSpec => []MatrixInv
BY MatrixStart, MatrixStep, PTL DEF MatrixSpec

\* A matrix that ended has its report, and is completed only if every child passed, for
\* any number of browsers, processes and deaths of processes, whoever derives the
\* aggregate and however old the row is that is written back (finalizeMatrixRun,
\* updateMatrixRun).
THEOREM CompletionIsEarned == MatrixSpec => []CompletedIsEarned
<1>1. MatrixInv => CompletedIsEarned
  BY DEF MatrixInv, RowHolds, CompletedIsEarned
<1>2. QED
  BY <1>1, MatrixInvariant, PTL

-----------------------------------------------------------------------------
(***************************************************************************)
(* The provider's events.  What decides is whether an event of the         *)
(* subscription is younger than a given time: an event, a hydrated invoice *)
(* and a row written by a webhook say what the provider says unless one    *)
(* is.  With every state goes an event of its own time, so when all events *)
(* are processed none is younger than the row.                             *)
(***************************************************************************)
Version  == [st : {"none", "canceled"} \cup Open, ver : Nat]
Dated    == [kind : {"subscription", "checkout", "paid", "payment_failed", "other"},
             sub : Subs, snap : Version, at : Nat]
Stateful == {"subscription"} \cup Invoices

BillingTypes ==
    /\ prov \in [Subs -> Version] /\ clock \in Nat
    /\ DOMAIN ledger \subseteq Dated
    /\ ledger \in [DOMAIN ledger -> {"sent", "processing", "failed"} \cup Finished]
    /\ handling \subseteq [e : Dated, snap : Version, hydrated : BOOLEAN]
    /\ row \in [Subs -> [snap : Version, at : Nat, by : {"none"} \cup Sources]]
    /\ checkout \in [Subs -> {"none", "starting", "open", "complete", "expired"}]
    /\ payment \in [Subs -> {"none", "paid", "failed"}]
    /\ calls \subseteq [sub : Subs, snap : Version]

AtLatest(b, t) == \A e \in DOMAIN ledger : e.sub = b => e.at <= t

EventsAreDated ==
    \A e \in DOMAIN ledger :
        /\ e.at <= clock
        /\ ledger[e] = "ignored" => e.kind = "other"
        /\ \E f \in DOMAIN ledger : f.kind = "subscription" /\ f.sub = e.sub /\ f.at = e.at
        /\ e.kind = "subscription" /\ AtLatest(e.sub, e.at) => e.snap = prov[e.sub]

HandlersKnow ==
    \A h \in handling :
        /\ h.e \in DOMAIN ledger
        /\ h.hydrated /\ h.e.kind \in Stateful /\ AtLatest(h.e.sub, h.e.at) => h.snap = prov[h.e.sub]

RowsAreDated ==
    \A b \in Subs :
        /\ row[b].at <= clock
        /\ row[b].by = "webhook" /\ AtLatest(b, row[b].at) => row[b].snap = prov[b]

ClosedStaysClosed ==
    \A e \in DOMAIN ledger :
        ledger[e] = "processed" /\ e.kind = "checkout" => checkout[e.sub] = "complete"

BillingInv ==
    /\ BillingTypes /\ EventsAreDated /\ HandlersKnow /\ RowsAreDated
    /\ ClosedStaysClosed /\ ProcessedIsApplied

LEMMA BillingStart == BillingInit => BillingInv
<1>1. SUFFICES ASSUME BillingInit
               PROVE  BillingInv
  OBVIOUS
<1>2. DOMAIN ledger = {} /\ ledger \in [DOMAIN ledger -> {"sent", "processing", "failed"} \cup Finished]
  BY <1>1 DEF BillingInit
<1>3. Nothing \in Version /\ handling = {} /\ calls = {}
  BY <1>1 DEF BillingInit, Nothing, Version
<1>4. BillingTypes
  BY <1>1, <1>2, <1>3 DEF BillingInit, BillingTypes
<1>5. EventsAreDated /\ HandlersKnow /\ RowsAreDated /\ ClosedStaysClosed /\ ProcessedIsApplied
  BY <1>1, <1>2, <1>3 DEF BillingInit, EventsAreDated, HandlersKnow, RowsAreDated,
                          ClosedStaysClosed, ProcessedIsApplied
<1>6. QED
  BY <1>4, <1>5 DEF BillingInv

\* The provider changes a subscription: its event is younger than all there is.
LEMMA ChangeStep ==
    ASSUME BillingInv, NEW b \in Subs, NEW st \in {"canceled"} \cup Open,
           NEW others \in SUBSET {"checkout", "paid", "payment_failed", "other"},
           ProviderChange(b, st, others), UNCHANGED <<row, checkout, payment, handling>>,
           calls' \subseteq [sub : Subs, snap : Version]
    PROVE  BillingInv'
<1> DEFINE change == [st |-> st, ver |-> prov[b].ver + 1]
<1>t. /\ prov \in [Subs -> Version] /\ clock \in Nat /\ DOMAIN ledger \subseteq Dated
      /\ ledger \in [DOMAIN ledger -> {"sent", "processing", "failed"} \cup Finished]
  BY DEF BillingInv, BillingTypes
<1>1. change \in Version
  BY <1>t DEF Version
<1>2. clock' = clock + 1 /\ prov' = [prov EXCEPT ![b] = change]
  BY DEF ProviderChange, Tick
<1>3. PICK K \in SUBSET others :
        Emit({[kind |-> k, sub |-> b, at |-> clock',
               snap |-> IF k = "subscription" THEN change ELSE Nothing] : k \in K \cup {"subscription"}})
  BY DEF ProviderChange
<1> HIDE DEF change
<1> DEFINE event(k) == [kind |-> k, sub |-> b, at |-> clock', snap |-> IF k = "subscription" THEN change ELSE Nothing]
           E == {event(k) : k \in K \cup {"subscription"}}
<1>4. Nothing \in Version
  BY DEF Nothing, Version
<1>5. /\ E \subseteq Dated /\ \A e \in E : e.sub = b /\ e.at = clock + 1
      /\ \A e \in E : e.kind = "subscription" => e.snap = change
      /\ \E e \in E : e.kind = "subscription"
  <2>1. \A k \in K \cup {"subscription"} :
          /\ event(k) \in Dated
          /\ event(k).sub = b /\ event(k).at = clock + 1 /\ event(k).kind = k
          /\ k = "subscription" => event(k).snap = change
    BY <1>1, <1>2, <1>4, <1>t DEF Dated
  <2> HIDE DEF event
  <2>2. QED
    BY <2>1
<1>6. ledger' = [e \in E \cup DOMAIN ledger |-> IF e \in E THEN "sent" ELSE ledger[e]]
  BY <1>3 DEF Emit
<1> HIDE DEF E
<1>7. /\ DOMAIN ledger' = E \cup DOMAIN ledger
      /\ \A e \in E : ledger'[e] = "sent"
      /\ \A e \in DOMAIN ledger \ E : ledger'[e] = ledger[e]
      /\ ledger' \in [DOMAIN ledger' -> {"sent", "processing", "failed"} \cup Finished]
  BY <1>6, <1>t
<1>8. BillingTypes'
  BY <1>1, <1>2, <1>5, <1>7, <1>t DEF BillingInv, BillingTypes
\* Of this subscription nothing old is the latest any more, and nothing else changes.
<1>9. /\ \A t \in Nat : t <= clock => ~AtLatest(b, t)'
      /\ \A q \in Subs \ {b}, t \in Nat : AtLatest(q, t)' => AtLatest(q, t)
  BY <1>5, <1>7, <1>t DEF AtLatest
<1>10. prov'[b] = change /\ \A q \in Subs \ {b} : prov'[q] = prov[q]
  BY <1>2, <1>t
<1>11. EventsAreDated'
  <2>1. SUFFICES ASSUME NEW e \in DOMAIN ledger'
                 PROVE  /\ e.at <= clock'
                        /\ ledger'[e] = "ignored" => e.kind = "other"
                        /\ \E f \in DOMAIN ledger' : f.kind = "subscription" /\ f.sub = e.sub /\ f.at = e.at
                        /\ e.kind = "subscription" /\ AtLatest(e.sub, e.at)' => e.snap = prov'[e.sub]
    BY DEF EventsAreDated
  <2>2. CASE e \in E
    BY <1>2, <1>5, <1>7, <1>10, <1>t, <2>2
  <2>3. CASE e \in DOMAIN ledger \ E
    <3>1. e.at \in Nat /\ e.at <= clock /\ e.sub \in Subs
      BY <1>t, <2>3 DEF BillingInv, EventsAreDated, Dated
    <3>2. \E f \in DOMAIN ledger : f.kind = "subscription" /\ f.sub = e.sub /\ f.at = e.at
      BY <2>3 DEF BillingInv, EventsAreDated
    <3>3. e.kind = "subscription" /\ AtLatest(e.sub, e.at)' => e.snap = prov'[e.sub]
      BY <1>9, <1>10, <2>3, <3>1 DEF BillingInv, EventsAreDated
    <3>4. ledger'[e] = "ignored" => e.kind = "other"
      BY <1>7, <2>3 DEF BillingInv, EventsAreDated
    <3>5. QED
      BY <1>2, <1>7, <1>t, <3>1, <3>2, <3>3, <3>4
  <2>4. QED
    BY <1>7, <2>2, <2>3
<1>12. HandlersKnow'
  <2>1. SUFFICES ASSUME NEW h \in handling
                 PROVE  /\ h.e \in DOMAIN ledger'
                        /\ h.hydrated /\ h.e.kind \in Stateful /\ AtLatest(h.e.sub, h.e.at)'
                              => h.snap = prov'[h.e.sub]
    BY DEF HandlersKnow
  <2>2. h.e \in DOMAIN ledger
    BY DEF BillingInv, HandlersKnow
  <2>3. h.e.at \in Nat /\ h.e.at <= clock /\ h.e.sub \in Subs
    BY <1>t, <2>2 DEF BillingInv, EventsAreDated, Dated
  <2>4. QED
    BY <1>7, <1>9, <1>10, <2>2, <2>3 DEF BillingInv, HandlersKnow
<1>13. RowsAreDated'
  <2>1. SUFFICES ASSUME NEW q \in Subs
                 PROVE  /\ row[q].at <= clock'
                        /\ row[q].by = "webhook" /\ AtLatest(q, row[q].at)' => row[q].snap = prov'[q]
    BY DEF RowsAreDated
  <2>2. row[q].at \in Nat /\ row[q].at <= clock
    BY DEF BillingInv, BillingTypes, RowsAreDated
  <2>3. QED
    BY <1>2, <1>9, <1>10, <1>t, <2>2 DEF BillingInv, RowsAreDated
<1>14. ProcessedIsApplied' /\ ClosedStaysClosed'
  BY <1>7 DEF BillingInv, ProcessedIsApplied, ClosedStaysClosed
<1>15. QED
  BY <1>8, <1>11, <1>12, <1>13, <1>14 DEF BillingInv

\* No event is made and the provider changes nothing: what is the latest stays so.
LEMMA LatestStays ==
    ASSUME DOMAIN ledger' = DOMAIN ledger, NEW b, NEW t
    PROVE  AtLatest(b, t)' <=> AtLatest(b, t)
BY DEF AtLatest

\* The ledger alone: an event is claimed or has failed.
LEMMA LedgerStep ==
    ASSUME BillingInv, NEW e \in DOMAIN ledger, NEW result \in {"processing", "failed"},
           ledger' = [ledger EXCEPT ![e] = result] \/ UNCHANGED ledger,
           UNCHANGED <<bProv, row, checkout, payment, calls>>,
           handling' \subseteq handling \cup {[e |-> e, snap |-> e.snap, hydrated |-> e.kind \notin Invoices]}
    PROVE  BillingInv'
<1>t. DOMAIN ledger \subseteq Dated /\ ledger \in [DOMAIN ledger -> {"sent", "processing", "failed"} \cup Finished]
  BY DEF BillingInv, BillingTypes
<1>1. /\ DOMAIN ledger' = DOMAIN ledger
      /\ ledger' \in [DOMAIN ledger' -> {"sent", "processing", "failed"} \cup Finished]
      /\ \A f \in DOMAIN ledger : ledger'[f] = ledger[f] \/ ledger'[f] \in {"processing", "failed"}
  BY <1>t
<1>2. e \in Dated
  BY <1>t
<1> DEFINE new == [e |-> e, snap |-> e.snap, hydrated |-> e.kind \notin Invoices]
<1>3. /\ new \in [e : Dated, snap : Version, hydrated : BOOLEAN]
      /\ new.e = e /\ new.snap = e.snap /\ new.hydrated = (e.kind \notin Invoices)
  BY <1>2 DEF Dated
<1>4. handling' \subseteq handling \cup {new}
  OBVIOUS
<1> HIDE DEF new
<1>5. BillingTypes'
  BY <1>1, <1>3, <1>4, <1>t DEF BillingInv, BillingTypes, bProv
<1>6. \A b, t : AtLatest(b, t)' <=> AtLatest(b, t)
  BY <1>1, LatestStays
<1>7. EventsAreDated'
  BY <1>1, <1>6 DEF BillingInv, EventsAreDated, bProv
<1>8. HandlersKnow'
  <2>1. SUFFICES ASSUME NEW h \in handling'
                 PROVE  /\ h.e \in DOMAIN ledger
                        /\ h.hydrated /\ h.e.kind \in Stateful /\ AtLatest(h.e.sub, h.e.at)
                              => h.snap = prov[h.e.sub]
    BY <1>1, <1>6 DEF HandlersKnow, bProv
  <2>2. CASE h \in handling
    BY <2>2 DEF BillingInv, HandlersKnow
  <2>3. CASE h = new
    BY <1>3, <2>3 DEF BillingInv, EventsAreDated, Stateful
  <2>4. QED
    BY <1>4, <2>2, <2>3
<1>9. RowsAreDated'
  BY <1>6 DEF BillingInv, RowsAreDated, bProv
<1>10. ProcessedIsApplied' /\ ClosedStaysClosed'
  BY <1>1 DEF BillingInv, ProcessedIsApplied, ClosedStaysClosed
<1>11. QED
  BY <1>5, <1>7, <1>8, <1>9, <1>10 DEF BillingInv

\* A request asks the provider for the subscription of its invoice.
LEMMA HydrateStep ==
    ASSUME BillingInv, NEW h \in handling, hydrate(h)
    PROVE  BillingInv'
<1>t. /\ prov \in [Subs -> Version] /\ DOMAIN ledger \subseteq Dated
      /\ handling \subseteq [e : Dated, snap : Version, hydrated : BOOLEAN]
  BY DEF BillingInv, BillingTypes
<1> DEFINE new == [h EXCEPT !.snap = prov[h.e.sub], !.hydrated = TRUE]
<1>1. h.e \in Dated /\ h.e \in DOMAIN ledger /\ h.e.sub \in Subs
  BY <1>t DEF Dated, BillingInv, HandlersKnow
<1>2. /\ new \in [e : Dated, snap : Version, hydrated : BOOLEAN]
      /\ new.e = h.e /\ new.snap = prov[h.e.sub] /\ new.hydrated
  BY <1>1, <1>t
<1>3. handling' \subseteq handling \cup {new} /\ UNCHANGED <<prov, clock, ledger, row, checkout, payment, calls>>
  BY DEF hydrate, bProv, bDb
<1> HIDE DEF new
<1>4. BillingTypes'
  BY <1>2, <1>3 DEF BillingInv, BillingTypes
<1>5. \A b, t : AtLatest(b, t)' <=> AtLatest(b, t)
  BY <1>3, LatestStays
<1>6. HandlersKnow'
  <2>1. SUFFICES ASSUME NEW g \in handling'
                 PROVE  /\ g.e \in DOMAIN ledger
                        /\ g.hydrated /\ g.e.kind \in Stateful /\ AtLatest(g.e.sub, g.e.at)
                              => g.snap = prov[g.e.sub]
    BY <1>3, <1>5 DEF HandlersKnow
  <2>2. QED
    BY <1>1, <1>2, <1>3 DEF BillingInv, HandlersKnow
<1>7. EventsAreDated' /\ RowsAreDated' /\ ProcessedIsApplied' /\ ClosedStaysClosed'
  BY <1>3, <1>5 DEF BillingInv, EventsAreDated, RowsAreDated, ProcessedIsApplied, ClosedStaysClosed
<1>8. QED
  BY <1>4, <1>6, <1>7 DEF BillingInv

\* What is older than the row is ignored: the row never becomes older.
LEMMA UpsertKeeps ==
    ASSUME BillingInv, NEW b \in Subs, NEW snap \in Version, NEW time \in Nat, NEW by \in Sources,
           time <= clock, by = "webhook" /\ AtLatest(b, time) => snap = prov[b],
           upsertSubscription(b, snap, time, by)
    PROVE  /\ row' \in [Subs -> [snap : Version, at : Nat, by : {"none"} \cup Sources]]
           /\ row'[b].at >= time
           /\ \A q \in Subs :
                /\ row'[q].at >= row[q].at /\ row'[q].at <= clock
                /\ row'[q].by = "webhook" /\ AtLatest(q, row'[q].at) => row'[q].snap = prov[q]
<1>t. row \in [Subs -> [snap : Version, at : Nat, by : {"none"} \cup Sources]] /\ clock \in Nat
  BY DEF BillingInv, BillingTypes
<1> DEFINE new == [snap |-> snap, at |-> time, by |-> by]
<1>1. \/ time < row[b].at /\ row' = row
      \/ ~(time < row[b].at) /\ row' = [row EXCEPT ![b] = new]
  BY <1>t DEF upsertSubscription
<1>2. new \in [snap : Version, at : Nat, by : {"none"} \cup Sources] /\ new.snap = snap /\ new.at = time /\ new.by = by
  OBVIOUS
<1> HIDE DEF new
<1>3. \A q \in Subs : row[q].at <= clock /\ (row[q].by = "webhook" /\ AtLatest(q, row[q].at) => row[q].snap = prov[q])
  BY DEF BillingInv, RowsAreDated
<1>4. CASE time < row[b].at /\ row' = row
  BY <1>t, <1>3, <1>4
<1>5. CASE ~(time < row[b].at) /\ row' = [row EXCEPT ![b] = new]
  <2>1. \A q \in Subs : row'[q] = IF q = b THEN new ELSE row[q]
    BY <1>t, <1>5
  <2>2. row' \in [Subs -> [snap : Version, at : Nat, by : {"none"} \cup Sources]]
    BY <1>t, <1>2, <1>5
  <2>3. row[b].at \in Nat /\ row[b].at <= time
    BY <1>t, <1>5
  <2>4. QED
    BY <1>t, <1>2, <1>3, <2>1, <2>2, <2>3
<1>6. QED
  BY <1>1, <1>4, <1>5

\* A request applies its event and marks it, in one transaction.
LEMMA HandleStep ==
    ASSUME BillingInv, NEW h \in handling, handleEvent(h)
    PROVE  BillingInv'
<1>t. /\ handling \subseteq [e : Dated, snap : Version, hydrated : BOOLEAN]
      /\ DOMAIN ledger \subseteq Dated
      /\ ledger \in [DOMAIN ledger -> {"sent", "processing", "failed"} \cup Finished]
      /\ row \in [Subs -> [snap : Version, at : Nat, by : {"none"} \cup Sources]]
      /\ checkout \in [Subs -> {"none", "starting", "open", "complete", "expired"}]
      /\ payment \in [Subs -> {"none", "paid", "failed"}]
  BY DEF BillingInv, BillingTypes
<1> DEFINE e == h.e
           b == h.e.sub
<1>1. /\ e \in DOMAIN ledger /\ b \in Subs /\ e.at \in Nat /\ h.snap \in Version
      /\ e.kind \in {"subscription", "checkout", "paid", "payment_failed", "other"}
      /\ e.kind \in Stateful /\ AtLatest(b, e.at) => h.snap = prov[b]
      /\ e.at <= clock
  <2>1. e \in DOMAIN ledger /\ e \in Dated
    BY <1>t DEF BillingInv, HandlersKnow
  <2>2. h.hydrated
    BY DEF handleEvent
  <2>3. QED
    BY <1>t, <2>1, <2>2 DEF BillingInv, HandlersKnow, EventsAreDated, Dated
<1>2. /\ UNCHANGED <<prov, clock, calls>> /\ handling' \subseteq handling
      /\ ledger' = [ledger EXCEPT ![e] = IF e.kind = "other" THEN "ignored" ELSE "processed"]
  BY DEF handleEvent, finishBillingEvent, bProv
<1>3. /\ DOMAIN ledger' = DOMAIN ledger
      /\ ledger' \in [DOMAIN ledger' -> {"sent", "processing", "failed"} \cup Finished]
      /\ \A f \in DOMAIN ledger : f # e => ledger'[f] = ledger[f]
      /\ ledger'[e] = IF e.kind = "other" THEN "ignored" ELSE "processed"
  BY <1>t, <1>1, <1>2 DEF Finished
\* What handling the event leaves.
<1>4. /\ row' \in [Subs -> [snap : Version, at : Nat, by : {"none"} \cup Sources]]
      /\ \A q \in Subs :
           /\ row'[q].at >= row[q].at /\ row'[q].at <= clock
           /\ row'[q].by = "webhook" /\ AtLatest(q, row'[q].at) => row'[q].snap = prov[q]
      /\ e.kind \in Stateful => row'[b].at >= e.at
  <2>1. CASE upsertSubscription(b, h.snap, e.at, "webhook") /\ e.kind \in Stateful
    BY <1>1, <2>1, UpsertKeeps DEF Sources
  <2>2. CASE UNCHANGED row /\ e.kind \notin Stateful
    BY <1>t, <2>2 DEF BillingInv, RowsAreDated
  <2>3. \/ upsertSubscription(b, h.snap, e.at, "webhook") /\ e.kind \in Stateful
        \/ UNCHANGED row /\ e.kind \notin Stateful
    BY DEF handleEvent, handle, Stateful, Invoices
  <2>4. QED
    BY <2>1, <2>2, <2>3
<1>5. /\ checkout' \in [Subs -> {"none", "starting", "open", "complete", "expired"}]
      /\ \A q \in Subs : checkout[q] = "complete" => checkout'[q] = "complete"
      /\ e.kind = "checkout" => checkout'[b] = "complete"
  <2>1. \/ e.kind = "checkout" /\ checkout' = [checkout EXCEPT ![b] = "complete"]
        \/ e.kind # "checkout" /\ checkout' = checkout
    BY DEF handleEvent, handle, Invoices
  <2>2. QED
    BY <1>t, <1>1, <2>1
<1>6. /\ payment' \in [Subs -> {"none", "paid", "failed"}]
      /\ \A q \in Subs : payment[q] # "none" => payment'[q] # "none"
      /\ e.kind \in Invoices => payment'[b] # "none"
  <2>1. \/ e.kind \in Invoices /\ recordPaymentIfNew(b, IF e.kind = "paid" THEN "paid" ELSE "failed")
        \/ e.kind \notin Invoices /\ payment' = payment
    BY DEF handleEvent, handle, Invoices
  <2>2. QED
    BY <1>t, <1>1, <2>1 DEF recordPaymentIfNew
<1>7. BillingTypes'
  BY <1>2, <1>3, <1>4, <1>5, <1>6 DEF BillingInv, BillingTypes
<1>8. \A q, t : AtLatest(q, t)' <=> AtLatest(q, t)
  BY <1>3, LatestStays
<1>9. EventsAreDated'
  <2>1. \A f \in DOMAIN ledger : ledger'[f] = "ignored" => f.kind = "other"
    BY <1>3 DEF BillingInv, EventsAreDated
  <2>2. QED
    BY <1>2, <1>3, <1>8, <2>1 DEF BillingInv, EventsAreDated
<1>10. HandlersKnow'
  BY <1>2, <1>3, <1>8 DEF BillingInv, HandlersKnow
<1>11. RowsAreDated'
  BY <1>2, <1>4, <1>8 DEF RowsAreDated
<1>12. ClosedStaysClosed'
  BY <1>3, <1>5, <1>t DEF BillingInv, ClosedStaysClosed, Dated
<1>13. ProcessedIsApplied'
  <2>1. SUFFICES ASSUME NEW f \in DOMAIN ledger, ledger'[f] = "processed"
                 PROVE  /\ f.kind = "subscription" => row'[f.sub].at >= f.at
                        /\ f.kind \in Invoices => row'[f.sub].at >= f.at /\ payment'[f.sub] # "none"
                        /\ f.kind = "checkout" => checkout'[f.sub] \notin {"starting", "open"}
    BY <1>3 DEF ProcessedIsApplied
  <2>2. f.sub \in Subs /\ f.at \in Nat
    BY <1>t DEF Dated
  <2>3. row[f.sub].at \in Nat /\ row'[f.sub].at \in Nat /\ row'[f.sub].at >= row[f.sub].at
    BY <1>t, <1>4, <2>2
  <2>4. CASE f = e
    BY <1>4, <1>5, <1>6, <2>2, <2>4 DEF Stateful
  <2>5. CASE f # e
    <3>1. ledger[f] = "processed"
      BY <1>3, <2>1, <2>5
    <3>2. /\ f.kind = "subscription" => row[f.sub].at >= f.at
          /\ f.kind \in Invoices => row[f.sub].at >= f.at /\ payment[f.sub] # "none"
          /\ f.kind = "checkout" => checkout[f.sub] = "complete"
      BY <3>1 DEF BillingInv, ProcessedIsApplied, ClosedStaysClosed
    <3>3. QED
      BY <1>5, <1>6, <2>2, <2>3, <3>2
  <2>6. QED
    BY <2>4, <2>5
<1>14. QED
  BY <1>7, <1>9, <1>10, <1>11, <1>12, <1>13 DEF BillingInv

\* The service's own records: a checkout begins, is opened, expires or is closed.
LEMMA CheckoutStep ==
    ASSUME BillingInv, UNCHANGED <<prov, ledger, row, payment, handling>>,
           clock' \in Nat, clock' >= clock, calls' \subseteq [sub : Subs, snap : Version],
           checkout' \in [Subs -> {"none", "starting", "open", "complete", "expired"}],
           \A b \in Subs : checkout[b] = "complete" => checkout'[b] = "complete"
    PROVE  BillingInv'
<1>t. DOMAIN ledger \subseteq Dated /\ clock \in Nat
      /\ row \in [Subs -> [snap : Version, at : Nat, by : {"none"} \cup Sources]]
  BY DEF BillingInv, BillingTypes
<1>1. BillingTypes'
  BY DEF BillingInv, BillingTypes
<1>2. \A b, t : AtLatest(b, t)' <=> AtLatest(b, t)
  BY LatestStays
<1>3. HandlersKnow'
  BY <1>2 DEF BillingInv, HandlersKnow
<1>4. EventsAreDated'
  <2>1. \A e \in DOMAIN ledger : e.at \in Nat
    BY <1>t DEF Dated
  <2>2. QED
    BY <1>2, <1>t, <2>1 DEF BillingInv, EventsAreDated
<1>5. RowsAreDated'
  <2>1. \A b \in Subs : row[b].at \in Nat
    BY <1>t
  <2>2. QED
    BY <1>2, <1>t, <2>1 DEF BillingInv, RowsAreDated
<1>6. ClosedStaysClosed' /\ ProcessedIsApplied'
  <2>1. \A e \in DOMAIN ledger : e.sub \in Subs
    BY <1>t DEF Dated
  <2>2. ClosedStaysClosed'
    BY <2>1 DEF BillingInv, ClosedStaysClosed
  <2>3. QED
    BY <2>1, <2>2 DEF BillingInv, ClosedStaysClosed, ProcessedIsApplied
<1>7. QED
  BY <1>1, <1>3, <1>4, <1>5, <1>6 DEF BillingInv

\* An answer is written with the time of the write, by a call.
LEMMA AnswerStep ==
    ASSUME BillingInv, NEW c \in calls, applyAnswer(c)
    PROVE  BillingInv'
<1>t. /\ calls \subseteq [sub : Subs, snap : Version] /\ clock \in Nat
      /\ DOMAIN ledger \subseteq Dated
      /\ row \in [Subs -> [snap : Version, at : Nat, by : {"none"} \cup Sources]]
  BY DEF BillingInv, BillingTypes
<1>1. c.sub \in Subs /\ c.snap \in Version
  BY <1>t
<1>2. /\ UNCHANGED <<prov, clock, ledger, checkout, payment, handling>> /\ calls' \subseteq calls
      /\ upsertSubscription(c.sub, c.snap, clock, "call")
  BY DEF applyAnswer, bProv
<1>3. /\ row' \in [Subs -> [snap : Version, at : Nat, by : {"none"} \cup Sources]]
      /\ \A q \in Subs :
           /\ row'[q].at >= row[q].at /\ row'[q].at <= clock
           /\ row'[q].by = "webhook" /\ AtLatest(q, row'[q].at) => row'[q].snap = prov[q]
  BY <1>t, <1>1, <1>2, UpsertKeeps DEF Sources
<1>4. BillingTypes'
  BY <1>2, <1>3, <1>t DEF BillingInv, BillingTypes
<1>5. \A b, t : AtLatest(b, t)' <=> AtLatest(b, t)
  BY <1>2, LatestStays
<1>6. EventsAreDated' /\ HandlersKnow' /\ ClosedStaysClosed'
  BY <1>2, <1>5 DEF BillingInv, EventsAreDated, HandlersKnow, ClosedStaysClosed
<1>7. RowsAreDated'
  BY <1>2, <1>3, <1>5 DEF RowsAreDated
<1>8. ProcessedIsApplied'
  <2>1. \A e \in DOMAIN ledger : /\ e.sub \in Subs /\ e.at \in Nat
                                 /\ row[e.sub].at \in Nat /\ row'[e.sub].at \in Nat
                                 /\ row'[e.sub].at >= row[e.sub].at
    BY <1>t, <1>3 DEF Dated
  <2>2. QED
    BY <1>2, <2>1 DEF BillingInv, ProcessedIsApplied
<1>9. QED
  BY <1>4, <1>6, <1>7, <1>8 DEF BillingInv

LEMMA ProviderSteps ==
    ASSUME BillingInv, NEW b \in Subs, providerSubscribes(b) \/ providerChanges(b)
    PROVE  BillingInv'
<1>c. calls \subseteq [sub : Subs, snap : Version]
  BY DEF BillingInv, BillingTypes
<1>1. CASE providerSubscribes(b)
  BY <1>c, <1>1, ChangeStep DEF providerSubscribes, Open
<1>2. CASE providerChanges(b)
  <2>1. /\ UNCHANGED <<row, checkout, payment, handling, calls>> /\ prov[b].st \in Open
        /\ \/ \E st \in (Open \cup {"canceled"}) \ {prov[b].st} : ProviderChange(b, st, {})
           \/ ProviderChange(b, prov[b].st, {"payment_failed", "paid", "other"})
    BY <1>2 DEF providerChanges
  <2>2. CASE \E st \in (Open \cup {"canceled"}) \ {prov[b].st} : ProviderChange(b, st, {})
    BY <1>c, <2>1, <2>2, ChangeStep
  <2>3. CASE ProviderChange(b, prov[b].st, {"payment_failed", "paid", "other"})
    BY <1>c, <2>1, <2>3, ChangeStep
  <2>4. QED
    BY <2>1, <2>2, <2>3
<1>3. QED
  BY <1>1, <1>2

LEMMA CallSteps ==
    ASSUME BillingInv, NEW b \in Subs, cancelSubscription(b) \/ reactivateSubscription(b)
    PROVE  BillingInv'
<1>t. /\ calls \subseteq [sub : Subs, snap : Version] /\ prov \in [Subs -> Version]
  BY DEF BillingInv, BillingTypes
<1>1. PICK st \in Open : /\ ProviderChange(b, st, {})
                         /\ calls' = calls \cup {[sub |-> b, snap |-> prov'[b]]}
                         /\ UNCHANGED <<row, checkout, payment, handling>>
  BY DEF cancelSubscription, reactivateSubscription, Answer, Open
<1>2. prov'[b] \in Version
  BY <1>1, <1>t DEF ProviderChange, Version
<1>3. calls' \subseteq [sub : Subs, snap : Version]
  BY <1>1, <1>2, <1>t
<1>4. QED
  BY <1>1, <1>3, ChangeStep DEF Open

LEMMA ServiceSteps ==
    ASSUME BillingInv,
           \/ \E b \in Subs : \/ startCheckout(b) \/ createCheckoutRecord(b)
                              \/ confirmCheckout(b) \/ reconcileSubscription(b)
           \/ \E c \in calls : loseAnswer(c)
           \/ timePasses \/ expireStaleCheckouts
    PROVE  BillingInv'
<1>t. /\ calls \subseteq [sub : Subs, snap : Version] /\ prov \in [Subs -> Version] /\ clock \in Nat
      /\ checkout \in [Subs -> {"none", "starting", "open", "complete", "expired"}]
  BY DEF BillingInv, BillingTypes
<1>s. UNCHANGED <<prov, ledger, row, payment, handling>> /\ clock' \in Nat /\ clock' >= clock
  BY <1>t DEF startCheckout, createCheckoutRecord, confirmCheckout, reconcileSubscription, loseAnswer,
              timePasses, expireStaleCheckouts, Tick, bProv, bDb
<1>1. ASSUME NEW b \in Subs, startCheckout(b) \/ createCheckoutRecord(b)
      PROVE  BillingInv'
  <2>1. UNCHANGED calls /\ checkout[b] \in {"none", "starting"}
        /\ (checkout' = [checkout EXCEPT ![b] = "starting"] \/ checkout' = [checkout EXCEPT ![b] = "open"])
    BY <1>1 DEF startCheckout, createCheckoutRecord
  <2>2. QED
    BY <1>s, <1>t, <2>1, CheckoutStep
<1>2. ASSUME NEW b \in Subs, confirmCheckout(b) \/ reconcileSubscription(b)
      PROVE  BillingInv'
  <2>1. calls' = calls \cup {[sub |-> b, snap |-> prov[b]]}
        /\ (UNCHANGED checkout \/ checkout' = [checkout EXCEPT ![b] = "complete"])
    BY <1>2 DEF confirmCheckout, reconcileSubscription, Answer, bDb
  <2>2. calls' \subseteq [sub : Subs, snap : Version]
    BY <1>t, <2>1
  <2>3. QED
    BY <1>s, <1>t, <2>1, <2>2, CheckoutStep
<1>3. CASE (\E c \in calls : loseAnswer(c)) \/ timePasses
  <2>1. UNCHANGED checkout /\ calls' \subseteq calls
    BY <1>3 DEF loseAnswer, timePasses, bDb
  <2>2. QED
    BY <1>s, <1>t, <2>1, CheckoutStep
<1>4. CASE expireStaleCheckouts
  <2>1. UNCHANGED calls
        /\ checkout' = [b \in Subs |-> IF checkout[b] = "open" THEN "expired" ELSE checkout[b]]
    BY <1>4 DEF expireStaleCheckouts
  <2>2. QED
    BY <1>s, <1>t, <2>1, CheckoutStep
<1>5. QED
  BY <1>1, <1>2, <1>3, <1>4

LEMMA ClaimSteps ==
    ASSUME BillingInv, (\E e \in DOMAIN ledger : claimEvent(e)) \/ (\E h \in handling : handlerFails(h))
    PROVE  BillingInv'
<1>1. ASSUME NEW e \in DOMAIN ledger, claimEvent(e)
      PROVE  BillingInv'
  BY <1>1, LedgerStep DEF claimEvent, claimBillingEvent
<1>2. ASSUME NEW h \in handling, handlerFails(h)
      PROVE  BillingInv'
  <2>1. h.e \in DOMAIN ledger
    BY DEF BillingInv, HandlersKnow
  <2>2. /\ ledger' = [ledger EXCEPT ![h.e] = "failed"] \/ UNCHANGED ledger
        /\ UNCHANGED <<bProv, row, checkout, payment, calls>> /\ handling' \subseteq handling
    BY <1>2 DEF handlerFails, finishBillingEvent
  <2>3. QED
    BY <2>1, <2>2, LedgerStep
<1>3. QED
  BY <1>1, <1>2

LEMMA BillingStep ==
    ASSUME BillingInv, [BillingNext]_bVars
    PROVE  BillingInv'
<1>1. CASE UNCHANGED bVars
  BY <1>1 DEF bVars, bProv, bDb, BillingInv, BillingTypes, EventsAreDated, AtLatest, HandlersKnow,
              RowsAreDated, ClosedStaysClosed, ProcessedIsApplied
<1>2. CASE BillingNext
  BY <1>2, ProviderSteps, CallSteps, ServiceSteps, ClaimSteps, HydrateStep, HandleStep, AnswerStep
     DEF BillingNext
<1>3. QED
  BY <1>1, <1>2

LEMMA BillingInvariant == BillingSpec => []BillingInv
BY BillingStart, BillingStep, PTL DEF BillingSpec

\* An event that is processed had its effect, for any number of subscriptions,
\* versions, requests, crashes and calls (processProviderEvent, claimBillingEvent).
THEOREM EventsAreApplied == BillingSpec => []ProcessedIsApplied
<1>1. BillingInv => ProcessedIsApplied
  BY DEF BillingInv
<1>2. QED
  BY <1>1, BillingInvariant, PTL

\* When all events of a subscription are processed, the row that a webhook wrote last says
\* what the provider says, in whatever order the events came and whatever an invoice's
\* hydration brought: no event is younger than the row, for with every state went a
\* subscription event of its own, which was processed too (upsertSubscription).
THEOREM EventsConverge == BillingSpec => []WebhooksConverge
<1>1. ASSUME BillingInv
      PROVE  WebhooksConverge
  <2>1. SUFFICES ASSUME NEW b \in Subs, Quiet(b), row[b].by = "webhook"
                 PROVE  row[b].snap = prov[b]
    BY DEF WebhooksConverge
  <2>2. AtLatest(b, row[b].at)
    <3>1. SUFFICES ASSUME NEW e \in DOMAIN ledger, e.sub = b
                   PROVE  e.at <= row[b].at
      BY DEF AtLatest
    <3>2. PICK f \in DOMAIN ledger : f.kind = "subscription" /\ f.sub = e.sub /\ f.at = e.at
      BY <1>1 DEF BillingInv, EventsAreDated
    <3>3. ledger[f] = "processed"
      BY <1>1, <2>1, <3>1, <3>2 DEF Quiet, Finished, BillingInv, EventsAreDated
    <3>4. row[b].at >= e.at /\ e.at \in Nat /\ row[b].at \in Nat
      BY <1>1, <3>1, <3>2, <3>3 DEF BillingInv, ProcessedIsApplied, BillingTypes, Dated
    <3>5. QED
      BY <3>4
  <2>3. QED
    BY <1>1, <2>1, <2>2 DEF BillingInv, RowsAreDated
<1>2. QED
  BY <1>1, BillingInvariant, PTL

-----------------------------------------------------------------------------
(***************************************************************************)
(* The circuit breaker.  A closed breaker holds the failures since the     *)
(* last success, those that have left the window aside; an open one counts *)
(* the successes since the last failure.                                   *)
(***************************************************************************)
Reports == [ok : BOOLEAN, at : Nat]

BreakerTypes ==
    /\ now \in Nat \ {0} /\ failures \in Seq(Nat) /\ openedAt \in Nat /\ probeSuccesses \in Nat
    /\ history \in Seq(Reports)

\* Nothing is later than now, and the failures are in order.
TimesAreOrdered ==
    /\ openedAt <= now
    /\ \A i \in 1 .. Len(failures) : failures[i] <= now
    /\ \A i, j \in 1 .. Len(failures) : i <= j => failures[i] <= failures[j]

\* While it is closed the breaker holds the failures that came last, down to a
\* success or to a report that is too old.
ClosedFollows ==
    openedAt = 0 =>
        /\ Len(failures) < FailureThreshold /\ Len(failures) <= Len(history)
        /\ \A i \in 1 .. Len(failures) :
               ~history[i].ok /\ history[i].at = failures[Len(failures) + 1 - i]
        /\ Len(failures) < Len(history) =>
               history[Len(failures) + 1].ok \/ ~InWindow(history[Len(failures) + 1].at)

\* While it is open it counts the successes that came last, down to a failure.
OpenFollows ==
    openedAt # 0 =>
        /\ probeSuccesses < RecoveryProbes /\ probeSuccesses < Len(history)
        /\ \A i \in 1 .. probeSuccesses : history[i].ok /\ history[i].at >= openedAt
        /\ ~history[probeSuccesses + 1].ok

BreakerInv == BreakerTypes /\ TimesAreOrdered /\ ClosedFollows /\ OpenFollows

\* A set of numbers that is not empty has a least one.
LEMMA LeastExists ==
    ASSUME NEW T, T \subseteq Nat, T # {}
    PROVE  \E x \in T : \A y \in T : x <= y
<1> DEFINE R == OpToRel(<, Nat)
<1>1. IsWellFoundedOn(R, Nat)
  BY NatLessThanWellFounded
<1>2. \A x, y \in Nat : <<x, y>> \in R <=> x < y
  BY DEF OpToRel
<1> HIDE DEF R
<1>3. IsWellFoundedOn(R, T)
  BY <1>1, IsWellFoundedOnSubset
<1>4. \E x \in T : \A y \in T : ~(<<y, x>> \in R)
  BY <1>3, WFMin
<1>5. PICK x \in T : \A y \in T : ~(<<y, x>> \in R)
  BY <1>4
<1>6. \A y \in T : ~(y < x)
  BY <1>2, <1>5
<1>7. \A y \in T : x <= y
  BY <1>6
<1>8. QED
  BY <1>7

\* What has left the window is a prefix of what is in order.
LEMMA PruneDropsPrefix ==
    ASSUME NEW f \in Seq(Nat), now \in Nat,
           \A i \in 1 .. Len(f) : f[i] <= now,
           \A i, j \in 1 .. Len(f) : i <= j => f[i] <= f[j]
    PROVE  /\ Left(f) \in 0 .. Len(f)
           /\ \A i \in 1 .. Left(f) : ~InWindow(f[i])
           /\ \A i \in (Left(f) + 1) .. Len(f) : InWindow(f[i])
           /\ prune(f) \in Seq(Nat) /\ Len(prune(f)) = Len(f) - Left(f)
           /\ \A i \in 1 .. Len(prune(f)) : prune(f)[i] = f[Left(f) + i]
<1> USE BreakerAssumption
<1> DEFINE n == Len(f)
           In == {i \in 1 .. n : InWindow(f[i])}
           Cut(k) == /\ \A i \in 1 .. k : ~InWindow(f[i])
                     /\ \A i \in (k + 1) .. n : InWindow(f[i])
<1>1. n \in Nat /\ \A i \in 1 .. n : f[i] \in Nat
  OBVIOUS
<1>2. \E k \in 0 .. n : Cut(k)
  <2>1. CASE In = {}
    <3>1. Cut(n)
      BY <1>1, <2>1
    <3>2. QED
      BY <1>1, <3>1
  <2>2. CASE In # {}
    <3>1. In \subseteq Nat
      OBVIOUS
    <3> HIDE DEF In
    <3>2. PICK x \in In : \A y \in In : x <= y
      BY <2>2, <3>1, LeastExists
    <3>3. x \in 1 .. n /\ InWindow(f[x]) /\ \A y \in 1 .. n : InWindow(f[y]) => x <= y
      BY <3>2 DEF In
    <3>4. x - 1 \in 0 .. n /\ \A i \in 1 .. (x - 1) : i \in 1 .. n /\ ~(x <= i)
      BY <1>1, <3>3
    <3>5. \A i \in ((x - 1) + 1) .. n : i \in 1 .. n /\ x <= i
      BY <1>1, <3>3
    <3>6. \A i \in ((x - 1) + 1) .. n : InWindow(f[i])
      <4>1. SUFFICES ASSUME NEW i \in ((x - 1) + 1) .. n
                     PROVE  InWindow(f[i])
        OBVIOUS
      <4>2. f[x] <= f[i] /\ f[x] \in Nat /\ f[i] \in Nat /\ f[i] <= now
        BY <1>1, <3>3, <3>5, <4>1
      <4>3. QED
        BY <3>3, <4>2 DEF InWindow
    <3>7. Cut(x - 1)
      BY <3>3, <3>4, <3>6
    <3>8. QED
      BY <3>4, <3>7
  <2>3. QED
    BY <2>1, <2>2
<1>3. Left(f) \in 0 .. n /\ Cut(Left(f))
  BY <1>2 DEF Left
<1>4. prune(f) = SubSeq(f, Left(f) + 1, Len(f))
  BY DEF prune
<1>5. QED
  BY <1>1, <1>3, <1>4, SubSeqProperties

LEMMA BreakerStart == BreakerInit => BreakerInv
BY BreakerAssumption DEF BreakerInit, BreakerInv, BreakerTypes, TimesAreOrdered, ClosedFollows, OpenFollows

\* What is dropped from the failures left the window, and the rest is as it was.
LEMMA PruneKeeps ==
    ASSUME BreakerInv
    PROVE  /\ prune(failures) \in Seq(Nat) /\ Len(prune(failures)) <= Len(failures)
           /\ \A i \in 1 .. Len(prune(failures)) :
                  prune(failures)[i] = failures[Len(failures) - Len(prune(failures)) + i]
           /\ \A i \in 1 .. Len(failures) - Len(prune(failures)) : ~InWindow(failures[i])
           /\ \A i \in 1 .. Len(prune(failures)) : InWindow(prune(failures)[i])
<1>1. /\ failures \in Seq(Nat) /\ now \in Nat
      /\ \A i \in 1 .. Len(failures) : failures[i] <= now
      /\ \A i, j \in 1 .. Len(failures) : i <= j => failures[i] <= failures[j]
  BY DEF BreakerInv, BreakerTypes, TimesAreOrdered
<1>2. /\ Left(failures) \in 0 .. Len(failures)
      /\ \A i \in 1 .. Left(failures) : ~InWindow(failures[i])
      /\ \A i \in (Left(failures) + 1) .. Len(failures) : InWindow(failures[i])
      /\ prune(failures) \in Seq(Nat) /\ Len(prune(failures)) = Len(failures) - Left(failures)
      /\ \A i \in 1 .. Len(prune(failures)) : prune(failures)[i] = failures[Left(failures) + i]
  BY <1>1, PruneDropsPrefix
<1>3. Len(failures) \in Nat
  BY <1>1
<1>4. Left(failures) = Len(failures) - Len(prune(failures))
  BY <1>2, <1>3
<1>5. \A i \in 1 .. Len(prune(failures)) : Left(failures) + i \in (Left(failures) + 1) .. Len(failures)
  BY <1>2, <1>3
<1>6. \A i \in 1 .. Len(prune(failures)) : InWindow(prune(failures)[i])
  <2>1. SUFFICES ASSUME NEW i \in 1 .. Len(prune(failures))
                 PROVE  InWindow(prune(failures)[i])
    OBVIOUS
  <2>2. InWindow(failures[Left(failures) + i]) /\ prune(failures)[i] = failures[Left(failures) + i]
    BY <1>2, <1>5
  <2>3. QED
    BY <2>2
<1>7. Len(prune(failures)) <= Len(failures)
  BY <1>2, <1>3
<1>8. QED
  BY <1>2, <1>4, <1>6, <1>7

\* Pruning alone.
LEMMA PrunedFollows ==
    ASSUME BreakerInv, failures' = prune(failures), UNCHANGED <<now, openedAt, history>>
    PROVE  ClosedFollows' /\ TimesAreOrdered' /\ failures' \in Seq(Nat)
<1> DEFINE n == Len(failures)
           k == Len(failures) - Len(prune(failures))
<1>1. /\ n \in Nat /\ Len(failures') \in Nat /\ k \in 0 .. n /\ Len(failures') = n - k
      /\ failures' \in Seq(Nat)
      /\ \A i \in 1 .. n - k : failures'[i] = failures[k + i]
      /\ \A i \in 1 .. k : ~InWindow(failures[i])
  BY PruneKeeps DEF BreakerInv, BreakerTypes
<1> HIDE DEF k
<1>2. \A i \in 1 .. n - k : k + i \in 1 .. n
  BY <1>1
<1>3. TimesAreOrdered'
  <2>1. \A i \in 1 .. n : failures[i] \in Nat /\ failures[i] <= now
    BY DEF BreakerInv, BreakerTypes, TimesAreOrdered
  <2>2. \A i, j \in 1 .. n - k : i <= j => failures'[i] <= failures'[j]
    <3>1. SUFFICES ASSUME NEW i \in 1 .. n - k, NEW j \in 1 .. n - k, i <= j
                   PROVE  failures'[i] <= failures'[j]
      OBVIOUS
    <3>2. k + i \in 1 .. n /\ k + j \in 1 .. n /\ k + i <= k + j
      BY <1>1, <1>2, <3>1
    <3>3. QED
      BY <1>1, <3>2 DEF BreakerInv, TimesAreOrdered
  <2>3. QED
    BY <1>1, <1>2, <2>1, <2>2 DEF BreakerInv, TimesAreOrdered
<1>4. ClosedFollows'
  <2>1. SUFFICES ASSUME openedAt = 0
                 PROVE  /\ n - k < FailureThreshold /\ n - k <= Len(history)
                        /\ \A i \in 1 .. n - k : ~history[i].ok /\ history[i].at = failures'[n - k + 1 - i]
                        /\ n - k < Len(history) =>
                               history[n - k + 1].ok \/ ~InWindow(history[n - k + 1].at)
    BY <1>1 DEF ClosedFollows, InWindow
  <2>2. /\ n < FailureThreshold /\ n <= Len(history) /\ Len(history) \in Nat
        /\ \A i \in 1 .. n : ~history[i].ok /\ history[i].at = failures[n + 1 - i]
        /\ n < Len(history) => history[n + 1].ok \/ ~InWindow(history[n + 1].at)
    BY <2>1 DEF BreakerInv, ClosedFollows, BreakerTypes
  <2>3. \A i \in 1 .. n - k : history[i].at = failures'[n - k + 1 - i]
    <3>1. SUFFICES ASSUME NEW i \in 1 .. n - k
                   PROVE  history[i].at = failures'[n - k + 1 - i]
      OBVIOUS
    <3>2. i \in 1 .. n /\ n - k + 1 - i \in 1 .. n - k /\ k + (n - k + 1 - i) = n + 1 - i
      BY <1>1
    <3>3. QED
      BY <1>1, <2>2, <3>2
  <2>4. n - k < Len(history) => history[n - k + 1].ok \/ ~InWindow(history[n - k + 1].at)
    <3>1. CASE k = 0
      BY <1>1, <2>2, <3>1
    <3>2. CASE k # 0
      <4>1. k \in 1 .. k /\ n - k + 1 \in 1 .. n /\ n + 1 - (n - k + 1) = k
        BY <1>1, <3>2
      <4>2. history[n - k + 1].at = failures[k]
        BY <2>2, <4>1
      <4>3. QED
        BY <1>1, <4>1, <4>2
    <3>3. QED
      BY <3>1, <3>2
  <2>5. QED
    BY <1>1, <2>2, <2>3, <2>4, BreakerAssumption
<1>5. QED
  BY <1>1, <1>3, <1>4

\* A report becomes the newest one.
LEMMA ReportIsNewest ==
    ASSUME BreakerInv, NEW ok \in BOOLEAN, Report(ok)
    PROVE  /\ history' \in Seq(Reports) /\ Len(history') = Len(history) + 1 /\ history' # history
           /\ history'[1] = [ok |-> ok, at |-> now] /\ now' = now
           /\ \A i \in 1 .. Len(history) : history'[i + 1] = history[i]
<1> DEFINE new == [ok |-> ok, at |-> now]
<1>1. history' = <<new>> \o history /\ now' = now
  BY DEF Report
<1>2. new \in Reports /\ history \in Seq(Reports) /\ Len(history) \in Nat
  BY DEF Reports, BreakerInv, BreakerTypes
<1> HIDE DEF new
<1>3. /\ history' \in Seq(Reports) /\ Len(history') = 1 + Len(history)
      /\ history'[1] = new /\ \A i \in 1 .. Len(history) : history'[i + 1] = history[i]
  BY <1>1, <1>2
<1>4. history' # history
  BY <1>2, <1>3
<1>5. QED
  BY <1>1, <1>2, <1>3, <1>4 DEF new

LEMMA AllowsStep == BreakerInv /\ breakerAllows => BreakerInv'
<1>1. SUFFICES ASSUME BreakerInv, breakerAllows
               PROVE  BreakerInv'
  OBVIOUS
<1>2. failures' = prune(failures) /\ UNCHANGED <<now, openedAt, probeSuccesses, history>>
  BY <1>1 DEF breakerAllows
<1>3. ClosedFollows' /\ TimesAreOrdered' /\ failures' \in Seq(Nat)
  BY <1>1, <1>2, PrunedFollows
<1>4. QED
  BY <1>1, <1>2, <1>3 DEF BreakerInv, BreakerTypes, OpenFollows

LEMMA TimeStep == BreakerInv /\ timeGoesOn => BreakerInv'
<1>1. SUFFICES ASSUME BreakerInv, timeGoesOn
               PROVE  BreakerInv'
  OBVIOUS
<1>2. now' = now + 1 /\ UNCHANGED <<failures, openedAt, probeSuccesses, history>>
  BY <1>1 DEF timeGoesOn
<1>3. BreakerTypes' /\ OpenFollows'
  BY <1>1, <1>2 DEF BreakerInv, BreakerTypes, OpenFollows
<1>4. TimesAreOrdered'
  <2>1. \A i \in 1 .. Len(failures) : failures[i] \in Nat /\ failures[i] <= now
    BY <1>1 DEF BreakerInv, BreakerTypes, TimesAreOrdered
  <2>2. QED
    BY <1>1, <1>2, <2>1 DEF BreakerInv, BreakerTypes, TimesAreOrdered
<1>5. ClosedFollows'
  <2>1. Len(failures) < Len(history) => Len(failures) + 1 \in 1 .. Len(history)
    BY <1>1 DEF BreakerInv, BreakerTypes
  <2>2. Len(failures) < Len(history) => history[Len(failures) + 1].at \in Nat
    <3>1. \A i \in 1 .. Len(history) : history[i] \in Reports
      BY <1>1 DEF BreakerInv, BreakerTypes
    <3>2. \A r \in Reports : r.at \in Nat
      BY DEF Reports
    <3>3. QED
      BY <2>1, <3>1, <3>2
  <2>3. \A t \in Nat : ~InWindow(t) => ~InWindow(t)'
    BY <1>1, <1>2, BreakerAssumption DEF InWindow, BreakerInv, BreakerTypes
  <2>4. QED
    BY <1>1, <1>2, <2>2, <2>3 DEF BreakerInv, ClosedFollows
<1>6. QED
  BY <1>3, <1>4, <1>5 DEF BreakerInv

\* A success empties a closed breaker, and counts for an open one: it closes
\* with the last of the probes.
LEMMA SuccessStep ==
    ASSUME BreakerInv, recordBreakerSuccess
    PROVE  /\ BreakerInv'
           /\ openedAt = 0 => openedAt' = 0
           /\ openedAt # 0 => (openedAt' = 0 <=> probeSuccesses + 1 >= RecoveryProbes)
<1>1. Report(TRUE)
  BY DEF recordBreakerSuccess
<1>2. /\ history' \in Seq(Reports) /\ Len(history') = Len(history) + 1 /\ now' = now
      /\ history'[1] = [ok |-> TRUE, at |-> now]
      /\ \A i \in 1 .. Len(history) : history'[i + 1] = history[i]
  BY <1>1, ReportIsNewest
<1>3. history \in Seq(Reports) /\ Len(history) \in Nat /\ now \in Nat \ {0} /\ probeSuccesses \in Nat
  BY DEF BreakerInv, BreakerTypes
<1>4. history'[1].ok /\ history'[1].at = now
  BY <1>2
<1>5. ASSUME failures' = <<>>, openedAt' = 0, probeSuccesses' \in Nat
      PROVE  BreakerInv'
  <2>1. Len(failures') = 0 /\ failures' \in Seq(Nat)
    BY <1>5
  <2>2. BreakerTypes' /\ TimesAreOrdered' /\ OpenFollows'
    BY <1>2, <1>3, <1>5, <2>1 DEF BreakerTypes, TimesAreOrdered, OpenFollows
  <2>3. ClosedFollows'
    BY <1>2, <1>3, <1>4, <1>5, <2>1, BreakerAssumption DEF ClosedFollows
  <2>4. QED
    BY <2>2, <2>3 DEF BreakerInv
<1>6. CASE openedAt = 0
  <2>1. failures' = <<>> /\ openedAt' = openedAt /\ probeSuccesses' = probeSuccesses
    BY <1>6 DEF recordBreakerSuccess
  <2>2. QED
    BY <1>3, <1>5, <1>6, <2>1
<1>7. CASE openedAt # 0 /\ probeSuccesses + 1 >= RecoveryProbes
  <2>1. openedAt' = 0 /\ probeSuccesses' = 0 /\ failures' = <<>>
    BY <1>7 DEF recordBreakerSuccess
  <2>2. QED
    BY <1>5, <1>7, <2>1
<1>8. CASE openedAt # 0 /\ ~(probeSuccesses + 1 >= RecoveryProbes)
  <2>1. probeSuccesses' = probeSuccesses + 1 /\ failures' = prune(failures) /\ openedAt' = openedAt
    BY <1>8 DEF recordBreakerSuccess
  <2>2. /\ probeSuccesses < Len(history) /\ ~history[probeSuccesses + 1].ok
        /\ \A i \in 1 .. probeSuccesses : history[i].ok /\ history[i].at >= openedAt
        /\ openedAt <= now /\ openedAt \in Nat
    BY <1>8 DEF BreakerInv, OpenFollows, TimesAreOrdered, BreakerTypes
  <2>3. OpenFollows'
    <3>1. \A i \in 1 .. probeSuccesses + 1 : history'[i].ok /\ history'[i].at >= openedAt
      <4>1. SUFFICES ASSUME NEW i \in 1 .. probeSuccesses + 1
                     PROVE  history'[i].ok /\ history'[i].at >= openedAt
        OBVIOUS
      <4>2. CASE i = 1
        BY <1>4, <2>2, <4>2
      <4>3. CASE i # 1
        <5>1. i - 1 \in 1 .. probeSuccesses /\ i - 1 \in 1 .. Len(history) /\ (i - 1) + 1 = i
          BY <1>3, <2>2, <4>3
        <5>2. history'[i] = history[i - 1]
          BY <1>2, <5>1
        <5>3. QED
          BY <2>2, <5>1, <5>2
      <4>4. QED
        BY <4>2, <4>3
    <3>2. ~history'[probeSuccesses + 1 + 1].ok
      <4>1. probeSuccesses + 1 \in 1 .. Len(history)
        BY <1>3, <2>2
      <4>2. QED
        BY <1>2, <2>2, <4>1
    <3>3. QED
      BY <1>2, <1>3, <1>8, <2>1, <2>2, <3>1, <3>2, BreakerAssumption DEF OpenFollows
  <2>4. TimesAreOrdered' /\ failures' \in Seq(Nat)
    <3>1. /\ failures' \in Seq(Nat) /\ Len(failures') <= Len(failures)
          /\ \A i \in 1 .. Len(failures') : failures'[i] = failures[Len(failures) - Len(failures') + i]
      BY <2>1, PruneKeeps
    <3>2. Len(failures) \in Nat /\ Len(failures') \in Nat
      BY <3>1 DEF BreakerInv, BreakerTypes
    <3>3. \A i \in 1 .. Len(failures') : Len(failures) - Len(failures') + i \in 1 .. Len(failures)
      BY <3>1, <3>2
    <3>4. \A i \in 1 .. Len(failures') : failures'[i] <= now
      BY <3>1, <3>3 DEF BreakerInv, TimesAreOrdered
    <3>5. \A i, j \in 1 .. Len(failures') : i <= j => failures'[i] <= failures'[j]
      <4>1. SUFFICES ASSUME NEW i \in 1 .. Len(failures'), NEW j \in 1 .. Len(failures'), i <= j
                     PROVE  failures'[i] <= failures'[j]
        OBVIOUS
      <4>2. Len(failures) - Len(failures') + i <= Len(failures) - Len(failures') + j
        BY <3>1, <3>2, <4>1
      <4>3. QED
        BY <3>1, <3>3, <4>2 DEF BreakerInv, TimesAreOrdered
    <3>6. QED
      BY <1>2, <2>1, <2>2, <3>1, <3>4, <3>5 DEF TimesAreOrdered
  <2>5. QED
    BY <1>2, <1>3, <1>8, <2>1, <2>2, <2>3, <2>4 DEF BreakerInv, BreakerTypes, ClosedFollows
<1>9. QED
  BY <1>6, <1>7, <1>8

\* A failure is put after those of the window.
LEMMA FailureIsNoted ==
    ASSUME BreakerInv, recordBreakerFailure
    PROVE  /\ failures' \in Seq(Nat) /\ Len(failures') = Len(prune(failures)) + 1
           /\ failures'[Len(failures')] = now
           /\ \A i \in 1 .. Len(prune(failures)) : failures'[i] = prune(failures)[i]
           /\ TimesAreOrdered'
<1>1. failures' = Append(prune(failures), now) /\ now' = now
  BY DEF recordBreakerFailure, Report
<1>2. /\ prune(failures) \in Seq(Nat) /\ Len(prune(failures)) \in Nat /\ Len(failures) \in Nat /\ now \in Nat
      /\ Len(prune(failures)) <= Len(failures)
      /\ \A i \in 1 .. Len(prune(failures)) :
             prune(failures)[i] = failures[Len(failures) - Len(prune(failures)) + i]
  BY PruneKeeps DEF BreakerInv, BreakerTypes
<1>3. /\ failures' \in Seq(Nat) /\ Len(failures') = Len(prune(failures)) + 1
      /\ failures'[Len(failures')] = now
      /\ \A i \in 1 .. Len(prune(failures)) : failures'[i] = prune(failures)[i]
  BY <1>1, <1>2, AppendProperties
<1>4. \A i \in 1 .. Len(prune(failures)) : failures'[i] <= now
  <2>1. \A i \in 1 .. Len(prune(failures)) : Len(failures) - Len(prune(failures)) + i \in 1 .. Len(failures)
    BY <1>2
  <2>2. QED
    BY <1>2, <1>3, <2>1 DEF BreakerInv, TimesAreOrdered
<1>5. \A i, j \in 1 .. Len(prune(failures)) : i <= j => failures'[i] <= failures'[j]
  <2>1. SUFFICES ASSUME NEW i \in 1 .. Len(prune(failures)), NEW j \in 1 .. Len(prune(failures)), i <= j
                 PROVE  failures'[i] <= failures'[j]
    OBVIOUS
  <2>2. /\ Len(failures) - Len(prune(failures)) + i \in 1 .. Len(failures)
        /\ Len(failures) - Len(prune(failures)) + j \in 1 .. Len(failures)
        /\ Len(failures) - Len(prune(failures)) + i <= Len(failures) - Len(prune(failures)) + j
    BY <1>2, <2>1
  <2>3. QED
    BY <1>2, <1>3, <2>2 DEF BreakerInv, TimesAreOrdered
<1>6. \A i \in 1 .. Len(failures') : i \in 1 .. Len(prune(failures)) \/ i = Len(failures')
  BY <1>2, <1>3
<1>7. openedAt' <= now'
  BY <1>1, <1>2 DEF recordBreakerFailure, BreakerInv, TimesAreOrdered
<1>8. TimesAreOrdered'
  <2>1. \A i \in 1 .. Len(failures') : failures'[i] <= now'
    BY <1>1, <1>2, <1>3, <1>4, <1>6
  <2>2. \A i, j \in 1 .. Len(failures') : i <= j => failures'[i] <= failures'[j]
    <3>1. SUFFICES ASSUME NEW i \in 1 .. Len(failures'), NEW j \in 1 .. Len(failures'), i <= j
                   PROVE  failures'[i] <= failures'[j]
      OBVIOUS
    <3>2. CASE j = Len(failures')
      BY <1>1, <1>3, <2>1, <3>2
    <3>3. CASE j # Len(failures')
      <4>1. i \in 1 .. Len(prune(failures)) /\ j \in 1 .. Len(prune(failures))
        BY <1>2, <1>3, <3>1, <3>3
      <4>2. QED
        BY <1>5, <3>1, <4>1
    <3>4. QED
      BY <3>2, <3>3
  <2>3. QED
    BY <1>7, <2>1, <2>2 DEF TimesAreOrdered
<1>9. QED
  BY <1>3, <1>8

LEMMA FailureStep ==
    ASSUME BreakerInv, recordBreakerFailure
    PROVE  /\ BreakerInv'
           /\ openedAt # 0 => openedAt' # 0
           /\ openedAt = 0 => (openedAt' # 0 <=> Len(prune(failures)) + 1 >= FailureThreshold)
<1>1. Report(FALSE)
  BY DEF recordBreakerFailure
<1>2. /\ history' \in Seq(Reports) /\ Len(history') = Len(history) + 1 /\ now' = now
      /\ history'[1] = [ok |-> FALSE, at |-> now]
      /\ \A i \in 1 .. Len(history) : history'[i + 1] = history[i]
  BY <1>1, ReportIsNewest
<1>3. /\ history \in Seq(Reports) /\ Len(history) \in Nat /\ now \in Nat \ {0} /\ probeSuccesses \in Nat
      /\ openedAt \in Nat
  BY DEF BreakerInv, BreakerTypes
<1>4. ~history'[1].ok /\ history'[1].at = now
  BY <1>2
<1>5. /\ failures' \in Seq(Nat) /\ Len(failures') = Len(prune(failures)) + 1
      /\ failures'[Len(failures')] = now
      /\ \A i \in 1 .. Len(prune(failures)) : failures'[i] = prune(failures)[i]
      /\ TimesAreOrdered'
  BY FailureIsNoted
<1>6. Len(prune(failures)) \in Nat /\ Len(failures) \in Nat /\ Len(prune(failures)) <= Len(failures)
  BY PruneKeeps DEF BreakerInv, BreakerTypes
<1>7. \/ (openedAt # 0 \/ Len(failures') >= FailureThreshold) /\ openedAt' = now /\ probeSuccesses' = 0
      \/ openedAt = 0 /\ ~(Len(failures') >= FailureThreshold) /\ openedAt' = openedAt /\ probeSuccesses' = probeSuccesses
  BY DEF recordBreakerFailure
<1>8. BreakerTypes'
  BY <1>2, <1>3, <1>5, <1>7 DEF BreakerTypes
<1>9. OpenFollows'
  BY <1>2, <1>3, <1>4, <1>7, BreakerAssumption DEF OpenFollows
<1>10. ClosedFollows'
  <2>1. SUFFICES ASSUME openedAt' = 0
                 PROVE  /\ Len(failures') < FailureThreshold /\ Len(failures') <= Len(history')
                        /\ \A i \in 1 .. Len(failures') :
                               ~history'[i].ok /\ history'[i].at = failures'[Len(failures') + 1 - i]
                        /\ Len(failures') < Len(history') =>
                               history'[Len(failures') + 1].ok \/ ~InWindow(history'[Len(failures') + 1].at)
    BY <1>2 DEF ClosedFollows, InWindow
  <2>2. openedAt = 0 /\ Len(failures') < FailureThreshold
    BY <1>3, <1>5, <1>6, <1>7, <2>1, BreakerAssumption
  <2> DEFINE n == Len(failures)
             m == Len(prune(failures))
  <2>3. /\ n <= Len(history)
        /\ \A i \in 1 .. n : ~history[i].ok /\ history[i].at = failures[n + 1 - i]
        /\ n < Len(history) => history[n + 1].ok \/ ~InWindow(history[n + 1].at)
    BY <2>2 DEF BreakerInv, ClosedFollows
  <2>4. /\ \A i \in 1 .. m : prune(failures)[i] = failures[n - m + i]
        /\ \A i \in 1 .. n - m : ~InWindow(failures[i])
    BY PruneKeeps
  <2>5. m \in Nat /\ n \in Nat /\ m <= n /\ Len(failures') = m + 1
    BY <1>5, <1>6
  <2> HIDE DEF n, m
  <2>6. \A i \in 1 .. m + 1 : ~history'[i].ok /\ history'[i].at = failures'[m + 2 - i]
    <3>1. SUFFICES ASSUME NEW i \in 1 .. m + 1
                   PROVE  ~history'[i].ok /\ history'[i].at = failures'[m + 2 - i]
      OBVIOUS
    <3>2. CASE i = 1
      BY <1>4, <1>5, <2>5, <3>2
    <3>3. CASE i # 1
      <4>1. /\ i - 1 \in 1 .. n /\ i - 1 \in 1 .. Len(history) /\ (i - 1) + 1 = i
            /\ m + 2 - i \in 1 .. m /\ n - m + (m + 2 - i) = n + 1 - (i - 1)
        <5>1. i \in Nat /\ 2 <= i /\ i <= m + 1
          BY <2>5, <3>3
        <5>2. n <= Len(history) /\ Len(history) \in Nat
          BY <1>3, <2>3
        <5>3. QED
          BY <2>5, <5>1, <5>2
      <4>2. history'[i] = history[i - 1]
        BY <1>2, <4>1
      <4>3. failures'[m + 2 - i] = failures[n + 1 - (i - 1)]
        BY <1>5, <2>4, <4>1 DEF m
      <4>4. QED
        BY <2>3, <4>1, <4>2, <4>3
    <3>4. QED
      BY <3>2, <3>3
  <2>7. m + 1 < Len(history') => history'[m + 2].ok \/ ~InWindow(history'[m + 2].at)
    <3>1. SUFFICES ASSUME m + 1 < Len(history')
                   PROVE  history[m + 1].ok \/ ~InWindow(history[m + 1].at)
      <4>1. m + 1 < Len(history') => m + 1 \in 1 .. Len(history)
        BY <1>2, <1>3, <2>5
      <4>2. m + 1 < Len(history') => history'[m + 2] = history[m + 1]
        BY <1>2, <2>5, <4>1
      <4>3. QED
        BY <4>2
    <3>2. CASE m = n
      BY <1>2, <1>3, <2>3, <2>5, <3>1, <3>2
    <3>3. CASE m # n
      <4>1. m + 1 \in 1 .. n /\ n - m \in 1 .. n - m /\ n + 1 - (m + 1) = n - m
        BY <2>5, <3>3
      <4>2. history[m + 1].at = failures[n - m]
        BY <2>3, <4>1
      <4>3. QED
        BY <2>4, <4>1, <4>2
    <3>4. QED
      BY <3>2, <3>3
  <2>8. QED
    BY <1>2, <1>3, <2>2, <2>3, <2>5, <2>6, <2>7
<1>11. QED
  BY <1>3, <1>5, <1>6, <1>7, <1>8, <1>9, <1>10, BreakerAssumption DEF BreakerInv

LEMMA BreakerStep == BreakerInv /\ [BreakerNext]_brVars => BreakerInv'
<1>1. SUFFICES ASSUME BreakerInv, [BreakerNext]_brVars
               PROVE  BreakerInv'
  OBVIOUS
<1>2. CASE UNCHANGED brVars
  BY <1>1, <1>2
     DEF brVars, BreakerInv, BreakerTypes, TimesAreOrdered, ClosedFollows, OpenFollows, InWindow
<1>3. QED
  BY <1>1, <1>2, AllowsStep, TimeStep, SuccessStep, FailureStep DEF BreakerNext

\* The newest reports, one by one.
LEMMA NewestReports ==
    ASSUME NEW n \in Nat \ {0}, Len(history') \in Nat
    PROVE  /\ Failing(n) <=> /\ Len(history') >= n
                             /\ \A i \in 1 .. n : ~history'[i].ok /\ now' - history'[i].at < Window
           /\ Starting(n) <=> /\ Len(history') >= n
                              /\ \A i \in 1 .. n : history'[i].ok /\ history'[i].at >= openedAt
<1>1. Len(history') < n <=> ~(Len(history') >= n)
  OBVIOUS
<1>2. CASE Len(history') < n
  BY <1>1, <1>2 DEF Failing, Starting, Newest
<1>3. CASE ~(Len(history') < n)
  <2>1. Newest(n) = {history'[i] : i \in 1 .. n}
    BY <1>3 DEF Newest
  <2>2. 1 \in 1 .. n
    OBVIOUS
  <2>3. Newest(n) # {}
    BY <2>1, <2>2
  <2>4. QED
    BY <1>1, <1>3, <2>1, <2>3 DEF Failing, Starting
<1>4. QED
  BY <1>2, <1>3

\* A closed breaker opens at the last of so many failures in a window.
LEMMA ClosedOpens ==
    ASSUME BreakerInv, recordBreakerFailure, openedAt = 0
    PROVE  Len(prune(failures)) + 1 >= FailureThreshold <=> Failing(FailureThreshold)
<1> DEFINE n == Len(failures)
           m == Len(prune(failures))
<1>1. Report(FALSE)
  BY DEF recordBreakerFailure
<1>2. /\ Len(history') = Len(history) + 1 /\ now' = now
      /\ history'[1] = [ok |-> FALSE, at |-> now]
      /\ \A i \in 1 .. Len(history) : history'[i + 1] = history[i]
  BY <1>1, ReportIsNewest
<1>3. Len(history) \in Nat /\ now \in Nat /\ n \in Nat /\ FailureThreshold \in Nat \ {0} /\ Window \in Nat \ {0}
  BY BreakerAssumption DEF BreakerInv, BreakerTypes
<1>4. /\ n < FailureThreshold /\ n <= Len(history)
      /\ \A i \in 1 .. n : ~history[i].ok /\ history[i].at = failures[n + 1 - i]
      /\ n < Len(history) => history[n + 1].ok \/ ~InWindow(history[n + 1].at)
  BY DEF BreakerInv, ClosedFollows
<1>5. /\ m \in Nat /\ m <= n
      /\ \A i \in 1 .. m : prune(failures)[i] = failures[n - m + i] /\ InWindow(prune(failures)[i])
      /\ \A i \in 1 .. n - m : ~InWindow(failures[i])
  BY PruneKeeps
<1>6. Failing(FailureThreshold) <=>
        /\ Len(history) + 1 >= FailureThreshold
        /\ \A i \in 1 .. FailureThreshold : ~history'[i].ok /\ InWindow(history'[i].at)
  BY <1>2, <1>3, NewestReports DEF InWindow
<1>7. ~history'[1].ok /\ InWindow(history'[1].at)
  BY <1>2, <1>3 DEF InWindow
<1> HIDE DEF n, m
<1>8. ASSUME m + 1 >= FailureThreshold
      PROVE  Failing(FailureThreshold)
  <2>1. m = n /\ n + 1 = FailureThreshold
    BY <1>3, <1>4, <1>5, <1>8
  <2>2. \A i \in 1 .. FailureThreshold : ~history'[i].ok /\ InWindow(history'[i].at)
    <3>1. SUFFICES ASSUME NEW i \in 1 .. FailureThreshold, i # 1
                   PROVE  ~history'[i].ok /\ InWindow(history'[i].at)
      BY <1>7
    <3>2. /\ i - 1 \in 1 .. n /\ i - 1 \in 1 .. Len(history) /\ (i - 1) + 1 = i
          /\ n + 1 - (i - 1) \in 1 .. m /\ n - m + (n + 1 - (i - 1)) = n + 1 - (i - 1)
      BY <1>3, <1>4, <2>1, <3>1
    <3>3. history'[i] = history[i - 1]
      BY <1>2, <3>2
    <3>4. InWindow(failures[n + 1 - (i - 1)])
      BY <1>5, <3>2
    <3>5. QED
      BY <1>4, <3>2, <3>3, <3>4
  <2>3. QED
    BY <1>3, <1>4, <1>6, <2>1, <2>2
<1>9. ASSUME Failing(FailureThreshold)
      PROVE  m + 1 >= FailureThreshold
  <2>1. n + 1 = FailureThreshold
    <3>1. SUFFICES ASSUME n + 2 <= FailureThreshold
                   PROVE  FALSE
      BY <1>3, <1>4
    <3>2. n < Len(history) /\ n + 1 \in 1 .. Len(history) /\ n + 2 \in 1 .. FailureThreshold /\ (n + 1) + 1 = n + 2
      BY <1>3, <1>6, <1>9, <3>1
    <3>3. history'[n + 2] = history[n + 1]
      BY <1>2, <3>2
    <3>4. QED
      BY <1>4, <1>6, <1>9, <3>2, <3>3
  <2>2. m = n
    <3>1. SUFFICES ASSUME m < n
                   PROVE  FALSE
      BY <1>3, <1>5
    <3>2. /\ n \in 1 .. n /\ n \in 1 .. Len(history) /\ n + 1 \in 1 .. FailureThreshold
          /\ 1 \in 1 .. n - m /\ n + 1 - n = 1
      BY <1>3, <1>4, <1>5, <2>1, <3>1
    <3>3. history'[n + 1] = history[n] /\ history[n].at = failures[1]
      BY <1>2, <1>4, <3>2
    <3>4. QED
      BY <1>5, <1>6, <1>9, <3>2, <3>3
  <2>3. QED
    BY <1>3, <2>1, <2>2
<1>10. QED
  BY <1>8, <1>9 DEF m

\* An open breaker closes at the last of so many successes.
LEMMA OpenCloses ==
    ASSUME BreakerInv, recordBreakerSuccess, openedAt # 0
    PROVE  probeSuccesses + 1 >= RecoveryProbes <=> Starting(RecoveryProbes)
<1>1. Report(TRUE)
  BY DEF recordBreakerSuccess
<1>2. /\ Len(history') = Len(history) + 1
      /\ history'[1] = [ok |-> TRUE, at |-> now]
      /\ \A i \in 1 .. Len(history) : history'[i + 1] = history[i]
  BY <1>1, ReportIsNewest
<1>3. /\ Len(history) \in Nat /\ now \in Nat /\ RecoveryProbes \in Nat \ {0} /\ probeSuccesses \in Nat
      /\ openedAt \in Nat /\ openedAt <= now
  BY BreakerAssumption DEF BreakerInv, BreakerTypes, TimesAreOrdered
<1>4. /\ probeSuccesses < RecoveryProbes /\ probeSuccesses < Len(history)
      /\ \A i \in 1 .. probeSuccesses : history[i].ok /\ history[i].at >= openedAt
      /\ ~history[probeSuccesses + 1].ok
  BY DEF BreakerInv, OpenFollows
<1>5. Starting(RecoveryProbes) <=>
        /\ Len(history) + 1 >= RecoveryProbes
        /\ \A i \in 1 .. RecoveryProbes : history'[i].ok /\ history'[i].at >= openedAt
  <2>1. Len(history') \in Nat
    BY <1>2, <1>3
  <2>2. Starting(RecoveryProbes) <=>
          /\ Len(history') >= RecoveryProbes
          /\ \A i \in 1 .. RecoveryProbes : history'[i].ok /\ history'[i].at >= openedAt
    BY <1>3, <2>1, NewestReports
  <2>3. QED
    BY <1>2, <2>2
<1>6. ASSUME probeSuccesses + 1 >= RecoveryProbes
      PROVE  Starting(RecoveryProbes)
  <2>1. probeSuccesses + 1 = RecoveryProbes
    BY <1>3, <1>4, <1>6
  <2>2. \A i \in 1 .. RecoveryProbes : history'[i].ok /\ history'[i].at >= openedAt
    <3>1. SUFFICES ASSUME NEW i \in 1 .. RecoveryProbes, i # 1
                   PROVE  history'[i].ok /\ history'[i].at >= openedAt
      BY <1>2, <1>3
    <3>2. i - 1 \in 1 .. probeSuccesses /\ i - 1 \in 1 .. Len(history) /\ (i - 1) + 1 = i
      BY <1>3, <1>4, <2>1, <3>1
    <3>3. history'[i] = history[i - 1]
      BY <1>2, <3>2
    <3>4. QED
      BY <1>4, <3>2, <3>3
  <2>3. QED
    BY <1>3, <1>4, <1>5, <2>1, <2>2
<1>7. ASSUME Starting(RecoveryProbes)
      PROVE  probeSuccesses + 1 >= RecoveryProbes
  <2>1. SUFFICES ASSUME probeSuccesses + 2 <= RecoveryProbes
                 PROVE  FALSE
    BY <1>3
  <2>2. /\ probeSuccesses + 1 \in 1 .. Len(history) /\ probeSuccesses + 2 \in 1 .. RecoveryProbes
        /\ (probeSuccesses + 1) + 1 = probeSuccesses + 2
    BY <1>3, <1>4, <2>1
  <2>3. history'[probeSuccesses + 2] = history[probeSuccesses + 1]
    BY <1>2, <2>2
  <2>4. QED
    BY <1>4, <1>5, <1>7, <2>2, <2>3
<1>8. QED
  BY <1>6, <1>7

LEMMA BreakerMoves ==
    ASSUME BreakerInv, BreakerNext
    PROVE  /\ openedAt = 0 => (openedAt' # 0 <=> Failing(FailureThreshold) /\ history' # history)
           /\ openedAt # 0 => (openedAt' = 0 <=> Starting(RecoveryProbes) /\ history' # history)
<1>1. CASE breakerAllows \/ timeGoesOn
  BY <1>1 DEF breakerAllows, timeGoesOn
<1>2. CASE recordBreakerSuccess
  <2>1. history' # history /\ history'[1].ok /\ Len(history') \in Nat
    <3>1. Report(TRUE)
      BY <1>2 DEF recordBreakerSuccess
    <3>2. history' \in Seq(Reports) /\ history' # history /\ history'[1] = [ok |-> TRUE, at |-> now]
      BY <3>1, ReportIsNewest
    <3>3. QED
      BY <3>2
  <2>2. ~Failing(FailureThreshold)
    <3>1. 1 \in 1 .. FailureThreshold
      BY BreakerAssumption
    <3>2. QED
      BY <2>1, <3>1, BreakerAssumption, NewestReports
  <2>3. QED
    BY <1>2, <2>1, <2>2, SuccessStep, OpenCloses
<1>3. CASE recordBreakerFailure
  <2>1. history' # history /\ ~history'[1].ok /\ Len(history') \in Nat
    <3>1. Report(FALSE)
      BY <1>3 DEF recordBreakerFailure
    <3>2. history' \in Seq(Reports) /\ history' # history /\ history'[1] = [ok |-> FALSE, at |-> now]
      BY <3>1, ReportIsNewest
    <3>3. QED
      BY <3>2
  <2>2. ~Starting(RecoveryProbes)
    <3>1. 1 \in 1 .. RecoveryProbes
      BY BreakerAssumption
    <3>2. QED
      BY <2>1, <3>1, BreakerAssumption, NewestReports
  <2>3. QED
    BY <1>3, <2>1, <2>2, FailureStep, ClosedOpens
<1>4. QED
  BY <1>1, <1>2, <1>3 DEF BreakerNext

\* The breaker opens and closes exactly by the newest reports, for any thresholds, any
\* number of starts at once and however late they report: what it holds while it is closed
\* are the failures since the last success, and what it counts while it is open are the
\* successes since the last failure (recordBreakerFailure, recordBreakerSuccess).
THEOREM BreakerGoesByReports == BreakerSpec => BreakerFollowsReports
<1>1. BreakerInit => BreakerInv
  BY BreakerStart
<1>2. BreakerInv /\ [BreakerNext]_brVars => BreakerInv'
  BY BreakerStep
<1>3. BreakerInv /\ [BreakerNext]_brVars =>
        [/\ openedAt = 0 => (openedAt' # 0 <=> Failing(FailureThreshold) /\ history' # history)
         /\ openedAt # 0 => (openedAt' = 0 <=> Starting(RecoveryProbes) /\ history' # history)]_brVars
  BY BreakerMoves
<1>4. QED
  BY <1>1, <1>2, <1>3, PTL DEF BreakerSpec, BreakerFollowsReports

-----------------------------------------------------------------------------
(***************************************************************************)
(* Side by side: a component that does not run keeps what it has.          *)
(***************************************************************************)
\* In the composition, too, a delivery is given up only after its retries and a matrix is
\* completed only when every browser passed.
THEOREM ServicesEndsAreEarned == ServicesSpec => []EndsAreEarned
<1>1. ServicesInit => DeliveryInv /\ MatrixInv
  BY DeliveryStart, MatrixStart DEF ServicesInit
<1>2. [ServicesNext]_allVars => [DeliveryNext]_dVars /\ [MatrixNext]_mVars
  BY DEF ServicesNext, allVars
<1>3. DeliveryInv /\ MatrixInv => EndsAreEarned
  BY DEF EndsAreEarned, DeliveryInv, MatrixInv, RowHolds, CompletedIsEarned
<1>4. QED
  BY <1>1, <1>2, <1>3, DeliveryStep, MatrixStep, PTL DEF ServicesSpec

\* In the composition, too, an operation has its effect once and no period
\* admits more than its plan allows.
THEOREM ServicesChargesHold == ServicesSpec => []ChargesHold
<1>1. ServicesInit => IdempotencyInv /\ UsageInv
  BY IdempotencyStart, UsageStart DEF ServicesInit
<1>2. [ServicesNext]_allVars => [IdempotencyNext]_iVars /\ [UsageNext]_uVars
  BY DEF ServicesNext, allVars
<1>3. IdempotencyInv /\ UsageInv => ChargesHold
  BY DEF ChargesHold, IdempotencyInv, RecordIsOwn, ExecutesOnce, UsageInv
<1>4. QED
  BY <1>1, <1>2, <1>3, IdempotencyStep, UsageStep, PTL DEF ServicesSpec
=============================================================================
