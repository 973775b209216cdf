-------------------------- MODULE WebhookDelivery --------------------------
(***************************************************************************)
(* The deliveries of an organisation's webhooks: rows that are written     *)
(* before the job that sends them, retries that the rows schedule          *)
(* themselves, and the sweep that sends what is due, whatever became of    *)
(* the job.  A delivery is an event for a webhook.                         *)
(*                                                                         *)
(* An attempt reads the row, resolves the destination, posts, and writes   *)
(* the row: nothing keeps two of them from working on one delivery, and    *)
(* each writes the number of attempts it has read, plus one.  next_attempt *)
(* of the row is TRUE once the time it names has come; that of a job only  *)
(* delays it.                                                              *)
(***************************************************************************)
EXTENDS Naturals, FiniteSets

CONSTANTS
    Events, Hooks,
    MaxRetries,     \* webhooks.maxRetries
    MaxCrashes,     \* processes that die, a bound
    MaxEdits        \* changes of webhooks, a bound

ASSUME RetriesAssumption == MaxRetries \in Nat

VARIABLES
    hook,           \* organization_webhooks: active, inactive or deleted
    edit,           \* changes of a URL being validated, and the active they read
    delivery,       \* organization_webhook_deliveries.status
    attempts, due,  \* its attempts; next_attempt_at is past
    removed,        \* last_error is "Webhook removed or disabled."
    keys, queued,   \* WEBHOOK_DELIVERY jobs ever enqueued, those not yet claimed
    running,        \* attempts under way
    sweeping,       \* deliveries the running sweep has listed and not done
    tries,          \* attempts that have ended, whoever made them
    crashes, edits

dRow  == <<delivery, attempts, due, removed>>
dJobs == <<keys, queued>>
dHook == <<hook, edit, edits>>
dVars == <<dHook, dRow, dJobs, running, sweeping, tries, crashes>>

Deliveries == Events \X Hooks
HookOf(d)  == d[2]
Settled    == {"succeeded", "dead_letter"}
Skipped    == Settled \cup {"gone"}
Sweep      == MaxRetries + 2    \* the `by` of an attempt the sweep makes

Attempt == [d : Deliveries, by : 0 .. Sweep, read : Nat, got : {"nothing", "2xx", "failure"}]

DeliveryTypeOK ==
    /\ hook \in [Hooks -> {"active", "inactive", "deleted"}]
    /\ edit \in [Hooks -> {"none", "active", "inactive"}]
    /\ delivery \in [Deliveries -> {"absent", "pending", "failed", "gone"} \cup Settled]
    /\ attempts \in [Deliveries -> 0 .. MaxRetries + 2]
    /\ due \in [Deliveries -> BOOLEAN] /\ removed \in [Deliveries -> BOOLEAN]
    /\ keys \subseteq Deliveries \X (0 .. MaxRetries + 1) /\ queued \subseteq keys
    /\ running \subseteq Attempt /\ sweeping \subseteq Deliveries
    /\ tries \in [Deliveries -> Nat] /\ crashes \in Nat /\ edits \in Nat

DeliveryInit ==
    /\ hook = [h \in Hooks |-> "active"] /\ edit = [h \in Hooks |-> "none"]
    /\ delivery = [d \in Deliveries |-> "absent"]
    /\ attempts = [d \in Deliveries |-> 0]
    /\ due = [d \in Deliveries |-> FALSE] /\ removed = [d \in Deliveries |-> FALSE]
    /\ keys = {} /\ queued = {} /\ running = {} /\ sweeping = {}
    /\ tries = [d \in Deliveries |-> 0] /\ crashes = 0 /\ edits = 0

Dies == crashes < MaxCrashes /\ crashes' = crashes + 1

-----------------------------------------------------------------------------
(***************************************************************************)
(* Webhooks.  A new URL is resolved between the read of the row and the    *)
(* write, which puts back the `active` that was read.                      *)
(***************************************************************************)
updateWebhook(h) ==
    /\ hook[h] # "deleted" /\ edits < MaxEdits /\ edits' = edits + 1
    /\ \/ \E a \in {"active", "inactive"} : hook' = [hook EXCEPT ![h] = a] /\ UNCHANGED edit
       \/ edit[h] = "none" /\ edit' = [edit EXCEPT ![h] = hook[h]] /\ UNCHANGED hook
    /\ UNCHANGED <<dRow, dJobs, running, sweeping, tries, crashes>>

updateWebhookRow(h) ==
    /\ edit[h] # "none"
    /\ edit' = [edit EXCEPT ![h] = "none"]
    /\ hook' = [hook EXCEPT ![h] = IF @ = "deleted" THEN @ ELSE edit[h]]
    /\ UNCHANGED <<edits, dRow, dJobs, running, sweeping, tries, crashes>>

\* Its deliveries go with it (ON DELETE CASCADE).
deleteWebhook(h) ==
    /\ hook[h] # "deleted" /\ edits < MaxEdits /\ edits' = edits + 1
    /\ hook' = [hook EXCEPT ![h] = "deleted"]
    /\ delivery' = [d \in Deliveries |->
                        IF HookOf(d) = h /\ delivery[d] # "absent" THEN "gone" ELSE delivery[d]]
    /\ UNCHANGED <<edit, attempts, due, removed, dJobs, running, sweeping, tries, crashes>>

(***************************************************************************)
(* Dispatch: a row and a job for every active webhook.  A process that     *)
(* dies leaves the first of the rows, the last of them without its job.    *)
(***************************************************************************)
dispatchOrganizationEvent(e) ==
    LET Active == {h \in Hooks : hook[h] = "active"} IN
    /\ \A h \in Hooks : delivery[<<e, h>>] = "absent"
    /\ \E H \in SUBSET Active, J \in SUBSET Active :
        /\ H # {} /\ J \subseteq H /\ Cardinality(H \ J) <= 1
        /\ IF J = Active THEN UNCHANGED crashes ELSE Dies
        /\ delivery' = [d \in Deliveries |->
                            IF d[1] = e /\ HookOf(d) \in H THEN "pending" ELSE delivery[d]]
        /\ due' = [d \in Deliveries |-> due[d] \/ (d[1] = e /\ HookOf(d) \in H)]
        /\ keys'   = keys \cup {<<<<e, h>>, 0>> : h \in J}
        /\ queued' = queued \cup {<<<<e, h>>, 0>> : h \in J}
    /\ UNCHANGED <<dHook, attempts, removed, running, sweeping, tries>>

-----------------------------------------------------------------------------
(***************************************************************************)
(* processWebhookDelivery, to its first await.                             *)
(***************************************************************************)
readDelivery(d, by) ==
    \/ /\ delivery[d] \in Skipped
       /\ UNCHANGED <<dRow, running>>
    \/ /\ delivery[d] \notin Skipped /\ hook[HookOf(d)] # "active"
       /\ delivery' = [delivery EXCEPT ![d] = "dead_letter"]
       /\ due' = [due EXCEPT ![d] = FALSE] /\ removed' = [removed EXCEPT ![d] = TRUE]
       /\ UNCHANGED <<attempts, running>>
    \/ /\ delivery[d] \notin Skipped /\ hook[HookOf(d)] = "active"
       /\ running' = running \cup {[d |-> d, by |-> by, read |-> attempts[d], got |-> "nothing"]}
       /\ UNCHANGED dRow

\* The job, which is executed once: max_attempts is 1.
handleDeliveryJob(k) ==
    /\ k \in queued /\ queued' = queued \ {k}
    /\ readDelivery(k[1], k[2])
    /\ UNCHANGED <<dHook, keys, sweeping, tries, crashes>>

\* Mutated listPendingWebhookDeliveries: only what has failed is due.
listFailedWebhookDeliveries ==
    {d \in Deliveries : delivery[d] = "failed" /\ due[d]}

listPendingWebhookDeliveries ==
    {d \in Deliveries : delivery[d] \in {"pending", "failed"} /\ due[d]}

NoSweep == sweeping = {} /\ \A r \in running : r.by # Sweep

startSweep ==
    /\ NoSweep /\ listPendingWebhookDeliveries # {}
    /\ sweeping' = listPendingWebhookDeliveries
    /\ UNCHANGED <<dHook, dRow, dJobs, running, tries, crashes>>

\* One after the other.
sweepDueWebhookDeliveries(d) ==
    /\ d \in sweeping /\ \A r \in running : r.by # Sweep
    /\ sweeping' = sweeping \ {d}
    /\ readDelivery(d, Sweep)
    /\ UNCHANGED <<dHook, dJobs, tries, crashes>>

\* The destination is resolved and the event posted: an answer, an answer
\* that is lost, a refusal, or a destination that is no longer allowed.
post(r) ==
    /\ r \in running /\ r.got = "nothing"
    /\ \E got \in {"2xx", "failure"} : running' = (running \ {r}) \cup {[r EXCEPT !.got = got]}
    /\ UNCHANGED <<dHook, dRow, dJobs, sweeping, tries, crashes>>

updateWebhookDelivery(d, status, n, next) ==
    IF delivery[d] = "gone" THEN UNCHANGED dRow ELSE
    /\ delivery' = [delivery EXCEPT ![d] = status]
    /\ attempts' = [attempts EXCEPT ![d] = n]
    /\ due' = [due EXCEPT ![d] = next] /\ removed' = [removed EXCEPT ![d] = FALSE]

\* Mutated recordFailure: the last retry is not made.
recordFailureEarly(d, n) ==
    IF n > MaxRetries
    THEN updateWebhookDelivery(d, "dead_letter", n, FALSE) /\ UNCHANGED <<dJobs, crashes>>
    ELSE /\ updateWebhookDelivery(d, "failed", n, FALSE)
         /\ keys' = keys \cup {<<d, n>>}
         /\ queued' = queued \cup ({<<d, n>>} \ keys)
         /\ UNCHANGED crashes

\* The row, and then the job of the retry; the process may die in between.
\* A job whose key was used is not enqueued again.
recordFailure(d, n) ==
    IF n > MaxRetries + 1
    THEN updateWebhookDelivery(d, "dead_letter", n, FALSE) /\ UNCHANGED <<dJobs, crashes>>
    ELSE /\ updateWebhookDelivery(d, "failed", n, FALSE)
         /\ \/ /\ keys' = keys \cup {<<d, n>>}
               /\ queued' = queued \cup ({<<d, n>>} \ keys)
               /\ UNCHANGED crashes
            \/ Dies /\ UNCHANGED dJobs

finishAttempt(r) ==
    /\ r \in running /\ r.got # "nothing"
    /\ running' = running \ {r}
    /\ tries' = [tries EXCEPT ![r.d] = @ + 1]
    /\ \/ /\ r.got = "2xx"
          /\ updateWebhookDelivery(r.d, "succeeded", r.read + 1, FALSE)
          /\ UNCHANGED <<dJobs, crashes>>
       \/ r.got = "failure" /\ recordFailure(r.d, r.read + 1)
    /\ UNCHANGED <<dHook, sweeping>>

\* The process that makes the attempt dies; if that was the sweep, with it.
crashAttempt(r) ==
    /\ r \in running /\ Dies
    /\ running' = running \ {r}
    /\ sweeping' = IF r.by = Sweep THEN {} ELSE sweeping
    /\ UNCHANGED <<dHook, dRow, dJobs, tries>>

\* next_attempt_at comes.
becomeDue(d) ==
    /\ delivery[d] = "failed" /\ ~due[d]
    /\ due' = [due EXCEPT ![d] = TRUE]
    /\ UNCHANGED <<dHook, delivery, attempts, removed, dJobs, running, sweeping, tries, crashes>>

Deliver ==
    \/ \E k \in queued : handleDeliveryJob(k)
    \/ startSweep
    \/ \E d \in Deliveries : sweepDueWebhookDeliveries(d) \/ becomeDue(d)
    \/ \E r \in running : post(r) \/ finishAttempt(r)

DeliveryNext ==
    \/ \E h \in Hooks : updateWebhook(h) \/ updateWebhookRow(h) \/ deleteWebhook(h)
    \/ \E e \in Events : dispatchOrganizationEvent(e)
    \/ \E r \in running : crashAttempt(r)
    \/ Deliver

DeliverySpec == DeliveryInit /\ [][DeliveryNext]_dVars

\* Workers execute what is queued, requests end at their timeout, and the
\* cleanup job that sweeps is enqueued again and again.
DeliveryFairness ==
    /\ WF_dVars(\E k \in queued : handleDeliveryJob(k))
    /\ WF_dVars(startSweep)
    /\ WF_dVars(\E d \in Deliveries : sweepDueWebhookDeliveries(d))
    /\ WF_dVars(\E r \in running : post(r))
    /\ WF_dVars(\E r \in running : finishAttempt(r))
    /\ \A d \in Deliveries : WF_dVars(becomeDue(d))

-----------------------------------------------------------------------------
(***************************************************************************)
(* Properties.                                                             *)
(***************************************************************************)
\* A delivery is given up after MaxRetries + 2 attempts, or because its
\* webhook was removed, and never on a count that is ahead of the attempts
\* that were made: attempts of the job and of the sweep that run at once may
\* make recordFailure count too few, never too many.
DeadLetterIsEarned ==
    \A d \in Deliveries :
        /\ attempts[d] <= tries[d]
        /\ delivery[d] = "dead_letter" => removed[d] \/ tries[d] >= MaxRetries + 2

\* A worker that dies at any point, between the row and its job included,
\* drops no delivery: every one of them ends succeeded or in dead_letter and
\* stays there, though an attempt that is late may reopen it in the meantime.
EveryDeliverySettles ==
    <>[](\A d \in Deliveries : delivery[d] \in Skipped \cup {"absent"})
=============================================================================
