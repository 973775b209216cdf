--------------------------- MODULE BillingEvents ---------------------------
(***************************************************************************)
(* What the payment provider knows of a user's subscriptions and what the  *)
(* local rows say of them.  The provider's events come at least once and   *)
(* in any order; checkout's confirmation, the user's cancel and            *)
(* reactivate and the operator's reconcile write the provider's answer to  *)
(* a call of their own.  All of them write through upsertSubscription,     *)
(* which ignores what is older than the row: an event is as old as its     *)
(* creation, an answer as new as the moment it is written.                 *)
(*                                                                         *)
(* Time is counted in seconds, the granularity of the comparison.  A       *)
(* version numbers the states of a subscription at the provider.           *)
(***************************************************************************)
EXTENDS Naturals, FiniteSets

CONSTANTS
    Subs,           \* subscriptions, each with its checkout session and invoice
    MaxVersion,     \* changes of a subscription at the provider, a bound
    MaxClock,       \* seconds, a bound
    MaxFaults,      \* crashes and errors, a bound
    MaxCalls,       \* calls of the user and the operator, a bound
    MaxHandlers,    \* webhook requests under way at once, a bound
    MaxOthers       \* events that bring no state, a bound

VARIABLES
    prov,           \* the provider's subscriptions
    clock,
    ledger,         \* billing_events.result of every event there is
    handling,       \* webhook requests under way
    row,            \* subscriptions, and the source of its last write
    checkout,       \* checkout_sessions.status
    payment,        \* billing_payments.status
    calls,          \* answers of the provider that are not yet written
    bFaults, called

bDb    == <<ledger, row, checkout, payment>>
bProv  == <<prov, clock>>
bCount == <<bFaults, called>>
bVars  == <<bProv, bDb, handling, calls, bCount>>

Open     == {"active", "scheduled"}     \* scheduled: cancel_at_period_end
Snapshot == [st : {"none", "canceled"} \cup Open, ver : 0 .. MaxVersion]
Nothing  == [st |-> "none", ver |-> 0]
Event    == [kind : {"subscription", "checkout", "paid", "payment_failed", "other"},
             sub : Subs, snap : Snapshot, at : 0 .. MaxClock]
Invoices == {"paid", "payment_failed"}
Finished == {"processed", "ignored"}
Sources  == {"webhook", "call"}

BillingTypeOK ==
    /\ prov \in [Subs -> Snapshot] /\ clock \in 0 .. MaxClock
    /\ DOMAIN ledger \subseteq Event
    /\ \A e \in DOMAIN ledger : ledger[e] \in {"sent", "processing", "failed"} \cup Finished
    /\ handling \subseteq [e : Event, snap : Snapshot, hydrated : BOOLEAN]
    /\ row \in [Subs -> [snap : Snapshot, at : 0 .. MaxClock, by : {"none"} \cup Sources]]
    /\ checkout \in [Subs -> {"none", "starting", "open", "complete", "expired"}]
    /\ payment \in [Subs -> {"none", "paid", "failed"}]
    /\ calls \subseteq [sub : Subs, snap : Snapshot]
    /\ bFaults \in Nat /\ called \in Nat

BillingInit ==
    /\ prov = [b \in Subs |-> Nothing] /\ clock = 1
    /\ ledger = <<>> /\ handling = {}
    /\ row = [b \in Subs |-> [snap |-> Nothing, at |-> 0, by |-> "none"]]
    /\ checkout = [b \in Subs |-> "none"] /\ payment = [b \in Subs |-> "none"]
    /\ calls = {} /\ bFaults = 0 /\ called = 0

BFault == bFaults < MaxFaults /\ bFaults' = bFaults + 1
Call   == called < MaxCalls /\ called' = called + 1

-----------------------------------------------------------------------------
(***************************************************************************)
(* The provider.  Changes of one subscription are seconds apart.           *)
(***************************************************************************)
Tick == clock < MaxClock /\ clock' = clock + 1

Emit(E) ==
    /\ Cardinality({e \in E \cup DOMAIN ledger : e.kind # "subscription"}) <= MaxOthers
    /\ ledger' = [e \in E \cup DOMAIN ledger |-> IF e \in E THEN "sent" ELSE ledger[e]]

\* An event brings the new state; others may go with it.
ProviderChange(b, st, others) ==
    LET now == [st |-> st, ver |-> prov[b].ver + 1] IN
    /\ Tick /\ prov[b].ver < MaxVersion
    /\ prov' = [prov EXCEPT ![b] = now]
    /\ \E K \in SUBSET others :
        Emit({[kind |-> k, sub |-> b, at |-> clock',
               snap |-> IF k = "subscription" THEN now ELSE Nothing] : k \in K \cup {"subscription"}})

\* The user pays; the portal and the end of a period change what was paid for.
providerSubscribes(b) ==
    /\ checkout[b] \in {"open", "expired"} /\ prov[b].st = "none"
    /\ ProviderChange(b, "active", {"checkout", "paid"})
    /\ UNCHANGED <<row, checkout, payment, handling, calls, bCount>>

providerChanges(b) ==
    /\ prov[b].st \in Open
    /\ \/ \E st \in (Open \cup {"canceled"}) \ {prov[b].st} : ProviderChange(b, st, {})
       \/ ProviderChange(b, prov[b].st, {"payment_failed", "paid", "other"})
    /\ UNCHANGED <<row, checkout, payment, handling, calls, bCount>>

timePasses ==
    /\ Tick
    /\ UNCHANGED <<prov, bDb, handling, calls, bCount>>

-----------------------------------------------------------------------------
(***************************************************************************)
(* processProviderEvent.                                                   *)
(***************************************************************************)
\* Mutated claimBillingEvent: an event that was claimed is not claimed again.
claimBillingEventOnce(e) ==
    /\ ledger[e] \in {"sent", "failed"}
    /\ ledger' = [ledger EXCEPT ![e] = "processing"]

claimBillingEvent(e) ==
    /\ ledger[e] \notin Finished
    /\ ledger' = [ledger EXCEPT ![e] = "processing"]

claimEvent(e) ==
    /\ Cardinality(handling) < MaxHandlers
    /\ claimBillingEvent(e)
    /\ handling' = handling \cup {[e |-> e, snap |-> e.snap, hydrated |-> e.kind \notin Invoices]}
    /\ UNCHANGED <<bProv, row, checkout, payment, calls, bCount>>

\* An invoice names its subscription only: the provider is asked for it.
hydrate(h) ==
    /\ h \in handling /\ ~h.hydrated
    /\ handling' = (handling \ {h}) \cup {[h EXCEPT !.snap = prov[h.e.sub], !.hydrated = TRUE]}
    /\ UNCHANGED <<bProv, bDb, calls, bCount>>

finishBillingEvent(e, result) == ledger' = [ledger EXCEPT ![e] = result]

\* Mutated upsertSubscription: what is older than the row is written.
upsertAnything(b, snap, at, by) ==
    row' = [row EXCEPT ![b] = [snap |-> snap, at |-> at, by |-> by]]

upsertSubscription(b, snap, at, by) ==
    row' = [row EXCEPT ![b] = IF at < @.at THEN @ ELSE [snap |-> snap, at |-> at, by |-> by]]

recordPaymentIfNew(b, status) ==
    payment' = [payment EXCEPT ![b] = IF @ = "none" THEN status ELSE @]

\* Mutated handle: the payment of an invoice that brings no newer state is
\* not recorded.
handleNewer(e, snap) ==
    \/ /\ e.kind = "subscription"
       /\ upsertSubscription(e.sub, snap, e.at, "webhook") /\ UNCHANGED <<checkout, payment>>
    \/ /\ e.kind \in Invoices
       /\ upsertSubscription(e.sub, snap, e.at, "webhook")
       /\ IF e.at < row[e.sub].at THEN UNCHANGED payment
          ELSE recordPaymentIfNew(e.sub, IF e.kind = "paid" THEN "paid" ELSE "failed")
       /\ UNCHANGED checkout
    \/ /\ e.kind = "checkout"
       /\ checkout' = [checkout EXCEPT ![e.sub] = "complete"] /\ UNCHANGED <<row, payment>>
    \/ e.kind = "other" /\ UNCHANGED <<row, checkout, payment>>

handle(e, snap) ==
    \/ /\ e.kind = "subscription"
       /\ upsertSubscription(e.sub, snap, e.at, "webhook") /\ UNCHANGED <<checkout, payment>>
    \/ /\ e.kind \in Invoices
       /\ upsertSubscription(e.sub, snap, e.at, "webhook")
       /\ recordPaymentIfNew(e.sub, IF e.kind = "paid" THEN "paid" ELSE "failed")
       /\ UNCHANGED checkout
    \/ /\ e.kind = "checkout"
       /\ checkout' = [checkout EXCEPT ![e.sub] = "complete"] /\ UNCHANGED <<row, payment>>
    \/ e.kind = "other" /\ UNCHANGED <<row, checkout, payment>>

\* One transaction.
handleEvent(h) ==
    /\ h \in handling /\ h.hydrated
    /\ handle(h.e, h.snap)
    /\ finishBillingEvent(h.e, IF h.e.kind = "other" THEN "ignored" ELSE "processed")
    /\ handling' = handling \ {h}
    /\ UNCHANGED <<bProv, calls, bCount>>

\* The provider or the database fails the request, or the process dies.
handlerFails(h) ==
    /\ h \in handling /\ BFault
    /\ finishBillingEvent(h.e, "failed") \/ UNCHANGED ledger
    /\ handling' = handling \ {h}
    /\ UNCHANGED <<bProv, row, checkout, payment, calls, called>>

-----------------------------------------------------------------------------
(***************************************************************************)
(* The billing service.                                                    *)
(***************************************************************************)
\* getEffectivePlan(user).paid
paid == \E b \in Subs : row[b].snap.st \in Open

\* performCheckout refuses a user who pays, and asks the provider.
startCheckout(b) ==
    /\ checkout[b] = "none" /\ ~paid
    /\ checkout' = [checkout EXCEPT ![b] = "starting"]
    /\ UNCHANGED <<bProv, ledger, row, payment, handling, calls, bCount>>

createCheckoutRecord(b) ==
    /\ checkout[b] = "starting"
    /\ checkout' = [checkout EXCEPT ![b] = "open"]
    /\ UNCHANGED <<bProv, ledger, row, payment, handling, calls, bCount>>

expireStaleCheckouts ==
    /\ \E b \in Subs : checkout[b] = "open"
    /\ checkout' = [b \in Subs |-> IF checkout[b] = "open" THEN "expired" ELSE checkout[b]]
    /\ UNCHANGED <<bProv, ledger, row, payment, handling, calls, bCount>>

Answer(b, snap) == calls' = calls \cup {[sub |-> b, snap |-> snap]}

\* The session is complete, and the subscription is fetched.
confirmCheckout(b) ==
    /\ checkout[b] \notin {"none", "starting"} /\ prov[b].st # "none" /\ Call
    /\ checkout' = [checkout EXCEPT ![b] = "complete"]
    /\ Answer(b, prov[b])
    /\ UNCHANGED <<bProv, ledger, row, payment, handling, bFaults>>

\* The row is looked at, and then the provider changes the subscription.
cancelSubscription(b) ==
    /\ row[b].snap.st = "active" /\ prov[b].st \in Open /\ Call
    /\ ProviderChange(b, "scheduled", {})
    /\ Answer(b, prov'[b])
    /\ UNCHANGED <<row, checkout, payment, handling, bFaults>>

reactivateSubscription(b) ==
    /\ row[b].snap.st = "scheduled" /\ prov[b].st \in Open /\ Call
    /\ ProviderChange(b, "active", {})
    /\ Answer(b, prov'[b])
    /\ UNCHANGED <<row, checkout, payment, handling, bFaults>>

reconcileSubscription(b) ==
    /\ row[b].by # "none" /\ Call
    /\ Answer(b, prov[b])
    /\ UNCHANGED <<bProv, bDb, handling, bFaults>>

\* eventAt is the time of the write.
applyAnswer(c) ==
    /\ c \in calls
    /\ calls' = calls \ {c}
    /\ upsertSubscription(c.sub, c.snap, clock, "call")
    /\ UNCHANGED <<bProv, ledger, checkout, payment, handling, bCount>>

loseAnswer(c) ==
    /\ c \in calls /\ BFault
    /\ calls' = calls \ {c}
    /\ UNCHANGED <<bProv, bDb, handling, called>>

BillingNext ==
    \/ \E b \in Subs :
        \/ providerSubscribes(b) \/ providerChanges(b)
        \/ startCheckout(b) \/ createCheckoutRecord(b)
        \/ confirmCheckout(b) \/ cancelSubscription(b) \/ reactivateSubscription(b)
        \/ reconcileSubscription(b)
    \/ \E e \in DOMAIN ledger : claimEvent(e)
    \/ \E h \in handling : hydrate(h) \/ handleEvent(h) \/ handlerFails(h)
    \/ \E c \in calls : applyAnswer(c) \/ loseAnswer(c)
    \/ timePasses \/ expireStaleCheckouts

BillingSpec == BillingInit /\ [][BillingNext]_bVars

\* A request that is not interrupted ends.  The provider sends an event until
\* it is answered 200 (external).
BillingFairness ==
    /\ WF_bVars(\E h \in handling : hydrate(h))
    /\ WF_bVars(\E h \in handling : handleEvent(h))
    /\ WF_bVars(\E e \in DOMAIN ledger : claimEvent(e))

-----------------------------------------------------------------------------
(***************************************************************************)
(* Properties.                                                             *)
(***************************************************************************)
\* An event marked processed had its effect, whatever crashed, was sent twice
\* or was claimed by two requests: the row is as new as the event, the
\* invoice is in the payments ledger, the checkout is closed.
ProcessedIsApplied ==
    \A e \in DOMAIN ledger : ledger[e] = "processed" =>
        /\ e.kind = "subscription" => row[e.sub].at >= e.at
        /\ e.kind \in Invoices => row[e.sub].at >= e.at /\ payment[e.sub] # "none"
        /\ e.kind = "checkout" => checkout[e.sub] \notin {"starting", "open"}

Quiet(b) == /\ \A e \in DOMAIN ledger : e.sub = b => ledger[e] \in Finished
            /\ \A h \in handling : h.e.sub # b
            /\ \A c \in calls : c.sub # b

\* "out-of-order (older) events are ignored so webhook retries and reordering
\* can never roll state backwards": when all events are processed, a row that
\* a webhook wrote last says what the provider says, though the events came
\* in any order and invoices brought states newer than themselves.
WebhooksConverge ==
    \A b \in Subs : Quiet(b) /\ row[b].by = "webhook" => row[b].snap = prov[b]

\* Every event is processed or ignored in the end: neither a crash between
\* its claim and its transaction nor a failure of the provider loses it.
EveryEventSettles ==
    <>[](\A e \in DOMAIN ledger : ledger[e] \in Finished)
=============================================================================
