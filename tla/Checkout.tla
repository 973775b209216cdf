------------------------------ MODULE Checkout ------------------------------
(***************************************************************************)
(* How a user comes by a plan and keeps it: the billing pages, the service *)
(* behind them and the subscriptions at Razorpay, over billing cycles.     *)
(* One plan is for sale, one web process sells it.                         *)
(*                                                                         *)
(* Time counts in parts of a cycle.  The provider's changes of one         *)
(* subscription are numbered by `ver`, which stands for their dates;       *)
(* events carry the state of their change, come in any order, and not      *)
(* later than for ever.  A call to the provider and the write of its       *)
(* answer are one step here: what happens between the two is in            *)
(* BillingEvents.                                                          *)
(***************************************************************************)
EXTENDS Naturals, Sequences, FiniteSets, SequencesExt

CONSTANTS
    Tabs,          \* browser tabs of the user
    Subs,          \* subscriptions at the provider
    Cycle,         \* length of a billing cycle
    Grace,         \* pastDueGraceDays
    Window,        \* CHECKOUT_REUSE_WINDOW_MS
    LastMoment,    \* the last moment of a behaviour
    Changes        \* changes of the subscriptions at the provider, a bound

ASSUME CheckoutAssumption == Cycle \in Nat /\ Grace \in Nat /\ Window \in Nat

VARIABLES
    now,
    remote,        \* the provider's subscriptions
    notices,       \* events not delivered yet
    recorded,      \* checkout_sessions
    local,         \* subscriptions
    order,         \* ids of the rows, the one updated last first
    page           \* what each tab shows

coVars == <<now, remote, notices, recorded, local, order, page>>

None == 0
NoRemote == [status |-> "none", end |-> 0, ending |-> FALSE, ver |-> 0]
NoRow == [status |-> "none", end |-> 0, cancelAtEnd |-> FALSE, ver |-> 0, upd |-> 0]
Dashboard == [at |-> "dashboard", sub |-> None, phase |-> ""]
Page(at, s) == [Dashboard EXCEPT !.at = at, !.sub = s]

mayChange == FoldFunction(+, 0, [s \in Subs |-> remote[s].ver]) < Changes

-----------------------------------------------------------------------------
(* The adapter.                                                            *)
mapSubscriptionStatus(raw) ==
    CASE raw \in {"authenticated", "active", "completed"} -> "active"
      [] raw = "pending" -> "past_due"
      [] raw = "halted" -> "unpaid"
      [] raw = "cancelled" -> "canceled"
      [] raw = "expired" -> "incomplete_expired"
      [] OTHER -> "incomplete"

normalizeRazorpaySubscription(r) ==
    [NoRow EXCEPT !.status = mapSubscriptionStatus(r.status), !.end = r.end, !.ver = r.ver]

refineCompleted(r) ==
    IF r.status = "completed" /\ r.end # 0 /\ r.end <= now
    THEN [normalizeRazorpaySubscription(r) EXCEPT !.status = "canceled"]
    ELSE normalizeRazorpaySubscription(r)

getCheckoutSession(r) ==
    IF mapSubscriptionStatus(r.status) = "active" THEN "complete"
    ELSE IF r.status \in {"created", "pending", "halted"} THEN "open" ELSE "expired"

-----------------------------------------------------------------------------
(* The local rows.                                                         *)
\* An older state than the row's is ignored; the row that changes moves first.
upsertSubscription(s, snap) ==
    IF snap.ver < local[s].ver THEN [rows |-> local, ids |-> order]
    ELSE [rows |-> [local EXCEPT ![s] = [snap EXCEPT !.upd = now]],
          ids |-> <<s>> \o SelectSeq(order, LAMBDA x : x # s)]

applyProviderSubscription(s, snap) ==
    local' = upsertSubscription(s, snap).rows /\ order' = upsertSubscription(s, snap).ids

Relevant == {"active", "past_due", "incomplete", "unpaid"}

getCurrentSubscription(rows, ids) ==
    LET live == SelectSeq(ids, LAMBDA s : rows[s].status \in Relevant)
    IN  IF live # <<>> THEN Head(live) ELSE IF ids # <<>> THEN Head(ids) ELSE None

\* Mutated resolveEffectivePlan: an active row is good without an end.
resolveWithoutEnd(row) ==
    \/ row.status = "active"
    \/ row.status = "past_due" /\ now < (IF row.end # 0 THEN row.end ELSE row.upd) + Grace

\* Does the row pay for the plan now?
resolveEffectivePlan(row) ==
    \/ row.status = "active" /\ (IF row.cancelAtEnd THEN now < row.end
                                 ELSE row.end = 0 \/ now < row.end + Grace)
    \/ row.status = "past_due" /\ now < (IF row.end # 0 THEN row.end ELSE row.upd) + Grace

getEffectivePlan(rows, ids) ==
    LET s == getCurrentSubscription(rows, ids) IN s \in Subs /\ resolveEffectivePlan(rows[s])

paidPlan == getEffectivePlan(local, order)

-----------------------------------------------------------------------------
(* The billing page: a click, and the request it sends.                    *)
Performing == {"rebuilding", "creating", "answering"}

\* Mutated inFlightCheckouts: requests do not see each other.
inFlightNothing == {}

inFlightCheckouts == {t \in Tabs : page[t].at \in Performing}

findRecentOpenCheckout ==
    {s \in Subs : recorded[s].status = "open" /\ recorded[s].at + Window >= now}

startCheckout(t) ==
    /\ page[t].at = "dashboard"
    /\ \/ inFlightCheckouts # {} /\ page' = [page EXCEPT ![t] = Page("joined", None)]
       \/ /\ inFlightCheckouts = {} /\ ~paidPlan
          /\ IF findRecentOpenCheckout # {}
             THEN \E s \in findRecentOpenCheckout : page' = [page EXCEPT ![t] = Page("rebuilding", s)]
             ELSE page' = [page EXCEPT ![t] = Page("creating", None)]
    /\ UNCHANGED <<now, remote, notices, recorded, local, order>>

\* What the request of t ends with is the answer to those that joined it.
Answered(t, shown) ==
    page' = [u \in Tabs |-> IF u = t \/ page[u].at = "joined" THEN shown ELSE page[u]]

\* The provider still knows the subscription: it is opened again, whatever it
\* has become.
rebuildCheckoutSession(t) ==
    /\ page[t].at = "rebuilding"
    /\ Answered(t, Page("popup", page[t].sub))
    /\ UNCHANGED <<now, remote, notices, recorded, local, order>>

createCheckoutSession(t, s) ==
    /\ page[t].at = "creating" /\ remote[s].status = "none"
    /\ remote' = [remote EXCEPT ![s].status = "created"]
    /\ page' = [page EXCEPT ![t] = Page("answering", s)]
    /\ UNCHANGED <<now, notices, recorded, local, order>>

createCheckoutRecord(t) ==
    /\ page[t].at = "answering"
    /\ recorded' = [recorded EXCEPT ![page[t].sub] = [status |-> "open", at |-> now]]
    /\ Answered(t, Page("popup", page[t].sub))
    /\ UNCHANGED <<now, remote, notices, local, order>>

\* The provider fails, or its answer is lost; the price is not the catalog's.
checkoutFails(t) ==
    /\ page[t].at \in Performing /\ Answered(t, Dashboard)
    /\ UNCHANGED <<now, remote, notices, recorded, local, order>>

\* The window closes without a payment, or never opened.
dismissed(t) ==
    /\ page[t].at = "popup" /\ page' = [page EXCEPT ![t] = Dashboard]
    /\ UNCHANGED <<now, remote, notices, recorded, local, order>>

\* The user pays; the page that follows has the payment's signature.
success(t) ==
    LET s == page[t].sub
        r == [remote[s] EXCEPT !.status = "authenticated", !.ver = @ + 1]
    IN  /\ page[t].at = "popup" /\ remote[s].status = "created" /\ mayChange
        /\ remote' = [remote EXCEPT ![s] = r]
        /\ notices' = notices \cup {[sub |-> s, snap |-> r]}
        /\ page' = [page EXCEPT ![t] = [Page("return", s) EXCEPT !.phase = "checking"]]
        /\ UNCHANGED <<now, recorded, local, order>>

-----------------------------------------------------------------------------
(* The return page.                                                        *)
Show(t, phase) == page' = [page EXCEPT ![t].phase = phase]

\* A tick of the page: confirmCheckout, and its answer.
confirmCheckout(t) ==
    LET s == page[t].sub
        session == getCheckoutSession(remote[s])
        after == upsertSubscription(s, refineCompleted(remote[s]))
    IN  /\ page[t].at = "return" /\ page[t].phase \in {"checking", "pending"}
        /\ CASE session = "complete" ->
                    /\ recorded' = [recorded EXCEPT ![s].status = "complete"]
                    /\ applyProviderSubscription(s, refineCompleted(remote[s]))
                    /\ Show(t, IF getEffectivePlan(after.rows, after.ids) THEN "complete" ELSE "pending")
             [] session = "open" -> Show(t, "pending") /\ UNCHANGED <<recorded, local, order>>
             [] session = "expired" ->
                    /\ recorded' = [recorded EXCEPT ![s].status = "expired"]
                    /\ Show(t, "expired") /\ UNCHANGED <<local, order>>
        /\ UNCHANGED <<now, remote, notices>>

confirmFails(t) ==
    /\ page[t].at = "return" /\ page[t].phase \in {"checking", "pending"}
    /\ Show(t, "error")
    /\ UNCHANGED <<now, remote, notices, recorded, local, order>>

leave(t) ==
    /\ page[t].at = "return" /\ page' = [page EXCEPT ![t] = Dashboard]
    /\ UNCHANGED <<now, remote, notices, recorded, local, order>>

\* After an error, or when the polls of the page are used up.
reload(t) ==
    /\ page[t].at = "return" /\ page[t].phase \in {"pending", "error"}
    /\ page' = [page EXCEPT ![t].phase = "checking"]
    /\ UNCHANGED <<now, remote, notices, recorded, local, order>>

\* At the end of the cycle; the row says so until the next state arrives.
cancelSubscription ==
    LET s == getCurrentSubscription(local, order)
        row == normalizeRazorpaySubscription(remote[s])
    IN  /\ s \in Subs /\ local[s].status \in {"active", "past_due"} /\ ~local[s].cancelAtEnd
        /\ remote[s].status \in {"authenticated", "active", "pending"}
        /\ remote' = [remote EXCEPT ![s].ending = TRUE]
        /\ applyProviderSubscription(s, [row EXCEPT !.cancelAtEnd = row.status = "active" /\ row.end # 0])
        /\ UNCHANGED <<now, notices, recorded, page>>

reconcileSubscription(s) ==
    /\ local[s] # NoRow
    /\ applyProviderSubscription(s, refineCompleted(remote[s]))
    /\ UNCHANGED <<now, remote, notices, recorded, page>>

-----------------------------------------------------------------------------
(* The provider.                                                           *)
Moved(r) ==
    CASE r.status = "created" -> {[r EXCEPT !.status = "expired"]}
      [] r.status \in {"authenticated", "pending"} /\ ~r.ending ->
             {[r EXCEPT !.status = "active", !.end = now + Cycle], [r EXCEPT !.status = "cancelled"]}
             \cup {[r EXCEPT !.status = IF r.status = "pending" THEN "halted" ELSE "pending"]}
      [] r.status = "active" /\ now < r.end -> {[r EXCEPT !.status = "cancelled"], [r EXCEPT !.status = "completed"]}
      [] r.status = "active" /\ now >= r.end /\ ~r.ending ->
             {[r EXCEPT !.end = now + Cycle], [r EXCEPT !.status = "pending"]}
      [] r.status \in {"active", "authenticated", "pending", "halted"} -> {[r EXCEPT !.status = "cancelled"]}
      [] OTHER -> {}

providerMoves(s) ==
    /\ mayChange
    /\ \E r \in Moved([remote[s] EXCEPT !.ver = @ + 1]) :
        /\ remote' = [remote EXCEPT ![s] = r]
        /\ notices' = IF r.status = "expired" THEN notices ELSE notices \cup {[sub |-> s, snap |-> r]}
    /\ UNCHANGED <<now, recorded, local, order, page>>

\* verifyWebhook, normalizeRazorpayEvent and the transaction of the event.
normalizeRazorpayEvent(n) ==
    /\ n \in notices /\ notices' = notices \ {n}
    /\ applyProviderSubscription(n.sub, refineCompleted(n.snap))
    /\ UNCHANGED <<now, remote, recorded, page>>

timeGoesOn ==
    /\ now < LastMoment /\ now' = now + 1
    /\ UNCHANGED <<remote, notices, recorded, local, order, page>>

CheckoutInit ==
    /\ now = 1 /\ remote = [s \in Subs |-> NoRemote] /\ notices = {}
    /\ recorded = [s \in Subs |-> [status |-> "none", at |-> 0]]
    /\ local = [s \in Subs |-> NoRow] /\ order = <<>> /\ page = [t \in Tabs |-> Dashboard]

CheckoutNext ==
    \/ \E t \in Tabs : \/ startCheckout(t) \/ rebuildCheckoutSession(t) \/ createCheckoutRecord(t)
                       \/ checkoutFails(t) \/ dismissed(t) \/ success(t) \/ confirmCheckout(t)
                       \/ confirmFails(t) \/ leave(t) \/ reload(t)
                       \/ \E s \in Subs : createCheckoutSession(t, s)
    \/ \E s \in Subs : providerMoves(s) \/ reconcileSubscription(s)
    \/ \E n \in notices : normalizeRazorpayEvent(n)
    \/ cancelSubscription \/ timeGoesOn

CheckoutSpec == CheckoutInit /\ [][CheckoutNext]_coVars

-----------------------------------------------------------------------------
\* "It never marks anything paid from the URL alone"
\* (src/lib/billing/billing-service.ts:268), and nothing is paid for ever:
\* whoever has the plan has a subscription that the provider was paid for, until
\* the grace after the cycle that was paid last, or whose first charge is still
\* tried, or a newer state of which is on its way.
PlanIsPaidFor ==
    paidPlan =>
        LET s == getCurrentSubscription(local, order) IN
        \/ remote[s].end # 0 /\ now < remote[s].end + Grace
        \/ remote[s].end = 0 /\ remote[s].status \in {"authenticated", "pending"}
        \/ \E n \in notices : n.sub = s /\ n.snap.ver > local[s].ver

\* "Repeated requests inside a short window reuse the open session"
\* (src/lib/billing/billing-service.ts:151): double clicks and retries, in
\* several tabs, leave one open checkout in the window.
ClicksShareOneCheckout == Cardinality(findRecentOpenCheckout) <= 1

\* The two promises: nobody has a plan that is not paid for, and a user who
\* clicks twice pays once.
CheckoutsHold == PlanIsPaidFor /\ ClicksShareOneCheckout
=============================================================================
