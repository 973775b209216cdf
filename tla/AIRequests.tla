----------------------------- MODULE AIRequests -----------------------------
(***************************************************************************)
(* The requests for an interpretation: from the button of a page           *)
(* (components/ai/useAIRequest.ts) through the route, the look for an      *)
(* answer that was kept, the reservation of quota, the slot of the process *)
(* and the provider, to the answer (lib/ai/route-handler.ts, service.ts,   *)
(* limits.ts).  One web process, which may restart.  From the look to the  *)
(* call of the provider, and from its answer to the end, nothing else runs *)
(* in the process: each is one step.                                       *)
(***************************************************************************)
EXTENDS Integers, FiniteSets

CONSTANTS
    Pages, AskerOf,     \* the panels on screen, and the user of each
    Questions,          \* what may be asked about: a feature, a target and the hash of its context
    Calls,              \* 1 .. n, the requests
    Settings            \* [keeps, allowance, perUser, global]: answers are kept, the requests of the
                        \* plan in a period, the slots of a user and of the process

ASSUME AIAssumption ==
    /\ Pages # {} /\ Questions # {} /\ AskerOf \in [Pages -> {AskerOf[p] : p \in Pages}]
    /\ IsFiniteSet(Calls)
    /\ Settings \subseteq [keeps : BOOLEAN, allowance : Nat, perUser : Nat, global : Nat]

VARIABLES
    panel,          \* each page: [status, call]
    call,           \* each request: [at, page, about, paid]
    kept,           \* the answers that are stored and not expired: <<user, evidence>>
    settings,       \* one of Settings
    perUserInFlight, globalInFlight,
    lapsed,         \* answers that were not stored, or expired
    beside          \* what was asked for while another request for it was at the provider

aiVars == <<panel, call, kept, settings, perUserInFlight, globalInFlight, lapsed, beside>>

keeps     == settings.keeps
Allowance == settings.allowance
PerUser   == settings.perUser
Global    == settings.global

Askers   == {AskerOf[p] : p \in Pages}
UserOf(c) == AskerOf[call[c].page]
KeyOf(c)  == <<UserOf(c), call[c].about>>
NoCall  == [at |-> "none", page |-> CHOOSE p \in Pages : TRUE,
            about |-> CHOOSE e \in Questions : TRUE, paid |-> "none"]

PaidBy(u)  == {c \in Calls : call[c].paid = "consumed" /\ UserOf(c) = u}
HeldBy(u)  == {c \in Calls : call[c].paid = "open" /\ UserOf(c) = u}
Asking     == {c \in Calls : call[c].at = "asking"}
canUseAI(u) == Cardinality(PaidBy(u)) + Cardinality(HeldBy(u)) + 1 <= Allowance

Answers  == {"fresh", "cached"}
Refusals == {"plan", "rejected", "unavailable"}
Failures == Refusals \union {"quota", "unkept", "dead"}

AIInit ==
    /\ panel = [p \in Pages |-> [status |-> "idle", call |-> 0]]
    /\ call = [c \in Calls |-> NoCall]
    /\ kept = {} /\ settings \in Settings /\ lapsed = {} /\ beside = {}
    /\ perUserInFlight = [u \in Askers |-> 0] /\ globalInFlight = 0

\* What the panel makes of an answer.
Classified(how) ==
    CASE how \in Answers           -> "success"
      [] how \in {"plan", "quota"} -> "paywall"
      [] how = "rejected"          -> "error"
      [] OTHER                     -> "unavailable"

Showing(how, c) == [status |-> how, call |-> IF how \in {"loading", "success"} THEN c ELSE 0]

\* The panel that waits for the request is answered, or the answer is lost.
respond(c, how) ==
    LET p == call[c].page
    IN  IF panel[p] = Showing("loading", c)
        THEN \E shown \in {Classified(how), "unavailable"} : panel' = [panel EXCEPT ![p] = Showing(shown, c)]
        ELSE UNCHANGED panel

Conclude(c, how, paid) == call' = [call EXCEPT ![c].at = how, ![c].paid = paid] /\ respond(c, how)
Go(c, paid)       == call' = [call EXCEPT ![c].at = "asking", ![c].paid = paid] /\ UNCHANGED panel
slots  == <<perUserInFlight, globalInFlight>>
stored == <<kept, lapsed, beside>>

-----------------------------------------------------------------------------
(* The panel: one request at a time, and none before the button, which       *)
(* "Try again" puts back.                                                    *)

run(p, e) ==
    /\ panel[p].status # "loading"
    /\ \E c \in Calls :
           /\ call[c] = NoCall /\ \A d \in Calls : d < c => call[d] # NoCall
           /\ call' = [call EXCEPT ![c] = [at |-> "posted", page |-> p, about |-> e, paid |-> "none"]]
           /\ panel' = [panel EXCEPT ![p] = Showing("loading", c)]
    /\ UNCHANGED <<slots, stored, settings>>

\* The connection breaks; the request may go on without the panel.
breakOff(p) ==
    /\ panel[p].status = "loading"
    /\ panel' = [panel EXCEPT ![p] = Showing("unavailable", 0)]
    /\ UNCHANGED <<call, slots, stored, settings>>

-----------------------------------------------------------------------------
(* The route and the service.                                               *)

\* The route or the context refuses: rate limit, configuration, plan, body,
\* owner, a target that is not there, a context that is too large.
refuse(c) ==
    /\ call[c].at = "posted"
    /\ \E how \in Refusals : Conclude(c, how, "none")
    /\ UNCHANGED <<slots, stored, settings>>

findAIResult(c) == keeps /\ KeyOf(c) \in kept

acquireSlot(u) == perUserInFlight[u] < PerUser /\ globalInFlight < Global

\* Another request for the same evidence is at the provider.
Twins(c) == {KeyOf(d) : d \in {d \in Asking : KeyOf(d) = KeyOf(c)}}

\* Mutated runAIFeature: the quota is looked at before the answers that are kept.
reserveFirst(c) ==
    /\ call[c].at = "posted" /\ UNCHANGED <<kept, lapsed, settings>>
    /\ beside' = beside \union Twins(c)
    /\ IF ~ canUseAI(UserOf(c)) THEN Conclude(c, "quota", "none") /\ UNCHANGED slots
       ELSE /\ Go(c, "open")
            /\ perUserInFlight' = [perUserInFlight EXCEPT ![UserOf(c)] = @ + 1]
            /\ globalInFlight' = globalInFlight + 1

runAIFeature(c) ==
    LET u == UserOf(c)
    IN  /\ call[c].at = "posted" /\ UNCHANGED <<kept, lapsed, settings>>
        /\ beside' = beside \union Twins(c)
        /\ \/ findAIResult(c) /\ Conclude(c, "cached", "none") /\ UNCHANGED slots
           \/ ~ findAIResult(c) /\ ~ canUseAI(u) /\ Conclude(c, "quota", "none") /\ UNCHANGED slots
           \/ /\ ~ findAIResult(c) /\ canUseAI(u) /\ ~ acquireSlot(u) /\ UNCHANGED slots
              /\ Conclude(c, IF perUserInFlight[u] >= PerUser THEN "rejected" ELSE "unavailable", "released")
           \/ /\ ~ findAIResult(c) /\ canUseAI(u) /\ acquireSlot(u)
              /\ Go(c, "open")
              /\ perUserInFlight' = [perUserInFlight EXCEPT ![u] = @ + 1]
              /\ globalInFlight' = globalInFlight + 1

releaseSlot(c) ==
    /\ perUserInFlight' = [perUserInFlight EXCEPT ![UserOf(c)] = IF @ <= 1 THEN 0 ELSE @ - 1]
    /\ globalInFlight' = IF globalInFlight = 0 THEN 0 ELSE globalInFlight - 1

\* The provider answers in time and its text is valid: the request is charged,
\* the answer is kept, or cannot be written.
complete(c) ==
    /\ call[c].at = "asking" /\ releaseSlot(c) /\ UNCHANGED <<settings, beside>>
    /\ \/ /\ keeps /\ Conclude(c, "fresh", "consumed")
          /\ kept' = kept \union {KeyOf(c)} /\ UNCHANGED lapsed
       \/ /\ ~ keeps /\ Conclude(c, "fresh", "consumed") /\ UNCHANGED <<kept, lapsed>>
       \/ /\ keeps /\ Conclude(c, "unkept", "consumed")
          /\ lapsed' = lapsed \union {KeyOf(c)} /\ UNCHANGED kept

\* The provider fails, is slower than the time limit, which makes whatever it
\* answers later of no effect, or answers what the schema refuses.
withTimeout(c) ==
    /\ call[c].at = "asking" /\ releaseSlot(c)
    /\ \E how \in {"rejected", "unavailable"} : Conclude(c, how, "released")
    /\ UNCHANGED <<stored, settings>>

\* The process restarts: its requests end where they are.
restart ==
    /\ call' = [c \in Calls |-> IF call[c].at \in {"posted", "asking"} THEN [call[c] EXCEPT !.at = "dead"] ELSE call[c]]
    /\ perUserInFlight' = [u \in Askers |-> 0] /\ globalInFlight' = 0
    /\ \E c \in Calls : call[c].at \in {"posted", "asking"}
    /\ panel' = [p \in Pages |-> IF panel[p].status = "loading" THEN Showing("unavailable", 0) ELSE panel[p]]
    /\ UNCHANGED <<stored, settings>>

-----------------------------------------------------------------------------
(* Maintenance.                                                             *)

\* Reservations without a job that are older than an hour; no request is.
releaseDangling ==
    /\ \E c \in Calls : call[c].paid = "open" /\ call[c].at # "asking"
    /\ call' = [c \in Calls |-> IF call[c].paid = "open" /\ call[c].at # "asking"
                                THEN [call[c] EXCEPT !.paid = "released"] ELSE call[c]]
    /\ UNCHANGED <<panel, slots, stored, settings>>

deleteExpiredAIResults(k) ==
    /\ k \in kept
    /\ kept' = kept \ {k} /\ lapsed' = lapsed \union {k}
    /\ UNCHANGED <<panel, call, slots, settings, beside>>

AINext ==
    \/ \E p \in Pages : (\E e \in Questions : run(p, e)) \/ breakOff(p)
    \/ \E c \in Calls : refuse(c) \/ runAIFeature(c) \/ complete(c) \/ withTimeout(c)
    \/ \E k \in kept : deleteExpiredAIResults(k)
    \/ restart \/ releaseDangling

AISpec == AIInit /\ [][AINext]_aiVars

-----------------------------------------------------------------------------
\* A request is charged exactly when its answer passed every check: one that
\* failed, timed out, was refused or was answered from what is kept costs
\* nothing, and nobody uses or holds more than the allowance.
ChargedForAnswers ==
    /\ \A c \in Calls :
           /\ call[c].at \in {"fresh", "unkept"} <=> call[c].paid = "consumed"
           /\ call[c].paid = "open" => call[c].at \in {"asking", "dead"}
    /\ \A u \in Askers : Cardinality(PaidBy(u)) + Cardinality(HeldBy(u)) <= Allowance

\* The slots are those of the requests at the provider, through every failure
\* and restart, and never more than the limits.
SlotsAreReturned ==
    /\ globalInFlight = Cardinality(Asking) /\ globalInFlight <= Global
    /\ \A u \in Askers : /\ perUserInFlight[u] = Cardinality({c \in Asking : UserOf(c) = u})
                        /\ perUserInFlight[u] <= PerUser

\* The same evidence is paid for twice only if the answer was not kept, has
\* expired, or was asked for by two requests at once.
PaidOnce ==
    \A c, d \in Calls :
        c # d /\ call[c].paid = "consumed" /\ call[d].paid = "consumed" /\ KeyOf(c) = KeyOf(d) =>
            ~ keeps \/ KeyOf(c) \in lapsed \union beside

\* A panel shows an answer only of the request it waits for.
PanelsAreTrue ==
    \A p \in Pages : panel[p].status = "success" =>
        call[panel[p].call].at \in Answers /\ call[panel[p].call].page = p

\* What the requests promise.
AnswersHold == ChargedForAnswers /\ SlotsAreReturned /\ PaidOnce /\ PanelsAreTrue
=============================================================================
