----------------------------- MODULE MCServices -----------------------------
(***************************************************************************)
(* The components that do not share state with the queue, side by side in  *)
(* one instance: a behaviour is one of them, the others stay as they are.  *)
(***************************************************************************)
EXTENDS WebhookDelivery, BillingEvents, BrowserMatrix, Idempotency, CircuitBreaker,
        WorkerRegistry, UsagePeriods

VARIABLE part       \* the component that runs

allVars == <<part, dVars, bVars, mVars, iVars, brVars, rVars, uVars>>

ServicesInit ==
    /\ part \in {"webhooks", "billing", "matrix", "idempotency", "breaker", "registry", "usage"}
    /\ DeliveryInit /\ BillingInit /\ MatrixInit /\ IdempotencyInit /\ BreakerInit
    /\ RegistryInit /\ UsageInit

ServicesNext ==
    /\ UNCHANGED part
    /\ \/ part = "webhooks" /\ DeliveryNext /\ UNCHANGED <<bVars, mVars, iVars, brVars, rVars, uVars>>
       \/ part = "billing" /\ BillingNext /\ UNCHANGED <<dVars, mVars, iVars, brVars, rVars, uVars>>
       \/ part = "matrix" /\ MatrixNext /\ UNCHANGED <<dVars, bVars, iVars, brVars, rVars, uVars>>
       \/ part = "idempotency" /\ IdempotencyNext /\ UNCHANGED <<dVars, bVars, mVars, brVars, rVars, uVars>>
       \/ part = "breaker" /\ BreakerNext /\ UNCHANGED <<dVars, bVars, mVars, iVars, rVars, uVars>>
       \/ part = "registry" /\ RegistryNext /\ UNCHANGED <<dVars, bVars, mVars, iVars, brVars, uVars>>
       \/ part = "usage" /\ UsageNext /\ UNCHANGED <<dVars, bVars, mVars, iVars, brVars, rVars>>

ServicesSpec == ServicesInit /\ [][ServicesNext]_allVars

\* A component that does not run has nothing to do that fairness asks for.
FairServices ==
    /\ ServicesSpec
    /\ DeliveryFairness /\ BillingFairness /\ MatrixFairness /\ RegistryFairness

\* A delivery is given up and a matrix is completed only for what happened:
\* DeadLetterIsEarned and CompletedIsEarned.
EndsAreEarned == DeadLetterIsEarned /\ CompletedIsEarned

\* What a user pays for is done once and counted once: ExecutesOnce of
\* Idempotency and PeriodBound of UsagePeriods.
ChargesHold == ExecutesOnce /\ PeriodBound

\* The deliveries, the events and the matrices all come to their ends:
\* EveryDeliverySettles, EveryEventSettles and EveryMatrixEnds.
ServicesSettle == EveryDeliverySettles /\ EveryEventSettles /\ EveryMatrixEnds
=============================================================================
