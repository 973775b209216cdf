---------------------------- MODULE JobContract -----------------------------
(***************************************************************************)
(* What the job queue promises to those who enqueue jobs: the diagram of   *)
(* docs/ARCHITECTURE.md ("Jobs"), with at-least-once delivery.  A pending  *)
(* job is delivered, each delivery is counted, only a delivered job can    *)
(* complete, and a job that ended stays ended: only a failed one can be    *)
(* reopened, by an administrator, and only retention removes it.           *)
(***************************************************************************)
EXTENDS Naturals

CONSTANT Jobs

VARIABLES
    state,          \* [Jobs -> States]
    deliveries      \* [Jobs -> Nat]: how often the job was handed to a worker

vars == <<state, deliveries>>

Ended  == {"completed", "failed", "cancelled", "expired"}
States == {"absent", "pending", "running", "deleted"} \cup Ended

Init ==
    /\ state = [j \in Jobs |-> "absent"]
    /\ deliveries = [j \in Jobs |-> 0]

Become(j, s) ==
    /\ state' = [state EXCEPT ![j] = s]
    /\ UNCHANGED deliveries

Submit(j) == state[j] = "absent" /\ Become(j, "pending")

Deliver(j) ==
    /\ state[j] = "pending"
    /\ state' = [state EXCEPT ![j] = "running"]
    /\ deliveries' = [deliveries EXCEPT ![j] = @ + 1]

\* A retry, the recovery of an orphan, or a shutdown.
Return(j) == state[j] = "running" /\ Become(j, "pending")

Settle(j) == state[j] = "running" /\ \E s \in Ended : Become(j, s)

\* A pending job can end without another delivery, but not by completing.
Drop(j) == state[j] = "pending" /\ \E s \in Ended \ {"completed"} : Become(j, s)

Reopen(j) == state[j] = "failed" /\ Become(j, "pending")

Purge(j) == state[j] \in Ended /\ Become(j, "deleted")

Next ==
    \E j \in Jobs :
        Submit(j) \/ Deliver(j) \/ Return(j) \/ Settle(j) \/ Drop(j) \/ Reopen(j) \/ Purge(j)

Spec == Init /\ [][Next]_vars
=============================================================================
