--------------------------- MODULE WorkerRegistry ---------------------------
(***************************************************************************)
(* One worker and its row in the registry.  The operator writes the        *)
(* desired state into the row; the worker reads it in its polling loop and *)
(* in its heartbeats, and keeps a flag of its own, `draining`, by which it *)
(* claims.  A heartbeat awaits a probe, and then writes the row and reads  *)
(* it back; the first one runs beside the loop.                            *)
(***************************************************************************)
EXTENDS Naturals

CONSTANTS
    Concurrency,
    MaxOrders,      \* of the operator, a bound
    MaxStarts       \* of the process, a bound

VARIABLES
    desired,        \* workers.desired_state; "absent" without a row
    signalled,      \* workers.stopping
    process,        \* down, up, or stopping
    draining,       \* the worker's flag
    activeJobs,
    beats,          \* heartbeats that await their probe
    orders, starts

rRow  == <<desired, signalled>>
rVars == <<rRow, process, draining, activeJobs, beats, orders, starts>>

Desired == {"running", "draining", "disabled"}

RegistryTypeOK ==
    /\ desired \in Desired \cup {"absent"} /\ signalled \in BOOLEAN
    /\ process \in {"down", "up", "stopping"} /\ draining \in BOOLEAN
    /\ activeJobs \in 0 .. Concurrency /\ beats \subseteq {"first", "loop", "last"}
    /\ orders \in Nat /\ starts \in Nat

RegistryInit ==
    /\ desired = "absent" /\ signalled = FALSE
    /\ process = "down" /\ draining = FALSE /\ activeJobs = 0 /\ beats = {}
    /\ orders = 0 /\ starts = 0

\* A new process; its first heartbeat is not awaited.
startWorker ==
    /\ process = "down" /\ starts < MaxStarts
    /\ process' = "up" /\ draining' = FALSE /\ beats' = {"first"} /\ starts' = starts + 1
    /\ UNCHANGED <<rRow, activeJobs, orders>>

setWorkerDesiredState ==
    /\ desired # "absent" /\ orders < MaxOrders /\ orders' = orders + 1
    /\ \E d \in Desired : desired' = d
    /\ UNCHANGED <<signalled, process, draining, activeJobs, beats, starts>>

getWorkerDesiredState == IF desired = "absent" THEN "running" ELSE desired

\* Mutated observe: a drain is not called off.
observeOnce ==
    /\ process = "up" /\ "loop" \notin beats
    /\ draining' = (draining \/ getWorkerDesiredState # "running")
    /\ UNCHANGED <<rRow, process, activeJobs, beats, orders, starts>>

\* The loop, every two seconds.
observe ==
    /\ process = "up" /\ "loop" \notin beats
    /\ draining' = (getWorkerDesiredState # "running")
    /\ UNCHANGED <<rRow, process, activeJobs, beats, orders, starts>>

claimJob ==
    /\ process = "up" /\ "loop" \notin beats /\ ~draining /\ activeJobs < Concurrency
    /\ activeJobs' = activeJobs + 1
    /\ UNCHANGED <<rRow, process, draining, beats, orders, starts>>

jobEnds ==
    /\ activeJobs > 0 /\ activeJobs' = activeJobs - 1
    /\ UNCHANGED <<rRow, process, draining, beats, orders, starts>>

\* The loop makes one at a time; it does not poll until it is back.
heartbeat ==
    /\ process = "up" /\ "loop" \notin beats /\ beats' = beats \cup {"loop"}
    /\ UNCHANGED <<rRow, process, draining, activeJobs, orders, starts>>

\* Without a row it inserts one, desired_state 'running'.
upsertWorkerRegistration ==
    /\ \E b \in beats : beats' = beats \ {b}
    /\ signalled' = (process = "stopping" \/ draining)
    /\ desired' = getWorkerDesiredState
    /\ draining' = (draining \/ signalled' \/ desired' # "running")
    /\ UNCHANGED <<process, activeJobs, orders, starts>>

stopWorker ==
    /\ process = "up" /\ process' = "stopping" /\ beats' = beats \cup {"last"}
    /\ UNCHANGED <<rRow, draining, activeJobs, orders, starts>>

\* Its jobs have ended or are given up, and its row goes.
removeWorker ==
    /\ process = "stopping" /\ beats \subseteq {"first"}
    /\ process' = "down" /\ activeJobs' = 0 /\ beats' = {}
    /\ desired' = "absent" /\ signalled' = FALSE
    /\ UNCHANGED <<draining, orders, starts>>

workerDies ==
    /\ process # "down"
    /\ process' = "down" /\ activeJobs' = 0 /\ beats' = {}
    /\ UNCHANGED <<rRow, draining, orders, starts>>

\* After a day without a heartbeat.
deleteStaleWorkers ==
    /\ process = "down" /\ desired # "absent"
    /\ desired' = "absent" /\ signalled' = FALSE
    /\ UNCHANGED <<process, draining, activeJobs, beats, orders, starts>>

RegistryNext ==
    \/ startWorker \/ setWorkerDesiredState \/ observe \/ claimJob \/ jobEnds
    \/ heartbeat \/ upsertWorkerRegistration
    \/ stopWorker \/ removeWorker \/ workerDies \/ deleteStaleWorkers

RegistrySpec == RegistryInit /\ [][RegistryNext]_rVars

\* The loop polls between two heartbeats, a heartbeat returns, a job has a
\* time limit.
RegistryFairness ==
    SF_rVars(observe) /\ WF_rVars(upsertWorkerRegistration) /\ WF_rVars(jobEnds)

\* A worker that lives follows the operator: as long as its row says drained
\* or disabled it comes to hold no job and to claim none, and when the row says
\* running again it comes to accept jobs, though its own heartbeats write and
\* read back a row that calls it stopping.
WorkerFollowsOperator ==
    /\ <>[](process = "up" /\ desired \in {"draining", "disabled"}) => <>[](draining /\ activeJobs = 0)
    /\ <>[](process = "up" /\ desired = "running") => []<>(~draining)
=============================================================================
