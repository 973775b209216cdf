----------------------------- MODULE RateLimits -----------------------------
(***************************************************************************)
(* The rate limits (lib/auth/rate-limit, rate-limit-policy) over the       *)
(* coordination store (lib/coordination), and those of the public API      *)
(* (lib/api/v1-support).  A window is counted in memory by each process,   *)
(* or in Redis by all: the first to count a window has it expire by a      *)
(* command of its own, and a refused request asks for the time left by a   *)
(* third.  Any command may fail; a limit of the policy then falls back on  *)
(* the bucket of its process, one of the API fails with the request.       *)
(***************************************************************************)
EXTENDS Integers, Sequences, FiniteSets

CONSTANTS
    Processes,      \* the web processes
    Keys,           \* what is counted
    Clients,        \* the requests, each made once
    Requests,       \* what a request asks: the keys in their order, and whether it may fall back
    Allowance,      \* of each key, so many in a window
    Window,         \* of so many seconds
    MaxTime,        \* bound: seconds
    MaxFailures     \* bound: commands and connections that fail

ASSUME RateLimitsAssumption ==
    /\ IsFiniteSet(Clients)
    /\ Allowance \in [Keys -> Nat \ {0}] /\ Window \in Nat \ {0} /\ MaxTime \in Nat \ {0}
    /\ \A r \in Requests : r.keys \in Seq(Keys) /\ r.keys # <<>>

VARIABLES
    clock,
    deployment,     \* COORDINATION_PROVIDER, and whether APP_ENV is production
    store,          \* store: what each process counts in
    initializing,   \* initializing: the connection of each process is on its way
    buckets,        \* buckets: the counts of each process
    counters,       \* Redis: the counter of each key and window
    calls,          \* the requests
    granted         \* what the bucket of each process granted: when, in the window from when

rlVars == <<clock, deployment, store, initializing, buckets, counters, calls, granted>>

Windows == 0 .. MaxTime \div Window
Never == 0      \* a counter without an expiry
NoRequest == [state |-> "none"]

failures == Cardinality({c \in Clients : calls[c].state # "none" /\ calls[c].failed})

RateLimitsInit ==
    /\ clock = 1
    /\ deployment \in [provider : {"memory", "redis"}, production : BOOLEAN]
    /\ store = [p \in Processes |-> "none"]
    /\ initializing = [p \in Processes |-> FALSE]
    /\ buckets = [p \in Processes |-> [k \in Keys |-> [count |-> 0, resetAt |-> 0]]]
    /\ counters = [k \in Keys |-> [w \in Windows |-> [count |-> 0, until |-> Never]]]
    /\ calls = [c \in Clients |-> NoRequest]
    /\ granted = [p \in Processes |-> [k \in Keys |-> <<>>]]

-----------------------------------------------------------------------------
Key(c) == calls[c].request.keys[calls[c].next]

\* rateLimit computes the window of the counter before the command is sent.
Counting(call, by) == [call EXCEPT !.state = "counting", !.by = by, !.window = clock \div Window]

\* All keys of a request must allow it; the earlier ones have counted it.
Passed(c) ==
    IF calls[c].next < Len(calls[c].request.keys)
    THEN Counting([calls[c] EXCEPT !.next = @ + 1], calls[c].by)
    ELSE [calls[c] EXCEPT !.state = "allowed"]

Grants(p, k, from) == granted' = [granted EXCEPT ![p][k] = Append(@, [at |-> clock, from |-> from])]

\* The window of a bucket begins with the first request after the last one ended.
checkRateLimit(c, failed) ==
    LET p == calls[c].process
        bucket == buckets[p][Key(c)]
        after(call) == [call EXCEPT !.failed = failed]
    IN  \/ /\ bucket.resetAt <= clock
           /\ buckets' = [buckets EXCEPT ![p][Key(c)] = [count |-> 1, resetAt |-> clock + Window]]
           /\ Grants(p, Key(c), clock)
           /\ calls' = [calls EXCEPT ![c] = after(Passed(c))]
        \/ /\ bucket.resetAt > clock /\ bucket.count >= Allowance[Key(c)]
           /\ calls' = [calls EXCEPT ![c] = after([@ EXCEPT !.state = "limited"])]
           /\ UNCHANGED <<buckets, granted>>
        \/ /\ bucket.resetAt > clock /\ bucket.count < Allowance[Key(c)]
           /\ buckets' = [buckets EXCEPT ![p][Key(c)].count = @ + 1]
           /\ Grants(p, Key(c), bucket.resetAt - Window)
           /\ calls' = [calls EXCEPT ![c] = after(Passed(c))]

\* enforceRateLimitAsync: whatever fails, the bucket of the process decides.
\* enforceApiRateLimit: the error is the answer.
fallsBack(c) ==
    \/ calls[c].request.fallback /\ checkRateLimit(c, TRUE)
    \/ /\ ~calls[c].request.fallback
       /\ calls' = [calls EXCEPT ![c].state = "error", ![c].failed = TRUE]
       /\ UNCHANGED <<buckets, granted>>

-----------------------------------------------------------------------------
(* The store of a process.                                                 *)

Arrived(p, r) ==
    [state |-> "connecting", process |-> p, request |-> r, next |-> 1, by |-> "none",
     window |-> 0, again |-> Never, failed |-> FALSE]

\* The first request has the process connect; those that come meanwhile wait
\* for the same connection.
getCoordinationStore(c, p, r) ==
    /\ calls[c] = NoRequest
    /\ \/ /\ store[p] # "none"
          /\ calls' = [calls EXCEPT ![c] = Counting(Arrived(p, r), store[p])]
          /\ UNCHANGED <<store, initializing>>
       \/ /\ store[p] = "none" /\ deployment.provider = "memory"
          /\ store' = [store EXCEPT ![p] = "memory"]
          /\ calls' = [calls EXCEPT ![c] = Counting(Arrived(p, r), "memory")]
          /\ UNCHANGED initializing
       \/ /\ store[p] = "none" /\ deployment.provider = "redis"
          /\ initializing' = [initializing EXCEPT ![p] = TRUE]
          /\ calls' = [calls EXCEPT ![c] = Arrived(p, r)]
          /\ UNCHANGED store
    /\ UNCHANGED <<clock, deployment, buckets, counters, granted>>

\* A frame of a session is published before the store is there; in production
\* that is an error.
getCoordinationStoreSync(p) ==
    /\ store[p] = "none"
    /\ deployment.provider = "memory" \/ ~deployment.production
    /\ store' = [store EXCEPT ![p] = "memory"]
    /\ UNCHANGED <<clock, deployment, initializing, buckets, counters, calls, granted>>

\* The connection replaces what a publisher may have put there meanwhile.
created(p) ==
    /\ initializing[p]
    /\ store' = [store EXCEPT ![p] = "redis"]
    /\ initializing' = [initializing EXCEPT ![p] = FALSE]
    /\ calls' = [c \in Clients |->
          IF calls[c].state = "connecting" /\ calls[c].process = p THEN Counting(calls[c], "redis") ELSE calls[c]]
    /\ UNCHANGED <<clock, deployment, buckets, counters, granted>>

\* Those that waited fall back one after the other; the next one connects anew.
createFails(p) ==
    /\ initializing[p] /\ failures < MaxFailures
    /\ initializing' = [initializing EXCEPT ![p] = FALSE]
    /\ calls' = [c \in Clients |->
          IF calls[c].state = "connecting" /\ calls[c].process = p
          THEN [calls[c] EXCEPT !.state = "failing", !.failed = TRUE] ELSE calls[c]]
    /\ UNCHANGED <<clock, deployment, store, buckets, counters, granted>>

connectionFailed(c) ==
    /\ calls[c].state = "failing"
    /\ fallsBack(c)
    /\ UNCHANGED <<clock, deployment, store, initializing, counters>>

-----------------------------------------------------------------------------
(* The counting.                                                           *)

memoryRateLimit(c) ==
    /\ calls[c].state = "counting" /\ calls[c].by = "memory"
    /\ checkRateLimit(c, calls[c].failed)
    /\ UNCHANGED <<clock, deployment, store, initializing, counters>>

\* A counter whose time has passed is gone, and counted anew.
Counted(counter) ==
    IF counter.until # Never /\ counter.until <= clock
    THEN [count |-> 1, until |-> Never] ELSE [counter EXCEPT !.count = @ + 1]

increment(c) == counters' = [counters EXCEPT ![Key(c)][calls[c].window] = Counted(@)]

\* INCR.  A count of one is followed by EXPIRE, one over the limit by TTL.
rateLimitCounts(c) ==
    /\ calls[c].state = "counting" /\ calls[c].by = "redis"
    /\ increment(c)
    /\ LET count == counters'[Key(c)][calls[c].window].count
       IN  \/ count = 1 /\ calls' = [calls EXCEPT ![c].state = "expiring"]
           \/ count \in 2 .. Allowance[Key(c)] /\ calls' = [calls EXCEPT ![c] = Passed(c)]
           \/ count > 1 /\ count > Allowance[Key(c)] /\ calls' = [calls EXCEPT ![c].state = "asking"]
    /\ UNCHANGED <<clock, deployment, store, initializing, buckets, granted>>

rateLimitExpires(c) ==
    /\ calls[c].state = "expiring"
    /\ counters' = [counters EXCEPT ![Key(c)][calls[c].window].until = clock + Window]
    /\ calls' = [calls EXCEPT ![c] = Passed(c)]
    /\ UNCHANGED <<clock, deployment, store, initializing, buckets, granted>>

\* One second, at least: so it is said of a counter that does not expire, or
\* is gone.
rateLimitRefuses(c) ==
    /\ calls[c].state = "asking"
    /\ LET until == counters[Key(c)][calls[c].window].until
       IN  calls' = [calls EXCEPT ![c].state = "refused", ![c].again = IF until > clock THEN until ELSE Never]
    /\ UNCHANGED <<clock, deployment, store, initializing, buckets, counters, granted>>

\* A command may have been done although its answer is lost.
rateLimitFails(c) ==
    /\ calls[c].state \in {"counting", "expiring", "asking"} /\ calls[c].by = "redis"
    /\ failures < MaxFailures
    /\ \/ UNCHANGED counters
       \/ calls[c].state = "counting" /\ increment(c)
       \/ /\ calls[c].state = "expiring"
          /\ counters' = [counters EXCEPT ![Key(c)][calls[c].window].until = clock + Window]
    /\ fallsBack(c)
    /\ UNCHANGED <<clock, deployment, store, initializing>>

tick ==
    /\ clock < MaxTime
    /\ clock' = clock + 1
    /\ UNCHANGED <<deployment, store, initializing, buckets, counters, calls, granted>>

RateLimitsNext ==
    \/ \E c \in Clients, p \in Processes, r \in Requests : getCoordinationStore(c, p, r)
    \/ \E p \in Processes : getCoordinationStoreSync(p) \/ created(p) \/ createFails(p)
    \/ \E c \in Clients : connectionFailed(c) \/ memoryRateLimit(c)
    \/ \E c \in Clients : rateLimitCounts(c) \/ rateLimitExpires(c) \/ rateLimitRefuses(c) \/ rateLimitFails(c)
    \/ tick

RateLimitsSpec == RateLimitsInit /\ [][RateLimitsNext]_rlVars

-----------------------------------------------------------------------------
\* A process grants less than twice the allowance in any time of the length of
\* a window, although a window begins when it is asked for: of so many requests
\* the last was let in a window's length after the first.
BucketsAreBounded ==
    \A p \in Processes, k \in Keys : \A i, j \in DOMAIN granted[p][k] :
        j >= i + 2 * Allowance[k] - 1 => granted[p][k][j].at >= granted[p][k][i].at + Window

\* In production only a failure has a process that shares its limits count
\* by itself, and a process that is connected does not connect again.
LimitsAreShared ==
    /\ deployment = [provider |-> "redis", production |-> TRUE] /\ failures = 0 =>
          \A p \in Processes, k \in Keys : granted[p][k] = <<>>
    /\ \A p \in Processes : initializing[p] => store[p] # "redis"

\* A refusal of Redis that tells when the counter ends names a time in a later window:
\* who waits for it is counted anew, however late EXPIRE came.
RefusalsEnd ==
    \A c \in Clients :
        calls[c].state = "refused" /\ calls[c].again # Never => calls[c].again \div Window > calls[c].window

RateLimitsHold == BucketsAreBounded /\ LimitsAreShared /\ RefusalsEnd
=============================================================================
