------------------------------ MODULE SessionHub ------------------------------
(***************************************************************************)
(* The hub of the web process for one session: the stream of events it     *)
(* opens to the runner in the container, the ring it keeps of them, and    *)
(* the pages it passes them on to (src/lib/interactive/runtime.ts).        *)
(*                                                                         *)
(* Requests create the entry of a session and attach its stream; opening a *)
(* stream takes a while, meanwhile the session may end, its entry be       *)
(* removed and a request make a new one.  A stream knows the entry and the *)
(* generation it was attached for; here it knows whether both still hold.  *)
(***************************************************************************)
EXTENDS Naturals, Sequences, FiniteSets, SequencesExt

CONSTANTS
    Viewers,       \* pages that may follow the session
    Streams,       \* streams that may be open or opening at once
    RuntimeEvents, \* events the browser reports
    RingSize,      \* consoleRingSize, eventRingSize
    HubBreaks,     \* how often an open stream breaks
    Authorized     \* does the runner find the token where streamEvents puts it

ASSUME HubBounds == RuntimeEvents \in Nat /\ RingSize \in Nat /\ HubBreaks \in Nat /\ Authorized \in BOOLEAN

VARIABLES
    container,     \* is the runner there: none, up, or gone
    entry,         \* has the hub an entry of the session
    attached,      \* its flag
    connection,    \* per stream: none, opening, or open
    generation,    \* the streams of the entry's present generation
    detacher,      \* the stream that remove() detaches, in a set
    ring,          \* the events the entry keeps
    listeners,     \* pages subscribed to the entry
    heard,         \* what each page got since it connected
    reported,      \* events reported so far
    losses

hubVars == <<container, entry, attached, connection, generation, detacher, ring, listeners,
             heard, reported, losses>>

SessionHubInit ==
    /\ container = "none" /\ entry = FALSE /\ attached = FALSE
    /\ connection = [s \in Streams |-> "none"] /\ generation = {} /\ detacher = {}
    /\ ring = <<>> /\ listeners = {} /\ heard = [p \in Viewers |-> <<>>]
    /\ reported = 0 /\ losses = 0

-----------------------------------------------------------------------------
(* attach: a stream of a new generation, unless the entry is attached.      *)
attach(conn, isAttached) ==
    IF isAttached
    THEN attached' = TRUE /\ connection' = conn /\ UNCHANGED generation
    ELSE \E s \in Streams :
            /\ conn[s] = "none"
            /\ attached' = TRUE /\ connection' = [conn EXCEPT ![s] = "opening"] /\ generation' = {s}

ensure ==
    /\ entry' = TRUE
    /\ ring' = IF entry THEN ring ELSE <<>>
    /\ attach(connection, entry /\ attached)

\* Frames, input and the panels ask for the entry of a session with a runtime.
Poll ==
    /\ container # "none" /\ ~(entry /\ attached)
    /\ ensure
    /\ UNCHANGED <<container, detacher, listeners, heard, reported, losses>>

\* A page connects: the ring as it is, then everything that follows.
subscribe(p) ==
    /\ container = "up" /\ p \notin listeners
    /\ ensure
    /\ listeners' = listeners \cup {p}
    /\ heard' = [heard EXCEPT ![p] = ring']
    /\ UNCHANGED <<container, detacher, reported, losses>>

unsubscribe(p) ==
    /\ p \in listeners /\ listeners' = listeners \ {p}
    /\ UNCHANGED <<container, entry, attached, connection, generation, detacher, ring, heard,
                   reported, losses>>

\* Stream ended: the entry is detached, and attached again for its listeners.
onClose(s) ==
    LET closed == [connection EXCEPT ![s] = "none"]
    IN  IF s \notin generation THEN connection' = closed /\ UNCHANGED <<attached, generation>>
        ELSE IF listeners # {} THEN attach(closed, FALSE)
        ELSE attached' = FALSE /\ connection' = closed /\ UNCHANGED generation

\* Mutated streamOpens: whose entry it was is not asked again.
opensAnyway(s) ==
    /\ connection[s] = "opening" /\ container = "up" /\ Authorized
    /\ connection' = [connection EXCEPT ![s] = "open"] /\ detacher' = {s}
    /\ UNCHANGED <<container, entry, attached, generation, ring, listeners, heard, reported, losses>>

\* The runner answers.  A stream whose time has passed is detached at once.
streamOpens(s) ==
    /\ connection[s] = "opening" /\ container = "up" /\ Authorized
    /\ IF s \in generation
       THEN connection' = [connection EXCEPT ![s] = "open"] /\ detacher' = {s}
       ELSE connection' = [connection EXCEPT ![s] = "none"] /\ UNCHANGED detacher
    /\ UNCHANGED <<container, entry, attached, generation, ring, listeners, heard, reported, losses>>

\* The runner refuses, or another one that has the port now: the stream has
\* ended before it began.
streamRefused(s) ==
    /\ connection[s] = "opening"
    /\ container = "gone" \/ (container = "up" /\ ~Authorized)
    /\ onClose(s)
    /\ UNCHANGED <<container, entry, detacher, ring, listeners, heard, reported, losses>>

\* No answer, because the runner is gone or the network failed; only the
\* flag is reset.
streamFails(s) ==
    /\ connection[s] = "opening" /\ (container = "gone" \/ losses < HubBreaks)
    /\ losses' = IF container = "gone" THEN losses ELSE losses + 1
    /\ connection' = [connection EXCEPT ![s] = "none"]
    /\ attached' = (attached /\ s \notin generation)
    /\ UNCHANGED <<container, entry, generation, detacher, ring, listeners, heard, reported>>

streamBreaks(s) ==
    /\ connection[s] = "open"
    /\ container = "gone" \/ losses < HubBreaks
    /\ losses' = IF container = "gone" THEN losses ELSE losses + 1
    /\ onClose(s)
    /\ UNCHANGED <<container, entry, detacher, ring, listeners, heard, reported>>

\* The browser reports an event.  Every open stream carries it; the entry
\* keeps the last of them, and its listeners get it.
onRuntimeEvent ==
    LET carried == [i \in 1 .. Cardinality({s \in Streams : connection[s] = "open"}) |-> reported + 1]
        kept == ring \o carried
    IN  /\ container = "up" /\ reported < RuntimeEvents
        /\ reported' = reported + 1
        /\ ring' = IF ~entry THEN ring
                   ELSE IF Len(kept) > RingSize THEN SubSeq(kept, Len(kept) - RingSize + 1, Len(kept)) ELSE kept
        /\ heard' = [p \in Viewers |-> IF p \in listeners THEN heard[p] \o carried ELSE heard[p]]
        /\ UNCHANGED <<container, entry, attached, connection, generation, detacher, listeners, losses>>

clearConsole ==
    /\ entry /\ ring # <<>> /\ ring' = <<>>
    /\ UNCHANGED <<container, entry, attached, connection, generation, detacher, listeners, heard,
                   reported, losses>>

\* The session ended in this process, its container removed if Docker would:
\* its stream is detached, its listeners are dropped, and nothing of its
\* generation counts any more.
remove ==
    /\ entry /\ container # "none"
    /\ entry' = FALSE /\ attached' = FALSE /\ generation' = {} /\ listeners' = {} /\ detacher' = {}
    /\ connection' = [s \in Streams |->
                         IF s \in detacher /\ connection[s] = "open" THEN "none" ELSE connection[s]]
    /\ UNCHANGED <<container, ring, heard, reported, losses>>

ContainerMoves ==
    /\ container' = IF container = "none" THEN "up" ELSE "gone"
    /\ container # "gone"
    /\ UNCHANGED <<entry, attached, connection, generation, detacher, ring, listeners, heard,
                   reported, losses>>

-----------------------------------------------------------------------------
SessionHubNext ==
    \/ Poll \/ onRuntimeEvent \/ clearConsole \/ remove \/ ContainerMoves
    \/ \E p \in Viewers : subscribe(p) \/ unsubscribe(p)
    \/ \E s \in Streams : streamOpens(s) \/ streamRefused(s) \/ streamFails(s) \/ streamBreaks(s)

\* Requests are answered, and a page that is shown asks for frames.
SessionHubFairness ==
    /\ WF_hubVars(Poll)
    /\ \A s \in Streams : WF_hubVars(streamOpens(s)) /\ WF_hubVars(streamRefused(s))
                           /\ WF_hubVars(container = "gone" /\ (streamFails(s) \/ streamBreaks(s)))

SessionHubSpec == SessionHubInit /\ [][SessionHubNext]_hubVars /\ SessionHubFairness

-----------------------------------------------------------------------------
Increasing(q) == \A i \in 1 .. Len(q) - 1 : q[i] < q[i + 1]

\* However a session ends, comes back and loses its stream while one is being
\* opened, the hub has one stream at most, which it can detach, and none for an
\* entry it removed; and so neither the ring nor a page has an event twice.
HubHoldsItsStreams ==
    /\ {s \in Streams : connection[s] = "open"} \subseteq IF entry THEN detacher ELSE {}
    /\ Increasing(ring) /\ \A p \in Viewers : Increasing(heard[p])

\* "lazily attaches one SSE connection per live session to the container's
\* runner", "fans frames out to the workspace SSE subscribers"
\* (src/lib/interactive/runtime.ts:14): as long as a page follows a session,
\* its stream is open again and again.
EventsAreHeard ==
    \A p \in Viewers :
        []<>(p \notin listeners \/ container # "up" \/ \E s \in generation : connection[s] = "open")
=============================================================================
