--------------------------- MODULE WorkspaceView ---------------------------
(***************************************************************************)
(* What the page of an interactive session shows of it                     *)
(* (components/interactive/BrowserWorkspace.tsx) against its row.  Three   *)
(* sources write the same view: the stream of the session                  *)
(* (app/api/browser-sessions/[id]/events/stream), the answers to the       *)
(* commands of lib/interactive/service.ts, and the keepalive every thirty  *)
(* seconds.  Answers arrive in any order; the stream connects again when   *)
(* it breaks, and is closed while the view is over.                        *)
(***************************************************************************)
EXTENDS Naturals, Sequences

CONSTANTS
    Commands,       \* the commands the user sends, numbers from 1
    MaxLost         \* bound on broken streams and lost answers

ASSUME WorkspaceAssumption == Commands \subseteq Nat \ {0} /\ MaxLost \in Nat

VARIABLES
    sessionRow,     \* status and popup_open of the row
    view,           \* state.session of the page
    stream,         \* the EventSource, and lastStatus of its route
    inTransit,      \* the state events on their way
    calls,          \* the requests of the page; 0 is the keepalive
    lost

wVars == <<sessionRow, view, stream, inTransit, calls, lost>>

NoView   == [status |-> "none", popup |-> FALSE]
Over(v)  == v.status = "STOPPED"        \* or EXPIRED, or FAILED
IsLive(v) == v.status \in {"ACTIVE", "IDLE"}    \* READY is ACTIVE here
Calls    == {0} \cup Commands
NoCall   == [op |-> "none", at |-> "none", body |-> <<>>]
After(c) == IF c = 0 THEN NoCall ELSE [NoCall EXCEPT !.at = "over"]
Off      == [phase |-> "closed", last |-> "none"]
Connecting == [phase |-> "connecting", last |-> "none"]

WorkspaceInit ==
    /\ \E p \in BOOLEAN : sessionRow = [status |-> "ACTIVE", popup |-> p]
    /\ view = NoView
    /\ stream = Off /\ inTransit = <<>>
    /\ calls = [c \in Calls |-> NoCall]
    /\ lost = 0

-----------------------------------------------------------------------------
\* The page is loaded with the row, and its effects run.
BrowserWorkspace ==
    /\ view = NoView
    /\ view' = sessionRow
    /\ stream' = IF Over(sessionRow) THEN Off ELSE Connecting
    /\ UNCHANGED <<sessionRow, inTransit, calls, lost>>

\* Mutated syncSession: the effect does not depend on isTerminal.
syncOnly(v) ==
    /\ view' = v
    /\ stream' = IF Over(v) THEN Off ELSE stream

\* syncSession, and the effect that depends on isTerminal: it closes the stream
\* of a view that is over, and opens one when a late answer brings it back.
syncSession(v) ==
    /\ view' = v
    /\ IF Over(v) /\ ~Over(view) THEN stream' = Off
       ELSE IF Over(view) /\ ~Over(v) THEN stream' = Connecting
       ELSE UNCHANGED stream

\* The route answers with a snapshot of the row and then polls its status.
connect ==
    /\ stream.phase = "connecting"
    /\ stream' = [phase |-> IF Over(sessionRow) THEN "ended" ELSE "open", last |-> sessionRow.status]
    /\ inTransit' = <<sessionRow>>
    /\ UNCHANGED <<sessionRow, view, calls, lost>>

statePoll ==
    /\ stream.phase = "open" /\ sessionRow.status # stream.last
    /\ stream' = [phase |-> IF Over(sessionRow) THEN "ended" ELSE "open", last |-> sessionRow.status]
    /\ inTransit' = Append(inTransit, sessionRow)
    /\ UNCHANGED <<sessionRow, view, calls, lost>>

onState ==
    /\ inTransit # <<>>
    /\ syncSession(Head(inTransit))
    /\ inTransit' = IF Over(Head(inTransit)) THEN <<>> ELSE Tail(inTransit)
    /\ UNCHANGED <<sessionRow, calls, lost>>

\* The stream ends, or breaks, before the page closed it: it connects again.
StreamEnds ==
    /\ \/ stream.phase = "ended" /\ inTransit = <<>> /\ UNCHANGED lost
       \/ stream.phase \in {"open", "ended"} /\ lost < MaxLost /\ lost' = lost + 1
    /\ stream' = Connecting /\ inTransit' = <<>>
    /\ UNCHANGED <<sessionRow, view, calls>>

-----------------------------------------------------------------------------
\* The sweep makes the session idle, or ends it.
SessionMoves ==
    /\ \/ sessionRow.status = "ACTIVE" /\ sessionRow' = [sessionRow EXCEPT !.status = "IDLE"]
       \/ ~Over(sessionRow) /\ sessionRow' = [sessionRow EXCEPT !.status = "STOPPED"]
    /\ UNCHANGED <<view, stream, inTransit, calls, lost>>

Send(c, op) ==
    /\ calls[c] = NoCall
    /\ calls' = [calls EXCEPT ![c] = [NoCall EXCEPT !.op = op, !.at = "sent"]]
    /\ UNCHANGED <<sessionRow, view, stream, inTransit, lost>>

\* The buttons; each command is sent once.
Command(c) ==
    \/ IsLive(view) /\ ~view.popup /\ Send(c, "openPopup")
    \/ IsLive(view) /\ view.popup /\ Send(c, "closePopup")
    \/ IsLive(view) /\ Send(c, "restartBrowser")
    \/ IsLive(view) /\ Send(c, "stopSession")

keepalive == IsLive(view) /\ Send(0, "keepalive")

Answer(c, body) == calls' = [calls EXCEPT ![c].at = "answered", ![c].body = body]
Awaits(c)       == calls' = [calls EXCEPT ![c].at = "awaiting"]
\* An error has no session in it; the page shows a notice.
Fail(c)         == calls' = [calls EXCEPT ![c] = After(c)]

\* The request reaches its route; a command awaits the container, a stop the
\* removal of the container.
Arrives(c) ==
    /\ calls[c].at = "sent"
    /\ CASE calls[c].op = "keepalive" ->
              (IF Over(sessionRow) THEN Fail(c) ELSE Answer(c, sessionRow)) /\ UNCHANGED sessionRow
         [] calls[c].op = "stopSession" ->
              /\ sessionRow' = [sessionRow EXCEPT !.status = "STOPPED"]
              /\ IF Over(sessionRow) THEN Answer(c, sessionRow) ELSE Awaits(c)
         [] OTHER ->
              (IF IsLive(sessionRow) THEN Awaits(c) ELSE Fail(c)) /\ UNCHANGED sessionRow
    /\ UNCHANGED <<view, stream, inTransit, lost>>

\* What the transition of a command writes; a restart closes the popup.
Moved(op) == [status |-> "ACTIVE", popup |-> op = "openPopup"]

\* Moved, unless the session ended meanwhile.  A restart that fails ends it.
CommandReturns(c) ==
    /\ calls[c].at = "awaiting"
    /\ \/ /\ sessionRow' = IF IsLive(sessionRow) /\ calls[c].op # "stopSession" THEN Moved(calls[c].op) ELSE sessionRow
          /\ Answer(c, sessionRow')
       \/ /\ calls[c].op \in {"openPopup", "restartBrowser"}
          /\ sessionRow' = IF calls[c].op = "restartBrowser" THEN [sessionRow EXCEPT !.status = "STOPPED"] ELSE sessionRow
          /\ Fail(c)
    /\ UNCHANGED <<view, stream, inTransit, lost>>

\* Mutated Received: a keepalive only keeps the session alive.
ReceivedOfCommands(c) ==
    /\ calls[c].at = "answered"
    /\ IF c = 0 THEN UNCHANGED <<view, stream, inTransit>>
       ELSE syncSession(calls[c].body) /\ inTransit' = IF stream' = stream THEN inTransit ELSE <<>>
    /\ calls' = [calls EXCEPT ![c] = After(c)]
    /\ UNCHANGED <<sessionRow, lost>>

\* The answer arrives, whatever came before it.
Received(c) ==
    /\ calls[c].at = "answered"
    /\ syncSession(calls[c].body)
    /\ inTransit' = IF stream' = stream THEN inTransit ELSE <<>>
    /\ calls' = [calls EXCEPT ![c] = After(c)]
    /\ UNCHANGED <<sessionRow, lost>>

AnswerLost(c) ==
    /\ calls[c].at \in {"sent", "awaiting", "answered"} /\ lost < MaxLost
    /\ lost' = lost + 1 /\ Fail(c)
    /\ UNCHANGED <<sessionRow, view, stream, inTransit>>

WorkspaceNext ==
    \/ BrowserWorkspace \/ connect \/ statePoll \/ onState \/ StreamEnds \/ SessionMoves \/ keepalive
    \/ \E c \in Commands : Command(c)
    \/ \E c \in Calls : Arrives(c) \/ CommandReturns(c) \/ Received(c) \/ AnswerLost(c)

\* The page is visible, EventSource connects again by itself or after three
\* seconds, the intervals fire, and requests are answered.
WorkspaceFairness ==
    /\ WF_wVars(connect) /\ WF_wVars(statePoll) /\ WF_wVars(onState) /\ WF_wVars(StreamEnds)
    /\ WF_wVars(keepalive)
    /\ \A c \in Calls : WF_wVars(Arrives(c)) /\ WF_wVars(CommandReturns(c)) /\ WF_wVars(Received(c))

WorkspaceSpec == WorkspaceInit /\ [][WorkspaceNext]_wVars /\ WorkspaceFairness

-----------------------------------------------------------------------------
\* The page ends up showing what the row says, whatever order the answers, the
\* keepalives and the stream came in: a popup that was closed, a session that
\* ended, and one that a late answer showed alive again.
WorkspaceSettles == <>[](view = sessionRow \/ view = NoView)
=============================================================================
