----------------------- MODULE MCInteractiveSession -------------------------
(***************************************************************************)
(* Instances of InteractiveSession for TLC, with the hub of the web        *)
(* process, the picture of a session and the pages that follow a run, a    *)
(* matrix and a sandbox: a behaviour is one of them, the others stay as    *)
(* they are.                                                               *)
(***************************************************************************)
EXTENDS InteractiveSession, SessionHub, RunView

CONSTANTS s1, userA

VARIABLE watched      \* the part that runs

watchedVars == <<watched, vars, hubVars, fVars, vVars, mvVars, tpVars>>

OneStatusPoll == [status |-> 2, events |-> 1]

OneUser == [s \in Sessions |-> userA]

PagesInit ==
    /\ watched \in {"session", "hub", "frames", "run", "matrix", "tester"}
    /\ Init /\ SessionHubInit /\ FrameInit /\ RunViewInit /\ MatrixViewInit /\ TesterInit

PagesNext ==
    /\ UNCHANGED watched
    /\ \/ watched = "session" /\ Next /\ UNCHANGED <<hubVars, fVars, vVars, mvVars, tpVars>>
       \/ watched = "hub" /\ SessionHubNext /\ UNCHANGED <<vars, fVars, vVars, mvVars, tpVars>>
       \/ watched = "frames" /\ FrameNext /\ UNCHANGED <<vars, hubVars, vVars, mvVars, tpVars>>
       \/ watched = "run" /\ RunViewNext /\ UNCHANGED <<vars, hubVars, fVars, mvVars, tpVars>>
       \/ watched = "matrix" /\ MatrixViewNext /\ UNCHANGED <<vars, hubVars, fVars, vVars, tpVars>>
       \/ watched = "tester" /\ TesterNext /\ UNCHANGED <<vars, hubVars, fVars, vVars, mvVars>>

\* A part that does not run has nothing to do that fairness asks for.
FairPages ==
    /\ PagesInit /\ [][PagesNext]_watchedVars
    /\ Fairness /\ SessionHubFairness /\ FrameFairness /\ RunViewFairness /\ MatrixViewFairness
    /\ TesterFairness

(* Each page comes to show what happened, whatever was lost or late on the  *)
(* way: the events and the picture of a session, the run, the matrix and   *)
(* the sandbox that are watched.                                           *)
PagesFollow == EventsAreHeard /\ PictureCatchesUp /\ PageFollowsRun /\ PageFollowsMatrix /\ TesterFollows

\* The streams of a session: the hub keeps one while somebody listens, and a page
\* that reconnects misses nothing of a run (HubHoldsItsStreams, EventsResume).
StreamsHold == HubHoldsItsStreams /\ EventsResume
=============================================================================
