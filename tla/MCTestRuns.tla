---------------------------- MODULE MCTestRuns ------------------------------
(***************************************************************************)
(* An instance of TestRuns for TLC, and the tests inside a run, which      *)
(* TestRuns takes as they come: a behaviour is one of the two, the other   *)
(* stays as it is.                                                         *)
(***************************************************************************)
EXTENDS TestRuns, TestExecution

CONSTANTS r1, userA

VARIABLE part       \* the part that runs

OneUser == [r \in Runs |-> userA]

RunsInit ==
    /\ part \in {"run", "tests"}
    /\ Init /\ ExecutionInit
    /\ part = "run" => browserId = "firefox" /\ manifest = "nothing" /\ ~ listening

RunsNext ==
    /\ UNCHANGED part
    /\ \/ part = "run" /\ Next /\ UNCHANGED teVars
       \/ part = "tests" /\ ExecutionNext /\ UNCHANGED vars

FairRuns == RunsInit /\ [][RunsNext]_<<part, vars, teVars>> /\ Fairness
=============================================================================
