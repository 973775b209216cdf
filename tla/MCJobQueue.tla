---------------------------- MODULE MCJobQueue ------------------------------
(***************************************************************************)
(* Instances of JobQueue for TLC.                                          *)
(***************************************************************************)
EXTENDS JobQueue, TLC

CONSTANTS j1, j2, j3, w1, w2, userA, userB, orgA, orgB

NoneOf       == [j \in Jobs |-> None]
SamePriority == [j \in Jobs |-> 0]
Interactive  == [j \in Jobs |-> "INTERACTIVE_BROWSER_START"]
Tests        == [j \in Jobs |-> "AUTOMATED_TEST"]
TwoUsers     == [j \in Jobs |-> IF j = j3 THEN userB ELSE userA]
TwoOrgs      == [j \in Jobs |-> IF j = j3 THEN orgB ELSE orgA]
=============================================================================
