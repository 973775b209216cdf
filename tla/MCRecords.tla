----------------------------- MODULE MCRecords ------------------------------
(***************************************************************************)
(* The bounds, bindings and records that many requests share, side by side *)
(* in one instance: the quota of test runs, the saved tests, the accounts  *)
(* and their sessions, the rate limits, the reports and their links; a     *)
(* behaviour is one of them, the others stay as they are.                  *)
(***************************************************************************)
EXTENDS TestRuns, SavedTests, Accounts, RateLimits, Reports, TLC

CONSTANTS r1, r2, userA

VARIABLE record     \* the part that runs

OneUser == [r \in Runs |-> userA]
SuiteOfTwo == <<1, 2>>

\* A sign-in, and a request of the public API with the limits of its key and
\* of its organization.
SignInOrKey == {[keys |-> <<"login">>, fallback |-> TRUE], [keys |-> <<"key", "org">>, fallback |-> FALSE]}

Interchangeable == Permutations(Runs)

Allowances == [k \in Keys |-> IF k = "key" THEN 2 ELSE 1]

\* Ids and tokens are taken in their order: another order is the same
\* behaviour under other names.
Earlier ==
    [id \in {"a2", "s2", "t2", "c2", "c3", "q2", "q3", "n2", "l2", "h2"} |->
        CASE id = "a2" -> "a1" [] id = "s2" -> "s1" [] id = "t2" -> "t1" [] id = "c2" -> "c1" [] id = "c3" -> "c2"
          [] id = "q2" -> "q1" [] id = "q3" -> "q2" [] id = "n2" -> "n1" [] id = "l2" -> "l1" [] OTHER -> "h1"]

InOrder(taken) == \A id \in taken \cap DOMAIN Earlier : Earlier[id] \in taken

AccountsTaken ==
    {a \in Accounts : users[a].status # "absent"} \union {s \in Sessions : sessions[s].status # "unused"}
    \union {t \in Resets : resets[t].status # "unused"} \union {c \in Callers : caller[c] # NotWaiting}
ClientsTaken == {c \in Clients : calls[c] # NoRequest}
ReportsTaken ==
    {n \in Snapshots : snapshots[n].status # "absent"} \union {s \in Shares : shares[s].status # "unused"}
    \union {c \in Sharers : sharers[c] # None}

\* A report's runs, its links and its slugs are not seen together.
OfReports == {"scores", "links", "slugs"}

\* The parts that do not run have one deployment, and no old runs.
RecordsInit ==
    /\ record \in {"quota", "studio", "accounts", "limits"} \union OfReports
    /\ Init /\ SavedTestsInit /\ AccountsInit /\ RateLimitsInit /\ ReportsInit
    /\ record # "limits" => deployment = [provider |-> "memory", production |-> FALSE]
    /\ record # "scores" => \A t \in Tests : testRuns[t] = NoRun

RecordsNext ==
    /\ UNCHANGED record
    /\ IF record # "quota" THEN UNCHANGED vars ELSE TRUE
    /\ IF record # "studio" THEN UNCHANGED stVars ELSE TRUE
    /\ IF record # "accounts" THEN UNCHANGED acVariables ELSE TRUE
    /\ IF record # "limits" THEN UNCHANGED rlVars ELSE TRUE
    /\ IF record \notin OfReports THEN UNCHANGED rpVars ELSE TRUE
    /\ \/ record = "quota" /\ Next
       \/ record = "studio" /\ SavedTestsNext
       \/ record = "accounts" /\ AccountsNext /\ InOrder(AccountsTaken')
       \/ record = "limits" /\ RateLimitsNext /\ InOrder(ClientsTaken')
       \/ record \in OfReports /\ ReportsNext /\ InOrder(ReportsTaken')
    /\ record # "scores" => UNCHANGED testRuns
    /\ record # "links" => UNCHANGED <<shares, sharers>>
    /\ record # "slugs" => UNCHANGED publications

RecordsSpec == RecordsInit /\ [][RecordsNext]_<<record, vars, stVars, acVariables, rlVars, rpVars>>

\* RunsBindVersion of SavedTests, AccountsHold of Accounts, RateLimitsHold of
\* RateLimits and ReportsHold of Reports: a record says what is so, however the
\* requests that read and write it cross.
RecordsHold == RunsBindVersion /\ AccountsHold /\ RateLimitsHold /\ ReportsHold

\* PasswordsAreEarned and CredentialsStayOver of Accounts, of every step.
RecordsMove == [][PasswordsAreEarned /\ CredentialsStayOver]_acVariables
=============================================================================
