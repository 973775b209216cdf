--------------------------- MODULE Organizations ---------------------------
(***************************************************************************)
(* One organization: its members and their roles, its plan and seats, its  *)
(* invitations and its API keys.  Every operation is one synchronous       *)
(* handler, hence one action; what can go wrong is a sequence of them.     *)
(* Invitations travel by e-mail and come back at any time, with the token  *)
(* of any of their mails; they lapse; people delete their accounts.        *)
(***************************************************************************)
EXTENDS Naturals, FiniteSets
LOCAL INSTANCE FiniteSetsExt

CONSTANTS
    People,         \* the accounts, known by their e-mail addresses
    Invitations,    \* the invitations that may be created
    Assignable,     \* the roles but for the owner's: admin, developer, viewer
    Plans,
    DefaultPlan,
    MembersOfPlan,  \* [Plans -> Nat]: maxMembers
    PlansWithApi,   \* those with apiAccess
    MaxKeys,        \* maxApiKeysPerOrg
    MaxResends      \* ten in the code

Nobody == 0

ASSUME OrganizationsAssumption ==
    /\ IsFiniteSet(People) /\ People # {} /\ Nobody \notin People
    /\ MembersOfPlan \in [Plans -> Nat \ {0}]
    /\ DefaultPlan \in Plans /\ MaxResends \in Nat
    /\ "admin" \in Assignable /\ {"owner", "none"} \cap Assignable = {}

Managers == {"owner", "admin"}

VARIABLES
    accounts,       \* the people who have an account
    role,           \* organization_members: a role, or "none"
    ownerId,        \* organizations.owner_user_id, or Nobody without the row
    plan, seats,
    invitation,     \* organization_invitations; closed: accepted_at or revoked_at is set
    apiKeys         \* the organization_api_keys not revoked, by their creators

memberVars == <<role, ownerId>>
planVars   == <<plan, seats>>
oVars      == <<accounts, memberVars, planVars, invitation, apiKeys>>

Invitation ==
    [state : {"absent", "open", "closed"}, to : People, by : People, role : Assignable,
     token : Nat, lapsed : BOOLEAN]
NoInvitation ==
    [state |-> "absent", to |-> CHOOSE p \in People : TRUE, by |-> CHOOSE p \in People : TRUE,
     role |-> "admin", token |-> 0, lapsed |-> FALSE]

\* What an invitation said that is closed is not read again.
Closed == [NoInvitation EXCEPT !.state = "closed"]

Members   == {p \in People : role[p] # "none"}
SeatsFull == Cardinality(Members) >= Min({MembersOfPlan[plan], seats})

\* A person founds the organization; the people are interchangeable.
createOrganization(u) == ownerId = u /\ role = [p \in People |-> IF p = u THEN "owner" ELSE "none"]

OrganizationInit ==
    /\ accounts = People
    /\ createOrganization(CHOOSE p \in People : TRUE)
    /\ plan = DefaultPlan /\ seats = 1
    /\ invitation = [i \in Invitations |-> NoInvitation]
    /\ apiKeys = [p \in People |-> 0]

\* The row goes, and with it what refers to it; so does the row of a person,
\* with the organizations that the person owns and what the person made.
Cascade(p) ==
    LET goes == p = ownerId IN
    /\ ownerId' = IF goes THEN Nobody ELSE ownerId
    /\ role' = [q \in People |-> IF goes \/ q = p THEN "none" ELSE role[q]]
    /\ invitation' = [i \in Invitations |-> IF goes \/ invitation[i].by = p THEN NoInvitation ELSE invitation[i]]
    /\ apiKeys' = [q \in People |-> IF goes \/ q = p THEN 0 ELSE apiKeys[q]]

deleteOrganization(u) ==
    /\ role[u] = "owner"
    /\ Cascade(ownerId)
    /\ UNCHANGED <<accounts, planVars>>

deleteAccount(p) ==
    /\ p \in accounts
    /\ accounts' = accounts \ {p}
    /\ Cascade(p)
    /\ UNCHANGED planVars

-----------------------------------------------------------------------------
Leaves(p) ==
    /\ role' = [role EXCEPT ![p] = "none"]
    /\ UNCHANGED <<accounts, ownerId, planVars, invitation, apiKeys>>

leaveOrganization(u) == role[u] \notin {"none", "owner"} /\ Leaves(u)

\* An admin manages neither admins nor the owner; nobody manages the owner.
MayManage(u, p) ==
    /\ role[u] \in Managers
    /\ role[p] \notin {"none", "owner"}
    /\ role[u] = "admin" => role[p] # "admin"

removeOrganizationMember(u, p) == MayManage(u, p) /\ Leaves(p)

changeMemberRole(u, p, r) ==
    /\ MayManage(u, p) /\ r \in Assignable
    /\ role[u] = "admin" => r # "admin"
    /\ role' = [role EXCEPT ![p] = r]
    /\ UNCHANGED <<accounts, ownerId, planVars, invitation, apiKeys>>

\* Mutated transferOwnership: the former owner is not made an admin.
transferKeepsOwner(u, p) ==
    /\ role[u] = "owner" /\ role[p] # "none" /\ p # u
    /\ role' = [role EXCEPT ![p] = "owner"]
    /\ ownerId' = p
    /\ UNCHANGED <<accounts, planVars, invitation, apiKeys>>

transferOwnership(u, p) ==
    /\ role[u] = "owner" /\ role[p] # "none" /\ p # u
    /\ role' = [role EXCEPT ![u] = "admin", ![p] = "owner"]
    /\ ownerId' = p
    /\ UNCHANGED <<accounts, planVars, invitation, apiKeys>>

-----------------------------------------------------------------------------
Invites(i, to) ==
    /\ invitation' = [invitation EXCEPT ![i] = to]
    /\ UNCHANGED <<accounts, memberVars, planVars, apiKeys>>

\* An invitation that has lapsed still stands in the way of another one.
inviteMember(u, p, r, i) ==
    /\ role[u] \in Managers /\ r \in Assignable
    /\ role[u] = "admin" => r # "admin"
    /\ role[p] = "none"
    /\ \A j \in Invitations : ~(invitation[j].state = "open" /\ invitation[j].to = p)
    /\ ~SeatsFull
    /\ invitation[i].state = "absent"
    /\ Invites(i, [state |-> "open", to |-> p, by |-> u, role |-> r, token |-> 1, lapsed |-> FALSE])

resendInvitation(u, i) ==
    /\ role[u] \in Managers /\ invitation[i].state = "open"
    /\ invitation[i].token <= MaxResends
    /\ Invites(i, [invitation[i] EXCEPT !.token = @ + 1, !.lapsed = FALSE])

revokeInvitation(u, i) ==
    /\ role[u] \in Managers /\ invitation[i].state = "open"
    /\ Invites(i, Closed)

Lapses(i) ==
    /\ invitation[i].state = "open" /\ ~invitation[i].lapsed
    /\ Invites(i, [invitation[i] EXCEPT !.lapsed = TRUE])

\* Mutated Acceptable: the seats were free when the person was invited.
AcceptableWithoutSeats(u, i, token) ==
    /\ invitation[i].state = "open" /\ token = invitation[i].token
    /\ ~invitation[i].lapsed /\ invitation[i].to = u
    /\ role[u] = "none"

\* The checks of acceptInvitation; a token is looked up by its hash, which a
\* resend has replaced.
Acceptable(u, i, token) ==
    /\ invitation[i].state = "open" /\ token = invitation[i].token
    /\ ~invitation[i].lapsed /\ invitation[i].to = u
    /\ role[u] = "none"
    /\ ~SeatsFull

acceptInvitation(u, i, token) ==
    /\ u \in accounts /\ ownerId # Nobody
    /\ Acceptable(u, i, token)
    /\ invitation' = [invitation EXCEPT ![i] = Closed]
    /\ role' = [role EXCEPT ![u] = invitation[i].role]
    /\ UNCHANGED <<accounts, ownerId, planVars, apiKeys>>

-----------------------------------------------------------------------------
\* The owner's change of plan, with the seats asked for or those there were.
setOrganizationPlan(u, p, n) ==
    /\ role[u] = "owner"
    /\ plan' = p
    /\ seats' = Max({1, Min({n, MembersOfPlan[p]})})
    /\ UNCHANGED <<accounts, memberVars, invitation, apiKeys>>

createApiKey(u) ==
    /\ plan \in PlansWithApi /\ role[u] \in Managers
    /\ MapThenSumSet(LAMBDA p : apiKeys[p], People) < MaxKeys
    /\ apiKeys' = [apiKeys EXCEPT ![u] = @ + 1]
    /\ UNCHANGED <<accounts, memberVars, planVars, invitation>>

revokeApiKeyById(u, p) ==
    /\ role[u] \in Managers /\ apiKeys[p] > 0
    /\ apiKeys' = [apiKeys EXCEPT ![p] = @ - 1]
    /\ UNCHANGED <<accounts, memberVars, planVars, invitation>>

OrganizationNext ==
    \/ \E u \in People :
          \/ deleteOrganization(u) \/ deleteAccount(u) \/ leaveOrganization(u)
          \/ createApiKey(u)
          \/ \E p \in People :
                \/ removeOrganizationMember(u, p) \/ transferOwnership(u, p) \/ revokeApiKeyById(u, p)
                \/ \E r \in Assignable :
                      \/ changeMemberRole(u, p, r)
                      \/ \E i \in Invitations : p \in accounts /\ inviteMember(u, p, r, i)
          \/ \E i \in Invitations :
                \/ resendInvitation(u, i) \/ revokeInvitation(u, i)
                \/ \E t \in 1..invitation[i].token : acceptInvitation(u, i, t)
          \/ \E p \in Plans : \E n \in {seats, MembersOfPlan[p]} : setOrganizationPlan(u, p, n)
    \/ \E i \in Invitations : Lapses(i)

OrganizationSpec == OrganizationInit /\ [][OrganizationNext]_oVars

-----------------------------------------------------------------------------
\* An organization has one owner, the one its row names, and without its row
\* nothing of it is left, through every order of transfers, changes of roles,
\* removals and deleted accounts.
OneOwner ==
    /\ {p \in People : role[p] = "owner"} = {ownerId} \ {Nobody}
    /\ ownerId = Nobody => Members = {} /\ \A p \in People : apiKeys[p] = 0

\* The number of members grows only within the seats and the plan, and with an
\* invitation that was open until then, for whoever joins, with that role: two
\* invitations that were both sent for the last seat do not both succeed.
JoinsAreInvited ==
    [][\A p \in People :
          (role[p] = "none" /\ role'[p] # "none" /\ ownerId # Nobody) =>
              /\ Cardinality({q \in People : role'[q] # "none"}) <= Min({MembersOfPlan[plan], seats})
              /\ \E i \in Invitations :
                    /\ invitation[i].state = "open" /\ invitation'[i].state = "closed"
                    /\ invitation[i].to = p /\ role'[p] = invitation[i].role]_oVars

-----------------------------------------------------------------------------
(***************************************************************************)
(* The export of an organization's data: its rows, the ORG_EXPORT jobs     *)
(* that the queue delivers (JobContract), the file in the storage, and the *)
(* sweep that expires exports.  A handler that awaits is cut there; the    *)
(* web process and the worker may crash, and the storage may fail.         *)
(***************************************************************************)

CONSTANTS
    Exports,        \* the requests that may be made
    ExportFaults    \* bound on crashes and errors of the storage

VARIABLES
    export,         \* organization_exports.status
    file,           \* the exports whose file is in the storage
    lapsed,         \* the exports past their expires_at
    requesting,     \* rows whose job is not enqueued yet
    exportJob, exportDeliveries,    \* as in JobContract
    writing,        \* executions of the handler that stand at storage.put
    done,           \* those that have returned, their job still running
    dropping,       \* the rows the sweep has listed: the export, and whether it has a file
    faultsSeen

expVars == <<export, file, lapsed, requesting, exportJob, exportDeliveries, writing, done, dropping,
             faultsSeen>>
JobQ == INSTANCE JobContract WITH Jobs <- Exports, state <- exportJob, deliveries <- exportDeliveries

ExportInit ==
    /\ export = [e \in Exports |-> "absent"]
    /\ file = {} /\ lapsed = {} /\ requesting = {} /\ writing = {} /\ done = {} /\ dropping = {}
    /\ JobQ!Init
    /\ faultsSeen = 0

Hitch        == faultsSeen < ExportFaults /\ faultsSeen' = faultsSeen + 1
Becomes(e, s) == export' = [export EXCEPT ![e] = s]
JobSame      == UNCHANGED <<exportJob, exportDeliveries>>

requestExport(e) ==
    /\ export[e] = "absent"
    /\ \A x \in Exports : export[x] \notin {"queued", "running"}
    /\ Becomes(e, "queued")
    /\ requesting' = requesting \cup {e}
    /\ UNCHANGED <<file, lapsed, writing, done, dropping, faultsSeen>> /\ JobSame

\* After the imports that requestExport awaits.
enqueueExport(e) ==
    /\ e \in requesting
    /\ requesting' = requesting \ {e}
    /\ JobQ!Submit(e)
    /\ UNCHANGED <<export, file, lapsed, writing, done, dropping, faultsSeen>>

\* The job is delivered and the handler runs to storage.put, or returns at once.
runOrganizationExport(e) ==
    /\ e \notin writing \cup done
    /\ JobQ!Deliver(e)
    /\ IF export[e] \in {"completed", "running"}
       THEN done' = done \cup {e} /\ UNCHANGED <<export, writing>>
       ELSE Becomes(e, "running") /\ writing' = writing \cup {e} /\ UNCHANGED done
    /\ UNCHANGED <<file, lapsed, requesting, dropping, faultsSeen>>

\* Mutated ExportWritten: the row is completed before the file is there.
WrittenEarly(e) ==
    /\ e \in writing
    /\ writing' = writing \ {e} /\ done' = done \cup {e}
    /\ Becomes(e, "completed")
    /\ file' \in {file, file \cup {e}} /\ UNCHANGED faultsSeen
    /\ UNCHANGED <<lapsed, requesting, dropping>> /\ JobSame

ExportWritten(e) ==
    /\ e \in writing
    /\ writing' = writing \ {e} /\ done' = done \cup {e}
    /\ \/ file' = file \cup {e} /\ Becomes(e, "completed") /\ UNCHANGED faultsSeen
       \/ Hitch /\ file' \in {file, file \cup {e}} /\ Becomes(e, "failed")
    /\ UNCHANGED <<lapsed, requesting, dropping>> /\ JobSame

ExportReturns(e) ==
    /\ e \in done
    /\ done' = done \ {e}
    /\ IF exportJob[e] = "running" THEN JobQ!Become(e, "completed") ELSE JobSame
    /\ UNCHANGED <<export, file, lapsed, requesting, writing, dropping, faultsSeen>>

\* The worker gives a job up, by its time limit or a cancellation: the handler's
\* cancel does nothing, and what stands at storage.put goes on.
GivesUp(e) ==
    /\ e \in writing /\ exportJob[e] = "running" /\ Hitch
    /\ \E s \in {"pending", "failed", "cancelled"} : JobQ!Become(e, s)
    /\ UNCHANGED <<export, file, lapsed, requesting, writing, done, dropping>>

ExportWorkerCrash ==
    /\ Hitch
    /\ writing' = {} /\ done' = {} /\ dropping' = {}
    /\ file' \in {file, file \cup writing}
    /\ UNCHANGED <<export, lapsed, requesting>> /\ JobSame

ExportWebCrash ==
    /\ Hitch
    /\ requesting' = {}
    /\ UNCHANGED <<export, file, lapsed, writing, done, dropping>> /\ JobSame

\* recoverOrphanedJobs.
ExportRecovered(e) ==
    /\ exportJob[e] = "running" /\ e \notin writing \cup done
    /\ \E s \in {"pending", "failed"} : JobQ!Become(e, s)
    /\ UNCHANGED <<export, file, lapsed, requesting, writing, done, dropping, faultsSeen>>

\* No execution lasts until its export lapses.
ExportLapses(e) ==
    /\ export[e] # "absent" /\ e \notin lapsed \cup writing \cup requesting
    /\ lapsed' = lapsed \cup {e}
    /\ UNCHANGED <<export, file, requesting, writing, done, dropping, faultsSeen>> /\ JobSame

\* expireExports, up to the deletion of the file and after it.
listExpiredExports(e) ==
    /\ export[e] \in {"completed", "failed"} /\ e \in lapsed
    /\ \A d \in dropping : d[1] # e
    /\ dropping' = dropping \cup {<<e, export[e] = "completed">>}
    /\ UNCHANGED <<export, file, lapsed, requesting, writing, done, faultsSeen>> /\ JobSame

expireExports(e) ==
    \E d \in dropping :
        /\ d[1] = e
        /\ dropping' = dropping \ {d}
        /\ Becomes(e, "expired")
        /\ \/ file' = (IF d[2] THEN file \ {e} ELSE file) /\ UNCHANGED faultsSeen
           \/ Hitch /\ UNCHANGED file
        /\ UNCHANGED <<lapsed, requesting, writing, done>> /\ JobSame

ExportStep(e) ==
    enqueueExport(e) \/ runOrganizationExport(e) \/ ExportWritten(e) \/ ExportReturns(e)
    \/ ExportRecovered(e) \/ ExportLapses(e) \/ listExpiredExports(e) \/ expireExports(e)

ExportNext ==
    \/ \E e \in Exports : requestExport(e) \/ ExportStep(e) \/ GivesUp(e)
    \/ ExportWorkerCrash \/ ExportWebCrash

\* Requests and jobs go on, time passes, and the sweep runs again and again.
ExportFairness == \A e \in Exports : WF_expVars(ExportStep(e))
ExportSpec     == ExportInit /\ [][ExportNext]_expVars /\ ExportFairness

-----------------------------------------------------------------------------
\* An export that can be downloaded (getExportDownload: completed and not past
\* its time) has its file, whatever crash, failure or sweep came between.
DownloadsAreThere == \A e \in Exports : (export[e] = "completed" /\ e \notin lapsed) => e \in file
=============================================================================
