----------------------------- MODULE MCPlatform -----------------------------
(***************************************************************************)
(* The sandbox of a run, the packages, an organization, its exports and    *)
(* the page of a session, side by side in one instance: a behaviour is one *)
(* of them, the others stay as they are.                                   *)
(***************************************************************************)
EXTENDS SandboxRun, PackageStore, Organizations, WorkspaceView

VARIABLE component      \* the part that runs

platformVars == <<component, xVars, pVars, oVars, expVars, wVars>>

\* The second test needs the first.
SecondNeedsFirst == {<<2, 1>>}
OneOrTwoMembers == [p \in Plans |-> IF p = DefaultPlan THEN 1 ELSE 2]

PlatformInit ==
    /\ component \in {"sandbox", "packages", "organization", "export", "workspace"}
    /\ SandboxInit /\ (component # "sandbox" => ~stopOnFailure) /\ PackageInit
    /\ OrganizationInit /\ ExportInit /\ WorkspaceInit

PlatformNext ==
    /\ UNCHANGED component
    /\ \/ component = "sandbox" /\ SandboxNext /\ UNCHANGED <<pVars, oVars, expVars, wVars>>
       \/ component = "packages" /\ PackageNext /\ UNCHANGED <<xVars, oVars, expVars, wVars>>
       \/ component = "organization" /\ OrganizationNext /\ UNCHANGED <<xVars, pVars, expVars, wVars>>
       \/ component = "export" /\ ExportNext /\ UNCHANGED <<xVars, pVars, oVars, wVars>>
       \/ component = "workspace" /\ WorkspaceNext /\ UNCHANGED <<xVars, pVars, oVars, expVars>>

PlatformSpec == PlatformInit /\ [][PlatformNext]_platformVars

\* A part that does not run has nothing to do that fairness asks for.
FairPlatform ==
    /\ PlatformSpec
    /\ SandboxFairness /\ PackageFairness /\ WorkspaceFairness

\* What the database says is so: the packages and the exports that are offered
\* can be read, and the organization has the owner its row names (StoredHasBlob,
\* DownloadsAreThere, OneOwner).
RecordsAreTrue == StoredHasBlob /\ DownloadsAreThere /\ OneOwner

\* Sandboxes end without their containers, objects without a row go, and the
\* page of a session comes to show what the session is, whatever failed or was
\* lost (SandboxSettles, OrphansGo, WorkspaceSettles).
PlatformSettles == SandboxSettles /\ OrphansGo /\ WorkspaceSettles
=============================================================================
