---------------------------- MODULE PackageStore ----------------------------
(***************************************************************************)
(* Extension packages: their rows (lib/db/repositories/packages.ts), their *)
(* blobs in the storage (lib/storage/local.ts), the uploads and deletions  *)
(* of the owner and the run requests of the web process                    *)
(* (lib/packages/service.ts, app/api/tests/create/route.ts), and the step  *)
(* "packages" of the cleanup job with its reconciliation                   *)
(* (lib/jobs/cleanup.ts).                                                  *)
(*                                                                         *)
(* All uploads have the same content: a package of the same hash is used   *)
(* again instead of stored. Each upload that stores has a key of its own.  *)
(***************************************************************************)
EXTENDS Integers, FiniteSets

CONSTANTS
    Uploads,        \* the uploads, and the packages that they may make
    Matrices,       \* the packages that a browser matrix has been run on
    MaxFailures     \* bound on crashes and failures of the storage

VARIABLES
    package,        \* the status of the row of each package
    blob,           \* the keys that are in the storage
    mature,         \* the blobs older than the grace period of ten minutes
    aged,           \* the packages created before their retention window
    unused,         \* the packages not used since then
    inUse,          \* the runs of each package: "none", "active" or "ended"
    upload,         \* each upload: its phase and the package it found
    deleting,       \* the package that the owner's deletion is removing
    cleanup,        \* the cleanup: its phase, the rows or keys it listed and
                    \* has not come to, the keys it knows, and the one it removes
    mishaps         \* the failures so far

pVars == <<package, blob, mature, aged, unused, inUse, upload, deleting, cleanup, mishaps>>
ageVars == <<mature, aged, unused>>

NoKey == 0

ASSUME UploadsAssumption == NoKey \notin Uploads

Row(k) == package[k] \notin {"none", "removed"}
AtRest == [phase |-> "rest", todo |-> {}, known |-> {}, key |-> NoKey]

PackageInit ==
    /\ package = [k \in Uploads |-> "none"] /\ blob = {} /\ mature = {} /\ aged = {} /\ unused = {}
    /\ inUse = [k \in Uploads |-> "none"]
    /\ upload = [u \in Uploads |-> [phase |-> "new", key |-> NoKey]]
    /\ deleting = NoKey /\ cleanup = AtRest /\ mishaps = 0

-----------------------------------------------------------------------------
(* storeExtensionPackage, and the run that the request then creates.       *)

Moves(u, phase, key) == upload' = [upload EXCEPT ![u] = [phase |-> phase, key |-> key]]

\* The row of the same content; the request then asks the storage for it.
findStoredPackageByHash(u) ==
    /\ upload[u].phase = "new"
    /\ \/ \E k \in Uploads : package[k] = "stored" /\ Moves(u, "exists", k)
       \/ (\A k \in Uploads : package[k] # "stored") /\ Moves(u, "put", u)
    /\ UNCHANGED <<package, blob, ageVars, inUse, deleting, cleanup, mishaps>>

\* createQueuedTestRun() in the same turn. The row may have been removed since
\* it was found: the foreign key then refuses the run.
createRun(k) ==
    \/ inUse' = [inUse EXCEPT ![k] = "active"] /\ unused' = unused \ {k}
    \/ UNCHANGED <<inUse, unused>>

ReuseAnswered(u) ==
    /\ upload[u].phase = "exists"
    /\ LET k == upload[u].key IN
       IF k \in blob
       THEN /\ Moves(u, "done", k)
            /\ IF Row(k) THEN (unused' = unused \ {k} /\ UNCHANGED inUse) \/ createRun(k)
                         ELSE UNCHANGED <<unused, inUse>>
       ELSE Moves(u, "put", u) /\ UNCHANGED <<unused, inUse>>
    /\ UNCHANGED <<package, blob, mature, aged, deleting, cleanup, mishaps>>

\* The write and its verification: a temporary file and a rename.
put(u) ==
    /\ upload[u].phase = "put"
    /\ blob' = blob \cup {u}
    /\ Moves(u, "verified", u)
    /\ UNCHANGED <<package, ageVars, inUse, deleting, cleanup, mishaps>>

createPackageRecord(u) ==
    /\ upload[u].phase = "verified"
    /\ package' = [package EXCEPT ![u] = "stored"]
    /\ Moves(u, "done", u)
    /\ createRun(u)
    /\ UNCHANGED <<blob, mature, aged, deleting, cleanup, mishaps>>

\* The write, its verification or the row fails; the blob is removed, unless
\* the process crashes or the storage refuses that too.
UploadFails(u) ==
    /\ upload[u].phase \in {"exists", "put", "verified"} /\ mishaps < MaxFailures
    /\ mishaps' = mishaps + 1
    /\ blob' \in {blob, blob \ {u}}
    /\ Moves(u, "done", NoKey)
    /\ UNCHANGED <<package, ageVars, inUse, deleting, cleanup>>

RunEnds(k) ==
    /\ inUse[k] = "active"
    /\ inUse' = [inUse EXCEPT ![k] = "ended"]
    /\ UNCHANGED <<package, blob, ageVars, upload, deleting, cleanup, mishaps>>

-----------------------------------------------------------------------------
(* finalizePackageDeletion: the blob goes first, then the row.             *)

setPackageStatus(k) == package' = [package EXCEPT ![k] = IF Row(k) THEN "deleting" ELSE @]

\* The row of a matrix refers to its package with ON DELETE SET NULL, in a
\* column that is NOT NULL: the database refuses to delete such a package.
deletable(k) == k \notin Matrices

\* deletePackageRecord(): runs keep their row and lose the reference.
deletePackageRecord(k) ==
    /\ package' = [package EXCEPT ![k] = IF Row(k) /\ deletable(k) THEN "removed" ELSE @]
    /\ inUse' = [inUse EXCEPT ![k] = IF deletable(k) THEN "none" ELSE @]

\* The owner's deletion, refused while an active run uses the package.
deleteOwnedPackage(k) ==
    /\ deleting = NoKey /\ package[k] = "stored" /\ inUse[k] # "active"
    /\ setPackageStatus(k)
    /\ deleting' = k
    /\ UNCHANGED <<blob, ageVars, inUse, upload, cleanup, mishaps>>

OwnerBlobDeleted ==
    /\ deleting \in blob
    /\ blob' = blob \ {deleting}
    /\ UNCHANGED <<package, ageVars, inUse, upload, deleting, cleanup, mishaps>>

OwnerRowDeleted ==
    /\ deleting # NoKey /\ deleting \notin blob
    /\ deletePackageRecord(deleting)
    /\ deleting' = NoKey
    /\ UNCHANGED <<blob, ageVars, upload, cleanup, mishaps>>

\* The storage refuses, or the web process crashes.
DeletionFails ==
    /\ deleting # NoKey /\ mishaps < MaxFailures
    /\ mishaps' = mishaps + 1
    /\ deleting' = NoKey
    /\ UNCHANGED <<package, blob, ageVars, inUse, upload, cleanup>>

-----------------------------------------------------------------------------
(* The step "packages" of the cleanup, one await after the other.          *)

listOrphanedPackages == {k \in aged : package[k] = "stored" /\ inUse[k] = "none"}
listExpiredPackages == {k \in unused : package[k] = "stored" /\ inUse[k] # "active"}
listPackagesMarkedDeleting == {k \in Uploads : package[k] = "deleting"}
listAllPackageKeys == {k \in Uploads : Row(k)}

Listed(phase) ==
    CASE phase = "orphaned" -> listOrphanedPackages
      [] phase = "expired"  -> listExpiredPackages
      [] phase = "exists"   -> {k \in Uploads : package[k] = "stored"}
      [] phase = "blobs"    -> blob \ cleanup.known
      [] phase = "pending"  -> listPackagesMarkedDeleting
      [] phase = "rest"     -> {}

\* Mutated Following: the deletions come before the blobs.
FollowingDeletions(phase) ==
    CASE phase = "rest"     -> "orphaned" [] phase = "orphaned" -> "expired"
      [] phase = "expired"  -> "exists"   [] phase = "exists"   -> "pending"
      [] phase = "pending"  -> "blobs"    [] phase = "blobs"    -> "rest"
Following(phase) ==
    CASE phase = "rest"     -> "orphaned" [] phase = "orphaned" -> "expired"
      [] phase = "expired"  -> "exists"   [] phase = "exists"   -> "blobs"
      [] phase = "blobs"    -> "pending"  [] phase = "pending"  -> "rest"

\* Each list is read when the one before it is done; the keys are read once.
\* While nothing was uploaded every list is empty: such a cleanup is left out.
CleanupLists ==
    /\ cleanup.todo = {} /\ cleanup.key = NoKey
    /\ \E u \in Uploads : upload[u].phase # "new"
    /\ LET next == Following(cleanup.phase) IN
       cleanup' = [phase |-> next, todo |-> Listed(next), key |-> NoKey,
                   known |-> IF next = "rest" THEN {} ELSE IF next = "exists" THEN listAllPackageKeys ELSE cleanup.known]
    /\ UNCHANGED <<package, blob, ageVars, inUse, upload, deleting, mishaps>>

Takes(k) == cleanup' = [cleanup EXCEPT !.todo = @ \ {k}, !.key = k]
Passes(k) == cleanup' = [cleanup EXCEPT !.todo = @ \ {k}]

\* A listed package is marked without another look, then finalized.
CleanupMarks(k) ==
    /\ cleanup.phase \in {"orphaned", "expired"} /\ cleanup.key = NoKey /\ k \in cleanup.todo
    /\ setPackageStatus(k)
    /\ Takes(k)
    /\ UNCHANGED <<blob, ageVars, inUse, upload, deleting, mishaps>>

CleanupResumes(k) ==
    /\ cleanup.phase = "pending" /\ cleanup.key = NoKey /\ k \in cleanup.todo
    /\ Takes(k)
    /\ UNCHANGED <<package, blob, ageVars, inUse, upload, deleting, mishaps>>

CleanupBlobDeleted ==
    /\ cleanup.key \in blob
    /\ blob' = blob \ {cleanup.key}
    /\ UNCHANGED <<package, ageVars, inUse, upload, deleting, cleanup, mishaps>>

\* A row that cannot be deleted throws out of the whole step.
CleanupRowDeleted ==
    /\ cleanup.key # NoKey /\ cleanup.key \notin blob
    /\ deletePackageRecord(cleanup.key)
    /\ cleanup' = IF deletable(cleanup.key) \/ ~ Row(cleanup.key) THEN [cleanup EXCEPT !.key = NoKey] ELSE AtRest
    /\ UNCHANGED <<blob, ageVars, upload, deleting, mishaps>>

\* reconcilePackages(): a row listed as stored whose blob is missing.
ReconcileRow(k) ==
    /\ cleanup.phase = "exists" /\ k \in cleanup.todo
    /\ package' = [package EXCEPT ![k] = IF k \notin blob /\ Row(k) THEN "deleted" ELSE @]
    /\ Passes(k)
    /\ UNCHANGED <<blob, ageVars, inUse, upload, deleting, mishaps>>

\* reconcilePackages(): a blob without a row, unless it is young.
\* Mutated mayBeUpload: blobs have no grace period.
mayBeNothing(k) == FALSE
mayBeUpload(k) == k \notin mature
ReconcileBlob(k) ==
    /\ cleanup.phase = "blobs" /\ k \in cleanup.todo
    /\ blob' = IF mayBeUpload(k) THEN blob ELSE blob \ {k}
    /\ Passes(k)
    /\ UNCHANGED <<package, ageVars, inUse, upload, deleting, mishaps>>

\* The storage refuses a deletion, which is logged; or the worker crashes.
CleanupFails ==
    /\ cleanup.phase # "rest" /\ mishaps < MaxFailures
    /\ mishaps' = mishaps + 1
    /\ cleanup' \in {AtRest, [cleanup EXCEPT !.key = NoKey]}
    /\ UNCHANGED <<package, blob, ageVars, inUse, upload, deleting>>

-----------------------------------------------------------------------------
(* Time: an upload and a reconciliation take less than the grace period.   *)

Matures(k) ==
    /\ k \in blob \ mature /\ upload[k].phase = "done"
    /\ cleanup.phase \notin {"exists", "blobs", "pending"}
    /\ mature' = mature \cup {k}
    /\ UNCHANGED <<package, blob, aged, unused, inUse, upload, deleting, cleanup, mishaps>>

Ages(k) ==
    /\ package[k] = "stored" /\ k \in mature
    /\ \/ k \notin aged /\ aged' = aged \cup {k} /\ unused' = unused \cup {k}
       \/ k \in aged \ unused /\ unused' = unused \cup {k} /\ UNCHANGED aged
    /\ UNCHANGED <<package, blob, mature, inUse, upload, deleting, cleanup, mishaps>>

CleanupStep ==
    \/ CleanupLists \/ CleanupBlobDeleted \/ CleanupRowDeleted
    \/ \E k \in Uploads : CleanupMarks(k) \/ CleanupResumes(k) \/ ReconcileRow(k) \/ ReconcileBlob(k)

PackageNext ==
    \/ \E u \in Uploads :
         \/ findStoredPackageByHash(u) \/ ReuseAnswered(u) \/ put(u) \/ createPackageRecord(u) \/ UploadFails(u)
         \/ RunEnds(u) \/ deleteOwnedPackage(u) \/ Matures(u) \/ Ages(u)
    \/ OwnerBlobDeleted \/ OwnerRowDeleted \/ DeletionFails
    \/ CleanupStep \/ CleanupFails

\* A request that has begun goes on; the cleanup is a job of the schedule and
\* comes again; blobs get old.
PackageFairness ==
    /\ \A u \in Uploads : WF_pVars(ReuseAnswered(u) \/ put(u) \/ createPackageRecord(u))
    /\ WF_pVars(OwnerBlobDeleted \/ OwnerRowDeleted)
    /\ WF_pVars(CleanupStep)
    /\ \A k \in Uploads : SF_pVars(Matures(k))

PackageSpec == PackageInit /\ [][PackageNext]_pVars /\ PackageFairness

-----------------------------------------------------------------------------
\* A package that is listed as stored has its blob, whatever uploads,
\* deletions, cleanups and reconciliations do at once, and wherever they fail.
StoredHasBlob == \A k \in Uploads : package[k] = "stored" => k \in blob

\* A blob that no row and no upload will ever refer to does not stay: what an
\* upload or a deletion left behind is found by the reconciliation.
OrphansGo ==
    \A k \in Uploads :
        (k \in blob /\ ~ Row(k) /\ upload[k].phase = "done") ~> (k \notin blob)

\* A package that is being deleted is deleted in the end.
DeletionsFinish == \A k \in Uploads : (package[k] = "deleting") ~> (package[k] \in {"removed", "deleted"})
=============================================================================
