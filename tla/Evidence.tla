------------------------------- MODULE Evidence -------------------------------
(***************************************************************************)
(* What a session or a run leaves behind: evidence that refers to what was *)
(* seen, reports that evidence is attached to, and artifacts in the store. *)
(*                                                                         *)
(* The web process answers each evidence request in one turn, except a     *)
(* test recipe, whose URLs are resolved first.  Artifacts are written by   *)
(* the worker and removed by the cleanup, blob by blob; a report that is   *)
(* pinned keeps the artifacts of its run.                                  *)
(***************************************************************************)
EXTENDS Naturals, Sequences, FiniteSets, SequencesExt

CONSTANTS
    Items,         \* evidence records of a session
    Reports,       \* reports they may be attached to
    Artifacts,     \* artifacts of one run
    MaxItems,      \* the most references a report keeps when one is added (100)
    MaxEvidence    \* maxEvidencePerSession

Absent == "absent"
NoReport == "none"

ASSUME EvidenceBounds ==
    MaxItems \in Nat \ {0} /\ MaxEvidence \in Nat /\ Reports \cap {Absent, NoReport} = {}

VARIABLES
    evidence,      \* per evidence: absent, or what it is attached to
    section,       \* interactiveEvidence of each report
    recipe,        \* the evidence a recipe that is being validated will be
    object,        \* per artifact: does its object exist
    registered,    \* the artifacts with a row
    written,       \* those persistRunArtifacts has been through
    expired,       \* those whose expires_at has passed
    pinned,        \* is the report of the run pinned
    sweeping       \* what deleteExpiredArtifacts listed and has not deleted

eVars == <<evidence, section, recipe, object, registered, written, expired, pinned, sweeping>>
evidenceVars == <<evidence, section, recipe>>
artifactVars == <<object, registered, written, expired, pinned, sweeping>>

savedEvidence == {e \in Items : evidence[e] # Absent}
attachedTo(r) == {e \in Items : evidence[e] = r}

EvidenceInit ==
    /\ evidence = [e \in Items |-> Absent] /\ section = [r \in Reports |-> <<>>]
    /\ recipe = {} /\ object = {} /\ registered = {} /\ written = {} /\ expired = {}
    /\ pinned = FALSE /\ sweeping = {}

-----------------------------------------------------------------------------
(* A screenshot must refer to an artifact of the session; it and everything *)
(* else counts against the limit.                                          *)
saveSessionEvidence(e) ==
    /\ evidence[e] = Absent /\ e \notin recipe
    /\ Cardinality(savedEvidence) < MaxEvidence
    /\ evidence' = [evidence EXCEPT ![e] = NoReport]
    /\ UNCHANGED <<section, recipe>> /\ UNCHANGED artifactVars

beginRecipe(e) ==
    /\ evidence[e] = Absent /\ recipe = {}
    /\ recipe' = {e}
    /\ UNCHANGED <<evidence, section>> /\ UNCHANGED artifactVars

(* The steps were valid, or one was not; the limit is read after the await. *)
createSessionTestRecipe(e) ==
    /\ e \in recipe /\ recipe' = {}
    /\ \/ Cardinality(savedEvidence) < MaxEvidence /\ evidence' = [evidence EXCEPT ![e] = NoReport]
       \/ evidence' = evidence
    /\ UNCHANGED section /\ UNCHANGED artifactVars

\* Mutated removeSessionEvidence: evidence of a report can be deleted.
removeAnyEvidence(e) ==
    /\ e \in savedEvidence
    /\ evidence' = [evidence EXCEPT ![e] = Absent]
    /\ UNCHANGED <<section, recipe>> /\ UNCHANGED artifactVars

removeSessionEvidence(e) ==
    /\ evidence[e] = NoReport
    /\ evidence' = [evidence EXCEPT ![e] = Absent]
    /\ UNCHANGED <<section, recipe>> /\ UNCHANGED artifactVars

(* The references of the report are cut to the limit and one is added, then *)
(* the evidence is marked, in the same turn.                               *)
attachSessionEvidenceToReport(e, r) ==
    /\ evidence[e] = NoReport
    /\ section' = [section EXCEPT ![r] =
                      Append(SubSeq(@, 1, IF Len(@) < MaxItems THEN Len(@) ELSE MaxItems), e)]
    /\ evidence' = [evidence EXCEPT ![e] = r]
    /\ UNCHANGED recipe /\ UNCHANGED artifactVars

-----------------------------------------------------------------------------
(* An object is stored, its size verified, and then it is registered; if    *)
(* that fails it is removed, and a crash in between leaves it.             *)
putArtifact(a) ==
    /\ a \notin written /\ a \notin object
    /\ \/ object' = object \cup {a} /\ written' = written
       \/ object' = object /\ written' = written \cup {a}
    /\ UNCHANGED <<registered, expired, pinned, sweeping>> /\ UNCHANGED evidenceVars

createArtifactRecord(a) ==
    /\ a \in object \ written /\ written' = written \cup {a}
    /\ \/ registered' = registered \cup {a} /\ object' = object
       \/ object' = object \ {a} /\ registered' = registered
       \/ UNCHANGED <<object, registered>>
    /\ UNCHANGED <<expired, pinned, sweeping>> /\ UNCHANGED evidenceVars

Expire(a) ==
    /\ a \in registered \ expired /\ expired' = expired \cup {a}
    /\ UNCHANGED <<object, registered, written, pinned, sweeping>> /\ UNCHANGED evidenceVars

setReportPinned ==
    /\ pinned' = ~pinned
    /\ UNCHANGED <<object, registered, written, expired, sweeping>> /\ UNCHANGED evidenceVars

listExpiredArtifacts ==
    /\ sweeping = {} /\ ~pinned
    /\ sweeping' = expired \cap registered
    /\ UNCHANGED <<object, registered, written, expired, pinned>> /\ UNCHANGED evidenceVars

(* The object goes first; if the store refuses, the row stays for the next  *)
(* sweep, and so it does after a crash between the two.                    *)
deleteArtifact(a) ==
    /\ a \in sweeping
    /\ \/ a \in object /\ object' = object \ {a} /\ UNCHANGED <<registered, sweeping>>
       \/ a \notin object /\ registered' = registered \ {a} /\ object' = object
          /\ sweeping' = sweeping \ {a}
       \/ sweeping' = sweeping \ {a} /\ UNCHANGED <<object, registered>>
    /\ UNCHANGED <<written, expired, pinned>> /\ UNCHANGED evidenceVars

(* An artifact is read by its owner while it has not expired.               *)
readOwnedArtifact(a) == a \in registered \ expired

-----------------------------------------------------------------------------
EvidenceNext ==
    \/ \E e \in Items :
          \/ saveSessionEvidence(e) \/ beginRecipe(e) \/ createSessionTestRecipe(e)
          \/ removeSessionEvidence(e)
          \/ \E r \in Reports : attachSessionEvidenceToReport(e, r)
    \/ \E a \in Artifacts :
          putArtifact(a) \/ createArtifactRecord(a) \/ Expire(a) \/ deleteArtifact(a)
    \/ setReportPinned \/ listExpiredArtifacts

EvidenceSpec == EvidenceInit /\ [][EvidenceNext]_eVars

(* Evidence that is attached to a report is part of its record, up to one   *)
(* more than the limit (beyond that the last but one is cut away), and what *)
(* a report refers to is still there.                                      *)
ReportsKeepEvidence ==
    \A r \in Reports :
        /\ Cardinality(attachedTo(r)) <= MaxItems + 1 => attachedTo(r) = ToSet(section[r])
        /\ ToSet(section[r]) \subseteq attachedTo(r)
        /\ IsInjective(section[r])

(* Whatever failed while it was written or removed, an artifact that can be *)
(* read has its object, and a session keeps within its limit.              *)
ArtifactsAreReadable ==
    /\ \A a \in Artifacts : readOwnedArtifact(a) => a \in object
    /\ Cardinality(savedEvidence) <= MaxEvidence

EvidenceIsKept == ReportsKeepEvidence /\ ArtifactsAreReadable
=============================================================================
