----------------------- MODULE InteractiveSessionProofs -----------------------
(***************************************************************************)
(* Interactive sessions, for every set of sessions and users, every limit  *)
(* and any number of crashes, dead browsers and rows read and acted on     *)
(* later; and the streams that tell their pages, and those of test runs,   *)
(* what happens.                                                           *)
(***************************************************************************)
EXTENDS MCInteractiveSession, SequenceTheorems, FiniteSetTheorems, TLAPS

RowTypeOK ==
    /\ status \in [Sessions -> Statuses] /\ bound \in [Sessions -> Nat]
    /\ jobKnown \in [Sessions -> BOOLEAN]
QuotaTypeOK == resv \in [Sessions -> {"none", "open", "consumed", "released"}]
WebTypeOK ==
    /\ web \in [Sessions -> {"none", "queued", "enqueued"}]
    /\ shot \in [Sessions -> {"none"} \cup Live]
JobTypeOK ==
    /\ job \in [Sessions -> Queue!States] /\ deliveries \in [Sessions -> Nat]
    /\ cancel \in [Sessions -> BOOLEAN]
WorkTypeOK ==
    /\ phase \in [Sessions -> Phases]
    /\ boxes \subseteq Box /\ dead \subseteq Box
EndTypeOK == looks \subseteq Look /\ ending \subseteq End /\ faults \in Nat /\ shots \in Nat

TypeInv == RowTypeOK /\ QuotaTypeOK /\ WebTypeOK /\ JobTypeOK /\ WorkTypeOK /\ EndTypeOK

LEMMA TypeInvIsTypeOK == TypeInv <=> TypeOK
BY DEF TypeInv, TypeOK, RowTypeOK, QuotaTypeOK, WebTypeOK, JobTypeOK, WorkTypeOK, EndTypeOK

-----------------------------------------------------------------------------
(***************************************************************************)
(* The statements.                                                         *)
(***************************************************************************)
LEMMA RowStatements ==
    ASSUME TypeInv, NEW s \in Sessions, NEW from \in SUBSET Statuses, NEW to \in Statuses
    PROVE  /\ transitionSession(s, from, to) => status' \in [Sessions -> Statuses]
           /\ \A by \in {"web", "sweep", "handler"}, box \in Nat :
                 destroySession(s, from, to, by, box)
                    => status' \in [Sessions -> Statuses] /\ ending' \subseteq End
<1>1. transitionSession(s, from, to) => status' \in [Sessions -> Statuses]
  BY DEF transitionSession, TypeInv, RowTypeOK
<1>2. ASSUME NEW by \in {"web", "sweep", "handler"}, NEW box \in Nat, destroySession(s, from, to, by, box)
      PROVE  ending' \subseteq End
  <2>1. [s |-> s, by |-> by, box |-> box] \in End
    BY DEF End
  <2>2. QED
    BY <1>2, <2>1 DEF destroySession, TypeInv, EndTypeOK
<1>3. QED
  BY <1>1, <1>2 DEF destroySession

LEMMA JobStatements ==
    ASSUME JobTypeOK, NEW s \in Sessions, NEW j \in Queue!States, Queue!Become(s, j)
    PROVE  job' \in [Sessions -> Queue!States] /\ deliveries' \in [Sessions -> Nat]
BY DEF JobTypeOK, Queue!Become

-----------------------------------------------------------------------------
(***************************************************************************)
(* Types.                                                                  *)
(***************************************************************************)
LEMMA WebTypes ==
    ASSUME TypeInv, NEW s \in Sessions, Web(s)
    PROVE  TypeInv'
<1> USE DEF TypeInv, RowTypeOK, QuotaTypeOK, WebTypeOK, JobTypeOK, WorkTypeOK, EndTypeOK,
            rowVars, jobVars, boxVars, endVars, envVars
<1>s. Live \subseteq Statuses /\ Terminal \subseteq Statuses /\ Commandable \subseteq Live
      /\ {"pending", "running", "cancelled"} \subseteq Queue!States
  BY DEF Statuses, Live, Admitted, Slot, Commandable, Queue!States, Queue!Ended
<1>1. CASE createInteractiveSession(s)
  BY <1>1 DEF createInteractiveSession, Statuses, Live
<1>2. CASE Start(s)
  <2>1. status' \in [Sessions -> Statuses]
    BY <1>2 DEF Start, startInteractiveSession, transitionSession, Statuses, Live, Admitted
  <2>2. job' \in [Sessions -> Queue!States] /\ deliveries' \in [Sessions -> Nat]
    BY <1>2, <1>s, JobStatements DEF Start, startInteractiveSession, Queue!Submit
  <2>3. jobKnown' \in [Sessions -> BOOLEAN] /\ web' \in [Sessions -> {"none", "queued", "enqueued"}]
    BY <1>2 DEF Start, startInteractiveSession
  <2>4. QED
    BY <1>2, <2>1, <2>2, <2>3 DEF Start
<1>3. CASE stopReads(s)
  <2>1. looks' \subseteq Look
    BY <1>3 DEF stopReads, Read, Look
  <2>2. job' \in [Sessions -> Queue!States] /\ deliveries' \in [Sessions -> Nat]
    BY <1>3, <1>s, JobStatements DEF stopReads
  <2>3. cancel' \in [Sessions -> BOOLEAN]
    BY <1>3 DEF stopReads
  <2>4. QED
    BY <1>3, <2>1, <2>2, <2>3 DEF stopReads
<1>4. CASE CommandDone(s)
  BY <1>4, <1>s DEF CommandDone, transitionSession, Commandable
<1>5. CASE CommandFails(s)
  BY <1>5, <1>s, RowStatements DEF CommandFails, Terminal
<1>6. CASE Screenshot(s)
  BY <1>6, <1>s DEF Screenshot, captureScreenshotArtifact, transitionSession
<1>7. QED
  BY <1>1, <1>2, <1>3, <1>4, <1>5, <1>6 DEF Web

LEMMA HandleTypes ==
    ASSUME TypeInv, NEW s \in Sessions, Claim(s) \/ Handle(s)
    PROVE  TypeInv'
<1> USE DEF TypeInv, RowTypeOK, QuotaTypeOK, WebTypeOK, JobTypeOK, WorkTypeOK, EndTypeOK,
            rowVars, jobVars, boxVars, endVars, envVars, MoveTo
<1>s. /\ Live \subseteq Statuses /\ Before \subseteq Statuses /\ {"STOPPED", "FAILED"} \subseteq Statuses
      /\ {"QUEUED", "STARTING", "READY"} \subseteq Statuses
  BY DEF Statuses, Live, Admitted, Slot, Commandable, Before, Terminal
<1>b. Own(s) \in Box
  BY DEF Own, Box
<1>d. \A from \in SUBSET Statuses, to \in {"STOPPED", "FAILED"} :
         destroySession(s, from, to, "handler", bound[s])
            => status' \in [Sessions -> Statuses] /\ ending' \subseteq End
  BY <1>s, RowStatements
<1>1. CASE Claim(s)
  BY <1>1 DEF Claim, Queue!Deliver, Queue!States, Phases
<1>2. CASE Enter(s)
  BY <1>2, <1>s, <1>d DEF Enter, Phases
<1>3. CASE Reset(s)
  BY <1>3, <1>s DEF Reset, Fault, transitionSession, Phases
<1>4. CASE claimStartSlot(s)
  BY <1>4, <1>s DEF claimStartSlot, Fault, transitionSession, Phases
<1>5. CASE Check(s)
  BY <1>5, <1>s, <1>d DEF Check, Fault, Phases
<1>6. CASE Create(s)
  BY <1>6, <1>b DEF Create, Fault, Phases
<1>7. CASE Persist(s)
  BY <1>7 DEF Persist, Phases
<1>8. CASE Boot(s)
  BY <1>8, <1>s, <1>d DEF Boot, Fault, Phases
<1>9. CASE Charge(s)
  BY <1>9 DEF Charge, Phases
<1>10. CASE Announce(s)
  BY <1>10, <1>s DEF Announce, transitionSession, Phases
<1>11. CASE Catch(s)
  <2>1. boxes' \subseteq Box /\ dead' \subseteq Box /\ faults' \in Nat
    BY <1>11 DEF Catch, Fault
  <2>2. status' \in [Sessions -> Statuses] /\ ending' \subseteq End
    BY <1>11, <1>s, <1>d DEF Catch
  <2>3. QED
    BY <1>11, <2>1, <2>2 DEF Catch, Phases
<1>12. QED
  BY <1>1, <1>2, <1>3, <1>4, <1>5, <1>6, <1>7, <1>8, <1>9, <1>10, <1>11 DEF Handle

LEMMA RunTypes ==
    ASSUME TypeInv, NEW s \in Sessions, Run(s) \/ Sweep(s)
    PROVE  TypeInv'
<1> USE DEF TypeInv, RowTypeOK, QuotaTypeOK, WebTypeOK, JobTypeOK, WorkTypeOK, EndTypeOK,
            rowVars, jobVars, boxVars, endVars, envVars, MoveTo
<1>j. {"pending", "completed", "failed", "cancelled"} \subseteq Queue!States
  BY DEF Queue!States, Queue!Ended
<1>s. Before \subseteq Statuses /\ {"STOPPED", "EXPIRED", "IDLE"} \subseteq Statuses
  BY DEF Statuses, Live, Admitted, Slot, Commandable, Before, Terminal
<1>r. ASSUME NEW by \in {"lifetime", "orphan"}, NEW tests \in SUBSET {"job", "browser", "age"},
             Read(s, by, tests)
      PROVE  looks' \subseteq Look
  <2>1. [s |-> s, by |-> by, box |-> bound[s], tests |-> tests] \in Look
    BY DEF Look
  <2>2. QED
    BY <1>r, <2>1 DEF Read
<1>1. CASE HandleEnds(s)
  BY <1>1, <1>j, JobStatements DEF HandleEnds, Ends, Phases
<1>2. CASE finishCancelled(s)
  BY <1>2, <1>s, RowStatements DEF finishCancelled, Phases
<1>3. CASE markCancelled(s)
  BY <1>3, <1>j, JobStatements DEF markCancelled, Ends, Phases
<1>4. CASE Recover(s)
  BY <1>4, <1>j, JobStatements DEF Recover
<1>5. CASE MarkIdle(s)
  BY <1>5, <1>s DEF MarkIdle, transitionSession
<1>6. CASE ExpireIdle(s)
  BY <1>6, <1>s, RowStatements DEF ExpireIdle
<1>7. CASE releaseDanglingReservations(s)
  BY <1>7 DEF releaseDanglingReservations
<1>8. CASE sweepReads(s)
  BY <1>8, <1>r DEF sweepReads
<1>9. CASE orphanReads(s)
  <2>1. orphanTests(s) \subseteq {"job", "browser", "age"}
    BY DEF orphanTests
  <2>2. QED
    BY <1>9, <1>r, <2>1 DEF orphanReads
<1>10. QED
  BY <1>1, <1>2, <1>3, <1>4, <1>5, <1>6, <1>7, <1>8, <1>9 DEF Run, Sweep

LEMMA OtherTypes ==
    ASSUME TypeInv,
           \/ \E l \in looks : stopInteractiveSession(l) \/ ExpireLifetime(l) \/ FailOrphan(l)
           \/ \E e \in ending : destroySessionDone(e)
           \/ \E c \in boxes : reconcileOrphanContainers(c) \/ BrowserDies(c)
           \/ WorkerCrash \/ WebCrash
    PROVE  TypeInv'
<1> USE DEF TypeInv, RowTypeOK, QuotaTypeOK, WebTypeOK, JobTypeOK, WorkTypeOK, EndTypeOK,
            rowVars, jobVars, boxVars, endVars, envVars
<1>1. ASSUME NEW l \in looks, stopInteractiveSession(l) \/ ExpireLifetime(l) \/ FailOrphan(l)
      PROVE  TypeInv'
  <2>1. l.s \in Sessions /\ l.box \in Nat
    BY DEF Look
  <2>2. /\ Live \subseteq Statuses /\ Admitted \subseteq Statuses
        /\ {"STOPPED", "EXPIRED", "FAILED"} \subseteq Statuses
    BY DEF Statuses, Live, Admitted, Terminal
  <2>3. \A from \in SUBSET Statuses, to \in {"STOPPED", "EXPIRED", "FAILED"}, by \in {"web", "sweep"} :
           destroySession(l.s, from, to, by, l.box)
              => status' \in [Sessions -> Statuses] /\ ending' \subseteq End
    <3>1. SUFFICES ASSUME NEW from \in SUBSET Statuses, NEW to \in {"STOPPED", "EXPIRED", "FAILED"},
                          NEW by \in {"web", "sweep"}, destroySession(l.s, from, to, by, l.box)
                   PROVE  status' \in [Sessions -> Statuses] /\ ending' \subseteq End
      OBVIOUS
    <3>2. to \in Statuses /\ by \in {"web", "sweep", "handler"}
      BY <2>2
    <3>3. status' \in [Sessions -> Statuses]
      BY <2>1, <3>1, <3>2 DEF destroySession, transitionSession
    <3>4. [s |-> l.s, by |-> by, box |-> l.box] \in End
      BY <2>1, <3>2 DEF End
    <3>5. QED
      BY <3>1, <3>3, <3>4 DEF destroySession
  <2>4. CASE stopInteractiveSession(l)
    BY <2>2, <2>3, <2>4 DEF stopInteractiveSession
  <2>5. CASE ExpireLifetime(l)
    BY <2>2, <2>3, <2>5 DEF ExpireLifetime
  <2>6. CASE FailOrphan(l)
    BY <2>2, <2>3, <2>6 DEF FailOrphan, Fault
  <2>7. QED
    BY <1>1, <2>4, <2>5, <2>6
<1>2. ASSUME NEW e \in ending, destroySessionDone(e)
      PROVE  TypeInv'
  <2>1. e.s \in Sessions
    BY DEF End
  <2>2. resv' \in [Sessions -> {"none", "open", "consumed", "released"}]
    BY <1>2, <2>1 DEF destroySessionDone
  <2>3. boxes' \subseteq Box /\ dead' \subseteq Box /\ ending' \subseteq End /\ faults' \in Nat
    BY <1>2 DEF destroySessionDone, Fault
  <2>4. QED
    BY <1>2, <2>2, <2>3 DEF destroySessionDone
<1>3. ASSUME NEW c \in boxes, reconcileOrphanContainers(c) \/ BrowserDies(c)
      PROVE  TypeInv'
  BY <1>3 DEF reconcileOrphanContainers, BrowserDies, Fault
<1>4. CASE WorkerCrash
  BY <1>4 DEF WorkerCrash, Fault, Phases
<1>5. CASE WebCrash
  BY <1>5 DEF WebCrash, Fault
<1>6. QED
  BY <1>1, <1>2, <1>3, <1>4, <1>5

LEMMA TypeStep ==
    ASSUME TypeInv, [Next]_vars
    PROVE  TypeInv'
<1>1. CASE UNCHANGED vars
  BY <1>1 DEF vars, rowVars, jobVars, boxVars, endVars, envVars, TypeInv, RowTypeOK, QuotaTypeOK,
     WebTypeOK, JobTypeOK, WorkTypeOK, EndTypeOK
<1>2. CASE Next
  BY <1>2, WebTypes, HandleTypes, RunTypes, OtherTypes DEF Next
<1>3. QED
  BY <1>1, <1>2

LEMMA TypeInit == Init => TypeInv
BY DEF Init, TypeInv, RowTypeOK, QuotaTypeOK, WebTypeOK, JobTypeOK, WorkTypeOK, EndTypeOK,
   Queue!Init, Queue!States, Statuses, Phases

LEMMA TypeInvariant == Spec => []TypeInv
BY TypeInit, TypeStep, PTL DEF Spec

\* Every column and every variable of the two processes keeps its type; in particular
\* no screenshot writes a status that is not one of a live session.
THEOREM TypeCorrect == Spec => []TypeOK
BY TypeInvariant, TypeInvIsTypeOK, PTL

-----------------------------------------------------------------------------
(***************************************************************************)
(* What a step does to a row.  Only claimStartSlot puts a session into a   *)
(* start slot, and nothing leads back from an ended session.               *)
(***************************************************************************)
Moved(q) ==
    \/ status'[q] = status[q]
    \/ status[q] = "absent" /\ status'[q] = "CREATED"
    \/ status[q] = "CREATED" /\ status'[q] = "QUEUED"
    \/ status[q] = "QUEUED" /\ status'[q] = "STARTING" /\ claimStartSlot(q)
    \/ status[q] = "STARTING" /\ status'[q] \in {"QUEUED", "READY"}
    \/ status[q] \in Commandable /\ status'[q] \in Live
    \/ status[q] \in Live /\ status'[q] \in Terminal

LEMMA Transition ==
    ASSUME RowTypeOK, NEW s \in Sessions, NEW from, NEW to, transitionSession(s, from, to),
           NEW q \in Sessions
    PROVE  status'[q] = status[q] \/ (q = s /\ status[q] \in from /\ status'[q] = to)
BY DEF transitionSession, RowTypeOK

\* A session that is ended, from Live statuses or fewer.
LEMMA Destroyed ==
    ASSUME RowTypeOK, NEW s \in Sessions, NEW from \in SUBSET Live, NEW to \in Terminal, NEW by,
           NEW box, destroySession(s, from, to, by, box), NEW q \in Sessions
    PROVE  Moved(q)
<1>1. transitionSession(s, from, to)
  BY DEF destroySession
<1>2. status'[q] = status[q] \/ (q = s /\ status[q] \in from /\ status'[q] = to)
  BY <1>1, Transition
<1>3. QED
  BY <1>2 DEF Moved

LEMMA Froms ==
    /\ Commandable \subseteq Live /\ Before \subseteq Live /\ Admitted \subseteq Live
    /\ {"STARTING"} \subseteq Live /\ {"IDLE"} \subseteq Live
    /\ "STOPPED" \in Terminal /\ "FAILED" \in Terminal /\ "EXPIRED" \in Terminal
BY DEF Live, Admitted, Slot, Commandable, Before, Terminal

LEMMA WebMoves ==
    ASSUME TypeInv, NEW s \in Sessions, Web(s), NEW q \in Sessions
    PROVE  Moved(q)
<1>t. RowTypeOK /\ WebTypeOK
  BY DEF TypeInv
<1>1. CASE createInteractiveSession(s)
  BY <1>t, <1>1 DEF createInteractiveSession, Moved, RowTypeOK
<1>2. CASE Start(s)
  <2>1. transitionSession(s, {"CREATED"}, "QUEUED") \/ UNCHANGED status
    BY <1>2 DEF Start, startInteractiveSession
  <2>2. QED
    BY <1>t, <2>1, Transition DEF Moved
<1>3. CASE stopReads(s)
  BY <1>3 DEF stopReads, rowVars, Moved
<1>4. CASE CommandDone(s)
  <2>1. PICK to \in {"ACTIVE", "READY"} : transitionSession(s, Commandable, to)
    BY <1>4 DEF CommandDone
  <2>2. to \in Live
    BY DEF Live, Admitted, Slot, Commandable
  <2>3. status'[q] = status[q] \/ (status[q] \in Commandable /\ status'[q] = to)
    BY <1>t, <2>1, Transition
  <2>4. QED
    BY <2>2, <2>3 DEF Moved
<1>5. CASE CommandFails(s)
  BY <1>t, <1>5, Froms, Destroyed DEF CommandFails
<1>6. CASE Screenshot(s)
  <2>1. \/ UNCHANGED status
        \/ shot[s] # "none" /\ status[s] \in Commandable /\ transitionSession(s, Live, shot[s])
    BY <1>6 DEF Screenshot, captureScreenshotArtifact
  <2>2. shot[s] # "none" => shot[s] \in Live
    BY <1>t DEF WebTypeOK
  <2>3. transitionSession(s, Live, shot[s]) => status'[q] = status[q] \/ (q = s /\ status'[q] = shot[s])
    BY <1>t, Transition
  <2>4. QED
    BY <2>1, <2>2, <2>3 DEF Moved
<1>7. QED
  BY <1>1, <1>2, <1>3, <1>4, <1>5, <1>6 DEF Web

LEMMA HandleMoves ==
    ASSUME TypeInv, NEW s \in Sessions, Claim(s) \/ Handle(s), NEW q \in Sessions
    PROVE  Moved(q)
<1>t. RowTypeOK
  BY DEF TypeInv
<1>u. UNCHANGED status => Moved(q)
  BY DEF Moved
<1>d. \A from \in SUBSET Live, to \in Terminal : destroySession(s, from, to, "handler", bound[s]) => Moved(q)
  BY <1>t, Destroyed
<1>1. CASE Claim(s)
  BY <1>1, <1>u DEF Claim, rowVars
<1>2. CASE Enter(s)
  BY <1>2, <1>u, <1>d, Froms DEF Enter
<1>3. CASE Reset(s)
  <2>1. transitionSession(s, {"STARTING"}, "QUEUED")
    BY <1>3 DEF Reset
  <2>2. QED
    BY <1>t, <2>1, Transition DEF Moved
<1>4. CASE claimStartSlot(s)
  <2>1. transitionSession(s, {"QUEUED"}, "STARTING") \/ UNCHANGED status
    BY <1>4 DEF claimStartSlot
  <2>2. status'[q] = status[q] \/ (q = s /\ status[q] = "QUEUED" /\ status'[q] = "STARTING")
    BY <1>t, <2>1, Transition
  <2>3. QED
    BY <1>4, <2>2 DEF Moved
<1>5. CASE Check(s)
  BY <1>5, <1>u, <1>d, Froms DEF Check
<1>6. CASE Create(s) \/ Persist(s) \/ Charge(s)
  BY <1>6, <1>u DEF Create, Persist, Charge, rowVars
<1>7. CASE Boot(s)
  BY <1>7, <1>u, <1>d, Froms DEF Boot
<1>8. CASE Announce(s)
  <2>1. transitionSession(s, {"STARTING"}, "READY")
    BY <1>8 DEF Announce
  <2>2. QED
    BY <1>t, <2>1, Transition DEF Moved
<1>9. CASE Catch(s)
  <2>1. destroySession(s, Live, "FAILED", "handler", bound[s]) \/ UNCHANGED status
    BY <1>9 DEF Catch
  <2>2. QED
    BY <2>1, <1>u, <1>d, Froms
<1>10. QED
  BY <1>1, <1>2, <1>3, <1>4, <1>5, <1>6, <1>7, <1>8, <1>9 DEF Handle

LEMMA OtherMoves ==
    ASSUME TypeInv, NEW q \in Sessions,
           \/ \E s \in Sessions : Run(s) \/ Sweep(s)
           \/ \E l \in looks : stopInteractiveSession(l) \/ ExpireLifetime(l) \/ FailOrphan(l)
           \/ \E e \in ending : destroySessionDone(e)
           \/ \E c \in boxes : reconcileOrphanContainers(c) \/ BrowserDies(c)
           \/ WorkerCrash \/ WebCrash
    PROVE  Moved(q)
<1>t. RowTypeOK
  BY DEF TypeInv
<1>u. UNCHANGED status => Moved(q)
  BY DEF Moved
<1>1. ASSUME NEW s \in Sessions, Run(s) \/ Sweep(s)
      PROVE  Moved(q)
  <2>1. CASE HandleEnds(s) \/ markCancelled(s) \/ Recover(s)
    BY <2>1, <1>u DEF HandleEnds, markCancelled, Recover, rowVars
  <2>2. CASE finishCancelled(s)
    BY <1>t, <2>2, Froms, Destroyed DEF finishCancelled
  <2>3. CASE MarkIdle(s)
    <3>1. transitionSession(s, {"READY", "ACTIVE"}, "IDLE")
      BY <2>3 DEF MarkIdle
    <3>2. QED
      BY <1>t, <3>1, Transition DEF Moved, Commandable, Live, Admitted, Slot
  <2>4. CASE ExpireIdle(s)
    BY <1>t, <2>4, Froms, Destroyed DEF ExpireIdle
  <2>5. CASE releaseDanglingReservations(s) \/ sweepReads(s) \/ orphanReads(s)
    BY <2>5, <1>u DEF releaseDanglingReservations, sweepReads, orphanReads, rowVars
  <2>6. QED
    BY <1>1, <2>1, <2>2, <2>3, <2>4, <2>5 DEF Run, Sweep
<1>2. ASSUME NEW l \in looks, stopInteractiveSession(l) \/ ExpireLifetime(l) \/ FailOrphan(l)
      PROVE  Moved(q)
  <2>1. l.s \in Sessions
    BY DEF TypeInv, EndTypeOK, Look
  <2>2. \A from \in SUBSET Live, to \in Terminal, by \in {"web", "sweep"} :
           destroySession(l.s, from, to, by, l.box) => Moved(q)
    BY <1>t, <2>1, Destroyed
  <2>3. QED
    BY <1>2, <1>u, <2>2, Froms DEF stopInteractiveSession, ExpireLifetime, FailOrphan
<1>3. ASSUME NEW e \in ending, destroySessionDone(e)
      PROVE  Moved(q)
  BY <1>3, <1>u DEF destroySessionDone, rowVars
<1>4. ASSUME NEW c \in boxes, reconcileOrphanContainers(c) \/ BrowserDies(c)
      PROVE  Moved(q)
  BY <1>4, <1>u DEF reconcileOrphanContainers, BrowserDies, rowVars
<1>5. CASE WorkerCrash \/ WebCrash
  BY <1>5, <1>u DEF WorkerCrash, WebCrash, rowVars
<1>6. QED
  BY <1>1, <1>2, <1>3, <1>4, <1>5

LEMMA Moves ==
    ASSUME TypeInv, [Next]_vars, NEW q \in Sessions
    PROVE  Moved(q)
<1>1. CASE UNCHANGED vars
  BY <1>1 DEF vars, rowVars, Moved
<1>2. CASE Next
  BY <1>2, WebMoves, HandleMoves, OtherMoves DEF Next
<1>3. QED
  BY <1>1, <1>2

\* No step of the two processes, however late, changes the status of a session that
\* has ended: a request, a sweep and a start that read it earlier write nothing.
THEOREM EndedStay == Spec => EndedSessionsStay
<1>1. ASSUME TypeInv, [Next]_vars
      PROVE  \A s \in Sessions : status[s] \in Terminal => status'[s] = status[s]
  <2>1. SUFFICES ASSUME NEW s \in Sessions, status[s] \in Terminal
                 PROVE  status'[s] = status[s]
    OBVIOUS
  <2>2. Moved(s)
    BY <1>1, Moves
  <2>3. QED
    BY <2>1, <2>2 DEF Moved, Terminal, Live, Admitted, Slot, Commandable
<1>2. QED
  BY <1>1, TypeInvariant, PTL DEF Spec, EndedSessionsStay

-----------------------------------------------------------------------------
(***************************************************************************)
(* Slots.                                                                  *)
(***************************************************************************)
LEMMA SlotsFinite ==
    ASSUME NEW S \in SUBSET Sessions
    PROVE  IsFiniteSet({s \in S : status[s] \in Slot}) /\ SlotsOf(S) \in Nat
<1>1. IsFiniteSet(Sessions) /\ {s \in S : status[s] \in Slot} \subseteq Sessions
  BY SessionsAssumption
<1>2. IsFiniteSet({s \in S : status[s] \in Slot})
  BY <1>1, FS_Subset
<1>3. QED
  BY <1>2, FS_CardinalityType DEF SlotsOf

LEMMA SlotsFiniteNext ==
    ASSUME NEW S \in SUBSET Sessions
    PROVE  SlotsOf(S)' \in Nat
<1>1. IsFiniteSet(Sessions) /\ {s \in S : status'[s] \in Slot} \subseteq Sessions
  BY SessionsAssumption
<1>2. IsFiniteSet({s \in S : status'[s] \in Slot})
  BY <1>1, FS_Subset
<1>3. QED
  BY <1>2, FS_CardinalityType DEF SlotsOf

LEMMA SlotsKept ==
    ASSUME NEW S \in SUBSET Sessions, \A q \in S : status'[q] \in Slot => status[q] \in Slot
    PROVE  SlotsOf(S)' <= SlotsOf(S)
<1>1. {s \in S : status'[s] \in Slot} \subseteq {s \in S : status[s] \in Slot}
  OBVIOUS
<1>2. Cardinality({s \in S : status'[s] \in Slot}) <= Cardinality({s \in S : status[s] \in Slot})
  BY <1>1, SlotsFinite, FS_Subset
<1>3. QED
  BY <1>2 DEF SlotsOf

LEMMA SlotTaken ==
    ASSUME NEW S \in SUBSET Sessions, NEW q \in S,
           \A s \in S \ {q} : status'[s] \in Slot => status[s] \in Slot
    PROVE  SlotsOf(S)' <= SlotsOf(S \ {q}) + 1
<1> DEFINE others == {s \in S \ {q} : status[s] \in Slot}
           after == {s \in S : status'[s] \in Slot}
<1>1. IsFiniteSet(others) /\ Cardinality(others) \in Nat
  BY SlotsFinite, FS_CardinalityType
<1>2. q \notin others /\ after \subseteq others \cup {q}
  OBVIOUS
<1>3. IsFiniteSet(others \cup {q}) /\ Cardinality(others \cup {q}) = Cardinality(others) + 1
  BY <1>1, <1>2, FS_AddElement
<1>4. Cardinality(after) <= Cardinality(others \cup {q})
  BY <1>2, <1>3, FS_Subset
<1>5. QED
  BY <1>3, <1>4 DEF SlotsOf

LEMMA SlotsStep ==
    ASSUME TypeInv, SlotsHold, [Next]_vars
    PROVE  SlotsHold'
<1>1. \A q \in Sessions : status'[q] \in Slot /\ status[q] \notin Slot
         => status[q] = "QUEUED" /\ status'[q] = "STARTING" /\ claimStartSlot(q)
  <2>1. SUFFICES ASSUME NEW q \in Sessions, status'[q] \in Slot, status[q] \notin Slot
                 PROVE  status[q] = "QUEUED" /\ status'[q] = "STARTING" /\ claimStartSlot(q)
    OBVIOUS
  <2>2. Moved(q)
    BY Moves
  <2>3. QED
    BY <2>1, <2>2 DEF Moved, Slot, Commandable, Terminal
<1>2. CASE \A q \in Sessions : status'[q] \in Slot => status[q] \in Slot
  <2>1. \A S \in SUBSET Sessions : SlotsOf(S)' <= SlotsOf(S) /\ SlotsOf(S) \in Nat /\ SlotsOf(S)' \in Nat
    <3>1. SUFFICES ASSUME NEW S \in SUBSET Sessions
                   PROVE  SlotsOf(S)' <= SlotsOf(S) /\ SlotsOf(S) \in Nat /\ SlotsOf(S)' \in Nat
      OBVIOUS
    <3>2. SlotsOf(S)' \in Nat
      BY SlotsFiniteNext
    <3>3. QED
      BY <1>2, <3>2, SlotsFinite, SlotsKept
  <2>2. QED
    BY <2>1, SessionsAssumption DEF SlotsHold
<1>3. CASE \E q \in Sessions : status'[q] \in Slot /\ status[q] \notin Slot
  <2>1. PICK q \in Sessions : status'[q] \in Slot /\ status[q] \notin Slot
    BY <1>3
  <2>2. hasCapacity(q) /\ transitionSession(q, {"QUEUED"}, "STARTING")
    BY <1>1, <2>1 DEF claimStartSlot
  <2>3. \A s \in Sessions \ {q} : status'[s] = status[s]
    BY <2>2 DEF transitionSession, TypeInv, RowTypeOK
  <2>4. SlotsOf(Sessions)' <= GlobalLimit
    <3>1. SlotsOf(Sessions \ {q}) < GlobalLimit
      BY <2>2 DEF hasCapacity, Others
    <3>2. SlotsOf(Sessions)' <= SlotsOf(Sessions \ {q}) + 1
      BY <2>3, SlotTaken
    <3>3. SlotsOf(Sessions)' \in Nat /\ SlotsOf(Sessions \ {q}) \in Nat
      BY SlotsFinite, SlotsFiniteNext
    <3>4. QED
      BY <3>1, <3>2, <3>3, SessionsAssumption
  <2>5. ASSUME NEW u \in Users
        PROVE  SlotsOf({s \in Sessions : OwnerOf[s] = u})' <= UserLimit
    <3> DEFINE mine == {s \in Sessions : OwnerOf[s] = u}
    <3>1. CASE OwnerOf[q] = u
      <4>1. mine \ {q} = OfUser(q)
        BY <3>1 DEF OfUser, Others
      <4>2. SlotsOf(mine \ {q}) < UserLimit
        BY <2>2, <4>1 DEF hasCapacity
      <4>3. SlotsOf(mine)' <= SlotsOf(mine \ {q}) + 1
        BY <2>3, <3>1, SlotTaken
      <4>4. SlotsOf(mine)' \in Nat /\ SlotsOf(mine \ {q}) \in Nat
        BY SlotsFinite, SlotsFiniteNext
      <4>5. QED
        BY <4>2, <4>3, <4>4, SessionsAssumption
    <3>2. CASE OwnerOf[q] # u
      <4>1. SlotsOf(mine)' <= SlotsOf(mine)
        BY <2>3, <3>2, SlotsKept
      <4>2. SlotsOf(mine)' \in Nat /\ SlotsOf(mine) \in Nat /\ SlotsOf(mine) <= UserLimit
        BY SlotsFinite, SlotsFiniteNext DEF SlotsHold
      <4>3. QED
        BY <4>1, <4>2, SessionsAssumption
    <3>3. QED
      BY <3>1, <3>2
  <2>6. QED
    BY <2>4, <2>5 DEF SlotsHold
<1>4. QED
  BY <1>2, <1>3

LEMMA SlotsInit == Init => SlotsHold
<1>1. SUFFICES ASSUME Init
               PROVE  SlotsHold
  OBVIOUS
<1>2. \A S \in SUBSET Sessions : {s \in S : status[s] \in Slot} = {}
  BY <1>1 DEF Init, Slot, Commandable
<1>3. \A S \in SUBSET Sessions : SlotsOf(S) = 0
  BY <1>2, FS_EmptySet DEF SlotsOf
<1>4. QED
  BY <1>3, SessionsAssumption DEF SlotsHold

\* However many starts are claimed at the same time, and whatever a sweep, a stop, a
\* screenshot or a crash does in between, no more sessions are in start slots than
\* the deployment and than each user may have (claimStartSlot counts and claims in
\* one transaction).
THEOREM SlotsAreBounded == Spec => []SlotsHold
BY SlotsInit, SlotsStep, TypeInvariant, PTL DEF Spec

-----------------------------------------------------------------------------
(***************************************************************************)
(* Charge and container.  That a session which can be commanded is charged *)
(* and has its container is not inductive: what holds of an earlier phase  *)
(* of the start must be said.  From the container's creation on it is      *)
(* there, and from its recording on the row names it, as long as the       *)
(* session is STARTING; whoever else moves the row ends it.                *)
(***************************************************************************)
Starting == {"resetting", "checking", "creating", "persisting", "booting", "charging", "announcing",
             "unmade", "catching"}
Finished == {"returned", "threw", "marking"}
OwnBox   == {"persisting", "booting", "charging", "announcing"}

LiveIsReserved(q)  == status[q] \in Live => resv[q] \in {"open", "consumed"}
ExecutionRuns(q)   == phase[q] # "idle" => job[q] = "running"
StartIsUnderWay(q) ==
    /\ phase[q] \in Starting => status[q] \in {"STARTING"} \cup Terminal
    /\ phase[q] = "claiming" => status[q] \notin Commandable
BoxIsThere(q) ==
    status[q] = "STARTING" =>
        /\ phase[q] \in OwnBox => Own(q) \in boxes
        /\ phase[q] \in OwnBox \ {"persisting"} => bound[q] = deliveries[q]
        /\ phase[q] = "announcing" => resv[q] = "consumed"
CommandableHolds(q) == status[q] \in Commandable => resv[q] = "consumed" /\ <<q, bound[q]>> \in boxes

LiveOK(q) ==
    LiveIsReserved(q) /\ ExecutionRuns(q) /\ StartIsUnderWay(q) /\ BoxIsThere(q) /\ CommandableHolds(q)

EndingIsOver == \A e \in ending : status[e.s] \in Terminal

LiveInv == (\A q \in Sessions : LiveOK(q)) /\ EndingIsOver

\* What a step leaves to a session.
SameRow(q)   == status'[q] = status[q] /\ bound'[q] = bound[q] /\ resv'[q] = resv[q]
SameBoxes(q) == \A n \in Nat : <<q, n>> \in boxes => <<q, n>> \in boxes'
SameWork(q)  == phase'[q] = phase[q] /\ job'[q] = job[q] /\ deliveries'[q] = deliveries[q]

\* Nothing happens to the session, or its execution ends.
LEMMA LiveFrame ==
    ASSUME TypeInv, NEW q \in Sessions, LiveOK(q), SameRow(q), SameBoxes(q),
           \/ SameWork(q)
           \/ phase'[q] = "idle"
           \/ phase[q] # "idle" /\ phase'[q] \in Finished /\ job'[q] = job[q]
    PROVE  LiveOK(q)'
<1>1. bound[q] \in Nat /\ deliveries[q] \in Nat
  BY DEF TypeInv, RowTypeOK, JobTypeOK
<1>2. LiveIsReserved(q)' /\ ExecutionRuns(q)' /\ CommandableHolds(q)'
  BY <1>1 DEF LiveOK, LiveIsReserved, ExecutionRuns, CommandableHolds, SameRow, SameBoxes, SameWork
<1>3. StartIsUnderWay(q)'
  BY DEF LiveOK, StartIsUnderWay, SameRow, SameWork, Finished, Starting
<1>4. BoxIsThere(q)'
  BY <1>1 DEF LiveOK, BoxIsThere, SameRow, SameBoxes, SameWork, Finished, OwnBox, Own
<1>5. QED
  BY <1>2, <1>3, <1>4 DEF LiveOK

\* The session is ended.
LEMMA LiveEnds ==
    ASSUME NEW q \in Sessions, status'[q] \in Terminal, phase'[q] # "idle" => job'[q] = "running"
    PROVE  LiveOK(q)'
BY DEF LiveOK, LiveIsReserved, ExecutionRuns, StartIsUnderWay, BoxIsThere, CommandableHolds, Terminal,
   Live, Admitted, Slot, Commandable

\* destroySession, as every caller uses it, of this or of another session.
LEMMA LiveDestroyed ==
    ASSUME TypeInv, NEW s \in Sessions, NEW q \in Sessions, LiveOK(q), NEW from, NEW to \in Terminal,
           NEW by, NEW box, destroySession(s, from, to, by, box),
           UNCHANGED <<bound, resv, jobVars, boxVars>>,
           phase'[q] = phase[q] \/ (phase[q] # "idle" /\ phase'[q] \in Finished)
    PROVE  LiveOK(q)'
<1>1. status'[q] = status[q] \/ status'[q] = to
  BY Transition DEF destroySession, TypeInv
<1>2. CASE status'[q] = status[q]
  BY <1>2, LiveFrame DEF SameRow, SameBoxes, SameWork, jobVars, boxVars
<1>3. CASE status'[q] = to
  BY <1>3, LiveEnds DEF LiveOK, ExecutionRuns, jobVars
<1>4. QED
  BY <1>1, <1>2, <1>3

\* The row is written while the session can be commanded.
LEMMA LiveWritten ==
    ASSUME NEW s \in Sessions, NEW q \in Sessions, LiveOK(q), TypeInv, NEW from, NEW to \in Live,
           status[s] \in Commandable, transitionSession(s, from, to),
           UNCHANGED <<bound, resv, jobVars, boxVars, phase>>
    PROVE  LiveOK(q)'
<1>1. status'[q] = status[q] \/ (q = s /\ status[q] \in Commandable /\ status'[q] = to)
  BY Transition DEF TypeInv
<1>2. CASE status'[q] = status[q]
  BY <1>2, LiveFrame DEF SameRow, SameBoxes, SameWork, jobVars, boxVars
<1>3. CASE q = s /\ status[q] \in Commandable /\ status'[q] = to
  <2>1. phase[q] \notin Starting /\ phase[q] # "claiming"
    BY <1>3 DEF LiveOK, StartIsUnderWay, Commandable, Terminal
  <2>2. resv[q] = "consumed" /\ <<q, bound[q]>> \in boxes
    BY <1>3 DEF LiveOK, CommandableHolds
  <2>3. QED
    BY <1>3, <2>1, <2>2 DEF LiveOK, LiveIsReserved, ExecutionRuns, StartIsUnderWay, BoxIsThere,
       CommandableHolds, OwnBox, Starting, jobVars, boxVars
<1>4. QED
  BY <1>1, <1>2, <1>3

LEMMA WebLive ==
    ASSUME TypeInv, NEW s \in Sessions, NEW q \in Sessions, LiveOK(q), Web(s)
    PROVE  LiveOK(q)'
<1>t. status[s] \in Statuses /\ bound[q] \in Nat
  BY DEF TypeInv, RowTypeOK
<1>1. CASE createInteractiveSession(s)
  <2>1. CASE q = s
    <3>1. status'[q] = "CREATED" /\ resv'[q] = "open" /\ phase' = phase /\ job' = job /\ status[q] = "absent"
      BY <1>1, <2>1 DEF createInteractiveSession, TypeInv, RowTypeOK, QuotaTypeOK, jobVars
    <3>2. QED
      BY <3>1 DEF LiveOK, LiveIsReserved, ExecutionRuns, StartIsUnderWay, BoxIsThere, CommandableHolds,
         Terminal, Commandable
  <2>2. CASE q # s
    <3>1. SameRow(q) /\ SameBoxes(q) /\ SameWork(q)
      BY <1>1, <2>2 DEF createInteractiveSession, TypeInv, RowTypeOK, QuotaTypeOK, jobVars, boxVars,
         SameRow, SameBoxes, SameWork
    <3>2. QED
      BY <3>1, LiveFrame
  <2>3. QED
    BY <2>1, <2>2
<1>2. CASE Start(s)
  <2>1. SameBoxes(q) /\ bound' = bound /\ resv' = resv /\ phase' = phase
    BY <1>2 DEF Start, SameBoxes, boxVars
  <2>2. CASE transitionSession(s, {"CREATED"}, "QUEUED") /\ UNCHANGED <<job, deliveries>>
    <3>1. status'[q] = status[q] \/ (status[q] = "CREATED" /\ status'[q] = "QUEUED")
      BY <2>2, Transition DEF TypeInv
    <3>2. CASE status'[q] = status[q]
      BY <2>1, <2>2, <3>2, LiveFrame DEF SameRow, SameWork
    <3>3. CASE status[q] = "CREATED" /\ status'[q] = "QUEUED"
      BY <2>1, <2>2, <3>3 DEF LiveOK, LiveIsReserved, ExecutionRuns, StartIsUnderWay, BoxIsThere,
         CommandableHolds, Commandable, Live, Admitted, Terminal
    <3>4. QED
      BY <3>1, <3>2, <3>3
  <2>3. CASE Queue!Submit(s) /\ UNCHANGED status
    <3>1. deliveries' = deliveries /\ (job'[q] = job[q] \/ (q = s /\ job[q] = "absent"))
      BY <2>3 DEF Queue!Submit, Queue!Become, TypeInv, JobTypeOK
    <3>2. job'[q] = job[q] \/ phase'[q] = "idle"
      BY <2>1, <3>1 DEF LiveOK, ExecutionRuns
    <3>3. QED
      BY <2>1, <2>3, <3>1, <3>2, LiveFrame DEF SameRow, SameWork
  <2>4. CASE UNCHANGED <<status, job, deliveries>>
    BY <2>1, <2>4, LiveFrame DEF SameRow, SameWork
  <2>5. QED
    BY <1>2, <2>2, <2>3, <2>4 DEF Start, startInteractiveSession
<1>3. CASE stopReads(s)
  <2>1. UNCHANGED <<status, bound, resv, phase, boxes>>
    BY <1>3 DEF stopReads, rowVars, boxVars
  <2>2. \/ q = s /\ job[q] = "pending"
        \/ job'[q] = job[q] /\ deliveries'[q] = deliveries[q]
    BY <1>3 DEF stopReads, Queue!Become, TypeInv, JobTypeOK
  <2>3. CASE q = s /\ job[q] = "pending"
    <3>1. phase'[q] = "idle"
      BY <2>1, <2>3 DEF LiveOK, ExecutionRuns
    <3>2. QED
      BY <2>1, <3>1, LiveFrame DEF SameRow, SameBoxes
  <2>4. CASE job'[q] = job[q] /\ deliveries'[q] = deliveries[q]
    BY <2>1, <2>4, LiveFrame DEF SameRow, SameBoxes, SameWork
  <2>5. QED
    BY <2>2, <2>3, <2>4
<1>4. CASE CommandDone(s)
  <2>1. PICK to \in {"ACTIVE", "READY"} : transitionSession(s, Commandable, to)
    BY <1>4 DEF CommandDone
  <2>2. to \in Live
    BY DEF Live, Admitted, Slot, Commandable
  <2>3. status[s] \in Commandable /\ UNCHANGED <<bound, resv, jobVars, boxVars, phase>>
    BY <1>4 DEF CommandDone
  <2>4. QED
    BY <2>1, <2>2, <2>3, LiveWritten
<1>5. CASE CommandFails(s)
  <2>1. /\ destroySession(s, Commandable, "FAILED", "web", bound[s])
        /\ UNCHANGED <<bound, resv, jobVars, boxVars>> /\ phase'[q] = phase[q]
    BY <1>5 DEF CommandFails
  <2>2. QED
    BY <2>1, Froms, LiveDestroyed
<1>6. CASE Screenshot(s)
  <2>1. UNCHANGED <<bound, resv, jobVars, boxVars, phase>>
    BY <1>6 DEF Screenshot
  <2>2. CASE UNCHANGED status
    BY <2>1, <2>2, LiveFrame DEF SameRow, SameBoxes, SameWork, jobVars, boxVars
  <2>3. CASE shot[s] # "none" /\ status[s] \in Commandable /\ transitionSession(s, Live, shot[s])
    <3>1. shot[s] \in Live
      BY <2>3 DEF TypeInv, WebTypeOK
    <3>2. QED
      BY <2>1, <2>3, <3>1, LiveWritten
  <2>4. QED
    BY <1>6, <2>2, <2>3 DEF Screenshot, captureScreenshotArtifact
<1>7. QED
  BY <1>1, <1>2, <1>3, <1>4, <1>5, <1>6 DEF Web

\* A step of the start of another session.
LEMMA HandleOthers ==
    ASSUME TypeInv, NEW s \in Sessions, NEW q \in Sessions \ {s}, LiveOK(q), Claim(s) \/ Handle(s)
    PROVE  LiveOK(q)'
<1> USE DEF TypeInv, RowTypeOK, QuotaTypeOK, JobTypeOK, WorkTypeOK, rowVars, jobVars, boxVars, MoveTo
<1>1. status'[q] = status[q]
  BY DEF Claim, Handle, Enter, Reset, claimStartSlot, Check, Create, Persist, Boot, Charge, Announce, Catch,
     destroySession, transitionSession
<1>2. bound'[q] = bound[q] /\ resv'[q] = resv[q]
  BY DEF Claim, Handle, Enter, Reset, claimStartSlot, Check, Create, Persist, Boot, Charge, Announce, Catch
<1>3. phase'[q] = phase[q] /\ job'[q] = job[q] /\ deliveries'[q] = deliveries[q]
  BY DEF Claim, Handle, Enter, Reset, claimStartSlot, Check, Create, Persist, Boot, Charge, Announce, Catch,
     Queue!Deliver
<1>4. \A n \in Nat : <<q, n>> \in boxes => <<q, n>> \in boxes'
  BY DEF Claim, Handle, Enter, Reset, claimStartSlot, Check, Create, Persist, Boot, Charge, Announce, Catch, Own
<1>5. QED
  BY <1>1, <1>2, <1>3, <1>4, LiveFrame DEF SameRow, SameBoxes, SameWork

\* A step of its own start.
LEMMA HandleOwn ==
    ASSUME TypeInv, NEW q \in Sessions, LiveOK(q), Claim(q) \/ Handle(q)
    PROVE  LiveOK(q)'
<1>t. /\ status \in [Sessions -> Statuses] /\ bound \in [Sessions -> Nat] /\ deliveries \in [Sessions -> Nat]
      /\ phase \in [Sessions -> Phases] /\ job \in [Sessions -> Queue!States]
      /\ resv \in [Sessions -> {"none", "open", "consumed", "released"}]
  BY DEF TypeInv, RowTypeOK, QuotaTypeOK, JobTypeOK, WorkTypeOK
<1> USE DEF rowVars, jobVars, boxVars, MoveTo
<1>d. ASSUME NEW from, NEW to \in Terminal, destroySession(q, from, to, "handler", bound[q]),
             UNCHANGED <<bound, resv, jobVars, boxVars>>,
             phase[q] # "idle", phase'[q] \in Finished
      PROVE  LiveOK(q)'
  BY <1>d, LiveDestroyed
<1>o. ASSUME UNCHANGED <<status, bound, resv, jobVars, boxVars>>, phase[q] # "idle", phase'[q] \in Finished
      PROVE  LiveOK(q)'
  BY <1>o, LiveFrame DEF SameRow, SameBoxes
<1>1. CASE Claim(q)
  <2>1. phase'[q] = "entering" /\ job'[q] = "running" /\ UNCHANGED <<status, bound, resv, boxes>>
    BY <1>t, <1>1 DEF Claim, Queue!Deliver
  <2>2. QED
    BY <2>1 DEF LiveOK, LiveIsReserved, ExecutionRuns, StartIsUnderWay, BoxIsThere, CommandableHolds,
       Starting, OwnBox
<1>2. CASE Enter(q)
  <2>1. UNCHANGED <<bound, resv, jobVars, boxVars>> /\ phase[q] = "entering"
    BY <1>2 DEF Enter
  <2>2. CASE MoveTo(q, "returned") /\ UNCHANGED status
    BY <1>t, <1>o, <2>1, <2>2 DEF Finished
  <2>3. CASE destroySession(q, Before, "STOPPED", "handler", bound[q]) /\ MoveTo(q, "returned")
    BY <1>t, <1>d, <2>1, <2>3, Froms DEF Finished
  <2>4. CASE status[q] \in Before /\ MoveTo(q, IF status[q] = "STARTING" THEN "resetting" ELSE "claiming")
             /\ UNCHANGED status
    BY <1>t, <2>1, <2>4 DEF LiveOK, LiveIsReserved, ExecutionRuns, StartIsUnderWay, BoxIsThere,
       CommandableHolds, Starting, OwnBox, Before, Commandable
  <2>5. QED
    BY <1>2, <2>2, <2>3, <2>4 DEF Enter
<1>3. CASE Reset(q)
  <2>1. UNCHANGED <<bound, resv, jobVars>> /\ phase[q] = "resetting" /\ phase'[q] = "claiming"
    BY <1>t, <1>3 DEF Reset
  <2>2. status[q] \in {"STARTING"} \cup Terminal
    BY <2>1 DEF LiveOK, StartIsUnderWay, Starting
  <2>3. status'[q] = IF status[q] = "STARTING" THEN "QUEUED" ELSE status[q]
    BY <1>t, <1>3 DEF Reset, transitionSession
  <2>4. QED
    BY <2>1, <2>2, <2>3 DEF LiveOK, LiveIsReserved, ExecutionRuns, StartIsUnderWay, BoxIsThere,
       CommandableHolds, Starting, OwnBox, Commandable, Terminal, Live, Admitted, Slot
<1>4. CASE claimStartSlot(q)
  <2>1. UNCHANGED <<bound, resv, jobVars, boxVars>> /\ phase[q] = "claiming"
    BY <1>4 DEF claimStartSlot
  <2>2. CASE UNCHANGED status /\ (MoveTo(q, "returned") \/ MoveTo(q, "threw"))
    BY <1>t, <1>o, <2>1, <2>2 DEF Finished
  <2>3. CASE status[q] = "QUEUED" /\ transitionSession(q, {"QUEUED"}, "STARTING") /\ MoveTo(q, "checking")
    <3>1. status'[q] = "STARTING" /\ phase'[q] = "checking"
      BY <1>t, <2>3 DEF transitionSession
    <3>2. QED
      BY <2>1, <2>3, <3>1 DEF LiveOK, LiveIsReserved, ExecutionRuns, StartIsUnderWay, BoxIsThere,
         CommandableHolds, Starting, OwnBox, Commandable, Live, Admitted, Slot
  <2>4. QED
    BY <1>4, <2>2, <2>3 DEF claimStartSlot
<1>5. CASE Check(q)
  <2>1. UNCHANGED <<bound, resv, jobVars, boxVars>> /\ phase[q] = "checking"
    BY <1>5 DEF Check
  <2>2. CASE UNCHANGED status /\ (MoveTo(q, "creating") \/ MoveTo(q, "unmade"))
    BY <1>t, <2>1, <2>2 DEF LiveOK, LiveIsReserved, ExecutionRuns, StartIsUnderWay, BoxIsThere,
       CommandableHolds, Starting, OwnBox
  <2>3. CASE UNCHANGED status /\ MoveTo(q, "threw")
    BY <1>t, <1>o, <2>1, <2>3 DEF Finished
  <2>4. CASE \/ destroySession(q, {"STARTING"}, "STOPPED", "handler", bound[q]) /\ MoveTo(q, "returned")
             \/ destroySession(q, Live, "FAILED", "handler", bound[q]) /\ MoveTo(q, "threw")
    BY <1>t, <1>d, <2>1, <2>4, Froms DEF Finished
  <2>5. QED
    BY <1>5, <2>2, <2>3, <2>4 DEF Check
<1>6. CASE Create(q)
  <2>1. /\ UNCHANGED <<status, bound, resv, jobVars>> /\ phase[q] = "creating"
        /\ boxes \subseteq boxes'
        /\ \/ phase'[q] = "persisting" /\ Own(q) \in boxes'
           \/ phase'[q] = "unmade"
    BY <1>t, <1>6 DEF Create
  <2>2. Own(q)' = Own(q)
    BY <2>1 DEF Own
  <2>3. QED
    BY <2>1, <2>2 DEF LiveOK, LiveIsReserved, ExecutionRuns, StartIsUnderWay, BoxIsThere,
       CommandableHolds, Starting, OwnBox
<1>7. CASE Persist(q)
  <2>1. /\ UNCHANGED <<status, resv, jobVars, boxVars>> /\ phase[q] = "persisting" /\ phase'[q] = "booting"
        /\ bound'[q] = IF status[q] = "STARTING" THEN deliveries[q] ELSE bound[q]
    BY <1>t, <1>7 DEF Persist
  <2>2. Own(q)' = Own(q)
    BY <2>1 DEF Own
  <2>3. status[q] \in {"STARTING"} \cup Terminal
    BY <2>1 DEF LiveOK, StartIsUnderWay, Starting
  <2>4. QED
    BY <2>1, <2>2, <2>3 DEF LiveOK, LiveIsReserved, ExecutionRuns, StartIsUnderWay, BoxIsThere,
       CommandableHolds, Starting, OwnBox, Commandable, Terminal
<1>8. CASE Boot(q)
  <2>1. UNCHANGED <<bound, resv, jobVars, boxVars>> /\ phase[q] = "booting"
    BY <1>8 DEF Boot
  <2>2. status[q] \in {"STARTING"} \cup Terminal
    BY <2>1 DEF LiveOK, StartIsUnderWay, Starting
  <2>3. CASE UNCHANGED status /\ (MoveTo(q, "charging") \/ MoveTo(q, "catching"))
    <3>1. Own(q)' = Own(q)
      BY <2>1 DEF Own
    <3>2. QED
      BY <1>t, <2>1, <2>2, <2>3, <3>1 DEF LiveOK, LiveIsReserved, ExecutionRuns, StartIsUnderWay,
         BoxIsThere, CommandableHolds, Starting, OwnBox
  <2>4. CASE destroySession(q, Live, "FAILED", "handler", bound[q]) /\ MoveTo(q, "catching")
    <3>1. status'[q] \in Terminal
      BY <1>t, <2>2, <2>4 DEF destroySession, transitionSession, Live, Admitted, Slot, Terminal
    <3>2. job'[q] = "running"
      BY <2>1 DEF LiveOK, ExecutionRuns
    <3>3. QED
      BY <3>1, <3>2, LiveEnds
  <2>5. QED
    BY <1>8, <2>3, <2>4 DEF Boot
<1>9. CASE Charge(q)
  <2>1. /\ UNCHANGED <<status, bound, jobVars, boxVars>> /\ phase[q] = "charging" /\ phase'[q] = "announcing"
        /\ resv'[q] = IF resv[q] = "open" THEN "consumed" ELSE resv[q]
    BY <1>t, <1>9 DEF Charge
  <2>2. Own(q)' = Own(q)
    BY <2>1 DEF Own
  <2>3. status[q] \in {"STARTING"} \cup Terminal
    BY <2>1 DEF LiveOK, StartIsUnderWay, Starting
  <2>4. status[q] = "STARTING" => resv'[q] = "consumed"
    BY <2>1 DEF LiveOK, LiveIsReserved, Live, Admitted, Slot
  <2>5. QED
    BY <2>1, <2>2, <2>3, <2>4 DEF LiveOK, LiveIsReserved, ExecutionRuns, StartIsUnderWay, BoxIsThere,
       CommandableHolds, Starting, OwnBox, Commandable, Terminal, Live, Admitted, Slot
<1>10. CASE Announce(q)
  <2>1. /\ UNCHANGED <<bound, resv, jobVars, boxVars>> /\ phase[q] = "announcing" /\ phase'[q] = "returned"
        /\ status'[q] = IF status[q] = "STARTING" THEN "READY" ELSE status[q]
    BY <1>t, <1>10 DEF Announce, transitionSession
  <2>2. status[q] \in {"STARTING"} \cup Terminal
    BY <2>1 DEF LiveOK, StartIsUnderWay, Starting
  <2>3. status[q] = "STARTING" => resv[q] = "consumed" /\ <<q, bound[q]>> \in boxes
    BY <2>1 DEF LiveOK, BoxIsThere, OwnBox, Own
  <2>4. QED
    BY <2>1, <2>2, <2>3 DEF LiveOK, LiveIsReserved, ExecutionRuns, StartIsUnderWay, BoxIsThere,
       CommandableHolds, Starting, OwnBox, Commandable, Terminal
<1>11. CASE Catch(q)
  <2>1. phase[q] \in {"unmade", "catching"} /\ UNCHANGED <<resv, jobVars>> /\ job[q] = "running"
    BY <1>11 DEF Catch, LiveOK, ExecutionRuns
  <2>2. status[q] \in {"STARTING"} \cup Terminal
    BY <2>1 DEF LiveOK, StartIsUnderWay, Starting
  <2>3. status'[q] \in Terminal
    BY <1>t, <1>11, <2>2 DEF Catch, destroySession, transitionSession, Terminal, Live, Admitted, Slot
  <2>4. QED
    BY <2>1, <2>3, LiveEnds
<1>12. QED
  BY <1>1, <1>2, <1>3, <1>4, <1>5, <1>6, <1>7, <1>8, <1>9, <1>10, <1>11 DEF Handle

LEMMA RunLive ==
    ASSUME TypeInv, NEW s \in Sessions, NEW q \in Sessions, LiveOK(q), Run(s) \/ Sweep(s)
    PROVE  LiveOK(q)'
<1>t. /\ status \in [Sessions -> Statuses] /\ deliveries \in [Sessions -> Nat]
      /\ phase \in [Sessions -> Phases] /\ job \in [Sessions -> Queue!States]
      /\ resv \in [Sessions -> {"none", "open", "consumed", "released"}]
  BY DEF TypeInv, RowTypeOK, QuotaTypeOK, JobTypeOK, WorkTypeOK
<1>e. ASSUME NEW j, Ends(s, j), UNCHANGED <<rowVars, resv, boxVars>>
      PROVE  LiveOK(q)'
  <2>1. q = s => phase'[q] = "idle"
    BY <1>t, <1>e DEF Ends, MoveTo
  <2>2. q # s => SameWork(q)
    BY <1>t, <1>e DEF Ends, MoveTo, Queue!Become, SameWork
  <2>3. QED
    BY <1>e, <2>1, <2>2, LiveFrame DEF SameRow, SameBoxes, rowVars, boxVars
<1>1. CASE HandleEnds(s)
  BY <1>1, <1>e DEF HandleEnds
<1>2. CASE finishCancelled(s)
  <2>1. /\ destroySession(s, Before, "STOPPED", "handler", bound[s])
        /\ UNCHANGED <<bound, resv, jobVars, boxVars>>
    BY <1>2 DEF finishCancelled
  <2>2. phase'[q] = phase[q] \/ (phase[q] # "idle" /\ phase'[q] \in Finished)
    BY <1>t, <1>2 DEF finishCancelled, MoveTo, Finished
  <2>3. QED
    BY <2>1, <2>2, Froms, LiveDestroyed
<1>3. CASE markCancelled(s)
  BY <1>3, <1>e DEF markCancelled
<1>4. CASE Recover(s)
  <2>1. UNCHANGED <<rowVars, resv, boxVars, phase>>
    BY <1>4 DEF Recover
  <2>2. phase'[q] = "idle" \/ SameWork(q)
    BY <1>t, <1>4 DEF Recover, Queue!Become, SameWork
  <2>3. QED
    BY <2>1, <2>2, LiveFrame DEF SameRow, SameBoxes, rowVars, boxVars
<1>5. CASE MarkIdle(s)
  <2>1. /\ status[s] \in Commandable /\ transitionSession(s, {"READY", "ACTIVE"}, "IDLE") /\ "IDLE" \in Live
        /\ UNCHANGED <<bound, resv, jobVars, boxVars, phase>>
    BY <1>5, Froms DEF MarkIdle, Commandable
  <2>2. QED
    BY <2>1, LiveWritten
<1>6. CASE ExpireIdle(s)
  <2>1. /\ destroySession(s, {"IDLE"}, "EXPIRED", "sweep", bound[s])
        /\ UNCHANGED <<bound, resv, jobVars, boxVars>> /\ phase'[q] = phase[q]
    BY <1>6 DEF ExpireIdle
  <2>2. QED
    BY <2>1, Froms, LiveDestroyed
<1>7. CASE releaseDanglingReservations(s)
  <2>1. UNCHANGED <<status, bound, job, deliveries, phase, boxes>> /\ status[s] \in Terminal
    BY <1>7 DEF releaseDanglingReservations, rowVars, jobVars, boxVars
  <2>2. CASE q = s
    BY <2>1, <2>2, LiveEnds DEF LiveOK, ExecutionRuns
  <2>3. CASE q # s
    <3>1. resv'[q] = resv[q]
      BY <1>t, <1>7, <2>3 DEF releaseDanglingReservations
    <3>2. QED
      BY <2>1, <3>1, LiveFrame DEF SameRow, SameBoxes, SameWork
  <2>4. QED
    BY <2>2, <2>3
<1>8. CASE sweepReads(s) \/ orphanReads(s)
  <2>1. UNCHANGED <<status, bound, resv, job, deliveries, phase, boxes>>
    BY <1>8 DEF sweepReads, orphanReads, rowVars, jobVars, boxVars
  <2>2. QED
    BY <2>1, LiveFrame DEF SameRow, SameBoxes, SameWork
<1>9. QED
  BY <1>1, <1>2, <1>3, <1>4, <1>5, <1>6, <1>7, <1>8 DEF Run, Sweep

\* What is done about a row that was read earlier, and about a container.
LEMMA LateLive ==
    ASSUME TypeInv, EndingIsOver, NEW q \in Sessions, LiveOK(q),
           \/ \E l \in looks : stopInteractiveSession(l) \/ ExpireLifetime(l) \/ FailOrphan(l)
           \/ \E e \in ending : destroySessionDone(e)
           \/ \E c \in boxes : reconcileOrphanContainers(c) \/ BrowserDies(c)
           \/ WorkerCrash \/ WebCrash
    PROVE  LiveOK(q)'
<1>1. ASSUME NEW l \in looks, stopInteractiveSession(l) \/ ExpireLifetime(l) \/ FailOrphan(l)
      PROVE  LiveOK(q)'
  <2>1. l.s \in Sessions
    BY DEF TypeInv, EndTypeOK, Look
  <2>2. UNCHANGED <<bound, resv, jobVars, boxVars, phase>>
    BY <1>1 DEF stopInteractiveSession, ExpireLifetime, FailOrphan
  <2>3. \/ UNCHANGED status
        \/ \E from \in {Live, Admitted}, to \in Terminal, by \in {"web", "sweep"} :
              destroySession(l.s, from, to, by, l.box)
    BY <1>1, Froms DEF stopInteractiveSession, ExpireLifetime, FailOrphan
  <2>4. CASE UNCHANGED status
    BY <2>2, <2>4, LiveFrame DEF SameRow, SameBoxes, SameWork, jobVars, boxVars
  <2>5. ASSUME NEW from, NEW to \in Terminal, NEW by, destroySession(l.s, from, to, by, l.box)
        PROVE  LiveOK(q)'
    BY <2>1, <2>2, <2>5, LiveDestroyed
  <2>6. QED
    BY <2>3, <2>4, <2>5
<1>2. ASSUME NEW e \in ending, destroySessionDone(e)
      PROVE  LiveOK(q)'
  <2>1. e.s \in Sessions /\ status[e.s] \in Terminal
    BY DEF TypeInv, EndTypeOK, End, EndingIsOver
  <2>2. UNCHANGED <<status, bound, job, deliveries, phase>>
    BY <1>2 DEF destroySessionDone, rowVars, jobVars
  <2>3. CASE q = e.s
    BY <2>1, <2>2, <2>3, LiveEnds DEF LiveOK, ExecutionRuns
  <2>4. CASE q # e.s
    <3>1. resv'[q] = resv[q]
      BY <1>2, <2>1, <2>4 DEF destroySessionDone, TypeInv, QuotaTypeOK
    <3>2. SameBoxes(q)
      BY <1>2, <2>4 DEF destroySessionDone, SameBoxes, boxVars
    <3>3. QED
      BY <2>2, <3>1, <3>2, LiveFrame DEF SameRow, SameWork
  <2>5. QED
    BY <2>3, <2>4
<1>3. ASSUME NEW c \in boxes, reconcileOrphanContainers(c)
      PROVE  LiveOK(q)'
  <2>1. UNCHANGED <<status, bound, resv, job, deliveries, phase>> /\ boxes' = boxes \ {c}
    BY <1>3 DEF reconcileOrphanContainers, rowVars, jobVars
  <2>2. c \in Sessions \X Nat /\ bound[q] \in Nat
    BY DEF TypeInv, WorkTypeOK, RowTypeOK, Box
  <2>3. CASE c[1] # q
    <3>1. SameBoxes(q)
      BY <2>1, <2>3 DEF SameBoxes
    <3>2. QED
      BY <2>1, <3>1, LiveFrame DEF SameRow, SameWork
  <2>4. CASE c[1] = q
    <3>1. /\ ~(status[q] \in Admitted /\ bound[q] = c[2])
          /\ status[q] \in {"QUEUED", "STARTING"} =>
                ~(phase[q] \in {"creating", "persisting"} /\ c = Own(q))
      BY <1>3, <2>4 DEF reconcileOrphanContainers
    <3>2. Own(q)' = Own(q) /\ (status[q] \in Admitted => <<q, bound[q]>> # c)
      BY <2>1, <3>1 DEF Own
    <3>3. CommandableHolds(q)'
      BY <2>1, <3>2 DEF LiveOK, CommandableHolds, Commandable, Admitted, Slot
    <3>4. BoxIsThere(q)'
      <4>1. SUFFICES ASSUME status[q] = "STARTING"
                     PROVE  phase[q] \in OwnBox => Own(q) \in boxes'
        BY <2>1, <3>2 DEF LiveOK, BoxIsThere
      <4>2. CASE phase[q] = "persisting"
        BY <2>1, <3>1, <4>1, <4>2 DEF LiveOK, BoxIsThere, OwnBox
      <4>3. CASE phase[q] \in OwnBox \ {"persisting"}
        BY <2>1, <3>2, <4>1, <4>3 DEF LiveOK, BoxIsThere, OwnBox, Own, Admitted, Slot
      <4>4. QED
        BY <4>2, <4>3
    <3>5. LiveIsReserved(q)' /\ ExecutionRuns(q)' /\ StartIsUnderWay(q)'
      BY <2>1 DEF LiveOK, LiveIsReserved, ExecutionRuns, StartIsUnderWay
    <3>6. QED
      BY <3>3, <3>4, <3>5 DEF LiveOK
  <2>5. QED
    BY <2>3, <2>4
<1>4. CASE WebCrash \/ \E c \in boxes : BrowserDies(c)
  <2>1. UNCHANGED <<status, bound, resv, job, deliveries, phase, boxes>>
    BY <1>4 DEF WebCrash, BrowserDies, rowVars, jobVars, boxVars
  <2>2. QED
    BY <2>1, LiveFrame DEF SameRow, SameBoxes, SameWork
<1>5. CASE WorkerCrash
  <2>1. UNCHANGED <<status, bound, resv, boxes>> /\ phase'[q] = "idle"
    BY <1>5 DEF WorkerCrash, rowVars, boxVars
  <2>2. QED
    BY <2>1, LiveFrame DEF SameRow, SameBoxes
<1>6. QED
  BY <1>1, <1>2, <1>3, <1>4, <1>5

\* A session whose container is being removed has ended.
LEMMA DestroyedIsOver ==
    ASSUME TypeInv, EndingIsOver, NEW s \in Sessions, NEW from, NEW to \in Terminal, NEW by, NEW box,
           destroySession(s, from, to, by, box)
    PROVE  EndingIsOver'
<1>1. SUFFICES ASSUME NEW e \in ending'
               PROVE  status'[e.s] \in Terminal
  BY DEF EndingIsOver
<1>2. CASE e \in ending
  <2>1. e.s \in Sessions /\ status[e.s] \in Terminal
    BY <1>2 DEF TypeInv, EndTypeOK, End, EndingIsOver
  <2>2. QED
    BY <2>1 DEF destroySession, transitionSession, TypeInv, RowTypeOK
<1>3. CASE e = [s |-> s, by |-> by, box |-> box] /\ status[s] \in from
  BY <1>3 DEF destroySession, transitionSession, TypeInv, RowTypeOK
<1>4. QED
  BY <1>2, <1>3 DEF destroySession

LEMMA EndingStep ==
    ASSUME TypeInv, EndingIsOver, [Next]_vars
    PROVE  EndingIsOver'
<1>1. CASE ending' \subseteq ending
  <2>1. ASSUME NEW e \in ending'
        PROVE  status'[e.s] \in Terminal
    <3>1. e.s \in Sessions /\ status[e.s] \in Terminal
      BY <1>1, <2>1 DEF TypeInv, EndTypeOK, End, EndingIsOver
    <3>2. Moved(e.s)
      BY <3>1, Moves
    <3>3. QED
      BY <3>1, <3>2 DEF Moved, Terminal, Live, Admitted, Slot, Commandable
  <2>2. QED
    BY <2>1 DEF EndingIsOver
<1>2. ASSUME NEW s \in Sessions, Web(s)
      PROVE  EndingIsOver'
  <2>1. CASE CommandFails(s)
    BY <2>1, Froms, DestroyedIsOver DEF CommandFails
  <2>2. CASE ~CommandFails(s)
    BY <1>1, <1>2, <2>2 DEF Web, createInteractiveSession, Start, stopReads, CommandDone, Screenshot, endVars
  <2>3. QED
    BY <2>1, <2>2
<1>3. ASSUME NEW s \in Sessions, Claim(s) \/ Handle(s)
      PROVE  EndingIsOver'
  <2>1. \A from \in SUBSET Live, to \in {"STOPPED", "FAILED"} :
           destroySession(s, from, to, "handler", bound[s]) => EndingIsOver'
    BY Froms, DestroyedIsOver
  <2>2. CASE Enter(s)
    BY <2>1, <2>2, <1>1, Froms DEF Enter
  <2>3. CASE Check(s)
    BY <2>1, <2>3, <1>1, Froms DEF Check
  <2>4. CASE Boot(s)
    BY <2>1, <2>4, <1>1, Froms DEF Boot
  <2>5. CASE Catch(s)
    <3>1. destroySession(s, Live, "FAILED", "handler", bound[s]) \/ UNCHANGED <<status, ending>>
      BY <2>5 DEF Catch
    <3>2. QED
      BY <2>1, <3>1, <1>1
  <2>6. CASE Claim(s) \/ Reset(s) \/ claimStartSlot(s) \/ Create(s) \/ Persist(s) \/ Charge(s) \/ Announce(s)
    BY <2>6, <1>1 DEF Claim, Reset, claimStartSlot, Create, Persist, Charge, Announce, endVars
  <2>7. QED
    BY <1>3, <2>2, <2>3, <2>4, <2>5, <2>6 DEF Handle
<1>4. ASSUME NEW s \in Sessions, Run(s) \/ Sweep(s)
      PROVE  EndingIsOver'
  <2>1. CASE finishCancelled(s)
    BY <2>1, Froms, DestroyedIsOver DEF finishCancelled
  <2>2. CASE ExpireIdle(s)
    BY <2>2, Froms, DestroyedIsOver DEF ExpireIdle
  <2>3. CASE HandleEnds(s) \/ markCancelled(s) \/ Recover(s) \/ MarkIdle(s) \/ releaseDanglingReservations(s)
             \/ sweepReads(s) \/ orphanReads(s)
    BY <2>3, <1>1 DEF HandleEnds, markCancelled, Recover, MarkIdle, releaseDanglingReservations, sweepReads,
       orphanReads, endVars
  <2>4. QED
    BY <1>4, <2>1, <2>2, <2>3 DEF Run, Sweep
<1>5. ASSUME NEW l \in looks, stopInteractiveSession(l) \/ ExpireLifetime(l) \/ FailOrphan(l)
      PROVE  EndingIsOver'
  <2>1. l.s \in Sessions
    BY DEF TypeInv, EndTypeOK, Look
  <2>2. \A from \in {Live, Admitted}, to \in Terminal, by \in {"web", "sweep"} :
           destroySession(l.s, from, to, by, l.box) => EndingIsOver'
    BY <2>1, DestroyedIsOver
  <2>3. QED
    BY <1>5, <2>2, <1>1, Froms DEF stopInteractiveSession, ExpireLifetime, FailOrphan
<1>6. ASSUME NEW e \in ending, destroySessionDone(e)
      PROVE  EndingIsOver'
  BY <1>6, <1>1 DEF destroySessionDone
<1>7. ASSUME NEW c \in boxes, reconcileOrphanContainers(c) \/ BrowserDies(c)
      PROVE  EndingIsOver'
  BY <1>7, <1>1 DEF reconcileOrphanContainers, BrowserDies, endVars
<1>8. CASE WorkerCrash \/ WebCrash \/ UNCHANGED vars
  BY <1>8, <1>1 DEF WorkerCrash, WebCrash, vars, endVars
<1>9. QED
  BY <1>2, <1>3, <1>4, <1>5, <1>6, <1>7, <1>8 DEF Next

LEMMA LiveStep ==
    ASSUME TypeInv, LiveInv, [Next]_vars
    PROVE  LiveInv'
<1>1. ASSUME NEW q \in Sessions
      PROVE  LiveOK(q)'
  <2>1. LiveOK(q) /\ EndingIsOver
    BY DEF LiveInv
  <2>2. CASE UNCHANGED vars
    <3>1. UNCHANGED <<status, bound, resv, job, deliveries, phase, boxes>>
      BY <2>2 DEF vars, rowVars, jobVars, boxVars
    <3>2. QED
      BY <2>1, <3>1, LiveFrame DEF SameRow, SameBoxes, SameWork
  <2>3. ASSUME NEW s \in Sessions, Claim(s) \/ Handle(s)
        PROVE  LiveOK(q)'
    BY <2>1, <2>3, HandleOwn, HandleOthers
  <2>4. QED
    BY <2>1, <2>2, <2>3, WebLive, RunLive, LateLive DEF Next
<1>2. EndingIsOver'
  BY EndingStep DEF LiveInv
<1>3. QED
  BY <1>1, <1>2 DEF LiveInv

LEMMA LiveInit == Init => LiveInv
BY DEF Init, LiveInv, EndingIsOver, LiveOK, LiveIsReserved, ExecutionRuns, StartIsUnderWay, BoxIsThere,
   CommandableHolds, Starting, OwnBox, Live, Admitted, Slot, Commandable

LEMMA LiveInvariant == Spec => []LiveInv
BY LiveInit, LiveStep, TypeInvariant, PTL DEF Spec

\* A session whose browser takes commands has been charged for and has its container:
\* a stop, an expiry, a failed start, a retry of it, the reconciliation of containers
\* and a crash, each on what it read earlier, never take either away (handler, service
\* and sweep).
THEOREM LiveHold == Spec => []LiveSessionsHold
<1>1. LiveInv => LiveSessionsHold
  BY DEF LiveInv, LiveOK, CommandableHolds, LiveSessionsHold
<1>2. QED
  BY <1>1, LiveInvariant, PTL

-----------------------------------------------------------------------------
(***************************************************************************)
(* The start job, as the web process, the handler and the sweep use it,    *)
(* does only what the queue promises (JobContract).                        *)
(***************************************************************************)
LEMMA JobStep ==
    ASSUME TypeInv, LiveInv, [Next]_vars
    PROVE  [Queue!Next]_(Queue!vars)
<1>r. \A s \in Sessions : phase[s] # "idle" => job[s] = "running"
  BY DEF LiveInv, LiveOK, ExecutionRuns
<1>e. {"completed", "failed", "cancelled"} \subseteq Queue!Ended
  BY DEF Queue!Ended
<1>u. CASE UNCHANGED <<job, deliveries>>
  BY <1>u DEF Queue!vars
<1>1. ASSUME NEW s \in Sessions, Web(s)
      PROVE  [Queue!Next]_(Queue!vars)
  <2>1. CASE Start(s)
    BY <2>1, <1>u DEF Start, startInteractiveSession, Queue!Next
  <2>2. CASE stopReads(s)
    <3>1. (job[s] = "pending" /\ Queue!Become(s, "cancelled")) \/ UNCHANGED <<job, deliveries>>
      BY <2>2 DEF stopReads
    <3>2. QED
      BY <3>1, <1>u, <1>e DEF Queue!Next, Queue!Drop
  <2>3. QED
    BY <1>1, <2>1, <2>2, <1>u DEF Web, createInteractiveSession, CommandDone, CommandFails, Screenshot, jobVars
<1>2. ASSUME NEW s \in Sessions, Claim(s) \/ Handle(s)
      PROVE  [Queue!Next]_(Queue!vars)
  <2>1. CASE Claim(s)
    BY <2>1 DEF Claim, Queue!Next
  <2>2. QED
    BY <1>2, <2>1, <1>u DEF Handle, Enter, Reset, claimStartSlot, Check, Create, Persist, Boot, Charge,
       Announce, Catch, jobVars
<1>3. ASSUME NEW s \in Sessions, Run(s) \/ Sweep(s)
      PROVE  [Queue!Next]_(Queue!vars)
  <2>1. ASSUME NEW j \in {"pending", "completed", "failed", "cancelled"}, job[s] = "running", Queue!Become(s, j)
        PROVE  Queue!Next
    BY <2>1, <1>e DEF Queue!Next, Queue!Return, Queue!Settle
  <2>2. CASE HandleEnds(s)
    BY <2>1, <2>2, <1>r DEF HandleEnds, Ends
  <2>3. CASE markCancelled(s)
    BY <2>1, <2>3, <1>r DEF markCancelled, Ends
  <2>4. CASE Recover(s)
    BY <2>1, <2>4 DEF Recover
  <2>5. QED
    BY <1>3, <2>2, <2>3, <2>4, <1>u DEF Run, Sweep, finishCancelled, MarkIdle, ExpireIdle,
       releaseDanglingReservations, sweepReads, orphanReads, jobVars
<1>4. CASE \/ \E l \in looks : stopInteractiveSession(l) \/ ExpireLifetime(l) \/ FailOrphan(l)
           \/ \E e \in ending : destroySessionDone(e)
           \/ \E c \in boxes : reconcileOrphanContainers(c) \/ BrowserDies(c)
           \/ WorkerCrash \/ WebCrash \/ UNCHANGED vars
  BY <1>4, <1>u DEF stopInteractiveSession, ExpireLifetime, FailOrphan, destroySessionDone,
     reconcileOrphanContainers, BrowserDies, WorkerCrash, WebCrash, vars, jobVars
<1>5. QED
  BY <1>1, <1>2, <1>3, <1>4 DEF Next

\* The start jobs of the sessions implement the job contract: nothing but a running
\* job is settled or given back, a request to stop drops only a pending one, and an
\* ended job stays ended, whatever crashes.
THEOREM JobsKeepTheContract == Spec => Queue!Spec
<1>1. Init => Queue!Init
  BY DEF Init
<1>2. QED
  BY <1>1, JobStep, TypeInvariant, LiveInvariant, PTL DEF Spec, Queue!Spec

-----------------------------------------------------------------------------
(***************************************************************************)
(* The hub's stream.  At most one stream is of the present generation, it  *)
(* is the only one that may be open, and it is what remove() detaches; an  *)
(* entry whose stream is not closed is attached, so that nothing opens     *)
(* another.  What is kept and heard was reported, in this order.           *)
(***************************************************************************)
Known(q, n) == q \in Seq(Nat) /\ Increasing(q) /\ \A i \in 1 .. Len(q) : q[i] <= n

HubTypes ==
    /\ entry \in BOOLEAN /\ attached \in BOOLEAN
    /\ connection \in [Streams -> {"none", "opening", "open"}]
    /\ generation \subseteq Streams /\ reported \in Nat
OneGeneration == \A s, t \in generation : s = t
OpenIsPresent == \A s \in Streams : connection[s] = "open" => s \in generation /\ s \in detacher
PresentIsAttached == \A s \in generation : connection[s] # "none" => entry /\ attached
HubStreams == HubTypes /\ OneGeneration /\ OpenIsPresent /\ PresentIsAttached
EventsAreKnown ==
    /\ Known(ring, reported)
    /\ heard \in [Viewers -> Seq(Nat)] /\ \A p \in Viewers : Known(heard[p], reported)

LEMMA KnownEmpty == ASSUME NEW n \in Nat PROVE Known(<<>>, n)
BY DEF Known, Increasing

\* A list of what was reported stays one when it gets the next event, once or
\* not at all.
LEMMA KnownCarried ==
    ASSUME NEW q, NEW n \in Nat, Known(q, n), NEW k \in {0, 1}
    PROVE  Known(q \o [i \in 1 .. k |-> n + 1], n + 1)
<1> DEFINE c == [i \in 1 .. k |-> n + 1]
           r == q \o c
<1>1. c \in Seq(Nat) /\ Len(c) = k /\ \A i \in 1 .. k : c[i] = n + 1
  OBVIOUS
<1>2. q \in Seq(Nat) /\ Len(q) \in Nat
  BY LenProperties DEF Known
<1>3. /\ r \in Seq(Nat) /\ Len(r) = Len(q) + k
      /\ \A i \in 1 .. Len(q) + k : r[i] = IF i <= Len(q) THEN q[i] ELSE c[i - Len(q)]
  <2> HIDE DEF c
  <2>1. QED
    BY <1>1, <1>2, ConcatProperties
<1>4. \A i \in 1 .. Len(q) : q[i] \in Nat /\ q[i] <= n
  BY <1>2, ElementOfSeq DEF Known
<1>5. \A i \in 1 .. Len(q) - 1 : q[i] < q[i + 1]
  BY DEF Known, Increasing
<1>6. ASSUME NEW i \in 1 .. Len(r) PROVE r[i] <= n + 1
  <2> HIDE DEF c, r
  <2>1. CASE i <= Len(q)
    <3>1. i \in 1 .. Len(q) /\ i \in 1 .. Len(q) + k
      BY <2>1, <1>2, <1>3
    <3>2. r[i] = q[i] /\ q[i] \in Nat /\ q[i] <= n
      BY <3>1, <2>1, <1>3, <1>4
    <3>3. QED
      BY <3>2
  <2>2. CASE ~ i <= Len(q)
    <3>1. i - Len(q) \in 1 .. k
      BY <2>2, <1>2, <1>3
    <3>2. r[i] = n + 1
      BY <3>1, <2>2, <1>1, <1>2, <1>3
    <3>3. QED
      BY <3>2
  <2>3. QED
    BY <2>1, <2>2
<1>7. ASSUME NEW i \in 1 .. Len(r) - 1 PROVE r[i] < r[i + 1]
  <2> HIDE DEF c, r
  <2>0. i \in 1 .. Len(r) /\ i + 1 \in 1 .. Len(r)
    BY <1>2, <1>3
  <2>1. CASE i + 1 <= Len(q)
    <3>1. r[i] = q[i] /\ r[i + 1] = q[i + 1] /\ i \in 1 .. Len(q) - 1
      BY <2>0, <2>1, <1>2, <1>3
    <3>2. QED
      BY <3>1, <1>5
  <2>2. CASE ~ i + 1 <= Len(q)
    <3>1. i <= Len(q) /\ i + 1 - Len(q) \in 1 .. k
      BY <2>0, <2>2, <1>2, <1>3
    <3>2. r[i] = q[i] /\ r[i + 1] = n + 1
      BY <3>1, <2>0, <2>2, <1>1, <1>2, <1>3
    <3>3. i \in 1 .. Len(q)
      BY <3>1, <1>2
    <3>4. QED
      BY <3>2, <3>3, <1>4
  <2>3. QED
    BY <2>1, <2>2
<1>8. QED
  BY <1>3, <1>6, <1>7 DEF Known, Increasing

LEMMA KnownTail ==
    ASSUME NEW q, NEW n \in Nat, Known(q, n), NEW m \in 1 .. Len(q) + 1
    PROVE  Known(SubSeq(q, m, Len(q)), n)
<1> DEFINE r == SubSeq(q, m, Len(q))
<1>1. q \in Seq(Nat) /\ Len(q) \in Nat
  BY LenProperties DEF Known
<1>2. /\ r \in Seq(Nat) /\ Len(r) = IF m <= Len(q) THEN Len(q) - m + 1 ELSE 0
      /\ \A i \in 1 .. Len(r) : r[i] = q[m + i - 1]
  <2>1. \A i \in m .. Len(q) : q[i] \in Nat
    BY <1>1, ElementOfSeq
  <2>2. QED
    BY <1>1, <2>1, SubSeqProperties
<1> HIDE DEF r
<1>3. \A i \in 1 .. Len(r) : m + i - 1 \in 1 .. Len(q)
  BY <1>1, <1>2
<1>4. \A i \in 1 .. Len(r) : r[i] <= n
  BY <1>2, <1>3 DEF Known
<1>5. ASSUME NEW i \in 1 .. Len(r) - 1 PROVE r[i] < r[i + 1]
  <2>1. i \in 1 .. Len(r) /\ i + 1 \in 1 .. Len(r)
    BY <1>1, <1>2
  <2>2. r[i] = q[m + i - 1] /\ r[i + 1] = q[m + i] /\ m + i - 1 \in 1 .. Len(q) - 1
    <3>1. m + (i + 1) - 1 = m + i /\ m + i - 1 \in 1 .. Len(q) - 1
      <4>1. Len(r) = IF m <= Len(q) THEN Len(q) - m + 1 ELSE 0
        BY <1>2
      <4>2. i \in Nat /\ 1 <= i /\ i + 1 <= Len(r) /\ m \in Nat /\ 1 <= m /\ Len(q) \in Nat
        BY <1>1, <1>2
      <4>3. QED
        BY <4>1, <4>2
    <3>2. r[i] = q[m + i - 1] /\ r[i + 1] = q[m + (i + 1) - 1]
      BY <2>1, <1>2
    <3>3. QED
      BY <3>1, <3>2
  <2>3. m + i - 1 \in Int /\ (m + i - 1) + 1 = m + i
    OBVIOUS
  <2>4. q[m + i - 1] < q[(m + i - 1) + 1]
    BY <2>2 DEF Known, Increasing
  <2>5. QED
    BY <2>2, <2>3, <2>4
<1>6. QED
  BY <1>2, <1>4, <1>5 DEF r, Known, Increasing

LEMMA KnownLater ==
    ASSUME NEW q, NEW n \in Nat, Known(q, n) PROVE Known(q, n + 1)
<1>1. \A i \in 1 .. Len(q) : q[i] \in Nat /\ q[i] <= n
  BY ElementOfSeq DEF Known
<1>2. QED
  BY <1>1 DEF Known

LEMMA HubStreamsInit == SessionHubInit => HubStreams /\ EventsAreKnown
<1> SUFFICES ASSUME SessionHubInit PROVE HubStreams /\ EventsAreKnown
  OBVIOUS
<1>1. HubStreams
  BY DEF SessionHubInit, HubStreams, HubTypes, OneGeneration, OpenIsPresent, PresentIsAttached
<1>2. <<>> \in Seq(Nat) /\ reported \in Nat /\ ring = <<>> /\ heard = [p \in Viewers |-> <<>>]
  BY DEF SessionHubInit
<1>3. QED
  BY <1>1, <1>2, KnownEmpty DEF EventsAreKnown

\* What attaching leaves, if no stream of the generation is under way unless
\* the entry is attached.
LEMMA Attach ==
    ASSUME HubTypes, NEW conn \in [Streams -> {"none", "opening", "open"}], NEW is \in BOOLEAN,
           \A s \in Streams : conn[s] = "open" => s \in generation /\ s \in detacher,
           OneGeneration, \A s \in generation : conn[s] # "none" => is,
           attach(conn, is), entry' = TRUE, detacher' = detacher, reported' \in Nat
    PROVE  HubStreams'
<1>1. CASE is
  BY <1>1 DEF attach, HubStreams, HubTypes, OneGeneration, OpenIsPresent, PresentIsAttached
<1>2. CASE ~ is
  <2>1. \A s \in Streams : conn[s] # "open"
    BY <1>2
  <2>2. PICK s \in Streams : /\ conn[s] = "none" /\ attached' = TRUE
                             /\ connection' = [conn EXCEPT ![s] = "opening"] /\ generation' = {s}
    BY <1>2 DEF attach
  <2>3. \A t \in Streams : connection'[t] # "open"
    BY <2>1, <2>2
  <2>4. connection' \in [Streams -> {"none", "opening", "open"}]
    BY <2>2
  <2>5. QED
    BY <2>2, <2>3, <2>4 DEF HubStreams, HubTypes, OneGeneration, OpenIsPresent, PresentIsAttached
<1>3. QED
  BY <1>1, <1>2

LEMMA EnsureStreams ==
    ASSUME HubStreams, ensure, UNCHANGED <<detacher, reported>> PROVE HubStreams'
<1>1. attach(connection, entry /\ attached)
  BY DEF ensure
<1>2. (entry /\ attached) \in BOOLEAN
  OBVIOUS
<1>3. QED
  BY <1>1, <1>2, Attach
     DEF ensure, HubStreams, HubTypes, OpenIsPresent, PresentIsAttached

LEMMA CloseStreams ==
    ASSUME HubStreams, NEW s \in Streams, connection[s] # "none", onClose(s), UNCHANGED <<entry, detacher, reported>>
    PROVE  HubStreams'
<1> DEFINE closed == [connection EXCEPT ![s] = "none"]
<1>1. closed \in [Streams -> {"none", "opening", "open"}] /\ \A t \in Streams : closed[t] = IF t = s THEN "none" ELSE connection[t]
  BY DEF HubStreams, HubTypes
<1> HIDE DEF closed
<1>2. CASE s \notin generation
  BY <1>1, <1>2 DEF closed, onClose, HubStreams, HubTypes, OneGeneration, OpenIsPresent, PresentIsAttached
<1>3. CASE s \in generation
  <2>1. generation = {s} /\ \A t \in generation : closed[t] = "none"
    BY <1>1, <1>3 DEF HubStreams, HubTypes, OneGeneration
  <2>2. \A t \in Streams : closed[t] # "open"
    BY <1>1, <2>1 DEF HubStreams, OpenIsPresent
  <2>3. entry = TRUE
    BY <1>3 DEF HubStreams, PresentIsAttached, HubTypes
  <2>4. CASE listeners # {}
    <3>1. attach(closed, FALSE)
      BY <1>3, <2>4 DEF closed, onClose
    <3>2. QED
      BY <3>1, <1>1, <2>1, <2>2, <2>3, Attach DEF HubStreams, HubTypes
  <2>5. CASE listeners = {}
    <3>1. attached' = FALSE /\ connection' = closed /\ UNCHANGED generation
      BY <1>3, <2>5 DEF closed, onClose
    <3>2. QED
      BY <3>1, <1>1, <2>1, <2>2 DEF HubStreams, HubTypes, OneGeneration, OpenIsPresent, PresentIsAttached
  <2>6. QED
    BY <2>4, <2>5
<1>4. QED
  BY <1>2, <1>3

LEMMA HubStreamsStep == HubStreams /\ [SessionHubNext]_hubVars => HubStreams'
<1> SUFFICES ASSUME HubStreams, [SessionHubNext]_hubVars PROVE HubStreams'
  OBVIOUS
<1> USE DEF HubStreams
<1>1. CASE Poll
  BY <1>1, EnsureStreams DEF Poll
<1>2. CASE \E p \in Viewers : subscribe(p)
  BY <1>2, EnsureStreams DEF subscribe
<1>3. CASE onRuntimeEvent
  BY <1>3 DEF onRuntimeEvent, HubTypes, OneGeneration, OpenIsPresent, PresentIsAttached
<1>4. CASE clearConsole \/ ContainerMoves \/ UNCHANGED hubVars \/ \E p \in Viewers : unsubscribe(p)
  BY <1>4 DEF clearConsole, ContainerMoves, unsubscribe, hubVars, HubTypes, OneGeneration, OpenIsPresent,
     PresentIsAttached
<1>5. CASE remove
  <2>1. connection' \in [Streams -> {"none", "opening", "open"}]
    BY <1>5 DEF remove, HubTypes
  <2>2. \A s \in Streams : connection'[s] # "open"
    BY <1>5 DEF remove, OpenIsPresent
  <2>3. QED
    BY <1>5, <2>1, <2>2 DEF remove, HubTypes, OneGeneration, OpenIsPresent, PresentIsAttached
<1>6. ASSUME NEW s \in Streams, streamOpens(s) PROVE HubStreams'
  <2>1. connection' \in [Streams -> {"none", "opening", "open"}]
    BY <1>6 DEF streamOpens, HubTypes
  <2>2. CASE s \in generation
    BY <1>6, <2>1, <2>2 DEF streamOpens, HubTypes, OneGeneration, OpenIsPresent, PresentIsAttached
  <2>3. CASE s \notin generation
    BY <1>6, <2>1, <2>3 DEF streamOpens, HubTypes, OneGeneration, OpenIsPresent, PresentIsAttached
  <2>4. QED
    BY <2>2, <2>3
<1>7. ASSUME NEW s \in Streams, streamRefused(s) \/ streamBreaks(s) PROVE HubStreams'
  BY <1>7, CloseStreams DEF streamRefused, streamBreaks
<1>8. ASSUME NEW s \in Streams, streamFails(s) PROVE HubStreams'
  <2>1. connection' \in [Streams -> {"none", "opening", "open"}] /\ attached' \in BOOLEAN
    BY <1>8 DEF streamFails, HubTypes
  <2>2. \A t \in Streams : connection'[t] = IF t = s THEN "none" ELSE connection[t]
    BY <1>8 DEF streamFails, HubTypes
  <2>3. UNCHANGED <<generation, entry, detacher, reported>> /\ (attached' <=> attached /\ s \notin generation)
    BY <1>8 DEF streamFails
  <2>4. QED
    BY <2>1, <2>2, <2>3 DEF HubTypes, OneGeneration, OpenIsPresent, PresentIsAttached
<1>9. QED
  BY <1>1, <1>2, <1>3, <1>4, <1>5, <1>6, <1>7, <1>8 DEF SessionHubNext

\* One stream is open at most, so that an event is carried once at most.
LEMMA OneIsOpen ==
    ASSUME HubStreams
    PROVE  Cardinality({s \in Streams : connection[s] = "open"}) \in {0, 1}
<1> DEFINE O == {s \in Streams : connection[s] = "open"}
<1>1. \A s, t \in O : s = t
  BY DEF HubStreams, OneGeneration, OpenIsPresent
<1>2. CASE O = {}
  BY <1>2, FS_EmptySet
<1>3. CASE O # {}
  <2>1. PICK s \in O : O = {s}
    BY <1>1, <1>3
  <2>2. QED
    BY <2>1, FS_Singleton
<1>4. QED
  BY <1>2, <1>3

LEMMA EventsStep ==
    ASSUME HubBounds, HubStreams, EventsAreKnown, [SessionHubNext]_hubVars
    PROVE  EventsAreKnown'
<1>0. reported \in Nat
  BY DEF HubStreams, HubTypes
<1>1. CASE Poll
  <2>1. ring' \in {ring, <<>>} /\ UNCHANGED <<heard, reported>>
    BY <1>1 DEF Poll, ensure
  <2>2. QED
    BY <2>1, <1>0, KnownEmpty DEF EventsAreKnown
<1>2. ASSUME NEW p \in Viewers, subscribe(p) PROVE EventsAreKnown'
  <2>1. /\ ring' \in {ring, <<>>} /\ UNCHANGED reported
        /\ heard' = [heard EXCEPT ![p] = ring']
    BY <1>2 DEF subscribe, ensure
  <2>2. Known(ring', reported) /\ ring' \in Seq(Nat)
    BY <2>1, <1>0, KnownEmpty DEF EventsAreKnown, Known
  <2>3. heard' \in [Viewers -> Seq(Nat)] /\ \A r \in Viewers : heard'[r] = IF r = p THEN ring' ELSE heard[r]
    BY <2>1, <2>2 DEF EventsAreKnown
  <2>4. QED
    BY <2>1, <2>2, <2>3 DEF EventsAreKnown
<1>3. CASE onRuntimeEvent
  <2> DEFINE k == Cardinality({s \in Streams : connection[s] = "open"})
             carried == [i \in 1 .. k |-> reported + 1]
             more == ring \o carried
  <2>1. k \in {0, 1}
    BY OneIsOpen
  <2>2. /\ reported' = reported + 1
        /\ ring' = IF ~entry THEN ring
                   ELSE IF Len(more) > RingSize THEN SubSeq(more, Len(more) - RingSize + 1, Len(more)) ELSE more
        /\ heard' = [p \in Viewers |-> IF p \in listeners THEN heard[p] \o carried ELSE heard[p]]
    BY <1>3 DEF onRuntimeEvent
  <2> HIDE DEF k
  <2>3. Known(more, reported + 1)
    BY <2>1, <1>0, KnownCarried DEF EventsAreKnown
  <2>4. \A p \in Viewers : Known(heard[p] \o carried, reported + 1)
    BY <2>1, <1>0, KnownCarried DEF EventsAreKnown
  <2> HIDE DEF carried, more
  <2>5. Known(ring, reported + 1) /\ \A p \in Viewers : Known(heard[p], reported + 1)
    BY <1>0, KnownLater DEF EventsAreKnown
  <2>6. Known(ring', reported + 1)
    <3>1. CASE entry /\ Len(more) > RingSize
      <4>1. Len(more) \in Nat /\ RingSize \in Nat
        BY <2>3, LenProperties DEF Known, HubBounds
      <4>2. Len(more) - RingSize + 1 \in 1 .. Len(more) + 1
        BY <4>1, <3>1
      <4>3. reported + 1 \in Nat
        BY <1>0
      <4>4. QED
        BY <2>2, <2>3, <3>1, <4>2, <4>3, KnownTail
    <3>2. CASE ~ (entry /\ Len(more) > RingSize)
      BY <3>2, <2>2, <2>3, <2>5
    <3>3. QED
      BY <3>1, <3>2
  <2>7. \A p \in Viewers : heard'[p] = IF p \in listeners THEN heard[p] \o carried ELSE heard[p]
    BY <2>2
  <2>8. \A p \in Viewers : Known(heard'[p], reported + 1)
    BY <2>4, <2>5, <2>7
  <2>9. heard' \in [Viewers -> Seq(Nat)]
    <3>1. \A p \in Viewers : heard'[p] \in Seq(Nat)
      BY <2>8 DEF Known
    <3>2. heard' = [p \in Viewers |-> heard'[p]]
      BY <2>2
    <3>3. QED
      BY <3>1, <3>2
  <2>10. QED
    BY <2>2, <2>6, <2>8, <2>9 DEF EventsAreKnown
<1>4. CASE clearConsole
  <2>1. ring' = <<>> /\ UNCHANGED <<heard, reported>>
    BY <1>4 DEF clearConsole
  <2>2. QED
    BY <2>1, <1>0, KnownEmpty DEF EventsAreKnown
<1>5. CASE remove \/ ContainerMoves \/ UNCHANGED hubVars \/ \E p \in Viewers : unsubscribe(p)
  <2>1. UNCHANGED <<ring, heard, reported>>
    BY <1>5 DEF remove, ContainerMoves, hubVars, unsubscribe
  <2>2. QED
    BY <2>1 DEF EventsAreKnown
<1>6. CASE \E s \in Streams : streamOpens(s) \/ streamRefused(s) \/ streamFails(s) \/ streamBreaks(s)
  <2>1. UNCHANGED <<ring, heard, reported>>
    BY <1>6 DEF streamOpens, streamRefused, streamFails, streamBreaks
  <2>2. QED
    BY <2>1 DEF EventsAreKnown
<1>7. QED
  BY <1>1, <1>2, <1>3, <1>4, <1>5, <1>6 DEF SessionHubNext

LEMMA HubKeepsItsStreams == HubStreams /\ EventsAreKnown => HubHoldsItsStreams
<1> SUFFICES ASSUME HubStreams, EventsAreKnown PROVE HubHoldsItsStreams
  OBVIOUS
<1>1. {s \in Streams : connection[s] = "open"} \subseteq IF entry THEN detacher ELSE {}
  BY DEF HubStreams, OpenIsPresent, PresentIsAttached
<1>2. QED
  BY <1>1 DEF EventsAreKnown, Known, HubHoldsItsStreams

\* The hub of a session, for any number of pages, streams, events and breaks:
\* one stream at most, which it can detach, and no event twice.
THEOREM HubStreamsAreHeld == SessionHubSpec => []HubHoldsItsStreams
<1> DEFINE I == HubStreams /\ EventsAreKnown
<1>1. SessionHubInit => I
  BY HubStreamsInit
<1>2. I /\ [SessionHubNext]_hubVars => I'
  BY HubStreamsStep, EventsStep, HubBounds
<1>3. I => HubHoldsItsStreams
  BY HubKeepsItsStreams
<1>4. QED
  BY <1>1, <1>2, <1>3, PTL DEF SessionHubSpec

-----------------------------------------------------------------------------
(***************************************************************************)
(* The page of a run.  What is on its way to the page continues what is    *)
(* shown, and the route will continue what is on its way: it goes on after *)
(* the last it sent, and began after the last that was shown.              *)
(***************************************************************************)
ShownCount == Len(shownEvents)
PageTypes ==
    /\ testRun \in [over : BOOLEAN, events : Nat]
    /\ loop \in [at : {"off", "connecting", "open"}, after : Nat, idleTicks : 0 .. 2]
    /\ info \in {"none", "active", "over"} /\ polling \in BOOLEAN
    /\ polls \in [Polls -> {"idle", "sent", "active", "over"}]
    /\ shownEvents \in Seq(Nat) /\ pipe \in Seq(Nat)
ShownInOrder == ShownCount <= testRun.events /\ \A i \in 1 .. ShownCount : shownEvents[i] = i
PipeGoesOn ==
    \A i \in 1 .. Len(pipe) :
        \/ pipe[i] = ShownCount + i /\ ShownCount + i <= testRun.events
        \/ pipe[i] = Done /\ i = Len(pipe) /\ loop.idleTicks = 2
RouteGoesOn ==
    /\ loop.at # "open" => pipe = <<>>
    /\ loop.at = "open" /\ loop.idleTicks < 2 => loop.after = ShownCount + Len(pipe) /\ loop.after <= testRun.events
ReaderIsOn == info = "none" /\ ~ polling => loop.at = "off"
PageInv == PageTypes /\ ShownInOrder /\ PipeGoesOn /\ RouteGoesOn /\ ReaderIsOn
LEMMA PageInit == RunViewInit => PageInv
<1> SUFFICES ASSUME RunViewInit PROVE PageInv
  OBVIOUS
<1>1. Len(pipe) = 0 /\ ShownCount = 0 /\ pipe = <<>> /\ loop = LoopOff /\ pipe \in Seq(Nat) /\ shownEvents \in Seq(Nat)
  BY DEF RunViewInit, ShownCount
<1>2. PageTypes /\ ReaderIsOn
  <2>1. /\ loop.at = "off" /\ loop \in [at : {"off", "connecting", "open"}, after : Nat, idleTicks : 0 .. 2]
        /\ testRun \in [over : BOOLEAN, events : Nat]
    BY <1>1 DEF RunViewInit, LoopOff
  <2>2. polls \in [Polls -> {"idle", "sent", "active", "over"}]
    BY DEF RunViewInit
  <2>3. QED
    BY <1>1, <2>1, <2>2 DEF RunViewInit, PageTypes, ReaderIsOn
<1>3. ShownInOrder /\ PipeGoesOn /\ RouteGoesOn
  BY <1>1 DEF RunViewInit, LoopOff, ShownInOrder, PipeGoesOn, RouteGoesOn
<1>4. QED
  BY <1>2, <1>3 DEF PageInv

\* A step that leaves the two lists and the route alone, though the run may
\* have got on.
LEMMA PageFrame ==
    ASSUME PageInv, UNCHANGED <<loop, pipe, shownEvents>>,
           testRun' \in [over : BOOLEAN, events : Nat], testRun.events <= testRun'.events,
           info' \in {"none", "active", "over"}, polling' \in BOOLEAN,
           polls' \in [Polls -> {"idle", "sent", "active", "over"}],
           info' = "none" /\ ~ polling' => info = "none" /\ ~ polling
    PROVE  PageInv'
<1>1. testRun.events \in Nat /\ testRun'.events \in Nat /\ ShownCount \in Nat /\ Len(pipe) \in Nat
  BY LenProperties DEF PageInv, PageTypes, ShownCount
<1>2. ShownCount' = ShownCount
  BY DEF ShownCount
<1>3. PageTypes' /\ ReaderIsOn'
  BY DEF PageInv, PageTypes, ReaderIsOn
<1>4. ShownInOrder'
  BY <1>1, <1>2 DEF PageInv, ShownInOrder
<1>5. PipeGoesOn'
  BY <1>1, <1>2 DEF PageInv, PipeGoesOn
<1>6. RouteGoesOn'
  <2>1. loop.after \in Nat
    BY DEF PageInv, PageTypes
  <2>2. QED
    BY <1>1, <1>2, <2>1 DEF PageInv, RouteGoesOn
<1>7. QED
  BY <1>3, <1>4, <1>5, <1>6 DEF PageInv

\* A step that closes the stream or has the page connect again.
LEMMA PageReset ==
    ASSUME PageInv, UNCHANGED <<testRun, shownEvents>>, pipe' = <<>>,
           loop' \in [at : {"off", "connecting"}, after : Nat, idleTicks : 0 .. 2],
           info' \in {"none", "active", "over"}, polling' \in BOOLEAN,
           polls' \in [Polls -> {"idle", "sent", "active", "over"}],
           info' = "none" /\ ~ polling' => loop'.at = "off"
    PROVE  PageInv'
<1>1. ShownCount' = ShownCount
  BY DEF ShownCount
<1>2. loop' \in [at : {"off", "connecting", "open"}, after : Nat, idleTicks : 0 .. 2] /\ loop'.at # "open"
  OBVIOUS
<1>3. PageTypes' /\ ReaderIsOn'
  BY <1>2 DEF PageInv, PageTypes, ReaderIsOn
<1>4. ShownInOrder' /\ PipeGoesOn' /\ RouteGoesOn'
  BY <1>1, <1>2 DEF PageInv, ShownInOrder, PipeGoesOn, RouteGoesOn
<1>5. QED
  BY <1>3, <1>4 DEF PageInv

LEMMA SetInfoStep ==
    ASSUME PageInv, NEW v \in {"active", "over"}, setInfo(v), UNCHANGED <<testRun, shownEvents>>,
           polls' \in [Polls -> {"idle", "sent", "active", "over"}]
    PROVE  PageInv'
<1>1. info' = v /\ polling' = (v # "over")
  BY DEF setInfo
<1>2. /\ LoopOff \in [at : {"off", "connecting"}, after : Nat, idleTicks : 0 .. 2]
      /\ Begin \in [at : {"off", "connecting"}, after : Nat, idleTicks : 0 .. 2]
  BY DEF LoopOff, Begin
<1>3. CASE v = "over" \/ info = "over"
  <2>1. loop' \in {LoopOff, Begin} /\ pipe' = <<>>
    BY <1>3 DEF setInfo
  <2>2. QED
    BY <1>1, <1>2, <2>1, PageReset
<1>4. CASE v # "over" /\ info # "over"
  <2>1. UNCHANGED <<loop, pipe>>
    BY <1>4 DEF setInfo
  <2>2. testRun' \in [over : BOOLEAN, events : Nat] /\ testRun.events <= testRun'.events
    BY DEF PageInv, PageTypes
  <2>3. QED
    BY <1>1, <2>1, <2>2, PageFrame
<1>5. QED
  BY <1>3, <1>4

LEMMA ConnectStep == PageInv /\ connectEvents => PageInv'
<1> SUFFICES ASSUME PageInv, connectEvents PROVE PageInv'
  OBVIOUS
<1>1. ShownCount \in Nat /\ ShownCount' = ShownCount /\ Len(pipe) = 0
  BY LenProperties DEF connectEvents, PageInv, PageTypes, RouteGoesOn, ShownCount
<1>2. lastEventId = ShownCount
  BY <1>1 DEF lastEventId, PageInv, PageTypes, ShownInOrder, ShownCount
<1>3. loop' = [at |-> "open", after |-> ShownCount, idleTicks |-> 0] /\ UNCHANGED <<testRun, info, polling, polls, pipe, shownEvents>>
  BY <1>2 DEF connectEvents, pageVars
<1>4. pipe = <<>> /\ loop.at = "connecting"
  BY DEF connectEvents, PageInv, RouteGoesOn
<1>5. PageTypes' /\ ReaderIsOn'
  BY <1>1, <1>3, <1>4 DEF PageInv, PageTypes, ReaderIsOn
<1>6. ShownInOrder' /\ PipeGoesOn'
  BY <1>1, <1>3, <1>4 DEF PageInv, ShownInOrder, PipeGoesOn
<1>7. RouteGoesOn'
  BY <1>1, <1>3, <1>4 DEF PageInv, ShownInOrder, RouteGoesOn
<1>8. QED
  BY <1>5, <1>6, <1>7 DEF PageInv

LEMMA Joined ==
    ASSUME NEW p \in Seq(Nat), NEW q \in Seq(Nat), NEW m \in Nat, NEW k \in Nat, m = Len(p), k = Len(q)
    PROVE  /\ p \o q \in Seq(Nat) /\ Len(p \o q) = m + k
           /\ \A i \in 1 .. m : (p \o q)[i] = p[i]
           /\ \A i \in 1 .. k : (p \o q)[m + i] = q[i]
<1>1. /\ p \o q \in Seq(Nat) /\ Len(p \o q) = m + k
      /\ \A i \in 1 .. m + k : (p \o q)[i] = IF i <= m THEN p[i] ELSE q[i - m]
  BY ConcatProperties
<1>2. \A i \in 1 .. m : i \in 1 .. m + k /\ i <= m
  OBVIOUS
<1>3. \A i \in 1 .. k : m + i \in 1 .. m + k /\ ~ m + i <= m /\ (m + i) - m = i
  OBVIOUS
<1>4. QED
  BY <1>1, <1>2, <1>3

LEMMA PumpStep == PageInv /\ pump => PageInv'
<1> SUFFICES ASSUME PageInv, pump PROVE PageInv'
  OBVIOUS
<1> DEFINE n == testRun.events
           k == n - loop.after
           more == [i \in 1 .. k |-> loop.after + i]
           ticks == IF testRun.over THEN loop.idleTicks + 1 ELSE 0
           end == IF ticks = 2 THEN <<Done>> ELSE <<>>
           e == Len(end)
           L == Len(pipe)
<1>1. /\ n \in Nat /\ loop.after \in Nat /\ loop.idleTicks \in 0 .. 1 /\ loop.at = "open"
      /\ ShownCount \in Nat /\ L \in Nat /\ pipe \in Seq(Nat)
      /\ loop.after = ShownCount + L /\ loop.after <= n
  BY LenProperties DEF pump, PageInv, PageTypes, RouteGoesOn, ShownCount
<1>2. /\ loop' = [loop EXCEPT !.after = n, !.idleTicks = ticks]
      /\ pipe' = pipe \o more \o end
      /\ UNCHANGED <<testRun, info, polling, polls, shownEvents>>
  BY DEF pump, pageVars
<1>3. k \in Nat /\ ticks \in 0 .. 2
  BY <1>1 DEF PageInv, PageTypes
<1>4. more \in Seq(Nat) /\ Len(more) = k /\ \A i \in 1 .. k : more[i] = loop.after + i
  BY <1>1, <1>3
<1>5. end \in Seq(Nat) /\ e \in {0, 1} /\ (e = 1 => ticks = 2 /\ end[1] = Done) /\ (e = 0 <=> ticks # 2)
  BY DEF Done
<1> HIDE DEF more, end, ticks, n, k, e, L
<1>sizes. /\ L = Len(pipe) /\ e = Len(end) /\ n = testRun.events /\ k = n - loop.after
      /\ L \in Nat /\ e \in Nat /\ n \in Nat /\ k \in Nat /\ ShownCount \in Nat
  BY <1>1, <1>3, <1>5 DEF L, e, n, k
<1>6. /\ pipe \o more \in Seq(Nat) /\ Len(pipe \o more) = L + k
      /\ \A i \in 1 .. L : (pipe \o more)[i] = pipe[i]
      /\ \A i \in 1 .. k : (pipe \o more)[L + i] = more[i]
  <2>1. pipe \in Seq(Nat) /\ more \in Seq(Nat) /\ L = Len(pipe) /\ k = Len(more)
    BY <1>1, <1>4, <1>sizes
  <2>2. L \in Nat /\ k \in Nat
    BY <1>sizes
  <2>3. QED
    BY <2>1, <2>2, Joined
<1>7. /\ pipe' \in Seq(Nat) /\ Len(pipe') = (L + k) + e
      /\ \A i \in 1 .. L + k : pipe'[i] = (pipe \o more)[i]
      /\ \A i \in 1 .. e : pipe'[(L + k) + i] = end[i]
  <2> DEFINE p == pipe \o more
             m == L + k
  <2>1. m \in Nat
    BY <1>sizes
  <2>2. end \in Seq(Nat) /\ e = Len(end) /\ e \in Nat
    BY <1>5, <1>sizes
  <2>3. p \in Seq(Nat) /\ m = Len(p)
    BY <1>6
  <2>4. pipe' = p \o end
    BY <1>2
  <2> HIDE DEF p, m
  <2>5. /\ p \o end \in Seq(Nat) /\ Len(p \o end) = m + e
        /\ \A i \in 1 .. m : (p \o end)[i] = p[i]
        /\ \A i \in 1 .. e : (p \o end)[m + i] = end[i]
    BY <2>1, <2>2, <2>3, Joined
  <2>6. /\ pipe' \in Seq(Nat) /\ Len(pipe') = m + e
        /\ \A i \in 1 .. m : pipe'[i] = p[i]
        /\ \A i \in 1 .. e : pipe'[m + i] = end[i]
    BY <2>4, <2>5
  <2>7. QED
    BY <2>6 DEF p, m
<1>8. /\ loop' \in [at : {"off", "connecting", "open"}, after : Nat, idleTicks : 0 .. 2]
      /\ loop'.at = "open" /\ loop'.after = n /\ loop'.idleTicks = ticks
  BY <1>1, <1>2, <1>3, <1>sizes DEF PageInv, PageTypes
<1>9. ShownCount' = ShownCount
  BY <1>2 DEF ShownCount
<1>10. PageTypes' /\ ReaderIsOn' /\ ShownInOrder'
  BY <1>2, <1>7, <1>8, <1>9 DEF PageInv, PageTypes, ReaderIsOn, ShownInOrder
<1>11. \A i \in 1 .. L : pipe[i] = ShownCount + i /\ ShownCount + i <= n
  <2>1. loop.idleTicks # 2
    BY <1>1
  <2>2. QED
    BY <2>1, <1>sizes DEF PageInv, PipeGoesOn
<1>12. ASSUME NEW i \in 1 .. (L + k) + e
       PROVE  \/ pipe'[i] = ShownCount + i /\ ShownCount + i <= n
              \/ pipe'[i] = Done /\ i = (L + k) + e /\ ticks = 2
  <2>1. CASE i <= L
    <3>1. i \in 1 .. L /\ i \in 1 .. L + k
      BY <2>1, <1>sizes
    <3>2. QED
      BY <3>1, <1>6, <1>7, <1>11
  <2>2. CASE L < i /\ i <= L + k
    <3>1. i - L \in 1 .. k /\ i \in 1 .. L + k /\ L + (i - L) = i
      BY <2>2, <1>sizes
    <3>2. pipe'[i] = more[i - L]
      BY <3>1, <1>6, <1>7
    <3>3. more[i - L] = loop.after + (i - L) /\ loop.after = ShownCount + L
      BY <3>1, <1>1, <1>4, <1>sizes
    <3>4. loop.after + (i - L) = ShownCount + i /\ ShownCount + i <= n
      BY <3>3, <2>2, <1>1, <1>sizes
    <3>5. QED
      BY <3>2, <3>3, <3>4
  <2>3. CASE L + k < i
    <3>1. e \in {0, 1}
      BY <1>5
    <3>2. L \in Nat /\ k \in Nat /\ e \in Nat /\ L + k \in Nat
      BY <1>sizes
    <3>3. i \in Nat /\ L + k < i /\ i <= (L + k) + e
      BY <2>3, <3>2
    <3>4. e = 1 /\ i = (L + k) + 1
      BY <3>1, <3>2, <3>3
    <3>5. pipe'[(L + k) + 1] = end[1]
      BY <3>4, <1>7
    <3>6. QED
      BY <3>4, <3>5, <1>5
  <2>4. QED
    BY <2>1, <2>2, <2>3, <1>sizes
<1>13. PipeGoesOn'
  <2>1. ASSUME NEW i \in 1 .. Len(pipe')
        PROVE  \/ pipe'[i] = ShownCount + i /\ ShownCount + i <= n
               \/ pipe'[i] = Done /\ i = Len(pipe') /\ ticks = 2
    BY <1>7, <1>12
  <2>2. testRun'.events = n /\ loop'.idleTicks = ticks
    BY <1>2, <1>8, <1>sizes
  <2>3. QED
    BY <2>1, <2>2, <1>9 DEF PipeGoesOn
<1>14. RouteGoesOn'
  <2>1. ticks < 2 => Len(pipe') = L + k
    BY <1>sizes, <1>3, <1>5, <1>7
  <2>2. loop.after = ShownCount + L
    BY <1>1, <1>sizes
  <2>3. ShownCount + (L + k) = n
    BY <2>2, <1>1, <1>sizes
  <2>4. testRun'.events = n
    BY <1>2, <1>sizes
  <2>5. loop'.at = "open" /\ loop'.after = n /\ loop'.idleTicks = ticks /\ n <= n
    BY <1>8, <1>sizes
  <2>6. QED
    BY <2>1, <2>3, <2>4, <2>5, <1>9 DEF RouteGoesOn
<1>15. QED
  BY <1>10, <1>13, <1>14 DEF PageInv

LEMMA OnEventStep == PageInv /\ onEvent => PageInv'
<1> SUFFICES ASSUME PageInv, onEvent PROVE PageInv'
  OBVIOUS
<1>1. UNCHANGED <<testRun, polls>> /\ pipe # <<>> /\ pipe \in Seq(Nat) /\ shownEvents \in Seq(Nat)
  BY DEF onEvent, PageInv, PageTypes
<1>2. CASE Head(pipe) = Done /\ setInfo("over") /\ UNCHANGED shownEvents
  BY <1>1, <1>2, SetInfoStep DEF PageInv, PageTypes
<1>3. CASE /\ Head(pipe) # Done /\ shownEvents' = Append(shownEvents, Head(pipe)) /\ pipe' = Tail(pipe)
           /\ UNCHANGED <<pageVars, due, loop>>
  <2> DEFINE n == ShownCount
             L == Len(pipe)
  <2>1. n \in Nat /\ L \in Nat /\ L >= 1 /\ Head(pipe) = pipe[1] /\ testRun.events \in Nat
    BY <1>1, EmptySeq, LenProperties DEF ShownCount, PageInv, PageTypes
  <2>2. pipe[1] = n + 1 /\ n + 1 <= testRun.events
    BY <2>1, <1>3 DEF PageInv, PipeGoesOn
  <2>3. /\ pipe' \in Seq(Nat) /\ Len(pipe') = L - 1
        /\ \A i \in 1 .. L - 1 : pipe'[i] = pipe[i + 1]
    BY <1>1, <1>3, <2>1, HeadTailProperties
  <2>4. /\ shownEvents' \in Seq(Nat) /\ ShownCount' = n + 1
        /\ \A i \in 1 .. n : shownEvents'[i] = shownEvents[i]
        /\ shownEvents'[n + 1] = n + 1
    <3>1. shownEvents' = Append(shownEvents, n + 1)
      BY <1>3, <2>1, <2>2
    <3>2. QED
      BY <3>1, <1>1, <2>1, AppendProperties DEF ShownCount
  <2>5. \A i \in 1 .. n + 1 : shownEvents'[i] = i
    <3>1. \A i \in 1 .. n : shownEvents[i] = i
      BY DEF PageInv, ShownInOrder
    <3>2. \A i \in 1 .. n + 1 : i \in 1 .. n \/ i = n + 1
      BY <2>1
    <3>3. QED
      BY <2>4, <3>1, <3>2
  <2>6. UNCHANGED <<info, polling, loop>>
    BY <1>3 DEF pageVars
  <2>7. PageTypes' /\ ReaderIsOn' /\ ShownInOrder'
    BY <1>1, <2>2, <2>3, <2>4, <2>5, <2>6 DEF PageInv, PageTypes, ReaderIsOn, ShownInOrder
  <2>8. PipeGoesOn'
    <3>1. ASSUME NEW i \in 1 .. Len(pipe')
          PROVE  \/ pipe'[i] = ShownCount' + i /\ ShownCount' + i <= testRun.events
                 \/ pipe'[i] = Done /\ i = Len(pipe') /\ loop.idleTicks = 2
      <4>1a. i \in 1 .. L - 1 /\ pipe'[i] = pipe[i + 1]
        BY <2>3
      <4>1. i \in 1 .. L - 1 /\ i + 1 \in 1 .. L /\ pipe'[i] = pipe[i + 1] /\ (n + 1) + i = n + (i + 1)
        BY <2>1, <4>1a
      <4>2. \/ pipe[i + 1] = n + (i + 1) /\ n + (i + 1) <= testRun.events
            \/ pipe[i + 1] = Done /\ i + 1 = L /\ loop.idleTicks = 2
        BY <4>1 DEF PageInv, PipeGoesOn
      <4>3. i + 1 = L => i = Len(pipe')
        BY <4>1, <2>1, <2>3
      <4>4. QED
        BY <4>1, <4>2, <4>3, <2>4
    <3>2. QED
      BY <3>1, <1>1, <2>6 DEF PipeGoesOn
  <2>9. RouteGoesOn'
    <3>1. loop.at = "open"
      BY <1>1 DEF PageInv, RouteGoesOn
    <3>2. n + L = (n + 1) + (L - 1)
      BY <2>1
    <3>3. QED
      BY <3>1, <3>2, <1>1, <2>3, <2>4, <2>6 DEF PageInv, RouteGoesOn
  <2>10. QED
    BY <2>7, <2>8, <2>9 DEF PageInv
<1>4. QED
  BY <1>2, <1>3 DEF onEvent

LEMMA PageStep == PageInv /\ [RunViewNext]_vVars => PageInv'
<1> SUFFICES ASSUME PageInv, [RunViewNext]_vVars PROVE PageInv'
  OBVIOUS
<1>0. /\ testRun \in [over : BOOLEAN, events : Nat] /\ testRun.events <= testRun.events
      /\ info \in {"none", "active", "over"} /\ polling \in BOOLEAN
      /\ polls \in [Polls -> {"idle", "sent", "active", "over"}]
  BY DEF PageInv, PageTypes
<1>1. CASE TestRunBrowser
  <2>1. /\ UNCHANGED <<testRun, shownEvents, info, polls, pipe>> /\ polling' = TRUE
        /\ loop' = Begin /\ info = "none" /\ ~ polling
    BY <1>1 DEF TestRunBrowser
  <2>2. pipe' = <<>>
    BY <2>1 DEF PageInv, ReaderIsOn, RouteGoesOn
  <2>3. Begin \in [at : {"off", "connecting"}, after : Nat, idleTicks : 0 .. 2]
    BY DEF Begin, LoopOff
  <2>4. QED
    BY <1>0, <2>1, <2>2, <2>3, PageReset
<1>2. CASE RunMoves \/ stopTests
  <2>1. testRun' \in [over : BOOLEAN, events : Nat] /\ testRun.events <= testRun'.events
    <3>1. \/ testRun' = [testRun EXCEPT !.events = @ + 1]
          \/ testRun' = [testRun EXCEPT !.over = TRUE]
      BY <1>2 DEF RunMoves, stopTests
    <3>2. testRun.events \in Nat
      BY <1>0
    <3>3. CASE testRun' = [testRun EXCEPT !.events = @ + 1]
      BY <1>0, <3>2, <3>3
    <3>4. CASE testRun' = [testRun EXCEPT !.over = TRUE]
      BY <1>0, <3>2, <3>4
    <3>5. QED
      BY <3>1, <3>3, <3>4
  <2>2. UNCHANGED <<loop, pipe, shownEvents, info, polling, polls>>
    BY <1>2 DEF RunMoves, stopTests, pageVars
  <2>3. QED
    BY <1>0, <2>1, <2>2, PageFrame
<1>3. CASE onFinished \/ UNCHANGED vVars
  <2>1. UNCHANGED <<loop, pipe, shownEvents, info, polling, polls, testRun>>
    BY <1>3 DEF onFinished, vVars
  <2>2. QED
    BY <1>0, <2>1, PageFrame
<1>4. ASSUME NEW p \in Polls, refresh(p) \/ buildRunInfo(p) \/ RefreshFails(p) PROVE PageInv'
  <2>1. UNCHANGED <<loop, pipe, shownEvents, info, polling, testRun>>
    BY <1>4 DEF refresh, buildRunInfo, RefreshFails, pageVars
  <2>2. polls' \in [Polls -> {"idle", "sent", "active", "over"}]
    BY <1>0, <1>4 DEF refresh, buildRunInfo, RefreshFails
  <2>3. QED
    BY <1>0, <2>1, <2>2, PageFrame
<1>5. ASSUME NEW p \in Polls, Refreshed(p) PROVE PageInv'
  <2>1. polls' \in [Polls -> {"idle", "sent", "active", "over"}]
    BY <1>0, <1>5 DEF Refreshed
  <2>2. QED
    BY <1>5, <2>1, SetInfoStep DEF Refreshed
<1>6. CASE StreamBreaks
  <2>1. /\ UNCHANGED <<testRun, shownEvents, info, polling, polls>> /\ pipe' = <<>>
        /\ loop.at = "open" /\ loop' = [loop EXCEPT !.at = "connecting"]
    BY <1>6 DEF StreamBreaks, pageVars
  <2>2. loop' \in [at : {"off", "connecting"}, after : Nat, idleTicks : 0 .. 2]
    BY <2>1 DEF PageInv, PageTypes
  <2>3. ~ (info = "none" /\ ~ polling)
    BY <2>1 DEF PageInv, ReaderIsOn
  <2>4. QED
    BY <1>0, <2>1, <2>2, <2>3, PageReset
<1>7. QED
  BY <1>1, <1>2, <1>3, <1>4, <1>5, <1>6, ConnectStep, PumpStep, OnEventStep DEF RunViewNext

LEMMA PageInOrder == PageInv => EventsResume
<1> SUFFICES ASSUME PageInv PROVE EventsResume
  OBVIOUS
<1>1. shownEvents \in Seq(Nat) /\ \A i \in 1 .. Len(shownEvents) : shownEvents[i] = i
  BY DEF PageInv, PageTypes, ShownInOrder, ShownCount
<1>2. shownEvents = [i \in 1 .. Len(shownEvents) |-> shownEvents[i]]
  BY <1>1, LenProperties
<1>3. QED
  BY <1>1, <1>2 DEF EventsResume

\* The page of a run, for any number of events, polls and breaks: what it shows
\* are the events of the run in their order, from the first and without a gap.
THEOREM PageShowsEvents == RunViewSpec => []EventsResume
BY PageInit, PageStep, PageInOrder, PTL DEF RunViewSpec

-----------------------------------------------------------------------------
\* What holds of the hub and of the page holds where they run beside the
\* session, its picture and the other pages.
THEOREM StreamsAreHeld == FairPages => []StreamsHold
<1> DEFINE I == HubStreams /\ EventsAreKnown /\ PageInv
<1>1. PagesInit => I
  BY HubStreamsInit, PageInit DEF PagesInit
<1>2. I /\ [PagesNext]_watchedVars => I'
  <2> SUFFICES ASSUME I, [PagesNext]_watchedVars PROVE I'
    OBVIOUS
  <2>1. [SessionHubNext]_hubVars
    BY DEF PagesNext, watchedVars
  <2>2. [RunViewNext]_vVars
    BY DEF PagesNext, watchedVars
  <2>3. QED
    BY <2>1, <2>2, HubStreamsStep, EventsStep, PageStep, HubBounds
<1>3. I => StreamsHold
  BY HubKeepsItsStreams, PageInOrder DEF StreamsHold
<1>4. FairPages => PagesInit /\ [][PagesNext]_watchedVars
  BY DEF FairPages
<1>5. QED
  BY <1>1, <1>2, <1>3, <1>4, PTL

=============================================================================
