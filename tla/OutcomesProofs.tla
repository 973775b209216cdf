---------------------------- MODULE OutcomesProofs ----------------------------
(***************************************************************************)
(* Proofs about what users keep and see: the browser inside a sandbox, the *)
(* evidence and the artifacts of a session, the plan that is paid for, the *)
(* studio the tests are written in, the workbench packages are launched    *)
(* from and the interpretations a user asks for; and, from the proofs      *)
(* about conclusions, that the composition keeps all that is concluded.    *)
(***************************************************************************)
EXTENDS MCOutcomes, ConclusionsProofs, FiniteSetTheorems, SequenceTheorems, TLAPS

(***************************************************************************)
(* The browser of a sandbox.  A connection is made once per launch, and    *)
(* from the page's launch on its browser renders the size that input is    *)
(* checked against; a popup that is being opened was preceded by none.     *)
(***************************************************************************)
BrowserTypes ==
    /\ launched \in 0 .. MaxLaunches /\ process \in 0 .. launched /\ client \in 0 .. launched
    /\ alive \subseteq 1 .. launched
    /\ viewport \in Sizes /\ previousViewport \in Sizes /\ metrics \in [1 .. MaxLaunches -> Sizes]
    /\ targets \in Nat /\ tabs \subseteq [browser : 1 .. launched, target : 1 .. targets]
    /\ popup \in [client : Nat, target : Nat]
    /\ opening \in [at : {"no", "create", "attach", "confirm"}, target : Nat]

LifeFollows ==
    /\ runnerStatus = "idle" => life = "no" /\ client = 0
    /\ life \in {"launch", "attach"} => client = 0
    /\ life = "attach" => \A t \in tabs : t.browser # process

SizeFollows ==
    life \notin {"launch", "attach", "prepare"} /\ client \in alive => metrics[client] = viewport

PopupFollows ==
    /\ opening.at = "create" => popup = NoPopup
    /\ opening.at = "no" /\ popup.client = 0 => popup.target = 0
    /\ opening.at \in {"attach", "confirm"} => opening.target # 0

BrowserInv ==
    BrowserTypes /\ LifeFollows /\ SizeFollows /\ PopupFollows /\ PopupsAreTracked

LEMMA BrowserStart == BrowserInit => BrowserInv
BY RunnerBounds DEF BrowserInit, BrowserInv, BrowserTypes, LifeFollows, SizeFollows, PopupFollows,
   PopupsAreTracked, NoPopup, Idle

LEMMA BrowserStep == BrowserInv /\ [BrowserNext]_rbVars => BrowserInv'
<1> SUFFICES ASSUME BrowserInv, [BrowserNext]_rbVars
             PROVE  BrowserInv'
  OBVIOUS
<1> USE RunnerBounds DEF BrowserInv, popupVars, sizeVars, NoPopup
<1>1. CASE UNCHANGED rbVars
  BY <1>1 DEF rbVars, BrowserTypes, LifeFollows, SizeFollows, PopupFollows, PopupsAreTracked
<1>2. ASSUME NEW s \in Sizes, setViewport(s)
      PROVE  BrowserInv'
  <2>1. BrowserTypes'
    BY <1>2 DEF setViewport, applyViewport, BrowserTypes, LifeFollows
  <2>2. LifeFollows'
    BY <1>2 DEF setViewport, applyViewport, BrowserTypes, LifeFollows
  <2>3. SizeFollows'
    BY <1>2 DEF setViewport, applyViewport, BrowserTypes, LifeFollows, SizeFollows
  <2>4. PopupFollows'
    BY <1>2 DEF setViewport, applyViewport, BrowserTypes, PopupFollows
  <2>5. PopupsAreTracked'
    BY <1>2 DEF setViewport, applyViewport, BrowserTypes, LifeFollows, PopupFollows, PopupsAreTracked
  <2>6. QED
    BY <2>1, <2>2, <2>3, <2>4, <2>5
<1>3. CASE startCommand
  <2>1. BrowserTypes'
    BY <1>3 DEF startCommand, BrowserTypes, LifeFollows
  <2>2. LifeFollows'
    BY <1>3 DEF startCommand, BrowserTypes, LifeFollows
  <2>3. SizeFollows'
    BY <1>3 DEF startCommand, BrowserTypes, LifeFollows, SizeFollows
  <2>4. PopupFollows'
    BY <1>3 DEF startCommand, BrowserTypes, PopupFollows
  <2>5. PopupsAreTracked'
    BY <1>3 DEF startCommand, BrowserTypes, LifeFollows, PopupFollows, PopupsAreTracked
  <2>6. QED
    BY <2>1, <2>2, <2>3, <2>4, <2>5
<1>4. CASE spawnBrowser
  <2>1. BrowserTypes'
    BY <1>4 DEF spawnBrowser, BrowserTypes, LifeFollows
  <2>2. LifeFollows'
    BY <1>4 DEF spawnBrowser, BrowserTypes, LifeFollows
  <2>3. SizeFollows'
    BY <1>4 DEF spawnBrowser, BrowserTypes, LifeFollows, SizeFollows
  <2>4. PopupFollows'
    BY <1>4 DEF spawnBrowser, BrowserTypes, PopupFollows
  <2>5. PopupsAreTracked'
    BY <1>4 DEF spawnBrowser, BrowserTypes, LifeFollows, PopupFollows, PopupsAreTracked
  <2>6. QED
    BY <2>1, <2>2, <2>3, <2>4, <2>5
<1>5. CASE waitForCdp
  <2>1. BrowserTypes'
    <3>1. client' \in 0 .. launched
      <4>1. client' \in alive \/ client' = client
        BY <1>5 DEF waitForCdp
      <4>2. \A b \in alive : b \in 0 .. launched
        BY DEF BrowserTypes
      <4>3. QED
        BY <4>1, <4>2 DEF BrowserTypes
    <3>2. QED
      BY <1>5, <3>1 DEF waitForCdp, BrowserTypes
  <2>2. LifeFollows'
    BY <1>5 DEF waitForCdp, BrowserTypes, LifeFollows
  <2>3. SizeFollows'
    BY <1>5 DEF waitForCdp, BrowserTypes, LifeFollows, SizeFollows
  <2>4. PopupFollows'
    BY <1>5 DEF waitForCdp, BrowserTypes, PopupFollows
  <2>5. PopupsAreTracked'
    BY <1>5 DEF waitForCdp, BrowserTypes, LifeFollows, PopupFollows, PopupsAreTracked
  <2>6. QED
    BY <2>1, <2>2, <2>3, <2>4, <2>5
<1>6. CASE attachListeners
  <2>1. BrowserTypes'
    BY <1>6 DEF attachListeners, BrowserTypes, LifeFollows
  <2>2. LifeFollows'
    BY <1>6 DEF attachListeners, BrowserTypes, LifeFollows
  <2>3. SizeFollows'
    BY <1>6 DEF attachListeners, BrowserTypes, LifeFollows, SizeFollows
  <2>4. PopupFollows'
    BY <1>6 DEF attachListeners, BrowserTypes, PopupFollows
  <2>5. PopupsAreTracked'
    BY <1>6 DEF attachListeners, BrowserTypes, LifeFollows, PopupFollows, PopupsAreTracked
  <2>6. QED
    BY <2>1, <2>2, <2>3, <2>4, <2>5
<1>7. CASE launchPage
  <2>1. BrowserTypes'
    BY <1>7 DEF launchPage, applyViewport, BrowserTypes, LifeFollows
  <2>2. LifeFollows'
    BY <1>7 DEF launchPage, applyViewport, BrowserTypes, LifeFollows
  <2>3. SizeFollows'
    BY <1>7 DEF launchPage, applyViewport, BrowserTypes, LifeFollows, SizeFollows
  <2>4. PopupFollows'
    BY <1>7 DEF launchPage, applyViewport, BrowserTypes, PopupFollows
  <2>5. PopupsAreTracked'
    BY <1>7 DEF launchPage, applyViewport, BrowserTypes, LifeFollows, PopupFollows, PopupsAreTracked
  <2>6. QED
    BY <2>1, <2>2, <2>3, <2>4, <2>5
<1>8. CASE verifyExtensionLoaded
  <2>1. BrowserTypes'
    BY <1>8 DEF verifyExtensionLoaded, BrowserTypes, LifeFollows
  <2>2. LifeFollows'
    BY <1>8 DEF verifyExtensionLoaded, BrowserTypes, LifeFollows
  <2>3. SizeFollows'
    BY <1>8 DEF verifyExtensionLoaded, BrowserTypes, LifeFollows, SizeFollows
  <2>4. PopupFollows'
    BY <1>8 DEF verifyExtensionLoaded, BrowserTypes, PopupFollows
  <2>5. PopupsAreTracked'
    BY <1>8 DEF verifyExtensionLoaded, BrowserTypes, LifeFollows, PopupFollows, PopupsAreTracked
  <2>6. QED
    BY <2>1, <2>2, <2>3, <2>4, <2>5
<1>9. CASE restartExtension
  <2>1. BrowserTypes'
    BY <1>9 DEF restartExtension, stopBegins, detachPopup, BrowserTypes, LifeFollows
  <2>2. LifeFollows'
    BY <1>9 DEF restartExtension, stopBegins, detachPopup, BrowserTypes, LifeFollows
  <2>3. SizeFollows'
    BY <1>9 DEF restartExtension, stopBegins, detachPopup, BrowserTypes, LifeFollows, SizeFollows
  <2>4. PopupFollows'
    BY <1>9 DEF restartExtension, stopBegins, detachPopup, BrowserTypes, PopupFollows
  <2>5. PopupsAreTracked'
    BY <1>9 DEF restartExtension, stopBegins, detachPopup, BrowserTypes, LifeFollows, PopupFollows, PopupsAreTracked
  <2>6. QED
    BY <2>1, <2>2, <2>3, <2>4, <2>5
<1>10. CASE stopCommand
  <2>1. BrowserTypes'
    BY <1>10 DEF stopCommand, stopBegins, detachPopup, BrowserTypes, LifeFollows
  <2>2. LifeFollows'
    BY <1>10 DEF stopCommand, stopBegins, detachPopup, BrowserTypes, LifeFollows
  <2>3. SizeFollows'
    BY <1>10 DEF stopCommand, stopBegins, detachPopup, BrowserTypes, LifeFollows, SizeFollows
  <2>4. PopupFollows'
    BY <1>10 DEF stopCommand, stopBegins, detachPopup, BrowserTypes, PopupFollows
  <2>5. PopupsAreTracked'
    BY <1>10 DEF stopCommand, stopBegins, detachPopup, BrowserTypes, LifeFollows, PopupFollows, PopupsAreTracked
  <2>6. QED
    BY <2>1, <2>2, <2>3, <2>4, <2>5
<1>11. CASE stopEnds
  <2>1. BrowserTypes'
    BY <1>11 DEF stopEnds, BrowserTypes, LifeFollows
  <2>2. LifeFollows'
    BY <1>11 DEF stopEnds, BrowserTypes, LifeFollows
  <2>3. SizeFollows'
    BY <1>11 DEF stopEnds, BrowserTypes, LifeFollows, SizeFollows
  <2>4. PopupFollows'
    BY <1>11 DEF stopEnds, BrowserTypes, PopupFollows
  <2>5. PopupsAreTracked'
    BY <1>11 DEF stopEnds, BrowserTypes, LifeFollows, PopupFollows, PopupsAreTracked
  <2>6. QED
    BY <2>1, <2>2, <2>3, <2>4, <2>5
<1>12. CASE restartEnds
  <2>1. BrowserTypes'
    BY <1>12 DEF restartEnds, restoreViewport, applyViewport, BrowserTypes, LifeFollows
  <2>2. LifeFollows'
    BY <1>12 DEF restartEnds, restoreViewport, applyViewport, BrowserTypes, LifeFollows
  <2>3. SizeFollows'
    BY <1>12 DEF restartEnds, restoreViewport, applyViewport, BrowserTypes, LifeFollows, SizeFollows
  <2>4. PopupFollows'
    BY <1>12 DEF restartEnds, restoreViewport, applyViewport, BrowserTypes, PopupFollows
  <2>5. PopupsAreTracked'
    BY <1>12 DEF restartEnds, restoreViewport, applyViewport, BrowserTypes, LifeFollows, PopupFollows, PopupsAreTracked
  <2>6. QED
    BY <2>1, <2>2, <2>3, <2>4, <2>5
<1>13. CASE processExit
  <2>1. BrowserTypes'
    BY <1>13 DEF processExit, BrowserTypes, LifeFollows
  <2>2. LifeFollows'
    BY <1>13 DEF processExit, BrowserTypes, LifeFollows
  <2>3. SizeFollows'
    BY <1>13 DEF processExit, BrowserTypes, LifeFollows, SizeFollows
  <2>4. PopupFollows'
    BY <1>13 DEF processExit, BrowserTypes, PopupFollows
  <2>5. PopupsAreTracked'
    BY <1>13 DEF processExit, BrowserTypes, LifeFollows, PopupFollows, PopupsAreTracked
  <2>6. QED
    BY <2>1, <2>2, <2>3, <2>4, <2>5
<1>14. CASE closeTarget
  <2>1. BrowserTypes'
    BY <1>14 DEF closeTarget, Tab, BrowserTypes, LifeFollows
  <2>2. LifeFollows'
    BY <1>14 DEF closeTarget, Tab, BrowserTypes, LifeFollows
  <2>3. SizeFollows'
    BY <1>14 DEF closeTarget, Tab, BrowserTypes, LifeFollows, SizeFollows
  <2>4. PopupFollows'
    BY <1>14 DEF closeTarget, Tab, BrowserTypes, PopupFollows
  <2>5. PopupsAreTracked'
    BY <1>14 DEF closeTarget, Tab, BrowserTypes, LifeFollows, PopupFollows, PopupsAreTracked
  <2>6. QED
    BY <2>1, <2>2, <2>3, <2>4, <2>5
<1>15. CASE openPopup
  <2>1. BrowserTypes'
    BY <1>15 DEF openPopup, quietOpen, Idle, BrowserTypes, LifeFollows
  <2>2. LifeFollows'
    BY <1>15 DEF openPopup, quietOpen, Idle, BrowserTypes, LifeFollows
  <2>3. SizeFollows'
    BY <1>15 DEF openPopup, quietOpen, Idle, BrowserTypes, LifeFollows, SizeFollows
  <2>4. PopupFollows'
    BY <1>15 DEF openPopup, quietOpen, Idle, BrowserTypes, PopupFollows
  <2>5. PopupsAreTracked'
    BY <1>15 DEF openPopup, quietOpen, Idle, BrowserTypes, LifeFollows, PopupFollows, PopupsAreTracked
  <2>6. QED
    BY <2>1, <2>2, <2>3, <2>4, <2>5
<1>16. CASE createTarget
  <2>1. BrowserTypes'
    <3>1. /\ targets' = targets + 1 /\ targets \in Nat /\ client \in 1 .. launched /\ launched \in Nat
          /\ tabs' = tabs \cup {[browser |-> client, target |-> targets']}
          /\ popup' = [popup EXCEPT !.target = targets']
          /\ opening' = [at |-> "attach", target |-> targets']
      BY <1>16 DEF createTarget, Tab, BrowserTypes
    <3>2. tabs' \subseteq [browser : 1 .. launched, target : 1 .. targets']
      BY <3>1, SMTT(30) DEF BrowserTypes
    <3>3. popup' \in [client : Nat, target : Nat] /\ opening' \in [at : {"no", "create", "attach", "confirm"}, target : Nat]
      BY <3>1, SMTT(30) DEF BrowserTypes
    <3>4. QED
      BY <1>16, <3>1, <3>2, <3>3 DEF createTarget, quietOpen, BrowserTypes
  <2>2. LifeFollows'
    BY <1>16 DEF createTarget, Tab, quietOpen, Idle, BrowserTypes, LifeFollows
  <2>3. SizeFollows'
    BY <1>16 DEF createTarget, Tab, quietOpen, Idle, BrowserTypes, LifeFollows, SizeFollows
  <2>4. PopupFollows'
    BY <1>16 DEF createTarget, Tab, quietOpen, Idle, BrowserTypes, PopupFollows
  <2>5. PopupsAreTracked'
    BY <1>16 DEF createTarget, Tab, quietOpen, Idle, BrowserTypes, LifeFollows, PopupFollows, PopupsAreTracked
  <2>6. QED
    BY <2>1, <2>2, <2>3, <2>4, <2>5
<1>17. CASE attachPopup
  <2>1. BrowserTypes'
    BY <1>17 DEF attachPopup, quietOpen, Idle, BrowserTypes, LifeFollows
  <2>2. LifeFollows'
    BY <1>17 DEF attachPopup, quietOpen, Idle, BrowserTypes, LifeFollows
  <2>3. SizeFollows'
    BY <1>17 DEF attachPopup, quietOpen, Idle, BrowserTypes, LifeFollows, SizeFollows
  <2>4. PopupFollows'
    BY <1>17 DEF attachPopup, quietOpen, Idle, BrowserTypes, PopupFollows
  <2>5. PopupsAreTracked'
    BY <1>17 DEF attachPopup, quietOpen, Idle, BrowserTypes, LifeFollows, PopupFollows, PopupsAreTracked
  <2>6. QED
    BY <2>1, <2>2, <2>3, <2>4, <2>5
<1>18. CASE confirmPopup
  <2>1. BrowserTypes'
    BY <1>18 DEF confirmPopup, quietOpen, Idle, BrowserTypes, LifeFollows
  <2>2. LifeFollows'
    BY <1>18 DEF confirmPopup, quietOpen, Idle, BrowserTypes, LifeFollows
  <2>3. SizeFollows'
    BY <1>18 DEF confirmPopup, quietOpen, Idle, BrowserTypes, LifeFollows, SizeFollows
  <2>4. PopupFollows'
    BY <1>18 DEF confirmPopup, quietOpen, Idle, BrowserTypes, PopupFollows
  <2>5. PopupsAreTracked'
    BY <1>18 DEF confirmPopup, quietOpen, Idle, BrowserTypes, LifeFollows, PopupFollows, PopupsAreTracked
  <2>6. QED
    BY <2>1, <2>2, <2>3, <2>4, <2>5
<1>19. CASE openFails
  <2>1. BrowserTypes'
    BY <1>19 DEF openFails, detachPopup, quietOpen, Idle, BrowserTypes, LifeFollows
  <2>2. LifeFollows'
    BY <1>19 DEF openFails, detachPopup, quietOpen, Idle, BrowserTypes, LifeFollows
  <2>3. SizeFollows'
    BY <1>19 DEF openFails, detachPopup, quietOpen, Idle, BrowserTypes, LifeFollows, SizeFollows
  <2>4. PopupFollows'
    BY <1>19 DEF openFails, detachPopup, quietOpen, Idle, BrowserTypes, PopupFollows
  <2>5. PopupsAreTracked'
    BY <1>19 DEF openFails, detachPopup, quietOpen, Idle, BrowserTypes, LifeFollows, PopupFollows, PopupsAreTracked
  <2>6. QED
    BY <2>1, <2>2, <2>3, <2>4, <2>5
<1>20. CASE closePopup
  <2>1. BrowserTypes'
    BY <1>20 DEF closePopup, detachPopup, quietOpen, Idle, BrowserTypes, LifeFollows
  <2>2. LifeFollows'
    BY <1>20 DEF closePopup, detachPopup, quietOpen, Idle, BrowserTypes, LifeFollows
  <2>3. SizeFollows'
    BY <1>20 DEF closePopup, detachPopup, quietOpen, Idle, BrowserTypes, LifeFollows, SizeFollows
  <2>4. PopupFollows'
    BY <1>20 DEF closePopup, detachPopup, quietOpen, Idle, BrowserTypes, PopupFollows
  <2>5. PopupsAreTracked'
    BY <1>20 DEF closePopup, detachPopup, quietOpen, Idle, BrowserTypes, LifeFollows, PopupFollows, PopupsAreTracked
  <2>6. QED
    BY <2>1, <2>2, <2>3, <2>4, <2>5
<1>21. QED
  BY <1>1, <1>2, <1>3, <1>4, <1>5, <1>6, <1>7, <1>8, <1>9, <1>10, <1>11, <1>12, <1>13, <1>14, <1>15, <1>16, <1>17, <1>18, <1>19, <1>20 DEF BrowserNext

\* Between commands the runner knows its browser, for every number of launches,
\* popups and sizes, and whichever command or exit came between two awaits of
\* another.
THEOREM BrowserStaysKnown == BrowserSpec => []BrowserIsKnown
<1>1. BrowserInv => BrowserIsKnown
  <2>1. SUFFICES ASSUME BrowserInv
                 PROVE  SizeIsRendered
    BY DEF BrowserInv, BrowserIsKnown
  <2>2. QED
    BY <2>1 DEF BrowserInv, SizeFollows, SizeIsRendered, validateInteractiveInput, dispatchInput
<1>2. QED
  BY BrowserStart, BrowserStep, <1>1, PTL DEF BrowserSpec

(***************************************************************************)
(* Evidence and artifacts.  A report refers to no more than is attached to *)
(* it, so that nothing is cut from it before the limit; an artifact loses  *)
(* its object only once it has expired, or before it had a row.            *)
(***************************************************************************)
EvidenceTypes ==
    /\ evidence \in [Items -> {Absent, NoReport} \cup Reports]
    /\ section \in [Reports -> Seq(Items)]
    /\ recipe \subseteq {e \in Items : evidence[e] = Absent}
    /\ IsFiniteSet(savedEvidence) /\ Cardinality(savedEvidence) <= MaxEvidence

\* What the report refers to, and what is attached to it.
Attaches(r) ==
    /\ Cardinality(attachedTo(r)) <= MaxItems + 1 => attachedTo(r) = ToSet(section[r])
    /\ ToSet(section[r]) \subseteq attachedTo(r)
    /\ IsInjective(section[r])
    /\ Len(section[r]) <= Cardinality(attachedTo(r))

ArtifactsFollow ==
    /\ registered \subseteq written
    /\ sweeping \subseteq expired
    /\ \A a \in registered \ expired : a \in object

EvidenceInv == EvidenceTypes /\ (\A r \in Reports : Attaches(r)) /\ ArtifactsFollow

LEMMA EvidenceStart == EvidenceInit => EvidenceInv
<1>1. SUFFICES ASSUME EvidenceInit
               PROVE  EvidenceInv
  OBVIOUS
<1>2. savedEvidence = {} /\ IsFiniteSet({}) /\ Cardinality({}) = 0
  BY <1>1, FS_EmptySet DEF EvidenceInit, savedEvidence
<1>3. EvidenceTypes
  BY <1>1, <1>2, EvidenceBounds DEF EvidenceInit, EvidenceTypes
<1>4. ASSUME NEW r \in Reports
      PROVE  Attaches(r)
  <2>1. attachedTo(r) = {} /\ section[r] = <<>>
    BY <1>1, EvidenceBounds DEF EvidenceInit, attachedTo
  <2>2. ToSet(<<>>) = {} /\ IsInjective(<<>>) /\ Len(<<>>) = 0
    BY DEF ToSet, IsInjective
  <2>3. QED
    BY <1>2, <2>1, <2>2 DEF Attaches
<1>5. ArtifactsFollow
  BY <1>1 DEF EvidenceInit, ArtifactsFollow
<1>6. QED
  BY <1>3, <1>4, <1>5 DEF EvidenceInv

\* The references of a report are cut to n and a new one is added: it is not
\* there twice, and nothing is lost while there are no more than n.
LEMMA ReferenceIsAdded ==
    ASSUME NEW s \in Seq(Items), IsInjective(s), NEW e \in Items, e \notin ToSet(s),
           NEW n \in Nat
    PROVE  LET cut == Append(SubSeq(s, 1, IF Len(s) < n THEN Len(s) ELSE n), e) IN
           /\ cut \in Seq(Items) /\ IsInjective(cut)
           /\ ToSet(cut) \subseteq ToSet(s) \cup {e}
           /\ Len(cut) <= Len(s) + 1
           /\ Len(s) <= n => ToSet(cut) = ToSet(s) \cup {e}
<1> DEFINE k    == IF Len(s) < n THEN Len(s) ELSE n
           head == SubSeq(s, 1, k)
           cut  == Append(head, e)
<1>1. k \in Nat /\ k <= Len(s) /\ Len(s) \in Nat /\ (Len(s) <= n => k = Len(s))
  OBVIOUS
<1>2. \A i \in 1 .. Len(s) : s[i] \in Items
  OBVIOUS
<1> HIDE DEF k
<1>3. /\ head \in Seq(Items) /\ Len(head) = k
      /\ \A i \in 1 .. k : head[i] = s[i]
  <2>1. \A i \in 1 .. k : s[i] \in Items
    BY <1>1, <1>2
  <2>2. /\ head \in Seq(Items) /\ Len(head) = IF 1 <= k THEN k - 1 + 1 ELSE 0
        /\ \A i \in 1 .. k - 1 + 1 : head[i] = s[1 + i - 1]
    BY <1>1, <2>1, SubSeqProperties
  <2>3. QED
    BY <1>1, <2>2
<1> HIDE DEF head
<1>4. /\ cut \in Seq(Items) /\ Len(cut) = k + 1
      /\ \A i \in 1 .. k : cut[i] = s[i]
      /\ cut[k + 1] = e
  BY <1>3, AppendProperties
<1> HIDE DEF cut
<1>5. DOMAIN cut = 1 .. k + 1 /\ DOMAIN s = 1 .. Len(s)
  BY <1>4
<1>6. \A i \in 1 .. Len(s) : s[i] # e
  BY <1>5 DEF ToSet
<1>7. IsInjective(cut)
  <2>1. \A i, j \in 1 .. Len(s) : s[i] = s[j] => i = j
    BY <1>5 DEF IsInjective
  <2>2. \A i \in 1 .. k + 1 : i = k + 1 \/ (i \in 1 .. k /\ i \in 1 .. Len(s))
    BY <1>1
  <2>3. QED
    BY <1>4, <1>5, <1>6, <2>1, <2>2 DEF IsInjective
<1>8. ToSet(cut) \subseteq ToSet(s) \cup {e}
  <2>1. \A i \in 1 .. k + 1 : i = k + 1 \/ (i \in 1 .. k /\ i \in 1 .. Len(s))
    BY <1>1
  <2>2. QED
    BY <1>4, <1>5, <2>1 DEF ToSet
<1>9. Len(s) <= n => ToSet(s) \cup {e} \subseteq ToSet(cut)
  <2>1. k + 1 \in 1 .. k + 1 /\ \A i \in 1 .. k : i \in 1 .. k + 1
    BY <1>1
  <2>2. QED
    BY <1>1, <1>4, <1>5, <2>1 DEF ToSet
<1>10. QED
  BY <1>1, <1>4, <1>7, <1>8, <1>9 DEF cut, head, k

\* What is attached stays attached when evidence without a report is saved or
\* removed.
LEMMA ReportsStay ==
    ASSUME EvidenceInv, NEW e \in Items, NEW new \in {Absent, NoReport},
           evidence[e] \in {Absent, NoReport},
           evidence' = [evidence EXCEPT ![e] = new], section' = section
    PROVE  \A r \in Reports : Attaches(r)'
<1>1. SUFFICES ASSUME NEW r \in Reports
               PROVE  Attaches(r)'
  OBVIOUS
<1>2. attachedTo(r)' = attachedTo(r)
  BY EvidenceBounds DEF EvidenceInv, EvidenceTypes, attachedTo
<1>3. Attaches(r)
  BY DEF EvidenceInv
<1>4. QED
  BY <1>2, <1>3 DEF Attaches

LEMMA EvidenceIsSaved ==
    ASSUME EvidenceInv, NEW e \in Items, evidence[e] = Absent,
           Cardinality(savedEvidence) < MaxEvidence,
           evidence' = [evidence EXCEPT ![e] = NoReport], section' = section,
           recipe' \subseteq recipe \ {e}
    PROVE  EvidenceTypes' /\ \A r \in Reports : Attaches(r)'
<1>1. savedEvidence' = savedEvidence \cup {e} /\ e \notin savedEvidence
  BY DEF EvidenceInv, EvidenceTypes, savedEvidence, Absent, NoReport
<1>2. IsFiniteSet(savedEvidence') /\ Cardinality(savedEvidence') = Cardinality(savedEvidence) + 1
  BY <1>1, FS_AddElement DEF EvidenceInv, EvidenceTypes
<1>3. Cardinality(savedEvidence) \in Nat
  BY FS_CardinalityType DEF EvidenceInv, EvidenceTypes
<1>4. Cardinality(savedEvidence') <= MaxEvidence
  BY <1>2, <1>3, EvidenceBounds
<1>5. EvidenceTypes'
  BY <1>2, <1>4 DEF EvidenceInv, EvidenceTypes
<1>6. QED
  BY <1>5, ReportsStay

LEMMA EvidenceIsRemoved ==
    ASSUME EvidenceInv, NEW e \in Items, removeSessionEvidence(e)
    PROVE  EvidenceTypes' /\ \A r \in Reports : Attaches(r)'
<1>1. /\ evidence[e] = NoReport /\ evidence' = [evidence EXCEPT ![e] = Absent]
      /\ UNCHANGED <<section, recipe>>
  BY DEF removeSessionEvidence
<1>2. savedEvidence' = savedEvidence \ {e} /\ e \in savedEvidence
  BY <1>1 DEF EvidenceInv, EvidenceTypes, savedEvidence, Absent, NoReport
<1>3. IsFiniteSet(savedEvidence') /\ Cardinality(savedEvidence') = Cardinality(savedEvidence) - 1
  BY <1>2, FS_RemoveElement DEF EvidenceInv, EvidenceTypes
<1>4. Cardinality(savedEvidence) \in Nat /\ Cardinality(savedEvidence) <= MaxEvidence
  BY FS_CardinalityType DEF EvidenceInv, EvidenceTypes
<1>5. Cardinality(savedEvidence') <= MaxEvidence
  BY <1>3, <1>4, EvidenceBounds
<1>6. EvidenceTypes'
  BY <1>1, <1>3, <1>5 DEF EvidenceInv, EvidenceTypes
<1>7. QED
  BY <1>1, <1>6, ReportsStay

LEMMA EvidenceIsAttached ==
    ASSUME EvidenceInv, NEW e \in Items, NEW r \in Reports, attachSessionEvidenceToReport(e, r)
    PROVE  EvidenceTypes' /\ \A q \in Reports : Attaches(q)'
<1> DEFINE s   == section[r]
           cut == Append(SubSeq(s, 1, IF Len(s) < MaxItems THEN Len(s) ELSE MaxItems), e)
<1>1. /\ evidence[e] = NoReport /\ evidence' = [evidence EXCEPT ![e] = r]
      /\ section' = [section EXCEPT ![r] = cut] /\ recipe' = recipe
  BY DEF attachSessionEvidenceToReport
<1>2. s \in Seq(Items) /\ Attaches(r) /\ e \notin attachedTo(r)
  BY <1>1, EvidenceBounds DEF EvidenceInv, EvidenceTypes, attachedTo
<1>3. /\ cut \in Seq(Items) /\ IsInjective(cut)
      /\ ToSet(cut) \subseteq ToSet(s) \cup {e}
      /\ Len(cut) <= Len(s) + 1
      /\ Len(s) <= MaxItems => ToSet(cut) = ToSet(s) \cup {e}
  BY <1>2, EvidenceBounds, ReferenceIsAdded DEF Attaches
<1>4. Len(cut) \in Nat /\ Len(s) \in Nat
  BY <1>2, <1>3
<1> HIDE DEF cut, s
<1>5. /\ section'[r] = cut /\ section[r] = s
      /\ \A q \in Reports \ {r} : section'[q] = section[q]
      /\ section' \in [Reports -> Seq(Items)]
  BY <1>1, <1>3 DEF EvidenceInv, EvidenceTypes, s
<1>6. savedEvidence' = savedEvidence
  BY <1>1, EvidenceBounds DEF EvidenceInv, EvidenceTypes, savedEvidence, Absent, NoReport
<1>7. EvidenceTypes'
  <2>1. \A x \in recipe : x \in Items /\ x # e /\ evidence[x] = Absent
    BY <1>1 DEF EvidenceInv, EvidenceTypes, Absent, NoReport
  <2>2. \A x \in recipe : evidence'[x] = Absent
    BY <1>1, <2>1 DEF EvidenceInv, EvidenceTypes
  <2>3. QED
    BY <1>1, <1>5, <1>6, <2>1, <2>2 DEF EvidenceInv, EvidenceTypes
<1>8. /\ attachedTo(r)' = attachedTo(r) \cup {e}
      /\ \A q \in Reports \ {r} : attachedTo(q)' = attachedTo(q)
  BY <1>1, EvidenceBounds DEF EvidenceInv, EvidenceTypes, attachedTo
<1>9. IsFiniteSet(attachedTo(r))
  <2>1. attachedTo(r) \subseteq savedEvidence
    BY EvidenceBounds DEF attachedTo, savedEvidence
  <2>2. QED
    BY <2>1, FS_Subset DEF EvidenceInv, EvidenceTypes
<1>10. /\ Cardinality(attachedTo(r)') = Cardinality(attachedTo(r)) + 1
       /\ Cardinality(attachedTo(r)) \in Nat
  BY <1>2, <1>8, <1>9, FS_AddElement, FS_CardinalityType
<1>11. Attaches(r)'
  <2> DEFINE c == Cardinality(attachedTo(r))
             d == Cardinality(attachedTo(r)')
  <2>1. /\ c \in Nat /\ d = c + 1 /\ Len(s) <= c /\ MaxItems \in Nat
        /\ c <= MaxItems + 1 => attachedTo(r) = ToSet(s)
        /\ ToSet(s) \subseteq attachedTo(r)
    BY <1>2, <1>5, <1>10, EvidenceBounds DEF Attaches
  <2> HIDE DEF c
  <2>2. Len(cut) <= d /\ (d <= MaxItems + 1 => Len(s) <= MaxItems /\ c <= MaxItems + 1)
    BY <1>3, <1>4, <2>1
  <2> HIDE DEF d
  <2>3. d <= MaxItems + 1 => attachedTo(r)' = ToSet(cut)
    BY <1>3, <1>8, <2>1, <2>2
  <2>4. ToSet(cut) \subseteq attachedTo(r)'
    BY <1>3, <1>8, <2>1
  <2>5. QED
    BY <1>3, <1>5, <2>2, <2>3, <2>4 DEF Attaches, d
<1>12. \A q \in Reports \ {r} : Attaches(q)'
  BY <1>5, <1>8 DEF EvidenceInv, Attaches
<1>13. QED
  BY <1>7, <1>11, <1>12

\* The artifacts leave the evidence alone, and the evidence the artifacts.
LEMMA EvidenceStays ==
    ASSUME EvidenceInv, UNCHANGED evidenceVars, ArtifactsFollow'
    PROVE  EvidenceInv'
<1>1. UNCHANGED <<evidence, section, recipe>>
  BY DEF evidenceVars
<1>2. savedEvidence' = savedEvidence /\ \A r \in Reports : attachedTo(r)' = attachedTo(r)
  BY <1>1 DEF savedEvidence, attachedTo
<1>3. QED
  BY <1>1, <1>2 DEF EvidenceInv, EvidenceTypes, Attaches

LEMMA ArtifactsStay ==
    ASSUME EvidenceInv, UNCHANGED artifactVars, EvidenceTypes', \A r \in Reports : Attaches(r)'
    PROVE  EvidenceInv'
BY DEF EvidenceInv, ArtifactsFollow, artifactVars

LEMMA EvidenceStep ==
    ASSUME EvidenceInv, [EvidenceNext]_eVars
    PROVE  EvidenceInv'
<1>1. CASE UNCHANGED eVars
  <2>1. UNCHANGED evidenceVars /\ ArtifactsFollow'
    BY <1>1 DEF eVars, evidenceVars, EvidenceInv, ArtifactsFollow
  <2>2. QED
    BY <2>1, EvidenceStays
<1>2. ASSUME NEW e \in Items, saveSessionEvidence(e)
      PROVE  EvidenceInv'
  <2>1. recipe' \subseteq recipe \ {e}
    BY <1>2 DEF saveSessionEvidence
  <2>2. QED
    BY <1>2, <2>1, EvidenceIsSaved, ArtifactsStay DEF saveSessionEvidence
<1>3. ASSUME NEW e \in Items, beginRecipe(e)
      PROVE  EvidenceInv'
  <2>1. UNCHANGED <<evidence, section>> /\ recipe' = {e} /\ evidence[e] = Absent /\ UNCHANGED artifactVars
    BY <1>3 DEF beginRecipe
  <2>2. savedEvidence' = savedEvidence /\ \A r \in Reports : attachedTo(r)' = attachedTo(r)
    BY <2>1 DEF savedEvidence, attachedTo
  <2>3. EvidenceTypes' /\ \A r \in Reports : Attaches(r)'
    BY <2>1, <2>2 DEF EvidenceInv, EvidenceTypes, Attaches
  <2>4. QED
    BY <2>1, <2>3, ArtifactsStay
<1>4. ASSUME NEW e \in Items, createSessionTestRecipe(e)
      PROVE  EvidenceInv'
  <2>1. /\ recipe' = {} /\ section' = section /\ UNCHANGED artifactVars
        /\ \/ Cardinality(savedEvidence) < MaxEvidence /\ evidence' = [evidence EXCEPT ![e] = NoReport]
           \/ evidence' = evidence
    BY <1>4 DEF createSessionTestRecipe
  <2>2. CASE evidence' = evidence
    <3>1. savedEvidence' = savedEvidence /\ \A r \in Reports : attachedTo(r)' = attachedTo(r)
      BY <2>2 DEF savedEvidence, attachedTo
    <3>2. EvidenceTypes' /\ \A r \in Reports : Attaches(r)'
      BY <2>1, <2>2, <3>1 DEF EvidenceInv, EvidenceTypes, Attaches
    <3>3. QED
      BY <2>1, <3>2, ArtifactsStay
  <2>3. CASE Cardinality(savedEvidence) < MaxEvidence /\ evidence' = [evidence EXCEPT ![e] = NoReport]
    <3>1. evidence[e] = Absent
      BY <1>4 DEF EvidenceInv, EvidenceTypes, createSessionTestRecipe
    <3>2. QED
      BY <2>1, <2>3, <3>1, EvidenceIsSaved, ArtifactsStay
  <2>4. QED
    BY <2>1, <2>2, <2>3
<1>5. ASSUME NEW e \in Items, removeSessionEvidence(e)
      PROVE  EvidenceInv'
  BY <1>5, EvidenceIsRemoved, ArtifactsStay DEF removeSessionEvidence
<1>6. ASSUME NEW e \in Items, NEW r \in Reports, attachSessionEvidenceToReport(e, r)
      PROVE  EvidenceInv'
  BY <1>6, EvidenceIsAttached, ArtifactsStay DEF attachSessionEvidenceToReport
<1>7. ASSUME NEW a \in Artifacts, putArtifact(a)
      PROVE  EvidenceInv'
  BY <1>7, EvidenceStays DEF putArtifact, EvidenceInv, ArtifactsFollow
<1>8. ASSUME NEW a \in Artifacts, createArtifactRecord(a)
      PROVE  EvidenceInv'
  BY <1>8, EvidenceStays DEF createArtifactRecord, EvidenceInv, ArtifactsFollow
<1>9. ASSUME NEW a \in Artifacts, Expire(a)
      PROVE  EvidenceInv'
  BY <1>9, EvidenceStays DEF Expire, EvidenceInv, ArtifactsFollow
<1>10. ASSUME NEW a \in Artifacts, deleteArtifact(a)
       PROVE  EvidenceInv'
  BY <1>10, EvidenceStays DEF deleteArtifact, EvidenceInv, ArtifactsFollow
<1>11. CASE setReportPinned
  BY <1>11, EvidenceStays DEF setReportPinned, EvidenceInv, ArtifactsFollow
<1>12. CASE listExpiredArtifacts
  BY <1>12, EvidenceStays DEF listExpiredArtifacts, EvidenceInv, ArtifactsFollow
<1>13. QED
  BY <1>1, <1>2, <1>3, <1>4, <1>5, <1>6, <1>7, <1>8, <1>9, <1>10, <1>11, <1>12 DEF EvidenceNext

\* Reports keep their evidence and artifacts that can be read their objects,
\* for any number of items, reports and artifacts and any limits.
THEOREM EvidenceStaysKept == EvidenceSpec => []EvidenceIsKept
<1>1. EvidenceInv /\ [EvidenceNext]_eVars => EvidenceInv'
  BY EvidenceStep
<1>2. EvidenceInv => EvidenceIsKept
  BY DEF EvidenceInv, Attaches, EvidenceTypes, ArtifactsFollow, EvidenceIsKept, ReportsKeepEvidence,
         ArtifactsAreReadable, readOwnedArtifact
<1>3. QED
  BY EvidenceStart, <1>1, <1>2, PTL DEF EvidenceSpec

(***************************************************************************)
(* The plan that is paid for.  A row that is as new as the provider's      *)
(* subscription agrees with it, and of a newer state there is a notice.    *)
(***************************************************************************)
Untaken == {"none", "created", "expired"}
RemoteRecords ==
    [status : Untaken \cup {"authenticated", "active", "pending", "halted", "cancelled", "completed"},
     end : Nat, ending : BOOLEAN, ver : Nat]
RowRecords ==
    [status : {"none", "active", "past_due", "unpaid", "canceled", "incomplete_expired", "incomplete"},
     end : Nat, cancelAtEnd : BOOLEAN, ver : Nat, upd : Nat]

AccountTypes ==
    /\ now \in Nat \ {0}
    /\ remote \in [Subs -> RemoteRecords] /\ local \in [Subs -> RowRecords]
    /\ notices \subseteq [sub : Subs, snap : RemoteRecords]

\* What is charged has an end; before the first payment nothing has changed.
Charged(r) == r.status \in {"active", "completed"} => r.end # 0
RemoteFollows ==
    \A s \in Subs : Charged(remote[s]) /\ (remote[s].status \in {"none", "created"} => remote[s].ver = 0)

\* A notice is of a state the subscription was in.
NoticesFollow ==
    \A n \in notices :
        /\ remote[n.sub].status \notin Untaken /\ n.snap.status \notin Untaken
        /\ n.snap.ver <= remote[n.sub].ver
        /\ n.snap.ver = remote[n.sub].ver => n.snap.status = remote[n.sub].status /\ n.snap.end = remote[n.sub].end

\* The row agrees with a state of the provider.
Agrees(row, r) ==
    /\ row.end = r.end
    /\ row.status = "active" => r.status \in {"authenticated", "active", "completed"}
    /\ row.status = "past_due" => r.status = "pending"

RowFollows(s) ==
    IF remote[s].status \in Untaken THEN local[s] = NoRow
    ELSE /\ remote[s].ver > 0 /\ local[s].ver <= remote[s].ver
         /\ local[s].ver = remote[s].ver => Agrees(local[s], remote[s])
         /\ \/ local[s].ver = remote[s].ver
            \/ \E n \in notices : n.sub = s /\ n.snap.ver = remote[s].ver
RowsFollow == \A s \in Subs : RowFollows(s)

AccountInv == AccountTypes /\ RemoteFollows /\ NoticesFollow /\ RowsFollow

LEMMA NoRowIsARow ==
    NoRow \in RowRecords /\ NoRow.ver = 0 /\ NoRow.status = "none"
BY DEF NoRow, RowRecords

LEMMA AccountStart == CheckoutInit => AccountInv
<1>1. SUFFICES ASSUME CheckoutInit
               PROVE  AccountInv
  OBVIOUS
<1>2. NoRemote \in RemoteRecords /\ NoRemote.status = "none" /\ NoRemote.ver = 0
  BY DEF NoRemote, RemoteRecords, Untaken
<1> HIDE DEF NoRemote
<1>3. \A s \in Subs : remote[s] = NoRemote /\ local[s] = NoRow
  BY <1>1 DEF CheckoutInit
<1>4. AccountTypes
  BY <1>1, <1>2, NoRowIsARow DEF CheckoutInit, AccountTypes
<1>5. QED
  BY <1>1, <1>2, <1>3, <1>4 DEF CheckoutInit, AccountInv, RemoteFollows, Charged, NoticesFollow,
     RowsFollow, RowFollows, Untaken

\* What the adapter makes of a state of the provider.
LEMMA NormalAgrees ==
    ASSUME NEW r \in RemoteRecords
    PROVE  /\ normalizeRazorpaySubscription(r) \in RowRecords
           /\ normalizeRazorpaySubscription(r).ver = r.ver
           /\ Agrees(normalizeRazorpaySubscription(r), r)
<1> DEFINE m   == mapSubscriptionStatus(r.status)
           row == [status |-> m, end |-> r.end, cancelAtEnd |-> FALSE, ver |-> r.ver, upd |-> 0]
<1>1. /\ m \in {"active", "past_due", "unpaid", "canceled", "incomplete_expired", "incomplete"}
      /\ m = "active" => r.status \in {"authenticated", "active", "completed"}
      /\ m = "past_due" => r.status = "pending"
  BY DEF mapSubscriptionStatus, RemoteRecords, Untaken
<1> HIDE DEF m
<1>2. normalizeRazorpaySubscription(r) = row
  <2>1. normalizeRazorpaySubscription(r) =
            [[[NoRow EXCEPT !.status = m] EXCEPT !.end = r.end] EXCEPT !.ver = r.ver]
    BY DEF normalizeRazorpaySubscription, m
  <2>2. QED
    BY <2>1 DEF NoRow
<1>3. row \in RowRecords /\ row.status = m /\ row.end = r.end /\ row.ver = r.ver
  BY <1>1 DEF RowRecords, RemoteRecords
<1>4. QED
  BY <1>1, <1>2, <1>3 DEF Agrees

LEMMA RefinedAgrees ==
    ASSUME NEW r \in RemoteRecords
    PROVE  /\ refineCompleted(r) \in RowRecords
           /\ refineCompleted(r).ver = r.ver
           /\ Agrees(refineCompleted(r), r)
<1> DEFINE row == normalizeRazorpaySubscription(r)
<1>1. row \in RowRecords /\ row.ver = r.ver /\ Agrees(row, r)
  BY NormalAgrees
<1>2. refineCompleted(r) \in {row, [row EXCEPT !.status = "canceled"]}
  BY DEF refineCompleted
<1> HIDE DEF row
<1>3. /\ [row EXCEPT !.status = "canceled"] \in RowRecords
      /\ [row EXCEPT !.status = "canceled"].ver = r.ver
      /\ Agrees([row EXCEPT !.status = "canceled"], r)
  BY <1>1 DEF RowRecords, Agrees
<1>4. QED
  BY <1>1, <1>2, <1>3

\* An update of a row: an older state is ignored, the others leave it as new as
\* the update.
LEMMA RowIsUpserted ==
    ASSUME AccountTypes, NEW s \in Subs, NEW snap \in RowRecords, applyProviderSubscription(s, snap)
    PROVE  /\ local' \in [Subs -> RowRecords]
           /\ \A u \in Subs \ {s} : local'[u] = local[u]
           /\ snap.ver < local[s].ver => local'[s] = local[s]
           /\ snap.ver >= local[s].ver => /\ local'[s].ver = snap.ver
                                          /\ \A r : Agrees(snap, r) => Agrees(local'[s], r)
<1>1. local' = IF snap.ver < local[s].ver THEN local ELSE [local EXCEPT ![s] = [snap EXCEPT !.upd = now]]
  BY DEF applyProviderSubscription, upsertSubscription
<1> DEFINE row == [snap EXCEPT !.upd = now]
<1>2. row \in RowRecords /\ row.ver = snap.ver /\ row.status = snap.status /\ row.end = snap.end
  BY DEF RowRecords, AccountTypes
<1> HIDE DEF row
<1>3. local[s].ver \in Nat /\ snap.ver \in Nat
  BY DEF AccountTypes, RowRecords
<1>4. CASE snap.ver < local[s].ver
  BY <1>1, <1>3, <1>4 DEF AccountTypes
<1>5. CASE snap.ver >= local[s].ver
  <2>1. local' = [local EXCEPT ![s] = row]
    BY <1>1, <1>3, <1>5 DEF row
  <2>2. QED
    BY <1>2, <1>3, <1>5, <2>1 DEF AccountTypes, Agrees
<1>6. QED
  BY <1>3, <1>4, <1>5

\* A row is brought up to the state of the provider.
LEMMA RowIsRefreshed ==
    ASSUME AccountInv, NEW s \in Subs, NEW snap \in RowRecords,
           remote[s].status \notin Untaken, snap.ver = remote[s].ver, Agrees(snap, remote[s]),
           applyProviderSubscription(s, snap), remote' \in [Subs -> RemoteRecords],
           \A u \in Subs : /\ remote'[u].status = remote[u].status
                           /\ remote'[u].end = remote[u].end /\ remote'[u].ver = remote[u].ver,
           UNCHANGED <<now, notices>>
    PROVE  AccountInv'
<1>1. /\ local' \in [Subs -> RowRecords]
      /\ \A u \in Subs \ {s} : local'[u] = local[u]
      /\ local'[s].ver = remote[s].ver /\ Agrees(local'[s], remote[s])
  <2>1. local[s].ver \in Nat /\ remote[s].ver \in Nat /\ local[s].ver <= remote[s].ver
    BY DEF AccountInv, AccountTypes, RowsFollow, RowFollows, RowRecords, RemoteRecords
  <2>2. QED
    BY <2>1, RowIsUpserted DEF AccountInv
<1>2. AccountTypes'
  BY <1>1 DEF AccountInv, AccountTypes
<1>3. RemoteFollows'
  BY DEF AccountInv, RemoteFollows, Charged
<1>4. NoticesFollow'
  <2>1. \A n \in notices : n.sub \in Subs
    BY DEF AccountInv, AccountTypes
  <2>2. QED
    BY <2>1 DEF AccountInv, NoticesFollow
<1>5. RowsFollow'
  <2>1. ASSUME NEW u \in Subs
        PROVE  RowFollows(u)'
    <3>1. CASE u = s
      <4>1. remote[s].ver > 0 /\ remote[s].ver \in Nat
        BY DEF AccountInv, AccountTypes, RowsFollow, RowFollows, RemoteRecords
      <4>2. Agrees(local'[s], remote'[s])
        BY <1>1 DEF Agrees
      <4>3. QED
        BY <1>1, <3>1, <4>1, <4>2 DEF RowFollows
    <3>2. CASE u # s
      <4>1. RowFollows(u) /\ local'[u] = local[u]
        BY <1>1, <3>2 DEF AccountInv, RowsFollow
      <4>2. Agrees(local[u], remote[u]) => Agrees(local'[u], remote'[u])
        BY <4>1 DEF Agrees
      <4>3. QED
        BY <4>1, <4>2 DEF RowFollows
    <3>3. QED
      BY <3>1, <3>2
  <2>2. QED
    BY <2>1 DEF RowsFollow
<1>6. QED
  BY <1>2, <1>3, <1>4, <1>5 DEF AccountInv

LEMMA EventIsApplied ==
    ASSUME AccountInv, NEW n \in notices, normalizeRazorpayEvent(n)
    PROVE  AccountInv'
<1> DEFINE s    == n.sub
           snap == refineCompleted(n.snap)
<1>1. /\ notices' = notices \ {n} /\ UNCHANGED <<now, remote>>
      /\ applyProviderSubscription(s, snap)
  BY DEF normalizeRazorpayEvent
<1>2. /\ s \in Subs /\ n.snap \in RemoteRecords /\ remote[s].status \notin Untaken
      /\ n.snap.ver <= remote[s].ver
      /\ n.snap.ver = remote[s].ver => n.snap.status = remote[s].status /\ n.snap.end = remote[s].end
  BY DEF AccountInv, AccountTypes, NoticesFollow
<1>3. snap \in RowRecords /\ snap.ver = n.snap.ver /\ Agrees(snap, n.snap)
  BY <1>2, RefinedAgrees
<1> HIDE DEF s, snap
<1>4. /\ local' \in [Subs -> RowRecords]
      /\ \A u \in Subs \ {s} : local'[u] = local[u]
      /\ snap.ver < local[s].ver => local'[s] = local[s]
      /\ snap.ver >= local[s].ver => /\ local'[s].ver = snap.ver
                                     /\ \A r : Agrees(snap, r) => Agrees(local'[s], r)
  BY <1>1, <1>2, <1>3, RowIsUpserted DEF AccountInv
<1>5. AccountTypes' /\ RemoteFollows' /\ NoticesFollow'
  BY <1>1, <1>4 DEF AccountInv, AccountTypes, RemoteFollows, NoticesFollow
<1>6. RowsFollow'
  <2>1. ASSUME NEW u \in Subs
        PROVE  RowFollows(u)'
    <3>1. CASE u # s
      <4>1. \A m \in notices : m.sub = u => m \in notices'
        BY <1>1, <3>1 DEF s
      <4>2. QED
        BY <1>1, <1>4, <3>1, <4>1 DEF AccountInv, RowsFollow, RowFollows
    <3>2. CASE u = s
      <4>1. /\ remote[s].ver \in Nat /\ local[s].ver \in Nat /\ snap.ver \in Nat
            /\ remote[s].ver > 0 /\ local[s].ver <= remote[s].ver /\ snap.ver <= remote[s].ver
            /\ local[s].ver = remote[s].ver => Agrees(local[s], remote[s])
            /\ \/ local[s].ver = remote[s].ver
               \/ \E m \in notices : m.sub = s /\ m.snap.ver = remote[s].ver
        BY <1>2, <1>3 DEF AccountInv, AccountTypes, RowsFollow, RowFollows, RowRecords, RemoteRecords
      <4>2. CASE snap.ver < local[s].ver
        <5>1. \A m \in notices : m.snap.ver = remote[s].ver => m \in notices'
          BY <1>1, <1>3, <4>1, <4>2
        <5>2. QED
          BY <1>1, <1>2, <1>4, <3>2, <4>1, <4>2, <5>1 DEF RowFollows
      <4>3. CASE snap.ver >= local[s].ver /\ snap.ver = remote[s].ver
        <5>1. Agrees(snap, remote[s])
          BY <1>2, <1>3, <4>3 DEF Agrees
        <5>2. Agrees(local'[s], remote'[s]) /\ local'[s].ver = remote[s].ver
          BY <1>1, <1>4, <4>3, <5>1
        <5>3. QED
          BY <1>1, <1>2, <3>2, <4>1, <5>2 DEF RowFollows
      <4>4. CASE snap.ver >= local[s].ver /\ snap.ver < remote[s].ver
        <5>1. local[s].ver # remote[s].ver
          BY <4>1, <4>4
        <5>2. PICK m \in notices : m.sub = s /\ m.snap.ver = remote[s].ver
          BY <4>1, <5>1
        <5>3. m \in notices'
          BY <1>1, <1>3, <4>1, <4>4, <5>2
        <5>4. local'[s].ver = snap.ver
          BY <1>4, <4>4
        <5>5. QED
          BY <1>1, <1>2, <3>2, <4>1, <4>4, <5>2, <5>3, <5>4 DEF RowFollows
      <4>5. QED
        BY <4>1, <4>2, <4>3, <4>4
    <3>3. QED
      BY <3>1, <3>2
  <2>2. QED
    BY <2>1 DEF RowsFollow
<1>7. QED
  BY <1>5, <1>6 DEF AccountInv

\* The provider's subscription changes, and says so unless it was never taken.
LEMMA RemoteChanges ==
    ASSUME AccountInv, NEW s \in Subs, NEW r \in RemoteRecords,
           r.ver = remote[s].ver + 1, r.status \notin {"none", "created"}, Charged(r),
           r.status = "expired" => remote[s].status \in Untaken,
           remote' = [remote EXCEPT ![s] = r],
           notices' = IF r.status = "expired" THEN notices ELSE notices \cup {[sub |-> s, snap |-> r]},
           UNCHANGED <<now, local>>
    PROVE  AccountInv'
<1> DEFINE new == [sub |-> s, snap |-> r]
<1>1. new \in [sub : Subs, snap : RemoteRecords] /\ new.sub = s /\ new.snap = r
  OBVIOUS
<1>2. notices' = IF r.status = "expired" THEN notices ELSE notices \cup {new}
  OBVIOUS
<1> HIDE DEF new
<1>3. /\ remote'[s] = r /\ \A u \in Subs \ {s} : remote'[u] = remote[u]
      /\ remote' \in [Subs -> RemoteRecords]
      /\ r.ver \in Nat /\ remote[s].ver \in Nat /\ r.ver > remote[s].ver /\ r.ver > 0
  BY DEF AccountInv, AccountTypes, RemoteRecords
<1>4. AccountTypes' /\ RemoteFollows'
  BY <1>1, <1>2, <1>3 DEF AccountInv, AccountTypes, RemoteFollows
<1>5. NoticesFollow'
  <2>1. ASSUME NEW n \in notices'
        PROVE  /\ remote'[n.sub].status \notin Untaken /\ n.snap.status \notin Untaken
               /\ n.snap.ver <= remote'[n.sub].ver
               /\ n.snap.ver = remote'[n.sub].ver =>
                      n.snap.status = remote'[n.sub].status /\ n.snap.end = remote'[n.sub].end
    <3>1. CASE n \in notices
      <4>1. /\ n.sub \in Subs /\ n.snap.ver \in Nat
            /\ remote[n.sub].status \notin Untaken /\ n.snap.status \notin Untaken
            /\ n.snap.ver <= remote[n.sub].ver
            /\ n.snap.ver = remote[n.sub].ver =>
                   n.snap.status = remote[n.sub].status /\ n.snap.end = remote[n.sub].end
        BY <3>1 DEF AccountInv, AccountTypes, NoticesFollow, RemoteRecords
      <4>2. CASE n.sub = s
        BY <1>3, <4>1, <4>2 DEF Untaken
      <4>3. CASE n.sub # s
        BY <1>3, <4>1, <4>3
      <4>4. QED
        BY <4>2, <4>3
    <3>2. CASE n \notin notices
      <4>1. n = new /\ r.status # "expired"
        BY <1>2, <2>1, <3>2
      <4>2. QED
        BY <1>1, <1>3, <4>1 DEF Untaken
    <3>3. QED
      BY <3>1, <3>2
  <2>2. QED
    BY <2>1 DEF NoticesFollow
<1>6. RowsFollow'
  <2>1. ASSUME NEW u \in Subs
        PROVE  RowFollows(u)'
    <3>1. CASE u # s
      BY <1>2, <1>3, <3>1 DEF AccountInv, RowsFollow, RowFollows
    <3>2. CASE u = s /\ r.status = "expired"
      BY <1>3, <3>2 DEF AccountInv, RowsFollow, RowFollows, Untaken
    <3>3. CASE u = s /\ r.status # "expired"
      <4>1. local[s].ver <= remote[s].ver /\ local[s].ver \in Nat
        BY NoRowIsARow, <1>3 DEF AccountInv, AccountTypes, RowsFollow, RowFollows, RowRecords
      <4>2. new \in notices' /\ new.sub = s /\ new.snap.ver = r.ver
        BY <1>1, <1>2, <3>3
      <4>3. QED
        BY <1>3, <3>3, <4>1, <4>2 DEF RowFollows, Untaken
    <3>4. QED
      BY <3>1, <3>2, <3>3
  <2>2. QED
    BY <2>1 DEF RowsFollow
<1>7. QED
  BY <1>4, <1>5, <1>6 DEF AccountInv

\* The states that may follow are states, and what is charged gets an end.
LEMMA MovedIsCharged ==
    ASSUME AccountInv, NEW q \in RemoteRecords, Charged(q), NEW r \in Moved(q)
    PROVE  /\ r \in RemoteRecords /\ r.ver = q.ver /\ Charged(r)
           /\ r.status \notin {"none", "created"}
           /\ r.status = "expired" => q.status \in Untaken
<1> USE CheckoutAssumption
<1>1. now + Cycle \in Nat /\ now + Cycle # 0
  BY DEF AccountInv, AccountTypes
<1>2. q.status \notin {"none", "expired"}
  BY DEF Moved
<1>3. \/ q.status = "created" /\ r = [q EXCEPT !.status = "expired"]
      \/ r = [[q EXCEPT !.status = "active"] EXCEPT !.end = now + Cycle]
      \/ q.status = "active" /\ r = [q EXCEPT !.end = now + Cycle]
      \/ \E st \in {"cancelled", "pending", "halted"} : r = [q EXCEPT !.status = st]
      \/ q.status = "active" /\ r = [q EXCEPT !.status = "completed"]
  BY <1>2 DEF Moved
<1>4. QED
  BY <1>1, <1>2, <1>3 DEF RemoteRecords, Charged, Untaken

LEMMA SubscriptionIsCreated ==
    ASSUME AccountInv, NEW s \in Subs, remote[s].status = "none",
           remote' = [remote EXCEPT ![s].status = "created"],
           UNCHANGED <<now, local, notices>>
    PROVE  AccountInv'
<1> DEFINE r == [remote[s] EXCEPT !.status = "created"]
<1>1. /\ r \in RemoteRecords /\ r.status = "created" /\ r.ver = remote[s].ver
      /\ remote' = [remote EXCEPT ![s] = r]
  BY DEF AccountInv, AccountTypes, RemoteRecords, Untaken
<1> HIDE DEF r
<1>2. /\ remote'[s] = r /\ \A u \in Subs \ {s} : remote'[u] = remote[u]
      /\ remote' \in [Subs -> RemoteRecords]
  BY <1>1 DEF AccountInv, AccountTypes
<1>3. \A n \in notices : n.sub \in Subs \ {s}
  BY DEF AccountInv, AccountTypes, NoticesFollow, Untaken
<1>4. AccountTypes'
  BY <1>2 DEF AccountInv, AccountTypes
<1>5. RemoteFollows'
  BY <1>1, <1>2 DEF AccountInv, RemoteFollows, Charged
<1>6. NoticesFollow'
  BY <1>2, <1>3 DEF AccountInv, NoticesFollow
<1>7. RowsFollow'
  BY <1>1, <1>2 DEF AccountInv, RowsFollow, RowFollows, Untaken
<1>8. QED
  BY <1>4, <1>5, <1>6, <1>7 DEF AccountInv

LEMMA AccountStays ==
    ASSUME AccountInv, now' \in Nat \ {0}, UNCHANGED <<remote, local, notices>>
    PROVE  AccountInv'
BY DEF AccountInv, AccountTypes, RemoteFollows, NoticesFollow, RowsFollow, RowFollows

(***************************************************************************)
(* The pages of the user.  Requests for a checkout share one, which opens  *)
(* one only while none is open.                                            *)
(***************************************************************************)
Places == {"dashboard", "joined", "rebuilding", "creating", "answering", "popup", "return"}
\* Pages that show a subscription.
WithSub == {"rebuilding", "answering", "popup", "return"}
PageRecords ==
    [at : Places, sub : Subs \cup {None},
     phase : {"", "checking", "pending", "complete", "expired", "error"}]

PageTypes ==
    /\ recorded \in [Subs -> [status : {"none", "open", "complete", "expired"}, at : Nat]]
    /\ page \in [Tabs -> PageRecords]
    /\ \A t \in Tabs : page[t].at \in WithSub => page[t].sub \in Subs

OneAtATime ==
    /\ \A t, u \in inFlightCheckouts : t = u
    /\ \A t \in Tabs : page[t].at \in {"creating", "answering"} => findRecentOpenCheckout = {}
    /\ \A s, u \in findRecentOpenCheckout : s = u

PageInv == now \in Nat /\ PageTypes /\ OneAtATime

LEMMA PageIsARecord ==
    ASSUME NEW at \in Places, NEW s \in Subs \cup {None}
    PROVE  /\ Page(at, s) \in PageRecords /\ Page(at, s).at = at /\ Page(at, s).sub = s
           /\ Page(at, s) = [at |-> at, sub |-> s, phase |-> ""]
<1>1. Page(at, s) = [[Dashboard EXCEPT !.at = at] EXCEPT !.sub = s]
  BY DEF Page
<1>2. Page(at, s) = [at |-> at, sub |-> s, phase |-> ""]
  BY <1>1 DEF Dashboard
<1> DEFINE new == [at |-> at, sub |-> s, phase |-> ""]
<1>3. new \in PageRecords /\ new.at = at /\ new.sub = s
  BY DEF PageRecords
<1>4. QED
  BY <1>2, <1>3

LEMMA DashboardIsARecord == Dashboard \in PageRecords /\ Dashboard.at = "dashboard"
BY DEF Dashboard, PageRecords, Places

LEMMA PageStart == CheckoutInit => PageInv
<1>1. SUFFICES ASSUME CheckoutInit
               PROVE  PageInv
  OBVIOUS
<1>2. inFlightCheckouts = {} /\ findRecentOpenCheckout = {}
  BY <1>1, DashboardIsARecord DEF CheckoutInit, inFlightCheckouts, findRecentOpenCheckout, Performing
<1>3. QED
  BY <1>1, <1>2, DashboardIsARecord DEF CheckoutInit, PageInv, PageTypes, OneAtATime, WithSub

\* Nothing opens: the pages that perform a request do so as before, or stop.
LEMMA NothingOpens ==
    ASSUME PageInv, now' \in Nat, now' >= now,
           recorded' \in [Subs -> [status : {"none", "open", "complete", "expired"}, at : Nat]],
           \A s \in Subs : recorded'[s].status = "open" => recorded'[s] = recorded[s],
           page' \in [Tabs -> PageRecords],
           \A t \in Tabs : page'[t].at \in WithSub => page'[t].sub \in Subs,
           \A t \in Tabs : page'[t].at \in Performing => page[t].at \in Performing,
           \A t \in Tabs : page'[t].at \in {"creating", "answering"} => page[t].at \in {"creating", "answering"}
    PROVE  PageInv'
<1> USE CheckoutAssumption
<1>1. findRecentOpenCheckout' \subseteq findRecentOpenCheckout
  <2>1. SUFFICES ASSUME NEW s \in findRecentOpenCheckout'
                 PROVE  s \in findRecentOpenCheckout
    OBVIOUS
  <2>2. s \in Subs /\ recorded'[s].status = "open" /\ recorded'[s].at + Window >= now' /\ recorded'[s].at \in Nat
    BY <2>1 DEF findRecentOpenCheckout
  <2>3. recorded[s] = recorded'[s] /\ recorded[s].at + Window >= now
    BY <2>2 DEF PageInv
  <2>4. QED
    BY <2>2, <2>3 DEF findRecentOpenCheckout
<1>2. inFlightCheckouts' \subseteq inFlightCheckouts
  BY DEF inFlightCheckouts
<1>3. QED
  BY <1>1, <1>2 DEF PageInv, PageTypes, OneAtATime

\* The answer to a request is the answer to those that joined it.
LEMMA AnswerEnds ==
    ASSUME PageInv, NEW t \in Tabs, NEW shown \in PageRecords, shown.at \in {"dashboard", "popup"},
           shown.at = "popup" => shown.sub \in Subs,
           Answered(t, shown)
    PROVE  /\ page' \in [Tabs -> PageRecords]
           /\ \A u \in Tabs : page'[u].at \in WithSub => page'[u].sub \in Subs
           /\ \A u \in Tabs : page'[u].at \in Performing => u # t /\ page[u].at \in Performing
           /\ \A u \in Tabs : page'[u].at \in {"creating", "answering"} => page[u].at \in {"creating", "answering"}
<1>1. /\ page' = [u \in Tabs |-> IF u = t \/ page[u].at = "joined" THEN shown ELSE page[u]]
      /\ page \in [Tabs -> PageRecords]
      /\ \A u \in Tabs : page[u].at \in WithSub => page[u].sub \in Subs
  BY DEF Answered, PageInv, PageTypes
<1>2. shown.at \notin Performing /\ shown.at \notin {"creating", "answering"}
      /\ (shown.at \in WithSub => shown.sub \in Subs)
  BY DEF Performing, WithSub
<1>3. \A u \in Tabs : page'[u] = shown \/ (page'[u] = page[u] /\ u # t)
  BY <1>1
<1>4. page' \in [Tabs -> PageRecords]
  BY <1>1
<1>5. QED
  BY <1>1, <1>2, <1>3, <1>4

\* A click: it joins a request that is under way, or begins one.
LEMMA CheckoutBegins ==
    ASSUME PageInv, NEW t \in Tabs, startCheckout(t)
    PROVE  PageInv'
<1>1. /\ page[t].at = "dashboard" /\ UNCHANGED <<now, recorded>>
      /\ page \in [Tabs -> PageRecords]
      /\ \A u \in Tabs : page[u].at \in WithSub => page[u].sub \in Subs
  BY DEF startCheckout, PageInv, PageTypes
<1>2. findRecentOpenCheckout' = findRecentOpenCheckout /\ findRecentOpenCheckout \subseteq Subs
  BY <1>1 DEF findRecentOpenCheckout
<1>3. \E at \in Places : \E s \in Subs \cup {None} :
        /\ page' = [page EXCEPT ![t] = Page(at, s)]
        /\ \/ at = "joined"
           \/ inFlightCheckouts = {} /\ at = "rebuilding" /\ s \in Subs
           \/ inFlightCheckouts = {} /\ at = "creating" /\ findRecentOpenCheckout = {}
  BY <1>2 DEF startCheckout, Places
<1>4. PICK at \in Places, s \in Subs \cup {None} :
        /\ page' = [page EXCEPT ![t] = Page(at, s)]
        /\ \/ at = "joined"
           \/ inFlightCheckouts = {} /\ at = "rebuilding" /\ s \in Subs
           \/ inFlightCheckouts = {} /\ at = "creating" /\ findRecentOpenCheckout = {}
  BY <1>3
<1> DEFINE new == Page(at, s)
<1>5. new \in PageRecords /\ new.at = at /\ new.sub = s /\ page' = [page EXCEPT ![t] = new]
  BY <1>4, PageIsARecord
<1> HIDE DEF new
<1>6. /\ page'[t] = new /\ \A u \in Tabs \ {t} : page'[u] = page[u]
      /\ page' \in [Tabs -> PageRecords]
  BY <1>1, <1>5
<1>7. \A u \in Tabs : page'[u].at \in WithSub => page'[u].sub \in Subs
  BY <1>1, <1>4, <1>5, <1>6 DEF WithSub
<1>8. \A u, v \in inFlightCheckouts' : u = v
  <2>1. inFlightCheckouts' \subseteq inFlightCheckouts \cup {t}
    BY <1>6 DEF inFlightCheckouts
  <2>2. CASE at = "joined"
    <3>1. t \notin inFlightCheckouts'
      BY <1>5, <1>6, <2>2 DEF inFlightCheckouts, Performing
    <3>2. QED
      BY <2>1, <3>1 DEF PageInv, OneAtATime
  <2>3. CASE inFlightCheckouts = {}
    BY <2>1, <2>3
  <2>4. QED
    BY <1>4, <2>2, <2>3
<1>9. \A u \in Tabs : page'[u].at \in {"creating", "answering"} => findRecentOpenCheckout = {}
  BY <1>4, <1>5, <1>6 DEF PageInv, OneAtATime
<1>10. QED
  BY <1>1, <1>2, <1>6, <1>7, <1>8, <1>9 DEF PageInv, PageTypes, OneAtATime

\* The record of the checkout that was created: the only one that is open.
LEMMA CheckoutIsRecorded ==
    ASSUME PageInv, NEW t \in Tabs, createCheckoutRecord(t)
    PROVE  PageInv'
<1> USE CheckoutAssumption
<1> DEFINE s == page[t].sub
<1>1. /\ page[t].at = "answering" /\ s \in Subs /\ now' = now /\ now \in Nat
      /\ recorded' = [recorded EXCEPT ![s] = [status |-> "open", at |-> now]]
      /\ Answered(t, Page("popup", s))
  BY DEF createCheckoutRecord, PageInv, PageTypes, WithSub
<1>2. /\ Page("popup", s) \in PageRecords /\ Page("popup", s).at = "popup" /\ Page("popup", s).sub = s
  BY <1>1, PageIsARecord DEF Places
<1>3. /\ page' \in [Tabs -> PageRecords]
      /\ \A u \in Tabs : page'[u].at \in WithSub => page'[u].sub \in Subs
      /\ \A u \in Tabs : page'[u].at \in Performing => u # t /\ page[u].at \in Performing
  BY <1>1, <1>2, AnswerEnds
<1>4. inFlightCheckouts' = {}
  <2>1. t \in inFlightCheckouts /\ \A u \in inFlightCheckouts : u = t
    BY <1>1 DEF PageInv, OneAtATime, inFlightCheckouts, Performing
  <2>2. QED
    BY <1>3, <2>1 DEF inFlightCheckouts
<1>5. \A u \in Tabs : page'[u].at \notin {"creating", "answering"}
  BY <1>4 DEF inFlightCheckouts, Performing
<1>6. findRecentOpenCheckout = {}
  BY <1>1 DEF PageInv, OneAtATime
<1>7. /\ recorded' \in [Subs -> [status : {"none", "open", "complete", "expired"}, at : Nat]]
      /\ \A u \in Subs \ {s} : recorded'[u] = recorded[u]
  <2> DEFINE new == [status |-> "open", at |-> now]
  <2>1. new \in [status : {"none", "open", "complete", "expired"}, at : Nat]
    BY <1>1
  <2> HIDE DEF new
  <2>2. recorded' = [recorded EXCEPT ![s] = new]
    BY <1>1 DEF new
  <2>3. QED
    BY <1>1, <2>1, <2>2 DEF PageInv, PageTypes
<1>8. findRecentOpenCheckout' \subseteq {s}
  BY <1>1, <1>6, <1>7 DEF findRecentOpenCheckout
<1>9. QED
  BY <1>1, <1>3, <1>4, <1>5, <1>7, <1>8 DEF PageInv, PageTypes, OneAtATime

CheckoutInv == AccountInv /\ PageInv

\* A page moves without a request, or with the request it already performs.
LEMMA PageMoves ==
    ASSUME PageInv, NEW t \in Tabs, NEW p \in PageRecords,
           page' = [page EXCEPT ![t] = p], UNCHANGED <<now, recorded>>,
           p.at \in WithSub => p.sub \in Subs,
           p.at \in Performing => page[t].at \in Performing,
           p.at \in {"creating", "answering"} => page[t].at \in {"creating", "answering"}
    PROVE  PageInv'
<1> USE CheckoutAssumption
<1>1. page'[t] = p /\ \A u \in Tabs \ {t} : page'[u] = page[u]
  BY DEF PageInv, PageTypes
<1>2. page' \in [Tabs -> PageRecords] /\ \A u \in Tabs : page'[u].at \in WithSub => page'[u].sub \in Subs
  BY <1>1 DEF PageInv, PageTypes
<1>3. /\ \A u \in Tabs : page'[u].at \in Performing => page[u].at \in Performing
      /\ \A u \in Tabs : page'[u].at \in {"creating", "answering"} => page[u].at \in {"creating", "answering"}
  BY <1>1
<1>4. /\ now' \in Nat /\ now' >= now
      /\ recorded' \in [Subs -> [status : {"none", "open", "complete", "expired"}, at : Nat]]
      /\ \A s \in Subs : recorded'[s].status = "open" => recorded'[s] = recorded[s]
  BY DEF PageInv, PageTypes
<1>5. QED
  BY <1>2, <1>3, <1>4, NothingOpens

\* The page that is shown after a payment changes its phase.
LEMMA PhaseMoves ==
    ASSUME PageInv, NEW t \in Tabs, page[t].at = "return",
           NEW word \in {"", "checking", "pending", "complete", "expired", "error"},
           page' = [page EXCEPT ![t].phase = word]
    PROVE  /\ page' \in [Tabs -> PageRecords]
           /\ \A u \in Tabs : page'[u].at = page[u].at /\ page'[u].sub = page[u].sub
<1> DEFINE p == [page[t] EXCEPT !.phase = word]
<1>1. p \in PageRecords /\ p.at = page[t].at /\ p.sub = page[t].sub /\ page' = [page EXCEPT ![t] = p]
  BY DEF PageInv, PageTypes, PageRecords
<1> HIDE DEF p
<1>2. QED
  BY <1>1 DEF PageInv, PageTypes

LEMMA PhasesStay ==
    ASSUME PageInv, now' = now,
           recorded' \in [Subs -> [status : {"none", "open", "complete", "expired"}, at : Nat]],
           \A s \in Subs : recorded'[s].status = "open" => recorded'[s] = recorded[s],
           page' \in [Tabs -> PageRecords],
           \A u \in Tabs : page'[u].at = page[u].at /\ page'[u].sub = page[u].sub
    PROVE  PageInv'
<1> USE CheckoutAssumption
<1>1. now' \in Nat /\ now' >= now
  BY DEF PageInv
<1>2. \A t \in Tabs : page'[t].at \in WithSub => page'[t].sub \in Subs
  BY DEF PageInv, PageTypes
<1>3. QED
  BY <1>1, <1>2, NothingOpens

\* The record of a checkout that is over.
LEMMA RecordCloses ==
    ASSUME PageInv, NEW s \in Subs, NEW end \in {"complete", "expired"},
           recorded' = [recorded EXCEPT ![s].status = end]
    PROVE  /\ recorded' \in [Subs -> [status : {"none", "open", "complete", "expired"}, at : Nat]]
           /\ \A u \in Subs : recorded'[u].status = "open" => recorded'[u] = recorded[u]
<1> DEFINE r == [recorded[s] EXCEPT !.status = end]
<1>1. /\ r \in [status : {"none", "open", "complete", "expired"}, at : Nat] /\ r.status = end
      /\ recorded' = [recorded EXCEPT ![s] = r]
  BY DEF PageInv, PageTypes
<1> HIDE DEF r
<1>2. QED
  BY <1>1 DEF PageInv, PageTypes

\* A tick of the return page asks the provider.
LEMMA CheckoutIsConfirmed ==
    ASSUME CheckoutInv, NEW t \in Tabs, confirmCheckout(t)
    PROVE  CheckoutInv'
<1> USE CheckoutAssumption
<1> DEFINE s    == page[t].sub
           snap == refineCompleted(remote[s])
<1>1. /\ s \in Subs /\ remote[s] \in RemoteRecords /\ page[t].at = "return"
      /\ UNCHANGED <<now, remote, notices>> /\ now' \in Nat \ {0}
  BY DEF confirmCheckout, CheckoutInv, PageInv, PageTypes, WithSub, AccountInv, AccountTypes
<1>2. \/ /\ mapSubscriptionStatus(remote[s].status) = "active"
         /\ recorded' = [recorded EXCEPT ![s].status = "complete"]
         /\ applyProviderSubscription(s, snap)
         /\ \E word \in {"complete", "pending"} : Show(t, word)
      \/ Show(t, "pending") /\ UNCHANGED <<recorded, local, order>>
      \/ /\ recorded' = [recorded EXCEPT ![s].status = "expired"]
         /\ Show(t, "expired") /\ UNCHANGED <<local, order>>
  <2>1. \/ getCheckoutSession(remote[s]) = "complete" /\ mapSubscriptionStatus(remote[s].status) = "active"
        \/ getCheckoutSession(remote[s]) = "open"
        \/ getCheckoutSession(remote[s]) = "expired"
    BY DEF getCheckoutSession
  <2>2. QED
    BY <2>1 DEF confirmCheckout
<1>3. PICK word \in {"", "checking", "pending", "complete", "expired", "error"} : Show(t, word)
  BY <1>2
<1>4. /\ page' \in [Tabs -> PageRecords]
      /\ \A u \in Tabs : page'[u].at = page[u].at /\ page'[u].sub = page[u].sub
  BY <1>1, <1>3, PhaseMoves DEF CheckoutInv, Show
<1>5. /\ recorded' \in [Subs -> [status : {"none", "open", "complete", "expired"}, at : Nat]]
      /\ \A u \in Subs : recorded'[u].status = "open" => recorded'[u] = recorded[u]
  <2>1. recorded' = recorded \/ \E st \in {"complete", "expired"} : recorded' = [recorded EXCEPT ![s].status = st]
    BY <1>2
  <2>2. QED
    BY <1>1, <2>1, RecordCloses DEF CheckoutInv, PageInv, PageTypes
<1>6. PageInv'
  BY <1>1, <1>4, <1>5, PhasesStay DEF CheckoutInv
<1>7. AccountInv'
  <2>1. CASE mapSubscriptionStatus(remote[s].status) = "active" /\ applyProviderSubscription(s, snap)
    <3>1. remote[s].status \notin Untaken
      BY <2>1 DEF mapSubscriptionStatus, Untaken
    <3>2. snap \in RowRecords /\ snap.ver = remote[s].ver /\ Agrees(snap, remote[s])
      BY <1>1, RefinedAgrees
    <3>3. remote' \in [Subs -> RemoteRecords]
      BY <1>1 DEF CheckoutInv, AccountInv, AccountTypes
    <3> HIDE DEF snap, s
    <3>4. QED
      BY <1>1, <2>1, <3>1, <3>2, <3>3, RowIsRefreshed DEF CheckoutInv
  <2>2. CASE local' = local
    BY <1>1, <2>2, AccountStays DEF CheckoutInv
  <2>3. QED
    BY <1>2, <2>1, <2>2
<1>8. QED
  BY <1>6, <1>7 DEF CheckoutInv

LEMMA PaymentSucceeds ==
    ASSUME CheckoutInv, NEW t \in Tabs, success(t)
    PROVE  CheckoutInv'
<1> USE CheckoutAssumption
<1> DEFINE s == page[t].sub
           r == [[remote[s] EXCEPT !.status = "authenticated"] EXCEPT !.ver = remote[s].ver + 1]
           p == [Page("return", s) EXCEPT !.phase = "checking"]
<1>1. /\ page[t].at = "popup" /\ remote[s].status = "created"
      /\ remote' = [remote EXCEPT ![s] = r]
      /\ notices' = notices \cup {[sub |-> s, snap |-> r]}
      /\ page' = [page EXCEPT ![t] = p]
      /\ UNCHANGED <<now, recorded, local, order>>
  BY DEF success
<1>2. s \in Subs /\ remote[s] \in RemoteRecords
  BY <1>1 DEF CheckoutInv, PageInv, PageTypes, WithSub, AccountInv, AccountTypes
<1>3. /\ r \in RemoteRecords /\ r.ver = remote[s].ver + 1 /\ r.status = "authenticated"
  <2> HIDE DEF s
  <2> DEFINE paid == [remote[s] EXCEPT !.status = "authenticated"]
  <2>1. paid \in RemoteRecords /\ paid.ver = remote[s].ver /\ paid.status = "authenticated"
    BY <1>2 DEF RemoteRecords
  <2>2. r = [paid EXCEPT !.ver = remote[s].ver + 1] /\ remote[s].ver \in Nat
    BY <1>2 DEF RemoteRecords
  <2> HIDE DEF paid, r
  <2>3. QED
    BY <2>1, <2>2 DEF RemoteRecords
<1>4. p \in PageRecords /\ p.at = "return" /\ p.sub = s
  <2>1. Page("return", s) \in PageRecords /\ Page("return", s).at = "return" /\ Page("return", s).sub = s
    BY <1>2, PageIsARecord DEF Places
  <2>2. QED
    BY <2>1 DEF PageRecords
<1> HIDE DEF r, p, s
<1>5. PageInv'
  BY <1>1, <1>2, <1>4, PageMoves DEF CheckoutInv, Performing
<1>6. r.status \notin {"none", "created", "expired"} /\ Charged(r)
  BY <1>3 DEF Charged
<1>7. notices' = IF r.status = "expired" THEN notices ELSE notices \cup {[sub |-> s, snap |-> r]}
  BY <1>1, <1>6
<1>8. AccountInv'
  BY <1>1, <1>2, <1>3, <1>6, <1>7, RemoteChanges DEF CheckoutInv
<1>9. QED
  BY <1>5, <1>8 DEF CheckoutInv

LEMMA SubscriptionIsCancelled ==
    ASSUME CheckoutInv, cancelSubscription
    PROVE  CheckoutInv'
<1> USE CheckoutAssumption
<1> DEFINE s    == getCurrentSubscription(local, order)
           row  == normalizeRazorpaySubscription(remote[s])
           snap == [row EXCEPT !.cancelAtEnd = row.status = "active" /\ row.end # 0]
           r    == [remote[s] EXCEPT !.ending = TRUE]
<1>1. /\ s \in Subs /\ remote[s].status \in {"authenticated", "active", "pending"}
      /\ remote' = [remote EXCEPT ![s] = r]
      /\ applyProviderSubscription(s, snap)
      /\ UNCHANGED <<now, notices, recorded, page>>
  BY DEF cancelSubscription
<1>2. row \in RowRecords /\ row.ver = remote[s].ver /\ Agrees(row, remote[s]) /\ remote[s] \in RemoteRecords
  BY <1>1, NormalAgrees DEF CheckoutInv, AccountInv, AccountTypes
<1> HIDE DEF s, row
<1>3. /\ r \in RemoteRecords /\ r.status = remote[s].status /\ r.end = remote[s].end /\ r.ver = remote[s].ver
  BY <1>2 DEF RemoteRecords
<1>4. snap \in RowRecords /\ snap.ver = remote[s].ver /\ snap.status = row.status /\ snap.end = row.end
  BY <1>2 DEF RowRecords
<1> HIDE DEF r, snap
<1>5. Agrees(snap, remote[s]) /\ remote[s].status \notin Untaken
  BY <1>1, <1>2, <1>4 DEF Agrees, Untaken
<1>6. /\ remote' \in [Subs -> RemoteRecords]
      /\ \A u \in Subs : /\ remote'[u].status = remote[u].status
                         /\ remote'[u].end = remote[u].end /\ remote'[u].ver = remote[u].ver
  BY <1>1, <1>3 DEF CheckoutInv, AccountInv, AccountTypes
<1>7. AccountInv'
  BY <1>1, <1>4, <1>5, <1>6, RowIsRefreshed DEF CheckoutInv
<1>8. PageInv'
  BY <1>1, PhasesStay DEF CheckoutInv, PageInv, PageTypes
<1>9. QED
  BY <1>7, <1>8 DEF CheckoutInv

LEMMA ProviderMoves ==
    ASSUME CheckoutInv, NEW s \in Subs, providerMoves(s)
    PROVE  CheckoutInv'
<1> USE CheckoutAssumption
<1> DEFINE q == [remote[s] EXCEPT !.ver = remote[s].ver + 1]
<1>1. PICK r \in Moved(q) :
        /\ remote' = [remote EXCEPT ![s] = r]
        /\ notices' = IF r.status = "expired" THEN notices ELSE notices \cup {[sub |-> s, snap |-> r]}
  BY DEF providerMoves
<1>2. UNCHANGED <<now, recorded, local, order, page>>
  BY DEF providerMoves
<1>3. /\ q \in RemoteRecords /\ q.ver = remote[s].ver + 1 /\ q.status = remote[s].status
      /\ q.end = remote[s].end /\ Charged(q)
  BY DEF CheckoutInv, AccountInv, AccountTypes, RemoteRecords, RemoteFollows, Charged
<1> HIDE DEF q
<1>4. /\ r \in RemoteRecords /\ r.ver = q.ver /\ Charged(r)
      /\ r.status \notin {"none", "created"}
      /\ r.status = "expired" => q.status \in Untaken
  BY <1>1, <1>3, MovedIsCharged DEF CheckoutInv
<1>5. AccountInv'
  BY <1>1, <1>2, <1>3, <1>4, RemoteChanges DEF CheckoutInv
<1>6. PageInv'
  BY <1>2, PhasesStay DEF CheckoutInv, PageInv, PageTypes
<1>7. QED
  BY <1>5, <1>6 DEF CheckoutInv

LEMMA CheckoutStep ==
    ASSUME CheckoutInv, [CheckoutNext]_coVars
    PROVE  CheckoutInv'
<1> USE CheckoutAssumption
<1> USE DEF CheckoutInv
<1>1. /\ now \in Nat \ {0} /\ PageTypes
      /\ UNCHANGED recorded => /\ recorded' \in [Subs -> [status : {"none", "open", "complete", "expired"}, at : Nat]]
                               /\ \A s \in Subs : recorded'[s].status = "open" => recorded'[s] = recorded[s]
  BY DEF AccountInv, AccountTypes, PageInv, PageTypes
<1>2. CASE UNCHANGED coVars
  <2>1. UNCHANGED <<now, remote, notices, recorded, local, order, page>>
    BY <1>2 DEF coVars
  <2>2. QED
    BY <1>1, <2>1, AccountStays, PhasesStay DEF PageTypes
<1>3. ASSUME NEW t \in Tabs, startCheckout(t)
      PROVE  CheckoutInv'
  BY <1>1, <1>3, CheckoutBegins, AccountStays DEF startCheckout
<1>4. ASSUME NEW t \in Tabs, rebuildCheckoutSession(t)
      PROVE  CheckoutInv'
  <2> DEFINE p == Page("popup", page[t].sub)
  <2>1. p \in PageRecords /\ p.at = "popup" /\ p.sub = page[t].sub /\ page[t].sub \in Subs
    BY <1>1, <1>4, PageIsARecord DEF rebuildCheckoutSession, PageTypes, WithSub, Places
  <2>2. Answered(t, p) /\ UNCHANGED <<now, remote, notices, recorded, local, order>>
    BY <1>4 DEF rebuildCheckoutSession
  <2> HIDE DEF p
  <2>3. QED
    BY <1>1, <2>1, <2>2, AnswerEnds, NothingOpens, AccountStays
<1>5. ASSUME NEW t \in Tabs, createCheckoutRecord(t)
      PROVE  CheckoutInv'
  BY <1>1, <1>5, CheckoutIsRecorded, AccountStays DEF createCheckoutRecord
<1>6. ASSUME NEW t \in Tabs, checkoutFails(t)
      PROVE  CheckoutInv'
  <2>1. Answered(t, Dashboard) /\ UNCHANGED <<now, remote, notices, recorded, local, order>>
    BY <1>6 DEF checkoutFails
  <2>2. QED
    BY <1>1, <2>1, DashboardIsARecord, AnswerEnds, NothingOpens, AccountStays
<1>7. ASSUME NEW t \in Tabs, dismissed(t) \/ leave(t)
      PROVE  CheckoutInv'
  <2>1. page' = [page EXCEPT ![t] = Dashboard] /\ UNCHANGED <<now, remote, notices, recorded, local, order>>
    BY <1>7 DEF dismissed, leave
  <2>2. Dashboard.at \notin WithSub /\ Dashboard.at \notin Performing /\ Dashboard.at \notin {"creating", "answering"}
    BY DashboardIsARecord DEF WithSub, Performing
  <2>3. QED
    BY <1>1, <2>1, <2>2, DashboardIsARecord, PageMoves, AccountStays
<1>8. ASSUME NEW t \in Tabs, success(t)
      PROVE  CheckoutInv'
  BY <1>8, PaymentSucceeds
<1>9. ASSUME NEW t \in Tabs, confirmCheckout(t)
      PROVE  CheckoutInv'
  BY <1>9, CheckoutIsConfirmed
<1>10. ASSUME NEW t \in Tabs, confirmFails(t) \/ reload(t)
       PROVE  CheckoutInv'
  <2>1. PICK word \in {"", "checking", "pending", "complete", "expired", "error"} :
          page' = [page EXCEPT ![t].phase = word]
    BY <1>10 DEF confirmFails, reload, Show
  <2>2. page[t].at = "return" /\ UNCHANGED <<now, remote, notices, recorded, local, order>>
    BY <1>10 DEF confirmFails, reload
  <2>3. QED
    BY <1>1, <2>1, <2>2, PhaseMoves, PhasesStay, AccountStays
<1>11. ASSUME NEW t \in Tabs, NEW s \in Subs, createCheckoutSession(t, s)
       PROVE  CheckoutInv'
  <2> DEFINE p == Page("answering", s)
  <2>1. p \in PageRecords /\ p.at = "answering" /\ p.sub = s
    BY PageIsARecord DEF Places
  <2>2. /\ page' = [page EXCEPT ![t] = p] /\ page[t].at = "creating" /\ remote[s].status = "none"
        /\ remote' = [remote EXCEPT ![s].status = "created"]
        /\ UNCHANGED <<now, notices, recorded, local, order>>
    BY <1>11 DEF createCheckoutSession
  <2> HIDE DEF p
  <2>3. PageInv'
    BY <2>1, <2>2, PageMoves DEF Performing
  <2>4. AccountInv'
    BY <2>2, SubscriptionIsCreated
  <2>5. QED
    BY <2>3, <2>4
<1>12. ASSUME NEW s \in Subs, providerMoves(s)
       PROVE  CheckoutInv'
  BY <1>12, ProviderMoves
<1>13. ASSUME NEW s \in Subs, reconcileSubscription(s)
       PROVE  CheckoutInv'
  <2>1. /\ local[s] # NoRow /\ applyProviderSubscription(s, refineCompleted(remote[s]))
        /\ UNCHANGED <<now, remote, notices, recorded, page>>
    BY <1>13 DEF reconcileSubscription
  <2>2. remote[s].status \notin Untaken /\ remote[s] \in RemoteRecords /\ remote' \in [Subs -> RemoteRecords]
    BY <2>1 DEF AccountInv, AccountTypes, RowsFollow, RowFollows
  <2>3. /\ refineCompleted(remote[s]) \in RowRecords
        /\ refineCompleted(remote[s]).ver = remote[s].ver
        /\ Agrees(refineCompleted(remote[s]), remote[s])
    BY <2>2, RefinedAgrees
  <2>4. AccountInv'
    BY <2>1, <2>2, <2>3, RowIsRefreshed
  <2>5. PageInv'
    BY <1>1, <2>1, PhasesStay DEF PageTypes
  <2>6. QED
    BY <2>4, <2>5
<1>14. ASSUME NEW n \in notices, normalizeRazorpayEvent(n)
       PROVE  CheckoutInv'
  <2>1. UNCHANGED <<now, recorded, page>>
    BY <1>14 DEF normalizeRazorpayEvent
  <2>2. QED
    BY <1>1, <1>14, <2>1, EventIsApplied, PhasesStay DEF PageTypes
<1>15. CASE cancelSubscription
  BY <1>15, SubscriptionIsCancelled
<1>16. CASE timeGoesOn
  <2>1. now' = now + 1 /\ UNCHANGED <<remote, notices, recorded, local, order, page>>
    BY <1>16 DEF timeGoesOn
  <2>2. now' \in Nat \ {0} /\ now' \in Nat /\ now' >= now
    BY <1>1, <2>1
  <2>3. PageInv'
    BY <1>1, <2>1, <2>2, NothingOpens DEF PageTypes
  <2>4. QED
    BY <2>1, <2>2, <2>3, AccountStays
<1>17. QED
  BY <1>2, <1>3, <1>4, <1>5, <1>6, <1>7, <1>8, <1>9, <1>10, <1>11, <1>12, <1>13, <1>14, <1>15, <1>16
     DEF CheckoutNext

\* A row that pays for the plan is of a subscription that was paid for, or is
\* tried, or has changed since.
LEMMA RowsArePaidFor ==
    ASSUME AccountInv, NEW s \in Subs, resolveEffectivePlan(local[s])
    PROVE  \/ remote[s].end # 0 /\ now < remote[s].end + Grace
           \/ remote[s].end = 0 /\ remote[s].status \in {"authenticated", "pending"}
           \/ \E n \in notices : n.sub = s /\ n.snap.ver > local[s].ver
<1> USE CheckoutAssumption
<1>1. /\ local[s].status \in {"active", "past_due"}
      /\ local[s].end \in Nat /\ local[s].ver \in Nat /\ remote[s].end \in Nat /\ remote[s].ver \in Nat
      /\ now \in Nat /\ now # 0
  BY DEF resolveEffectivePlan, AccountInv, AccountTypes, RowRecords, RemoteRecords
<1>2. /\ remote[s].status \notin Untaken /\ local[s].ver <= remote[s].ver
      /\ local[s].ver = remote[s].ver => Agrees(local[s], remote[s])
      /\ \/ local[s].ver = remote[s].ver
         \/ \E n \in notices : n.sub = s /\ n.snap.ver = remote[s].ver
  BY <1>1, NoRowIsARow DEF AccountInv, RowsFollow, RowFollows
<1>3. CASE local[s].ver < remote[s].ver
  BY <1>1, <1>2, <1>3
<1>4. CASE local[s].ver = remote[s].ver
  <2>1. Agrees(local[s], remote[s]) /\ Charged(remote[s])
    BY <1>2, <1>4 DEF AccountInv, RemoteFollows
  <2>2. local[s].end = remote[s].end
    BY <2>1 DEF Agrees
  <2>3. CASE remote[s].end = 0
    BY <1>1, <2>1, <2>3 DEF Agrees, Charged
  <2>4. CASE remote[s].end # 0
    <3>1. now < remote[s].end + Grace
      BY <1>1, <2>2, <2>4 DEF resolveEffectivePlan
    <3>2. QED
      BY <2>4, <3>1
  <2>5. QED
    BY <2>3, <2>4
<1>5. QED
  BY <1>1, <1>2, <1>3, <1>4

\* Nobody has a plan that is not paid for, and clicks share one checkout, for
\* any number of tabs, subscriptions and changes, and any cycle, grace and window.
THEOREM CheckoutsAreSound == CheckoutSpec => []CheckoutsHold
<1> USE CheckoutAssumption
<1>1. CheckoutInit => CheckoutInv
  BY AccountStart, PageStart DEF CheckoutInv
<1>2. CheckoutInv /\ [CheckoutNext]_coVars => CheckoutInv'
  BY CheckoutStep
<1>3. CheckoutInv => CheckoutsHold
  <2>1. SUFFICES ASSUME CheckoutInv
                 PROVE  PlanIsPaidFor /\ ClicksShareOneCheckout
    BY DEF CheckoutsHold
  <2>2. PlanIsPaidFor
    BY <2>1, RowsArePaidFor DEF CheckoutInv, PlanIsPaidFor, paidPlan, getEffectivePlan
  <2>3. ClicksShareOneCheckout
    <3>1. \A s, u \in findRecentOpenCheckout : s = u
      BY <2>1 DEF CheckoutInv, PageInv, OneAtATime
    <3>2. CASE findRecentOpenCheckout = {}
      BY <3>2, FS_EmptySet DEF ClicksShareOneCheckout
    <3>3. CASE findRecentOpenCheckout # {}
      <4>1. PICK s : findRecentOpenCheckout = {s}
        BY <3>1, <3>3
      <4>2. Cardinality({s}) = 1
        BY FS_Singleton
      <4>3. QED
        BY <4>1, <4>2 DEF ClicksShareOneCheckout
    <3>4. QED
      BY <3>2, <3>3
  <2>4. QED
    BY <2>2, <2>3
<1>4. QED
  BY <1>1, <1>2, <1>3, PTL DEF CheckoutSpec

(***************************************************************************)
(* The studio in a tab.  A row that was loaded, wherever it is by now, is  *)
(* older than the test or says what the test says.                         *)
(***************************************************************************)
Titles   == Names \cup {""}
TestRows == [status : {"absent", "DRAFT", "ACTIVE"} \cup SaveAs, version : Nat,
             name : Titles, definition : Definitions]
RowIds   == SavedIds \cup {Undefined}

StudioTypes ==
    /\ savedTest \in [SavedIds -> TestRows] /\ listing \in [SavedIds -> TestRows]
    /\ building \in [open : BOOLEAN, id : RowIds, row : TestRows, loading : BOOLEAN]
    /\ draft \in [mounted : BOOLEAN, name : Titles, definition : Definitions]

SaveSeen(i, row) ==
    /\ row.version <= savedTest[i].version
    /\ row.version = savedTest[i].version => row.definition = savedTest[i].definition

RequestSeen(r) ==
    \/ r.kind = "list" /\ r.rows \in [SavedIds -> TestRows] /\ \A i \in SavedIds : SaveSeen(i, r.rows[i])
    \/ r.kind = "definition" /\ r.id \in SavedIds /\ r.row \in TestRows /\ SaveSeen(r.id, r.row) /\ r.answer \in Definitions
    \/ /\ r.kind = "save" /\ r.target \in RowIds /\ r.row \in TestRows
       /\ r.target # Undefined => SaveSeen(r.target, r.row)
       /\ r.name \in Titles /\ r.definition \in Definitions /\ r.status \in SaveAs

RowsAreSeen ==
    /\ \A i \in SavedIds : SaveSeen(i, listing[i])
    /\ building.id # Undefined => SaveSeen(building.id, building.row)
    /\ \A r \in requests : RequestSeen(r)

StudioInv == StudioTypes /\ RowsAreSeen

LEMMA EmptyDefinitionIsADefinition == emptyDefinition \in Definitions
BY DEF emptyDefinition, Definitions

LEMMA NoTestIsARow == NoTest \in TestRows /\ NoTest.version = 0
BY EmptyDefinitionIsADefinition DEF NoTest, TestRows, Titles

LEMMA ClosedIsTyped ==
    /\ Closed \in [open : BOOLEAN, id : RowIds, row : TestRows, loading : BOOLEAN]
    /\ Closed.id = Undefined
    /\ NoForm \in [mounted : BOOLEAN, name : Titles, definition : Definitions]
BY NoTestIsARow, EmptyDefinitionIsADefinition DEF Closed, NoForm, RowIds, Titles

LEMMA BuilderIsTyped ==
    ASSUME NEW i \in RowIds, NEW row \in TestRows, NEW l \in BOOLEAN
    PROVE  /\ OpenOn(i, row, l) \in [open : BOOLEAN, id : RowIds, row : TestRows, loading : BOOLEAN]
           /\ OpenOn(i, row, l).id = i /\ OpenOn(i, row, l).row = row
BY DEF OpenOn

LEMMA FormIsTyped ==
    ASSUME NEW n \in Titles, NEW d \in Definitions
    PROVE  Form(n, d) \in [mounted : BOOLEAN, name : Titles, definition : Definitions]
BY DEF Form

LEMMA EmptyFormIsTyped ==
    emptyForm \in [mounted : BOOLEAN, name : Titles, definition : Definitions]
BY FormIsTyped, EmptyDefinitionIsADefinition DEF emptyForm, Titles

LEMMA StudioStart == StudioInit => StudioInv
<1>1. SUFFICES ASSUME StudioInit
               PROVE  StudioInv
  OBVIOUS
<1>2. /\ listing = savedTest /\ building = Closed /\ draft = NoForm /\ requests = {}
      /\ savedTest \in [SavedIds -> {NoTest} \cup
            {[NoTest EXCEPT !.status = "ACTIVE", !.version = 1, !.name = n,
                            !.definition = [emptyDefinition EXCEPT !.hasStep = TRUE]] : n \in Names}]
  BY <1>1 DEF StudioInit
<1>3. \A n \in Names :
        [NoTest EXCEPT !.status = "ACTIVE", !.version = 1, !.name = n,
                            !.definition = [emptyDefinition EXCEPT !.hasStep = TRUE]] \in TestRows
  <2>1. SUFFICES ASSUME NEW n \in Names
                 PROVE  [NoTest EXCEPT !.status = "ACTIVE", !.version = 1, !.name = n,
                            !.definition = [emptyDefinition EXCEPT !.hasStep = TRUE]] \in TestRows
    OBVIOUS
  <2> DEFINE d == [emptyDefinition EXCEPT !.hasStep = TRUE]
  <2>2. d \in Definitions
    BY DEF emptyDefinition, Definitions
  <2> HIDE DEF d
  <2>3. [[[[NoTest EXCEPT !.status = "ACTIVE"] EXCEPT !.version = 1] EXCEPT !.name = n] EXCEPT !.definition = d] \in TestRows
    BY <2>2, NoTestIsARow DEF TestRows, Titles
  <2>4. [NoTest EXCEPT !.status = "ACTIVE", !.version = 1, !.name = n, !.definition = d]
          = [[[[NoTest EXCEPT !.status = "ACTIVE"] EXCEPT !.version = 1] EXCEPT !.name = n] EXCEPT !.definition = d]
    OBVIOUS
  <2>5. QED
    BY <2>3, <2>4 DEF d
<1>4. savedTest \in [SavedIds -> TestRows]
  <2> DEFINE initial(n) == [NoTest EXCEPT !.status = "ACTIVE", !.version = 1, !.name = n,
                            !.definition = [emptyDefinition EXCEPT !.hasStep = TRUE]]
             S == {NoTest} \cup {initial(n) : n \in Names}
  <2>1. savedTest \in [SavedIds -> S]
    BY <1>2
  <2>2. \A n \in Names : initial(n) \in TestRows
    BY <1>3
  <2> HIDE DEF initial
  <2>3. S \subseteq TestRows
    BY <2>2, NoTestIsARow
  <2> HIDE DEF S
  <2>4. QED
    BY <2>1, <2>3
<1>5. \A i \in SavedIds : savedTest[i].version \in Nat
  BY <1>4 DEF TestRows
<1>6. StudioTypes
  BY <1>2, <1>4, ClosedIsTyped DEF StudioTypes
<1>7. RowsAreSeen
  <2>1. \A i \in SavedIds : SaveSeen(i, listing[i])
    <3>1. listing = savedTest
      BY <1>2
    <3>2. QED
      BY <1>5, <3>1 DEF SaveSeen
  <2>2. building.id = Undefined
    BY <1>2, ClosedIsTyped
  <2>3. QED
    BY <1>2, <2>1, <2>2 DEF RowsAreSeen
<1>8. QED
  BY <1>6, <1>7 DEF StudioInv

\* The rows of the server only move on.
TestsMoveOn ==
    \A i \in SavedIds :
        /\ savedTest'[i].version >= savedTest[i].version
        /\ savedTest'[i].version = savedTest[i].version => savedTest'[i].definition = savedTest[i].definition

LEMMA SeenStays ==
    ASSUME StudioTypes, StudioTypes', TestsMoveOn, NEW i \in SavedIds, NEW row \in TestRows, SaveSeen(i, row)
    PROVE  SaveSeen(i, row)'
<1>1. savedTest[i].version \in Nat /\ savedTest'[i].version \in Nat /\ row.version \in Nat
  BY DEF StudioTypes, TestRows
<1>2. QED
  BY <1>1 DEF TestsMoveOn, SaveSeen

LEMMA RequestsStaySeen ==
    ASSUME StudioTypes, StudioTypes', TestsMoveOn, NEW r, RequestSeen(r)
    PROVE  RequestSeen(r)'
<1>1. \A i \in SavedIds, row \in TestRows : SaveSeen(i, row) => SaveSeen(i, row)'
  BY SeenStays
<1>2. CASE r.kind = "list" /\ r.rows \in [SavedIds -> TestRows] /\ \A i \in SavedIds : SaveSeen(i, r.rows[i])
  BY <1>1, <1>2 DEF RequestSeen
<1>3. CASE r.kind = "definition" /\ r.id \in SavedIds /\ r.row \in TestRows /\ SaveSeen(r.id, r.row) /\ r.answer \in Definitions
  BY <1>1, <1>3 DEF RequestSeen
<1>4. CASE /\ r.kind = "save" /\ r.target \in RowIds /\ r.row \in TestRows
           /\ r.target # Undefined => SaveSeen(r.target, r.row)
           /\ r.name \in Titles /\ r.definition \in Definitions /\ r.status \in SaveAs
  BY <1>1, <1>4 DEF RequestSeen, RowIds
<1>5. QED
  BY <1>2, <1>3, <1>4 DEF RequestSeen

\* A step that leaves the rows of the server, and whose new requests and rows
\* were read from what was seen.
LEMMA RowsStaySeen ==
    ASSUME StudioInv, StudioTypes', TestsMoveOn,
           \A i \in SavedIds : SaveSeen(i, listing'[i]),
           building'.id # Undefined => SaveSeen(building'.id, building'.row),
           \A r \in requests' : RequestSeen(r)
    PROVE  StudioInv'
<1>1. \A i \in SavedIds, row \in TestRows : SaveSeen(i, row) => SaveSeen(i, row)'
  BY SeenStays DEF StudioInv
<1>2. \A r : RequestSeen(r) => RequestSeen(r)'
  BY RequestsStaySeen DEF StudioInv
<1>3. /\ listing' \in [SavedIds -> TestRows] /\ building'.id \in RowIds /\ building'.row \in TestRows
  BY DEF StudioTypes
<1>4. QED
  BY <1>1, <1>2, <1>3 DEF StudioInv, RowsAreSeen, RowIds

LEMMA TestsStay ==
    ASSUME StudioInv, savedTest' = savedTest
    PROVE  TestsMoveOn
BY DEF TestsMoveOn, StudioInv, StudioTypes, TestRows

\* Steps of the page: the rows of the server stay.
LEMMA PageSteps ==
    ASSUME StudioInv, savedTest' = savedTest,
           listing' \in [SavedIds -> TestRows], \A i \in SavedIds : SaveSeen(i, listing'[i]),
           building' \in [open : BOOLEAN, id : RowIds, row : TestRows, loading : BOOLEAN],
           building'.id # Undefined => SaveSeen(building'.id, building'.row),
           draft' \in [mounted : BOOLEAN, name : Titles, definition : Definitions],
           \A r \in requests' : RequestSeen(r)
    PROVE  StudioInv'
<1>1. StudioTypes'
  BY DEF StudioInv, StudioTypes
<1>2. QED
  BY <1>1, TestsStay, RowsStaySeen

LEMMA LoadTestsStep == StudioInv /\ loadTests => StudioInv'
<1>1. SUFFICES ASSUME StudioInv, loadTests
               PROVE  StudioInv'
  OBVIOUS
<1> DEFINE new == [kind |-> "list", rows |-> savedTest]
<1>2. /\ requests' = requests \cup {new}
      /\ UNCHANGED <<savedTest, listing, building, draft>>
  BY <1>1 DEF loadTests, Send
<1>3. RequestSeen(new)
  BY <1>1 DEF RequestSeen, StudioInv, StudioTypes, SaveSeen, TestRows
<1> HIDE DEF new
<1>4. \A r \in requests' : RequestSeen(r)
  BY <1>1, <1>2, <1>3 DEF StudioInv, RowsAreSeen
<1>5. QED
  BY <1>1, <1>2, <1>4, PageSteps DEF StudioInv, StudioTypes, RowsAreSeen

LEMMA ListArrivesStep ==
    ASSUME StudioInv, NEW r \in requests, listArrives(r)
    PROVE  StudioInv'
<1>1. /\ listing' = r.rows /\ requests' = requests \ {r} /\ r.kind = "list"
      /\ UNCHANGED <<savedTest, building, draft>>
  BY DEF listArrives
<1>2. RequestSeen(r)
  BY DEF StudioInv, RowsAreSeen
<1>3. r.rows \in [SavedIds -> TestRows] /\ \A i \in SavedIds : SaveSeen(i, r.rows[i])
  BY <1>1, <1>2 DEF RequestSeen
<1>4. \A q \in requests' : RequestSeen(q)
  BY <1>1 DEF StudioInv, RowsAreSeen
<1>5. QED
  BY <1>1, <1>3, <1>4, PageSteps DEF StudioInv, StudioTypes, RowsAreSeen

LEMMA NewTestStep == StudioInv /\ newTest => StudioInv'
<1>1. SUFFICES ASSUME StudioInv, newTest
               PROVE  StudioInv'
  OBVIOUS
<1>2. /\ building' = OpenOn(Undefined, NoTest, FALSE) /\ draft' = emptyForm
      /\ UNCHANGED <<savedTest, listing, requests>>
  BY <1>1 DEF newTest
<1>3. /\ building' \in [open : BOOLEAN, id : RowIds, row : TestRows, loading : BOOLEAN]
      /\ building'.id = Undefined
  BY <1>2, NoTestIsARow, BuilderIsTyped, ZenonT(40) DEF RowIds
<1>4. QED
  BY <1>1, <1>2, <1>3, EmptyFormIsTyped, PageSteps DEF StudioInv, StudioTypes, RowsAreSeen

LEMMA EditTestStep ==
    ASSUME StudioInv, NEW i \in SavedIds, editTest(i)
    PROVE  StudioInv'
<1> DEFINE new == [kind |-> "definition", id |-> i, row |-> listing[i], answer |-> savedTest[i].definition]
<1>1. /\ building' = OpenOn(i, listing[i], TRUE)
      /\ requests' = requests \cup {new}
      /\ UNCHANGED <<savedTest, listing, draft>>
  BY DEF editTest, Send
<1>2. listing[i] \in TestRows /\ SaveSeen(i, listing[i]) /\ savedTest[i] \in TestRows
  BY DEF StudioInv, StudioTypes, RowsAreSeen
<1>3. RequestSeen(new)
  BY <1>2 DEF RequestSeen, TestRows
<1> HIDE DEF new
<1>4. \A r \in requests' : RequestSeen(r)
  BY <1>1, <1>3 DEF StudioInv, RowsAreSeen
<1>5. /\ building' \in [open : BOOLEAN, id : RowIds, row : TestRows, loading : BOOLEAN]
      /\ building'.id = i /\ building'.row = listing[i]
  <2>1. i \in RowIds
    BY DEF RowIds
  <2>2. QED
    BY <1>1, <1>2, <2>1, BuilderIsTyped
<1>6. QED
  BY <1>1, <1>2, <1>4, <1>5, PageSteps DEF StudioInv, StudioTypes, RowsAreSeen

\* Both answers about a definition leave the form that is mounted.
LEMMA DefinitionArrivesStep ==
    ASSUME StudioInv, NEW r \in requests, definitionArrives(r)
    PROVE  StudioInv'
<1>1. /\ r.kind = "definition" /\ requests' = requests \ {r}
      /\ building' = OpenOn(r.id, r.row, FALSE)
      /\ draft' = IF draft.mounted THEN draft ELSE Form(r.row.name, r.answer)
      /\ UNCHANGED <<savedTest, listing>>
  BY DEF definitionArrives
<1>2. RequestSeen(r)
  BY DEF StudioInv, RowsAreSeen
<1>3. r.id \in SavedIds /\ r.row \in TestRows /\ SaveSeen(r.id, r.row) /\ r.answer \in Definitions
  BY <1>1, <1>2 DEF RequestSeen
<1>4. /\ building' \in [open : BOOLEAN, id : RowIds, row : TestRows, loading : BOOLEAN]
      /\ building'.id = r.id /\ building'.row = r.row
  <2>1. r.id \in RowIds
    BY <1>3 DEF RowIds
  <2>2. QED
    BY <1>1, <1>3, <2>1, BuilderIsTyped, ZenonT(40)
<1>5. draft' \in [mounted : BOOLEAN, name : Titles, definition : Definitions]
  <2>1. r.row.name \in Titles
    BY <1>3 DEF TestRows
  <2>2. Form(r.row.name, r.answer) \in [mounted : BOOLEAN, name : Titles, definition : Definitions]
    BY <2>1, <1>3, FormIsTyped
  <2>3. QED
    BY <1>1, <2>2 DEF StudioInv, StudioTypes
<1>6. \A q \in requests' : RequestSeen(q)
  BY <1>1 DEF StudioInv, RowsAreSeen
<1>7. QED
  BY <1>1, <1>3, <1>4, <1>5, <1>6, PageSteps DEF StudioInv, StudioTypes, RowsAreSeen

LEMMA DefinitionFailsStep ==
    ASSUME StudioInv, NEW r \in requests, definitionFails(r)
    PROVE  StudioInv'
<1>1. /\ requests' = requests \ {r}
      /\ building' = OpenOn(Undefined, NoTest, FALSE)
      /\ draft' = IF draft.mounted THEN draft ELSE emptyForm
      /\ UNCHANGED <<savedTest, listing>>
  BY DEF definitionFails
<1>2. /\ building' \in [open : BOOLEAN, id : RowIds, row : TestRows, loading : BOOLEAN]
      /\ building'.id = Undefined
  BY <1>1, NoTestIsARow, BuilderIsTyped, ZenonT(40) DEF RowIds
<1>3. draft' \in [mounted : BOOLEAN, name : Titles, definition : Definitions]
  BY <1>1, EmptyFormIsTyped DEF StudioInv, StudioTypes
<1>4. \A q \in requests' : RequestSeen(q)
  BY <1>1 DEF StudioInv, RowsAreSeen
<1>5. QED
  BY <1>1, <1>2, <1>3, <1>4, PageSteps DEF StudioInv, StudioTypes, RowsAreSeen

LEMMA BackToListStep == StudioInv /\ backToList => StudioInv'
<1>1. SUFFICES ASSUME StudioInv, backToList
               PROVE  StudioInv'
  OBVIOUS
<1>2. /\ building' = Closed /\ draft' = NoForm
      /\ UNCHANGED <<savedTest, listing, requests>>
  BY <1>1 DEF backToList
<1>3. QED
  BY <1>1, <1>2, ClosedIsTyped, PageSteps DEF StudioInv, StudioTypes, RowsAreSeen

\* The steps in the form keep it one of a test.
LEMMA FormSteps ==
    ASSUME StudioInv,
           draft' \in [mounted : BOOLEAN, name : Titles, definition : Definitions],
           UNCHANGED <<savedTest, listing, building, requests>>
    PROVE  StudioInv'
BY PageSteps DEF StudioInv, StudioTypes, RowsAreSeen

LEMMA DraftedStep ==
    ASSUME StudioInv, NEW d, Drafted(d)
    PROVE  StudioInv'
<1>1. /\ d \in Definitions /\ draft' = [draft EXCEPT !.definition = d]
      /\ UNCHANGED <<savedTest, listing, building, requests>>
  BY DEF Drafted
<1>2. draft' \in [mounted : BOOLEAN, name : Titles, definition : Definitions]
  BY <1>1 DEF StudioInv, StudioTypes
<1>3. QED
  BY <1>1, <1>2, FormSteps

LEMMA SetNameStep ==
    ASSUME StudioInv, NEW n \in Names, setName(n)
    PROVE  StudioInv'
<1>1. /\ draft' = [draft EXCEPT !.name = n]
      /\ UNCHANGED <<savedTest, listing, building, requests>>
  BY DEF setName
<1>2. draft' \in [mounted : BOOLEAN, name : Titles, definition : Definitions]
  BY <1>1 DEF StudioInv, StudioTypes, Titles
<1>3. QED
  BY <1>1, <1>2, FormSteps

LEMMA UseTemplateStep ==
    ASSUME StudioInv, NEW n \in Names, NEW d \in Definitions, useTemplate(n, d)
    PROVE  StudioInv'
<1>1. /\ draft' = [draft EXCEPT !.name = n, !.definition = d]
      /\ UNCHANGED <<savedTest, listing, building, requests>>
  BY DEF useTemplate
<1>2. draft' = [[draft EXCEPT !.name = n] EXCEPT !.definition = d]
  BY <1>1
<1>3. draft' \in [mounted : BOOLEAN, name : Titles, definition : Definitions]
  BY <1>2 DEF StudioInv, StudioTypes, Titles
<1>4. QED
  BY <1>1, <1>3, FormSteps

\* A save sends the row the builder was opened on.
LEMMA SaveStep ==
    ASSUME StudioInv, NEW s \in SaveAs, save(s)
    PROVE  StudioInv'
<1> DEFINE new == [kind |-> "save", target |-> building.id, row |-> building.row,
                   name |-> draft.name, definition |-> draft.definition, status |-> s]
<1>1. /\ requests' = requests \cup {new}
      /\ UNCHANGED <<savedTest, listing, building, draft>>
  BY DEF save, Send
<1>2. /\ building.id \in RowIds /\ building.row \in TestRows
      /\ draft.name \in Titles /\ draft.definition \in Definitions
      /\ building.id # Undefined => SaveSeen(building.id, building.row)
  BY DEF StudioInv, StudioTypes, RowsAreSeen
<1>3. /\ new.kind = "save" /\ new.target = building.id /\ new.row = building.row
      /\ new.name = draft.name /\ new.definition = draft.definition /\ new.status = s
  OBVIOUS
<1> HIDE DEF new
<1>4. RequestSeen(new)
  BY <1>2, <1>3 DEF RequestSeen
<1>5. \A r \in requests' : RequestSeen(r)
  BY <1>1, <1>4 DEF StudioInv, RowsAreSeen
<1>6. QED
  BY <1>1, <1>5, PageSteps DEF StudioInv, StudioTypes, RowsAreSeen

LEMMA SaveFailsStep ==
    ASSUME StudioInv, NEW r \in requests, saveFails(r)
    PROVE  StudioInv'
<1>1. /\ requests' = requests \ {r}
      /\ UNCHANGED <<savedTest, listing, building, draft>>
  BY DEF saveFails
<1>2. \A q \in requests' : RequestSeen(q)
  BY <1>1 DEF StudioInv, RowsAreSeen
<1>3. QED
  BY <1>1, <1>2, PageSteps DEF StudioInv, StudioTypes, RowsAreSeen

\* Steps of the server on one test: its row moves on.
LEMMA ServerSteps ==
    ASSUME StudioInv, NEW i \in SavedIds, NEW row \in TestRows,
           savedTest' = [savedTest EXCEPT ![i] = row],
           row.version >= savedTest[i].version,
           row.version = savedTest[i].version => row.definition = savedTest[i].definition,
           listing' = listing,
           \/ building' = building /\ draft' = draft
           \/ building' = Closed /\ draft' = NoForm,
           requests' \subseteq requests
    PROVE  StudioInv'
<1>1. /\ savedTest' \in [SavedIds -> TestRows]
      /\ savedTest'[i] = row /\ \A j \in SavedIds : j # i => savedTest'[j] = savedTest[j]
  BY DEF StudioInv, StudioTypes
<1>2. StudioTypes'
  BY <1>1, ClosedIsTyped DEF StudioInv, StudioTypes
<1>3. TestsMoveOn
  BY <1>1 DEF TestsMoveOn, StudioInv, StudioTypes, TestRows
<1>4. /\ \A j \in SavedIds : SaveSeen(j, listing'[j])
      /\ \A r \in requests' : RequestSeen(r)
  BY DEF StudioInv, RowsAreSeen
<1>5. building'.id # Undefined => SaveSeen(building'.id, building'.row)
  BY ClosedIsTyped DEF StudioInv, RowsAreSeen
<1>6. QED
  BY <1>2, <1>3, <1>4, <1>5, RowsStaySeen

LEMMA PatchedRow ==
    ASSUME NEW row \in TestRows, NEW r, r.name \in Titles, r.definition \in Definitions, r.status \in SaveAs
    PROVE  /\ Updated(row, r) \in TestRows
           /\ Updated(row, r).version >= row.version
           /\ Updated(row, r).version = row.version => Updated(row, r).definition = row.definition
BY DEF Updated, TestRows

LEMMA PatchSucceedsStep ==
    ASSUME StudioInv, NEW r \in requests, patchSucceeds(r)
    PROVE  /\ StudioInv'
           /\ r.target \in SavedIds /\ r \notin requests'
           /\ r.row.definition = savedTest[r.target].definition
           /\ \A i \in SavedIds : savedTest'[i] # savedTest[i] => i = r.target
<1>1. /\ r.kind = "save" /\ r.target # Undefined
      /\ r.row.version = savedTest[r.target].version
      /\ savedTest' = [savedTest EXCEPT ![r.target] = Updated(savedTest[r.target], r)]
      /\ requests' = requests \ {r} /\ building' = Closed /\ draft' = NoForm
      /\ listing' = listing
  BY DEF patchSucceeds, updateStudioTest
<1>2. RequestSeen(r)
  BY DEF StudioInv, RowsAreSeen
<1>3. /\ r.target \in SavedIds /\ SaveSeen(r.target, r.row)
      /\ r.name \in Titles /\ r.definition \in Definitions /\ r.status \in SaveAs
  BY <1>1, <1>2 DEF RequestSeen, RowIds
<1>4. savedTest[r.target] \in TestRows
  BY <1>3 DEF StudioInv, StudioTypes
<1>5. StudioInv'
  BY <1>1, <1>3, <1>4, PatchedRow, ServerSteps
<1>6. r.row.definition = savedTest[r.target].definition
  BY <1>1, <1>3 DEF SaveSeen
<1>7. \A i \in SavedIds : savedTest'[i] # savedTest[i] => i = r.target
  BY <1>1 DEF StudioInv, StudioTypes
<1>8. QED
  BY <1>1, <1>3, <1>5, <1>6, <1>7

LEMMA PostSucceedsStep ==
    ASSUME StudioInv, NEW r \in requests, NEW i \in SavedIds, NEW a \in BOOLEAN, postSucceeds(r, i, a)
    PROVE  /\ StudioInv'
           /\ \A j \in SavedIds : savedTest[j] # NoTest => savedTest'[j] = savedTest[j]
<1> DEFINE asked == IF a THEN r.status ELSE "DRAFT"
           row   == [Created(r) EXCEPT !.status = asked]
<1>1. /\ r.kind = "save" /\ savedTest[i] = NoTest
      /\ savedTest' = [savedTest EXCEPT ![i] = row]
      /\ requests' = requests \ {r} /\ listing' = listing
      /\ \/ building' = building /\ draft' = draft
         \/ building' = Closed /\ draft' = NoForm
  BY DEF postSucceeds
<1>2. RequestSeen(r)
  BY DEF StudioInv, RowsAreSeen
<1>3. r.name \in Titles /\ r.definition \in Definitions /\ r.status \in SaveAs
  BY <1>1, <1>2 DEF RequestSeen
<1>4. Created(r) \in TestRows /\ Created(r).version = 1
  BY <1>3 DEF Created, TestRows
<1>5. asked \in {"absent", "DRAFT", "ACTIVE"} \cup SaveAs
  BY <1>3
<1>6. row \in TestRows /\ row.version = 1
  BY <1>4, <1>5 DEF TestRows
<1> HIDE DEF row, asked
<1>7. row.version >= savedTest[i].version /\ row.version # savedTest[i].version
  BY <1>1, <1>6, NoTestIsARow
<1>8. StudioInv'
  <2>1. requests' \subseteq requests
    BY <1>1
  <2>2. QED
    BY <1>1, <1>6, <1>7, <2>1, ServerSteps
<1>9. \A j \in SavedIds : savedTest[j] # NoTest => savedTest'[j] = savedTest[j]
  BY <1>1 DEF StudioInv, StudioTypes
<1>10. QED
  BY <1>8, <1>9

LEMMA SavedElsewhereStep ==
    ASSUME StudioInv, NEW i \in SavedIds, NEW d \in Definitions, SavedElsewhere(i, d)
    PROVE  StudioInv' /\ requests' = requests
<1> DEFINE row == [[savedTest[i] EXCEPT !.definition = d] EXCEPT !.version = savedTest[i].version + 1]
<1>1. /\ savedTest' = [savedTest EXCEPT ![i].definition = d, ![i].version = savedTest[i].version + 1]
      /\ UNCHANGED <<listing, building, draft, requests>>
  BY DEF SavedElsewhere
<1>2. savedTest[i] \in TestRows
  BY DEF StudioInv, StudioTypes
<1>3. row \in TestRows /\ row.version >= savedTest[i].version /\ row.version # savedTest[i].version
  <2>1. savedTest[i].version \in Nat
    BY <1>2 DEF TestRows
  <2>2. [savedTest[i] EXCEPT !.definition = d] \in TestRows
    BY <1>2 DEF TestRows
  <2>3. row.version = savedTest[i].version + 1
    BY <1>2 DEF TestRows
  <2>4. row \in TestRows
    <3>1. \A e \in TestRows, v \in Nat : [e EXCEPT !.version = v] \in TestRows
      BY DEF TestRows
    <3>2. savedTest[i].version + 1 \in Nat
      BY <2>1
    <3>3. QED
      BY <2>2, <3>1, <3>2
  <2>5. QED
    BY <2>1, <2>3, <2>4
<1>4. savedTest' = [savedTest EXCEPT ![i] = row]
  BY <1>1 DEF StudioInv, StudioTypes
<1> HIDE DEF row
<1>5. StudioInv'
  <2>1. requests' \subseteq requests /\ listing' = listing /\ building' = building /\ draft' = draft
    BY <1>1
  <2>2. QED
    BY <1>3, <1>4, <2>1, ServerSteps
<1>6. QED
  BY <1>1, <1>5

LEMMA StudioStep == StudioInv /\ [StudioNext]_seVars => StudioInv'
<1>1. SUFFICES ASSUME StudioInv, [StudioNext]_seVars
               PROVE  StudioInv'
  OBVIOUS
<1>2. CASE loadTests \/ newTest \/ backToList
  BY <1>1, <1>2, LoadTestsStep, NewTestStep, BackToListStep
<1>3. ASSUME NEW i \in SavedIds, editTest(i)
      PROVE  StudioInv'
  BY <1>1, <1>3, EditTestStep
<1>4. ASSUME NEW r \in requests, \/ listArrives(r) \/ definitionArrives(r) \/ definitionFails(r)
                                 \/ patchSucceeds(r) \/ saveFails(r)
      PROVE  StudioInv'
  BY <1>1, <1>4, ListArrivesStep, DefinitionArrivesStep, DefinitionFailsStep, PatchSucceedsStep, SaveFailsStep
<1>5. ASSUME NEW r \in requests, NEW i \in SavedIds, NEW a \in BOOLEAN, postSucceeds(r, i, a)
      PROVE  StudioInv'
  BY <1>1, <1>5, PostSucceedsStep
<1>6. ASSUME NEW i \in SavedIds, NEW d \in Definitions, SavedElsewhere(i, d)
      PROVE  StudioInv'
  BY <1>1, <1>6, SavedElsewhereStep
<1>7. ASSUME NEW n \in Names, setName(n)
      PROVE  StudioInv'
  BY <1>1, <1>7, SetNameStep
<1>8. ASSUME NEW refs \in SUBSET Variables, NEW any \in BOOLEAN, changeSteps(refs, any)
      PROVE  StudioInv'
  BY <1>1, <1>8, DraftedStep DEF changeSteps
<1>9. ASSUME NEW refs \in SUBSET Variables, changeAssertions(refs)
      PROVE  StudioInv'
  BY <1>1, <1>9, DraftedStep DEF changeAssertions
<1>10. ASSUME NEW vs \in SUBSET Variables, changeVariables(vs)
       PROVE  StudioInv'
  BY <1>1, <1>10, DraftedStep DEF changeVariables
<1>11. ASSUME NEW n \in Names, NEW d \in Definitions, useTemplate(n, d)
       PROVE  StudioInv'
  BY <1>1, <1>11, UseTemplateStep
<1>12. ASSUME NEW s \in SaveAs, save(s)
       PROVE  StudioInv'
  BY <1>1, <1>12, SaveStep
<1>13. CASE UNCHANGED seVars
  BY <1>1, <1>13, FormSteps DEF seVars, StudioInv, StudioTypes
<1>14. QED
  BY <1>1, <1>2, <1>3, <1>4, <1>5, <1>6, <1>7, <1>8, <1>9, <1>10, <1>11, <1>12, <1>13 DEF StudioNext

\* A save that the server takes for a test that exists replaces the definition
\* the builder was opened on: in every state a row that was loaded, listed or
\* sent is older than the test or says what it says, so the version the server
\* compares (updateStudioTest, studio-service.ts) tells the definitions apart
\* however late the answers of the studio are and whoever saved meanwhile.
THEOREM SavesSeeTheTest == StudioSpec => SavesAreSeen
<1>1. StudioInit => StudioInv
  BY StudioStart
<1>2. StudioInv /\ [StudioNext]_seVars => StudioInv'
  BY StudioStep
<1>3. StudioInv /\ [StudioNext]_seVars =>
        [\A i \in SavedIds :
            (savedTest[i] # NoTest /\ savedTest'[i] # savedTest[i]) =>
               requests' = requests \/
               \E r \in requests \ requests' : r.target = i /\ r.row.definition = savedTest[i].definition]_seVars
  <2>1. SUFFICES ASSUME StudioInv, StudioNext, NEW i \in SavedIds,
                        savedTest[i] # NoTest, savedTest'[i] # savedTest[i], requests' # requests
                 PROVE  \E r \in requests \ requests' : r.target = i /\ r.row.definition = savedTest[i].definition
    OBVIOUS
  <2>2. savedTest' # savedTest
    BY <2>1, Zenon
  <2>3. \/ \E r \in requests : patchSucceeds(r)
        \/ \E r \in requests, j \in SavedIds, a \in BOOLEAN : postSucceeds(r, j, a)
        \/ \E j \in SavedIds, d \in Definitions : SavedElsewhere(j, d)
    BY <2>1, <2>2
       DEF StudioNext, loadTests, newTest, backToList, editTest,
           listArrives, definitionArrives, definitionFails, saveFails,
           setName, changeSteps, changeAssertions, changeVariables,
           Drafted, useTemplate, save
  <2>4. CASE \E r \in requests : patchSucceeds(r)
    BY <2>1, <2>4, PatchSucceedsStep
  <2>5. CASE \E r \in requests, j \in SavedIds, a \in BOOLEAN : postSucceeds(r, j, a)
    BY <2>1, <2>5, PostSucceedsStep
  <2>6. CASE \E j \in SavedIds, d \in Definitions : SavedElsewhere(j, d)
    BY <2>1, <2>6, SavedElsewhereStep
  <2>7. QED
    BY <2>3, <2>4, <2>5, <2>6
<1>4. QED
  BY <1>1, <1>2, <1>3, PTL DEF StudioSpec, SavesAreSeen

(***************************************************************************)
(* The workbench.  Until the user goes on while a file is under way, one   *)
(* file at a time goes through the page, and what its save answered is the *)
(* extension that was written for it.  Of the saves past the check and the *)
(* analyses counted, only the check adds to the sum.                       *)
(***************************************************************************)
Going(t) == tries[t].at \notin {"none", "over"}

TryStates    == {"none", "analysing", "posted", "checked", "answered", "over"}
LaunchStates == {"none", "sent", "owned", "refused", "queued", "over"}
TriesUpTo(n) == [at : TryStates, file : Files \union {Nothing}, saved : 0 .. n]
LaunchesUpTo(n) == [at : LaunchStates, file : Files \union {Nothing}, extension : 0 .. n]

WorkbenchTypes ==
    /\ bench \in [state : {"idle", "uploading", "done", "error", "left"},
                  file : Files \union {Nothing}, analysis : Files \union {Nothing},
                  saved : 0 .. Len(extensions), error : BOOLEAN, zone : BOOLEAN]
    /\ tries \in [Tries -> TriesUpTo(Len(extensions))]
    /\ extensions \in Seq(Files \union {Nothing, Deleted})
    /\ crossed \in BOOLEAN /\ together \in BOOLEAN /\ usage \in Nat
    /\ launch \in [Launches -> LaunchesUpTo(Len(extensions))]
    /\ runs \subseteq [launch : Launches, file : Files \union {Nothing}, extension : 0 .. Len(extensions)]

\* What a save answered is the extension it wrote.
SavesAreOfTheirFile ==
    \A t \in Tries : tries[t].saved # 0 => extensions[tries[t].saved] \in {tries[t].file, Deleted}

\* Until something crosses, one file at a time goes through the page.
OneFileAtATime ==
    ~ crossed /\ bench.state # "left" =>
        /\ \A t \in Tries : Going(t) =>
               /\ tries[t].file = bench.file
               /\ bench.state = IF tries[t].at = "analysing" THEN "uploading" ELSE "done"
               /\ \A u \in Tries : Going(u) => u = t
        /\ bench.state # "done" => bench.saved = 0

\* The saves that are past the check, and what they may still add.
SavesAreCounted ==
    /\ passed = {t \in Tries : tries[t].at = "checked"}
    /\ ~ together => \A t, u \in passed : t = u
    /\ ~ together => usage + Cardinality(passed) <= Limit
    /\ usage + Cardinality(passed) <= Limit + Cardinality(Tries) - 1

WorkbenchInv ==
    /\ WorkbenchTypes /\ SavesAreOfTheirFile /\ OneFileAtATime /\ BenchIsOfOneFile
    /\ RunsAreFiled /\ SavesAreCounted

LEMMA WorkbenchStart == WorkbenchInit => WorkbenchInv
<1> SUFFICES ASSUME WorkbenchInit PROVE WorkbenchInv
  OBVIOUS
<1> USE DEF WorkbenchInit, Fresh, NoTry, NoLaunch
<1>1. WorkbenchTypes
  <2>1. Len(extensions) = 0 /\ 0 \in 0 .. Len(extensions) /\ extensions \in Seq(Files \union {Nothing, Deleted})
    OBVIOUS
  <2>2. NoTry \in TriesUpTo(Len(extensions)) /\ NoLaunch \in LaunchesUpTo(Len(extensions))
    BY <2>1 DEF TriesUpTo, LaunchesUpTo, TryStates, LaunchStates
  <2>3. bench \in [state : {"idle", "uploading", "done", "error", "left"},
                   file : Files \union {Nothing}, analysis : Files \union {Nothing},
                   saved : 0 .. Len(extensions), error : BOOLEAN, zone : BOOLEAN]
    BY <2>1
  <2>4. QED
    BY <2>1, <2>2, <2>3 DEF WorkbenchTypes
<1>2. SavesAreCounted
  <2>1. passed = {} /\ usage = 0 /\ \A t \in Tries : tries[t].at = "none"
    OBVIOUS
  <2>2. Cardinality({}) = 0 /\ Cardinality(Tries) \in Nat /\ Cardinality(Tries) # 0
    BY FS_EmptySet, FS_CardinalityType, WorkbenchAssumption
  <2>3. QED
    BY <2>1, <2>2, WorkbenchAssumption DEF SavesAreCounted
<1>3. SavesAreOfTheirFile /\ OneFileAtATime /\ BenchIsOfOneFile /\ RunsAreFiled
  BY DEF SavesAreOfTheirFile, OneFileAtATime, BenchIsOfOneFile, RunsAreFiled, Going
<1>4. QED
  BY <1>1, <1>2, <1>3 DEF WorkbenchInv

\* The saves that are past the check change only by the two steps that say so.
LEMMA SavesCountedFrame ==
    ASSUME SavesAreCounted, UNCHANGED <<passed, usage, together>>,
           \A t \in Tries : tries'[t].at = "checked" <=> tries[t].at = "checked"
    PROVE  SavesAreCounted'
BY DEF SavesAreCounted

LEMMA TryMoves ==
    ASSUME WorkbenchTypes, NEW t \in Tries, NEW at \in TryStates, tries' = [tries EXCEPT ![t].at = at]
    PROVE  /\ tries' \in [Tries -> TriesUpTo(Len(extensions))]
           /\ tries'[t] = [at |-> at, file |-> tries[t].file, saved |-> tries[t].saved]
           /\ \A u \in Tries : u # t => tries'[u] = tries[u]
BY DEF WorkbenchTypes, TriesUpTo

LEMMA LaunchMoves ==
    ASSUME WorkbenchTypes, NEW l \in Launches, NEW at \in LaunchStates, launch' = [launch EXCEPT ![l].at = at]
    PROVE  launch' \in [Launches -> LaunchesUpTo(Len(extensions))]
BY DEF WorkbenchTypes, LaunchesUpTo

\* A try that only moves on keeps what is known of its save, and of the runs.
LEMMA SavesFrame ==
    ASSUME SavesAreOfTheirFile, RunsAreFiled, UNCHANGED <<extensions, runs>>,
           \A t \in Tries : tries'[t].file = tries[t].file /\ tries'[t].saved = tries[t].saved
    PROVE  SavesAreOfTheirFile' /\ RunsAreFiled'
BY DEF SavesAreOfTheirFile, RunsAreFiled

LEMMA WorkbenchStep == WorkbenchInv /\ [WorkbenchNext]_wbVars => WorkbenchInv'
<1> SUFFICES ASSUME WorkbenchInv, [WorkbenchNext]_wbVars
             PROVE  WorkbenchInv'
  OBVIOUS
<1> USE DEF WorkbenchInv, serverSide, Fresh, NoTry, NoLaunch, Shown
<1>1. CASE UNCHANGED wbVars
  BY <1>1 DEF wbVars, WorkbenchTypes, SavesAreOfTheirFile, OneFileAtATime, BenchIsOfOneFile, RunsAreFiled,
     SavesAreCounted, Going
<1>2. CASE zoneFades
  <2>1. WorkbenchTypes'
    BY <1>2 DEF zoneFades, WorkbenchTypes
  <2>2. SavesAreOfTheirFile'
    BY <1>2 DEF zoneFades, SavesAreOfTheirFile, WorkbenchTypes
  <2>3. OneFileAtATime'
    BY <1>2 DEF zoneFades, OneFileAtATime, WorkbenchTypes, Going, UnderWay
  <2>4. BenchIsOfOneFile'
    BY <1>2 DEF zoneFades, BenchIsOfOneFile, WorkbenchTypes, OneFileAtATime, SavesAreOfTheirFile, Going, UnderWay
  <2>5. RunsAreFiled'
    BY <1>2 DEF zoneFades, RunsAreFiled, WorkbenchTypes
  <2>6. SavesAreCounted'
    BY <1>2, SavesCountedFrame DEF zoneFades, WorkbenchTypes
  <2>7. QED
    BY <2>1, <2>2, <2>3, <2>4, <2>5, <2>6
<1>3. CASE reset
  <2>1. WorkbenchTypes'
    BY <1>3 DEF reset, WorkbenchTypes
  <2>2. SavesAreOfTheirFile'
    BY <1>3 DEF reset, SavesAreOfTheirFile, WorkbenchTypes
  <2>3. OneFileAtATime'
    BY <1>3 DEF reset, OneFileAtATime, WorkbenchTypes, Going, UnderWay
  <2>4. BenchIsOfOneFile'
    BY <1>3 DEF reset, BenchIsOfOneFile, WorkbenchTypes, OneFileAtATime, SavesAreOfTheirFile, Going, UnderWay
  <2>5. RunsAreFiled'
    BY <1>3 DEF reset, RunsAreFiled, WorkbenchTypes
  <2>6. SavesAreCounted'
    BY <1>3, SavesCountedFrame DEF reset, WorkbenchTypes
  <2>7. QED
    BY <2>1, <2>2, <2>3, <2>4, <2>5, <2>6
<1>4. ASSUME NEW t \in Tries, NEW f \in Files, handleFileSelect(t, f)
      PROVE  WorkbenchInv'
  <2> DEFINE start == [at |-> "analysing", file |-> f, saved |-> 0]
  <2>1. /\ bench.zone /\ tries[t] = NoTry
        /\ crossed' = (crossed \/ UnderWay \/ bench.state \notin {"idle", "error"})
        /\ UNCHANGED <<extensions, usage, passed, together, launch, runs>>
    BY <1>4 DEF handleFileSelect
  <2>2. start \in TriesUpTo(Len(extensions)) /\ Len(extensions) \in Nat
    BY DEF WorkbenchTypes, TriesUpTo, TryStates
  <2>3. CASE bench' = [bench EXCEPT !.state = "error"] /\ tries' = [tries EXCEPT ![t].at = "over"]
    <3>1. /\ tries' \in [Tries -> TriesUpTo(Len(extensions))]
          /\ tries'[t] = [at |-> "over", file |-> tries[t].file, saved |-> tries[t].saved]
          /\ \A u \in Tries : u # t => tries'[u] = tries[u]
      BY <2>3, TryMoves DEF TryStates
    <3>2. WorkbenchTypes'
      BY <2>1, <2>3, <3>1 DEF WorkbenchTypes
    <3>3. SavesAreOfTheirFile' /\ BenchIsOfOneFile' /\ RunsAreFiled'
      BY <2>1, <2>3, <3>1 DEF SavesAreOfTheirFile, BenchIsOfOneFile, RunsAreFiled, WorkbenchTypes
    <3>4. OneFileAtATime'
      BY <2>1, <2>3, <3>1 DEF OneFileAtATime, Going, UnderWay, WorkbenchTypes
    <3>5. SavesAreCounted'
      BY <2>1, <3>1, SavesCountedFrame
    <3>6. QED
      BY <3>2, <3>3, <3>4, <3>5
  <2>4. CASE bench' = [bench EXCEPT !.state = "uploading", !.file = f] /\ tries' = [tries EXCEPT ![t] = start]
    <3>1. /\ tries' \in [Tries -> TriesUpTo(Len(extensions))]
          /\ tries'[t] = start
          /\ \A u \in Tries : u # t => tries'[u] = tries[u]
      BY <2>2, <2>4 DEF WorkbenchTypes
    <3>2. WorkbenchTypes'
      BY <2>1, <2>4, <3>1 DEF WorkbenchTypes
    <3>3. SavesAreOfTheirFile' /\ BenchIsOfOneFile' /\ RunsAreFiled'
      BY <2>1, <2>4, <3>1 DEF SavesAreOfTheirFile, BenchIsOfOneFile, RunsAreFiled, WorkbenchTypes
    <3>4. OneFileAtATime'
      BY <2>1, <2>4, <3>1 DEF OneFileAtATime, Going, UnderWay, WorkbenchTypes
    <3>5. SavesAreCounted'
      BY <2>1, <3>1, SavesCountedFrame
    <3>6. QED
      BY <3>2, <3>3, <3>4, <3>5
  <2>5. QED
    BY <1>4, <2>3, <2>4 DEF handleFileSelect
<1>5. ASSUME NEW t \in Tries, analyzed(t)
      PROVE  WorkbenchInv'
  <2>1. tries[t].at = "analysing" /\ UNCHANGED <<crossed, extensions, usage, passed, together, launch, runs>>
    BY <1>5 DEF analyzed
  <2>2. tries[t].file \in Files \union {Nothing}
    BY DEF WorkbenchTypes, TriesUpTo
  <2>3. PICK at \in {"posted", "over"} :
            /\ tries' = [tries EXCEPT ![t].at = at]
            /\ bench' = IF bench.state = "left" THEN bench
                        ELSE IF at = "posted" THEN [bench EXCEPT !.state = "done", !.analysis = tries[t].file]
                             ELSE [bench EXCEPT !.state = "error", !.zone = TRUE]
    BY <1>5 DEF analyzed
  <2>4. /\ tries' \in [Tries -> TriesUpTo(Len(extensions))]
        /\ tries'[t] = [at |-> at, file |-> tries[t].file, saved |-> tries[t].saved]
        /\ \A u \in Tries : u # t => tries'[u] = tries[u]
    BY <2>3, TryMoves DEF TryStates
  <2>5. WorkbenchTypes'
    BY <2>1, <2>2, <2>3, <2>4 DEF WorkbenchTypes
  <2>6. SavesAreOfTheirFile' /\ RunsAreFiled'
    BY <2>1, <2>4, SavesFrame
  <2>7. OneFileAtATime' /\ BenchIsOfOneFile'
    <3>1. ~ crossed /\ bench.state # "left" =>
              /\ tries[t].file = bench.file /\ bench.state = "uploading" /\ bench.saved = 0
              /\ \A u \in Tries : Going(u) => u = t
      BY <2>1 DEF OneFileAtATime, Going
    <3>2. CASE bench.state = "left"
      BY <2>3, <3>2 DEF OneFileAtATime, BenchIsOfOneFile
    <3>3. CASE bench.state # "left" /\ at = "posted"
      <4>1. /\ bench'.state = "done" /\ bench'.analysis = tries[t].file
            /\ bench'.file = bench.file /\ bench'.saved = bench.saved
        BY <2>3, <3>3 DEF WorkbenchTypes
      <4>2. QED
        BY <2>1, <2>4, <3>1, <3>3, <4>1 DEF OneFileAtATime, BenchIsOfOneFile, Going
    <3>4. CASE bench.state # "left" /\ at = "over"
      <4>1. bench'.state = "error" /\ bench'.saved = bench.saved
        BY <2>3, <3>4 DEF WorkbenchTypes
      <4>2. QED
        BY <2>1, <2>4, <3>1, <3>4, <4>1 DEF OneFileAtATime, BenchIsOfOneFile, Going
    <3>5. QED
      BY <3>2, <3>3, <3>4
  <2>8. SavesAreCounted'
    BY <2>1, <2>3, <2>4, SavesCountedFrame
  <2>9. QED
    BY <2>5, <2>6, <2>7, <2>8
<1>6. ASSUME NEW t \in Tries, saveAnswered(t)
      PROVE  WorkbenchInv'
  <2>1. /\ tries[t].at = "answered" /\ tries' = [tries EXCEPT ![t].at = "over"]
        /\ UNCHANGED <<crossed, extensions, usage, passed, together, launch, runs>>
        /\ bench' = IF bench.state = "left" THEN bench
                    ELSE IF tries[t].saved = 0 THEN [bench EXCEPT !.error = TRUE]
                         ELSE [bench EXCEPT !.saved = tries[t].saved]
    BY <1>6 DEF saveAnswered
  <2>2. tries[t].saved \in 0 .. Len(extensions)
    BY DEF WorkbenchTypes, TriesUpTo
  <2>3. /\ tries' \in [Tries -> TriesUpTo(Len(extensions))]
        /\ tries'[t] = [at |-> "over", file |-> tries[t].file, saved |-> tries[t].saved]
        /\ \A u \in Tries : u # t => tries'[u] = tries[u]
    BY <2>1, TryMoves DEF TryStates
  <2>4. WorkbenchTypes'
    BY <2>1, <2>2, <2>3 DEF WorkbenchTypes
  <2>5. SavesAreOfTheirFile' /\ RunsAreFiled'
    BY <2>1, <2>3, SavesFrame
  <2>6. OneFileAtATime' /\ BenchIsOfOneFile'
    <3>1. ~ crossed /\ bench.state # "left" =>
              /\ tries[t].file = bench.file /\ bench.state = "done"
              /\ \A u \in Tries : Going(u) => u = t
      BY <2>1 DEF OneFileAtATime, Going
    <3>2. CASE bench.state = "left"
      BY <2>1, <3>2 DEF OneFileAtATime, BenchIsOfOneFile
    <3>3. CASE bench.state # "left"
      <4>1. /\ bench'.state = bench.state /\ bench'.file = bench.file /\ bench'.analysis = bench.analysis
            /\ bench'.saved = IF tries[t].saved = 0 THEN bench.saved ELSE tries[t].saved
        BY <2>1, <3>3 DEF WorkbenchTypes
      <4>2. OneFileAtATime'
        BY <2>1, <2>3, <3>1, <4>1 DEF OneFileAtATime, Going
      <4>3. BenchIsOfOneFile'
        BY <2>1, <2>3, <3>1, <4>1 DEF BenchIsOfOneFile, SavesAreOfTheirFile
      <4>4. QED
        BY <4>2, <4>3
    <3>4. QED
      BY <3>2, <3>3
  <2>7. SavesAreCounted'
    BY <2>1, <2>3, SavesCountedFrame
  <2>8. QED
    BY <2>4, <2>5, <2>6, <2>7
<1>7. ASSUME NEW t \in Tries, checkSave(t)
      PROVE  WorkbenchInv'
  <2> DEFINE at == IF canAnalyze THEN "checked" ELSE "answered"
  <2>1. /\ tries[t].at = "posted" /\ tries' = [tries EXCEPT ![t].at = at]
        /\ UNCHANGED <<bench, crossed, extensions, usage, launch, runs>>
    BY <1>7 DEF checkSave
  <2>2. at \in TryStates /\ at \in {"checked", "answered"}
    BY DEF TryStates
  <2>3. /\ tries' \in [Tries -> TriesUpTo(Len(extensions))]
        /\ tries'[t] = [at |-> at, file |-> tries[t].file, saved |-> tries[t].saved]
        /\ \A u \in Tries : u # t => tries'[u] = tries[u]
    BY <2>1, <2>2, TryMoves
  <2>4. WorkbenchTypes'
    BY <1>7, <2>1, <2>3 DEF WorkbenchTypes, checkSave
  <2> HIDE DEF at
  <2>5. SavesAreOfTheirFile' /\ RunsAreFiled'
    BY <2>1, <2>3, SavesFrame
  <2>6. OneFileAtATime' /\ BenchIsOfOneFile'
    <3>1. /\ \A u \in Tries : (Going(u))' <=> Going(u)
          /\ \A u \in Tries : tries'[u].file = tries[u].file
          /\ \A u \in Tries : Going(u) => (tries'[u].at = "analysing" <=> tries[u].at = "analysing")
      BY <2>1, <2>2, <2>3 DEF Going
    <3>2. QED
      BY <2>1, <3>1 DEF OneFileAtATime, BenchIsOfOneFile
  <2>7. SavesAreCounted'
    <3>1. CASE ~ canAnalyze
      <4>1. at = "answered" /\ UNCHANGED <<passed, together, usage>>
        BY <1>7, <2>1, <3>1 DEF checkSave, at
      <4>2. \A u \in Tries : tries'[u].at = "checked" <=> tries[u].at = "checked"
        BY <2>1, <2>3, <4>1, ZenonT(40)
      <4>3. QED
        BY <4>1, <4>2, SavesCountedFrame
    <3>2. CASE canAnalyze
      <4>1. passed' = passed \union {t} /\ together' = (together \/ passed # {}) /\ usage < Limit
        BY <1>7, <3>2 DEF checkSave, canAnalyze
      <4>2. /\ passed \subseteq Tries /\ t \notin passed /\ IsFiniteSet(passed)
            /\ passed' \subseteq Tries
        BY <2>1, <4>1, FS_Subset, WorkbenchAssumption DEF SavesAreCounted
      <4>3. passed' = {u \in Tries : tries'[u].at = "checked"}
        BY <2>3, <3>2, <4>1 DEF SavesAreCounted, at
      <4>4. /\ Cardinality(passed') = Cardinality(passed) + 1 /\ Cardinality(passed) \in Nat
            /\ Cardinality(passed') \in Nat /\ Cardinality(passed') <= Cardinality(Tries)
            /\ Cardinality(Tries) \in Nat
        BY <4>1, <4>2, FS_AddElement, FS_Subset, FS_CardinalityType, WorkbenchAssumption
      <4>5. ~ together' => passed = {} /\ Cardinality(passed) = 0
        BY <4>1, FS_EmptySet
      <4>6. ~ together' => \A u, v \in passed' : u = v
        BY <4>1, <4>5
      <4>7. usage \in Nat /\ Limit \in Nat /\ usage' = usage
        BY <2>1, WorkbenchAssumption DEF WorkbenchTypes
      <4>8. ~ together' => usage' + Cardinality(passed') <= Limit
        BY <4>1, <4>4, <4>5, <4>7
      <4>9. usage' + Cardinality(passed') <= Limit + Cardinality(Tries) - 1
        BY <4>1, <4>4, <4>7
      <4>10. QED
        BY <4>3, <4>6, <4>8, <4>9 DEF SavesAreCounted
    <3>3. QED
      BY <3>1, <3>2
  <2>8. QED
    BY <2>4, <2>5, <2>6, <2>7
<1>8. ASSUME NEW t \in Tries, createExtension(t)
      PROVE  WorkbenchInv'
  <2> DEFINE n == Len(extensions)
  <2>1. /\ tries[t].at = "checked" /\ passed' = passed \ {t}
        /\ UNCHANGED <<bench, crossed, together, launch, runs>>
    BY <1>8 DEF createExtension
  <2>2. /\ n \in Nat /\ extensions \in Seq(Files \union {Nothing, Deleted})
        /\ tries[t] \in TriesUpTo(n) /\ tries[t].file \in Files \union {Nothing}
    BY DEF WorkbenchTypes, TriesUpTo
  <2>3. PICK id \in {0, tries[t].saved, n + 1} :
            /\ \/ extensions' = Append(extensions, tries[t].file) /\ usage' = usage + 1 /\ id \in {0, n + 1}
               \/ UNCHANGED <<extensions, usage>> /\ id = tries[t].saved
            /\ tries' = [tries EXCEPT ![t] = [at |-> "answered", file |-> tries[t].file, saved |-> id]]
    BY <1>8, <2>2 DEF createExtension, WorkbenchTypes, TriesUpTo
  <2>4. /\ Len(extensions') \in {n, n + 1} /\ id \in 0 .. Len(extensions') /\ 0 .. n \subseteq 0 .. Len(extensions')
        /\ extensions' \in Seq(Files \union {Nothing, Deleted})
        /\ \A i \in 1 .. n : extensions'[i] = extensions[i]
        /\ id = n + 1 => extensions'[id] = tries[t].file
    <3>1. tries[t].saved \in 0 .. n
      BY <2>2 DEF TriesUpTo
    <3>2. CASE UNCHANGED extensions /\ id = tries[t].saved
      BY <2>2, <3>1, <3>2
    <3>3. CASE extensions' = Append(extensions, tries[t].file) /\ id \in {0, n + 1}
      <4>1. /\ Len(extensions') = n + 1 /\ extensions' \in Seq(Files \union {Nothing, Deleted})
            /\ \A i \in 1 .. n : extensions'[i] = extensions[i]
            /\ extensions'[n + 1] = tries[t].file
        BY <2>2, <3>3
      <4>2. QED
        BY <2>2, <3>3, <4>1
    <3>4. QED
      BY <2>3, <3>2, <3>3
  <2>5. /\ tries' \in [Tries -> TriesUpTo(Len(extensions'))]
        /\ tries'[t] = [at |-> "answered", file |-> tries[t].file, saved |-> id]
        /\ \A u \in Tries : u # t => tries'[u] = tries[u]
    BY <2>2, <2>3, <2>4 DEF WorkbenchTypes, TriesUpTo, TryStates
  <2>6. WorkbenchTypes'
    <3>1. bench' \in [state : {"idle", "uploading", "done", "error", "left"},
                      file : Files \union {Nothing}, analysis : Files \union {Nothing},
                      saved : 0 .. Len(extensions'), error : BOOLEAN, zone : BOOLEAN]
      BY <2>1, <2>4 DEF WorkbenchTypes
    <3>2. launch' \in [Launches -> LaunchesUpTo(Len(extensions'))]
      BY <2>1, <2>4 DEF WorkbenchTypes, LaunchesUpTo
    <3>3. runs' \subseteq [launch : Launches, file : Files \union {Nothing}, extension : 0 .. Len(extensions')]
      BY <2>1, <2>4 DEF WorkbenchTypes
    <3>4. crossed' \in BOOLEAN /\ together' \in BOOLEAN /\ usage' \in Nat
      BY <2>1, <2>3 DEF WorkbenchTypes
    <3>5. QED
      BY <2>4, <2>5, <3>1, <3>2, <3>3, <3>4 DEF WorkbenchTypes
  <2>7. SavesAreOfTheirFile'
    <3>1. \A u \in Tries : tries[u].saved \in 0 .. n
      BY DEF WorkbenchTypes, TriesUpTo
    <3>2. \A u \in Tries : tries[u].saved # 0 => extensions'[tries[u].saved] \in {tries[u].file, Deleted}
      BY <2>4, <3>1 DEF SavesAreOfTheirFile
    <3>3. id # 0 => extensions'[id] \in {tries[t].file, Deleted}
      BY <2>3, <2>4, <3>2
    <3>4. QED
      BY <2>5, <3>2, <3>3 DEF SavesAreOfTheirFile
  <2>8. OneFileAtATime'
    BY <2>1, <2>5 DEF OneFileAtATime, Going
  <2>9. BenchIsOfOneFile'
    <3>1. bench.saved \in 0 .. n
      BY DEF WorkbenchTypes
    <3>2. QED
      BY <2>1, <2>2, <2>4, <3>1 DEF BenchIsOfOneFile
  <2>10. RunsAreFiled'
    <3>1. \A r \in runs : r.extension \in 0 .. n
      BY DEF WorkbenchTypes
    <3>2. QED
      BY <2>1, <2>2, <2>4, <3>1 DEF RunsAreFiled
  <2>11. SavesAreCounted'
    <3>1. /\ passed \subseteq Tries /\ t \in passed /\ IsFiniteSet(passed)
      BY <2>1, FS_Subset, WorkbenchAssumption DEF SavesAreCounted
    <3>2. passed' = {u \in Tries : tries'[u].at = "checked"}
      BY <2>1, <2>5 DEF SavesAreCounted
    <3>3. /\ Cardinality(passed') = Cardinality(passed) - 1 /\ Cardinality(passed) \in Nat
          /\ Cardinality(Tries) \in Nat
      BY <2>1, <3>1, FS_RemoveElement, FS_CardinalityType, WorkbenchAssumption
    <3>4. usage \in Nat /\ Limit \in Nat /\ usage' \in {usage, usage + 1}
      BY <2>3, WorkbenchAssumption DEF WorkbenchTypes
    <3>5. /\ ~ together' => usage' + Cardinality(passed') <= Limit
          /\ usage' + Cardinality(passed') <= Limit + Cardinality(Tries) - 1
      BY <2>1, <3>3, <3>4 DEF SavesAreCounted
    <3>6. ~ together' => \A u, v \in passed' : u = v
      BY <2>1 DEF SavesAreCounted
    <3>7. QED
      BY <3>2, <3>5, <3>6 DEF SavesAreCounted
  <2>12. QED
    BY <2>6, <2>7, <2>8, <2>9, <2>10, <2>11
<1>9. ASSUME NEW id \in DOMAIN extensions, deleteExtension(id)
      PROVE  WorkbenchInv'
  <2>1. /\ extensions' = [extensions EXCEPT ![id] = Deleted]
        /\ runs' = {[r EXCEPT !.extension = IF r.extension = id THEN 0 ELSE r.extension] : r \in runs}
        /\ UNCHANGED <<bench, tries, crossed, usage, passed, together, launch>>
    BY <1>9 DEF deleteExtension
  <2>2. /\ Len(extensions') = Len(extensions) /\ extensions' \in Seq(Files \union {Nothing, Deleted})
        /\ extensions'[id] = Deleted /\ Len(extensions) \in Nat
        /\ \A i \in 1 .. Len(extensions) : i # id => extensions'[i] = extensions[i]
        /\ \A i \in 1 .. Len(extensions) : extensions'[i] \in {extensions[i], Deleted}
    BY <2>1 DEF WorkbenchTypes
  <2>3. runs' \subseteq [launch : Launches, file : Files \union {Nothing}, extension : 0 .. Len(extensions)]
    BY <2>1, <2>2, SMTT(30) DEF WorkbenchTypes
  <2>4. WorkbenchTypes'
    BY <2>1, <2>2, <2>3 DEF WorkbenchTypes
  <2>5. SavesAreOfTheirFile'
    <3>1. \A u \in Tries : tries[u].saved \in 0 .. Len(extensions)
      BY DEF WorkbenchTypes, TriesUpTo
    <3>2. QED
      BY <2>1, <2>2, <3>1 DEF SavesAreOfTheirFile
  <2>6. OneFileAtATime'
    BY <2>1 DEF OneFileAtATime, Going
  <2>7. BenchIsOfOneFile'
    <3>1. bench.saved \in 0 .. Len(extensions)
      BY DEF WorkbenchTypes
    <3>2. QED
      BY <2>1, <2>2, <3>1 DEF BenchIsOfOneFile
  <2>8. RunsAreFiled'
    <3>1. \A r \in runs' : r.extension # id
      BY <2>1, <2>2 DEF WorkbenchTypes
    <3>2. \A r \in runs' : r.extension # 0 => \E q \in runs : q.extension = r.extension
      BY <2>1, <2>2 DEF WorkbenchTypes
    <3>3. \A r \in runs' : r.extension # 0 => extensions'[r.extension] # Deleted
      BY <2>2, <2>3, <3>1, <3>2 DEF RunsAreFiled
    <3>4. QED
      BY <3>3 DEF RunsAreFiled
  <2>9. SavesAreCounted'
    BY <2>1, SavesCountedFrame
  <2>10. QED
    BY <2>4, <2>5, <2>6, <2>7, <2>8, <2>9
<1>10. ASSUME NEW l \in Launches, launchTests(l)
      PROVE  WorkbenchInv'
  <2>1. WorkbenchTypes'
    <3> DEFINE sent == [at |-> "sent", file |-> bench.file, extension |-> bench.saved]
    <3>1. sent \in LaunchesUpTo(Len(extensions))
      BY DEF WorkbenchTypes, LaunchesUpTo, LaunchStates
    <3>2. launch' = [launch EXCEPT ![l] = sent]
      BY <1>10 DEF launchTests
    <3> HIDE DEF sent
    <3>3. launch' \in [Launches -> LaunchesUpTo(Len(extensions))]
      BY <3>1, <3>2 DEF WorkbenchTypes
    <3>4. QED
      BY <1>10, <3>3 DEF launchTests, WorkbenchTypes
  <2>2. SavesAreOfTheirFile'
    BY <1>10 DEF launchTests, SavesAreOfTheirFile, WorkbenchTypes
  <2>3. OneFileAtATime'
    BY <1>10 DEF launchTests, OneFileAtATime, WorkbenchTypes, Going, UnderWay
  <2>4. BenchIsOfOneFile'
    BY <1>10 DEF launchTests, BenchIsOfOneFile, WorkbenchTypes, OneFileAtATime, SavesAreOfTheirFile, Going, UnderWay
  <2>5. RunsAreFiled'
    BY <1>10 DEF launchTests, RunsAreFiled, WorkbenchTypes
  <2>6. SavesAreCounted'
    BY <1>10, SavesCountedFrame DEF launchTests, WorkbenchTypes
  <2>7. QED
    BY <2>1, <2>2, <2>3, <2>4, <2>5, <2>6
<1>11. ASSUME NEW l \in Launches, ownExtension(l)
      PROVE  WorkbenchInv'
  <2>1. WorkbenchTypes'
    <3>1. \E at \in {"owned", "refused"} : launch' = [launch EXCEPT ![l].at = at]
      BY <1>11 DEF ownExtension
    <3>2. launch' \in [Launches -> LaunchesUpTo(Len(extensions))]
      BY <3>1, LaunchMoves DEF LaunchStates
    <3>3. QED
      BY <1>11, <3>2 DEF ownExtension, WorkbenchTypes
  <2>2. SavesAreOfTheirFile'
    BY <1>11 DEF ownExtension, SavesAreOfTheirFile, WorkbenchTypes
  <2>3. OneFileAtATime'
    BY <1>11 DEF ownExtension, OneFileAtATime, WorkbenchTypes, Going, UnderWay
  <2>4. BenchIsOfOneFile'
    BY <1>11 DEF ownExtension, BenchIsOfOneFile, WorkbenchTypes, OneFileAtATime, SavesAreOfTheirFile, Going, UnderWay
  <2>5. RunsAreFiled'
    BY <1>11 DEF ownExtension, RunsAreFiled, WorkbenchTypes
  <2>6. SavesAreCounted'
    BY <1>11, SavesCountedFrame DEF ownExtension, WorkbenchTypes
  <2>7. QED
    BY <2>1, <2>2, <2>3, <2>4, <2>5, <2>6
<1>12. ASSUME NEW l \in Launches, queueRun(l)
      PROVE  WorkbenchInv'
  <2>1. WorkbenchTypes'
    <3> DEFINE r == [launch |-> l, file |-> launch[l].file, extension |-> launch[l].extension]
    <3>1. \E at \in {"queued", "refused"} : launch' = [launch EXCEPT ![l].at = at]
      BY <1>12 DEF queueRun
    <3>2. launch' \in [Launches -> LaunchesUpTo(Len(extensions))]
      BY <3>1, LaunchMoves DEF LaunchStates
    <3>3. r \in [launch : Launches, file : Files \union {Nothing}, extension : 0 .. Len(extensions)]
      BY DEF WorkbenchTypes, LaunchesUpTo
    <3>4. runs' = runs \/ runs' = runs \union {r}
      BY <1>12 DEF queueRun
    <3> HIDE DEF r
    <3>5. QED
      BY <1>12, <3>2, <3>3, <3>4 DEF queueRun, WorkbenchTypes
  <2>2. SavesAreOfTheirFile'
    BY <1>12 DEF queueRun, SavesAreOfTheirFile, WorkbenchTypes
  <2>3. OneFileAtATime'
    BY <1>12 DEF queueRun, OneFileAtATime, WorkbenchTypes, Going, UnderWay
  <2>4. BenchIsOfOneFile'
    BY <1>12 DEF queueRun, BenchIsOfOneFile, WorkbenchTypes, OneFileAtATime, SavesAreOfTheirFile, Going, UnderWay
  <2>5. RunsAreFiled'
    BY <1>12 DEF queueRun, RunsAreFiled, WorkbenchTypes
  <2>6. SavesAreCounted'
    BY <1>12, SavesCountedFrame DEF queueRun, WorkbenchTypes
  <2>7. QED
    BY <2>1, <2>2, <2>3, <2>4, <2>5, <2>6
<1>13. ASSUME NEW l \in Launches, pushRun(l)
      PROVE  WorkbenchInv'
  <2>1. WorkbenchTypes'
    <3>1. launch' \in [Launches -> LaunchesUpTo(Len(extensions))]
      BY <1>13, LaunchMoves DEF pushRun, LaunchStates
    <3>2. bench' \in [state : {"idle", "uploading", "done", "error", "left"},
                      file : Files \union {Nothing}, analysis : Files \union {Nothing},
                      saved : 0 .. Len(extensions), error : BOOLEAN, zone : BOOLEAN]
      <4>1. 0 \in 0 .. Len(extensions)
        BY DEF WorkbenchTypes
      <4>2. bench' = [state |-> "left", file |-> Nothing, analysis |-> Nothing, saved |-> 0,
                      error |-> FALSE, zone |-> FALSE]
        BY <1>13 DEF pushRun
      <4>3. QED
        BY <4>1, <4>2
    <3>3. QED
      BY <1>13, <3>1, <3>2 DEF pushRun, WorkbenchTypes
  <2>2. SavesAreOfTheirFile'
    BY <1>13 DEF pushRun, SavesAreOfTheirFile, WorkbenchTypes
  <2>3. OneFileAtATime'
    BY <1>13 DEF pushRun, OneFileAtATime, WorkbenchTypes, Going, UnderWay
  <2>4. BenchIsOfOneFile'
    BY <1>13 DEF pushRun, BenchIsOfOneFile, WorkbenchTypes, OneFileAtATime, SavesAreOfTheirFile, Going, UnderWay
  <2>5. RunsAreFiled'
    BY <1>13 DEF pushRun, RunsAreFiled, WorkbenchTypes
  <2>6. SavesAreCounted'
    BY <1>13, SavesCountedFrame DEF pushRun, WorkbenchTypes
  <2>7. QED
    BY <2>1, <2>2, <2>3, <2>4, <2>5, <2>6
<1>14. QED
  BY <1>1, <1>2, <1>3, <1>4, <1>5, <1>6, <1>7, <1>8, <1>9, <1>10, <1>11, <1>12, <1>13 DEF WorkbenchNext

LEMMA WorkbenchFollows == WorkbenchInv => WorkbenchHolds
<1> SUFFICES ASSUME WorkbenchInv PROVE WorkbenchHolds
  OBVIOUS
<1>1. IsFiniteSet(passed) /\ Cardinality(passed) \in Nat
  <2>1. passed \subseteq Tries
    BY DEF WorkbenchInv, SavesAreCounted
  <2>2. QED
    BY <2>1, FS_Subset, FS_CardinalityType, WorkbenchAssumption
<1>2. usage \in Nat /\ Cardinality(Tries) \in Nat
  BY FS_CardinalityType, WorkbenchAssumption DEF WorkbenchInv, WorkbenchTypes
<1>3. AnalysesAreBounded
  BY <1>1, <1>2, WorkbenchAssumption DEF WorkbenchInv, SavesAreCounted, AnalysesAreBounded
<1>4. QED
  BY <1>3 DEF WorkbenchInv, WorkbenchHolds

\* The page, the package and its extension are of one file unless the user went
\* on meanwhile, no run is filed under an extension that is gone, and the
\* analyses pass the limit by two saves at once only, for any number of
\* files, selections and launches and any limit (api/extensions/route.ts).
THEOREM WorkbenchIsSound == WorkbenchSpec => []WorkbenchHolds
BY WorkbenchFollows, WorkbenchStart, WorkbenchStep, PTL DEF WorkbenchSpec

(***************************************************************************)
(* The interpretations.  What a request costs follows from where it is, so *)
(* what is charged or held is one set, which only an admitted request      *)
(* enters.  A paid answer is kept or was lost: a request that finds none   *)
(* kept either follows a lost one or meets another at the provider.        *)
(***************************************************************************)
CallStates  == {"none", "posted", "asking"} \union Answers \union Failures
PanelStates == {"idle", "loading", "success", "paywall", "error", "unavailable"}

AITypes ==
    /\ settings \in Settings
    /\ call \in [Calls -> [at : CallStates, page : Pages, about : Questions,
                           paid : {"none", "open", "consumed", "released"}]]
    /\ panel \in [Pages -> [status : PanelStates, call : Calls \union {0}]]
    /\ perUserInFlight \in [Askers -> Nat] /\ globalInFlight \in Nat

\* What a request costs follows from where it is.
PaidFollows ==
    \A c \in Calls :
        /\ call[c].at \in {"fresh", "unkept"} <=> call[c].paid = "consumed"
        /\ call[c].at = "asking" => call[c].paid = "open"
        /\ call[c].paid = "open" => call[c].at \in {"asking", "dead"}

Spent(u)    == {c \in Calls : call[c].paid \in {"open", "consumed"} /\ UserOf(c) = u}
AskingOf(u) == {c \in Asking : UserOf(c) = u}

AllowanceHolds == \A u \in Askers : Cardinality(Spent(u)) <= Allowance

\* A paid answer is kept unless it was lost, and two requests for one question
\* met at the provider, or one of them found no answer kept.
AnswersAreKept ==
    keeps => \A c \in Calls : call[c].paid = "consumed" => KeyOf(c) \in kept \union lapsed

Bought(c) == call[c].paid = "consumed" \/ call[c].at = "asking"
PairsAreKnown ==
    keeps => \A c, d \in Calls :
        c # d /\ Bought(c) /\ Bought(d) /\ KeyOf(c) = KeyOf(d) => KeyOf(c) \in lapsed \union beside

PanelsFollow ==
    \A p \in Pages :
        panel[p].status = "success" =>
            panel[p].call \in Calls /\ call[panel[p].call].at \in Answers /\ call[panel[p].call].page = p

AIInv ==
    /\ AITypes /\ PaidFollows /\ AllowanceHolds /\ SlotsAreReturned
    /\ AnswersAreKept /\ PairsAreKnown /\ PanelsFollow

LEMMA PlanTypes ==
    ASSUME settings \in Settings
    PROVE  keeps \in BOOLEAN /\ Allowance \in Nat /\ PerUser \in Nat /\ Global \in Nat
BY AIAssumption DEF keeps, Allowance, PerUser, Global

\* The sets that are counted are finite; what is spent is charged or held.
LEMMA Counts ==
    ASSUME NEW u
    PROVE  /\ IsFiniteSet(Calls)
           /\ IsFiniteSet(Spent(u)) /\ Cardinality(Spent(u)) \in Nat
           /\ Cardinality(Spent(u)) = Cardinality(PaidBy(u)) + Cardinality(HeldBy(u))
           /\ IsFiniteSet(Asking) /\ Cardinality(Asking) \in Nat
           /\ IsFiniteSet(AskingOf(u)) /\ Cardinality(AskingOf(u)) \in Nat
<1>1. IsFiniteSet(Calls)
  BY AIAssumption
<1>2. Spent(u) \subseteq Calls /\ PaidBy(u) \subseteq Calls /\ HeldBy(u) \subseteq Calls
  BY DEF Spent, PaidBy, HeldBy
<1>3. Asking \subseteq Calls /\ AskingOf(u) \subseteq Calls
  BY DEF Asking, AskingOf
<1>4. /\ IsFiniteSet(Spent(u)) /\ IsFiniteSet(PaidBy(u)) /\ IsFiniteSet(HeldBy(u))
      /\ IsFiniteSet(Asking) /\ IsFiniteSet(AskingOf(u))
  BY <1>1, <1>2, <1>3, FS_Subset
<1>5. Spent(u) = PaidBy(u) \union HeldBy(u) /\ PaidBy(u) \intersect HeldBy(u) = {}
  BY DEF Spent, PaidBy, HeldBy
<1>6. Cardinality(Spent(u)) = Cardinality(PaidBy(u)) + Cardinality(HeldBy(u)) - Cardinality({})
  BY <1>4, <1>5, FS_Union
<1>7. /\ Cardinality(PaidBy(u)) \in Nat /\ Cardinality(HeldBy(u)) \in Nat /\ Cardinality({}) = 0
      /\ Cardinality(Spent(u)) \in Nat /\ Cardinality(Asking) \in Nat /\ Cardinality(AskingOf(u)) \in Nat
  BY <1>4, FS_CardinalityType, FS_EmptySet
<1>8. QED
  BY <1>1, <1>4, <1>6, <1>7

LEMMA AIStart == AIInit => AIInv
<1> SUFFICES ASSUME AIInit PROVE AIInv
  OBVIOUS
<1> USE DEF AIInit
<1>1. NoCall \in [at : {"none"}, page : Pages, about : Questions, paid : {"none"}]
  BY AIAssumption DEF NoCall
<1>2. \A c \in Calls : call[c].at = "none" /\ call[c].paid = "none"
  BY <1>1
<1>3. AITypes
  BY <1>1 DEF AITypes, CallStates, PanelStates
<1>4. PaidFollows /\ AnswersAreKept /\ PairsAreKnown /\ PanelsFollow
  BY <1>2 DEF PaidFollows, AnswersAreKept, PairsAreKnown, PanelsFollow, Bought
<1>5. Asking = {} /\ \A u : Spent(u) = {} /\ AskingOf(u) = {}
  BY <1>2 DEF Asking, Spent, AskingOf
<1>6. AllowanceHolds
  BY <1>5, PlanTypes, FS_EmptySet DEF AllowanceHolds
<1>7. SlotsAreReturned
  <2>1. \A u : {c \in Asking : UserOf(c) = u} = {}
    BY <1>5
  <2>2. QED
    BY <1>5, <2>1, PlanTypes, FS_EmptySet DEF SlotsAreReturned
<1>8. QED
  BY <1>3, <1>4, <1>6, <1>7 DEF AIInv

-----------------------------------------------------------------------------
\* What the end of a request, or its way to the provider, does to its row and
\* to the panels.
LEMMA CallMoves ==
    ASSUME AITypes, NEW c \in Calls, NEW at \in CallStates, NEW paid \in {"none", "open", "consumed", "released"},
           call' = [call EXCEPT ![c].at = at, ![c].paid = paid]
    PROVE  /\ call' \in [Calls -> [at : CallStates, page : Pages, about : Questions,
                                   paid : {"none", "open", "consumed", "released"}]]
           /\ call'[c].at = at /\ call'[c].paid = paid
           /\ \A d \in Calls : d # c => call'[d] = call[d]
           /\ \A d \in Calls : call'[d].page = call[d].page /\ call'[d].about = call[d].about
BY DEF AITypes

LEMMA AllowanceFrame ==
    ASSUME AITypes, AllowanceHolds, UNCHANGED settings,
           \A d \in Calls : call'[d].paid \in {"open", "consumed"} =>
               call[d].paid \in {"open", "consumed"} /\ call'[d].page = call[d].page
    PROVE  AllowanceHolds'
<1>1. Allowance' = Allowance /\ Allowance \in Nat
  BY PlanTypes DEF Allowance, AITypes
<1>2. ASSUME NEW u \in Askers
      PROVE  Cardinality(Spent(u)') <= Allowance
  <2>1. Spent(u)' \subseteq Spent(u)
    BY DEF Spent, UserOf
  <2>2. Cardinality(Spent(u)') <= Cardinality(Spent(u)) /\ Cardinality(Spent(u)') \in Nat
    BY <2>1, Counts, FS_Subset, FS_CardinalityType
  <2>3. Cardinality(Spent(u)) <= Allowance /\ Cardinality(Spent(u)) \in Nat
    BY Counts DEF AllowanceHolds
  <2>4. QED
    BY <1>1, <2>2, <2>3
<1>3. QED
  BY <1>1, <1>2 DEF AllowanceHolds

LEMMA SlotsFrame ==
    ASSUME SlotsAreReturned, UNCHANGED <<settings, slots>>,
           \A d \in Calls : /\ call'[d].at = "asking" <=> call[d].at = "asking"
                            /\ call[d].at = "asking" => call'[d].page = call[d].page
    PROVE  SlotsAreReturned'
<1>1. Asking' = Asking
  BY DEF Asking
<1>2. \A u : AskingOf(u)' = AskingOf(u)
  BY <1>1 DEF AskingOf, Asking, UserOf
<1>3. UNCHANGED <<Global, PerUser, globalInFlight, perUserInFlight>>
  BY DEF Global, PerUser, slots
<1>4. QED
  BY <1>1, <1>2, <1>3 DEF SlotsAreReturned, AskingOf

LEMMA SlotsBack ==
    ASSUME AITypes, SlotsAreReturned, UNCHANGED settings, NEW c \in Calls, releaseSlot(c),
           call[c].at = "asking", call'[c].at # "asking",
           \A d \in Calls : d # c => call'[d] = call[d]
    PROVE  SlotsAreReturned' /\ perUserInFlight' \in [Askers -> Nat] /\ globalInFlight' \in Nat
<1>1. /\ Global' = Global /\ PerUser' = PerUser /\ Global \in Nat /\ PerUser \in Nat
  BY PlanTypes DEF Global, PerUser, AITypes
<1>2. PICK u \in Askers : u = UserOf(c)
  BY DEF AITypes, UserOf, Askers
<1>3. Asking' = Asking \ {c} /\ c \in Asking
  BY DEF Asking
<1>4. \A v : AskingOf(v)' = IF v = u THEN AskingOf(v) \ {c} ELSE AskingOf(v)
  BY <1>2, <1>3 DEF AskingOf, Asking, UserOf
<1>5. c \in AskingOf(u)
  BY <1>2, <1>3 DEF AskingOf
<1>6. /\ Cardinality(Asking') = Cardinality(Asking) - 1 /\ Cardinality(Asking) \in Nat
      /\ Cardinality(Asking') \in Nat
  BY <1>3, Counts, FS_RemoveElement, FS_CardinalityType
<1>7. /\ Cardinality(AskingOf(u)') = Cardinality(AskingOf(u)) - 1 /\ Cardinality(AskingOf(u)) \in Nat
      /\ Cardinality(AskingOf(u)') \in Nat
  BY <1>4, <1>5, Counts, FS_RemoveElement, FS_CardinalityType
<1>8. /\ globalInFlight = Cardinality(Asking) /\ globalInFlight <= Global
      /\ \A v \in Askers : perUserInFlight[v] = Cardinality(AskingOf(v)) /\ perUserInFlight[v] <= PerUser
  BY DEF SlotsAreReturned, AskingOf
<1>9. globalInFlight' = Cardinality(Asking') /\ globalInFlight' <= Global'
  BY <1>1, <1>6, <1>8 DEF releaseSlot
<1>10. perUserInFlight' = [perUserInFlight EXCEPT ![u] = IF perUserInFlight[u] <= 1 THEN 0 ELSE perUserInFlight[u] - 1]
  BY <1>2 DEF releaseSlot
<1>11. perUserInFlight'[u] = Cardinality(AskingOf(u)') /\ perUserInFlight'[u] <= PerUser'
  BY <1>1, <1>2, <1>7, <1>8, <1>10 DEF AITypes
<1>12. \A v \in Askers : v # u => perUserInFlight'[v] = Cardinality(AskingOf(v)') /\ perUserInFlight'[v] <= PerUser'
  BY <1>1, <1>4, <1>8, <1>10 DEF AITypes
<1>13. perUserInFlight' \in [Askers -> Nat] /\ globalInFlight' \in Nat
  BY <1>2, <1>6, <1>7, <1>9, <1>10, <1>11 DEF AITypes
<1>14. \A v \in Askers : perUserInFlight'[v] = Cardinality(AskingOf(v)') /\ perUserInFlight'[v] <= PerUser'
  BY <1>11, <1>12
<1>15. QED
  BY <1>9, <1>13, <1>14 DEF SlotsAreReturned, AskingOf

LEMMA PairsFrame ==
    ASSUME PairsAreKnown, UNCHANGED settings, lapsed \subseteq lapsed', beside \subseteq beside',
           \A d \in Calls : Bought(d)' => Bought(d) /\ KeyOf(d)' = KeyOf(d)
    PROVE  PairsAreKnown'
BY DEF PairsAreKnown, keeps

LEMMA KeptFrame ==
    ASSUME AnswersAreKept, UNCHANGED settings, kept \union lapsed \subseteq kept' \union lapsed',
           \A d \in Calls : call'[d].paid = "consumed" => call[d].paid = "consumed" /\ KeyOf(d)' = KeyOf(d)
    PROVE  AnswersAreKept'
BY DEF AnswersAreKept, keeps

LEMMA PanelMoves ==
    ASSUME AITypes, PanelsFollow, NEW c \in Calls, NEW how \in CallStates, respond(c, how),
           call[c].at \notin Answers, call'[c].at = how,
           \A d \in Calls : d # c => call'[d] = call[d],
           \A d \in Calls : call'[d].page = call[d].page
    PROVE  PanelsFollow' /\ panel' \in [Pages -> [status : PanelStates, call : Calls \union {0}]]
<1> DEFINE p == call[c].page
<1>1. p \in Pages
  BY DEF AITypes
<1>2. Classified(how) \in PanelStates /\ (Classified(how) = "success" => how \in Answers)
  BY DEF Classified, PanelStates
<1>3. CASE UNCHANGED panel
  BY <1>3 DEF PanelsFollow, AITypes
<1>4. ASSUME NEW shown \in {Classified(how), "unavailable"}, panel' = [panel EXCEPT ![p] = Showing(shown, c)]
      PROVE  PanelsFollow' /\ panel' \in [Pages -> [status : PanelStates, call : Calls \union {0}]]
  <2>1. Showing(shown, c) \in [status : PanelStates, call : Calls \union {0}] /\ Showing(shown, c).status = shown
    BY <1>2 DEF Showing, PanelStates
  <2>2. shown = "success" => Showing(shown, c).call = c /\ how \in Answers
    BY <1>2 DEF Showing
  <2>3. panel'[p] = Showing(shown, c) /\ \A q \in Pages : q # p => panel'[q] = panel[q]
    BY <1>1, <1>4 DEF AITypes
  <2>4. \A q \in Pages : q # p => (panel'[q].status = "success" =>
            panel'[q].call \in Calls /\ call'[panel'[q].call].at \in Answers /\ call'[panel'[q].call].page = q)
    BY <2>3 DEF PanelsFollow
  <2>5. panel'[p].status = "success" =>
            panel'[p].call \in Calls /\ call'[panel'[p].call].at \in Answers /\ call'[panel'[p].call].page = p
    BY <2>1, <2>2, <2>3
  <2>6. QED
    BY <1>4, <2>1, <2>4, <2>5 DEF PanelsFollow, AITypes
<1>5. QED
  BY <1>3, <1>4 DEF respond

LEMMA AIStep == AIInv /\ [AINext]_aiVars => AIInv'
<1> SUFFICES ASSUME AIInv, [AINext]_aiVars
             PROVE  AIInv'
  OBVIOUS
<1> DEFINE CallRows == [at : CallStates, page : Pages, about : Questions, paid : {"none", "open", "consumed", "released"}]
<1>1. /\ AITypes /\ PaidFollows /\ AllowanceHolds /\ SlotsAreReturned
      /\ AnswersAreKept /\ PairsAreKnown /\ PanelsFollow
  BY DEF AIInv
<1>2. CASE UNCHANGED aiVars
  <2>1. \A u : Spent(u)' = Spent(u) /\ Asking' = Asking /\ \A d : UserOf(d)' = UserOf(d) /\ KeyOf(d)' = KeyOf(d)
    BY <1>2 DEF aiVars, Spent, Asking, UserOf, KeyOf
  <2>2. UNCHANGED <<keeps, Allowance, PerUser, Global>>
    BY <1>2 DEF aiVars, keeps, Allowance, PerUser, Global
  <2>3. AITypes' /\ PaidFollows' /\ PanelsFollow'
    BY <1>1, <1>2 DEF aiVars, AITypes, PaidFollows, PanelsFollow
  <2>4. AllowanceHolds' /\ SlotsAreReturned'
    BY <1>1, <1>2, <2>1, <2>2 DEF aiVars, AllowanceHolds, SlotsAreReturned
  <2>5. AnswersAreKept' /\ PairsAreKnown'
    BY <1>1, <1>2, <2>1, <2>2 DEF aiVars, AnswersAreKept, PairsAreKnown, Bought
  <2>6. QED
    BY <2>3, <2>4, <2>5 DEF AIInv
<1>3. ASSUME NEW p \in Pages, NEW e \in Questions, run(p, e)
      PROVE  AIInv'
  <2>1. PICK c \in Calls :
            /\ call[c] = NoCall
            /\ call' = [call EXCEPT ![c] = [at |-> "posted", page |-> p, about |-> e, paid |-> "none"]]
            /\ panel' = [panel EXCEPT ![p] = Showing("loading", c)]
    BY <1>3 DEF run
  <2>2. UNCHANGED <<slots, stored, settings, perUserInFlight, globalInFlight, kept, lapsed, beside>>
    BY <1>3 DEF run, slots, stored
  <2>3. call[c].at = "none" /\ call[c].paid = "none"
    BY <2>1 DEF NoCall
  <2>4. /\ call' \in [Calls -> CallRows] /\ call'[c].at = "posted" /\ call'[c].paid = "none"
        /\ \A d \in Calls : d # c => call'[d] = call[d]
    BY <1>1, <2>1 DEF AITypes, CallStates
  <2>5. Showing("loading", c) = [status |-> "loading", call |-> c]
    BY DEF Showing
  <2>6. /\ panel' \in [Pages -> [status : PanelStates, call : Calls \union {0}]]
        /\ panel'[p].status = "loading" /\ \A q \in Pages : q # p => panel'[q] = panel[q]
    BY <1>1, <2>1, <2>5 DEF AITypes, PanelStates
  <2>7. AITypes'
    BY <1>1, <2>2, <2>4, <2>6 DEF AITypes, Askers
  <2>8. PaidFollows'
    BY <1>1, <2>4 DEF PaidFollows
  <2>9. AllowanceHolds' /\ SlotsAreReturned'
    BY <1>1, <2>2, <2>3, <2>4, AllowanceFrame, SlotsFrame
  <2>10. AnswersAreKept' /\ PairsAreKnown'
    BY <1>1, <2>2, <2>3, <2>4, KeptFrame, PairsFrame DEF Bought, KeyOf, UserOf
  <2>11. PanelsFollow'
    BY <1>1, <2>3, <2>4, <2>6 DEF PanelsFollow, Answers
  <2>12. QED
    BY <2>7, <2>8, <2>9, <2>10, <2>11 DEF AIInv
<1>4. ASSUME NEW p \in Pages, breakOff(p)
      PROVE  AIInv'
  <2>1. /\ panel' = [panel EXCEPT ![p] = Showing("unavailable", 0)]
        /\ UNCHANGED <<call, slots, stored, settings, perUserInFlight, globalInFlight, kept, lapsed, beside>>
    BY <1>4 DEF breakOff, slots, stored
  <2>2. Showing("unavailable", 0) = [status |-> "unavailable", call |-> 0]
    BY DEF Showing
  <2>3. AITypes' /\ PanelsFollow'
    BY <1>1, <2>1, <2>2 DEF AITypes, PanelsFollow, PanelStates
  <2>4. PaidFollows' /\ AllowanceHolds' /\ SlotsAreReturned'
    BY <1>1, <2>1, AllowanceFrame, SlotsFrame DEF PaidFollows
  <2>5. AnswersAreKept' /\ PairsAreKnown'
    BY <1>1, <2>1, KeptFrame, PairsFrame DEF Bought, KeyOf, UserOf
  <2>6. QED
    BY <2>3, <2>4, <2>5 DEF AIInv
\* A request that ends before it asked the provider.
<1>5. ASSUME NEW c \in Calls, call[c].at = "posted", NEW how \in Failures \union {"cached"},
             how \notin {"unkept", "dead"}, NEW paid \in {"none", "released"}, Conclude(c, how, paid),
             UNCHANGED <<perUserInFlight, globalInFlight, kept, lapsed, settings>>, beside \subseteq beside'
      PROVE  AIInv'
  <2>1. how \in CallStates /\ how \notin {"fresh", "unkept", "asking"}
    BY <1>5 DEF CallStates, Failures, Refusals, Answers
  <2>2. call' = [call EXCEPT ![c].at = how, ![c].paid = paid] /\ respond(c, how)
    BY <1>5 DEF Conclude
  <2>3. /\ call' \in [Calls -> CallRows] /\ call'[c].at = how /\ call'[c].paid = paid
        /\ \A d \in Calls : d # c => call'[d] = call[d]
        /\ \A d \in Calls : call'[d].page = call[d].page /\ call'[d].about = call[d].about
    BY <1>1, <2>1, <2>2, CallMoves
  <2>4. PanelsFollow' /\ panel' \in [Pages -> [status : PanelStates, call : Calls \union {0}]]
    BY <1>1, <1>5, <2>1, <2>2, <2>3, PanelMoves DEF Answers
  <2>5. AITypes'
    BY <1>1, <1>5, <2>3, <2>4 DEF AITypes, Askers
  <2>6. PaidFollows'
    BY <1>1, <2>1, <2>3 DEF PaidFollows
  <2>7. AllowanceHolds' /\ SlotsAreReturned'
    BY <1>1, <1>5, <2>1, <2>3, AllowanceFrame, SlotsFrame DEF slots
  <2>8. AnswersAreKept' /\ PairsAreKnown'
    BY <1>1, <1>5, <2>1, <2>3, KeptFrame, PairsFrame DEF Bought, KeyOf, UserOf
  <2>9. QED
    BY <2>4, <2>5, <2>6, <2>7, <2>8 DEF AIInv
<1>6. ASSUME NEW c \in Calls, refuse(c)
      PROVE  AIInv'
  BY <1>5, <1>6 DEF refuse, slots, stored, Failures, Refusals
\* A request that asks the provider.
<1>7. ASSUME NEW c \in Calls, call[c].at = "posted", ~ findAIResult(c), canUseAI(UserOf(c)),
             acquireSlot(UserOf(c)), Go(c, "open"), UNCHANGED <<kept, lapsed, settings>>,
             beside' = beside \union Twins(c),
             perUserInFlight' = [perUserInFlight EXCEPT ![UserOf(c)] = @ + 1],
             globalInFlight' = globalInFlight + 1
      PROVE  AIInv'
  <2>1. PICK u \in Askers : u = UserOf(c)
    BY <1>1 DEF AITypes, UserOf, Askers
  <2>2. call' = [call EXCEPT ![c].at = "asking", ![c].paid = "open"] /\ UNCHANGED panel
    BY <1>7 DEF Go
  <2>3. /\ call' \in [Calls -> CallRows] /\ call'[c].at = "asking" /\ call'[c].paid = "open"
        /\ \A d \in Calls : d # c => call'[d] = call[d]
        /\ \A d \in Calls : call'[d].page = call[d].page /\ call'[d].about = call[d].about
    BY <1>1, <2>2, CallMoves DEF CallStates
  <2>4. call[c].paid \notin {"open", "consumed"}
    BY <1>1, <1>7 DEF PaidFollows
  <2>5. UNCHANGED <<Allowance, PerUser, Global, keeps>> /\ Allowance \in Nat /\ PerUser \in Nat /\ Global \in Nat
    BY <1>1, <1>7, PlanTypes DEF AITypes, Allowance, PerUser, Global, keeps
  <2>6. PaidFollows' /\ PanelsFollow'
    BY <1>1, <1>7, <2>2, <2>3 DEF PaidFollows, PanelsFollow, Answers
  <2>7. AllowanceHolds'
    <3>1. /\ \A v : v # u => Spent(v)' = Spent(v)
          /\ Spent(u)' = Spent(u) \union {c} /\ c \notin Spent(u)
      BY <2>1, <2>3, <2>4 DEF Spent, UserOf
    <3>2. Cardinality(Spent(u)') = Cardinality(Spent(u)) + 1 /\ Cardinality(Spent(u)) \in Nat
      BY <3>1, Counts, FS_AddElement
    <3>3. Cardinality(Spent(u)) + 1 <= Allowance
      BY <1>7, <2>1, Counts DEF canUseAI
    <3>4. QED
      BY <1>1, <2>5, <3>1, <3>2, <3>3 DEF AllowanceHolds
  <2>8. SlotsAreReturned' /\ perUserInFlight' \in [Askers -> Nat] /\ globalInFlight' \in Nat
    <3>1. Asking' = Asking \union {c} /\ c \notin Asking
      BY <1>7, <2>3 DEF Asking
    <3>2. /\ \A v : v # u => AskingOf(v)' = AskingOf(v)
          /\ AskingOf(u)' = AskingOf(u) \union {c} /\ c \notin AskingOf(u)
      BY <2>1, <2>3, <3>1 DEF AskingOf, UserOf, Asking
    <3>3. /\ Cardinality(Asking') = Cardinality(Asking) + 1 /\ Cardinality(Asking) \in Nat
          /\ Cardinality(AskingOf(u)') = Cardinality(AskingOf(u)) + 1 /\ Cardinality(AskingOf(u)) \in Nat
      BY <3>1, <3>2, Counts, FS_AddElement
    <3>4. /\ globalInFlight = Cardinality(Asking) /\ globalInFlight < Global /\ perUserInFlight[u] < PerUser
          /\ \A v \in Askers : perUserInFlight[v] = Cardinality(AskingOf(v)) /\ perUserInFlight[v] <= PerUser
      BY <1>1, <1>7, <2>1 DEF SlotsAreReturned, AskingOf, acquireSlot
    <3>5. /\ perUserInFlight' \in [Askers -> Nat] /\ globalInFlight' \in Nat
          /\ perUserInFlight'[u] = perUserInFlight[u] + 1
          /\ \A v \in Askers : v # u => perUserInFlight'[v] = perUserInFlight[v]
      BY <1>1, <1>7, <2>1 DEF AITypes
    <3>6. \A v \in Askers : v # u => perUserInFlight'[v] = Cardinality(AskingOf(v)') /\ perUserInFlight'[v] <= PerUser
      BY <3>2, <3>4, <3>5
    <3>7. perUserInFlight'[u] = Cardinality(AskingOf(u)') /\ perUserInFlight'[u] <= PerUser
      BY <1>1, <2>5, <3>3, <3>4, <3>5 DEF AITypes
    <3>8. globalInFlight' = Cardinality(Asking') /\ globalInFlight' <= Global
      BY <1>1, <1>7, <2>5, <3>3, <3>4 DEF AITypes
    <3>9. \A v \in Askers : perUserInFlight'[v] = Cardinality(AskingOf(v)') /\ perUserInFlight'[v] <= PerUser
      BY <3>6, <3>7
    <3>10. QED
      BY <2>5, <3>5, <3>8, <3>9 DEF SlotsAreReturned, AskingOf
  <2>9. AITypes'
    BY <1>1, <1>7, <2>2, <2>3, <2>8 DEF AITypes, Askers
  <2>10. \A d : d \in Calls => KeyOf(d)' = KeyOf(d)
    BY <2>3 DEF KeyOf, UserOf
  <2>11. AnswersAreKept'
    BY <1>1, <1>7, <2>3, <2>10, KeptFrame
  <2>12. PairsAreKnown'
    <3>1. ASSUME keeps, NEW d \in Calls, d # c, Bought(d), KeyOf(d) = KeyOf(c)
          PROVE  KeyOf(c) \in lapsed \union beside'
      <4>1. CASE call[d].paid = "consumed"
        BY <1>1, <1>7, <3>1, <4>1 DEF AnswersAreKept, findAIResult
      <4>2. CASE call[d].at = "asking"
        BY <1>7, <3>1, <4>2 DEF Twins, Asking
      <4>3. QED
        BY <3>1, <4>1, <4>2 DEF Bought
    <3>2. \A d \in Calls : d # c => (Bought(d)' <=> Bought(d))
      BY <2>3 DEF Bought
    <3>3. ASSUME keeps, NEW a \in Calls, NEW d \in Calls, a # d, Bought(a)', Bought(d)', KeyOf(a) = KeyOf(d)
          PROVE  KeyOf(a) \in lapsed \union beside'
      <4>1. CASE a = c
        BY <3>1, <3>2, <3>3, <4>1
      <4>2. CASE d = c
        BY <3>1, <3>2, <3>3, <4>2
      <4>3. CASE a # c /\ d # c
        BY <1>1, <1>7, <3>2, <3>3, <4>3 DEF PairsAreKnown
      <4>4. QED
        BY <4>1, <4>2, <4>3
    <3>4. QED
      BY <1>7, <2>5, <2>10, <3>3 DEF PairsAreKnown
  <2>13. QED
    BY <2>6, <2>7, <2>8, <2>9, <2>11, <2>12 DEF AIInv
<1>8. ASSUME NEW c \in Calls, runAIFeature(c)
      PROVE  AIInv'
  <2>1. /\ call[c].at = "posted" /\ UNCHANGED <<kept, lapsed, settings>>
        /\ beside' = beside \union Twins(c) /\ beside \subseteq beside'
    BY <1>8 DEF runAIFeature
  <2>2. CASE findAIResult(c) /\ Conclude(c, "cached", "none") /\ UNCHANGED slots
    BY <1>5, <2>1, <2>2 DEF slots, Failures, Refusals
  <2>3. CASE Conclude(c, "quota", "none") /\ UNCHANGED slots
    BY <1>5, <2>1, <2>3 DEF slots, Failures, Refusals
  <2>4. ASSUME NEW how \in {"rejected", "unavailable"}, Conclude(c, how, "released"), UNCHANGED slots
        PROVE  AIInv'
    BY <1>5, <2>1, <2>4 DEF slots, Failures, Refusals
  <2>5. CASE /\ ~ findAIResult(c) /\ canUseAI(UserOf(c)) /\ acquireSlot(UserOf(c)) /\ Go(c, "open")
             /\ perUserInFlight' = [perUserInFlight EXCEPT ![UserOf(c)] = @ + 1]
             /\ globalInFlight' = globalInFlight + 1
    BY <1>7, <2>1, <2>5
  <2>6. QED
    BY <1>8, <2>2, <2>3, <2>4, <2>5 DEF runAIFeature
\* The provider has answered or failed.
<1>9. ASSUME NEW c \in Calls, call[c].at = "asking", releaseSlot(c), UNCHANGED <<settings, beside>>,
             NEW how \in CallStates, NEW paid \in {"consumed", "released"}, Conclude(c, how, paid),
             how \notin {"asking", "none", "posted", "cached", "dead"}, how \in {"fresh", "unkept"} <=> paid = "consumed",
             kept \subseteq kept', lapsed \subseteq lapsed',
             paid = "consumed" /\ keeps => KeyOf(c) \in kept' \union lapsed'
      PROVE  AIInv'
  <2>1. call' = [call EXCEPT ![c].at = how, ![c].paid = paid] /\ respond(c, how)
    BY <1>9 DEF Conclude
  <2>2. /\ call' \in [Calls -> CallRows] /\ call'[c].at = how /\ call'[c].paid = paid
        /\ \A d \in Calls : d # c => call'[d] = call[d]
        /\ \A d \in Calls : call'[d].page = call[d].page /\ call'[d].about = call[d].about
    BY <1>1, <1>9, <2>1, CallMoves
  <2>3. call[c].paid = "open"
    BY <1>1, <1>9 DEF PaidFollows
  <2>4. PanelsFollow' /\ panel' \in [Pages -> [status : PanelStates, call : Calls \union {0}]]
    BY <1>1, <1>9, <2>1, <2>2, PanelMoves DEF Answers
  <2>5. SlotsAreReturned' /\ perUserInFlight' \in [Askers -> Nat] /\ globalInFlight' \in Nat
    BY <1>1, <1>9, <2>2, SlotsBack
  <2>6. AITypes'
    BY <1>1, <1>9, <2>2, <2>4, <2>5 DEF AITypes, Askers
  <2>7. PaidFollows'
    BY <1>1, <1>9, <2>2 DEF PaidFollows
  <2>8. AllowanceHolds'
    BY <1>1, <1>9, <2>2, <2>3, AllowanceFrame
  <2>9. \A d \in Calls : KeyOf(d)' = KeyOf(d)
    BY <2>2 DEF KeyOf, UserOf
  <2>10. AnswersAreKept'
    <3>1. keeps' = keeps
      BY <1>9 DEF keeps
    <3>2. QED
      BY <1>1, <1>9, <2>2, <2>9, <3>1 DEF AnswersAreKept
  <2>11. PairsAreKnown'
    BY <1>1, <1>9, <2>2, <2>9, PairsFrame DEF Bought
  <2>12. QED
    BY <2>4, <2>5, <2>6, <2>7, <2>8, <2>10, <2>11 DEF AIInv
<1>10. ASSUME NEW c \in Calls, complete(c)
       PROVE  AIInv'
  BY <1>9, <1>10 DEF complete, CallStates, Answers, Failures
<1>11. ASSUME NEW c \in Calls, withTimeout(c)
      PROVE  AIInv'
  BY <1>9, <1>11 DEF withTimeout, CallStates, Failures, Refusals, stored
<1>12. CASE restart
  <2> DEFINE Halted(d) == call[d].at \in {"posted", "asking"}
  <2>1. /\ call' = [d \in Calls |-> IF Halted(d) THEN [call[d] EXCEPT !.at = "dead"] ELSE call[d]]
        /\ panel' = [p \in Pages |-> IF panel[p].status = "loading" THEN Showing("unavailable", 0) ELSE panel[p]]
        /\ perUserInFlight' = [u \in Askers |-> 0] /\ globalInFlight' = 0
        /\ UNCHANGED <<stored, settings, kept, lapsed, beside>>
    BY <1>12 DEF restart, stored
  <2>2. /\ call' \in [Calls -> CallRows]
        /\ \A d \in Calls : call'[d].at = IF Halted(d) THEN "dead" ELSE call[d].at
        /\ \A d \in Calls : call'[d].page = call[d].page /\ call'[d].about = call[d].about /\ call'[d].paid = call[d].paid
    <3>1. ASSUME NEW d \in Calls, Halted(d)
          PROVE  /\ call'[d] \in CallRows /\ call'[d].at = "dead"
                 /\ call'[d].page = call[d].page /\ call'[d].about = call[d].about /\ call'[d].paid = call[d].paid
      BY <1>1, <2>1, <3>1 DEF AITypes, CallStates, Failures
    <3>2. ASSUME NEW d \in Calls, ~ Halted(d)
          PROVE  call'[d] \in CallRows /\ call'[d] = call[d]
      BY <1>1, <2>1, <3>2 DEF AITypes
    <3>3. call' = [d \in Calls |-> call'[d]]
      BY <2>1
    <3> HIDE DEF CallRows
    <3>4. QED
      BY <3>1, <3>2, <3>3
  <2>3. Showing("unavailable", 0) = [status |-> "unavailable", call |-> 0]
    BY DEF Showing
  <2>4. /\ panel' \in [Pages -> [status : PanelStates, call : Calls \union {0}]]
        /\ \A p \in Pages : panel'[p].status = "success" => panel'[p] = panel[p]
    BY <1>1, <2>1, <2>3 DEF AITypes, PanelStates
  <2>5. AITypes'
    BY <1>1, <2>1, <2>2, <2>4 DEF AITypes
  <2>6. PaidFollows' /\ PanelsFollow'
    <3>1. \A d \in Calls : call[d].at \in Answers \union {"unkept"} => call'[d].at = call[d].at
      BY <2>2 DEF Answers
    <3>2. PaidFollows'
      BY <1>1, <2>2 DEF PaidFollows
    <3>3. PanelsFollow'
      BY <1>1, <2>2, <2>4, <3>1 DEF PanelsFollow
    <3>4. QED
      BY <3>2, <3>3
  <2>7. AllowanceHolds'
    BY <1>1, <2>1, <2>2, AllowanceFrame
  <2>8. SlotsAreReturned'
    <3>1. Asking' = {} /\ \A u : AskingOf(u)' = {}
      BY <2>2 DEF Asking, AskingOf
    <3>2. Global' \in Nat /\ PerUser' \in Nat
      BY <1>1, <2>1, PlanTypes DEF AITypes, Global, PerUser
    <3>3. globalInFlight' = Cardinality(Asking') /\ globalInFlight' <= Global'
      BY <2>1, <3>1, <3>2, FS_EmptySet
    <3>4. ASSUME NEW u \in Askers'
          PROVE  perUserInFlight'[u] = Cardinality(AskingOf(u)') /\ perUserInFlight'[u] <= PerUser'
      <4>1. AskingOf(u)' = {} /\ Cardinality({}) = 0
        BY <3>1, FS_EmptySet
      <4>2. perUserInFlight'[u] = 0
        BY <2>1 DEF Askers
      <4>3. QED
        BY <3>2, <4>1, <4>2
    <3>5. QED
      BY <3>3, <3>4 DEF SlotsAreReturned, AskingOf
  <2>9. AnswersAreKept' /\ PairsAreKnown'
    BY <1>1, <2>1, <2>2, KeptFrame, PairsFrame DEF Bought, KeyOf, UserOf
  <2>10. QED
    BY <2>5, <2>6, <2>7, <2>8, <2>9 DEF AIInv
<1>13. CASE releaseDangling
  <2> DEFINE Left(d) == call[d].paid = "open" /\ call[d].at # "asking"
  <2>1. /\ call' = [d \in Calls |-> IF Left(d) THEN [call[d] EXCEPT !.paid = "released"] ELSE call[d]]
        /\ UNCHANGED <<panel, slots, stored, settings, perUserInFlight, globalInFlight, kept, lapsed, beside>>
    BY <1>13 DEF releaseDangling, slots, stored
  <2>2. /\ call' \in [Calls -> CallRows]
        /\ \A d \in Calls : call'[d].paid = IF Left(d) THEN "released" ELSE call[d].paid
        /\ \A d \in Calls : call'[d].page = call[d].page /\ call'[d].about = call[d].about /\ call'[d].at = call[d].at
    BY <1>1, <2>1 DEF AITypes
  <2>3. AITypes'
    BY <1>1, <2>1, <2>2 DEF AITypes
  <2>4. PaidFollows' /\ PanelsFollow'
    BY <1>1, <2>1, <2>2 DEF PaidFollows, PanelsFollow
  <2>5. AllowanceHolds' /\ SlotsAreReturned'
    BY <1>1, <2>1, <2>2, AllowanceFrame, SlotsFrame
  <2>6. AnswersAreKept' /\ PairsAreKnown'
    BY <1>1, <2>1, <2>2, KeptFrame, PairsFrame DEF Bought, KeyOf, UserOf
  <2>7. QED
    BY <2>3, <2>4, <2>5, <2>6 DEF AIInv
<1>14. ASSUME NEW k \in kept, deleteExpiredAIResults(k)
       PROVE  AIInv'
  <2>1. /\ kept' = kept \ {k} /\ lapsed' = lapsed \union {k}
        /\ UNCHANGED <<panel, call, slots, settings, beside, perUserInFlight, globalInFlight>>
    BY <1>14 DEF deleteExpiredAIResults, slots
  <2>2. AITypes' /\ PaidFollows' /\ PanelsFollow'
    BY <1>1, <2>1 DEF AITypes, PaidFollows, PanelsFollow
  <2>3. AllowanceHolds' /\ SlotsAreReturned'
    BY <1>1, <2>1, AllowanceFrame, SlotsFrame
  <2>4. AnswersAreKept' /\ PairsAreKnown'
    BY <1>1, <2>1, KeptFrame, PairsFrame DEF Bought, KeyOf, UserOf
  <2>5. QED
    BY <2>2, <2>3, <2>4 DEF AIInv
<1>15. QED
  BY <1>2, <1>3, <1>4, <1>6, <1>8, <1>10, <1>11, <1>12, <1>13, <1>14 DEF AINext

LEMMA AnswersFollow == AIInv => AnswersHold
<1> SUFFICES ASSUME AIInv PROVE AnswersHold
  OBVIOUS
<1>1. ChargedForAnswers
  BY Counts DEF AIInv, ChargedForAnswers, PaidFollows, AllowanceHolds
<1>2. PaidOnce
  BY DEF AIInv, PaidOnce, PairsAreKnown, Bought
<1>3. PanelsAreTrue
  BY DEF AIInv, PanelsAreTrue, PanelsFollow
<1>4. QED
  BY <1>1, <1>2, <1>3 DEF AIInv, AnswersHold

\* What an interpretation costs, which slots are taken, what is paid twice and
\* what a panel shows, for any pages, users, questions, requests and plans,
\* through failures, restarts and expiries (lib/ai/service.ts, limits.ts).
THEOREM AnswersAreSound == AISpec => []AnswersHold
BY AnswersFollow, AIStart, AIStep, PTL DEF AISpec

-----------------------------------------------------------------------------
\* Both beside the other parts of what the user meets.
THEOREM RequestsAreSound == OutcomesSpec => []RequestsHold
<1>1. OutcomesInit => AIInv /\ WorkbenchInv
  BY AIStart, WorkbenchStart DEF OutcomesInit
<1>2. AIInv /\ WorkbenchInv /\ [OutcomesNext]_<<outcome, vars, eVars, rbVars, evVars, seVars, coVars, wbVars, aiVars, acVars, anVars>>
          => AIInv' /\ WorkbenchInv'
  BY AIStep, WorkbenchStep DEF OutcomesNext
<1>3. AIInv => AnswersHold
  BY AnswersFollow
<1>4. WorkbenchInv => WorkbenchHolds
  BY WorkbenchFollows
<1>5. QED
  BY <1>1, <1>2, <1>3, <1>4, PTL DEF OutcomesSpec, RequestsHold

\* The analysis runs in its own behaviours; in the others nothing is analyzed.
AnalysisInv == IF outcome = "analyzer" THEN AnalyzerInv ELSE step = "chosen"

\* What the results of a run, an answer about them and a package are taken to
\* say holds beside the other parts too: the three theorems of
\* ConclusionsProofs, composed (lib/testing, lib/ai, lib/extension).
THEOREM ConclusionsAreSound == OutcomesSpec => []ConclusionsHold
<1>1. OutcomesInit => EvaluationInv /\ InterpretationInv
  BY EvaluationStart, InterpretationStart DEF OutcomesInit
<1>2. OutcomesInit => AnalysisInv
  BY AnalyzerStart DEF OutcomesInit, AnalysisInv
<1>3. EvaluationInv /\ InterpretationInv /\ AnalysisInv
      /\ [OutcomesNext]_<<outcome, vars, eVars, rbVars, evVars, seVars, coVars, wbVars, aiVars, acVars, anVars>>
          => EvaluationInv' /\ InterpretationInv' /\ AnalysisInv'
  <2>1. SUFFICES ASSUME EvaluationInv, InterpretationInv, AnalysisInv,
                        [OutcomesNext]_<<outcome, vars, eVars, rbVars, evVars, seVars, coVars, wbVars, aiVars, acVars, anVars>>
                 PROVE  EvaluationInv' /\ InterpretationInv' /\ AnalysisInv'
    OBVIOUS
  <2>2. [EvaluationNext]_evVars
    BY <2>1 DEF OutcomesNext, EvaluationNext
  <2>3. [ContextNext]_acVars
    BY <2>1 DEF OutcomesNext
  <2>4. outcome' = outcome /\ IF outcome = "analyzer" THEN [AnalyzerNext]_anVars ELSE UNCHANGED anVars
    BY <2>1 DEF OutcomesNext
  <2>5. EvaluationInv'
    BY <2>1, <2>2, EvaluationStep
  <2>6. InterpretationInv'
    BY <2>1, <2>3, InterpretationStep
  <2>7. AnalysisInv'
    BY <2>1, <2>4, AnalyzerStep DEF AnalysisInv, anVars
  <2>8. QED
    BY <2>5, <2>6, <2>7
<1>4. EvaluationInv => EvaluationIsFair
  BY ScoresIgnoreUnavailable, ReportedRegressionsAreNews, PassesAreEarned DEF EvaluationInv, EvaluationIsFair
<1>5. InterpretationInv => InterpretationHolds
  BY DEF InterpretationInv, ContextInv, InterpretationHolds
<1>6. AnalysisInv => AnalysisHolds
  <2>1. ASSUME AnalyzerInv PROVE AnalysisHolds
    BY <2>1, AnalyzerSound
  <2>2. step = "chosen" => AnalysisHolds
    BY DEF Reported, AnalysisHolds, ScoresAreBounded, LimitsAreKept, IssuesAreDeclared, TreeAddsUp, NestingIsIgnored
  <2>3. QED
    BY <2>1, <2>2 DEF AnalysisInv
<1>7. QED
  BY <1>1, <1>2, <1>3, <1>4, <1>5, <1>6, PTL DEF OutcomesSpec, ConclusionsHold
=============================================================================
