----------------------------- MODULE RunnerBrowser -----------------------------
(***************************************************************************)
(* The browser inside a sandbox, as the runner of the container drives it  *)
(* (src/sandbox/runner): one Chromium behind one DevTools port, which the  *)
(* commands of the host start, restart, resize and point at pages.  The    *)
(* runner has no queue: every command is a request of its own, and the     *)
(* commands interleave wherever one awaits the browser.                    *)
(*                                                                         *)
(* A browser is known by the number of its launch.  SIGTERM does not end   *)
(* it at once, and the port belongs to whichever browser answers.  The     *)
(* host serialises starts and restarts (the session is STARTING or         *)
(* RESTARTING meanwhile), and its page opens one popup at a time.          *)
(***************************************************************************)
EXTENDS Naturals

CONSTANTS
    MaxLaunches,  \* the most browsers a container starts
    Sizes,        \* viewports, by one coordinate
    Popups        \* the most popup targets that are created

ASSUME RunnerBounds == MaxLaunches \in Nat \ {0} /\ Popups \in Nat /\ Sizes \subseteq Nat /\ Sizes # {}

VARIABLES
    runnerStatus,       \* what the runner answers: idle, starting, running, stopped, failed
    launched,     \* how many browsers were spawned
    process,      \* the browser the runner holds, 0 for none
    alive,        \* the browsers that run
    client,       \* the browser the DevTools connection goes to, 0 for none
    isStarted,    \* this.started
    origin,       \* extensionOrigin: the browser that showed the extension first
    viewport,     \* the size coordinates are checked against
    metrics,      \* the size each browser renders
    popup,        \* popupClient and popupTargetId, 0 for null
    targets,      \* how many popup targets were created
    tabs,         \* those that are open, with their browser
    closing,      \* targets detachPopup still has to close
    life,         \* where the start or restart is
    previousViewport, \* what the restart read when it began
    opening       \* where openPopup is, and its target

rbVars == <<runnerStatus, launched, process, alive, client, isStarted, origin, viewport,
           metrics, popup, targets, tabs, closing, life, previousViewport, opening>>

NoPopup == [client |-> 0, target |-> 0]
Idle    == [at |-> "no", target |-> 0]
Tab(t)  == [browser |-> client, target |-> t]
Open(t) == \E b \in alive : [browser |-> b, target |-> t] \in tabs

BrowserInit ==
    /\ runnerStatus = "idle" /\ launched = 0 /\ process = 0 /\ alive = {} /\ client = 0
    /\ isStarted = FALSE /\ origin = 0
    /\ \E s \in Sizes : viewport = s /\ metrics = [b \in 1..MaxLaunches |-> s] /\ previousViewport = s
    /\ popup = NoPopup /\ targets = 0 /\ tabs = {} /\ closing = {} /\ life = "no" /\ opening = Idle

popupVars == <<popup, targets, tabs, closing, opening>>
sizeVars  == <<viewport, metrics, previousViewport>>

-----------------------------------------------------------------------------
(* The size: assigned and sent in one turn, so that what is validated is    *)
(* what is sent; without a connection only the field changes.              *)
applyViewport(size) ==
    metrics' = IF client \in alive THEN [metrics EXCEPT ![client] = size] ELSE metrics

setViewport(size) ==
    /\ launched > 0
    /\ viewport' = size /\ applyViewport(size)
    /\ UNCHANGED <<runnerStatus, launched, process, alive, client, isStarted, origin, previousViewport, life>>
    /\ UNCHANGED popupVars

(* Input: a coordinate is checked against the field, and lands in what the  *)
(* browser renders.                                                        *)
validateInteractiveInput(x) == x <= viewport
dispatchInput(x) == client \in alive /\ x <= metrics[client]

\* Mutated detachPopup: the target is left to the client's close.
detachClientOnly ==
    /\ popup' = NoPopup
    /\ closing' = closing

(* detachPopup: the fields are cleared at once, the target is closed later. *)
detachPopup ==
    /\ popup' = NoPopup
    /\ closing' = closing \cup ({popup.target} \ {0})

closeTarget ==
    \E t \in closing :
        /\ closing' = closing \ {t}
        /\ tabs' = IF client = 0 THEN tabs ELSE tabs \ {Tab(t)}
        /\ UNCHANGED <<runnerStatus, launched, process, alive, client, isStarted, origin, life,
                       popup, targets, opening>>
        /\ UNCHANGED sizeVars

-----------------------------------------------------------------------------
(* launch: a browser is spawned, the first page that answers on the port is *)
(* attached to, its viewport is set and the page is opened.                *)
spawnBrowser ==
    /\ life = "launch" /\ launched < MaxLaunches
    /\ launched' = launched + 1 /\ process' = launched + 1
    /\ alive' = alive \cup {launched + 1} /\ life' = "attach"
    /\ metrics' \in {[metrics EXCEPT ![launched + 1] = s] : s \in Sizes}
    /\ UNCHANGED <<runnerStatus, client, isStarted, origin, viewport, previousViewport>>
    /\ UNCHANGED popupVars

waitForCdp ==
    /\ life = "attach"
    /\ \/ client' \in alive /\ life' = "prepare" /\ runnerStatus' = runnerStatus
       \/ client' = client /\ life' = "no" /\ runnerStatus' = IF runnerStatus = "starting" THEN "failed" ELSE runnerStatus
    /\ UNCHANGED <<launched, process, alive, isStarted, origin>>
    /\ UNCHANGED sizeVars /\ UNCHANGED popupVars

(* The listeners take the origin of the first extension target they see.    *)
attachListeners ==
    /\ client \in alive /\ origin = 0 /\ origin' = client
    /\ UNCHANGED <<runnerStatus, launched, process, alive, client, isStarted, life>>
    /\ UNCHANGED sizeVars /\ UNCHANGED popupVars

launchPage ==
    /\ life = "prepare" /\ life' = "verify" /\ isStarted' = TRUE
    /\ applyViewport(viewport)
    /\ UNCHANGED <<runnerStatus, launched, process, alive, client, origin, viewport, previousViewport>>
    /\ UNCHANGED popupVars

(* stop, as a restart calls it: the popup first, then the connection and    *)
(* the process; extensionOrigin stays.                                     *)
stopBegins ==
    /\ isStarted' = FALSE /\ detachPopup
stopEnds ==
    /\ life = "stopping" /\ closing = {}
    /\ client' = 0 /\ process' = 0
    /\ life' = IF runnerStatus = "stopped" THEN "no" ELSE "launch"
    /\ UNCHANGED <<runnerStatus, launched, alive, isStarted, origin>>
    /\ UNCHANGED sizeVars /\ UNCHANGED popupVars

startCommand ==
    /\ life = "no" /\ runnerStatus = "idle"
    /\ runnerStatus' = "starting" /\ life' = "launch"
    /\ UNCHANGED <<launched, process, alive, client, isStarted, origin>>
    /\ UNCHANGED sizeVars /\ UNCHANGED popupVars

(* Evidence of the extension: an origin once seen, a target that is seen    *)
(* now, or a manifest that can be read; without any the start fails.       *)
verifyExtensionLoaded ==
    /\ life = "verify" /\ runnerStatus = "starting"
    /\ life' = "no"
    /\ \/ runnerStatus' = "running" /\ UNCHANGED <<client, process, isStarted>>
       \/ origin = 0 /\ runnerStatus' = "failed" /\ client' = 0 /\ process' = 0 /\ isStarted' = FALSE
    /\ UNCHANGED <<launched, alive, origin>>
    /\ UNCHANGED sizeVars /\ UNCHANGED popupVars

restartExtension ==
    /\ life = "no" /\ runnerStatus = "running" /\ isStarted /\ process # 0 /\ launched < MaxLaunches
    /\ previousViewport' = viewport /\ life' = "stopping"
    /\ stopBegins
    /\ UNCHANGED <<runnerStatus, launched, process, alive, client, origin, viewport, metrics,
                   targets, tabs, opening>>

stopCommand ==
    /\ life = "no" /\ runnerStatus = "running"
    /\ runnerStatus' = "stopped" /\ life' = "stopping"
    /\ stopBegins
    /\ UNCHANGED <<launched, process, alive, client, origin, targets, tabs, opening>>
    /\ UNCHANGED sizeVars

\* Mutated restoreViewport: the field is put back, the browser is not told.
restoreField ==
    /\ viewport' = previousViewport /\ metrics' = metrics

(* The restart ends by putting back the viewport it began with.             *)
restoreViewport ==
    /\ viewport' = previousViewport /\ applyViewport(previousViewport)

restartEnds ==
    /\ life = "verify" /\ runnerStatus = "running" /\ life' = "no"
    /\ restoreViewport
    /\ UNCHANGED <<runnerStatus, launched, process, alive, client, isStarted, origin, previousViewport>>
    /\ UNCHANGED popupVars

(* A browser ends: after SIGTERM, or by itself.  The handler of the exit    *)
(* does not ask which browser it was.                                      *)
processExit ==
    \E b \in alive :
        /\ alive' = alive \ {b} /\ isStarted' = FALSE
        /\ tabs' = {t \in tabs : t.browser # b}
        /\ UNCHANGED <<runnerStatus, launched, process, client, origin, life, popup, targets,
                       closing, opening>>
        /\ UNCHANGED sizeVars

-----------------------------------------------------------------------------
(* openPopup, with its awaits.                                              *)
quietOpen == UNCHANGED <<runnerStatus, launched, process, alive, client, isStarted, origin, life>> /\ UNCHANGED sizeVars

openPopup ==
    /\ opening = Idle /\ client # 0 /\ popup.client = 0
    /\ opening' = [at |-> "create", target |-> 0]
    /\ quietOpen /\ UNCHANGED <<popup, targets, tabs, closing>>

createTarget ==
    /\ opening.at = "create" /\ client \in alive
    /\ targets < Popups /\ targets' = targets + 1
    /\ tabs' = tabs \cup {Tab(targets')}
    /\ popup' = [popup EXCEPT !.target = targets']
    /\ opening' = [at |-> "attach", target |-> targets']
    /\ quietOpen /\ UNCHANGED closing

attachPopup ==
    /\ opening.at = "attach" /\ Open(opening.target)
    /\ popup' = [popup EXCEPT !.client = opening.target]
    /\ opening' = [opening EXCEPT !.at = "confirm"]
    /\ quietOpen /\ UNCHANGED <<targets, tabs, closing>>

confirmPopup ==
    /\ opening.at = "confirm" /\ popup.client = opening.target /\ Open(opening.target)
    /\ opening' = Idle
    /\ quietOpen /\ UNCHANGED <<popup, targets, tabs, closing>>

openFails ==
    /\ opening.at # "no" /\ opening' = Idle
    /\ detachPopup
    /\ quietOpen /\ UNCHANGED <<targets, tabs>>

closePopup ==
    /\ popup.client # 0
    /\ detachPopup
    /\ quietOpen /\ UNCHANGED <<targets, tabs, opening>>

-----------------------------------------------------------------------------
BrowserNext ==
    \/ \E s \in Sizes : setViewport(s)
    \/ startCommand \/ spawnBrowser \/ waitForCdp \/ attachListeners \/ launchPage
    \/ verifyExtensionLoaded \/ restartExtension \/ stopCommand \/ stopEnds \/ restartEnds
    \/ processExit \/ closeTarget
    \/ openPopup \/ createTarget \/ attachPopup \/ confirmPopup \/ openFails \/ closePopup

BrowserSpec == BrowserInit /\ [][BrowserNext]_rbVars

(* The input that is accepted is the input that lands, whenever no start or *)
(* restart is under way, whatever was resized during the last one.         *)
SizeIsRendered ==
    life = "no" /\ client \in alive =>
        \A x \in Sizes : validateInteractiveInput(x) <=> dispatchInput(x)

(* A popup target that is open in the browser the runner holds is the one   *)
(* that closePopup and a restart will close, or it is being closed already. *)
PopupsAreTracked ==
    \A t \in tabs : t.browser = client /\ client = process =>
        t.target \in closing \cup {popup.target}

(* Between commands the runner knows its browser.                           *)
BrowserIsKnown == SizeIsRendered /\ PopupsAreTracked
=============================================================================
