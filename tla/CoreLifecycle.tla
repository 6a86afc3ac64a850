---------------------------- MODULE CoreLifecycle ----------------------------
(***************************************************************************)
(* The connect / disconnect / hot-switch lifecycle of the client:          *)
(* CoreLifecycleManager (the FIFO of exclusive operations and the user-    *)
(* visible status) driving CoreManager (which process runs the core).      *)
(*                                                                         *)
(* Dart runs one isolate, so the code between two awaits that really leave *)
(* the event loop (disk, IPC, HTTP, timers) is one step here.  Awaits that *)
(* resolve from an in-memory cache (SettingsService.get on a loaded cache) *)
(* are no step boundary.                                                   *)
(***************************************************************************)
EXTENDS Naturals, Sequences

CONSTANTS
    Platform,         \* "desktop" (app process + privileged helper) or "android"
    HelperInstalled,  \* what a look for the desktop service helper may answer
    MaxRequests,      \* bound: operations the user may ask for
    MaxCrashes        \* bound: crashes of a running core

ASSUME PlatformAssumption == Platform \in {"desktop", "android"}
ASSUME HelperAssumption   == HelperInstalled \in (SUBSET BOOLEAN) \ {{}}
ASSUME BoundsAssumption   == MaxRequests \in Nat /\ MaxCrashes \in Nat

Modes    == {"systemProxy", "tun"}
Statuses == {"stopped", "starting", "running", "stopping", "degraded"}
Kinds    == {"start", "stop", "toggle", "restart", "hotSwitch", "recoveryStop"}
Connected == {"running", "degraded"}

VARIABLES
    status,         \* coreStatusProvider
    userStopped,    \* userStoppedProvider (memory)
    manualStopped,  \* SettingsService.manualStopped as the loaded cache has it
    manualDisk,     \* the same flag as settings.json has it
    connMode,       \* connectionModeProvider, persisted with every change
    queue,          \* operations waiting in _operationQueue
    op,             \* the operation at the front, being executed
    inFlight,       \* _inFlightOpCount
    running,        \* CoreManager._running
    startInFlight,  \* CoreManager._startInFlight
    serviceActive,  \* CoreManager._serviceModeActive
    appCore,        \* the core loaded in the app process is up
    helperCore,     \* the helper's child: "off", "up" or "down" (crashed)
    survivor,       \* history: processes a stop or start lost track of
    requests,       \* bound counter for MaxRequests
    crashes         \* bound counter for MaxCrashes

flagVars   == <<userStopped, manualStopped, manualDisk>>
coreVars   == <<appCore, helperCore, survivor>>
managerVars == <<running, startInFlight, serviceActive>>
vars == <<status, flagVars, connMode, queue, op, inFlight, managerVars,
          coreVars, requests, crashes>>

(***************************************************************************)
(* Operations.  A request carries its kind and, for a hot switch, the new  *)
(* mode and the mode to fall back to.  The executing operation adds where  *)
(* it is (pc), the mode its start captured, whether its teardown counts as *)
(* one of desktop TUN, and whether a hot switch is already rolling back.   *)
(***************************************************************************)
NoMode  == "none"
ModeOpt == Modes \cup {NoMode}
Request == [kind : Kinds \ {"hotSwitch"}, new : {NoMode}, fallback : {NoMode}]
           \cup [kind : {"hotSwitch"}, new : Modes, fallback : Modes]
Pcs == {"idle", "startFlush", "managerStart", "spawn", "waitApi", "post",
        "stopFlush", "teardown", "kill", "hotCheck", "patch"}
Op == [kind : Kinds \cup {"idle"}, pc : Pcs, new : ModeOpt, fallback : ModeOpt,
       mode : ModeOpt, wasTun : BOOLEAN, rolledBack : BOOLEAN]

Blank(k, n, f) == [kind |-> k, pc |-> "idle", new |-> n, fallback |-> f,
                   mode |-> NoMode, wasTun |-> FALSE, rolledBack |-> FALSE]

Idle == Blank("idle", NoMode, NoMode)
Opened(r) == Blank(r.kind, r.new, r.fallback)

Desktop == Platform = "desktop"
IsDesktopTun(m) == Desktop /\ m = "tun"

\* _shouldUseDesktopServiceMode.  The helper can be installed and removed while
\* the app runs; a start that got past its pre-flight has found it.
UsesHelper(m) == IsDesktopTun(m) /\ TRUE \in HelperInstalled

\* The process a start in mode m brings up answers on the REST API.
CoreUp(m) == IF UsesHelper(m) THEN helperCore = "up" ELSE appCore

TypeOK ==
    /\ status \in Statuses
    /\ userStopped \in BOOLEAN /\ manualStopped \in BOOLEAN
    /\ manualDisk \in BOOLEAN
    /\ connMode \in Modes
    /\ queue \in Seq(Request)
    /\ op \in Op
    /\ inFlight \in Nat
    /\ running \in BOOLEAN /\ startInFlight \in BOOLEAN
    /\ serviceActive \in BOOLEAN
    /\ appCore \in BOOLEAN
    /\ helperCore \in {"off", "up", "down"}
    /\ survivor \in SUBSET {"app", "helper"}
    /\ requests \in Nat /\ crashes \in Nat

\* A cold start: nothing runs, the stop flag is whatever the last session left.
Init ==
    /\ status = "stopped"
    /\ manualDisk \in BOOLEAN
    /\ manualStopped = manualDisk
    /\ userStopped = manualDisk
    /\ connMode \in Modes
    /\ queue = <<>>
    /\ op = Idle
    /\ inFlight = 0
    /\ running = FALSE /\ startInFlight = FALSE /\ serviceActive = FALSE
    /\ appCore = FALSE /\ helperCore = "off" /\ survivor = {}
    /\ requests = 0 /\ crashes = 0

-----------------------------------------------------------------------------
(***************************************************************************)
(* _runExclusive: enqueue, execute in order, one at a time.                *)
(***************************************************************************)
Enqueue(r) ==
    /\ queue' = Append(queue, r)
    /\ inFlight' = inFlight + 1

Plain(k) == [kind |-> k, new |-> NoMode, fallback |-> NoMode]

\* An operation asked for through CoreActions.
RequestOp(k) ==
    /\ requests < MaxRequests
    /\ requests' = requests + 1
    /\ Enqueue(Plain(k))
    /\ UNCHANGED <<status, flagVars, connMode, op, managerVars, coreVars,
                   crashes>>

\* The mode pill (ModeActions): provider and setting change first, then the
\* hot switch is queued with the previous mode as its fallback.
PickMode(m) ==
    /\ requests < MaxRequests
    /\ requests' = requests + 1
    /\ m # connMode
    /\ connMode' = m
    /\ Enqueue([kind |-> "hotSwitch", new |-> m, fallback |-> connMode])
    /\ UNCHANGED <<status, flagVars, op, managerVars, coreVars, crashes>>

\* The settings page does the same, but only queues the switch while the
\* status it reads is running.
PickModeInSettings(m) ==
    /\ requests < MaxRequests
    /\ requests' = requests + 1
    /\ m # connMode
    /\ connMode' = m
    /\ IF status = "running"
       THEN Enqueue([kind |-> "hotSwitch", new |-> m, fallback |-> connMode])
       ELSE UNCHANGED <<queue, inFlight>>
    /\ UNCHANGED <<status, flagVars, op, managerVars, coreVars, crashes>>

\* resetCoreToStopped (logout, a revoked VPN, failed recovery): the status is
\* forced to stopped now, the stop of the core queues behind what is running.
ResetToStopped ==
    /\ requests < MaxRequests
    /\ requests' = requests + 1
    /\ status' = "stopped"
    /\ Enqueue(Plain("recoveryStop"))
    /\ UNCHANGED <<flagVars, connMode, op, managerVars, coreVars, crashes>>

Dequeue(k) ==
    /\ op = Idle
    /\ queue # <<>>
    /\ Head(queue).kind = k
    /\ queue' = Tail(queue)

Finish ==
    /\ op' = Idle
    /\ inFlight' = inFlight - 1

-----------------------------------------------------------------------------
(***************************************************************************)
(* Entering the two halves.                                                *)
(***************************************************************************)
\* Mutation: only the flag in memory is cleared.
EnterStart_StaleFlag(o) ==
    /\ op' = [o EXCEPT !.pc = "startFlush", !.mode = NoMode]
    /\ userStopped' = FALSE
    /\ UNCHANGED manualStopped

EnterStart(o) ==
    /\ op' = [o EXCEPT !.pc = "startFlush", !.mode = NoMode]
    /\ userStopped' = FALSE
    /\ manualStopped' = FALSE

\* The mode being torn down should be _activeConnectionMode, but that field
\* belongs to the CoreLifecycleManager instance of the start: here it is null
\* and the persisted mode stands in for it.
EnterTeardown(o) ==
    /\ op' = [o EXCEPT !.pc = "teardown",
                       !.wasTun = IsDesktopTun(connMode)]
    /\ status' = "stopping"

EnterUserStop(o) ==
    /\ op' = [o EXCEPT !.pc = "stopFlush"]
    /\ userStopped' = TRUE
    /\ manualStopped' = TRUE

BeginStart ==
    /\ Dequeue("start")
    /\ EnterStart(Opened(Head(queue)))
    /\ UNCHANGED <<status, manualDisk, connMode, inFlight, managerVars,
                   coreVars, requests, crashes>>

BeginStop ==
    /\ Dequeue("stop")
    /\ EnterUserStop(Opened(Head(queue)))
    /\ UNCHANGED <<status, manualDisk, connMode, inFlight, managerVars,
                   coreVars, requests, crashes>>

\* toggle: a transitional status does nothing
BeginToggle ==
    /\ Dequeue("toggle")
    /\ \/ /\ status \in Connected
          /\ EnterUserStop(Opened(Head(queue)))
          /\ UNCHANGED inFlight
       \/ /\ status = "stopped"
          /\ EnterStart(Opened(Head(queue)))
          /\ UNCHANGED inFlight
       \/ /\ status \notin Connected \cup {"stopped"}
          /\ Finish
          /\ UNCHANGED <<userStopped, manualStopped>>
    /\ UNCHANGED <<status, manualDisk, connMode, managerVars, coreVars,
                   requests, crashes>>

StopLanded == userStopped \/ manualStopped

NeedsTeardown == running \/ status \in Connected \cup {"starting"}

\* Mutation: the guard against a stop that landed meanwhile is gone.
EnterRestart_Blind(o) ==
    /\ IF NeedsTeardown
       THEN EnterTeardown(o) /\ UNCHANGED <<userStopped, manualStopped>>
       ELSE EnterStart(o) /\ UNCHANGED status
    /\ UNCHANGED <<connMode, inFlight>>

\* _restartUnlocked past its guard: stop half (not user-initiated) or start.
EnterRestart(o) ==
    /\ ~StopLanded
    /\ IF NeedsTeardown
       THEN EnterTeardown(o) /\ UNCHANGED <<userStopped, manualStopped>>
       ELSE EnterStart(o) /\ UNCHANGED status
    /\ UNCHANGED <<connMode, inFlight>>

BeginRestart ==
    /\ Dequeue("restart")
    /\ \/ EnterRestart(Opened(Head(queue)))
       \/ /\ StopLanded
          /\ Finish
          /\ UNCHANGED <<status, userStopped, manualStopped, connMode>>
    /\ UNCHANGED <<manualDisk, managerVars, coreVars, requests, crashes>>

BeginHotSwitch ==
    /\ Dequeue("hotSwitch")
    /\ IF running
       THEN /\ op' = [Opened(Head(queue)) EXCEPT
                        !.pc = IF Desktop THEN "hotCheck" ELSE "patch"]
            /\ UNCHANGED inFlight
       ELSE Finish
    /\ UNCHANGED <<status, flagVars, connMode, managerVars, coreVars,
                   requests, crashes>>

\* stopCoreForRecovery: CoreManager.stop and nothing else
BeginRecoveryStop ==
    /\ Dequeue("recoveryStop")
    /\ IF running
       THEN /\ running' = FALSE
            /\ op' = [Opened(Head(queue)) EXCEPT !.pc = "kill"]
            /\ UNCHANGED inFlight
       ELSE Finish /\ UNCHANGED running
    /\ UNCHANGED <<status, flagVars, connMode, startInFlight, serviceActive,
                   coreVars, requests, crashes>>

-----------------------------------------------------------------------------
(***************************************************************************)
(* Hot switch.                                                             *)
(***************************************************************************)
\* A hot switch that returns false makes its caller put the old mode back.
GiveUpSwitch ==
    /\ Finish
    /\ connMode' = op.fallback

\* Mutation: a failed roll-back rolls back again.
StartReturnsFalse_Endless ==
    IF op.kind = "hotSwitch" /\ op.fallback # op.new
    THEN /\ connMode' = op.fallback
         /\ EnterStart([op EXCEPT !.rolledBack = TRUE])
         /\ UNCHANGED inFlight
    ELSE /\ IF op.kind = "hotSwitch" THEN GiveUpSwitch
                                     ELSE Finish /\ UNCHANGED connMode
         /\ UNCHANGED <<userStopped, manualStopped>>

\* A start half that returned false: a hot switch rolls back once to its
\* fallback mode and starts again; anything else is over.
StartReturnsFalse ==
    IF op.kind = "hotSwitch" /\ ~op.rolledBack /\ op.fallback # op.new
    THEN /\ connMode' = op.fallback
         /\ EnterStart([op EXCEPT !.rolledBack = TRUE])
         /\ UNCHANGED inFlight
    ELSE /\ IF op.kind = "hotSwitch" THEN GiveUpSwitch
                                     ELSE Finish /\ UNCHANGED connMode
         /\ UNCHANGED <<userStopped, manualStopped>>

\* helper missing, no active profile, or its config is gone
HotSwitchRefused ==
    /\ op.pc = "hotCheck"
    /\ GiveUpSwitch
    /\ UNCHANGED <<status, flagVars, queue, managerVars, coreVars, requests,
                   crashes>>

HotSwitchRestart ==
    /\ op.pc = "hotCheck"
    /\ op.new = "tun" => TRUE \in HelperInstalled
    /\ IF StopLanded THEN StartReturnsFalse /\ UNCHANGED status
                     ELSE EnterRestart(op)
    /\ UNCHANGED <<manualDisk, queue, managerVars, coreVars, requests, crashes>>

\* mobile: tun.enable is patched in place
MobilePatch ==
    /\ op.pc = "patch"
    /\ \/ Finish /\ UNCHANGED connMode
       \/ GiveUpSwitch
    /\ UNCHANGED <<status, flagVars, queue, managerVars, coreVars, requests,
                   crashes>>

-----------------------------------------------------------------------------
(***************************************************************************)
(* The start half: _startUnlocked and CoreManager.start.                   *)
(***************************************************************************)
\* setManualStopped(false) is on disk; the mode of this start is captured.
StartFlush ==
    /\ op.pc = "startFlush"
    /\ manualDisk' = FALSE
    /\ status' = "starting"
    /\ op' = [op EXCEPT !.pc = "managerStart", !.mode = connMode]
    /\ UNCHANGED <<userStopped, manualStopped, connMode, queue, inFlight,
                   managerVars, coreVars, requests, crashes>>

\* Desktop TUN without the service helper installed.
PreflightFails ==
    /\ op.pc = "managerStart"
    /\ IsDesktopTun(op.mode) /\ FALSE \in HelperInstalled
    /\ status' = "stopped"
    /\ StartReturnsFalse
    /\ UNCHANGED <<manualDisk, queue, managerVars, coreVars, requests, crashes>>

\* CoreManager.start returns true at once when _running is set.
AlreadyRunning ==
    /\ op.pc = "managerStart"
    /\ IsDesktopTun(op.mode) => TRUE \in HelperInstalled
    /\ running
    /\ op' = [op EXCEPT !.pc = "post"]
    /\ UNCHANGED <<status, flagVars, connMode, queue, inFlight, managerVars,
                   coreVars, requests, crashes>>

\* The helper path is returned without await from inside try / finally, so
\* _startInFlight may be cleared before that path has finished.
ManagerStart ==
    /\ op.pc = "managerStart"
    /\ IsDesktopTun(op.mode) => TRUE \in HelperInstalled
    /\ ~running
    /\ startInFlight' \in {TRUE} \cup {~UsesHelper(op.mode)}
    /\ serviceActive' = (serviceActive /\ UsesHelper(op.mode))
    /\ op' = [op EXCEPT !.pc = "spawn"]
    /\ UNCHANGED <<status, flagVars, connMode, queue, inFlight, running,
                   coreVars, requests, crashes>>

\* startCore / startService succeeded.
Spawn ==
    /\ op.pc = "spawn"
    /\ running' = TRUE
    /\ IF UsesHelper(op.mode)
       THEN /\ helperCore' = "up" /\ serviceActive' = TRUE
            /\ survivor' = survivor \ {"helper"}
            /\ UNCHANGED appCore
       ELSE /\ appCore' = TRUE
            /\ survivor' = survivor \ {"app"}
            /\ UNCHANGED <<helperCore, serviceActive>>
    /\ op' = [op EXCEPT !.pc = "waitApi"]
    /\ UNCHANGED <<status, flagVars, connMode, queue, inFlight, startInFlight,
                   requests, crashes>>

\* ServiceClient.stop: the child is gone, or the request never arrived.
AskHelperToStop ==
    \/ helperCore' = "off" /\ survivor' = survivor \ {"helper"}
    \/ /\ helperCore # "off"
       /\ survivor' = survivor \cup {"helper"}
       /\ UNCHANGED helperCore

\* CoreManager.start fails: its catch blocks undo what was set up, and
\* _startUnlocked reports the status stopped.
StartFails ==
    /\ running' = FALSE /\ startInFlight' = FALSE /\ serviceActive' = FALSE
    /\ status' = "stopped"
    /\ StartReturnsFalse
    /\ UNCHANGED <<manualDisk, queue, requests, crashes>>

\* A step before startCore / startService failed, or those two did.
SpawnFails ==
    /\ op.pc = "spawn"
    /\ IF UsesHelper(op.mode) /\ serviceActive
       THEN AskHelperToStop /\ UNCHANGED appCore
       ELSE UNCHANGED coreVars
    /\ StartFails

\* The helper spawned its child and the reply was lost: _running and
\* _serviceModeActive were never set, so no clean-up stops the child.
SpawnReplyLost ==
    /\ op.pc = "spawn"
    /\ UsesHelper(op.mode) /\ ~serviceActive
    /\ helperCore' = "up" /\ survivor' = survivor \cup {"helper"}
    /\ UNCHANGED appCore
    /\ StartFails

\* waitApi, waitProxies and verify passed.
ApiReady ==
    /\ op.pc = "waitApi"
    /\ CoreUp(op.mode)
    /\ startInFlight' = FALSE
    /\ op' = [op EXCEPT !.pc = "post"]
    /\ UNCHANGED <<status, flagVars, connMode, queue, inFlight, running,
                   serviceActive, coreVars, requests, crashes>>

\* Mutation: a start whose API never answers leaves its core running.
ApiFails_NoCleanup ==
    /\ op.pc = "waitApi"
    /\ UNCHANGED coreVars
    /\ StartFails

\* One of them failed or ran into its ceiling.
ApiFails ==
    /\ op.pc = "waitApi"
    /\ IF serviceActive
       THEN AskHelperToStop /\ UNCHANGED appCore
       ELSE appCore' = FALSE /\ UNCHANGED <<helperCore, survivor>>
    /\ StartFails

\* _activeConnectionMode is recorded, proxies and DNS are applied, the TUN is
\* inspected, and the status says how it went.  A hot switch that had to roll
\* back still returns false to its caller.
StartPost ==
    /\ op.pc = "post"
    /\ status' \in {"running"} \cup
                   (IF IsDesktopTun(op.mode) THEN {"degraded"} ELSE {})
    /\ IF op.rolledBack THEN GiveUpSwitch ELSE Finish /\ UNCHANGED connMode
    /\ UNCHANGED <<flagVars, queue, managerVars, coreVars, requests, crashes>>

-----------------------------------------------------------------------------
(***************************************************************************)
(* The stop half: _stopUnlocked and CoreManager.stop.                      *)
(***************************************************************************)
\* Mutation: the teardown does not wait for the write of the stop intent.
StopFlush_Unawaited ==
    /\ op.pc = "stopFlush"
    /\ EnterTeardown(op)
    /\ UNCHANGED <<flagVars, connMode, queue, inFlight, managerVars, coreVars,
                   requests, crashes>>

\* The stop intent is on disk before anything is torn down.
StopFlush ==
    /\ op.pc = "stopFlush"
    /\ manualDisk' = TRUE
    /\ EnterTeardown(op)
    /\ UNCHANGED <<userStopped, manualStopped, connMode, queue, inFlight,
                   managerVars, coreVars, requests, crashes>>

\* Mutation: the finally block does not reset the status.
StopDone_NoStatus ==
    /\ UNCHANGED status
    /\ IF op.kind \in {"restart", "hotSwitch"}
       THEN /\ EnterStart(op)
            /\ UNCHANGED inFlight
       ELSE Finish /\ UNCHANGED <<userStopped, manualStopped>>

\* The finally block of _stopUnlocked; a restart goes on with its start.
StopDone ==
    /\ status' = "stopped"
    /\ IF op.kind \in {"restart", "hotSwitch"}
       THEN /\ EnterStart(op)
            /\ UNCHANGED inFlight
       ELSE Finish /\ UNCHANGED <<userStopped, manualStopped>>

\* CoreManager.stop with nothing running is a no-op.
TeardownNothing ==
    /\ op.pc = "teardown"
    /\ ~running
    /\ StopDone
    /\ UNCHANGED <<manualDisk, connMode, queue, managerVars, coreVars, requests,
                   crashes>>

\* Proxy and DNS are restored; _running is cleared before the core is touched.
Teardown ==
    /\ op.pc = "teardown"
    /\ running
    /\ running' = FALSE
    /\ op' = [op EXCEPT !.pc = "kill"]
    /\ UNCHANGED <<status, flagVars, connMode, queue, inFlight, startInFlight,
                   serviceActive, coreVars, requests, crashes>>

\* What follows CoreManager.stop: recovery touches nothing else.
AfterKill ==
    IF op.kind = "recoveryStop"
    THEN Finish /\ UNCHANGED <<status, userStopped, manualStopped>>
    ELSE StopDone

\* The helper's child or the core in the app is stopped.  A helper call that
\* throws is logged, and then _serviceModeActive stays set.
Kill ==
    /\ op.pc = "kill"
    /\ IF serviceActive
       THEN /\ AskHelperToStop
            /\ serviceActive' \in (IF helperCore' = "off" THEN BOOLEAN ELSE {TRUE})
            /\ UNCHANGED appCore
       ELSE /\ appCore' = FALSE
            /\ UNCHANGED <<helperCore, survivor, serviceActive>>
    /\ AfterKill
    /\ UNCHANGED <<manualDisk, connMode, queue, running, startInFlight,
                   requests, crashes>>

-----------------------------------------------------------------------------
(***************************************************************************)
(* The processes themselves.                                               *)
(***************************************************************************)
CoreCrash ==
    /\ crashes < MaxCrashes
    /\ crashes' = crashes + 1
    /\ \/ appCore /\ appCore' = FALSE /\ UNCHANGED helperCore
       \/ helperCore = "up" /\ helperCore' = "down" /\ UNCHANGED appCore
    /\ UNCHANGED <<status, flagVars, connMode, queue, op, inFlight, managerVars,
                   survivor, requests>>

\* The helper's watchdog starts a crashed child again.
WatchdogRevive ==
    /\ helperCore = "down"
    /\ helperCore' = "up"
    /\ UNCHANGED <<status, flagVars, connMode, queue, op, inFlight, managerVars,
                   appCore, survivor, requests, crashes>>

-----------------------------------------------------------------------------
(***************************************************************************)
(* Specifications.  Operations asked for through CoreActions and the mode  *)
(* pill come first; Spec adds the settings page and the recovery reset.    *)
(***************************************************************************)
Ask == \/ \E k \in {"start", "stop", "toggle", "restart"} : RequestOp(k)
       \/ \E m \in Modes : PickMode(m)

StartHalf == \/ StartFlush \/ PreflightFails \/ AlreadyRunning \/ ManagerStart
             \/ Spawn \/ SpawnFails \/ SpawnReplyLost
             \/ ApiReady \/ ApiFails \/ StartPost

StopHalf == StopFlush \/ TeardownNothing \/ Teardown \/ Kill

HotSwitchStep == HotSwitchRefused \/ HotSwitchRestart \/ MobilePatch

Begin == \/ BeginStart \/ BeginStop \/ BeginToggle \/ BeginRestart
         \/ BeginHotSwitch \/ BeginRecoveryStop

\* One step of the operation queue.
Execute == Begin \/ StartHalf \/ StopHalf \/ HotSwitchStep

AtRest == op = Idle /\ queue = <<>>

Processes == CoreCrash \/ WatchdogRevive

\* Waiting for the user is not a deadlock; an operation that cannot go on is.
AwaitUser == AtRest /\ UNCHANGED vars

QueueNext == Ask \/ Execute \/ Processes \/ AwaitUser
Next == QueueNext \/ (\E m \in Modes : PickModeInSettings(m)) \/ ResetToStopped

\* Every await in an operation has a time-out or ends by itself, so the queue
\* keeps moving; nothing obliges the user, a crash or the watchdog.
Spec == Init /\ [][Next]_vars /\ WF_vars(Execute)

-----------------------------------------------------------------------------
(***************************************************************************)
(* Properties.                                                             *)
(***************************************************************************)
\* isLifecycleBusy tells the truth: the counter is the number of operations
\* queued or executing, on every path an operation can leave by.
BusyIsExact == inFlight = Len(queue) + (IF op = Idle THEN 0 ELSE 1)

\* A disconnect by the user sticks: as long as the persisted stop flag is set
\* and no operation executes, the core is not running and the UI says stopped,
\* whatever restarts, hot switches and recovery stops were queued around it.
UserStopSticks ==
    manualStopped /\ op = Idle => ~running /\ status = "stopped"

\* The stop intent reaches the disk before the teardown it explains, so that a
\* process kill in the middle cannot lose it (_stopUnlocked).
StopIntentFirst ==
    op.kind \in {"stop", "toggle"} /\ op.pc \in {"teardown", "kill"}
        => manualDisk

\* Between operations the three copies of the stop flag agree; the resume path
\* relies on this when it hydrates one from another.
FlagsAgree == op = Idle => /\ userStopped = manualStopped
                           /\ manualStopped = manualDisk

\* The stop flag survives a kill of the app at any point: it is on disk before a
\* teardown, and the three copies agree again once the operation is over.
FlagIsKept == StopIntentFirst /\ FlagsAgree

\* Only Connect lifts a disconnect: no restart or hot switch queued behind it
\* clears the flag (_restartUnlocked's guard).
OnlyConnectLiftsStop ==
    [][manualStopped /\ ~manualStopped' => op'.kind \in {"start", "toggle"}]_vars

\* No core is left behind: with no operation executing and _running clear, a
\* process still up is one whose stop or start call was lost.
NoStrayCore ==
    op = Idle /\ ~running => /\ ~appCore
                             /\ helperCore # "off" => "helper" \in survivor

\* The core in the app and the helper's core are never both up, unless a lost
\* call left one behind: two of them would fight over routes and ports.
OneCore == ~(appCore /\ helperCore # "off" /\ survivor = {})

\* At rest the status is a stable one and says connected exactly when
\* CoreManager runs a core.
HonestStatus ==
    AtRest => /\ status \in Connected \cup {"stopped"}
              /\ status \in Connected <=> running

\* The queue never wedges: whatever fails, it ends up with nothing in flight.
BusyEnds == inFlight > 0 ~> inFlight = 0

-----------------------------------------------------------------------------
(***************************************************************************)
(* Refinement: the queue, the helper and the failures implement the promise*)
(* of UserIntent, a core being up when _running says so.                   *)
(***************************************************************************)
Intent == INSTANCE UserIntent WITH stop <- manualStopped, up <- running

\* No start, restart or hot switch brings a core up while a disconnect is in
\* force, and a disconnect always ends with the core down.
KeepsUserIntent == Intent!Spec
=============================================================================
