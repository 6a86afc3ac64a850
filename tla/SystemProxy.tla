----------------------------- MODULE SystemProxy -----------------------------
(***************************************************************************)
(* The OS proxy setting of a desktop (SystemProxyManager) and everything   *)
(* that writes it: the lifecycle's start and stop, the heartbeat's         *)
(* ProxyGuard, the tamper check of a resume, the clears of quit, repair    *)
(* and recovery, and the clean-up at the next cold start.                  *)
(*                                                                         *)
(* The setting is in the OS, the dirty flag in a file: neither is          *)
(* protected by the operation queue, only lifecycle operations are.  Each  *)
(* caller is a task here, and a task stops where its Dart code awaits an   *)
(* external command or the disk.  The port is the same throughout.         *)
(***************************************************************************)
EXTENDS Naturals

CONSTANTS
    Platform,      \* "macos", "windows" or "linux"
    Tasks,         \* the calls that may be in flight at the same time
    CommandsFail,  \* whether networksetup, reg, gsettings may fail
    MaxKills       \* bound: how often the app is killed

ASSUME PlatformAssumption == Platform \in {"macos", "windows", "linux"}
ASSUME FailAssumption     == CommandsFail \in BOOLEAN
ASSUME KillsAssumption    == MaxKills \in Nat

MaxAttempts == 3   \* of setWithRetry
MaxStrikes  == 3   \* restore failures before ProxyGuard gives up

\* "manual" is system proxy mode with "set system proxy on connect" off.
Modes == {"systemProxy", "manual", "tun"}

VARIABLES
    os,         \* the OS setting: "ours" (127.0.0.1:mixedPort), or "other" when
                \* it is off or another client's
    dirty,      \* systemProxyDirty in the settings cache
    dirtyDisk,  \* the same flag in settings.json
    verdict,    \* _verifyCached; "none" when there is none to serve
    status,     \* coreStatusProvider
    mode,       \* connectionModeProvider, systemProxyOnConnectProvider
    background, \* appInBackgroundProvider: the window has not the focus
    active,     \* the mode the last start captured
    strikes,    \* _proxyRestoreFailures of the heartbeat in charge
    task,       \* the calls in flight
    app,        \* "off", "boot" (cleanupIfDirty) or "up"
    kills,      \* bound counter for MaxKills
    slips       \* history: what befell the setting since it was last put
                \* right, see below

osVars   == <<os, slips>>
flagVars == <<dirty, dirtyDisk>>
connVars == <<status, active, strikes>>
uiVars   == <<mode, background>>
vars == <<osVars, flagVars, verdict, connVars, uiVars, task, app, kills>>

(***************************************************************************)
(* slips, while os is "ours": what happened to the calls around it.        *)
(*   "late"     a restore wrote it after the connection it was for ended   *)
(*   "kept"     a start failed, or the core was reset, while it stood      *)
(*   "failed"   the last command failed, and the setting stands all the    *)
(*              same: a set that applied in part, a clear that did not     *)
(*   "overlap"  it was written while a clear, its commands done, was under *)
(*              way                                                        *)
(*   "died"     the app was killed inside a set                            *)
(***************************************************************************)
Slips == {"late", "kept", "failed", "overlap", "died"}

LifecycleKinds == {"start", "stop", "restart"}
Kinds == LifecycleKinds \cup {"guard", "tamper", "clear", "boot"}
Pcs == {"begin", "bringUp", "kill", "health", "look", "seen", "write", "mark",
        "flush", "erase", "unmark"}
SetPcs == {"write", "mark", "flush"}   \* inside set
Verdicts == {"ok", "no"}               \* "ok": a yes, or an unknown (null)

Idle == [kind |-> "idle", pc |-> "idle", tries |-> 0, live |-> FALSE,
         seen |-> "ok"]
At(k, p) == [kind |-> k, pc |-> p, tries |-> 1, live |-> TRUE,
             seen |-> "ok"]
Task == [kind : Kinds \cup {"idle"}, pc : Pcs \cup {"idle"}, tries : Nat,
         live : BOOLEAN, seen : Verdicts]

TypeOK ==
    /\ os \in {"ours", "other"}
    /\ dirty \in BOOLEAN /\ dirtyDisk \in BOOLEAN
    /\ verdict \in Verdicts \cup {"none"}
    /\ status \in {"stopped", "starting", "running", "stopping"}
    /\ mode \in Modes /\ active \in Modes /\ background \in BOOLEAN
    /\ strikes \in 0..(MaxStrikes - 1)
    /\ task \in [Tasks -> Task]
    /\ app \in {"off", "boot", "up"}
    /\ kills \in Nat
    /\ slips \in SUBSET Slips

Init ==
    /\ os = "other"
    /\ dirty = FALSE /\ dirtyDisk = FALSE
    /\ verdict = "none"
    /\ status = "stopped" /\ strikes = 0
    /\ mode \in Modes /\ active = mode /\ background = FALSE
    /\ task = [t \in Tasks |-> Idle]
    /\ app = "up" /\ kills = 0
    /\ slips = {}

\* What is left to excuse once the setting has its new value.
Slip(o, ss) == slips' = IF o = "ours" THEN ss ELSE {}

-----------------------------------------------------------------------------
(***************************************************************************)
(* Tasks.  A heartbeat lives while the status is running.  A tick still    *)
(* under way when it is disposed of goes on up to its next use of the Ref, *)
(* and its counters are nobody's any more.                                 *)
(***************************************************************************)
Disposed(tk) == [t \in Tasks |-> IF tk[t].kind = "guard"
                                 THEN [tk[t] EXCEPT !.live = FALSE] ELSE tk[t]]

Goto(t, p) == task' = [task EXCEPT ![t].pc = p]
Done(t) == task' = [task EXCEPT ![t] = Idle]

\* The status leaves running: the heartbeat provider is rebuilt without one.
Leave(s, tk) ==
    /\ status' = s
    /\ strikes' = 0
    /\ task' = Disposed(tk)

Launch(t, k, p) ==
    /\ app = "up"
    /\ task[t] = Idle
    /\ task' = [task EXCEPT ![t] = At(k, p)]

\* _runExclusive: one lifecycle operation at a time.
NoOperation == \A t \in Tasks : task[t].kind \notin LifecycleKinds

Stands(t, p) == task[t].pc = p

-----------------------------------------------------------------------------
(***************************************************************************)
(* SystemProxyManager.set and what its callers do with the result.         *)
(***************************************************************************)
\* ProxyGuard gives up after three failures in a row and resets without
\* touching the setting; a tick nobody waits for counts for nothing.
GuardFailed(t) ==
    IF ~task[t].live \/ strikes + 1 < MaxStrikes
    THEN /\ strikes' = IF task[t].live THEN strikes + 1 ELSE strikes
         /\ Done(t)
         /\ UNCHANGED status
    ELSE Leave("stopped", [task EXCEPT ![t] = Idle])

SetFailed(t) ==
    \/ /\ task[t].kind = "start"
       /\ status' = "running"
       /\ Done(t) /\ UNCHANGED strikes
    \/ /\ task[t].kind = "guard"
       /\ GuardFailed(t)
    \/ /\ task[t].kind = "tamper"
       /\ IF task[t].tries < MaxAttempts
          THEN task' = [task EXCEPT ![t].tries = @ + 1]
          ELSE Done(t)
       /\ UNCHANGED <<status, strikes>>

SetSucceeded(t) ==
    /\ Done(t)
    /\ status' = IF task[t].kind = "start" THEN "running" ELSE status
    /\ strikes' = IF task[t].kind = "guard" /\ task[t].live THEN 0 ELSE strikes

\* A set belongs to a connection in system proxy mode.
Wanted(t) == \/ task[t].kind = "start"
             \/ status = "running" /\ active = "systemProxy"

Late(t) == IF Wanted(t) THEN {} ELSE {"late"}

\* A set that succeeds for its connection leaves nothing else to excuse.
AfterSet(t) ==
    (IF Wanted(t) THEN {} ELSE slips)
    \cup Late(t)
    \cup {s \in {"overlap"} : \E u \in Tasks : Stands(u, "unmark")}

\* The commands ran and, on macOS, the setting was verified.  On Linux the
\* results of those that set host and port are not looked at.
WriteOk(t) ==
    /\ Stands(t, "write")
    /\ \/ os' = "ours"
       \/ CommandsFail /\ Platform = "linux" /\ UNCHANGED os
    /\ Slip(os', AfterSet(t))
    /\ Goto(t, "mark")
    /\ UNCHANGED <<flagVars, verdict, connVars, uiVars, app, kills>>

\* Some command failed or timed out, which does not mean that none applied.
WriteFails(t) ==
    /\ Stands(t, "write")
    /\ CommandsFail
    /\ os' \in {os, "ours"}
    /\ verdict' = "none"
    /\ SetFailed(t)
    /\ Slip(os', slips \cup Late(t)
                 \cup {s \in {"failed"} : os # "ours"}
                 \cup {s \in {"kept"} : status # "stopped" /\ status' = "stopped"})
    /\ UNCHANGED <<flagVars, active, uiVars, app, kills>>

\* set returns to the event loop: cache dropped, flag set, flush requested.
Mark(t) ==
    /\ Stands(t, "mark")
    /\ verdict' = "none"
    /\ dirty' = TRUE
    /\ Goto(t, "flush")
    /\ UNCHANGED <<osVars, dirtyDisk, connVars, uiVars, app, kills>>

\* Mutation: the flag waits for the debounced flush, as a clear's does.
FlushMark_Debounced(t) ==
    /\ Stands(t, "flush")
    /\ SetSucceeded(t)
    /\ UNCHANGED <<osVars, flagVars, verdict, active, uiVars, app, kills>>

\* setImmediate: what the cache holds by now is on disk.
FlushMark(t) ==
    /\ Stands(t, "flush")
    /\ dirtyDisk' = dirty
    /\ SetSucceeded(t)
    /\ UNCHANGED <<osVars, dirty, verdict, active, uiVars, app, kills>>

\* The debounced flush, or one another setting asked for.
LazyFlush ==
    /\ app # "off" /\ dirtyDisk # dirty
    /\ dirtyDisk' = dirty
    /\ UNCHANGED <<osVars, dirty, verdict, connVars, uiVars, task, app, kills>>

-----------------------------------------------------------------------------
(***************************************************************************)
(* SystemProxyManager.clear.                                               *)
(***************************************************************************)
\* The setting goes off, whoever it points to.
Erase(t) ==
    /\ Stands(t, "erase")
    /\ os' \in {"other"} \cup (IF CommandsFail THEN {os} ELSE {})
    /\ Slip(os', slips \cup {"failed"})
    /\ Goto(t, "unmark")
    /\ UNCHANGED <<flagVars, verdict, connVars, uiVars, app, kills>>

\* What the callers of clear do next.
Cleared(t) ==
    \/ /\ task[t].kind = "start"
       /\ status' = "running"
       /\ Done(t) /\ UNCHANGED app
    \/ /\ task[t].kind \in {"stop", "restart"}
       /\ Goto(t, "kill")
       /\ UNCHANGED <<status, app>>
    \/ /\ task[t].kind \in {"clear", "boot"}
       /\ Done(t)
       /\ app' = "up"
       /\ UNCHANGED status

\* The finally block: cache dropped, flag reset whether it worked or not.
Unmark(t) ==
    /\ Stands(t, "unmark")
    /\ verdict' = "none"
    /\ dirty' = FALSE
    /\ Cleared(t)
    /\ UNCHANGED <<osVars, dirtyDisk, strikes, active, uiVars, kills>>

-----------------------------------------------------------------------------
(***************************************************************************)
(* The lifecycle: _startUnlocked, _stopUnlocked, _restartUnlocked.         *)
(***************************************************************************)
BeginStart(t) ==
    /\ NoOperation
    /\ Launch(t, "start", "begin")
    /\ UNCHANGED <<osVars, flagVars, verdict, connVars, uiVars, app, kills>>

\* The mode is captured once, at the top.  A start on top of a running core
\* leaves that core alone.
EnterStart(t) ==
    /\ Stands(t, "begin")
    /\ active' = mode
    /\ Leave("starting", [task EXCEPT ![t].pc = "bringUp",
                                     ![t].live = (status # "running")])
    /\ UNCHANGED <<osVars, flagVars, verdict, uiVars, app, kills>>

\* The core is up: the setting is written, or cleared for TUN.
CoreComesUp(t) ==
    /\ Stands(t, "bringUp")
    /\ \/ active = "systemProxy" /\ Goto(t, "write") /\ UNCHANGED status
       \/ active = "tun" /\ Goto(t, "erase") /\ UNCHANGED status
       \/ active = "manual" /\ Done(t) /\ status' = "running"
    /\ UNCHANGED <<osVars, flagVars, verdict, active, strikes, uiVars, app, kills>>

\* With a core running only the pre-flight of TUN can fail.
CoreFails(t) ==
    /\ Stands(t, "bringUp")
    /\ task[t].live \/ active = "tun"
    /\ status' = "stopped"
    /\ Slip(os, slips \cup {"kept"})
    /\ Done(t)
    /\ UNCHANGED <<os, flagVars, verdict, active, strikes, uiVars, app, kills>>

\* Mutation: the setting is cleared only if the mode picked by now asks for it.
BeginStop_ByMode(t) ==
    /\ NoOperation
    /\ app = "up" /\ task[t] = Idle
    /\ \E k \in {"stop"} \cup (IF status = "running" THEN {"restart"} ELSE {}) :
           Leave("stopping",
                 [task EXCEPT ![t] = At(k, IF mode = "systemProxy" THEN "erase"
                                                                  ELSE "kill")])
    /\ UNCHANGED <<osVars, flagVars, verdict, active, uiVars, app, kills>>

\* A disconnect, or the stop half of a restart or of a mode switch: the
\* setting is always cleared.
BeginStop(t) ==
    /\ NoOperation
    /\ app = "up" /\ task[t] = Idle
    /\ \E k \in {"stop"} \cup (IF status = "running" THEN {"restart"} ELSE {}) :
           Leave("stopping", [task EXCEPT ![t] = At(k, "erase")])
    /\ UNCHANGED <<osVars, flagVars, verdict, active, uiVars, app, kills>>

\* The core is stopped; a restart goes on with its start half.
KillCore(t) ==
    /\ Stands(t, "kill")
    /\ status' = "stopped"
    /\ task' = [task EXCEPT ![t] = IF @.kind = "restart" THEN At("start", "begin")
                                                         ELSE Idle]
    /\ UNCHANGED <<osVars, flagVars, verdict, active, strikes, uiVars, app, kills>>

\* The user picks another mode; what follows is a restart.
SwitchMode(m) ==
    /\ app = "up" /\ m # mode
    /\ mode' = m
    /\ UNCHANGED <<osVars, flagVars, verdict, connVars, background, task, app,
                   kills>>

\* resetCoreToStopped: the status at once, the clear on its own, and on Linux
\* not at all.
ResetToStopped(t) ==
    IF Platform = "linux"
    THEN /\ Leave("stopped", [task EXCEPT ![t] = Idle])
         /\ Slip(os, slips \cup {"kept"})
    ELSE /\ Leave("stopped", [task EXCEPT ![t] = At("clear", "erase")])
         /\ UNCHANGED slips

-----------------------------------------------------------------------------
(***************************************************************************)
(* verify, ProxyGuard and the tamper check.                                *)
(***************************************************************************)
\* What verify reads: a command that fails or times out reads as "no", a
\* Linux desktop without gsettings as unknown.
Reading == {IF os = "ours" THEN "ok" ELSE "no"}
           \cup (IF CommandsFail THEN {"no"} ELSE {})
           \cup (IF Platform = "linux" THEN {"ok"} ELSE {})

\* The verdict is in: only a definite no is acted upon.
Judge(t, v) ==
    IF v = "no"
    THEN /\ task' = [task EXCEPT ![t].pc = "write", ![t].seen = "ok"]
         /\ UNCHANGED strikes
    ELSE /\ Done(t)
         /\ strikes' = IF task[t].kind = "guard" /\ task[t].live THEN 0 ELSE strikes

\* A tick of the heartbeat, a resume: both ask the core first.
Ask(t) ==
    /\ status = "running"
    /\ \/ /\ \A u \in Tasks : ~(task[u].kind = "guard" /\ task[u].live)
          /\ Launch(t, "guard", "health")
       \/ ~background /\ Launch(t, "tamper", "health")
    /\ UNCHANGED <<osVars, flagVars, verdict, connVars, uiVars, app, kills>>

\* The core answered.  ProxyGuard only acts with the window in the foreground.
\* In another mode there is nothing to guard; the guard takes a cached
\* verdict, the resume forces a look.
CoreAnswers(t) ==
    /\ Stands(t, "health") /\ task[t].live
    /\ \/ /\ task[t].kind = "guard" /\ background
          /\ Done(t) /\ UNCHANGED strikes
       \/ /\ task[t].kind = "tamper" \/ ~background
          /\ \/ mode # "systemProxy" /\ Judge(t, "ok")
             \/ /\ mode = "systemProxy" /\ task[t].kind = "guard"
                /\ verdict # "none" /\ Judge(t, verdict)
             \/ /\ mode = "systemProxy"
                /\ task[t].kind = "tamper" \/ verdict = "none"
                /\ Goto(t, "look") /\ UNCHANGED strikes
    /\ UNCHANGED <<osVars, flagVars, verdict, status, active, uiVars, app, kills>>

\* It did not: the tick only counts that, the resume resets.  A tick whose
\* heartbeat is disposed of ends here in any case, its Ref being invalid.
CoreSilent(t) ==
    /\ Stands(t, "health")
    /\ IF task[t].kind = "tamper"
       THEN ResetToStopped(t)
       ELSE Done(t) /\ UNCHANGED <<status, strikes, slips>>
    /\ UNCHANGED <<os, flagVars, verdict, active, uiVars, app, kills>>

Look(t) ==
    /\ Stands(t, "look")
    /\ \E v \in Reading :
           task' = [task EXCEPT ![t].pc = "seen", ![t].seen = v]
    /\ UNCHANGED <<osVars, flagVars, verdict, connVars, uiVars, app, kills>>

Seen(t) ==
    /\ Stands(t, "seen")
    /\ verdict' = task[t].seen
    /\ Judge(t, task[t].seen)
    /\ UNCHANGED <<osVars, flagVars, status, active, uiVars, app, kills>>

\* The window gains or loses the focus: the heartbeat provider of a running
\* core is rebuilt.  (A desktop reports no change of transport.)
Rebuild ==
    /\ app = "up"
    /\ background' = ~background
    /\ IF status = "running" THEN Leave("running", task)
                             ELSE UNCHANGED <<status, strikes, task>>
    /\ UNCHANGED <<osVars, flagVars, verdict, active, mode, app, kills>>

\* Mutation: the verdict has no time to live.
Expire_Never == UNCHANGED vars

\* _verifyCacheTtl is over.
Expire ==
    /\ verdict # "none"
    /\ verdict' = "none"
    /\ UNCHANGED <<osVars, flagVars, connVars, uiVars, task, app, kills>>

-----------------------------------------------------------------------------
(***************************************************************************)
(* Recovery, quit, repair, other programs, the process.                    *)
(***************************************************************************)
\* The heartbeat gives up, the user logs out.
Reset(t) ==
    /\ app = "up" /\ task[t] = Idle
    /\ ResetToStopped(t)
    /\ UNCHANGED <<os, flagVars, verdict, active, uiVars, app, kills>>

\* The clear of quit, of a signal, of one-click repair.
Clear(t) ==
    /\ Launch(t, "clear", "erase")
    /\ UNCHANGED <<osVars, flagVars, verdict, connVars, uiVars, app, kills>>

\* Another proxy client takes the setting, or the user turns it off.
Stolen ==
    /\ os = "ours"
    /\ os' = "other" /\ slips' = {}
    /\ UNCHANGED <<flagVars, verdict, connVars, uiVars, task, app, kills>>

\* What commands that outlive the app may still do.
Orphans == {os} \cup {w \in {"ours", "other"} : \E t \in Tasks :
                          task[t].pc = IF w = "ours" THEN "write" ELSE "erase"}

\* Exit, kill or power loss, at any point.
Kill ==
    /\ app # "off" /\ kills < MaxKills
    /\ kills' = kills + 1
    /\ app' = "off"
    /\ task' = [t \in Tasks |-> Idle]
    /\ status' = "stopped" /\ strikes' = 0
    /\ verdict' = "none"
    /\ dirty' = dirtyDisk
    /\ os' \in Orphans
    /\ background' = FALSE
    /\ Slip(os', slips \cup {s \in {"died"} :
                               \E t \in Tasks : task[t].pc \in SetPcs})
    /\ UNCHANGED <<dirtyDisk, active, mode>>

\* cleanupIfDirty, before the UI is up.
ColdStart(t) ==
    /\ app = "off"
    /\ IF dirty
       THEN /\ app' = "boot"
            /\ task' = [task EXCEPT ![t] = At("boot", "erase")]
       ELSE app' = "up" /\ UNCHANGED task
    /\ UNCHANGED <<osVars, flagVars, verdict, connVars, uiVars, kills>>

-----------------------------------------------------------------------------
SetStep(t)   == WriteOk(t) \/ WriteFails(t) \/ Mark(t) \/ FlushMark(t)
ClearStep(t) == Erase(t) \/ Unmark(t)
LifecycleStep(t) == EnterStart(t) \/ CoreComesUp(t) \/ CoreFails(t) \/ KillCore(t)
CheckStep(t) == CoreAnswers(t) \/ CoreSilent(t) \/ Look(t) \/ Seen(t)

Step(t) == SetStep(t) \/ ClearStep(t) \/ LifecycleStep(t) \/ CheckStep(t)
Call(t) == BeginStart(t) \/ BeginStop(t) \/ Ask(t) \/ Reset(t) \/ Clear(t)
           \/ ColdStart(t)

Next == \/ \E t \in Tasks : Step(t) \/ Call(t)
        \/ \E m \in Modes : SwitchMode(m)
        \/ LazyFlush \/ Rebuild \/ Expire \/ Stolen \/ Kill

SafeSpec == Init /\ [][Next]_vars

\* Every command has a time-out, so a task goes on; the heartbeat ticks, its
\* core answers again and again, and verdicts expire.
Fairness == /\ \A t \in Tasks : WF_vars(Step(t))
            /\ \A t \in Tasks : SF_vars(task[t].kind = "guard" /\ CoreAnswers(t))
            /\ SF_vars(\E t \in Tasks : Ask(t) /\ task'[t].kind = "guard")
            /\ SF_vars(Expire)
Spec == SafeSpec /\ Fairness

-----------------------------------------------------------------------------
(***************************************************************************)
(* Properties.                                                             *)
(***************************************************************************)
Quiet == app = "up" /\ \A t \in Tasks : task[t] = Idle

\* What may leave the setting ours without the flag that says so.
Lost == {"failed", "overlap", "died"}

\* A setting that points at us is on the books of the next cold start, which
\* reads the flag from disk, or a set is about to see to it.  This holds
\* wherever the app is killed, but for commands that failed, for a set that
\* landed inside a clear and for a kill inside a set.
Accounted ==
    os = "ours" /\ slips \cap Lost = {}
        => dirtyDisk \/ \E t \in Tasks : task[t].pc \in {"mark", "flush"}

\* The flag on disk is never behind by more than a flush under way.
FlagOnDisk == dirty /\ ~dirtyDisk => \E t \in Tasks : task[t].pc = "flush"

\* At rest without a connection, after a disconnect as after a cold start, the
\* OS does not route into a dead port, except for the reasons slips names.
StoppedIsClean ==
    Quiet /\ status = "stopped" /\ os = "ours" => slips # {}

\* TUN and the system proxy do not fight: with TUN up and nothing in flight
\* the setting is not ours.
TunIsAlone ==
    Quiet /\ status = "running" /\ active = "tun" /\ os = "ours"
        => slips \cap {"late", "failed", "overlap"} # {}

\* The tamper check runs for a connection in system proxy mode only.
NothingRestoredLate == Quiet /\ status = "stopped" => "late" \notin slips

\* If the app dies with the setting at us, the next cold start takes it back:
\* what the comment on the dirty flag promises.
ColdStartWillClear == app = "off" /\ os = "ours" => dirty

\* While the window has the focus, a stolen setting is taken back, or the
\* connection is given up.
Restored ==
    status = "running" /\ mode = "systemProxy" /\ os # "ours" /\ ~background
        ~> os = "ours" \/ status # "running" \/ mode # "systemProxy" \/ background
=============================================================================
