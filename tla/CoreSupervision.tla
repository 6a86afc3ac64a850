--------------------------- MODULE CoreSupervision ---------------------------
(***************************************************************************)
(* What watches the core besides the user: the heartbeat, the resume       *)
(* handler with its check of desktop TUN, the sequence after launch and    *)
(* the relaunch of the app around a core that outlived it.  All of them    *)
(* read the state CoreLifecycle keeps, wait for an answer, and then write  *)
(* that state or queue operations of their own.                            *)
(*                                                                         *)
(* A reply of the REST API is judged in the step that handles it.          *)
(***************************************************************************)
EXTENDS CoreLifecycle

CONSTANTS
    FailureThreshold,  \* CoreHeartbeatManager.failureThreshold (3 in the code)
    MaxEvents          \* bound: resumes, background or network flips, relaunches

ASSUME SupervisionAssumption ==
    FailureThreshold \in Nat \ {0} /\ MaxEvents \in Nat

VARIABLES
    beat,        \* the live CoreHeartbeatManager: its tick and its counts
    recovering,  \* recoveryInProgressProvider
    resume,      \* AppResumeController.run in flight: where it is, who called it
    tunCheck,    \* _desktopTunResumeCheck in flight
    boot,        \* the post-frame callback of main.dart
    events       \* bound counter for MaxEvents

watchVars == <<beat, recovering, resume, tunCheck, boot>>
svars == <<vars, watchVars, events>>

NoBeat    == [pc |-> "off", failures |-> 0, retried |-> FALSE]
FreshBeat == [NoBeat EXCEPT !.pc = "idle"]
NoResume  == [pc |-> "idle", by |-> "app"]

BeatPcs   == {"off", "idle", "ask", "config", "restart"}
ResumePcs == {"idle", "health", "promote", "check"}
TunPcs    == {"idle", "inspect", "config", "restart", "settle"}
BootPcs   == {"init", "resume", "auto", "config", "connect", "done"}

SupervisionTypeOK ==
    /\ TypeOK
    /\ beat \in [pc : BeatPcs, failures : 0 .. FailureThreshold - 1,
                 retried : BOOLEAN]
    /\ recovering \in BOOLEAN
    /\ resume \in [pc : ResumePcs, by : {"app", "boot"}]
    /\ tunCheck \in TunPcs
    /\ boot \in BootPcs
    /\ events \in 0 .. MaxEvents

SupervisedInit ==
    /\ Init
    /\ beat = NoBeat /\ recovering = FALSE
    /\ resume = NoResume /\ tunCheck = "idle"
    /\ boot = "init" /\ events = 0

\* Mutation: the status is read when the provider is built, not watched.
Beating_ReadOnce(b) == IF status' # "running" THEN NoBeat ELSE b

\* coreHeartbeatProvider watches the status: leaving running disposes of the
\* manager, and what a disposed one still has in flight changes nothing;
\* entering running builds a new one.
Beating(b) == IF status' # "running" THEN NoBeat
              ELSE IF status = "running" THEN b ELSE FreshBeat

\* Any process the REST API may answer from is up.
AnyCore == appCore \/ helperCore = "up"

\* isAliveForMode over isCoreActuallyRunning: what a health check may report.
FfiRunning == IF serviceActive THEN running ELSE appCore
MayBeAlive == AnyCore /\ (IsDesktopTun(connMode) \/ ~Desktop \/ FfiRunning)

\* A restart queued or executing: the future a watcher awaits is not done.
RestartPending == \/ op.kind = "restart"
                  \/ \E i \in 1 .. Len(queue) : queue[i].kind = "restart"

\* The operations a watcher queues touch the queue and nothing else.
WatcherEnqueues(k) ==
    /\ Enqueue(Plain(k))
    /\ UNCHANGED <<flagVars, connMode, op, managerVars, coreVars, requests,
                   crashes>>

\* resetCoreToStopped
WatcherResets ==
    /\ status' = "stopped"
    /\ WatcherEnqueues("recoveryStop")

WatcherSets(s) ==
    /\ status' = s
    /\ UNCHANGED <<flagVars, connMode, queue, op, inFlight, managerVars,
                   coreVars, requests, crashes>>

-----------------------------------------------------------------------------
(***************************************************************************)
(* The heartbeat.                                                          *)
(***************************************************************************)
Tick ==
    /\ beat.pc = "idle"
    /\ ~recovering
    /\ beat' = [beat EXCEPT !.pc = "ask"]
    /\ UNCHANGED <<vars, recovering, resume, tunCheck, boot, events>>

BeatAlive ==
    /\ beat.pc = "ask"
    /\ MayBeAlive
    /\ beat' = FreshBeat
    /\ UNCHANGED <<vars, recovering, resume, tunCheck, boot, events>>

\* Below the threshold a failure is only counted; at the threshold the first
\* outage asks for a restart, the second gives up.
BeatFails ==
    /\ beat.pc = "ask"
    /\ LET n == beat.failures + 1 IN
       \/ /\ n < FailureThreshold
          /\ beat' = [beat EXCEPT !.pc = "idle", !.failures = n]
          /\ UNCHANGED vars
       \/ /\ n = FailureThreshold /\ ~beat.retried
          /\ beat' = [pc |-> "config", failures |-> 0, retried |-> TRUE]
          /\ UNCHANGED vars
       \/ /\ n = FailureThreshold /\ beat.retried
          /\ WatcherResets
          /\ beat' = Beating(beat)
    /\ UNCHANGED <<recovering, resume, tunCheck, boot, events>>

\* The silent restart, or nothing when there is no profile to restart with.
SilentRestart ==
    /\ beat.pc = "config"
    /\ \/ /\ WatcherEnqueues("restart")
          /\ beat' = [beat EXCEPT !.pc = "restart"]
          /\ UNCHANGED status
       \/ /\ beat' = [beat EXCEPT !.pc = "idle"]
          /\ UNCHANGED vars
    /\ UNCHANGED <<recovering, resume, tunCheck, boot, events>>

\* The restart was refused, so the status never left running.
SilentRestartReturns ==
    /\ beat.pc = "restart"
    /\ ~RestartPending
    /\ beat' = [beat EXCEPT !.pc = "idle"]
    /\ UNCHANGED <<vars, recovering, resume, tunCheck, boot, events>>

\* The app goes to the background or back, or the network changes: the
\* provider is built again and its counts are gone.
Rebuild ==
    /\ events < MaxEvents
    /\ events' = events + 1
    /\ beat.pc # "off"
    /\ beat' = FreshBeat
    /\ UNCHANGED <<vars, recovering, resume, tunCheck, boot>>

-----------------------------------------------------------------------------
(***************************************************************************)
(* Resume.                                                                 *)
(***************************************************************************)
\* Mutation: nothing follows the run the app lifecycle started.
RunReturns_NoWhenComplete(by, guard) ==
    resume' = NoResume /\ recovering' = guard

\* The future of a run has completed: on Android the caller clears the guard,
\* unless it is the sequence after launch, which keeps it until its own end.
RunReturns(by, guard) ==
    /\ resume' = NoResume
    /\ recovering' = IF Platform = "android" /\ by = "app" THEN FALSE ELSE guard

\* _runInner up to its first answer.
RunResume(by) ==
    \/ /\ startInFlight \/ inFlight > 0
       /\ RunReturns(by, recovering)
       /\ UNCHANGED vars
    \/ /\ ~startInFlight /\ inFlight = 0
       /\ status \in Connected
       /\ resume' = [pc |-> "check", by |-> by]
       /\ UNCHANGED <<vars, recovering>>
    \/ /\ ~startInFlight /\ inFlight = 0
       /\ status \notin Connected
       /\ StopLanded
       /\ userStopped' = TRUE
       /\ RunReturns(by, recovering)
       /\ UNCHANGED <<status, manualStopped, manualDisk, connMode, queue, op,
                      inFlight, managerVars, coreVars, requests, crashes>>
    \/ /\ ~startInFlight /\ inFlight = 0
       /\ status \notin Connected
       /\ ~StopLanded
       /\ recovering' = TRUE
       /\ resume' = [pc |-> "health", by |-> by]
       /\ UNCHANGED vars

\* didChangeAppLifecycleState(resumed).  A run already in flight absorbs this
\* one, whose future completes at once.
AppResumed ==
    /\ events < MaxEvents
    /\ events' = events + 1
    /\ Platform = "android" => boot \notin {"init", "resume"}
    /\ IF resume.pc = "idle"
       THEN RunResume("app")
       ELSE /\ recovering' = (recovering /\ Desktop)
            /\ UNCHANGED <<vars, resume>>
    /\ UNCHANGED <<beat, tunCheck, boot>>

\* Mutation: the finally block is missing.
GuardAfter_Kept(guard) == guard

\* The guard as a run leaves it: finally clears it except on Android.
GuardAfter(guard) == guard /\ ~Desktop

\* A stop landed during the health check.
AbortRecovery ==
    /\ resume.pc = "health"
    /\ StopLanded
    /\ RunReturns(resume.by, FALSE)
    /\ UNCHANGED <<vars, beat, tunCheck, boot, events>>

CoreIsGone ==
    /\ resume.pc = "health"
    /\ ~StopLanded
    /\ RunReturns(resume.by, GuardAfter(recovering))
    /\ UNCHANGED <<vars, beat, tunCheck, boot, events>>

\* What follows markRunning: the UI says connected and no stop is in force.
Promote ==
    /\ status' = "running"
    /\ userStopped' = FALSE
    /\ beat' = Beating(beat)
    /\ RunReturns(resume.by, GuardAfter(recovering))
    /\ UNCHANGED <<manualStopped, manualDisk, connMode, queue, op, inFlight,
                   startInFlight, coreVars, requests, crashes, tunCheck, boot,
                   events>>

\* markRunning does nothing while a start is in flight; in desktop TUN it asks
\* the OS whether the helper is installed before it returns.
AdoptCore ==
    /\ resume.pc = "health"
    /\ ~StopLanded
    /\ MayBeAlive
    /\ IF ~startInFlight /\ IsDesktopTun(connMode)
       THEN /\ running' = TRUE
            /\ resume' = [resume EXCEPT !.pc = "promote"]
            /\ UNCHANGED <<status, flagVars, connMode, queue, op, inFlight,
                           startInFlight, serviceActive, coreVars, requests,
                           crashes, beat, recovering, tunCheck, boot, events>>
       ELSE /\ Promote
            /\ IF startInFlight
               THEN UNCHANGED <<running, serviceActive>>
               ELSE running' = TRUE /\ serviceActive' = FALSE

HelperAnswered ==
    /\ resume.pc = "promote"
    /\ Promote
    /\ serviceActive' \in HelperInstalled
    /\ UNCHANGED running

\* Status running or degraded at the time of the resume: is the core alive?
ResumeCheck ==
    /\ resume.pc = "check"
    /\ RunReturns(resume.by, recovering)
    /\ \/ /\ WatcherResets
          /\ beat' = Beating(beat)
          /\ UNCHANGED tunCheck
       \/ /\ MayBeAlive
          /\ tunCheck' = IF /\ tunCheck = "idle" /\ IsDesktopTun(connMode)
                            /\ ~userStopped
                         THEN "inspect" ELSE tunCheck
          /\ UNCHANGED <<vars, beat>>
    /\ UNCHANGED <<boot, events>>

-----------------------------------------------------------------------------
(***************************************************************************)
(* The check of desktop TUN after a resume that found the core alive.      *)
(***************************************************************************)
TunVerified ==
    /\ tunCheck = "inspect"
    /\ AnyCore
    /\ WatcherSets(IF status = "degraded" THEN "running" ELSE status)
    /\ tunCheck' = "idle"
    /\ beat' = Beating(beat)
    /\ UNCHANGED <<recovering, resume, boot, events>>

\* The snapshot is not verified: the status says so at once; then a restart is
\* due, or some other repair, or none (throttled, or a stop is in force).
TunBroken ==
    /\ tunCheck = "inspect"
    /\ WatcherSets("degraded")
    /\ tunCheck' \in {"settle"} \cup (IF userStopped THEN {} ELSE {"config"})
    /\ beat' = Beating(beat)
    /\ UNCHANGED <<recovering, resume, boot, events>>

TunRestart ==
    /\ tunCheck = "config"
    /\ \/ /\ WatcherEnqueues("restart")
          /\ tunCheck' = "restart"
          /\ UNCHANGED status
       \/ /\ tunCheck' = "settle"
          /\ UNCHANGED vars
    /\ UNCHANGED <<beat, recovering, resume, boot, events>>

TunRestartReturns ==
    /\ tunCheck = "restart"
    /\ ~RestartPending
    /\ tunCheck' = "settle"
    /\ UNCHANGED <<vars, beat, recovering, resume, boot, events>>

\* The second snapshot: verified makes the status running, whatever it is.
TunSettled ==
    /\ tunCheck = "settle"
    /\ \/ AnyCore /\ WatcherSets("running")
       \/ UNCHANGED vars
    /\ tunCheck' = "idle"
    /\ beat' = Beating(beat)
    /\ UNCHANGED <<recovering, resume, boot, events>>

-----------------------------------------------------------------------------
(***************************************************************************)
(* Launch and relaunch.                                                    *)
(***************************************************************************)
\* Android looks for a surviving core first.
BootLooks ==
    /\ boot = "init"
    /\ IF Desktop
       THEN boot' = "auto" /\ UNCHANGED <<vars, recovering, resume>>
       ELSE boot' = "resume" /\ RunResume("boot")
    /\ UNCHANGED <<beat, tunCheck, events>>

\* The run has returned, or its three seconds are over.
BootLooked ==
    /\ boot = "resume"
    /\ boot' = "auto"
    /\ UNCHANGED <<vars, beat, recovering, resume, tunCheck, events>>

BootDone ==
    /\ boot' = "done"
    /\ recovering' = (recovering /\ Desktop)

\* _maybeAutoConnect: not while running, after a stop, or when disabled.
AutoConnect ==
    /\ boot = "auto"
    /\ \/ BootDone
       \/ /\ status # "running" /\ ~userStopped
          /\ boot' = "config"
          /\ UNCHANGED recovering
    /\ UNCHANGED <<vars, beat, resume, tunCheck, events>>

AutoStart ==
    /\ boot = "config"
    /\ \/ /\ WatcherEnqueues("start")
          /\ boot' = "connect"
          /\ UNCHANGED <<status, recovering>>
       \/ BootDone /\ UNCHANGED vars
    /\ UNCHANGED <<beat, resume, tunCheck, events>>

\* The start has returned, or the time-out of the auto-connect is over.
BootEnds ==
    /\ boot = "connect"
    /\ BootDone
    /\ UNCHANGED <<vars, beat, resume, tunCheck, events>>

\* The app process ends, or Android recreates the engine: what Dart knew is
\* gone, settings.json remains, the helper's child remains, and so may the
\* core of an Android process that was not killed.
Relaunch ==
    /\ events < MaxEvents
    /\ events' = events + 1
    /\ status' = "stopped"
    /\ userStopped' = manualDisk /\ manualStopped' = manualDisk
    /\ queue' = <<>> /\ op' = Idle /\ inFlight' = 0
    /\ running' = FALSE /\ startInFlight' = FALSE /\ serviceActive' = FALSE
    /\ appCore' \in {FALSE} \cup (IF Desktop THEN {} ELSE {appCore})
    /\ survivor' = (IF appCore' THEN {"app"} ELSE {})
                   \cup (IF helperCore # "off" THEN {"helper"} ELSE {})
    /\ beat' = NoBeat /\ recovering' = FALSE
    /\ resume' = NoResume /\ tunCheck' = "idle" /\ boot' = "init"
    /\ UNCHANGED <<manualDisk, connMode, helperCore, requests, crashes>>

-----------------------------------------------------------------------------
(***************************************************************************)
(* Specification.                                                          *)
(***************************************************************************)
LifecycleStep ==
    /\ \/ Ask \/ Execute \/ Processes
       \/ \E m \in Modes : PickModeInSettings(m)
       \/ ResetToStopped
    /\ beat' = Beating(beat)
    /\ UNCHANGED <<recovering, resume, tunCheck, boot, events>>

ExecuteStep == Execute /\ LifecycleStep

BeatStep   == \/ Tick \/ BeatAlive \/ BeatFails
              \/ SilentRestart \/ SilentRestartReturns
ResumeStep == \/ AbortRecovery \/ CoreIsGone \/ AdoptCore \/ HelperAnswered
              \/ ResumeCheck
TunStep    == \/ TunVerified \/ TunBroken \/ TunRestart \/ TunRestartReturns
              \/ TunSettled
BootStep   == BootLooks \/ BootLooked \/ AutoConnect \/ AutoStart \/ BootEnds

SupervisedNext == \/ LifecycleStep
                  \/ BeatStep \/ Rebuild
                  \/ AppResumed \/ ResumeStep \/ TunStep
                  \/ BootStep \/ Relaunch
                  \/ AwaitUser /\ UNCHANGED <<watchVars, events>>

\* Timers fire and every await ends by itself or by its time-out; nothing
\* obliges the user, the OS, a crash or the watchdog of the helper.
SupervisedSpec ==
    /\ SupervisedInit
    /\ [][SupervisedNext]_svars
    /\ WF_svars(ExecuteStep)
    /\ WF_svars(BeatStep) /\ WF_svars(ResumeStep)
    /\ WF_svars(TunStep) /\ WF_svars(BootStep)

-----------------------------------------------------------------------------
(***************************************************************************)
(* Properties.                                                             *)
(***************************************************************************)
Ghost == status = "running" /\ ~AnyCore

\* A status that says running over a core that is gone (the outcome of a reset
\* that overtakes an operation) does not last: the heartbeat restarts the core
\* or gives up, whatever resumes and repairs come between (_tick).
GhostRepaired == Ghost ~> ~Ghost

\* The guard is up only while a health check, or on Android the sequence after
\* launch, is there to lower it.
GuardOwned == recovering => \/ resume.pc \in {"health", "promote"}
                            \/ ~Desktop /\ boot # "done"

\* The recovery guard, which silences the heartbeat and the revocation of the
\* VPN, is always lowered again, on every way out of a run and of the launch.
GuardReleased == recovering ~> ~recovering

\* No watcher lifts a disconnect: the flag falls only by a start, or by a
\* relaunch that finds it was never written.
WatchersKeepStop ==
    [][manualStopped /\ ~manualStopped'
        => \/ op'.kind \in {"start", "toggle"}
           \/ ~manualDisk /\ boot' = "init"]_svars

\* With every watcher at work, no adopted core and no queued restart outlives a
\* disconnect: once its operation is over, CoreManager runs nothing, and the
\* flag a relaunch will read says so.
DisconnectHolds ==
    op = Idle => /\ manualStopped = manualDisk
                 /\ manualStopped => ~running

\* The flag in memory, which gates auto-connect and the resume, is up only while
\* the persisted one is: a watcher may lower it too early, never raise it.
MemoryFollows == userStopped => manualStopped

\* The promise of UserIntent, across the kill of the app: no watcher, resume or
\* relaunch brings a core up while a disconnect is in force.
KeepsUserIntentAcrossKills == Intent!SafeAcrossKills
=============================================================================
