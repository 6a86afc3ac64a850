---------------------------- MODULE ServiceRuntime ----------------------------
(***************************************************************************)
(* The privileged helper (service/runtime.go): start, stop and shutdown    *)
(* serialised by opMu, one waitForChild goroutine per mihomo process, and  *)
(* the watchdog that goroutine turns into when its process exits.          *)
(*                                                                         *)
(* A step is what a goroutine does between two points where another can    *)
(* interfere: taking opMu, a section under mu, waiting on a channel, a     *)
(* timer.  What is done while holding opMu and touches nothing the reapers *)
(* read is folded into the step that takes the lock.                       *)
(***************************************************************************)
EXTENDS Naturals

CONSTANTS
    Calls,        \* the calls clients and the service manager will make
    Procs,        \* the mihomo processes that may be spawned
    NoProc,       \* nil
    Free,         \* opMu is not held
    WatchdogMaxCrashes  \* watchdogMaxCrashes

ASSUME NoProcAssumption == NoProc \notin Procs
ASSUME FreeAssumption   == Free \notin Calls
ASSUME CrashAssumption  == WatchdogMaxCrashes \in Nat

VARIABLES
    kind,        \* per call: "start", "stop" or "shutdown"
    pc,          \* per call: where it stands
    target,      \* per call: the process it waits for
    opMu,        \* the call that holds opMu
    proc,        \* the processes: "none", "alive", "term" (signalled), "dead"
    child,       \* s.child
    closed,      \* the processes whose childDone channel is closed
    watchdog,    \* the process s.watchdogCancel belongs to
    live,        \* the processes whose watchdog context is not cancelled
    reaper,      \* where the waitForChild goroutine of a process stands
    crashCount,  \* s.crashCount
    windowOpen,  \* now is not after s.crashWindowEnd
    helper,      \* "serving", "stopping" (child stopped), "exited"
    session,     \* history: what the last call was told, see below
    stray,       \* history: processes a watchdog restart lost track of
    overtaken    \* history: when the last call cancelled the watchdog, one was
                 \* already past its last look at its context

procVars   == <<proc, child, closed>>
watchVars  == <<watchdog, live>>
crashVars  == <<crashCount, windowOpen>>
histVars   == <<stray, overtaken>>
callVars   == <<kind, pc, target>>
vars == <<callVars, opMu, procVars, watchVars, reaper, crashVars, helper, session,
          histVars>>

(***************************************************************************)
(* session is "on" from a start that succeeded, "ending" while a call is   *)
(* stopping the child, "off" after a stop that succeeded, and "lost" when a *)
(* call failed, the watchdog gave up or its restart failed.                *)
(***************************************************************************)
CallKinds == {"start", "stop", "shutdown"}
CallPcs   == {"new", "lock", "await", "spawn", "ok", "failed"}
ReaperPcs == {"none", "wait", "notify", "farewell", "decide", "count",
              "backoff", "lock", "done"}
Running   == {"alive", "term"}

TypeOK ==
    /\ kind \in [Calls -> CallKinds]
    /\ pc \in [Calls -> CallPcs]
    /\ target \in [Calls -> Procs \cup {NoProc}]
    /\ opMu \in Calls \cup {Free}
    /\ proc \in [Procs -> {"none", "dead"} \cup Running]
    /\ child \in Procs \cup {NoProc}
    /\ closed \in SUBSET Procs
    /\ watchdog \in Procs \cup {NoProc}
    /\ live \in SUBSET Procs
    /\ reaper \in [Procs -> ReaperPcs]
    /\ crashCount \in Nat /\ windowOpen \in BOOLEAN
    /\ helper \in {"serving", "stopping", "exited"}
    /\ session \in {"on", "ending", "off", "lost"}
    /\ stray \in SUBSET Procs /\ overtaken \in BOOLEAN

Init ==
    /\ kind \in [Calls -> CallKinds]
    /\ pc = [c \in Calls |-> "new"]
    /\ target = [c \in Calls |-> NoProc]
    /\ \A c, d \in Calls :
           kind[c] = "shutdown" /\ kind[d] = "shutdown" => c = d
    /\ opMu = Free
    /\ proc = [p \in Procs |-> "none"]
    /\ child = NoProc /\ closed = {}
    /\ watchdog = NoProc /\ live = {}
    /\ reaper = [p \in Procs |-> "none"]
    /\ crashCount = 0 /\ windowOpen = FALSE
    /\ helper = "serving"
    /\ session = "off"
    /\ stray = {} /\ overtaken = FALSE

Up == helper # "exited"

-----------------------------------------------------------------------------
(***************************************************************************)
(* Starting a process, by a call or by a watchdog, with opMu held.         *)
(***************************************************************************)
\* Mutation: the new process runs under the context of the one before.
StartMihomoInternal_OldContext(p) ==
    /\ proc[p] = "none"
    /\ proc' = [proc EXCEPT ![p] = "alive"]
    /\ child' = p
    /\ watchdog' = IF watchdog = NoProc THEN p ELSE watchdog
    /\ live' = live
    /\ UNCHANGED closed

\* startMihomoInternal: the new process gets a context of its own, that of the
\* one before is cancelled.
StartMihomoInternal(p) ==
    /\ proc[p] = "none"
    /\ proc' = [proc EXCEPT ![p] = "alive"]
    /\ child' = p
    /\ watchdog' = p
    /\ live' = (live \ {watchdog}) \cup {p}
    /\ UNCHANGED closed

-----------------------------------------------------------------------------
(***************************************************************************)
(* Calls: POST /v1/start, POST /v1/stop, and the shutdown of the helper.   *)
(***************************************************************************)
\* A request arrives, or the helper is told to stop.  A start whose paths are
\* rejected fails before it takes opMu.
Arrive(c) ==
    /\ Up /\ pc[c] = "new"
    /\ \/ pc' = [pc EXCEPT ![c] = "lock"]
       \/ kind[c] = "start" /\ pc' = [pc EXCEPT ![c] = "failed"]
    /\ UNCHANGED <<kind, target, opMu, procVars, watchVars, reaper, crashVars,
                   helper, session, histVars>>

\* The stop half is over with the child gone: a start goes on, the others
\* release opMu and answer.
StopHalfDone(c) ==
    /\ IF kind[c] = "start"
       THEN /\ pc' = [pc EXCEPT ![c] = "spawn"]
            /\ session' = "ending"
            /\ opMu' = c
            /\ UNCHANGED helper
       ELSE /\ pc' = [pc EXCEPT ![c] = "ok"]
            /\ session' = "off"
            /\ opMu' = Free
            /\ helper' = IF kind[c] = "shutdown" THEN "stopping" ELSE helper
    /\ UNCHANGED <<kind, target>>

\* The call gives up; a shutdown only logs the error.
Fail(c) ==
    /\ pc' = [pc EXCEPT ![c] = "failed"]
    /\ opMu' = Free
    /\ session' = "lost"
    /\ helper' = IF kind[c] = "shutdown" THEN "stopping" ELSE helper
    /\ UNCHANGED <<kind, target>>

\* The child is told to end, and the call waits for it.
SignalChild(c) ==
    /\ pc' = [pc EXCEPT ![c] = "await"]
    /\ target' = [target EXCEPT ![c] = child]
    /\ proc' = [proc EXCEPT ![child] = IF @ = "alive" THEN "term" ELSE @]
    /\ opMu' = c
    /\ session' = "ending"
    /\ UNCHANGED <<kind, child, closed, helper>>

\* stopCurrentProcessLocked up to the wait: cancel the watchdog, forget the
\* crashes, signal the child; the signal may fail.
EnterStop(c) ==
    /\ Up /\ pc[c] = "lock" /\ opMu = Free
    /\ crashCount' = 0 /\ windowOpen' = FALSE
    /\ live' = live \ {watchdog} /\ watchdog' = NoProc
    /\ \/ child = NoProc /\ StopHalfDone(c) /\ UNCHANGED procVars
       \/ child # NoProc /\ SignalChild(c)
       \/ child # NoProc /\ Fail(c) /\ UNCHANGED procVars
    /\ overtaken' = \E p \in Procs : reaper[p] = "lock"
    /\ UNCHANGED <<reaper, stray>>

\* Mutation: after the forced kill nobody waits for the child.
ChildGone_NoWait(c) ==
    /\ Up /\ pc[c] = "await"
    /\ StopHalfDone(c)
    /\ UNCHANGED <<procVars, watchVars, reaper, crashVars, histVars>>

\* childDone is closed within one of the two time-outs.
ChildGone(c) ==
    /\ Up /\ pc[c] = "await"
    /\ target[c] \in closed
    /\ StopHalfDone(c)
    /\ UNCHANGED <<procVars, watchVars, reaper, crashVars, histVars>>

\* Neither the signal nor the kill ended it in time.
ChildStuck(c) ==
    /\ Up /\ pc[c] = "await"
    /\ target[c] \notin closed
    /\ Fail(c)
    /\ UNCHANGED <<procVars, watchVars, reaper, crashVars, histVars>>

Spawn(c, p) ==
    /\ Up /\ pc[c] = "spawn"
    /\ StartMihomoInternal(p)
    /\ reaper' = [reaper EXCEPT ![p] = "wait"]
    /\ pc' = [pc EXCEPT ![c] = "ok"]
    /\ opMu' = Free
    /\ session' = "on"
    /\ UNCHANGED <<kind, target, crashVars, helper, histVars>>

SpawnFails(c) ==
    /\ Up /\ pc[c] = "spawn"
    /\ Fail(c)
    /\ UNCHANGED <<procVars, watchVars, reaper, crashVars, histVars>>

HelperExits ==
    /\ helper = "stopping"
    /\ helper' = "exited"
    /\ UNCHANGED <<callVars, opMu, procVars, watchVars, reaper, crashVars,
                   session, histVars>>

-----------------------------------------------------------------------------
(***************************************************************************)
(* Processes and their waitForChild goroutines.                            *)
(***************************************************************************)
\* A process ends by itself, or because it was told to.
Exit(p) ==
    /\ proc[p] \in Running
    /\ proc' = [proc EXCEPT ![p] = "dead"]
    /\ UNCHANGED <<callVars, opMu, child, closed, watchVars, reaper, crashVars,
                   helper, session, histVars>>

\* Mutation: the goroutine of a replaced process clears the new one's fields.
Reap_NotMine(p) ==
    /\ Up /\ reaper[p] = "wait" /\ proc[p] = "dead"
    /\ child' = NoProc
    /\ reaper' = [reaper EXCEPT ![p] = IF child = p THEN "notify" ELSE "farewell"]
    /\ UNCHANGED <<callVars, opMu, proc, closed, watchVars, crashVars, helper,
                   session, histVars>>

\* cmd.Wait returned: under mu, the child is cleared if it is still this one.
Reap(p) ==
    /\ Up /\ reaper[p] = "wait" /\ proc[p] = "dead"
    /\ child' = IF child = p THEN NoProc ELSE child
    /\ reaper' = [reaper EXCEPT ![p] = IF child = p THEN "notify" ELSE "farewell"]
    /\ UNCHANGED <<callVars, opMu, proc, closed, watchVars, crashVars, helper,
                   session, histVars>>

\* close(done); only the goroutine of the current child turns into a watchdog.
CloseDone(p) ==
    /\ Up /\ reaper[p] \in {"notify", "farewell"}
    /\ closed' = closed \cup {p}
    /\ reaper' = [reaper EXCEPT ![p] = IF @ = "notify" THEN "decide" ELSE "done"]
    /\ UNCHANGED <<callVars, opMu, proc, child, watchVars, crashVars, helper,
                   session, histVars>>

\* An explicit stop cancelled the context: no restart.
Decide(p) ==
    /\ Up /\ reaper[p] = "decide"
    /\ reaper' = [reaper EXCEPT ![p] = IF p \in live THEN "count" ELSE "done"]
    /\ UNCHANGED <<callVars, opMu, procVars, watchVars, crashVars, helper, session,
                   histVars>>

\* The crash is counted under mu; too many in the window and it gives up.
Count(p) ==
    /\ Up /\ reaper[p] = "count"
    /\ crashCount' = IF windowOpen THEN crashCount + 1 ELSE 1
    /\ windowOpen' = TRUE
    /\ LET givesUp == crashCount' > WatchdogMaxCrashes
       IN /\ reaper' = [reaper EXCEPT ![p] = IF givesUp THEN "done" ELSE "backoff"]
          /\ session' = IF givesUp /\ p \in live THEN "lost" ELSE session
    /\ UNCHANGED <<callVars, opMu, procVars, watchVars, helper, histVars>>

\* Mutation: the delay is over, nobody looks at the context.
BackoffEnds_Blind(p) ==
    /\ Up /\ reaper[p] = "backoff"
    /\ reaper' = [reaper EXCEPT ![p] = "lock"]
    /\ UNCHANGED <<callVars, opMu, procVars, watchVars, crashVars, helper, session,
                   histVars>>

\* The delay is over or the context is cancelled; the context is looked at
\* once more, before opMu is asked for.
BackoffEnds(p) ==
    /\ Up /\ reaper[p] = "backoff"
    /\ reaper' = [reaper EXCEPT ![p] = IF p \in live THEN "lock" ELSE "done"]
    /\ UNCHANGED <<callVars, opMu, procVars, watchVars, crashVars, helper, session,
                   histVars>>

\* opMu taken, process started, opMu released.
Restart(p, q) ==
    /\ Up /\ reaper[p] = "lock" /\ opMu = Free
    /\ StartMihomoInternal(q)
    /\ reaper' = [reaper EXCEPT ![p] = "done", ![q] = "wait"]
    /\ stray' = stray \cup ({child} \ {NoProc})
    /\ UNCHANGED <<callVars, opMu, crashVars, helper, session, overtaken>>

RestartFails(p) ==
    /\ Up /\ reaper[p] = "lock" /\ opMu = Free
    /\ reaper' = [reaper EXCEPT ![p] = "done"]
    /\ session' = IF p \in live THEN "lost" ELSE session
    /\ UNCHANGED <<callVars, opMu, procVars, watchVars, crashVars, helper,
                   histVars>>

\* Ten minutes pass since the first counted crash.
WindowEnds ==
    /\ Up /\ windowOpen
    /\ windowOpen' = FALSE
    /\ UNCHANGED <<callVars, opMu, procVars, watchVars, reaper, crashCount, helper,
                   session, histVars>>

-----------------------------------------------------------------------------
\* Steps of one call once it has arrived.
Serve(c) == \/ EnterStop(c) \/ ChildGone(c) \/ ChildStuck(c)
            \/ (\E p \in Procs : Spawn(c, p)) \/ SpawnFails(c)

\* Steps of one waitForChild goroutine.
Wait(p) == \/ Reap(p) \/ CloseDone(p) \/ Decide(p) \/ Count(p)
           \/ BackoffEnds(p) \/ (\E q \in Procs : Restart(p, q))
           \/ RestartFails(p)

Rest == /\ \/ ~Up
           \/ /\ opMu = Free
              /\ \A c \in Calls : pc[c] \in {"ok", "failed"}
        /\ UNCHANGED vars

Next == \/ \E c \in Calls : Arrive(c) \/ Serve(c)
        \/ \E p \in Procs : Wait(p) \/ Exit(p)
        \/ HelperExits \/ WindowEnds \/ Rest

\* Goroutines are scheduled, and a sync.Mutex hands itself over to a waiter
\* that has waited for long (starvation mode), hence strong fairness of what
\* takes opMu.  Nothing obliges a request to arrive or a process to exit by
\* itself; a signalled one may be stuck as well.
Fairness == /\ \A c \in Calls : SF_vars(Serve(c))
            /\ \A p \in Procs : SF_vars(Wait(p))

Spec == Init /\ [][Next]_vars /\ Fairness
SafeSpec == Init /\ [][Next]_vars

-----------------------------------------------------------------------------
(***************************************************************************)
(* Properties.                                                             *)
(***************************************************************************)
\* s.child is never the leftover of a goroutine that is through with it: a
\* process recorded as the child has its goroutine still waiting for it, so
\* its exit cannot go unnoticed and status cannot report it for ever.
ChildIsWatched == child # NoProc => reaper[child] = "wait"

\* At most one watchdog may still restart: every context but that of the last
\* process started is cancelled, however starts, stops and restarts overlap.
OneContext == live \subseteq {watchdog} \ {NoProc}

\* A start that succeeded stays watched: until a call ends the session, the
\* watchdog gives up or its restart fails, there is a goroutine with a context
\* that is not cancelled and that has not returned.
SessionGuarded ==
    session = "on" /\ Up => /\ watchdog \in live
                            /\ reaper[watchdog] \notin {"none", "farewell", "done"}

\* Every process that runs is the one the helper tracks, unless a watchdog
\* restart that was already past its last check replaced it.
NoStrayProcess ==
    \A p \in Procs : proc[p] \in Running => p = child \/ p \in stray

\* A start never spawns next to a process it knows of.
SpawnsAlone == \A c \in Calls : pc[c] = "spawn" => child = NoProc

\* A stop that answers ok answers after the child it stopped is gone and with
\* no other in its place.
StopMeansStopped ==
    [][\A c \in Calls :
         kind[c] # "start" /\ pc[c] # "ok" /\ pc'[c] = "ok"
             => /\ child' = NoProc
                /\ target[c] # NoProc => proc[target[c]] = "dead"]_vars

\* After a stop that answered ok there is no child, unless a watchdog was past
\* its last look at its context when the stop cancelled it.
StopHolds == session = "off" /\ child # NoProc => overtaken

\* After an explicit stop the watchdog starts nothing.
StopIsFinal == session = "off" => child = NoProc

\* A session that lost its process gets another one, or ends.
Revives == session = "on" /\ child = NoProc ~> child # NoProc \/ session # "on" \/ ~Up

\* No call is left waiting: opMu is always handed over.
Answered == \A c \in Calls :
    pc[c] = "lock" ~> pc[c] \in {"ok", "failed"} \/ ~Up
=============================================================================
