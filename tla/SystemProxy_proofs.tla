------------------------- MODULE SystemProxy_proofs -------------------------
(***************************************************************************)
(* Proofs about SystemProxy, for any number of tasks and kills, on every   *)
(* platform, with commands that may or may not fail.                       *)
(*                                                                         *)
(* First types, then what each action does to the tasks (Becomes), then    *)
(* the inductive invariant IInv, one lemma per part.                       *)
(***************************************************************************)
EXTENDS SystemProxy, TLAPS

TaskMap == [Tasks -> Task]

LEMMA Shapes == /\ Idle \in Task
                /\ \A k \in Kinds, p \in Pcs : At(k, p) \in Task
  BY DEF Idle, At, Task, Kinds, LifecycleKinds, Pcs, Verdicts

LEMMA Put ==
  ASSUME NEW tk \in TaskMap, NEW t \in Tasks, NEW r \in Task
  PROVE  [tk EXCEPT ![t] = r] \in TaskMap
  BY DEF TaskMap

LEMMA PutPc ==
  ASSUME NEW tk \in TaskMap, NEW t \in Tasks, NEW p \in Pcs
  PROVE  [tk EXCEPT ![t].pc = p] \in TaskMap
<1> tk[t] \in Task
  BY DEF TaskMap
<1>1. [tk[t] EXCEPT !.pc = p] \in Task
  BY DEF Task
<1> QED
  BY <1>1 DEF TaskMap

LEMMA PutPcSeen ==
  ASSUME NEW tk \in TaskMap, NEW t \in Tasks, NEW p \in Pcs, NEW v \in Verdicts
  PROVE  [tk EXCEPT ![t].pc = p, ![t].seen = v] \in TaskMap
<1> tk[t] \in Task
  BY DEF TaskMap
<1>1. [tk[t] EXCEPT !.pc = p, !.seen = v] \in Task
  BY DEF Task
<1> QED
  BY <1>1 DEF TaskMap

LEMMA PutPcLive ==
  ASSUME NEW tk \in TaskMap, NEW t \in Tasks, NEW p \in Pcs, NEW b \in BOOLEAN
  PROVE  [tk EXCEPT ![t].pc = p, ![t].live = b] \in TaskMap
<1> tk[t] \in Task
  BY DEF TaskMap
<1>1. [tk[t] EXCEPT !.pc = p, !.live = b] \in Task
  BY DEF Task
<1> QED
  BY <1>1 DEF TaskMap

LEMMA PutTries ==
  ASSUME NEW tk \in TaskMap, NEW t \in Tasks
  PROVE  [tk EXCEPT ![t].tries = @ + 1] \in TaskMap
<1> tk[t] \in Task
  BY DEF TaskMap
<1>1. [tk[t] EXCEPT !.tries = @ + 1] \in Task
  BY DEF Task
<1> QED
  BY <1>1 DEF TaskMap

LEMMA PutDisposed ==
  ASSUME NEW tk \in TaskMap
  PROVE  Disposed(tk) \in TaskMap
<1>1. ASSUME NEW t \in Tasks
      PROVE  tk[t] \in Task /\ [tk[t] EXCEPT !.live = FALSE] \in Task
  BY DEF TaskMap, Task
<1> QED
  BY <1>1 DEF TaskMap, Disposed

LEMMA JudgeTasks ==
  ASSUME task \in TaskMap, NEW t \in Tasks, NEW v, Judge(t, v)
  PROVE  task' \in TaskMap
<1>1. CASE v = "no"
  <2>1. task' = [task EXCEPT ![t].pc = "write", ![t].seen = "ok"]
    BY <1>1 DEF Judge
  <2>2. "write" \in Pcs /\ "ok" \in Verdicts
    BY DEF Pcs, Verdicts
  <2> QED
    BY <2>1, <2>2, PutPcSeen
<1>2. CASE v # "no"
  BY <1>2, Put, Shapes DEF Judge, Done
<1> QED
  BY <1>1, <1>2

LEMMA GotoTasks ==
  ASSUME task \in TaskMap, NEW t \in Tasks, NEW p \in Pcs, Goto(t, p)
  PROVE  task' \in TaskMap
  BY PutPc DEF Goto

LEMMA DoneTasks ==
  ASSUME task \in TaskMap, NEW t \in Tasks, Done(t)
  PROVE  task' \in TaskMap
  BY Put, Shapes DEF Done

LEMMA TypeInit == Init => TypeOK
<1> SUFFICES ASSUME Init PROVE TypeOK
  OBVIOUS
<1>1. task \in [Tasks -> Task]
  BY Shapes DEF Init
<1>2. os \in {"ours", "other"} /\ slips \in SUBSET Slips
  BY DEF Init
<1>3. strikes \in 0..(MaxStrikes - 1)
  BY DEF Init, MaxStrikes
<1>4. QED
  BY <1>1, <1>2, <1>3 DEF Init, TypeOK, Modes, Verdicts

LEMMA TasksStep == TypeOK /\ [Next]_vars => task' \in TaskMap
<1> SUFFICES ASSUME TypeOK, [Next]_vars PROVE task' \in TaskMap
  OBVIOUS
<1> task \in TaskMap
  BY DEF TypeOK, TaskMap
<1>1. CASE UNCHANGED vars
  BY <1>1 DEF vars
<1>2. ASSUME NEW t \in Tasks, WriteOk(t) PROVE task' \in TaskMap
  BY <1>2, GotoTasks
  DEF WriteOk, Pcs
<1>3. ASSUME NEW t \in Tasks, WriteFails(t) PROVE task' \in TaskMap
  BY <1>3, Put, Shapes, PutTries, PutDisposed
  DEF WriteFails, SetFailed, GuardFailed, Leave, Done, Kinds, LifecycleKinds,
      Pcs, Verdicts
<1>4. ASSUME NEW t \in Tasks, Mark(t) PROVE task' \in TaskMap
  BY <1>4, GotoTasks
  DEF Mark, Pcs
<1>5. ASSUME NEW t \in Tasks, FlushMark(t) PROVE task' \in TaskMap
  BY <1>5, DoneTasks
  DEF FlushMark, SetSucceeded
<1>6. ASSUME NEW t \in Tasks, Erase(t) PROVE task' \in TaskMap
  BY <1>6, GotoTasks
  DEF Erase, Pcs
<1>7. ASSUME NEW t \in Tasks, Unmark(t) PROVE task' \in TaskMap
  <2>1. Cleared(t)
    BY <1>7 DEF Unmark
  <2> QED
    BY <2>1, DoneTasks, GotoTasks DEF Cleared, Pcs
<1>8. ASSUME NEW t \in Tasks, EnterStart(t) PROVE task' \in TaskMap
  BY <1>8, PutPcLive, PutDisposed
  DEF EnterStart, Leave, Kinds, LifecycleKinds, Pcs, Verdicts
<1>9. ASSUME NEW t \in Tasks, CoreComesUp(t) PROVE task' \in TaskMap
  BY <1>9, GotoTasks, DoneTasks DEF CoreComesUp, Pcs
<1>10. ASSUME NEW t \in Tasks, CoreFails(t) PROVE task' \in TaskMap
  BY <1>10, DoneTasks
  DEF CoreFails
<1>11. ASSUME NEW t \in Tasks, KillCore(t) PROVE task' \in TaskMap
  BY <1>11, Put, Shapes
  DEF KillCore, Kinds, LifecycleKinds, Pcs, Verdicts
<1>12. ASSUME NEW t \in Tasks, CoreAnswers(t) PROVE task' \in TaskMap
  BY <1>12, JudgeTasks, GotoTasks, DoneTasks DEF CoreAnswers, Pcs
<1>13. ASSUME NEW t \in Tasks, CoreSilent(t) PROVE task' \in TaskMap
  BY <1>13, Put, Shapes, PutDisposed
  DEF CoreSilent, ResetToStopped, Leave, Done, Kinds, LifecycleKinds, Pcs,
      Verdicts
<1>14. ASSUME NEW t \in Tasks, Look(t) PROVE task' \in TaskMap
  <2>1. PICK v \in Reading : task' = [task EXCEPT ![t].pc = "seen", ![t].seen = v]
    BY <1>14 DEF Look
  <2> QED
    BY <2>1, PutPcSeen DEF Reading, Pcs, Verdicts
<1>15. ASSUME NEW t \in Tasks, Seen(t) PROVE task' \in TaskMap
  BY <1>15, JudgeTasks DEF Seen
<1>16. ASSUME NEW t \in Tasks, BeginStart(t) PROVE task' \in TaskMap
  BY <1>16, Put, Shapes
  DEF BeginStart, Launch, Kinds, LifecycleKinds, Pcs, Verdicts
<1>17. ASSUME NEW t \in Tasks, BeginStop(t) PROVE task' \in TaskMap
  BY <1>17, Put, Shapes, PutDisposed
  DEF BeginStop, Leave, Kinds, LifecycleKinds, Pcs, Verdicts
<1>18. ASSUME NEW t \in Tasks, Ask(t) PROVE task' \in TaskMap
  BY <1>18, Put, Shapes
  DEF Ask, Launch, Kinds, LifecycleKinds, Pcs, Verdicts
<1>19. ASSUME NEW t \in Tasks, Reset(t) PROVE task' \in TaskMap
  BY <1>19, Put, Shapes, PutDisposed
  DEF Reset, ResetToStopped, Leave, Kinds, LifecycleKinds, Pcs, Verdicts
<1>20. ASSUME NEW t \in Tasks, Clear(t) PROVE task' \in TaskMap
  BY <1>20, Put, Shapes
  DEF Clear, Launch, Kinds, LifecycleKinds, Pcs, Verdicts
<1>21. ASSUME NEW t \in Tasks, ColdStart(t) PROVE task' \in TaskMap
  BY <1>21, Put, Shapes
  DEF ColdStart, Kinds, LifecycleKinds, Pcs, Verdicts
<1>22. ASSUME NEW m \in Modes, SwitchMode(m) PROVE task' \in TaskMap
  BY <1>22
  DEF SwitchMode
<1>23. ASSUME LazyFlush PROVE task' \in TaskMap
  BY <1>23
  DEF LazyFlush
<1>24. ASSUME Rebuild PROVE task' \in TaskMap
  BY <1>24, PutDisposed
  DEF Rebuild, Leave, Kinds, LifecycleKinds, Pcs, Verdicts
<1>25. ASSUME Expire PROVE task' \in TaskMap
  BY <1>25
  DEF Expire
<1>26. ASSUME Stolen PROVE task' \in TaskMap
  BY <1>26
  DEF Stolen
<1>27. ASSUME Kill PROVE task' \in TaskMap
  BY <1>27, Shapes
  DEF Kill, TaskMap
<1> QED
  BY <1>1, <1>2, <1>3, <1>4, <1>5, <1>6, <1>7, <1>8, <1>9, <1>10, <1>11,
     <1>12, <1>13, <1>14, <1>15, <1>16, <1>17, <1>18, <1>19, <1>20, <1>21,
     <1>22, <1>23, <1>24, <1>25, <1>26, <1>27
  DEF Next, Step, SetStep, ClearStep, LifecycleStep, CheckStep, Call

LEMMA TypeStep == TypeOK /\ [Next]_vars => TypeOK'
<1> SUFFICES ASSUME TypeOK, [Next]_vars PROVE TypeOK'
  OBVIOUS
<1>0. task' \in [Tasks -> Task]
  BY TasksStep DEF TaskMap
<1>1. CASE UNCHANGED vars
  BY <1>1 DEF TypeOK, uiVars, vars, osVars, flagVars, connVars
<1>2. ASSUME NEW t \in Tasks, WriteOk(t) PROVE TypeOK'
  <2>1. os' \in {"ours", "other"} /\ slips' \in SUBSET Slips
    BY <1>2 DEF WriteOk, TypeOK, Slip, AfterSet, Late, Slips
  <2> QED
    BY <1>2, <2>1, <1>0 DEF WriteOk, TypeOK, uiVars, flagVars, connVars
<1>3. ASSUME NEW t \in Tasks, WriteFails(t) PROVE TypeOK'
  <2>1. os' \in {"ours", "other"} /\ slips' \in SUBSET Slips
    BY <1>3 DEF WriteFails, TypeOK, Slip, AfterSet, Late, Slips
  <2>2. status' \in {"stopped", "starting", "running", "stopping"}
        /\ strikes' \in 0..(MaxStrikes - 1)
    BY <1>3 DEF WriteFails, TypeOK, SetFailed, GuardFailed, Leave, MaxStrikes
  <2> QED
    BY <1>3, <2>1, <2>2, <1>0 DEF WriteFails, TypeOK, uiVars, flagVars, Verdicts
<1>4. ASSUME NEW t \in Tasks, Mark(t) PROVE TypeOK'
  BY <1>4, <1>0
  DEF TypeOK, uiVars, Modes, Slips, MaxStrikes, Verdicts, Mark, osVars, connVars
<1>5. ASSUME NEW t \in Tasks, FlushMark(t) PROVE TypeOK'
  BY <1>5, <1>0
  DEF TypeOK, uiVars, Modes, Slips, MaxStrikes, Verdicts, FlushMark, osVars,
      SetSucceeded
<1>6. ASSUME NEW t \in Tasks, Erase(t) PROVE TypeOK'
  BY <1>6, <1>0
  DEF TypeOK, uiVars, Modes, Slips, MaxStrikes, Verdicts, Erase, flagVars, connVars,
      Slip
<1>7. ASSUME NEW t \in Tasks, Unmark(t) PROVE TypeOK'
  BY <1>7, <1>0
  DEF TypeOK, uiVars, Verdicts, Unmark, osVars, Cleared
<1>8. ASSUME NEW t \in Tasks, EnterStart(t) PROVE TypeOK'
  <2>1. /\ status' = "starting" /\ strikes' = 0 /\ active' = mode
        /\ UNCHANGED <<os, slips, dirty, dirtyDisk, verdict, mode, background, app, kills>>
    BY <1>8 DEF EnterStart, Leave, uiVars, osVars, flagVars
  <2> QED
    BY <2>1, <1>0 DEF TypeOK, uiVars, Modes, MaxStrikes
<1>9. ASSUME NEW t \in Tasks, CoreComesUp(t) PROVE TypeOK'
  BY <1>9, <1>0
  DEF TypeOK, uiVars, Modes, Slips, MaxStrikes, Verdicts, CoreComesUp, osVars,
      flagVars
<1>10. ASSUME NEW t \in Tasks, CoreFails(t) PROVE TypeOK'
  BY <1>10, <1>0
  DEF TypeOK, uiVars, Modes, Slips, MaxStrikes, Verdicts, CoreFails, flagVars, Slip
<1>11. ASSUME NEW t \in Tasks, KillCore(t) PROVE TypeOK'
  BY <1>11, <1>0
  DEF TypeOK, uiVars, Modes, Slips, MaxStrikes, Verdicts, KillCore, osVars, flagVars
<1>12. ASSUME NEW t \in Tasks, CoreAnswers(t) PROVE TypeOK'
  BY <1>12, <1>0
  DEF TypeOK, uiVars, Modes, Slips, MaxStrikes, Verdicts, CoreAnswers, osVars,
      flagVars, Judge
<1>13. ASSUME NEW t \in Tasks, CoreSilent(t) PROVE TypeOK'
  <2>1. CASE ResetToStopped(t)
    <3>1. /\ status' = "stopped" /\ strikes' = 0
          /\ UNCHANGED <<os, dirty, dirtyDisk, verdict, active, mode, background, app, kills>>
      BY <1>13, <2>1 DEF CoreSilent, ResetToStopped, Leave, uiVars, flagVars
    <3>2. slips' = slips \/ Slip(os, slips \cup {"kept"})
      BY <2>1 DEF ResetToStopped
    <3>3. slips' \in SUBSET Slips
      BY <3>2 DEF Slip, Slips, TypeOK
    <3> QED
      BY <3>1, <3>3, <1>0 DEF TypeOK, uiVars, MaxStrikes
  <2>2. CASE ~ResetToStopped(t)
    BY <1>13, <2>2, <1>0 DEF CoreSilent, TypeOK, uiVars, flagVars
  <2> QED
    BY <2>1, <2>2
<1>14. ASSUME NEW t \in Tasks, Look(t) PROVE TypeOK'
  BY <1>14, <1>0
  DEF TypeOK, uiVars, Modes, Slips, MaxStrikes, Verdicts, Look, osVars, flagVars,
      connVars
<1>15. ASSUME NEW t \in Tasks, Seen(t) PROVE TypeOK'
  <2>1. task[t].seen \in Verdicts
    BY DEF TypeOK, uiVars, Task
  <2> QED
    BY <1>15, <1>0, <2>1 DEF Seen, Judge, TypeOK, uiVars, osVars, flagVars, MaxStrikes
<1>16. ASSUME NEW t \in Tasks, BeginStart(t) PROVE TypeOK'
  BY <1>16, <1>0
  DEF TypeOK, uiVars, Modes, Slips, MaxStrikes, Verdicts, BeginStart, osVars,
      flagVars, connVars
<1>17. ASSUME NEW t \in Tasks, BeginStop(t) PROVE TypeOK'
  <2>1. /\ status' = "stopping" /\ strikes' = 0
        /\ UNCHANGED <<os, slips, dirty, dirtyDisk, verdict, active, mode, background, app, kills>>
    BY <1>17 DEF BeginStop, Leave, uiVars, osVars, flagVars
  <2> QED
    BY <2>1, <1>0 DEF TypeOK, uiVars, MaxStrikes
<1>18. ASSUME NEW t \in Tasks, Ask(t) PROVE TypeOK'
  BY <1>18, <1>0
  DEF TypeOK, uiVars, Modes, Slips, MaxStrikes, Verdicts, Ask, osVars, flagVars,
      connVars
<1>19. ASSUME NEW t \in Tasks, Reset(t) PROVE TypeOK'
  <2>1. CASE ResetToStopped(t)
    <3>1. /\ status' = "stopped" /\ strikes' = 0
          /\ UNCHANGED <<os, dirty, dirtyDisk, verdict, active, mode, background, app, kills>>
      BY <1>19, <2>1 DEF Reset, ResetToStopped, Leave, uiVars, flagVars
    <3>2. slips' = slips \/ Slip(os, slips \cup {"kept"})
      BY <2>1 DEF ResetToStopped
    <3>3. slips' \in SUBSET Slips
      BY <3>2 DEF Slip, Slips, TypeOK
    <3> QED
      BY <3>1, <3>3, <1>0 DEF TypeOK, uiVars, MaxStrikes
  <2> QED
    BY <1>19, <2>1 DEF Reset
<1>20. ASSUME NEW t \in Tasks, Clear(t) PROVE TypeOK'
  BY <1>20, <1>0
  DEF TypeOK, uiVars, Modes, Slips, MaxStrikes, Verdicts, Clear, osVars, flagVars,
      connVars
<1>21. ASSUME NEW t \in Tasks, ColdStart(t) PROVE TypeOK'
  BY <1>21, <1>0
  DEF TypeOK, uiVars, Modes, Slips, MaxStrikes, Verdicts, ColdStart, osVars,
      flagVars, connVars
<1>22. ASSUME NEW m \in Modes, SwitchMode(m) PROVE TypeOK'
  BY <1>22, <1>0
  DEF TypeOK, uiVars, Modes, Slips, MaxStrikes, Verdicts, SwitchMode, osVars,
      flagVars, connVars
<1>23. ASSUME LazyFlush PROVE TypeOK'
  BY <1>23, <1>0
  DEF TypeOK, uiVars, Modes, Slips, MaxStrikes, Verdicts, LazyFlush, osVars, connVars
<1>24. ASSUME Rebuild PROVE TypeOK'
  BY <1>24, <1>0
  DEF TypeOK, uiVars, Modes, Slips, MaxStrikes, Verdicts, Rebuild, osVars, flagVars,
      Leave
<1>25. ASSUME Expire PROVE TypeOK'
  BY <1>25, <1>0
  DEF TypeOK, uiVars, Modes, Slips, MaxStrikes, Verdicts, Expire, osVars, flagVars,
      connVars
<1>26. ASSUME Stolen PROVE TypeOK'
  BY <1>26, <1>0
  DEF TypeOK, uiVars, Modes, Slips, MaxStrikes, Verdicts, Stolen, flagVars, connVars
<1>27. ASSUME Kill PROVE TypeOK'
  <2>1. os' \in {"ours", "other"} /\ slips' \in SUBSET Slips
    BY <1>27 DEF Kill, TypeOK, Orphans, Slip, Slips
  <2>2. /\ app' = "off" /\ kills' = kills + 1 /\ strikes' = 0
        /\ status' = "stopped" /\ verdict' = "none" /\ background' = FALSE
        /\ dirty' = dirtyDisk /\ UNCHANGED <<dirtyDisk, active, mode>>
    BY <1>27 DEF Kill
  <2>3. /\ dirty' \in BOOLEAN /\ dirtyDisk' \in BOOLEAN
        /\ mode' \in Modes /\ active' \in Modes /\ background' \in BOOLEAN
    BY <2>2, Zenon DEF TypeOK
  <2>4. kills' \in Nat
    BY <2>2 DEF TypeOK
  <2> QED
    BY <2>1, <2>2, <2>3, <2>4, <1>0 DEF TypeOK, MaxStrikes
<1> QED
  BY <1>1, <1>2, <1>3, <1>4, <1>5, <1>6, <1>7, <1>8, <1>9, <1>10, <1>11,
     <1>12, <1>13, <1>14, <1>15, <1>16, <1>17, <1>18, <1>19, <1>20, <1>21,
     <1>22, <1>23, <1>24, <1>25, <1>26, <1>27
  DEF Next, Step, SetStep, ClearStep, LifecycleStep, CheckStep, Call

-----------------------------------------------------------------------------
(***************************************************************************)
(* What a step does to the tasks, as far as the invariants look at them.   *)
(***************************************************************************)
Same(u) == task'[u].kind = task[u].kind /\ task'[u].pc = task[u].pc
Becomes(t, k, p) == /\ task'[t].kind = k /\ task'[t].pc = p
                    /\ \A u \in Tasks \ {t} : Same(u)

LEMMA DisposedKeeps ==
  ASSUME NEW tk, NEW u \in Tasks
  PROVE  Disposed(tk)[u].kind = tk[u].kind /\ Disposed(tk)[u].pc = tk[u].pc
  BY DEF Disposed

LEMMA Records == /\ Idle.kind = "idle" /\ Idle.pc = "idle"
                 /\ \A k, p : At(k, p).kind = k /\ At(k, p).pc = p
  BY DEF Idle, At

LEMMA GotoEffect ==
  ASSUME task \in TaskMap, NEW t \in Tasks, NEW p, Goto(t, p)
  PROVE  Becomes(t, task[t].kind, p)
  BY DEF Goto, Becomes, Same, TaskMap, Task

LEMMA DoneEffect ==
  ASSUME task \in TaskMap, NEW t \in Tasks, Done(t)
  PROVE  Becomes(t, "idle", "idle")
  BY DEF Done, Idle, Becomes, Same, TaskMap

LEMMA LaunchEffect ==
  ASSUME task \in TaskMap, NEW t \in Tasks, NEW k, NEW p, Launch(t, k, p)
  PROVE  app = "up" /\ task[t].pc = "idle" /\ Becomes(t, k, p)
  BY DEF Launch, At, Idle, Becomes, Same, TaskMap

LEMMA JudgeEffect ==
  ASSUME task \in TaskMap, NEW t \in Tasks, NEW v, Judge(t, v)
  PROVE  Becomes(t, task[t].kind, "write") \/ Becomes(t, "idle", "idle")
<1>1. CASE v = "no"
  BY <1>1 DEF Judge, Becomes, Same, TaskMap, Task
<1>2. CASE v # "no"
  BY <1>2, DoneEffect DEF Judge
<1> QED
  BY <1>1, <1>2

\* A status that is left disposes of the heartbeat and moves one task.
LEMMA LeaveEffect ==
  ASSUME task \in TaskMap, NEW t \in Tasks, NEW s, NEW r,
         Leave(s, [task EXCEPT ![t] = r])
  PROVE  status' = s /\ Becomes(t, r.kind, r.pc)
<1> DEFINE tk == [task EXCEPT ![t] = r]
<1>1. status' = s /\ task' = Disposed(tk)
  BY DEF Leave
<1>2. \A u \in Tasks : tk[u] = IF u = t THEN r ELSE task[u]
  BY DEF TaskMap
<1> HIDE DEF tk
<1> QED
  BY <1>1, <1>2, DisposedKeeps DEF Becomes, Same

LEMMA ResetEffect ==
  ASSUME task \in TaskMap, NEW t \in Tasks, ResetToStopped(t)
  PROVE  /\ status' = "stopped"
         /\ \/ Becomes(t, "idle", "idle") /\ Slip(os, slips \cup {"kept"})
            \/ Becomes(t, "clear", "erase") /\ UNCHANGED slips
<1>1. CASE Platform = "linux"
  <2>1. /\ Leave("stopped", [task EXCEPT ![t] = Idle])
        /\ Slip(os, slips \cup {"kept"})
    BY <1>1 DEF ResetToStopped
  <2> QED
    BY <2>1, LeaveEffect, Records
<1>2. CASE Platform # "linux"
  <2> DEFINE r == At("clear", "erase")
  <2>1. Leave("stopped", [task EXCEPT ![t] = r]) /\ UNCHANGED slips
    BY <1>2 DEF ResetToStopped
  <2>2. r.kind = "clear" /\ r.pc = "erase"
    BY Records
  <2> HIDE DEF r
  <2> QED
    BY <2>1, <2>2, LeaveEffect
<1> QED
  BY <1>1, <1>2

LEMMA RebuildEffect ==
  ASSUME Rebuild
  PROVE  app = "up" /\ UNCHANGED <<status, active>> /\ \A u \in Tasks : Same(u)
  BY DisposedKeeps DEF Rebuild, Leave, Same

LEMMA WriteFailsEffect ==
  ASSUME task \in TaskMap, NEW t \in Tasks, WriteFails(t)
  PROVE  \/ /\ Becomes(t, "idle", "idle")
            /\ \/ task[t].kind = "start" /\ status' = "running"
               \/ task[t].kind # "start" /\ status' \in {status, "stopped"}
         \/ /\ task[t].kind = "tamper" /\ UNCHANGED status
            /\ Becomes(t, "tamper", "write")
<1>1. CASE task[t].kind = "start" /\ status' = "running" /\ Done(t)
  BY <1>1, DoneEffect
<1>2. CASE task[t].kind = "guard" /\ GuardFailed(t)
  <2>1. \/ Done(t) /\ UNCHANGED status
        \/ Leave("stopped", [task EXCEPT ![t] = Idle])
    BY <1>2 DEF GuardFailed
  <2> QED
    BY <1>2, <2>1, DoneEffect, LeaveEffect, Records
<1>3. CASE /\ task[t].kind = "tamper" /\ UNCHANGED status
           /\ \/ task' = [task EXCEPT ![t].tries = @ + 1]
              \/ Done(t)
  BY <1>3, DoneEffect DEF WriteFails, Stands, Becomes, Same, TaskMap, Task
<1> QED
  BY <1>1, <1>2, <1>3 DEF WriteFails, SetFailed

LEMMA EnterStartEffect ==
  ASSUME task \in TaskMap, NEW t \in Tasks, EnterStart(t)
  PROVE  status' = "starting" /\ Becomes(t, task[t].kind, "bringUp")
<1> DEFINE tk == [task EXCEPT ![t].pc = "bringUp", ![t].live = (status # "running")]
<1>1. status' = "starting" /\ task' = Disposed(tk)
  BY DEF EnterStart, Leave
<1>2. \A u \in Tasks : /\ tk[u].kind = task[u].kind
                       /\ tk[u].pc = IF u = t THEN "bringUp" ELSE task[u].pc
  BY DEF TaskMap, Task
<1> HIDE DEF tk
<1> QED
  BY <1>1, <1>2, DisposedKeeps DEF Becomes, Same

LEMMA BeginStopEffect ==
  ASSUME task \in TaskMap, NEW t \in Tasks, BeginStop(t)
  PROVE  /\ status' = "stopping" /\ task[t].pc = "idle"
         /\ Becomes(t, "stop", "erase") \/ Becomes(t, "restart", "erase")
<1>1. PICK k \in {"stop", "restart"} : Leave("stopping", [task EXCEPT ![t] = At(k, "erase")])
  BY DEF BeginStop
<1> DEFINE r == At(k, "erase")
<1>2. Leave("stopping", [task EXCEPT ![t] = r])
  BY <1>1
<1>3. r.kind = k /\ r.pc = "erase"
  BY Records
<1>4. task[t].pc = "idle"
  BY Records DEF BeginStop
<1> HIDE DEF r
<1> QED
  BY <1>2, <1>3, <1>4, LeaveEffect

LEMMA KillCoreEffect ==
  ASSUME task \in TaskMap, NEW t \in Tasks, KillCore(t)
  PROVE  Becomes(t, "start", "begin") \/ Becomes(t, "idle", "idle")
<1>1. PICK r \in {At("start", "begin"), Idle} : task' = [task EXCEPT ![t] = r]
  BY DEF KillCore
<1> QED
  BY <1>1 DEF At, Idle, Becomes, Same, TaskMap

LEMMA SmallEffects ==
  ASSUME task \in TaskMap, NEW t \in Tasks
  PROVE  /\ Look(t) => Becomes(t, task[t].kind, "seen")
         /\ ColdStart(t) => UNCHANGED task \/ Becomes(t, "boot", "erase")
<1>1. ASSUME Look(t) PROVE Becomes(t, task[t].kind, "seen")
  <2>1. PICK v \in Reading : task' = [task EXCEPT ![t].pc = "seen", ![t].seen = v]
    BY <1>1 DEF Look
  <2> QED
    BY <2>1 DEF Becomes, Same, TaskMap, Task
<1>2. ASSUME ColdStart(t) PROVE UNCHANGED task \/ Becomes(t, "boot", "erase")
  BY <1>2 DEF ColdStart, At, Becomes, Same, TaskMap
<1> QED
  BY <1>1, <1>2

LEMMA UnmarkEffect ==
  ASSUME task \in TaskMap, NEW t \in Tasks, Unmark(t)
  PROVE  \/ /\ task[t].kind \in {"stop", "restart"} /\ UNCHANGED status
            /\ Becomes(t, task[t].kind, "kill")
         \/ /\ task[t].kind = "start" /\ status' = "running"
            /\ Becomes(t, "idle", "idle")
         \/ /\ task[t].kind \in {"clear", "boot"} /\ UNCHANGED status
            /\ Becomes(t, "idle", "idle")
<1>1. Cleared(t)
  BY DEF Unmark
<1> QED
  BY <1>1, GotoEffect, DoneEffect DEF Cleared

LEMMA CoreComesUpEffect ==
  ASSUME task \in TaskMap, NEW t \in Tasks, CoreComesUp(t)
  PROVE  \/ /\ active = "systemProxy" /\ UNCHANGED status
            /\ Becomes(t, task[t].kind, "write")
         \/ /\ active = "tun" /\ UNCHANGED status
            /\ Becomes(t, task[t].kind, "erase")
         \/ /\ active = "manual" /\ status' = "running"
            /\ Becomes(t, "idle", "idle")
  BY GotoEffect, DoneEffect DEF CoreComesUp

LEMMA CoreAnswersEffect ==
  ASSUME task \in TaskMap, NEW t \in Tasks, CoreAnswers(t)
  PROVE  \/ Becomes(t, task[t].kind, "write")
         \/ Becomes(t, task[t].kind, "look")
         \/ Becomes(t, "idle", "idle")
  BY JudgeEffect, GotoEffect, DoneEffect DEF CoreAnswers

LEMMA CoreSilentEffect ==
  ASSUME task \in TaskMap, NEW t \in Tasks, CoreSilent(t)
  PROVE  \/ Becomes(t, "idle", "idle") /\ UNCHANGED <<status, slips>>
         \/ ResetToStopped(t)
  BY DoneEffect DEF CoreSilent

\* A kill inside a set is on record; outside, the setting is not made ours.
LEMMA KillEffect ==
  ASSUME task \in TaskMap, Kill
  PROVE  /\ \A t \in Tasks : task'[t].kind = "idle" /\ task'[t].pc = "idle"
         /\ app' = "off" /\ status' = "stopped" /\ dirty' = dirtyDisk
         /\ UNCHANGED dirtyDisk
         /\ os' = "ours" =>
               \/ "died" \in slips'
               \/ /\ os = "ours" /\ slips' = slips
                  /\ \A t \in Tasks : task[t].pc \notin SetPcs
<1>1. /\ \A t \in Tasks : task'[t].kind = "idle" /\ task'[t].pc = "idle"
      /\ app' = "off" /\ status' = "stopped" /\ dirty' = dirtyDisk
      /\ UNCHANGED dirtyDisk
  BY Records DEF Kill
<1>2. ASSUME os' = "ours", NEW t \in Tasks, task[t].pc \in SetPcs
      PROVE  "died" \in slips'
  BY <1>2 DEF Kill, Slip
<1>3. ASSUME os' = "ours", \A t \in Tasks : task[t].pc \notin SetPcs
      PROVE  os = "ours" /\ slips' = slips
  <2>1. \A t \in Tasks : task[t].pc # "write"
    BY <1>3 DEF SetPcs
  <2>2. os = "ours"
    BY <1>3, <2>1 DEF Kill, Orphans
  <2>3. slips' = slips
    BY <1>3 DEF Kill, Slip
  <2> QED
    BY <2>2, <2>3
<1> QED
  BY <1>1, <1>2, <1>3

LEMMA Effects ==
  ASSUME task \in TaskMap, NEW t \in Tasks
  PROVE  /\ WriteOk(t) => Becomes(t, task[t].kind, "mark")
         /\ Mark(t) => Becomes(t, task[t].kind, "flush")
         /\ FlushMark(t) => Becomes(t, "idle", "idle")
         /\ Erase(t) => Becomes(t, task[t].kind, "unmark")
         /\ CoreFails(t) => Becomes(t, "idle", "idle")
         /\ Seen(t) => Becomes(t, task[t].kind, "write") \/ Becomes(t, "idle", "idle")
         /\ BeginStart(t) => app = "up" /\ task[t].pc = "idle" /\ Becomes(t, "start", "begin")
         /\ Ask(t) => app = "up" /\ task[t].pc = "idle" /\ (\E k \in {"guard", "tamper"} : Becomes(t, k, "health"))
         /\ Clear(t) => app = "up" /\ task[t].pc = "idle" /\ Becomes(t, "clear", "erase")
<1>1. ASSUME WriteOk(t) PROVE  Becomes(t, task[t].kind, "mark")
  BY <1>1, GotoEffect DEF WriteOk
<1>2. ASSUME Mark(t) PROVE  Becomes(t, task[t].kind, "flush")
  BY <1>2, GotoEffect DEF Mark
<1>3. ASSUME FlushMark(t) PROVE  Becomes(t, "idle", "idle")
  BY <1>3, DoneEffect DEF FlushMark, SetSucceeded
<1>4. ASSUME Erase(t) PROVE  Becomes(t, task[t].kind, "unmark")
  BY <1>4, GotoEffect DEF Erase
<1>5. ASSUME CoreFails(t) PROVE  Becomes(t, "idle", "idle")
  BY <1>5, DoneEffect DEF CoreFails
<1>6. ASSUME Seen(t) PROVE  Becomes(t, task[t].kind, "write") \/ Becomes(t, "idle", "idle")
  BY <1>6, JudgeEffect DEF Seen
<1>7. ASSUME BeginStart(t) PROVE  app = "up" /\ task[t].pc = "idle" /\ Becomes(t, "start", "begin")
  BY <1>7, LaunchEffect DEF BeginStart
<1>8. ASSUME Ask(t) PROVE  app = "up" /\ task[t].pc = "idle" /\ (\E k \in {"guard", "tamper"} : Becomes(t, k, "health"))
  BY <1>8, LaunchEffect DEF Ask
<1>9. ASSUME Clear(t) PROVE  app = "up" /\ task[t].pc = "idle" /\ Becomes(t, "clear", "erase")
  BY <1>9, LaunchEffect DEF Clear
<1> QED
  BY <1>1, <1>2, <1>3, <1>4, <1>5, <1>6, <1>7, <1>8, <1>9

-----------------------------------------------------------------------------
(***************************************************************************)
(* The inductive invariant.                                                *)
(***************************************************************************)
\* One lifecycle operation at a time; what stands where; a teardown under way
\* is over before the next connection; a start only writes for system proxy.
OpsInv ==
    /\ \A t, u \in Tasks : task[t].kind \in LifecycleKinds
                           /\ task[u].kind \in LifecycleKinds => t = u
    /\ \A t \in Tasks :
          /\ task[t].pc \in {"begin", "bringUp"} => task[t].kind = "start"
          /\ task[t].pc = "kill" => task[t].kind \in {"stop", "restart"}
          /\ task[t].pc \in {"health", "look", "seen"}
                => task[t].kind \in {"guard", "tamper"}
          /\ task[t].kind \in {"stop", "restart"}
                => status \in {"stopping", "stopped"}
          /\ task[t].kind = "start" /\ task[t].pc \in {"write", "mark", "flush"}
                => active = "systemProxy"

\* A dead app has no calls in flight, and its flag is what the disk says.
OffInv ==
    app = "off" => /\ \A t \in Tasks : task[t].kind = "idle" /\ task[t].pc = "idle"
                   /\ status = "stopped" /\ dirty = dirtyDisk
                   /\ os = "ours" => dirty \/ slips \cap Lost # {}

\* Without a connection the setting is excused, or somebody is about to
\* clear it, or a start is on its way to a connection.
CleanInv ==
    os = "ours" /\ status # "running" =>
        \/ slips # {}
        \/ \E t \in Tasks : task[t].pc \in {"erase", "unmark"}
        \/ \E t \in Tasks : task[t].kind = "start"
        \/ app = "off"

TunInv ==
    os = "ours" /\ status = "running" /\ active = "tun"
        => slips \cap {"late", "failed", "overlap"} # {}

\* A clear whose commands are done and that finds the setting ours has seen
\* one of them fail, or a set come in between.
ClearInv ==
    os = "ours" /\ (\E t \in Tasks : task[t].pc = "unmark")
        => slips \cap {"failed", "overlap"} # {}

\* The cached flag answers for the setting, or is about to.
BooksInv ==
    os = "ours" /\ slips \cap Lost = {}
        => dirty \/ \E t \in Tasks : task[t].pc = "mark"

IInv == /\ TypeOK /\ OpsInv /\ OffInv /\ FlagOnDisk
        /\ ClearInv /\ BooksInv /\ CleanInv /\ TunInv

LEMMA OpsStep == TypeOK /\ OpsInv /\ [Next]_vars => OpsInv'
<1> SUFFICES ASSUME TypeOK, OpsInv, [Next]_vars PROVE OpsInv'
  OBVIOUS
<1> task \in TaskMap
  BY DEF TypeOK, TaskMap
<1>1. CASE UNCHANGED vars
  BY <1>1 DEF OpsInv, vars, connVars
<1>2. ASSUME NEW t \in Tasks, WriteOk(t) PROVE OpsInv'
  BY <1>2, Effects
  DEF OpsInv, LifecycleKinds, Becomes, Same, WriteOk, Stands, connVars
<1>3. ASSUME NEW t \in Tasks, WriteFails(t) PROVE OpsInv'
  BY <1>3, WriteFailsEffect
  DEF OpsInv, LifecycleKinds, Becomes, Same, WriteFails, WriteFails, Stands
<1>4. ASSUME NEW t \in Tasks, Mark(t) PROVE OpsInv'
  BY <1>4, Effects
  DEF OpsInv, LifecycleKinds, Becomes, Same, Mark, Stands, connVars
<1>5. ASSUME NEW t \in Tasks, FlushMark(t) PROVE OpsInv'
  BY <1>5, Effects
  DEF OpsInv, LifecycleKinds, Becomes, Same, FlushMark, Stands, SetSucceeded
<1>6. ASSUME NEW t \in Tasks, Erase(t) PROVE OpsInv'
  BY <1>6, Effects
  DEF OpsInv, LifecycleKinds, Becomes, Same, Erase, Stands, connVars
<1>7. ASSUME NEW t \in Tasks, Unmark(t) PROVE OpsInv'
  <2>1. task[t].pc = "unmark" /\ UNCHANGED active
    BY <1>7 DEF Unmark, Stands
  <2> QED
    BY <1>7, <2>1, UnmarkEffect DEF OpsInv, LifecycleKinds, Becomes, Same
<1>8. ASSUME NEW t \in Tasks, EnterStart(t) PROVE OpsInv'
  BY <1>8, EnterStartEffect
  DEF OpsInv, LifecycleKinds, Becomes, Same, EnterStart, Stands
<1>9. ASSUME NEW t \in Tasks, CoreComesUp(t) PROVE OpsInv'
  BY <1>9, CoreComesUpEffect
  DEF OpsInv, LifecycleKinds, Becomes, Same, CoreComesUp, Stands
<1>10. ASSUME NEW t \in Tasks, CoreFails(t) PROVE OpsInv'
  <2>1. task[t].pc = "bringUp" /\ status' = "stopped" /\ UNCHANGED active
    BY <1>10 DEF CoreFails, Stands
  <2> QED
    BY <1>10, <2>1, Effects DEF OpsInv, LifecycleKinds, Becomes, Same
<1>11. ASSUME NEW t \in Tasks, KillCore(t) PROVE OpsInv'
  <2>1. task[t].pc = "kill" /\ status' = "stopped" /\ UNCHANGED active
    BY <1>11 DEF KillCore, Stands
  <2> QED
    BY <1>11, <2>1, KillCoreEffect DEF OpsInv, LifecycleKinds, Becomes, Same
<1>12. ASSUME NEW t \in Tasks, CoreAnswers(t) PROVE OpsInv'
  BY <1>12, CoreAnswersEffect
  DEF OpsInv, LifecycleKinds, Becomes, Same, CoreAnswers, Stands
<1>13. ASSUME NEW t \in Tasks, CoreSilent(t) PROVE OpsInv'
  BY <1>13, CoreSilentEffect, ResetEffect
  DEF OpsInv, LifecycleKinds, Becomes, Same, CoreSilent, Stands
<1>14. ASSUME NEW t \in Tasks, Look(t) PROVE OpsInv'
  <2>1. task[t].pc = "look" /\ UNCHANGED <<status, active>>
    BY <1>14 DEF Look, Stands, connVars
  <2> QED
    BY <1>14, <2>1, SmallEffects DEF OpsInv, LifecycleKinds, Becomes, Same
<1>15. ASSUME NEW t \in Tasks, Seen(t) PROVE OpsInv'
  BY <1>15, Effects
  DEF OpsInv, LifecycleKinds, Becomes, Same, Seen, Stands
<1>16. ASSUME NEW t \in Tasks, BeginStart(t) PROVE OpsInv'
  BY <1>16, Effects
  DEF OpsInv, LifecycleKinds, Becomes, Same, BeginStart, NoOperation,
      connVars
<1>17. ASSUME NEW t \in Tasks, BeginStop(t) PROVE OpsInv'
  <2>1. UNCHANGED active /\ \A u \in Tasks : task[u].kind \notin LifecycleKinds
    BY <1>17 DEF BeginStop, NoOperation
  <2> QED
    BY <1>17, <2>1, BeginStopEffect DEF OpsInv, LifecycleKinds, Becomes, Same
<1>18. ASSUME NEW t \in Tasks, Ask(t) PROVE OpsInv'
  BY <1>18, Effects
  DEF OpsInv, LifecycleKinds, Becomes, Same, Ask, connVars
<1>19. ASSUME NEW t \in Tasks, Reset(t) PROVE OpsInv'
  BY <1>19, ResetEffect
  DEF OpsInv, LifecycleKinds, Becomes, Same, Reset
<1>20. ASSUME NEW t \in Tasks, Clear(t) PROVE OpsInv'
  BY <1>20, Effects
  DEF OpsInv, LifecycleKinds, Becomes, Same, Clear, connVars
<1>21. ASSUME NEW t \in Tasks, ColdStart(t) PROVE OpsInv'
  BY <1>21, SmallEffects
  DEF OpsInv, LifecycleKinds, Becomes, Same, ColdStart, connVars
<1>22. ASSUME NEW m \in Modes, SwitchMode(m) PROVE OpsInv'
  BY <1>22
  DEF OpsInv, LifecycleKinds, Becomes, Same, SwitchMode, connVars
<1>23. ASSUME LazyFlush PROVE OpsInv'
  BY <1>23
  DEF OpsInv, LifecycleKinds, Becomes, Same, LazyFlush, connVars
<1>24. ASSUME Rebuild PROVE OpsInv'
  BY <1>24, RebuildEffect DEF OpsInv, Same
<1>25. ASSUME Expire PROVE OpsInv'
  BY <1>25
  DEF OpsInv, LifecycleKinds, Becomes, Same, Expire, connVars
<1>26. ASSUME Stolen PROVE OpsInv'
  BY <1>26
  DEF OpsInv, LifecycleKinds, Becomes, Same, Stolen, connVars
<1>27. ASSUME Kill PROVE OpsInv'
  BY <1>27
  DEF OpsInv, LifecycleKinds, Becomes, Same, Kill, Idle
<1> QED
  BY <1>1, <1>2, <1>3, <1>4, <1>5, <1>6, <1>7, <1>8, <1>9, <1>10, <1>11,
     <1>12, <1>13, <1>14, <1>15, <1>16, <1>17, <1>18, <1>19, <1>20, <1>21,
     <1>22, <1>23, <1>24, <1>25, <1>26, <1>27
  DEF Next, Step, SetStep, ClearStep, LifecycleStep, CheckStep, Call

LEMMA OffStep ==
  TypeOK /\ OffInv /\ FlagOnDisk /\ BooksInv /\ [Next]_vars => OffInv'
<1> SUFFICES ASSUME TypeOK, OffInv, FlagOnDisk, BooksInv, [Next]_vars
             PROVE  OffInv'
  OBVIOUS
<1>1. CASE UNCHANGED vars
  BY <1>1 DEF OffInv, vars, osVars, flagVars, connVars
<1>2. ASSUME NEW t \in Tasks, WriteOk(t) PROVE OffInv'
  BY <1>2
  DEF OffInv, WriteOk, Stands
<1>3. ASSUME NEW t \in Tasks, WriteFails(t) PROVE OffInv'
  BY <1>3
  DEF OffInv, WriteFails, Stands
<1>4. ASSUME NEW t \in Tasks, Mark(t) PROVE OffInv'
  BY <1>4
  DEF OffInv, Mark, Stands
<1>5. ASSUME NEW t \in Tasks, FlushMark(t) PROVE OffInv'
  BY <1>5
  DEF OffInv, FlushMark, Stands
<1>6. ASSUME NEW t \in Tasks, Erase(t) PROVE OffInv'
  BY <1>6
  DEF OffInv, Erase, Stands
<1>7. ASSUME NEW t \in Tasks, Unmark(t) PROVE OffInv'
  BY <1>7
  DEF OffInv, Unmark, Stands, Cleared
<1>8. ASSUME NEW t \in Tasks, EnterStart(t) PROVE OffInv'
  BY <1>8
  DEF OffInv, EnterStart, Stands
<1>9. ASSUME NEW t \in Tasks, CoreComesUp(t) PROVE OffInv'
  BY <1>9
  DEF OffInv, CoreComesUp, Stands
<1>10. ASSUME NEW t \in Tasks, CoreFails(t) PROVE OffInv'
  BY <1>10
  DEF OffInv, CoreFails, Stands
<1>11. ASSUME NEW t \in Tasks, KillCore(t) PROVE OffInv'
  BY <1>11
  DEF OffInv, KillCore, Stands
<1>12. ASSUME NEW t \in Tasks, CoreAnswers(t) PROVE OffInv'
  BY <1>12
  DEF OffInv, CoreAnswers, Stands
<1>13. ASSUME NEW t \in Tasks, CoreSilent(t) PROVE OffInv'
  BY <1>13
  DEF OffInv, CoreSilent, Stands
<1>14. ASSUME NEW t \in Tasks, Look(t) PROVE OffInv'
  BY <1>14
  DEF OffInv, Look, Stands
<1>15. ASSUME NEW t \in Tasks, Seen(t) PROVE OffInv'
  BY <1>15
  DEF OffInv, Seen, Stands
<1>16. ASSUME NEW t \in Tasks, BeginStart(t) PROVE OffInv'
  BY <1>16
  DEF OffInv, BeginStart, Launch
<1>17. ASSUME NEW t \in Tasks, BeginStop(t) PROVE OffInv'
  BY <1>17
  DEF OffInv, BeginStop
<1>18. ASSUME NEW t \in Tasks, Ask(t) PROVE OffInv'
  BY <1>18
  DEF OffInv, Ask
<1>19. ASSUME NEW t \in Tasks, Reset(t) PROVE OffInv'
  BY <1>19
  DEF OffInv, Reset
<1>20. ASSUME NEW t \in Tasks, Clear(t) PROVE OffInv'
  BY <1>20
  DEF OffInv, Clear, Launch
<1>21. ASSUME NEW t \in Tasks, ColdStart(t) PROVE OffInv'
  BY <1>21
  DEF OffInv, ColdStart
<1>22. ASSUME NEW m \in Modes, SwitchMode(m) PROVE OffInv'
  BY <1>22
  DEF OffInv, SwitchMode
<1>23. ASSUME LazyFlush PROVE OffInv'
  BY <1>23
  DEF OffInv, LazyFlush
<1>24. ASSUME Rebuild PROVE OffInv'
  BY <1>24
  DEF OffInv, Rebuild
<1>25. ASSUME Expire PROVE OffInv'
  BY <1>25
  DEF OffInv, Expire, osVars, flagVars, connVars
<1>26. ASSUME Stolen PROVE OffInv'
  BY <1>26
  DEF OffInv, Stolen, flagVars, connVars
<1>27. ASSUME Kill PROVE OffInv'
  <2>1. task \in TaskMap
    BY DEF TypeOK, TaskMap
  <2>2. os' = "ours" => dirty' \/ slips' \cap Lost # {}
    BY <1>27, <2>1, KillEffect DEF FlagOnDisk, BooksInv, TypeOK, Lost, SetPcs
  <2> QED
    BY <1>27, <2>1, <2>2, KillEffect DEF OffInv
<1> QED
  BY <1>1, <1>2, <1>3, <1>4, <1>5, <1>6, <1>7, <1>8, <1>9, <1>10, <1>11,
     <1>12, <1>13, <1>14, <1>15, <1>16, <1>17, <1>18, <1>19, <1>20, <1>21,
     <1>22, <1>23, <1>24, <1>25, <1>26, <1>27
  DEF Next, Step, SetStep, ClearStep, LifecycleStep, CheckStep, Call

LEMMA FlagStep == TypeOK /\ OffInv /\ FlagOnDisk /\ [Next]_vars => FlagOnDisk'
<1> SUFFICES ASSUME TypeOK, OffInv, FlagOnDisk, [Next]_vars PROVE FlagOnDisk'
  OBVIOUS
<1> task \in TaskMap
  BY DEF TypeOK, TaskMap
<1>1. CASE UNCHANGED vars
  BY <1>1 DEF FlagOnDisk, vars, flagVars
<1>2. ASSUME NEW t \in Tasks, WriteOk(t) PROVE FlagOnDisk'
  BY <1>2, Effects
  DEF FlagOnDisk, Becomes, Same, WriteOk, Stands, flagVars
<1>3. ASSUME NEW t \in Tasks, WriteFails(t) PROVE FlagOnDisk'
  <2>1. task[t].pc = "write" /\ UNCHANGED <<dirty, dirtyDisk>>
    BY <1>3 DEF WriteFails, Stands, flagVars
  <2> QED
    BY <1>3, <2>1, WriteFailsEffect DEF FlagOnDisk, Becomes, Same
<1>4. ASSUME NEW t \in Tasks, Mark(t) PROVE FlagOnDisk'
  BY <1>4, Effects
  DEF FlagOnDisk, Becomes, Same, Mark
<1>5. ASSUME NEW t \in Tasks, FlushMark(t) PROVE FlagOnDisk'
  BY <1>5, Effects
  DEF FlagOnDisk, Becomes, Same, FlushMark
<1>6. ASSUME NEW t \in Tasks, Erase(t) PROVE FlagOnDisk'
  BY <1>6, Effects
  DEF FlagOnDisk, Becomes, Same, Erase, Stands, flagVars
<1>7. ASSUME NEW t \in Tasks, Unmark(t) PROVE FlagOnDisk'
  BY <1>7, UnmarkEffect
  DEF FlagOnDisk, Becomes, Same, Unmark
<1>8. ASSUME NEW t \in Tasks, EnterStart(t) PROVE FlagOnDisk'
  <2>1. task[t].pc = "begin" /\ UNCHANGED <<dirty, dirtyDisk>>
    BY <1>8 DEF EnterStart, Stands, flagVars
  <2> QED
    BY <1>8, <2>1, EnterStartEffect DEF FlagOnDisk, Becomes, Same
<1>9. ASSUME NEW t \in Tasks, CoreComesUp(t) PROVE FlagOnDisk'
  BY <1>9, CoreComesUpEffect
  DEF FlagOnDisk, Becomes, Same, CoreComesUp, Stands, flagVars
<1>10. ASSUME NEW t \in Tasks, CoreFails(t) PROVE FlagOnDisk'
  BY <1>10, Effects
  DEF FlagOnDisk, Becomes, Same, CoreFails, Stands, flagVars
<1>11. ASSUME NEW t \in Tasks, KillCore(t) PROVE FlagOnDisk'
  <2>1. task[t].pc = "kill" /\ UNCHANGED <<dirty, dirtyDisk>>
    BY <1>11 DEF KillCore, Stands, flagVars
  <2> QED
    BY <1>11, <2>1, KillCoreEffect DEF FlagOnDisk, Becomes, Same
<1>12. ASSUME NEW t \in Tasks, CoreAnswers(t) PROVE FlagOnDisk'
  BY <1>12, CoreAnswersEffect
  DEF FlagOnDisk, Becomes, Same, CoreAnswers, Stands, flagVars
<1>13. ASSUME NEW t \in Tasks, CoreSilent(t) PROVE FlagOnDisk'
  <2>1. task[t].pc = "health" /\ UNCHANGED <<dirty, dirtyDisk>>
    BY <1>13 DEF CoreSilent, Stands, flagVars
  <2> QED
    BY <1>13, <2>1, CoreSilentEffect, ResetEffect DEF FlagOnDisk, Becomes, Same
<1>14. ASSUME NEW t \in Tasks, Look(t) PROVE FlagOnDisk'
  <2>1. task[t].pc = "look" /\ UNCHANGED <<dirty, dirtyDisk>>
    BY <1>14 DEF Look, Stands, flagVars
  <2> QED
    BY <1>14, <2>1, SmallEffects DEF FlagOnDisk, Becomes, Same
<1>15. ASSUME NEW t \in Tasks, Seen(t) PROVE FlagOnDisk'
  BY <1>15, Effects
  DEF FlagOnDisk, Becomes, Same, Seen, Stands, flagVars
<1>16. ASSUME NEW t \in Tasks, BeginStart(t) PROVE FlagOnDisk'
  BY <1>16, Effects
  DEF FlagOnDisk, Becomes, Same, BeginStart, flagVars
<1>17. ASSUME NEW t \in Tasks, BeginStop(t) PROVE FlagOnDisk'
  <2>1. UNCHANGED <<dirty, dirtyDisk>>
    BY <1>17 DEF BeginStop, flagVars
  <2> QED
    BY <1>17, <2>1, BeginStopEffect DEF FlagOnDisk, Becomes, Same
<1>18. ASSUME NEW t \in Tasks, Ask(t) PROVE FlagOnDisk'
  BY <1>18, Effects
  DEF FlagOnDisk, Becomes, Same, Ask, flagVars
<1>19. ASSUME NEW t \in Tasks, Reset(t) PROVE FlagOnDisk'
  <2>1. task[t].pc = "idle" /\ ResetToStopped(t) /\ UNCHANGED <<dirty, dirtyDisk, os>>
    BY <1>19 DEF Reset, Idle, flagVars
  <2> QED
    BY <1>19, <2>1, ResetEffect DEF FlagOnDisk, Becomes, Same
<1>20. ASSUME NEW t \in Tasks, Clear(t) PROVE FlagOnDisk'
  BY <1>20, Effects
  DEF FlagOnDisk, Becomes, Same, Clear, flagVars
<1>21. ASSUME NEW t \in Tasks, ColdStart(t) PROVE FlagOnDisk'
  <2>1. app = "off" /\ UNCHANGED <<dirty, dirtyDisk>>
    BY <1>21 DEF ColdStart, flagVars
  <2> QED
    BY <1>21, <2>1 DEF FlagOnDisk, OffInv
<1>22. ASSUME NEW m \in Modes, SwitchMode(m) PROVE FlagOnDisk'
  BY <1>22
  DEF FlagOnDisk, Becomes, Same, SwitchMode, flagVars
<1>23. ASSUME LazyFlush PROVE FlagOnDisk'
  BY <1>23
  DEF FlagOnDisk, Becomes, Same, LazyFlush
<1>24. ASSUME Rebuild PROVE FlagOnDisk'
  BY <1>24, RebuildEffect DEF FlagOnDisk, Rebuild, flagVars, Same
<1>25. ASSUME Expire PROVE FlagOnDisk'
  BY <1>25
  DEF FlagOnDisk, Becomes, Same, Expire, flagVars
<1>26. ASSUME Stolen PROVE FlagOnDisk'
  BY <1>26
  DEF FlagOnDisk, Becomes, Same, Stolen, flagVars
<1>27. ASSUME Kill PROVE FlagOnDisk'
  BY <1>27
  DEF FlagOnDisk, Becomes, Same, Kill
<1> QED
  BY <1>1, <1>2, <1>3, <1>4, <1>5, <1>6, <1>7, <1>8, <1>9, <1>10, <1>11,
     <1>12, <1>13, <1>14, <1>15, <1>16, <1>17, <1>18, <1>19, <1>20, <1>21,
     <1>22, <1>23, <1>24, <1>25, <1>26, <1>27
  DEF Next, Step, SetStep, ClearStep, LifecycleStep, CheckStep, Call

LEMMA UnmarkStep == TypeOK /\ OffInv /\ ClearInv /\ [Next]_vars => ClearInv'
<1> SUFFICES ASSUME TypeOK, OffInv, ClearInv, [Next]_vars PROVE ClearInv'
  OBVIOUS
<1> task \in TaskMap
  BY DEF TypeOK, TaskMap
<1>1. CASE UNCHANGED vars
  BY <1>1 DEF ClearInv, vars, flagVars, osVars
<1>2. ASSUME NEW t \in Tasks, WriteOk(t) PROVE ClearInv'
  <2>1. task[t].pc = "write" /\ Becomes(t, task[t].kind, "mark")
    BY <1>2, Effects DEF WriteOk, Stands
  <2>2. ASSUME os' = "ours", NEW u \in Tasks, task'[u].pc = "unmark"
        PROVE  "overlap" \in slips'
    <3>1. task[u].pc = "unmark"
      BY <2>1, <2>2 DEF Becomes, Same
    <3> QED
      BY <1>2, <2>2, <3>1 DEF WriteOk, Slip, AfterSet, Stands
  <2> QED
    BY <2>2 DEF ClearInv
<1>3. ASSUME NEW t \in Tasks, WriteFails(t) PROVE ClearInv'
  <2>1. task[t].pc = "write"
    BY <1>3 DEF WriteFails, Stands
  <2>2. os' = "ours" => slips \subseteq slips' /\ (os = "ours" \/ "failed" \in slips')
    BY <1>3 DEF WriteFails, Slip
  <2> QED
    BY <1>3, <2>1, <2>2, WriteFailsEffect DEF ClearInv, Becomes, Same
<1>4. ASSUME NEW t \in Tasks, Mark(t) PROVE ClearInv'
  BY <1>4, Effects
  DEF ClearInv, Becomes, Same, Mark, osVars
<1>5. ASSUME NEW t \in Tasks, FlushMark(t) PROVE ClearInv'
  BY <1>5, Effects
  DEF ClearInv, Becomes, Same, FlushMark, Stands, osVars
<1>6. ASSUME NEW t \in Tasks, Erase(t) PROVE ClearInv'
  <2>1. os' = "ours" => "failed" \in slips'
    BY <1>6 DEF Erase, Slip
  <2> QED
    BY <2>1 DEF ClearInv
<1>7. ASSUME NEW t \in Tasks, Unmark(t) PROVE ClearInv'
  BY <1>7 DEF ClearInv, Unmark, Stands, osVars
<1>8. ASSUME NEW t \in Tasks, EnterStart(t) PROVE ClearInv'
  <2>1. task[t].pc = "begin" /\ UNCHANGED <<os, slips, dirty>>
    BY <1>8 DEF EnterStart, Stands, osVars, flagVars
  <2> QED
    BY <1>8, <2>1, EnterStartEffect DEF ClearInv, Becomes, Same
<1>9. ASSUME NEW t \in Tasks, CoreComesUp(t) PROVE ClearInv'
  BY <1>9, CoreComesUpEffect
  DEF ClearInv, Becomes, Same, CoreComesUp, Stands, osVars, flagVars
<1>10. ASSUME NEW t \in Tasks, CoreFails(t) PROVE ClearInv'
  BY <1>10, Effects
  DEF ClearInv, Becomes, Same, CoreFails, Stands, Slip, flagVars
<1>11. ASSUME NEW t \in Tasks, KillCore(t) PROVE ClearInv'
  <2>1. task[t].pc = "kill" /\ UNCHANGED <<os, slips, dirty>>
    BY <1>11 DEF KillCore, Stands, osVars, flagVars
  <2> QED
    BY <1>11, <2>1, KillCoreEffect DEF ClearInv, Becomes, Same
<1>12. ASSUME NEW t \in Tasks, CoreAnswers(t) PROVE ClearInv'
  BY <1>12, CoreAnswersEffect
  DEF ClearInv, Becomes, Same, CoreAnswers, Stands, osVars, flagVars
<1>13. ASSUME NEW t \in Tasks, CoreSilent(t) PROVE ClearInv'
  <2>1. task[t].pc = "health" /\ UNCHANGED <<os, dirty>>
    BY <1>13 DEF CoreSilent, Stands, flagVars
  <2> QED
    BY <1>13, <2>1, CoreSilentEffect, ResetEffect DEF ClearInv, Becomes, Same, Slip
<1>14. ASSUME NEW t \in Tasks, Look(t) PROVE ClearInv'
  <2>1. task[t].pc = "look" /\ UNCHANGED <<os, slips, dirty>>
    BY <1>14 DEF Look, Stands, osVars, flagVars
  <2> QED
    BY <1>14, <2>1, SmallEffects DEF ClearInv, Becomes, Same
<1>15. ASSUME NEW t \in Tasks, Seen(t) PROVE ClearInv'
  BY <1>15, Effects
  DEF ClearInv, Becomes, Same, Seen, Stands, osVars, flagVars
<1>16. ASSUME NEW t \in Tasks, BeginStart(t) PROVE ClearInv'
  BY <1>16, Effects
  DEF ClearInv, Becomes, Same, BeginStart, osVars, flagVars
<1>17. ASSUME NEW t \in Tasks, BeginStop(t) PROVE ClearInv'
  <2>1. UNCHANGED <<os, slips, dirty>>
    BY <1>17 DEF BeginStop, osVars, flagVars
  <2> QED
    BY <1>17, <2>1, BeginStopEffect DEF ClearInv, Becomes, Same
<1>18. ASSUME NEW t \in Tasks, Ask(t) PROVE ClearInv'
  BY <1>18, Effects
  DEF ClearInv, Becomes, Same, Ask, osVars, flagVars
<1>19. ASSUME NEW t \in Tasks, Reset(t) PROVE ClearInv'
  <2>1. task[t].pc = "idle" /\ ResetToStopped(t) /\ UNCHANGED <<os, dirty>>
    BY <1>19 DEF Reset, Idle, flagVars
  <2> QED
    BY <2>1, ResetEffect DEF ClearInv, Becomes, Same, Slip
<1>20. ASSUME NEW t \in Tasks, Clear(t) PROVE ClearInv'
  BY <1>20, Effects
  DEF ClearInv, Becomes, Same, Clear, osVars, flagVars
<1>21. ASSUME NEW t \in Tasks, ColdStart(t) PROVE ClearInv'
  <2>1. /\ \A u \in Tasks : task[u].pc = "idle"
        /\ UNCHANGED task \/ Becomes(t, "boot", "erase")
    BY <1>21, SmallEffects DEF ColdStart, OffInv
  <2> QED
    BY <2>1 DEF ClearInv, Becomes, Same
<1>22. ASSUME NEW m \in Modes, SwitchMode(m) PROVE ClearInv'
  BY <1>22
  DEF ClearInv, Becomes, Same, SwitchMode, osVars, flagVars
<1>23. ASSUME LazyFlush PROVE ClearInv'
  BY <1>23
  DEF ClearInv, Becomes, Same, LazyFlush, osVars
<1>24. ASSUME Rebuild PROVE ClearInv'
  BY <1>24, RebuildEffect DEF ClearInv, Rebuild, osVars, Same
<1>25. ASSUME Expire PROVE ClearInv'
  BY <1>25
  DEF ClearInv, Becomes, Same, Expire, osVars, flagVars
<1>26. ASSUME Stolen PROVE ClearInv'
  BY <1>26
  DEF ClearInv, Becomes, Same, Stolen, flagVars
<1>27. ASSUME Kill PROVE ClearInv'
  BY <1>27, KillEffect DEF ClearInv
<1> QED
  BY <1>1, <1>2, <1>3, <1>4, <1>5, <1>6, <1>7, <1>8, <1>9, <1>10, <1>11,
     <1>12, <1>13, <1>14, <1>15, <1>16, <1>17, <1>18, <1>19, <1>20, <1>21,
     <1>22, <1>23, <1>24, <1>25, <1>26, <1>27
  DEF Next, Step, SetStep, ClearStep, LifecycleStep, CheckStep, Call

LEMMA BooksStep ==
  TypeOK /\ OffInv /\ FlagOnDisk /\ ClearInv /\ BooksInv /\ [Next]_vars => BooksInv'
<1> SUFFICES ASSUME TypeOK, OffInv, FlagOnDisk, ClearInv, BooksInv, [Next]_vars
             PROVE  BooksInv'
  OBVIOUS
<1> task \in TaskMap
  BY DEF TypeOK, TaskMap
<1>1. CASE UNCHANGED vars
  BY <1>1 DEF BooksInv, vars, flagVars, osVars
<1>2. ASSUME NEW t \in Tasks, WriteOk(t) PROVE BooksInv'
  BY <1>2, Effects
  DEF BooksInv, Becomes, Same, WriteOk, flagVars
<1>3. ASSUME NEW t \in Tasks, WriteFails(t) PROVE BooksInv'
  <2>1. task[t].pc = "write" /\ UNCHANGED dirty
    BY <1>3 DEF WriteFails, Stands, flagVars
  <2>2. os' = "ours" => slips \subseteq slips' /\ (os = "ours" \/ "failed" \in slips')
    BY <1>3 DEF WriteFails, Slip
  <2> QED
    BY <1>3, <2>1, <2>2, WriteFailsEffect DEF BooksInv, Lost, Becomes, Same
<1>4. ASSUME NEW t \in Tasks, Mark(t) PROVE BooksInv'
  BY <1>4, Effects
  DEF BooksInv, Becomes, Same, Mark, osVars
<1>5. ASSUME NEW t \in Tasks, FlushMark(t) PROVE BooksInv'
  BY <1>5, Effects
  DEF BooksInv, Becomes, Same, FlushMark, Stands, osVars
<1>6. ASSUME NEW t \in Tasks, Erase(t) PROVE BooksInv'
  BY <1>6, Effects
  DEF BooksInv, Becomes, Same, Erase, Stands, Slip, flagVars
<1>7. ASSUME NEW t \in Tasks, Unmark(t) PROVE BooksInv'
  BY <1>7 DEF BooksInv, ClearInv, Lost, Unmark, Stands, osVars
<1>8. ASSUME NEW t \in Tasks, EnterStart(t) PROVE BooksInv'
  <2>1. task[t].pc = "begin" /\ UNCHANGED <<os, slips, dirty>>
    BY <1>8 DEF EnterStart, Stands, osVars, flagVars
  <2> QED
    BY <1>8, <2>1, EnterStartEffect DEF BooksInv, Becomes, Same
<1>9. ASSUME NEW t \in Tasks, CoreComesUp(t) PROVE BooksInv'
  BY <1>9, CoreComesUpEffect
  DEF BooksInv, Becomes, Same, CoreComesUp, Stands, osVars, flagVars
<1>10. ASSUME NEW t \in Tasks, CoreFails(t) PROVE BooksInv'
  BY <1>10, Effects
  DEF BooksInv, Becomes, Same, CoreFails, Stands, Slip, flagVars
<1>11. ASSUME NEW t \in Tasks, KillCore(t) PROVE BooksInv'
  <2>1. task[t].pc = "kill" /\ UNCHANGED <<os, slips, dirty>>
    BY <1>11 DEF KillCore, Stands, osVars, flagVars
  <2> QED
    BY <1>11, <2>1, KillCoreEffect DEF BooksInv, Becomes, Same
<1>12. ASSUME NEW t \in Tasks, CoreAnswers(t) PROVE BooksInv'
  BY <1>12, CoreAnswersEffect
  DEF BooksInv, Becomes, Same, CoreAnswers, Stands, osVars, flagVars
<1>13. ASSUME NEW t \in Tasks, CoreSilent(t) PROVE BooksInv'
  <2>1. task[t].pc = "health" /\ UNCHANGED <<os, dirty>>
    BY <1>13 DEF CoreSilent, Stands, flagVars
  <2> QED
    BY <1>13, <2>1, CoreSilentEffect, ResetEffect DEF BooksInv, Becomes, Same, Slip
<1>14. ASSUME NEW t \in Tasks, Look(t) PROVE BooksInv'
  <2>1. task[t].pc = "look" /\ UNCHANGED <<os, slips, dirty>>
    BY <1>14 DEF Look, Stands, osVars, flagVars
  <2> QED
    BY <1>14, <2>1, SmallEffects DEF BooksInv, Becomes, Same
<1>15. ASSUME NEW t \in Tasks, Seen(t) PROVE BooksInv'
  BY <1>15, Effects
  DEF BooksInv, Becomes, Same, Seen, Stands, osVars, flagVars
<1>16. ASSUME NEW t \in Tasks, BeginStart(t) PROVE BooksInv'
  BY <1>16, Effects
  DEF BooksInv, Becomes, Same, BeginStart, osVars, flagVars
<1>17. ASSUME NEW t \in Tasks, BeginStop(t) PROVE BooksInv'
  <2>1. UNCHANGED <<os, slips, dirty>>
    BY <1>17 DEF BeginStop, osVars, flagVars
  <2> QED
    BY <1>17, <2>1, BeginStopEffect DEF BooksInv, Becomes, Same
<1>18. ASSUME NEW t \in Tasks, Ask(t) PROVE BooksInv'
  BY <1>18, Effects
  DEF BooksInv, Becomes, Same, Ask, osVars, flagVars
<1>19. ASSUME NEW t \in Tasks, Reset(t) PROVE BooksInv'
  <2>1. task[t].pc = "idle" /\ ResetToStopped(t) /\ UNCHANGED <<os, dirty>>
    BY <1>19 DEF Reset, Idle, flagVars
  <2> QED
    BY <2>1, ResetEffect DEF BooksInv, Becomes, Same, Slip
<1>20. ASSUME NEW t \in Tasks, Clear(t) PROVE BooksInv'
  BY <1>20, Effects
  DEF BooksInv, Becomes, Same, Clear, osVars, flagVars
<1>21. ASSUME NEW t \in Tasks, ColdStart(t) PROVE BooksInv'
  <2>1. app = "off" /\ UNCHANGED <<os, slips, dirty>>
    BY <1>21 DEF ColdStart, osVars, flagVars
  <2> QED
    BY <1>21, <2>1 DEF BooksInv, OffInv
<1>22. ASSUME NEW m \in Modes, SwitchMode(m) PROVE BooksInv'
  BY <1>22
  DEF BooksInv, Becomes, Same, SwitchMode, osVars, flagVars
<1>23. ASSUME LazyFlush PROVE BooksInv'
  BY <1>23
  DEF BooksInv, Becomes, Same, LazyFlush, osVars
<1>24. ASSUME Rebuild PROVE BooksInv'
  BY <1>24, RebuildEffect DEF BooksInv, Rebuild, osVars, flagVars, Same
<1>25. ASSUME Expire PROVE BooksInv'
  BY <1>25
  DEF BooksInv, Becomes, Same, Expire, osVars, flagVars
<1>26. ASSUME Stolen PROVE BooksInv'
  BY <1>26
  DEF BooksInv, Becomes, Same, Stolen, flagVars
<1>27. ASSUME Kill PROVE BooksInv'
  BY <1>27, KillEffect DEF BooksInv, FlagOnDisk, Lost, SetPcs
<1> QED
  BY <1>1, <1>2, <1>3, <1>4, <1>5, <1>6, <1>7, <1>8, <1>9, <1>10, <1>11,
     <1>12, <1>13, <1>14, <1>15, <1>16, <1>17, <1>18, <1>19, <1>20, <1>21,
     <1>22, <1>23, <1>24, <1>25, <1>26, <1>27
  DEF Next, Step, SetStep, ClearStep, LifecycleStep, CheckStep, Call

LEMMA CleanStep ==
  TypeOK /\ OpsInv /\ OffInv /\ ClearInv /\ CleanInv /\ [Next]_vars => CleanInv'
<1> SUFFICES ASSUME TypeOK, OpsInv, OffInv, ClearInv, CleanInv, [Next]_vars
             PROVE  CleanInv'
  OBVIOUS
<1> task \in TaskMap
  BY DEF TypeOK, TaskMap
<1>1. CASE UNCHANGED vars
  BY <1>1 DEF CleanInv, vars, connVars, osVars
<1>2. ASSUME NEW t \in Tasks, WriteOk(t) PROVE CleanInv'
  <2>1. CASE Wanted(t)
    BY <1>2, <2>1, Effects DEF CleanInv, Wanted, Becomes, WriteOk, connVars
  <2>2. CASE ~Wanted(t)
    <3>1. os' = "ours" => "late" \in slips'
      BY <1>2, <2>2 DEF WriteOk, Slip, AfterSet, Late
    <3> QED
      BY <3>1 DEF CleanInv
  <2> QED
    BY <2>1, <2>2
<1>3. ASSUME NEW t \in Tasks, WriteFails(t) PROVE CleanInv'
  <2>1. CASE Wanted(t)
    <3>1. IF task[t].kind = "start" THEN status' = "running"
                                    ELSE status' \in {status, "stopped"}
      BY <1>3, WriteFailsEffect
    <3>2. status # "stopped" /\ status' = "stopped" /\ os' = "ours" => "kept" \in slips'
      BY <1>3 DEF WriteFails, Slip
    <3> QED
      BY <2>1, <3>1, <3>2 DEF CleanInv, Wanted
  <2>2. CASE ~Wanted(t)
    <3>1. os' = "ours" => "late" \in slips'
      BY <1>3, <2>2 DEF WriteFails, Slip, Late
    <3> QED
      BY <3>1 DEF CleanInv
  <2> QED
    BY <2>1, <2>2
<1>4. ASSUME NEW t \in Tasks, Mark(t) PROVE CleanInv'
  BY <1>4, Effects
  DEF CleanInv, Becomes, Same, Mark, Stands, osVars, connVars
<1>5. ASSUME NEW t \in Tasks, FlushMark(t) PROVE CleanInv'
  BY <1>5, Effects
  DEF CleanInv, Becomes, Same, FlushMark, Stands, SetSucceeded, osVars
<1>6. ASSUME NEW t \in Tasks, Erase(t) PROVE CleanInv'
  <2>1. task'[t].pc = "unmark"
    BY <1>6, Effects DEF Becomes
  <2> QED
    BY <2>1 DEF CleanInv
<1>7. ASSUME NEW t \in Tasks, Unmark(t) PROVE CleanInv'
  <2>1. task[t].pc = "unmark" /\ UNCHANGED <<os, slips>>
    BY <1>7 DEF Unmark, Stands, osVars
  <2> QED
    BY <2>1 DEF ClearInv, CleanInv
<1>8. ASSUME NEW t \in Tasks, EnterStart(t) PROVE CleanInv'
  <2>1. task'[t].kind = "start"
    BY <1>8, EnterStartEffect DEF EnterStart, Stands, OpsInv, Becomes
  <2> QED
    BY <2>1 DEF CleanInv
<1>9. ASSUME NEW t \in Tasks, CoreComesUp(t) PROVE CleanInv'
  <2>1. task'[t].kind = "start" \/ status' = "running"
    BY <1>9, CoreComesUpEffect DEF CoreComesUp, Stands, OpsInv, Becomes
  <2> QED
    BY <2>1 DEF CleanInv
<1>10. ASSUME NEW t \in Tasks, CoreFails(t) PROVE CleanInv'
  <2>1. os' = "ours" => "kept" \in slips'
    BY <1>10 DEF CoreFails, Slip
  <2> QED
    BY <2>1 DEF CleanInv
<1>11. ASSUME NEW t \in Tasks, KillCore(t) PROVE CleanInv'
  <2>1. /\ task[t].pc = "kill" /\ task[t].kind \in {"stop", "restart"}
        /\ status # "running" /\ UNCHANGED <<os, slips>>
    BY <1>11 DEF KillCore, Stands, OpsInv, osVars
  <2>2. app # "off" /\ \A u \in Tasks : task[u].kind # "start"
    BY <2>1 DEF OpsInv, OffInv, LifecycleKinds
  <2> QED
    BY <1>11, <2>1, <2>2, KillCoreEffect DEF CleanInv, Becomes, Same
<1>12. ASSUME NEW t \in Tasks, CoreAnswers(t) PROVE CleanInv'
  <2>1. task[t].pc = "health" /\ task[t].kind # "start" /\ UNCHANGED <<os, slips, status, app>>
    BY <1>12 DEF CoreAnswers, Stands, OpsInv, osVars
  <2> QED
    BY <1>12, <2>1, CoreAnswersEffect DEF CleanInv, Becomes, Same
<1>13. ASSUME NEW t \in Tasks, CoreSilent(t) PROVE CleanInv'
  <2>1. /\ task[t].pc = "health" /\ task[t].kind # "start"
        /\ UNCHANGED <<os, app>>
    BY <1>13 DEF CoreSilent, Stands, OpsInv
  <2> QED
    BY <1>13, <2>1, CoreSilentEffect, ResetEffect DEF CleanInv, Becomes, Same, Slip
<1>14. ASSUME NEW t \in Tasks, Look(t) PROVE CleanInv'
  <2>1. task[t].pc = "look" /\ task[t].kind # "start" /\ UNCHANGED <<os, slips, status, app>>
    BY <1>14 DEF Look, Stands, OpsInv, osVars, connVars
  <2> QED
    BY <1>14, <2>1, SmallEffects DEF CleanInv, Becomes, Same
<1>15. ASSUME NEW t \in Tasks, Seen(t) PROVE CleanInv'
  <2>1. task[t].pc = "seen" /\ task[t].kind # "start" /\ UNCHANGED <<os, slips, status, app>>
    BY <1>15 DEF Seen, Stands, OpsInv, osVars
  <2> QED
    BY <1>15, <2>1, Effects DEF CleanInv, Becomes, Same
<1>16. ASSUME NEW t \in Tasks, BeginStart(t) PROVE CleanInv'
  <2>1. task'[t].kind = "start"
    BY <1>16, Effects DEF Becomes
  <2> QED
    BY <2>1 DEF CleanInv
<1>17. ASSUME NEW t \in Tasks, BeginStop(t) PROVE CleanInv'
  <2>1. task'[t].pc = "erase"
    BY <1>17, BeginStopEffect DEF Becomes
  <2> QED
    BY <2>1 DEF CleanInv
<1>18. ASSUME NEW t \in Tasks, Ask(t) PROVE CleanInv'
  <2>1. task[t].pc = "idle" /\ task[t].kind # "start" /\ status = "running"
    BY <1>18, Effects, Records DEF Ask, Launch
  <2> QED
    BY <1>18, <2>1 DEF Ask, connVars, CleanInv
<1>19. ASSUME NEW t \in Tasks, Reset(t) PROVE CleanInv'
  <2>1. ResetToStopped(t) /\ UNCHANGED os
    BY <1>19 DEF Reset
  <2> QED
    BY <2>1, ResetEffect DEF CleanInv, Becomes, Slip
<1>20. ASSUME NEW t \in Tasks, Clear(t) PROVE CleanInv'
  <2>1. task'[t].pc = "erase"
    BY <1>20, Effects DEF Becomes
  <2> QED
    BY <2>1 DEF CleanInv
<1>21. ASSUME NEW t \in Tasks, ColdStart(t) PROVE CleanInv'
  <2>1. app = "off" /\ (dirty => task'[t].pc = "erase") /\ UNCHANGED <<os, slips>>
    BY <1>21, SmallEffects, Records DEF ColdStart, osVars, Becomes, TaskMap
  <2> QED
    BY <2>1 DEF CleanInv, OffInv
<1>22. ASSUME NEW m \in Modes, SwitchMode(m) PROVE CleanInv'
  BY <1>22
  DEF CleanInv, Becomes, Same, SwitchMode, osVars, connVars
<1>23. ASSUME LazyFlush PROVE CleanInv'
  BY <1>23
  DEF CleanInv, Becomes, Same, LazyFlush, osVars, connVars
<1>24. ASSUME Rebuild PROVE CleanInv'
  BY <1>24, RebuildEffect DEF CleanInv, Rebuild, osVars, Same
<1>25. ASSUME Expire PROVE CleanInv'
  BY <1>25
  DEF CleanInv, Becomes, Same, Expire, osVars, connVars
<1>26. ASSUME Stolen PROVE CleanInv'
  BY <1>26
  DEF CleanInv, Becomes, Same, Stolen
<1>27. ASSUME Kill PROVE CleanInv'
  BY <1>27
  DEF CleanInv, Becomes, Same, Kill
<1> QED
  BY <1>1, <1>2, <1>3, <1>4, <1>5, <1>6, <1>7, <1>8, <1>9, <1>10, <1>11,
     <1>12, <1>13, <1>14, <1>15, <1>16, <1>17, <1>18, <1>19, <1>20, <1>21,
     <1>22, <1>23, <1>24, <1>25, <1>26, <1>27
  DEF Next, Step, SetStep, ClearStep, LifecycleStep, CheckStep, Call

LEMMA TunStep == TypeOK /\ OpsInv /\ ClearInv /\ TunInv /\ [Next]_vars => TunInv'
<1> SUFFICES ASSUME TypeOK, OpsInv, ClearInv, TunInv, [Next]_vars PROVE TunInv'
  OBVIOUS
<1> task \in TaskMap
  BY DEF TypeOK, TaskMap
<1>1. CASE UNCHANGED vars
  BY <1>1 DEF TunInv, vars, osVars, connVars
<1>2. ASSUME NEW t \in Tasks, WriteOk(t) PROVE TunInv'
  <2>1. CASE Wanted(t)
    BY <1>2, <2>1 DEF TunInv, Wanted, WriteOk, Stands, OpsInv, connVars
  <2>2. CASE ~Wanted(t)
    <3>1. os' = "ours" => "late" \in slips'
      BY <1>2, <2>2 DEF WriteOk, Slip, AfterSet, Late
    <3> QED
      BY <3>1 DEF TunInv
  <2> QED
    BY <2>1, <2>2
<1>3. ASSUME NEW t \in Tasks, WriteFails(t) PROVE TunInv'
  <2>1. CASE Wanted(t)
    BY <1>3, <2>1 DEF TunInv, Wanted, WriteFails, Stands, OpsInv
  <2>2. CASE ~Wanted(t)
    <3>1. os' = "ours" => "late" \in slips'
      BY <1>3, <2>2 DEF WriteFails, Slip, Late
    <3> QED
      BY <3>1 DEF TunInv
  <2> QED
    BY <2>1, <2>2
<1>4. ASSUME NEW t \in Tasks, Mark(t) PROVE TunInv'
  BY <1>4 DEF Mark, TunInv, osVars, connVars
<1>5. ASSUME NEW t \in Tasks, FlushMark(t) PROVE TunInv'
  BY <1>5 DEF TunInv, FlushMark, SetSucceeded, Stands, OpsInv, osVars
<1>6. ASSUME NEW t \in Tasks, Erase(t) PROVE TunInv'
  BY <1>6 DEF TunInv, Erase, Slip, connVars
<1>7. ASSUME NEW t \in Tasks, Unmark(t) PROVE TunInv'
  <2>1. task[t].pc = "unmark" /\ UNCHANGED <<os, slips>>
    BY <1>7 DEF Unmark, Stands, osVars
  <2> QED
    BY <2>1 DEF ClearInv, TunInv
<1>8. ASSUME NEW t \in Tasks, EnterStart(t) PROVE TunInv'
  BY <1>8, EnterStartEffect DEF TunInv
<1>9. ASSUME NEW t \in Tasks, CoreComesUp(t) PROVE TunInv'
  <2>1. UNCHANGED <<os, slips, active>>
    BY <1>9 DEF CoreComesUp, osVars
  <2> QED
    BY <1>9, <2>1, CoreComesUpEffect DEF TunInv
<1>10. ASSUME NEW t \in Tasks, CoreFails(t) PROVE TunInv'
  BY <1>10 DEF CoreFails, TunInv
<1>11. ASSUME NEW t \in Tasks, KillCore(t) PROVE TunInv'
  BY <1>11 DEF KillCore, TunInv
<1>12. ASSUME NEW t \in Tasks, CoreAnswers(t) PROVE TunInv'
  BY <1>12 DEF CoreAnswers, TunInv, osVars
<1>13. ASSUME NEW t \in Tasks, CoreSilent(t) PROVE TunInv'
  <2>1. UNCHANGED <<os, active>>
    BY <1>13 DEF CoreSilent
  <2> QED
    BY <1>13, <2>1, CoreSilentEffect, ResetEffect DEF TunInv
<1>14. ASSUME NEW t \in Tasks, Look(t) PROVE TunInv'
  BY <1>14 DEF Look, TunInv, osVars, connVars
<1>15. ASSUME NEW t \in Tasks, Seen(t) PROVE TunInv'
  BY <1>15 DEF Seen, TunInv, osVars
<1>16. ASSUME NEW t \in Tasks, BeginStart(t) PROVE TunInv'
  BY <1>16 DEF BeginStart, TunInv, osVars, connVars
<1>17. ASSUME NEW t \in Tasks, BeginStop(t) PROVE TunInv'
  BY <1>17, BeginStopEffect DEF TunInv
<1>18. ASSUME NEW t \in Tasks, Ask(t) PROVE TunInv'
  BY <1>18 DEF Ask, TunInv, osVars, connVars
<1>19. ASSUME NEW t \in Tasks, Reset(t) PROVE TunInv'
  BY <1>19, ResetEffect DEF Reset, TunInv
<1>20. ASSUME NEW t \in Tasks, Clear(t) PROVE TunInv'
  BY <1>20 DEF Clear, TunInv, osVars, connVars
<1>21. ASSUME NEW t \in Tasks, ColdStart(t) PROVE TunInv'
  BY <1>21 DEF ColdStart, TunInv, osVars, connVars
<1>22. ASSUME NEW m \in Modes, SwitchMode(m) PROVE TunInv'
  BY <1>22 DEF SwitchMode, TunInv, osVars, connVars
<1>23. ASSUME LazyFlush PROVE TunInv'
  BY <1>23 DEF LazyFlush, TunInv, osVars, connVars
<1>24. ASSUME Rebuild PROVE TunInv'
  BY <1>24 DEF Rebuild, Leave, TunInv, osVars
<1>25. ASSUME Expire PROVE TunInv'
  BY <1>25 DEF Expire, TunInv, osVars, connVars
<1>26. ASSUME Stolen PROVE TunInv'
  BY <1>26 DEF Stolen, TunInv
<1>27. ASSUME Kill PROVE TunInv'
  BY <1>27 DEF Kill, TunInv
<1> QED
  BY <1>1, <1>2, <1>3, <1>4, <1>5, <1>6, <1>7, <1>8, <1>9, <1>10, <1>11,
     <1>12, <1>13, <1>14, <1>15, <1>16, <1>17, <1>18, <1>19, <1>20, <1>21,
     <1>22, <1>23, <1>24, <1>25, <1>26, <1>27
  DEF Next, Step, SetStep, ClearStep, LifecycleStep, CheckStep, Call

-----------------------------------------------------------------------------
LEMMA IInvInit == Init => IInv
<1> SUFFICES ASSUME Init PROVE IInv
  OBVIOUS
<1>1. \A t \in Tasks : task[t].kind = "idle" /\ task[t].pc = "idle"
  BY Records DEF Init
<1>2. OpsInv
  BY <1>1 DEF OpsInv, LifecycleKinds
<1>3. OffInv /\ FlagOnDisk /\ ClearInv /\ BooksInv /\ CleanInv /\ TunInv
  BY DEF Init, OffInv, FlagOnDisk, ClearInv, BooksInv, CleanInv, TunInv
<1> QED
  BY TypeInit, <1>2, <1>3 DEF IInv

LEMMA IInvStep == IInv /\ [Next]_vars => IInv'
  BY TypeStep, OpsStep, OffStep, FlagStep, UnmarkStep, BooksStep, CleanStep, TunStep
  DEF IInv

LEMMA Invariance == SafeSpec => []IInv
  BY IInvInit, IInvStep, PTL DEF SafeSpec

\* The state of the proxy manager and of its callers is well formed; in
\* particular ProxyGuard never counts past its limit.
THEOREM ProxyTypes == SafeSpec => []TypeOK
<1>1. IInv => TypeOK
  BY DEF IInv
<1> QED
  BY <1>1, Invariance, PTL

\* A setting that points at us has its flag on disk or a set about to write it,
\* but for failed commands, a set inside a clear and a kill inside a set.
THEOREM SettingOnTheBooks == SafeSpec => []Accounted
<1>1. IInv => Accounted
  BY DEF IInv, BooksInv, FlagOnDisk, Accounted
<1> QED
  BY <1>1, Invariance, PTL

\* A dirty flag is on disk or being flushed, across kills and cold starts.
THEOREM FlagReachesDisk == SafeSpec => []FlagOnDisk
<1>1. IInv => FlagOnDisk
  BY DEF IInv
<1> QED
  BY <1>1, Invariance, PTL

\* At rest after a disconnect, a reset or a cold start the OS does not route
\* into a dead port, but for the reasons named in slips.
THEOREM DisconnectLeavesItClean == SafeSpec => []StoppedIsClean
<1>1. IInv => StoppedIsClean
  BY Records DEF IInv, CleanInv, StoppedIsClean, Quiet
<1> QED
  BY <1>1, Invariance, PTL

\* With TUN up the setting is not ours, but for a late restore, a
\* failed clear or a set inside a clear.
THEOREM TunHasNoRival == SafeSpec => []TunIsAlone
<1>1. IInv => TunIsAlone
  BY DEF IInv, TunInv, TunIsAlone
<1> QED
  BY <1>1, Invariance, PTL
=============================================================================
