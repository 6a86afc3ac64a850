------------------------ MODULE ServiceRuntime_proofs ------------------------
(***************************************************************************)
(* Theorems about ServiceRuntime, for any number of calls and processes.   *)
(* The inductive invariant IInv adds to the properties who holds opMu,     *)
(* what a waiting call may find, and how a process, its goroutine, its     *)
(* channel and its context go together.                                    *)
(***************************************************************************)
EXTENDS ServiceRuntime, TLAPS

Gone == {"decide", "count", "backoff", "lock", "done"}

\* opMu is held by the call that is past taking it, and no session is on then.
LockInv ==
    /\ \A c \in Calls : pc[c] \in {"await", "spawn"} <=> opMu = c
    /\ opMu # Free <=> session = "ending"
    /\ opMu # Free => watchdog = NoProc

\* What a call that holds opMu may find.
AwaitInv ==
    /\ \A c \in Calls : pc[c] = "await" => child \in {target[c], NoProc}
    /\ \A c \in Calls : pc[c] = "await" => target[c] # NoProc
    /\ \A c \in Calls : pc[c] \in {"new", "lock"} => target[c] = NoProc
    /\ \A c \in Calls : pc[c] = "spawn" => kind[c] = "start"
    /\ SpawnsAlone

\* A process, its goroutine and its channel.
ProcInv ==
    /\ \A p \in Procs : reaper[p] = "none" <=> proc[p] = "none"
    /\ \A p \in Procs : reaper[p] \notin {"none", "wait"} => proc[p] = "dead"
    /\ \A p \in closed : reaper[p] \in Gone
    /\ ChildIsWatched
    /\ NoStrayProcess

\* The context that is not cancelled.
ContextInv ==
    /\ live = {watchdog} \ {NoProc}
    /\ watchdog # NoProc /\ reaper[watchdog] = "wait" => child = watchdog
    /\ watchdog # NoProc => reaper[watchdog] \notin {"none", "farewell"}
    /\ session = "on" => watchdog # NoProc /\ reaper[watchdog] # "done"

\* After a stop that no watchdog overtook nothing can start a process.
QuietInv ==
    session \in {"ending", "off"} /\ ~overtaken =>
        /\ watchdog = NoProc
        /\ \A p \in Procs : reaper[p] # "lock"
        /\ session = "off" => child = NoProc

IInv == TypeOK /\ LockInv /\ AwaitInv /\ ProcInv /\ ContextInv /\ QuietInv

USE NoProcAssumption, FreeAssumption, CrashAssumption

\* The initial states satisfy the invariant.
LEMMA InitInv == Init => IInv
  <1> SUFFICES ASSUME Init PROVE IInv
    OBVIOUS
  <1>1. TypeOK
    BY DEF Init, TypeOK, CallPcs, ReaperPcs, Running
  <1>2. LockInv /\ AwaitInv
    BY DEF Init, LockInv, AwaitInv, SpawnsAlone
  <1>3. ProcInv
    BY DEF Init, ProcInv, ChildIsWatched, NoStrayProcess, Running
  <1>4. ContextInv /\ QuietInv
    BY DEF Init, ContextInv, QuietInv
  <1> QED BY <1>1, <1>2, <1>3, <1>4 DEF IInv

-----------------------------------------------------------------------------
\* Every step keeps the types.
LEMMA TypeStep == ASSUME TypeOK, [Next]_vars PROVE TypeOK'
  <1> USE DEF TypeOK, CallKinds, CallPcs, ReaperPcs, Running, callVars,
              procVars, watchVars, crashVars, histVars
  <1>1. ASSUME NEW c \in Calls, Arrive(c) PROVE TypeOK'
    BY <1>1 DEF Arrive
  <1>2. ASSUME NEW c \in Calls, EnterStop(c) PROVE TypeOK'
    <2>1. CASE child = NoProc
      BY <1>2, <2>1 DEF EnterStop, StopHalfDone
    <2>2. CASE child # NoProc /\ SignalChild(c)
      BY <1>2, <2>2 DEF EnterStop, SignalChild
    <2>3. CASE child # NoProc /\ Fail(c) /\ UNCHANGED procVars
      BY <1>2, <2>3 DEF EnterStop, Fail
    <2> QED BY <1>2, <2>1, <2>2, <2>3 DEF EnterStop
  <1>3. ASSUME NEW c \in Calls, ChildGone(c) \/ ChildStuck(c) \/ SpawnFails(c)
        PROVE  TypeOK'
    BY <1>3 DEF ChildGone, ChildStuck, SpawnFails, StopHalfDone, Fail
  <1>4. ASSUME NEW c \in Calls, NEW p \in Procs, Spawn(c, p) PROVE TypeOK'
    BY <1>4 DEF Spawn, StartMihomoInternal
  <1>5. ASSUME NEW p \in Procs, Exit(p) \/ Reap(p) \/ CloseDone(p) \/ Decide(p)
        PROVE  TypeOK'
    BY <1>5 DEF Exit, Reap, CloseDone, Decide
  <1>6. ASSUME NEW p \in Procs, Count(p) PROVE TypeOK'
    BY <1>6 DEF Count
  <1>7. ASSUME NEW p \in Procs, BackoffEnds(p) \/ RestartFails(p) PROVE TypeOK'
    BY <1>7 DEF BackoffEnds, RestartFails
  <1>8. ASSUME NEW p \in Procs, NEW q \in Procs, Restart(p, q) PROVE TypeOK'
    BY <1>8 DEF Restart, StartMihomoInternal
  <1>9. ASSUME HelperExits \/ WindowEnds \/ Rest \/ UNCHANGED vars PROVE TypeOK'
    BY <1>9 DEF HelperExits, WindowEnds, Rest, vars
  <1> QED
    BY <1>1, <1>2, <1>3, <1>4, <1>5, <1>6, <1>7, <1>8, <1>9
    DEF Next, Serve, Wait

\* opMu stays with the call that took it.
LEMMA LockStep == ASSUME IInv, [Next]_vars PROVE LockInv'
  <1> USE DEF IInv, TypeOK, LockInv, ContextInv,
              callVars, procVars, watchVars, crashVars, histVars
  <1>1. ASSUME NEW c \in Calls, Arrive(c) PROVE LockInv'
    BY <1>1 DEF Arrive
  <1>2. ASSUME NEW c \in Calls, EnterStop(c) PROVE LockInv'
    BY <1>2 DEF EnterStop, StopHalfDone, SignalChild, Fail
  <1>3. ASSUME NEW c \in Calls, ChildGone(c) \/ ChildStuck(c) \/ SpawnFails(c)
        PROVE  LockInv'
    BY <1>3 DEF ChildGone, ChildStuck, SpawnFails, StopHalfDone, Fail
  <1>4. ASSUME NEW c \in Calls, NEW p \in Procs, Spawn(c, p) PROVE LockInv'
    BY <1>4 DEF Spawn, StartMihomoInternal
  <1>5. ASSUME NEW p \in Procs, Exit(p) \/ Reap(p) \/ CloseDone(p) \/ Decide(p)
        PROVE  LockInv'
    BY <1>5 DEF Exit, Reap, CloseDone, Decide
  <1>6. ASSUME NEW p \in Procs, Count(p) PROVE LockInv'
    BY <1>6 DEF Count
  <1>7. ASSUME NEW p \in Procs, BackoffEnds(p) \/ RestartFails(p)
        PROVE  LockInv'
    BY <1>7 DEF BackoffEnds, RestartFails
  <1>8. ASSUME NEW p \in Procs, NEW q \in Procs, Restart(p, q) PROVE LockInv'
    BY <1>8 DEF Restart, StartMihomoInternal
  <1>9. ASSUME HelperExits \/ WindowEnds \/ Rest \/ UNCHANGED vars
        PROVE  LockInv'
    BY <1>9 DEF HelperExits, WindowEnds, Rest, vars
  <1> QED
    BY <1>1, <1>2, <1>3, <1>4, <1>5, <1>6, <1>7, <1>8, <1>9
    DEF Next, Serve, Wait

\* What the call that holds opMu may find.
LEMMA AwaitStep == ASSUME IInv, [Next]_vars PROVE AwaitInv'
  <1> USE DEF IInv, TypeOK, LockInv, AwaitInv, ProcInv, SpawnsAlone,
              ChildIsWatched, Gone, callVars, procVars, watchVars,
              crashVars, histVars
  <1>1. ASSUME NEW c \in Calls, Arrive(c) PROVE AwaitInv'
    BY <1>1 DEF Arrive
  <1>2. ASSUME NEW c \in Calls, EnterStop(c) PROVE AwaitInv'
    BY <1>2 DEF EnterStop, StopHalfDone, SignalChild, Fail
  <1>3. ASSUME NEW c \in Calls, ChildGone(c) \/ ChildStuck(c) \/ SpawnFails(c)
        PROVE  AwaitInv'
    BY <1>3 DEF ChildGone, ChildStuck, SpawnFails, StopHalfDone, Fail
  <1>4. ASSUME NEW c \in Calls, NEW p \in Procs, Spawn(c, p) PROVE AwaitInv'
    BY <1>4 DEF Spawn, StartMihomoInternal
  <1>5. ASSUME NEW p \in Procs, Exit(p) \/ Reap(p) \/ CloseDone(p) \/ Decide(p)
        PROVE  AwaitInv'
    BY <1>5 DEF Exit, Reap, CloseDone, Decide
  <1>6. ASSUME NEW p \in Procs, Count(p) PROVE AwaitInv'
    BY <1>6 DEF Count
  <1>7. ASSUME NEW p \in Procs, BackoffEnds(p) \/ RestartFails(p)
        PROVE  AwaitInv'
    BY <1>7 DEF BackoffEnds, RestartFails
  <1>8. ASSUME NEW p \in Procs, NEW q \in Procs, Restart(p, q) PROVE AwaitInv'
    BY <1>8 DEF Restart, StartMihomoInternal
  <1>9. ASSUME HelperExits \/ WindowEnds \/ Rest \/ UNCHANGED vars
        PROVE  AwaitInv'
    BY <1>9 DEF HelperExits, WindowEnds, Rest, vars
  <1> QED
    BY <1>1, <1>2, <1>3, <1>4, <1>5, <1>6, <1>7, <1>8, <1>9
    DEF Next, Serve, Wait

\* Processes, goroutines and channels stay together.
LEMMA ProcStep == ASSUME IInv, [Next]_vars PROVE ProcInv'
  <1> USE DEF IInv, TypeOK, LockInv, AwaitInv, ProcInv, SpawnsAlone,
              ChildIsWatched, NoStrayProcess, Running, Gone,
              callVars, procVars, watchVars, crashVars, histVars
  <1>1. ASSUME NEW c \in Calls, Arrive(c) PROVE ProcInv'
    BY <1>1 DEF Arrive
  <1>2. ASSUME NEW c \in Calls, EnterStop(c) PROVE ProcInv'
    BY <1>2 DEF EnterStop, StopHalfDone, SignalChild, Fail
  <1>3. ASSUME NEW c \in Calls, ChildGone(c) \/ ChildStuck(c) \/ SpawnFails(c)
        PROVE  ProcInv'
    BY <1>3 DEF ChildGone, ChildStuck, SpawnFails, StopHalfDone, Fail
  <1>4. ASSUME NEW c \in Calls, NEW p \in Procs, Spawn(c, p) PROVE ProcInv'
    BY <1>4 DEF Spawn, StartMihomoInternal
  <1>5. ASSUME NEW p \in Procs, Exit(p) \/ Reap(p) \/ CloseDone(p) \/ Decide(p)
        PROVE  ProcInv'
    BY <1>5 DEF Exit, Reap, CloseDone, Decide
  <1>6. ASSUME NEW p \in Procs, Count(p) PROVE ProcInv'
    BY <1>6 DEF Count
  <1>7. ASSUME NEW p \in Procs, BackoffEnds(p) \/ RestartFails(p)
        PROVE  ProcInv'
    BY <1>7 DEF BackoffEnds, RestartFails
  <1>8. ASSUME NEW p \in Procs, NEW q \in Procs, Restart(p, q) PROVE ProcInv'
    BY <1>8 DEF Restart, StartMihomoInternal
  <1>9. ASSUME HelperExits \/ WindowEnds \/ Rest \/ UNCHANGED vars
        PROVE  ProcInv'
    BY <1>9 DEF HelperExits, WindowEnds, Rest, vars
  <1> QED
    BY <1>1, <1>2, <1>3, <1>4, <1>5, <1>6, <1>7, <1>8, <1>9
    DEF Next, Serve, Wait

\* The context of the last process is the one not cancelled.
LEMMA ContextStep == ASSUME IInv, [Next]_vars PROVE ContextInv'
  <1> USE DEF IInv, TypeOK, LockInv, ProcInv, ContextInv,
              ChildIsWatched, Gone, callVars, procVars, watchVars,
              crashVars, histVars
  <1>1. ASSUME NEW c \in Calls, Arrive(c) PROVE ContextInv'
    BY <1>1 DEF Arrive
  <1>2. ASSUME NEW c \in Calls, EnterStop(c) PROVE ContextInv'
    BY <1>2 DEF EnterStop, StopHalfDone, SignalChild, Fail
  <1>3. ASSUME NEW c \in Calls, ChildGone(c) \/ ChildStuck(c) \/ SpawnFails(c)
        PROVE  ContextInv'
    BY <1>3 DEF ChildGone, ChildStuck, SpawnFails, StopHalfDone, Fail
  <1>4. ASSUME NEW c \in Calls, NEW p \in Procs, Spawn(c, p) PROVE ContextInv'
    BY <1>4 DEF Spawn, StartMihomoInternal
  <1>5. ASSUME NEW p \in Procs, Exit(p) \/ Reap(p) \/ CloseDone(p) \/ Decide(p)
        PROVE  ContextInv'
    BY <1>5 DEF Exit, Reap, CloseDone, Decide
  <1>6. ASSUME NEW p \in Procs, Count(p) PROVE ContextInv'
    BY <1>6 DEF Count
  <1>7. ASSUME NEW p \in Procs, BackoffEnds(p) \/ RestartFails(p)
        PROVE  ContextInv'
    BY <1>7 DEF BackoffEnds, RestartFails
  <1>8. ASSUME NEW p \in Procs, NEW q \in Procs, Restart(p, q)
        PROVE  ContextInv'
    BY <1>8 DEF Restart, StartMihomoInternal
  <1>9. ASSUME HelperExits \/ WindowEnds \/ Rest \/ UNCHANGED vars
        PROVE  ContextInv'
    BY <1>9 DEF HelperExits, WindowEnds, Rest, vars
  <1> QED
    BY <1>1, <1>2, <1>3, <1>4, <1>5, <1>6, <1>7, <1>8, <1>9
    DEF Next, Serve, Wait

\* After a stop that nobody overtook nothing is about to start.
LEMMA QuietStep == ASSUME IInv, [Next]_vars PROVE QuietInv'
  <1> USE DEF IInv, TypeOK, LockInv, ProcInv, ContextInv, QuietInv,
              AwaitInv, SpawnsAlone, ChildIsWatched, Gone, callVars, procVars, watchVars,
              crashVars, histVars
  <1>1. ASSUME NEW c \in Calls, Arrive(c) PROVE QuietInv'
    BY <1>1 DEF Arrive
  <1>2. ASSUME NEW c \in Calls, EnterStop(c) PROVE QuietInv'
    BY <1>2 DEF EnterStop, StopHalfDone, SignalChild, Fail
  <1>3. ASSUME NEW c \in Calls, ChildGone(c) \/ ChildStuck(c) \/ SpawnFails(c)
        PROVE  QuietInv'
    BY <1>3 DEF ChildGone, ChildStuck, SpawnFails, StopHalfDone, Fail
  <1>4. ASSUME NEW c \in Calls, NEW p \in Procs, Spawn(c, p) PROVE QuietInv'
    BY <1>4 DEF Spawn, StartMihomoInternal
  <1>5. ASSUME NEW p \in Procs, Exit(p) \/ Reap(p) \/ CloseDone(p) \/ Decide(p)
        PROVE  QuietInv'
    BY <1>5 DEF Exit, Reap, CloseDone, Decide
  <1>6. ASSUME NEW p \in Procs, Count(p) PROVE QuietInv'
    BY <1>6 DEF Count
  <1>7. ASSUME NEW p \in Procs, BackoffEnds(p) \/ RestartFails(p)
        PROVE  QuietInv'
    BY <1>7 DEF BackoffEnds, RestartFails
  <1>8. ASSUME NEW p \in Procs, NEW q \in Procs, Restart(p, q) PROVE QuietInv'
    BY <1>8 DEF Restart, StartMihomoInternal
  <1>9. ASSUME HelperExits \/ WindowEnds \/ Rest \/ UNCHANGED vars
        PROVE  QuietInv'
    BY <1>9 DEF HelperExits, WindowEnds, Rest, vars
  <1> QED
    BY <1>1, <1>2, <1>3, <1>4, <1>5, <1>6, <1>7, <1>8, <1>9
    DEF Next, Serve, Wait

\* The invariant holds in every reachable state.
LEMMA IInvHolds == SafeSpec => []IInv
  <1>1. IInv /\ [Next]_vars => IInv'
    BY TypeStep, LockStep, AwaitStep, ProcStep, ContextStep, QuietStep DEF IInv
  <1> QED BY InitInv, <1>1, PTL DEF SafeSpec

-----------------------------------------------------------------------------
\* The types are kept.
THEOREM TypeCorrect == SafeSpec => []TypeOK
  <1>1. IInv => TypeOK
    BY DEF IInv
  <1> QED BY <1>1, IInvHolds, PTL

\* The child on record is watched, a start spawns alone, and no process runs
\* that the helper lost track of other than through a late watchdog.
THEOREM ChildrenTracked == SafeSpec => [](ChildIsWatched /\ SpawnsAlone /\ NoStrayProcess)
  <1>1. IInv => ChildIsWatched /\ SpawnsAlone /\ NoStrayProcess
    BY DEF IInv, AwaitInv, ProcInv
  <1> QED BY <1>1, IInvHolds, PTL

\* At most one watchdog context is alive, and a session that is on has a
\* goroutine that will bring its process back.
THEOREM SessionsGuarded == SafeSpec => [](OneContext /\ SessionGuarded)
  <1>1. IInv => OneContext
    BY DEF IInv, ContextInv, OneContext
  <1>2. IInv => SessionGuarded
    BY DEF IInv, ContextInv, SessionGuarded
  <1> QED BY <1>1, <1>2, IInvHolds, PTL

\* A stop that answered ok leaves no child, unless a watchdog overtook it.
THEOREM StopsHold == SafeSpec => []StopHolds
  <1>1. IInv => StopHolds
    BY DEF IInv, TypeOK, QuietInv, StopHolds
  <1> QED BY <1>1, IInvHolds, PTL

\* What StopMeansStopped asks of one call.
AnswersLate(c) ==
    kind[c] # "start" /\ pc[c] # "ok" /\ pc'[c] = "ok"
        => /\ child' = NoProc
           /\ target[c] # NoProc => proc[target[c]] = "dead"

\* A stop answers ok only after the process it stopped is gone.
THEOREM StopAnswersLate == SafeSpec => StopMeansStopped
  <1>1. ASSUME IInv, Next, NEW c \in Calls PROVE AnswersLate(c)
    <2> USE <1>1 DEF AnswersLate, IInv, TypeOK, AwaitInv, ProcInv, ChildIsWatched,
                     callVars, procVars
    <2>1. ASSUME NEW d \in Calls, Arrive(d) PROVE AnswersLate(c)
      BY <2>1 DEF Arrive
    <2>2. ASSUME NEW d \in Calls, EnterStop(d) PROVE AnswersLate(c)
      BY <2>2 DEF EnterStop, StopHalfDone, SignalChild, Fail
    <2>3. ASSUME NEW d \in Calls, ChildGone(d) \/ ChildStuck(d) \/ SpawnFails(d)
          PROVE  AnswersLate(c)
      BY <2>3 DEF ChildGone, ChildStuck, SpawnFails, StopHalfDone,
                   Fail, Gone
    <2>4. ASSUME NEW d \in Calls, NEW p \in Procs, Spawn(d, p)
          PROVE  AnswersLate(c)
      BY <2>4 DEF Spawn
    <2>5. ASSUME NEW p \in Procs, Wait(p) \/ Exit(p) PROVE AnswersLate(c)
      BY <2>5 DEF Wait, Exit, Reap, CloseDone, Decide, Count, BackoffEnds,
                   RestartFails, Restart
    <2>6. ASSUME HelperExits \/ WindowEnds \/ Rest PROVE AnswersLate(c)
      BY <2>6 DEF HelperExits, WindowEnds, Rest, vars
    <2> QED BY <2>1, <2>2, <2>3, <2>4, <2>5, <2>6 DEF Next, Serve
  <1>2. IInv /\ [Next]_vars => [\A c \in Calls : AnswersLate(c)]_vars
    BY <1>1
  <1> QED BY <1>2, IInvHolds, PTL DEF SafeSpec, StopMeansStopped, AnswersLate
=============================================================================
