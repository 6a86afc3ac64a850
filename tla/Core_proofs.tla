----------------------------- MODULE Core_proofs -----------------------------
(***************************************************************************)
(* Proofs about CoreLifecycle and CoreSupervision, for every bound,        *)
(* threshold, platform and helper.                                         *)
(*                                                                         *)
(* The inductive invariant of the lifecycle has four parts:                *)
(*   TInv  types, the exact counter, and the shape of the operation;       *)
(*   SInv  the persisted stop flag at each point of an operation;          *)
(*   EInv  the flag in memory and the status, which follow it;             *)
(*   PInv  which process may be up at each point of an operation.          *)
(* TInv and SInv survive the watchers of CoreSupervision; EInv and PInv do *)
(* not, since a watcher writes the status and adopts cores it finds.       *)
(***************************************************************************)
EXTENDS CoreSupervision, SequenceTheorems, TLAPS

OpShape ==
    /\ op.pc = "idle" <=> op = Idle
    /\ op.pc \in {"hotCheck", "patch"} \/ op.rolledBack => op.kind = "hotSwitch"
    /\ op.kind = "hotSwitch" => op.fallback \in Modes

TInv == TypeOK /\ BusyIsExact /\ OpShape

-----------------------------------------------------------------------------
(***************************************************************************)
(* What the operators that build the executing operation return.           *)
(***************************************************************************)
\* Idle is an operation at its idle point.
LEMMA IdleFacts ==
    /\ Idle \in Op /\ Idle.kind = "idle" /\ Idle.pc = "idle"
    /\ ~Idle.rolledBack
    /\ \A o \in Op : o.pc # "idle" => o # Idle
  BY DEF Idle, Blank, Op, Pcs, ModeOpt, NoMode, Kinds

\* Opening a request keeps what it asks for.
LEMMA OpenedFacts ==
  ASSUME NEW r \in Request
  PROVE  /\ Opened(r) \in Op
         /\ Opened(r).kind = r.kind
         /\ ~Opened(r).rolledBack
         /\ r.kind = "hotSwitch" => Opened(r).fallback \in Modes
  <1>1. r.kind \in Kinds /\ r.new \in ModeOpt /\ r.fallback \in ModeOpt
    BY DEF Request, Kinds, ModeOpt
  <1>2. r.kind = "hotSwitch" => r.fallback \in Modes
    BY DEF Request
  <1> QED
    BY <1>1, <1>2 DEF Opened, Blank, Op, Pcs, ModeOpt, NoMode

\* The operation moved on to point p and kept kind, fallback and roll-back.
Moved(o, p) ==
    /\ op' \in Op /\ op'.pc = p /\ op' # Idle
    /\ op'.kind = o.kind /\ op'.fallback = o.fallback
    /\ op'.rolledBack = o.rolledBack

LEMMA MovedByPc ==
  ASSUME NEW o \in Op, NEW p \in Pcs \ {"idle"}, op' = [o EXCEPT !.pc = p]
  PROVE  Moved(o, p)
  BY DEF Op, Idle, Blank, Moved

LEMMA MovedByStart ==
  ASSUME NEW o \in Op, EnterStart(o)
  PROVE  Moved(o, "startFlush")
  BY DEF Op, Idle, Blank, Moved, EnterStart, Pcs, ModeOpt, NoMode

LEMMA MovedByFlush ==
  ASSUME NEW o \in Op, connMode \in Modes,
         op' = [o EXCEPT !.pc = "managerStart", !.mode = connMode]
  PROVE  Moved(o, "managerStart")
  BY DEF Op, Idle, Blank, Moved, Pcs, ModeOpt

LEMMA MovedByTeardown ==
  ASSUME NEW o \in Op, EnterTeardown(o)
  PROVE  Moved(o, "teardown")
  <1>1. IsDesktopTun(connMode) \in BOOLEAN
    BY DEF IsDesktopTun, Desktop
  <1> QED
    BY <1>1 DEF Op, Idle, Blank, Moved, EnterTeardown, Pcs

\* The operation at the head of the queue, opened.
LEMMA DequeueFacts ==
  ASSUME TInv, NEW k \in Kinds, Dequeue(k)
  PROVE  /\ op = Idle
         /\ Opened(Head(queue)) \in Op
         /\ Opened(Head(queue)).kind = k
         /\ ~Opened(Head(queue)).rolledBack
         /\ k = "hotSwitch" => Opened(Head(queue)).fallback \in Modes
         /\ queue' \in Seq(Request)
         /\ inFlight \in Nat \ {0}
         /\ inFlight = Len(queue') + 1
  <1>1. /\ Head(queue) \in Request /\ queue' \in Seq(Request)
        /\ Len(queue') = Len(queue) - 1 /\ Len(queue) \in Nat \ {0}
    BY HeadTailProperties, EmptySeq DEF TInv, TypeOK, Dequeue
  <1> QED
    BY <1>1, OpenedFacts DEF TInv, BusyIsExact, Dequeue

\* The counter while an operation is executing and stays so.
LEMMA StillBusy ==
  ASSUME TInv, op # Idle, op' # Idle, UNCHANGED <<queue, inFlight>>
  PROVE  BusyIsExact'
  BY DEF TInv, BusyIsExact

\* The operation ends.
LEMMA FinishFacts ==
  ASSUME TInv, op # Idle, Finish
  PROVE  /\ op' \in Op /\ op' = Idle /\ OpShape'
         /\ inFlight' \in Nat
         /\ queue' = queue => BusyIsExact'
  <1>1. inFlight \in Nat \ {0} /\ Len(queue) \in Nat
    BY LenProperties DEF TInv, TypeOK, BusyIsExact
  <1>2. inFlight' = Len(queue) /\ inFlight' \in Nat
    BY <1>1 DEF TInv, TypeOK, BusyIsExact, Finish
  <1> QED
    BY <1>2, IdleFacts DEF BusyIsExact, OpShape, Finish

-----------------------------------------------------------------------------
(***************************************************************************)
(* Types, the counter and the shape of the operation.                      *)
(***************************************************************************)
LEMMA TInit == Init => TInv
  <1> SUFFICES ASSUME Init PROVE TInv
    OBVIOUS
  <1>1. TypeOK
    BY IdleFacts, EmptySeq DEF Init, TypeOK, Statuses
  <1>2. BusyIsExact
    BY EmptySeq DEF Init, BusyIsExact
  <1>3. OpShape
    BY IdleFacts DEF Init, OpShape
  <1> QED BY <1>1, <1>2, <1>3 DEF TInv

\* Appending a well-formed request.
LEMMA EnqueueFacts ==
  ASSUME TInv, NEW r \in Request, Enqueue(r), UNCHANGED op
  PROVE  /\ queue' \in Seq(Request) /\ inFlight' \in Nat
         /\ BusyIsExact' /\ OpShape'
  BY LenProperties DEF TInv, TypeOK, BusyIsExact, OpShape, Enqueue

LEMMA TAsk ==
  ASSUME TInv, Ask \/ (\E m \in Modes : PickModeInSettings(m)) \/ ResetToStopped
  PROVE  TInv'
  <1> USE DEF flagVars, managerVars, coreVars
  <1>1. ASSUME NEW k \in Kinds \ {"hotSwitch"} PROVE Plain(k) \in Request
    BY DEF Plain, Request
  <1>2. ASSUME NEW m \in Modes
        PROVE  [kind |-> "hotSwitch", new |-> m, fallback |-> connMode] \in Request
    BY DEF TInv, TypeOK, Request
  <1>3. ASSUME NEW k \in {"start", "stop", "toggle", "restart"}, RequestOp(k)
        PROVE  TInv'
    <2>1. Plain(k) \in Request
      BY <1>1 DEF Kinds
    <2> QED
      BY <1>3, <2>1, EnqueueFacts DEF RequestOp, TInv, TypeOK
  <1>4. ASSUME NEW m \in Modes, PickMode(m) PROVE TInv'
    BY <1>2, <1>4, EnqueueFacts DEF PickMode, TInv, TypeOK
  <1>5. ASSUME NEW m \in Modes, PickModeInSettings(m) PROVE TInv'
    <2>1. CASE status = "running"
      BY <1>2, <1>5, <2>1, EnqueueFacts DEF PickModeInSettings, TInv, TypeOK
    <2>2. CASE status # "running"
      BY <1>5, <2>2 DEF PickModeInSettings, TInv, TypeOK, BusyIsExact, OpShape
    <2> QED BY <2>1, <2>2
  <1>6. CASE ResetToStopped
    <2>1. Plain("recoveryStop") \in Request
      BY <1>1 DEF Kinds
    <2> QED
      BY <1>6, <2>1, EnqueueFacts DEF ResetToStopped, TInv, TypeOK, Statuses
  <1> QED BY <1>3, <1>4, <1>5, <1>6 DEF Ask

\* The executing operation goes on at p, its kind fitting that point.
LEMMA MovedShape ==
  ASSUME NEW o \in Op, NEW p \in Pcs \ {"idle"}, Moved(o, p),
         p \in {"hotCheck", "patch"} \/ o.rolledBack => o.kind = "hotSwitch",
         o.kind = "hotSwitch" => o.fallback \in Modes
  PROVE  op' \in Op /\ op' # Idle /\ OpShape'
  BY DEF Moved, OpShape

LEMMA EnterRestartFacts ==
  ASSUME TypeOK, NEW o \in Op, EnterRestart(o),
         o.rolledBack => o.kind = "hotSwitch",
         o.kind = "hotSwitch" => o.fallback \in Modes
  PROVE  /\ op' \in Op /\ op' # Idle /\ OpShape'
         /\ status' \in Statuses
         /\ userStopped' \in BOOLEAN /\ manualStopped' \in BOOLEAN
         /\ UNCHANGED <<connMode, inFlight>>
  <1>1. CASE EnterTeardown(o)
    <2>1. op' \in Op /\ op' # Idle /\ OpShape'
      BY <1>1, MovedByTeardown, MovedShape DEF Pcs
    <2>2. CASE NeedsTeardown
      BY <2>1, <2>2 DEF EnterRestart, EnterTeardown, Statuses, TypeOK
    <2>3. CASE ~NeedsTeardown
      BY <2>1, <2>3 DEF EnterRestart, EnterStart, Statuses, TypeOK
    <2> QED BY <2>2, <2>3
  <1>2. CASE EnterStart(o) /\ UNCHANGED status
    <2>1. op' \in Op /\ op' # Idle /\ OpShape'
      BY <1>2, MovedByStart, MovedShape DEF Pcs
    <2> QED
      BY <1>2, <2>1 DEF EnterRestart, EnterStart, TypeOK
  <1> QED BY <1>1, <1>2 DEF EnterRestart

\* An operation is taken from the queue and goes on, or is over at once.
LEMMA BeginMoves ==
  ASSUME TInv, NEW k \in Kinds, Dequeue(k), op' # Idle, UNCHANGED inFlight
  PROVE  queue' \in Seq(Request) /\ inFlight' \in Nat /\ BusyIsExact'
  BY DequeueFacts DEF BusyIsExact

LEMMA BeginFinishes ==
  ASSUME TInv, NEW k \in Kinds, Dequeue(k), Finish
  PROVE  /\ op' \in Op /\ op' = Idle /\ OpShape'
         /\ queue' \in Seq(Request) /\ inFlight' \in Nat /\ BusyIsExact'
  BY DequeueFacts, IdleFacts DEF BusyIsExact, OpShape, Finish

LEMMA TBegin == ASSUME TInv, Begin PROVE TInv'
  <1> USE DEF flagVars, managerVars, coreVars
  <1> DEFINE o == Opened(Head(queue))
  <1>1. CASE BeginStart
    <2>1. Dequeue("start") /\ EnterStart(o) /\ "start" \in Kinds
      BY <1>1 DEF BeginStart, Kinds
    <2>2. op' \in Op /\ op' # Idle /\ OpShape'
      BY <2>1, DequeueFacts, MovedByStart, MovedShape DEF Pcs
    <2> QED
      BY <1>1, <2>1, <2>2, BeginMoves DEF BeginStart, EnterStart, TInv, TypeOK
  <1>2. CASE BeginStop
    <2>1. Dequeue("stop") /\ EnterUserStop(o) /\ "stop" \in Kinds
      BY <1>2 DEF BeginStop, Kinds
    <2>2. op' \in Op /\ op' # Idle /\ OpShape'
      BY <2>1, DequeueFacts, MovedByPc, MovedShape DEF Pcs, EnterUserStop
    <2> QED
      BY <1>2, <2>1, <2>2, BeginMoves DEF BeginStop, EnterUserStop, TInv, TypeOK
  <1>3. CASE BeginToggle
    <2>1. Dequeue("toggle") /\ "toggle" \in Kinds
      BY <1>3 DEF BeginToggle, Kinds
    <2>2. CASE EnterUserStop(o) /\ UNCHANGED inFlight
      <3>1. op' \in Op /\ op' # Idle /\ OpShape'
        BY <2>1, <2>2, DequeueFacts, MovedByPc, MovedShape DEF Pcs, EnterUserStop
      <3> QED
        BY <1>3, <2>1, <2>2, <3>1, BeginMoves
        DEF BeginToggle, EnterUserStop, TInv, TypeOK
    <2>3. CASE EnterStart(o) /\ UNCHANGED inFlight
      <3>1. op' \in Op /\ op' # Idle /\ OpShape'
        BY <2>1, <2>3, DequeueFacts, MovedByStart, MovedShape DEF Pcs
      <3> QED
        BY <1>3, <2>1, <2>3, <3>1, BeginMoves
        DEF BeginToggle, EnterStart, TInv, TypeOK
    <2>4. CASE Finish /\ UNCHANGED <<userStopped, manualStopped>>
      BY <1>3, <2>1, <2>4, BeginFinishes DEF BeginToggle, TInv, TypeOK
    <2> QED BY <1>3, <2>2, <2>3, <2>4 DEF BeginToggle
  <1>4. CASE BeginRestart
    <2>1. Dequeue("restart") /\ "restart" \in Kinds
      BY <1>4 DEF BeginRestart, Kinds
    <2>2. CASE EnterRestart(o)
      <3>1. /\ op' \in Op /\ op' # Idle /\ OpShape'
            /\ status' \in Statuses
            /\ userStopped' \in BOOLEAN /\ manualStopped' \in BOOLEAN
            /\ UNCHANGED <<connMode, inFlight>>
        BY <2>1, <2>2, DequeueFacts, EnterRestartFacts DEF TInv
      <3> QED
        BY <1>4, <2>1, <3>1, BeginMoves DEF BeginRestart, TInv, TypeOK
    <2>3. CASE /\ Finish
               /\ UNCHANGED <<status, userStopped, manualStopped, connMode>>
      BY <1>4, <2>1, <2>3, BeginFinishes DEF BeginRestart, TInv, TypeOK
    <2> QED BY <1>4, <2>2, <2>3 DEF BeginRestart
  <1>5. CASE BeginHotSwitch
    <2>1. Dequeue("hotSwitch") /\ "hotSwitch" \in Kinds
      BY <1>5 DEF BeginHotSwitch, Kinds
    <2>2. CASE running
      <3>1. PICK p \in {"hotCheck", "patch"} : op' = [o EXCEPT !.pc = p]
        BY <1>5, <2>2 DEF BeginHotSwitch
      <3>2. op' \in Op /\ op' # Idle /\ OpShape'
        BY <2>1, <3>1, DequeueFacts, MovedByPc, MovedShape DEF Pcs
      <3> QED
        BY <1>5, <2>1, <2>2, <3>2, BeginMoves DEF BeginHotSwitch, TInv, TypeOK
    <2>3. CASE ~running
      BY <1>5, <2>1, <2>3, BeginFinishes DEF BeginHotSwitch, TInv, TypeOK
    <2> QED BY <2>2, <2>3
  <1>6. CASE BeginRecoveryStop
    <2>1. Dequeue("recoveryStop") /\ "recoveryStop" \in Kinds
      BY <1>6 DEF BeginRecoveryStop, Kinds
    <2>2. CASE running
      <3>1. op' \in Op /\ op' # Idle /\ OpShape'
        BY <1>6, <2>1, <2>2, DequeueFacts, MovedByPc, MovedShape
        DEF Pcs, BeginRecoveryStop
      <3> QED
        BY <1>6, <2>1, <2>2, <3>1, BeginMoves
        DEF BeginRecoveryStop, TInv, TypeOK
    <2>3. CASE ~running
      BY <1>6, <2>1, <2>3, BeginFinishes DEF BeginRecoveryStop, TInv, TypeOK
    <2> QED BY <2>2, <2>3
  <1> QED BY <1>1, <1>2, <1>3, <1>4, <1>5, <1>6 DEF Begin

-----------------------------------------------------------------------------
\* A start half that returned false, whatever the operation does next.
LEMMA FailFacts ==
  ASSUME TInv, op # Idle, StartReturnsFalse, queue' = queue
  PROVE  /\ op' \in Op /\ OpShape' /\ BusyIsExact' /\ inFlight' \in Nat
         /\ connMode' \in Modes
         /\ userStopped' \in BOOLEAN /\ manualStopped' \in BOOLEAN
  <1> DEFINE o == [op EXCEPT !.rolledBack = TRUE]
  <1>1. CASE /\ op.kind = "hotSwitch" /\ connMode' = op.fallback
             /\ EnterStart(o) /\ UNCHANGED inFlight
    <2>1. o \in Op /\ o.kind = op.kind /\ o.fallback = op.fallback
      BY DEF TInv, TypeOK, Op
    <2>2. op' \in Op /\ op' # Idle /\ OpShape'
      BY <1>1, <2>1, MovedByStart, MovedShape DEF Pcs, TInv, OpShape
    <2>3. BusyIsExact'
      BY <1>1, <2>2, StillBusy
    <2> QED
      BY <1>1, <2>2, <2>3 DEF EnterStart, TInv, TypeOK, OpShape
  <1>2. CASE /\ Finish /\ UNCHANGED <<userStopped, manualStopped>>
             /\ op.kind = "hotSwitch" /\ connMode' = op.fallback
    BY <1>2, FinishFacts DEF TInv, TypeOK, OpShape
  <1>3. CASE Finish /\ UNCHANGED <<userStopped, manualStopped, connMode>>
    BY <1>3, FinishFacts DEF TInv, TypeOK
  <1> QED BY <1>1, <1>2, <1>3 DEF StartReturnsFalse, GiveUpSwitch

\* An executing operation is not the idle one.
LEMMA NotIdle ==
  ASSUME TInv, op.pc # "idle"
  PROVE  op # Idle /\ op \in Op
  BY IdleFacts DEF TInv, TypeOK

LEMMA StartFailsT ==
  ASSUME TInv, op # Idle, StartFails, appCore' \in BOOLEAN,
         helperCore' \in {"off", "up", "down"},
         survivor' \in SUBSET {"app", "helper"}
  PROVE  TInv'
  <1>1. queue' = queue
    BY DEF StartFails
  <1> QED
    BY <1>1, FailFacts DEF StartFails, TInv, TypeOK, Statuses

LEMMA HelperTypes ==
  ASSUME TInv, AskHelperToStop
  PROVE  /\ helperCore' \in {"off", "up", "down"}
         /\ survivor' \in SUBSET {"app", "helper"}
  BY DEF AskHelperToStop, TInv, TypeOK

\* A step of the same operation that ends at point p.
LEMMA StepsOn ==
  ASSUME TInv, NEW p \in Pcs \ {"idle"}, op # Idle,
         op' = [op EXCEPT !.pc = p], UNCHANGED <<queue, inFlight>>,
         p \in {"hotCheck", "patch"} => op.kind = "hotSwitch"
  PROVE  op' \in Op /\ op' # Idle /\ OpShape' /\ BusyIsExact'
  <1>1. op' \in Op /\ op' # Idle /\ OpShape'
    BY MovedByPc, MovedShape DEF TInv, TypeOK, OpShape
  <1> QED BY <1>1, StillBusy

LEMMA TStartHalf == ASSUME TInv, StartHalf PROVE TInv'
  <1> USE DEF flagVars, managerVars, coreVars
  <1>0. op.pc # "idle"
    BY DEF StartHalf, StartFlush, PreflightFails, AlreadyRunning, ManagerStart,
           Spawn, SpawnFails, SpawnReplyLost, ApiReady, ApiFails, StartPost
  <1>1. op # Idle /\ op \in Op
    BY <1>0, NotIdle
  <1>2. CASE StartFlush
    <2>1. Moved(op, "managerStart")
      BY <1>1, <1>2, MovedByFlush DEF StartFlush, TInv, TypeOK
    <2>2. op' \in Op /\ op' # Idle /\ OpShape'
      BY <1>1, <2>1, MovedShape DEF Pcs, TInv, OpShape
    <2>3. BusyIsExact'
      BY <1>1, <1>2, <2>2, StillBusy DEF StartFlush
    <2> QED
      BY <1>2, <2>2, <2>3 DEF StartFlush, TInv, TypeOK, Statuses
  <1>3. CASE PreflightFails
    <2>1. queue' = queue /\ StartReturnsFalse
      BY <1>3 DEF PreflightFails
    <2> QED
      BY <1>1, <1>3, <2>1, FailFacts DEF PreflightFails, TInv, TypeOK, Statuses
  <1>4. CASE AlreadyRunning
    <2>1. op' \in Op /\ OpShape' /\ BusyIsExact'
      BY <1>1, <1>4, StepsOn DEF AlreadyRunning, Pcs
    <2> QED BY <1>4, <2>1 DEF AlreadyRunning, TInv, TypeOK
  <1>5. CASE ManagerStart
    <2>1. op' \in Op /\ OpShape' /\ BusyIsExact'
      BY <1>1, <1>5, StepsOn DEF ManagerStart, Pcs
    <2>2. startInFlight' \in BOOLEAN /\ serviceActive' \in BOOLEAN
      BY <1>5 DEF ManagerStart, TInv, TypeOK, UsesHelper, IsDesktopTun, Desktop
    <2> QED BY <1>5, <2>1, <2>2 DEF ManagerStart, TInv, TypeOK
  <1>6. CASE Spawn
    <2>1. op' \in Op /\ OpShape' /\ BusyIsExact'
      BY <1>1, <1>6, StepsOn DEF Spawn, Pcs
    <2> QED BY <1>6, <2>1 DEF Spawn, TInv, TypeOK
  <1>7. CASE SpawnFails
    <2>1. /\ appCore' \in BOOLEAN
          /\ helperCore' \in {"off", "up", "down"}
          /\ survivor' \in SUBSET {"app", "helper"}
      BY <1>7, HelperTypes DEF SpawnFails, TInv, TypeOK
    <2> QED BY <1>1, <1>7, <2>1, StartFailsT DEF SpawnFails
  <1>8. CASE SpawnReplyLost
    <2>1. /\ appCore' \in BOOLEAN
          /\ helperCore' \in {"off", "up", "down"}
          /\ survivor' \in SUBSET {"app", "helper"}
      BY <1>8 DEF SpawnReplyLost, TInv, TypeOK
    <2> QED BY <1>1, <1>8, <2>1, StartFailsT DEF SpawnReplyLost
  <1>9. CASE ApiReady
    <2>1. op' \in Op /\ OpShape' /\ BusyIsExact'
      BY <1>1, <1>9, StepsOn DEF ApiReady, Pcs
    <2> QED BY <1>9, <2>1 DEF ApiReady, TInv, TypeOK
  <1>10. CASE ApiFails
    <2>1. /\ appCore' \in BOOLEAN
          /\ helperCore' \in {"off", "up", "down"}
          /\ survivor' \in SUBSET {"app", "helper"}
      BY <1>10, HelperTypes DEF ApiFails, TInv, TypeOK
    <2> QED BY <1>1, <1>10, <2>1, StartFailsT DEF ApiFails
  <1>11. CASE StartPost
    <2>1. Finish /\ queue' = queue
      BY <1>11 DEF StartPost, GiveUpSwitch
    <2>2. connMode' \in Modes
      BY <1>11 DEF StartPost, GiveUpSwitch, TInv, TypeOK, OpShape
    <2>3. status' \in Statuses
      BY <1>11 DEF StartPost, Statuses
    <2> QED
      BY <1>1, <1>11, <2>1, <2>2, <2>3, FinishFacts DEF StartPost, TInv, TypeOK
  <1> QED
    BY <1>2, <1>3, <1>4, <1>5, <1>6, <1>7, <1>8, <1>9, <1>10, <1>11
    DEF StartHalf

-----------------------------------------------------------------------------
LEMMA StopDoneFacts ==
  ASSUME TInv, op # Idle, StopDone, queue' = queue
  PROVE  /\ op' \in Op /\ OpShape' /\ BusyIsExact' /\ inFlight' \in Nat
         /\ status' \in Statuses
         /\ userStopped' \in BOOLEAN /\ manualStopped' \in BOOLEAN
  <1>1. status' \in Statuses
    BY DEF StopDone, Statuses
  <1>2. CASE EnterStart(op) /\ UNCHANGED inFlight
    <2>1. op' \in Op /\ op' # Idle /\ OpShape'
      BY <1>2, MovedByStart, MovedShape DEF Pcs, TInv, TypeOK, OpShape
    <2>2. BusyIsExact'
      BY <1>2, <2>1, StillBusy
    <2> QED BY <1>1, <1>2, <2>1, <2>2 DEF EnterStart, TInv, TypeOK
  <1>3. CASE Finish /\ UNCHANGED <<userStopped, manualStopped>>
    BY <1>1, <1>3, FinishFacts DEF TInv, TypeOK
  <1> QED BY <1>2, <1>3 DEF StopDone

LEMMA TStopHalf == ASSUME TInv, StopHalf PROVE TInv'
  <1> USE DEF flagVars, managerVars, coreVars
  <1>0. op.pc # "idle"
    BY DEF StopHalf, StopFlush, TeardownNothing, Teardown, Kill
  <1>1. op # Idle /\ op \in Op
    BY <1>0, NotIdle
  <1>2. CASE StopFlush
    <2>1. op' \in Op /\ op' # Idle /\ OpShape'
      BY <1>1, <1>2, MovedByTeardown, MovedShape DEF StopFlush, Pcs, TInv, OpShape
    <2>2. BusyIsExact'
      BY <1>1, <1>2, <2>1, StillBusy DEF StopFlush
    <2> QED
      BY <1>2, <2>1, <2>2 DEF StopFlush, EnterTeardown, TInv, TypeOK, Statuses
  <1>3. CASE TeardownNothing
    <2>1. StopDone /\ queue' = queue
      BY <1>3 DEF TeardownNothing
    <2> QED
      BY <1>1, <1>3, <2>1, StopDoneFacts DEF TeardownNothing, TInv, TypeOK
  <1>4. CASE Teardown
    <2>1. op' \in Op /\ OpShape' /\ BusyIsExact'
      BY <1>1, <1>4, StepsOn DEF Teardown, Pcs
    <2> QED BY <1>4, <2>1 DEF Teardown, TInv, TypeOK
  <1>5. CASE Kill
    <2>1. /\ appCore' \in BOOLEAN /\ serviceActive' \in BOOLEAN
          /\ helperCore' \in {"off", "up", "down"}
          /\ survivor' \in SUBSET {"app", "helper"}
      BY <1>5, HelperTypes DEF Kill, TInv, TypeOK
    <2>2. CASE Finish /\ UNCHANGED <<status, userStopped, manualStopped>>
      <3>1. queue' = queue
        BY <1>5 DEF Kill
      <3> QED
        BY <1>1, <1>5, <2>1, <2>2, <3>1, FinishFacts DEF Kill, TInv, TypeOK
    <2>3. CASE StopDone
      <3>1. queue' = queue
        BY <1>5 DEF Kill
      <3> QED
        BY <1>1, <1>5, <2>1, <2>3, <3>1, StopDoneFacts DEF Kill, TInv, TypeOK
    <2> QED BY <1>5, <2>2, <2>3 DEF Kill, AfterKill
  <1> QED BY <1>2, <1>3, <1>4, <1>5 DEF StopHalf

LEMMA THotSwitch == ASSUME TInv, HotSwitchStep PROVE TInv'
  <1> USE DEF flagVars, managerVars, coreVars
  <1>0. op.pc \in {"hotCheck", "patch"}
    BY DEF HotSwitchStep, HotSwitchRefused, HotSwitchRestart, MobilePatch
  <1>1. op # Idle /\ op \in Op /\ op.kind = "hotSwitch" /\ op.fallback \in Modes
    BY <1>0, NotIdle DEF TInv, OpShape
  <1>2. CASE HotSwitchRefused
    <2>1. Finish /\ connMode' \in Modes /\ queue' = queue
      BY <1>1, <1>2 DEF HotSwitchRefused, GiveUpSwitch
    <2> QED
      BY <1>1, <1>2, <2>1, FinishFacts DEF HotSwitchRefused, TInv, TypeOK
  <1>3. CASE HotSwitchRestart
    <2>1. queue' = queue
      BY <1>3 DEF HotSwitchRestart
    <2>2. CASE StartReturnsFalse /\ UNCHANGED status
      BY <1>1, <1>3, <2>1, <2>2, FailFacts DEF HotSwitchRestart, TInv, TypeOK
    <2>3. CASE EnterRestart(op)
      <3>1. /\ op' \in Op /\ op' # Idle /\ OpShape' /\ status' \in Statuses
            /\ userStopped' \in BOOLEAN /\ manualStopped' \in BOOLEAN
            /\ UNCHANGED <<connMode, inFlight>>
        BY <1>1, <2>3, EnterRestartFacts DEF TInv
      <3>2. BusyIsExact'
        BY <1>1, <2>1, <3>1, StillBusy
      <3> QED BY <1>3, <3>1, <3>2 DEF HotSwitchRestart, TInv, TypeOK
    <2> QED BY <1>3, <2>2, <2>3 DEF HotSwitchRestart
  <1>4. CASE MobilePatch
    <2>1. Finish /\ connMode' \in Modes /\ queue' = queue
      BY <1>1, <1>4 DEF MobilePatch, GiveUpSwitch, TInv, TypeOK
    <2> QED
      BY <1>1, <1>4, <2>1, FinishFacts DEF MobilePatch, TInv, TypeOK
  <1> QED BY <1>2, <1>3, <1>4 DEF HotSwitchStep

LEMMA TRest == ASSUME TInv, Processes \/ UNCHANGED vars PROVE TInv'
  <1> USE DEF TInv, TypeOK, BusyIsExact, OpShape, flagVars, managerVars, coreVars
  <1>1. CASE CoreCrash
    <2>1. appCore' \in BOOLEAN /\ helperCore' \in {"off", "up", "down"}
      BY <1>1 DEF CoreCrash
    <2>2. crashes' \in Nat
      BY <1>1 DEF CoreCrash
    <2>3. UNCHANGED <<status, flagVars, connMode, queue, op, inFlight,
                      managerVars, survivor, requests>>
      BY <1>1 DEF CoreCrash
    <2> QED BY <2>1, <2>2, <2>3
  <1>2. CASE WatchdogRevive
    BY <1>2 DEF WatchdogRevive
  <1>3. CASE UNCHANGED vars
    BY <1>3 DEF vars
  <1> QED BY <1>1, <1>2, <1>3 DEF Processes

LEMMA TStep == ASSUME TInv, [Next]_vars PROVE TInv'
  <1>1. \/ Ask \/ (\E m \in Modes : PickModeInSettings(m)) \/ ResetToStopped
        \/ Begin \/ StartHalf \/ StopHalf \/ HotSwitchStep
        \/ Processes \/ UNCHANGED vars
    BY DEF Next, QueueNext, Execute, AwaitUser
  <1> QED
    BY <1>1, TAsk, TBegin, TStartHalf, TStopHalf, THotSwitch, TRest

-----------------------------------------------------------------------------
(***************************************************************************)
(* The persisted stop flag, whatever else is running beside the queue.     *)
(* Disk and memory differ only while a flush is under way; a starting      *)
(* operation has cleared the flag, a stop or toggle that tears down has    *)
(* set it, and nothing else tears down or switches while it is set.        *)
(***************************************************************************)
UserStops == {"stop", "toggle"}
StartPcs  == {"startFlush", "managerStart", "spawn", "waitApi", "post"}

SInv ==
    /\ userStopped => manualStopped
    /\ op.pc \notin {"startFlush", "stopFlush"} => manualStopped = manualDisk
    /\ op.pc = "stopFlush" => op.kind \in UserStops /\ manualStopped
    /\ op.pc \in StartPcs \cup {"hotCheck", "patch"} => ~manualStopped
    /\ op.pc \in {"teardown", "kill"} =>
           (manualStopped <=> op.kind \in UserStops)
    /\ op.kind = "recoveryStop" => op.pc = "kill"
    /\ op.pc \in {"idle", "kill"} /\ manualStopped => ~running

\* What a step may do to the flag and to _running at once.
IntentStep ==
    \/ UNCHANGED running
    \/ UNCHANGED manualStopped /\ (running' => ~manualStopped)

LiftStep == manualStopped /\ ~manualStopped' => op'.kind \in {"start", "toggle"}

SOk == SInv' /\ IntentStep /\ LiftStep

LEMMA SInit == Init => SInv
  BY IdleFacts DEF Init, SInv, StartPcs

LEMMA SAsk ==
  ASSUME TInv, SInv,
         Ask \/ (\E m \in Modes : PickModeInSettings(m)) \/ ResetToStopped
  PROVE  SOk
  <1> USE DEF flagVars, managerVars, coreVars, SOk, IntentStep, LiftStep, SInv
  <1>1. ASSUME NEW k \in {"start", "stop", "toggle", "restart"}, RequestOp(k)
        PROVE  SOk
    BY <1>1 DEF RequestOp
  <1>2. ASSUME NEW m \in Modes, PickMode(m) PROVE SOk
    BY <1>2 DEF PickMode
  <1>3. ASSUME NEW m \in Modes, PickModeInSettings(m) PROVE SOk
    BY <1>3 DEF PickModeInSettings
  <1>4. CASE ResetToStopped
    BY <1>4 DEF ResetToStopped
  <1> QED BY <1>1, <1>2, <1>3, <1>4 DEF Ask

LEMMA SRestart ==
  ASSUME TypeOK, NEW o \in Op, EnterRestart(o), o.kind \in {"restart", "hotSwitch"},
         manualStopped = manualDisk, UNCHANGED <<manualDisk, running>>
  PROVE  SOk
  <1> USE DEF SOk, IntentStep, LiftStep, SInv, UserStops, StartPcs
  <1>1. ~userStopped /\ ~manualStopped
    BY DEF EnterRestart, StopLanded
  <1>2. CASE NeedsTeardown
    <2>1. /\ Moved(o, "teardown")
          /\ UNCHANGED <<userStopped, manualStopped>>
      BY <1>2, MovedByTeardown DEF EnterRestart
    <2> QED BY <1>1, <2>1 DEF Moved
  <1>3. CASE ~NeedsTeardown
    <2>1. /\ Moved(o, "startFlush")
          /\ ~userStopped' /\ ~manualStopped'
      BY <1>3, MovedByStart DEF EnterRestart, EnterStart
    <2> QED BY <1>1, <2>1 DEF Moved
  <1> QED BY <1>2, <1>3

LEMMA SBegin == ASSUME TInv, SInv, Begin PROVE SOk
  <1> USE DEF flagVars, managerVars, coreVars, UserStops, StartPcs
  <1> DEFINE o == Opened(Head(queue))
  <1>0. /\ op = Idle /\ op.pc = "idle"
        /\ userStopped => manualStopped
        /\ manualStopped = manualDisk
        /\ manualStopped => ~running
    <2>1. op = Idle
      BY DEF Begin, BeginStart, BeginStop, BeginToggle, BeginRestart,
             BeginHotSwitch, BeginRecoveryStop, Dequeue
    <2> QED BY <2>1, IdleFacts DEF SInv
  <1>1. ASSUME Finish, UNCHANGED <<status, flagVars, running>> PROVE SOk
    BY <1>0, <1>1, IdleFacts DEF Finish, SOk, IntentStep, LiftStep, SInv
  <1>2. ASSUME NEW k \in {"start", "toggle"}, Dequeue(k), EnterStart(o),
               UNCHANGED running
        PROVE  SOk
    <2>1. Moved(o, "startFlush") /\ o.kind = k
      BY <1>2, DequeueFacts, MovedByStart DEF Kinds
    <2> QED
      BY <1>2, <2>1 DEF Moved, EnterStart, SOk, IntentStep, LiftStep, SInv
  <1>3. ASSUME NEW k \in {"stop", "toggle"}, Dequeue(k), EnterUserStop(o),
               UNCHANGED running
        PROVE  SOk
    <2>1. Moved(o, "stopFlush") /\ o.kind = k
      BY <1>3, DequeueFacts, MovedByPc DEF Kinds, EnterUserStop, Pcs
    <2> QED
      BY <1>3, <2>1 DEF Moved, EnterUserStop, SOk, IntentStep, LiftStep, SInv
  <1>4. CASE BeginStart
    BY <1>2, <1>4 DEF BeginStart
  <1>5. CASE BeginStop
    BY <1>3, <1>5 DEF BeginStop
  <1>6. CASE BeginToggle
    BY <1>1, <1>2, <1>3, <1>6 DEF BeginToggle
  <1>7. CASE BeginRestart
    <2>1. CASE EnterRestart(o)
      <3>1. o \in Op /\ o.kind = "restart"
        BY <1>7, DequeueFacts DEF BeginRestart, Kinds
      <3> QED BY <1>0, <1>7, <2>1, <3>1, SRestart DEF BeginRestart, TInv
    <2> QED BY <1>1, <1>7, <2>1 DEF BeginRestart
  <1>8. CASE BeginHotSwitch
    <2>1. CASE running
      <3>1. PICK p \in {"hotCheck", "patch"} : op' = [o EXCEPT !.pc = p]
        BY <1>8, <2>1 DEF BeginHotSwitch
      <3>2. Moved(o, p) /\ o.kind = "hotSwitch"
        BY <1>8, <3>1, DequeueFacts, MovedByPc DEF BeginHotSwitch, Kinds, Pcs
      <3> QED
        BY <1>0, <1>8, <2>1, <3>2
        DEF BeginHotSwitch, Moved, SOk, IntentStep, LiftStep, SInv
    <2> QED BY <1>1, <1>8, <2>1 DEF BeginHotSwitch
  <1>9. CASE BeginRecoveryStop
    <2>1. CASE running
      <3>1. Moved(o, "kill") /\ o.kind = "recoveryStop"
        BY <1>9, <2>1, DequeueFacts, MovedByPc DEF BeginRecoveryStop, Kinds, Pcs
      <3> QED
        BY <1>0, <1>9, <2>1, <3>1
        DEF BeginRecoveryStop, Moved, SOk, IntentStep, LiftStep, SInv
    <2> QED BY <1>1, <1>9, <2>1 DEF BeginRecoveryStop
  <1> QED BY <1>4, <1>5, <1>6, <1>7, <1>8, <1>9 DEF Begin

-----------------------------------------------------------------------------
\* A start half that returned false while no disconnect is in force.
LEMMA SFail ==
  ASSUME TInv, SInv, op.pc \in {"managerStart", "spawn", "waitApi", "hotCheck"},
         StartReturnsFalse, UNCHANGED manualDisk
  PROVE  SInv' /\ LiftStep /\ UNCHANGED manualStopped
  <1> DEFINE o == [op EXCEPT !.rolledBack = TRUE]
  <1>1. /\ userStopped = FALSE /\ manualStopped = FALSE /\ manualDisk = FALSE
        /\ op.kind # "recoveryStop"
    BY DEF TInv, TypeOK, SInv, StartPcs
  <1>2. CASE EnterStart(o)
    <2>1. o \in Op /\ o.kind = op.kind
      BY DEF TInv, TypeOK, Op
    <2>2. Moved(o, "startFlush")
      BY <1>2, <2>1, MovedByStart
    <2> QED
      BY <1>1, <1>2, <2>1, <2>2
      DEF EnterStart, Moved, SInv, LiftStep, StartPcs
  <1>3. CASE Finish /\ UNCHANGED <<userStopped, manualStopped>>
    BY <1>1, <1>3, IdleFacts DEF Finish, SInv, LiftStep, StartPcs
  <1> QED BY <1>2, <1>3 DEF StartReturnsFalse, GiveUpSwitch

\* An executing operation moves on to point p, the flag untouched.
LEMMA SMove ==
  ASSUME TInv, SInv, op.pc # "idle",
         NEW p \in {"managerStart", "spawn", "waitApi", "post", "kill"},
         Moved(op, p), UNCHANGED <<userStopped, manualStopped>>,
         op.kind # "recoveryStop",
         p = "kill" => op.pc = "teardown" /\ ~running' /\ UNCHANGED manualDisk,
         p # "kill" => op.pc \in StartPcs /\ manualDisk' = FALSE
  PROVE  SInv' /\ LiftStep
  BY DEF TInv, TypeOK, SInv, LiftStep, Moved, StartPcs, UserStops

LEMMA SStartHalf == ASSUME TInv, SInv, StartHalf PROVE SOk
  <1> USE DEF flagVars, managerVars, coreVars
  <1>0. op.pc \in StartPcs
    BY DEF StartHalf, StartFlush, PreflightFails, AlreadyRunning, ManagerStart,
           Spawn, SpawnFails, SpawnReplyLost, ApiReady, ApiFails, StartPost,
           StartPcs
  <1>1. /\ op # Idle /\ op \in Op /\ op.kind # "recoveryStop"
        /\ userStopped = FALSE /\ manualStopped = FALSE
        /\ op.pc # "startFlush" => manualDisk = FALSE
    BY <1>0, NotIdle DEF TInv, TypeOK, SInv, StartPcs
  <1>2. CASE StartFlush
    <2>1. Moved(op, "managerStart")
      BY <1>1, <1>2, MovedByFlush DEF StartFlush, TInv, TypeOK
    <2> QED
      BY <1>0, <1>1, <1>2, <2>1, SMove DEF StartFlush, SOk, IntentStep, StartPcs
  <1>3. CASE PreflightFails
    BY <1>3, SFail DEF PreflightFails, SOk, IntentStep
  <1>4. ASSUME NEW p \in {"spawn", "waitApi", "post"},
               op' = [op EXCEPT !.pc = p], op.pc # "startFlush",
               UNCHANGED flagVars
        PROVE  SOk
    <2>1. Moved(op, p)
      BY <1>1, <1>4, MovedByPc DEF Pcs
    <2> QED
      BY <1>0, <1>1, <1>4, <2>1, SMove DEF SOk, IntentStep, StartPcs
  <1>5. CASE AlreadyRunning
    BY <1>4, <1>5 DEF AlreadyRunning
  <1>6. CASE ManagerStart
    BY <1>4, <1>6 DEF ManagerStart
  <1>7. CASE Spawn
    BY <1>4, <1>7 DEF Spawn
  <1>8. CASE ApiReady
    BY <1>4, <1>8 DEF ApiReady
  <1>9. ASSUME StartFails, op.pc \in {"spawn", "waitApi"} PROVE SOk
    <2>1. SInv' /\ LiftStep /\ UNCHANGED manualStopped
      BY <1>9, SFail DEF StartFails
    <2> QED BY <1>9, <2>1 DEF StartFails, SOk, IntentStep
  <1>10. CASE SpawnFails \/ SpawnReplyLost \/ ApiFails
    BY <1>9, <1>10 DEF SpawnFails, SpawnReplyLost, ApiFails
  <1>11. CASE StartPost
    <2>1. Finish /\ UNCHANGED <<flagVars, running>> /\ op.pc = "post"
      BY <1>11 DEF StartPost, GiveUpSwitch
    <2> QED
      BY <1>1, <2>1, IdleFacts
      DEF Finish, SOk, SInv, IntentStep, LiftStep, StartPcs
  <1> QED
    BY <1>2, <1>3, <1>5, <1>6, <1>7, <1>8, <1>10, <1>11 DEF StartHalf

LEMMA SStopDone ==
  ASSUME TInv, SInv, StopDone, op.pc \in {"teardown", "kill"},
         op.kind # "recoveryStop", manualStopped => ~running', UNCHANGED manualDisk
  PROVE  SInv' /\ LiftStep
  <1> USE DEF SInv, LiftStep, UserStops, StartPcs
  <1>1. op # Idle /\ op \in Op
    BY NotIdle
  <1>2. CASE EnterStart(op) /\ op.kind \in {"restart", "hotSwitch"}
    <2>1. Moved(op, "startFlush")
      BY <1>1, <1>2, MovedByStart
    <2> QED
      BY <1>2, <2>1 DEF EnterStart, Moved
  <1>3. CASE Finish /\ UNCHANGED <<userStopped, manualStopped>>
    BY <1>3, IdleFacts DEF Finish, StopDone
  <1> QED BY <1>2, <1>3 DEF StopDone

LEMMA SStopHalf == ASSUME TInv, SInv, StopHalf PROVE SOk
  <1> USE DEF flagVars, managerVars, coreVars, SOk, IntentStep
  <1>0. op.pc # "idle"
    BY DEF StopHalf, StopFlush, TeardownNothing, Teardown, Kill
  <1>1. op # Idle /\ op \in Op
    BY <1>0, NotIdle
  <1>2. CASE StopFlush
    <2>1. Moved(op, "teardown")
      BY <1>1, <1>2, MovedByTeardown DEF StopFlush
    <2>2. op.kind \in UserStops /\ manualStopped = TRUE
      BY <1>2 DEF StopFlush, SInv, TInv, TypeOK
    <2> QED
      BY <1>2, <2>1, <2>2
      DEF StopFlush, Moved, SInv, LiftStep, UserStops, StartPcs
  <1>3. CASE TeardownNothing
    <2>1. op.kind # "recoveryStop" /\ ~running' /\ op.pc = "teardown"
      BY <1>3 DEF TeardownNothing, SInv
    <2> QED BY <1>3, <2>1, SStopDone DEF TeardownNothing
  <1>4. CASE Teardown
    <2>1. Moved(op, "kill") /\ op.kind # "recoveryStop"
      BY <1>1, <1>4, MovedByPc DEF Teardown, Pcs, SInv
    <2> QED BY <1>0, <1>4, <2>1, SMove DEF Teardown
  <1>5. CASE Kill
    <2>1. /\ manualStopped => ~running'
          /\ UNCHANGED <<manualDisk, running>> /\ op.pc = "kill"
      BY <1>5 DEF Kill, SInv
    <2>2. CASE op.kind = "recoveryStop"
      <3>1. Finish /\ UNCHANGED <<status, userStopped, manualStopped>>
        BY <1>5, <2>2 DEF Kill, AfterKill
      <3> QED
        BY <2>1, <2>2, <3>1, IdleFacts
        DEF Finish, SInv, LiftStep, UserStops, StartPcs
    <2>3. CASE op.kind # "recoveryStop"
      BY <1>5, <2>1, <2>3, SStopDone DEF Kill, AfterKill
    <2> QED BY <2>2, <2>3
  <1> QED BY <1>2, <1>3, <1>4, <1>5 DEF StopHalf

LEMMA SHotSwitch == ASSUME TInv, SInv, HotSwitchStep PROVE SOk
  <1> USE DEF flagVars, managerVars, coreVars, SOk, IntentStep
  <1>0. op.pc \in {"hotCheck", "patch"} /\ UNCHANGED <<running, manualDisk>>
    BY DEF HotSwitchStep, HotSwitchRefused, HotSwitchRestart, MobilePatch
  <1>1. /\ op # Idle /\ op \in Op /\ op.kind = "hotSwitch"
        /\ manualStopped = manualDisk
        /\ ~userStopped /\ ~manualStopped
    BY <1>0, NotIdle DEF TInv, OpShape, SInv
  <1>2. ASSUME Finish, UNCHANGED <<userStopped, manualStopped>> PROVE SOk
    BY <1>0, <1>1, <1>2, IdleFacts DEF Finish, SInv, LiftStep, StartPcs
  <1>3. CASE HotSwitchRefused
    BY <1>2, <1>3 DEF HotSwitchRefused, GiveUpSwitch
  <1>4. CASE HotSwitchRestart
    <2>1. CASE StartReturnsFalse
      BY <1>0, <1>4, <2>1, SFail DEF HotSwitchRestart
    <2>2. CASE EnterRestart(op)
      BY <1>0, <1>1, <2>2, SRestart DEF TInv
    <2> QED BY <1>4, <2>1, <2>2 DEF HotSwitchRestart
  <1>5. CASE MobilePatch
    BY <1>2, <1>5 DEF MobilePatch, GiveUpSwitch
  <1> QED BY <1>3, <1>4, <1>5 DEF HotSwitchStep

LEMMA SRest == ASSUME TInv, SInv, Processes \/ UNCHANGED vars PROVE SOk
  BY DEF Processes, CoreCrash, WatchdogRevive, vars, flagVars, managerVars,
         SOk, IntentStep, LiftStep, SInv

LEMMA SStep == ASSUME TInv, SInv, [Next]_vars PROVE SOk
  <1>1. \/ Ask \/ (\E m \in Modes : PickModeInSettings(m)) \/ ResetToStopped
        \/ Begin \/ StartHalf \/ StopHalf \/ HotSwitchStep
        \/ Processes \/ UNCHANGED vars
    BY DEF Next, QueueNext, Execute, AwaitUser
  <1> QED
    BY <1>1, SAsk, SBegin, SStartHalf, SStopHalf, SHotSwitch, SRest
-----------------------------------------------------------------------------
(***************************************************************************)
(* The flag in memory and the status.  Without the watchers nothing else   *)
(* writes either, so they follow the persisted flag.                       *)
(***************************************************************************)
EInv ==
    /\ userStopped = manualStopped
    /\ op.pc = "kill" => ~running
    /\ op.pc = "idle" /\ manualStopped => status = "stopped"

FInv == SInv /\ EInv

LEMMA EInit == Init => EInv
  BY IdleFacts DEF Init, EInv

\* Both flags in memory are written together or not at all.
Together == \/ UNCHANGED <<userStopped, manualStopped>>
            \/ userStopped' = manualStopped'

LEMMA FlagsTogether == ASSUME [Next]_vars PROVE Together
  <1> USE DEF Together, flagVars
  <1>1. ASSUME NEW o, EnterStart(o) \/ EnterUserStop(o) \/ EnterRestart(o)
        PROVE  Together
    BY <1>1 DEF EnterStart, EnterUserStop, EnterRestart
  <1>2. ASSUME StartReturnsFalse \/ StopDone PROVE Together
    BY <1>1, <1>2 DEF StartReturnsFalse, StopDone
  <1>3. CASE Ask \/ (\E m \in Modes : PickModeInSettings(m)) \/ ResetToStopped
    BY <1>3 DEF Ask, RequestOp, PickMode, PickModeInSettings, ResetToStopped
  <1>4. CASE Begin
    BY <1>1, <1>4 DEF Begin, BeginStart, BeginStop, BeginToggle, BeginRestart,
                      BeginHotSwitch, BeginRecoveryStop
  <1>5. CASE StartHalf
    BY <1>2, <1>5 DEF StartHalf, StartFlush, PreflightFails, AlreadyRunning,
                      ManagerStart, Spawn, SpawnFails, SpawnReplyLost, ApiReady,
                      ApiFails, StartPost, StartFails
  <1>6. CASE StopHalf
    BY <1>2, <1>6 DEF StopHalf, StopFlush, TeardownNothing, Teardown, Kill,
                      AfterKill
  <1>7. CASE HotSwitchStep
    BY <1>1, <1>2, <1>7 DEF HotSwitchStep, HotSwitchRefused, HotSwitchRestart,
                            MobilePatch
  <1>8. CASE Processes \/ UNCHANGED vars
    BY <1>8 DEF Processes, CoreCrash, WatchdogRevive, vars
  <1> QED
    BY <1>3, <1>4, <1>5, <1>6, <1>7, <1>8 DEF Next, QueueNext, Execute, AwaitUser

\* Where an operation that a step leaves executing may stand, and what a step
\* that ends one leaves of the status.
EndStep ==
    /\ op'.pc = "kill" => (op' = op /\ UNCHANGED running) \/ ~running'
    /\ op'.pc = "idle" /\ manualStopped' =>
           \/ status' = "stopped"
           \/ op.pc = "idle" /\ UNCHANGED <<status, manualStopped>>

LEMMA EBegin == ASSUME TInv, Begin PROVE EndStep
  <1> DEFINE o == Opened(Head(queue))
  <1> USE DEF flagVars, managerVars, EndStep
  <1>0. op.pc = "idle" /\ o \in Op
    <2>1. PICK k \in Kinds : Dequeue(k)
      BY DEF Begin, BeginStart, BeginStop, BeginToggle, BeginRestart,
             BeginHotSwitch, BeginRecoveryStop, Kinds
    <2> QED BY <2>1, DequeueFacts, IdleFacts
  <1>1. ASSUME Finish, UNCHANGED <<status, manualStopped>> PROVE EndStep
    BY <1>0, <1>1, IdleFacts DEF Finish
  <1>2. ASSUME NEW p \in Pcs \ {"idle"}, Moved(o, p), p = "kill" => ~running'
        PROVE  EndStep
    BY <1>2 DEF Moved
  <1>3. ASSUME EnterStart(o) \/ EnterTeardown(o) PROVE EndStep
    BY <1>0, <1>2, <1>3, MovedByStart, MovedByTeardown DEF Pcs
  <1>4. ASSUME NEW p \in {"stopFlush", "hotCheck", "patch", "kill"},
               op' = [o EXCEPT !.pc = p], p = "kill" => ~running'
        PROVE  EndStep
    BY <1>0, <1>2, <1>4, MovedByPc DEF Pcs
  <1>5. CASE BeginStart
    BY <1>3, <1>5 DEF BeginStart
  <1>6. CASE BeginStop
    BY <1>4, <1>6 DEF BeginStop, EnterUserStop
  <1>7. CASE BeginToggle
    BY <1>1, <1>3, <1>4, <1>7 DEF BeginToggle, EnterUserStop
  <1>8. CASE BeginRestart
    BY <1>1, <1>3, <1>8 DEF BeginRestart, EnterRestart
  <1>9. CASE BeginHotSwitch
    BY <1>1, <1>4, <1>9 DEF BeginHotSwitch
  <1>10. CASE BeginRecoveryStop
    BY <1>1, <1>4, <1>10 DEF BeginRecoveryStop
  <1> QED BY <1>5, <1>6, <1>7, <1>8, <1>9, <1>10 DEF Begin

LEMMA EStop == ASSUME TInv, SInv, StopHalf PROVE EndStep
  <1> USE DEF flagVars, managerVars, EndStep
  <1>1. op \in Op
    BY DEF TInv, TypeOK
  <1>2. CASE StopFlush
    BY <1>1, <1>2, MovedByTeardown DEF StopFlush, Moved
  <1>3. ASSUME StopDone PROVE EndStep
    <2>1. op'.pc # "kill" /\ status' = "stopped"
      BY <1>1, <1>3, MovedByStart, IdleFacts DEF StopDone, Moved, Finish
    <2> QED BY <2>1
  <1>4. CASE TeardownNothing
    BY <1>3, <1>4 DEF TeardownNothing
  <1>5. CASE Teardown
    BY <1>1, <1>5, MovedByPc DEF Teardown, Moved, Pcs
  <1>6. CASE Kill
    <2>1. CASE op.kind = "recoveryStop"
      <3>1. op'.pc = "idle" /\ UNCHANGED manualStopped /\ op.pc = "kill"
        BY <1>6, <2>1, IdleFacts DEF Kill, AfterKill, Finish
      <3>2. ~manualStopped
        BY <2>1, <3>1 DEF SInv, UserStops
      <3> QED BY <3>1, <3>2
    <2>2. CASE op.kind # "recoveryStop"
      BY <1>3, <1>6, <2>2 DEF Kill, AfterKill
    <2> QED BY <2>1, <2>2
  <1> QED BY <1>2, <1>4, <1>5, <1>6 DEF StopHalf

\* After a start half that failed, nothing is left to spawn or kill.
LEMMA AfterFailure ==
  ASSUME TInv, op.pc # "idle", StartReturnsFalse
  PROVE  op'.pc # "spawn" /\ op'.pc # "kill"
  <1> DEFINE o == [op EXCEPT !.rolledBack = TRUE]
  <1>1. CASE EnterStart(o)
    <2>1. o \in Op
      BY DEF TInv, TypeOK, Op
    <2> QED BY <1>1, <2>1, MovedByStart DEF Moved
  <1>2. CASE Finish
    BY <1>2, IdleFacts DEF Finish
  <1> QED BY <1>1, <1>2 DEF StartReturnsFalse, GiveUpSwitch

\* A start half or a hot switch runs with the flag down.
LEMMA EStart == ASSUME TInv, SInv, StartHalf \/ HotSwitchStep PROVE EndStep
  <1> USE DEF flagVars, EndStep
  <1>0. op.pc \in StartPcs \cup {"hotCheck", "patch"}
    BY DEF StartHalf, StartFlush, PreflightFails, AlreadyRunning, ManagerStart,
           Spawn, SpawnFails, SpawnReplyLost, ApiReady, ApiFails, StartPost,
           HotSwitchStep, HotSwitchRefused, HotSwitchRestart, MobilePatch,
           StartPcs
  <1>1. op \in Op /\ op.pc # "idle" /\ ~manualStopped
    BY <1>0 DEF TInv, TypeOK, SInv, StartPcs
  <1>2. ~manualStopped'
    <2>1. ASSUME NEW o, EnterStart(o) \/ EnterRestart(o)
          PROVE  ~manualStopped'
      BY <1>1, <2>1 DEF EnterStart, EnterRestart
    <2>2. ASSUME StartReturnsFalse PROVE ~manualStopped'
      BY <1>1, <2>1, <2>2 DEF StartReturnsFalse
    <2> QED
      BY <1>1, <2>1, <2>2
      DEF StartHalf, StartFlush, PreflightFails, AlreadyRunning, ManagerStart,
          Spawn, SpawnFails, SpawnReplyLost, ApiReady, ApiFails, StartPost,
          StartFails, HotSwitchStep, HotSwitchRefused, HotSwitchRestart,
          MobilePatch
  <1>3. op'.pc # "kill"
    <2>1. CASE Finish
      BY <2>1, IdleFacts DEF Finish
    <2>2. CASE StartReturnsFalse
      BY <1>1, <2>2, AfterFailure
    <2>3. CASE EnterRestart(op)
      BY <1>1, <2>3, MovedByStart, MovedByTeardown DEF EnterRestart, Moved
    <2>4. ASSUME NEW p \in {"spawn", "waitApi", "post"}, op' = [op EXCEPT !.pc = p]
          PROVE  op'.pc # "kill"
      BY <1>1, <2>4, MovedByPc DEF Moved, Pcs
    <2>5. CASE StartFlush
      BY <1>1, <2>5, MovedByFlush DEF StartFlush, Moved, TInv, TypeOK
    <2> QED
      BY <2>1, <2>2, <2>3, <2>4, <2>5
      DEF StartHalf, PreflightFails, AlreadyRunning, ManagerStart, Spawn,
          SpawnFails, SpawnReplyLost, ApiReady, ApiFails, StartPost, StartFails,
          HotSwitchStep, HotSwitchRefused, HotSwitchRestart, MobilePatch,
          GiveUpSwitch
  <1> QED BY <1>2, <1>3 DEF EndStep

LEMMA EStep == ASSUME TInv, SInv, EInv, [Next]_vars PROVE EInv'
  <1>1. (userStopped = manualStopped)'
    BY FlagsTogether DEF EInv, Together
  <1>2. CASE EndStep
    BY <1>1, <1>2 DEF EInv, EndStep
  <1>3. ASSUME UNCHANGED <<op, running, manualStopped>>,
               status' \in {status, "stopped"}
        PROVE  EInv'
    BY <1>1, <1>3 DEF EInv
  <1>4. CASE Ask \/ (\E m \in Modes : PickModeInSettings(m)) \/ ResetToStopped
    BY <1>3, <1>4
    DEF Ask, RequestOp, PickMode, PickModeInSettings, ResetToStopped, flagVars,
        managerVars
  <1>5. CASE Processes \/ UNCHANGED vars
    BY <1>3, <1>5
    DEF Processes, CoreCrash, WatchdogRevive, vars, flagVars, managerVars
  <1> QED
    BY <1>2, <1>4, <1>5, EBegin, EStart, EStop
    DEF Next, QueueNext, Execute, AwaitUser

-----------------------------------------------------------------------------
(***************************************************************************)
(* The processes.  A core in the app is up only while CoreManager runs it  *)
(* or is killing it, in app mode; so is the helper's core in service mode, *)
(* unless a lost call left it behind.                                      *)
(***************************************************************************)
Held == running \/ op.pc = "kill"

PInv ==
    /\ appCore => ~serviceActive /\ Held
    /\ helperCore # "off" => "helper" \in survivor \/ (serviceActive /\ Held)
    /\ op.pc = "spawn" => ~running /\ (serviceActive => UsesHelper(op.mode))

LEMMA PInit == Init => PInv
  BY IdleFacts DEF Init, PInv

\* Steps that touch neither process nor CoreManager.
LEMMA PFrame ==
  ASSUME PInv, UNCHANGED <<managerVars, coreVars>>,
         op.pc # "kill", op'.pc # "spawn" \/ op' = op
  PROVE  PInv'
  BY DEF PInv, Held, managerVars, coreVars, UsesHelper, IsDesktopTun, Desktop

LEMMA PAsk ==
  ASSUME PInv, Ask \/ (\E m \in Modes : PickModeInSettings(m)) \/ ResetToStopped
  PROVE  PInv'
  <1>1. UNCHANGED <<managerVars, coreVars, op>>
    BY DEF Ask, RequestOp, PickMode, PickModeInSettings, ResetToStopped
  <1> QED
    BY <1>1 DEF PInv, Held, managerVars, coreVars, UsesHelper, IsDesktopTun,
                Desktop

LEMMA PBegin == ASSUME TInv, PInv, Begin PROVE PInv'
  <1> USE DEF managerVars, coreVars
  <1> DEFINE o == Opened(Head(queue))
  <1>0. op = Idle /\ op.pc = "idle" /\ o \in Op
    <2>1. PICK k \in Kinds : Dequeue(k)
      BY DEF Begin, BeginStart, BeginStop, BeginToggle, BeginRestart,
             BeginHotSwitch, BeginRecoveryStop, Kinds
    <2> QED BY <2>1, DequeueFacts, IdleFacts
  <1>1. ASSUME UNCHANGED <<managerVars, coreVars>>, op'.pc # "spawn" PROVE PInv'
    BY <1>0, <1>1, PFrame
  <1>2. op'.pc # "spawn"
    <2>1. CASE Finish
      BY <2>1, IdleFacts DEF Finish
    <2>2. CASE EnterStart(o)
      BY <1>0, <2>2, MovedByStart DEF Moved
    <2>3. CASE EnterTeardown(o)
      BY <1>0, <2>3, MovedByTeardown DEF Moved
    <2>4. ASSUME NEW p \in {"stopFlush", "hotCheck", "patch", "kill"},
                 op' = [o EXCEPT !.pc = p]
          PROVE  op'.pc # "spawn"
      BY <1>0, <2>4, MovedByPc DEF Moved, Pcs
    <2>5. CASE BeginStart
      BY <2>2, <2>5 DEF BeginStart
    <2>6. CASE BeginStop
      BY <2>4, <2>6 DEF BeginStop, EnterUserStop
    <2>7. CASE BeginToggle
      BY <2>1, <2>2, <2>4, <2>7 DEF BeginToggle, EnterUserStop
    <2>8. CASE BeginRestart
      BY <2>1, <2>2, <2>3, <2>8 DEF BeginRestart, EnterRestart
    <2>9. CASE BeginHotSwitch
      BY <2>1, <2>4, <2>9 DEF BeginHotSwitch
    <2>10. CASE BeginRecoveryStop
      BY <2>1, <2>4, <2>10 DEF BeginRecoveryStop
    <2> QED BY <2>5, <2>6, <2>7, <2>8, <2>9, <2>10 DEF Begin
  <1>3. CASE BeginRecoveryStop
    <2>1. CASE running
      <3>1. op'.pc = "kill"
        BY <1>0, <1>3, <2>1, MovedByPc DEF BeginRecoveryStop, Moved, Pcs
      <3> QED BY <1>3, <2>1, <3>1 DEF BeginRecoveryStop, PInv, Held
    <2>2. CASE ~running
      BY <1>1, <1>2, <1>3, <2>2 DEF BeginRecoveryStop
    <2> QED BY <2>1, <2>2
  <1> QED
    BY <1>1, <1>2, <1>3
    DEF Begin, BeginStart, BeginStop, BeginToggle, BeginRestart, BeginHotSwitch

\* The same after a stop that is done.
LEMMA AfterStop ==
  ASSUME TInv, StopDone \/ Finish
  PROVE  op'.pc # "spawn" /\ op'.pc # "kill"
  <1>1. CASE EnterStart(op)
    BY <1>1, MovedByStart DEF Moved, TInv, TypeOK
  <1>2. CASE Finish
    BY <1>2, IdleFacts DEF Finish
  <1> QED BY <1>1, <1>2 DEF StopDone

LEMMA PStartHalf == ASSUME TInv, PInv, StartHalf PROVE PInv'
  <1> USE DEF managerVars, coreVars
  <1>0. op.pc # "idle" /\ op.pc # "kill"
    BY DEF StartHalf, StartFlush, PreflightFails, AlreadyRunning, ManagerStart,
           Spawn, SpawnFails, SpawnReplyLost, ApiReady, ApiFails, StartPost
  <1>1. op \in Op
    BY DEF TInv, TypeOK
  <1>2. ASSUME NEW p \in {"spawn", "waitApi", "post"}, op' = [op EXCEPT !.pc = p]
        PROVE  op'.pc = p /\ op'.mode = op.mode
    BY <1>1, <1>2 DEF Op, Pcs
  <1>3. CASE StartFlush
    <2>1. op'.pc = "managerStart"
      BY <1>1, <1>3, MovedByFlush DEF StartFlush, Moved, TInv, TypeOK
    <2> QED BY <1>0, <1>3, <2>1, PFrame DEF StartFlush
  <1>4. CASE PreflightFails
    BY <1>0, <1>4, AfterFailure, PFrame DEF PreflightFails
  <1>5. CASE AlreadyRunning
    BY <1>0, <1>2, <1>5, PFrame DEF AlreadyRunning
  <1>6. CASE ManagerStart
    BY <1>0, <1>2, <1>6
    DEF ManagerStart, PInv, Held, UsesHelper, IsDesktopTun, Desktop
  <1>7. CASE Spawn
    <2>1. op'.pc = "waitApi" /\ op.pc = "spawn"
      BY <1>2, <1>7 DEF Spawn
    <2> QED BY <1>7, <2>1 DEF Spawn, PInv, Held
  <1>8. CASE SpawnFails \/ SpawnReplyLost \/ ApiFails
    <2>1. op'.pc # "spawn" /\ op'.pc # "kill"
      BY <1>0, <1>8, AfterFailure
      DEF SpawnFails, SpawnReplyLost, ApiFails, StartFails
    <2>2. ~running'
      BY <1>8 DEF SpawnFails, SpawnReplyLost, ApiFails, StartFails
    <2>3. ~appCore'
      BY <1>0, <1>8 DEF SpawnFails, SpawnReplyLost, ApiFails, PInv, Held
    <2>4. helperCore' # "off" => "helper" \in survivor'
      BY <1>0, <1>8
      DEF SpawnFails, SpawnReplyLost, ApiFails, AskHelperToStop, PInv, Held
    <2> QED BY <2>1, <2>2, <2>3, <2>4 DEF PInv
  <1>9. CASE ApiReady
    BY <1>0, <1>2, <1>9 DEF ApiReady, PInv, Held
  <1>10. CASE StartPost
    <2>1. op'.pc = "idle" /\ UNCHANGED <<managerVars, coreVars>>
      BY <1>10, IdleFacts DEF StartPost, GiveUpSwitch, Finish
    <2> QED BY <1>0, <2>1, PFrame
  <1> QED
    BY <1>3, <1>4, <1>5, <1>6, <1>7, <1>8, <1>9, <1>10 DEF StartHalf

LEMMA PStopHalf == ASSUME TInv, PInv, StopHalf PROVE PInv'
  <1> USE DEF managerVars, coreVars
  <1>1. op \in Op
    BY DEF TInv, TypeOK
  <1>2. CASE StopFlush
    <2>1. op'.pc = "teardown"
      BY <1>1, <1>2, MovedByTeardown DEF StopFlush, Moved
    <2> QED BY <1>2, <2>1, PFrame DEF StopFlush
  <1>3. CASE TeardownNothing
    BY <1>3, AfterStop, PFrame DEF TeardownNothing
  <1>4. CASE Teardown
    <2>1. op'.pc = "kill"
      BY <1>1, <1>4, MovedByPc DEF Teardown, Moved, Pcs
    <2> QED BY <1>4, <2>1 DEF Teardown, PInv, Held
  <1>5. CASE Kill
    <2>1. op'.pc # "spawn" /\ op'.pc # "kill"
      BY <1>5, AfterStop DEF Kill, AfterKill
    <2>2. ~appCore'
      BY <1>5 DEF Kill, PInv
    <2>3. helperCore' # "off" => "helper" \in survivor'
      BY <1>5 DEF Kill, AskHelperToStop, PInv
    <2> QED BY <2>1, <2>2, <2>3 DEF PInv
  <1> QED BY <1>2, <1>3, <1>4, <1>5 DEF StopHalf

LEMMA PHotSwitch == ASSUME TInv, PInv, HotSwitchStep PROVE PInv'
  <1>1. /\ UNCHANGED <<managerVars, coreVars>>
        /\ op.pc \in {"hotCheck", "patch"} /\ op \in Op
    BY DEF HotSwitchStep, HotSwitchRefused, HotSwitchRestart, MobilePatch,
           TInv, TypeOK
  <1>2. op'.pc # "spawn"
    <2>1. CASE Finish
      BY <2>1, IdleFacts DEF Finish
    <2>2. CASE StartReturnsFalse
      BY <1>1, <2>2, AfterFailure
    <2>3. CASE EnterRestart(op)
      BY <1>1, <2>3, MovedByStart, MovedByTeardown DEF EnterRestart, Moved
    <2> QED
      BY <2>1, <2>2, <2>3
      DEF HotSwitchStep, HotSwitchRefused, HotSwitchRestart, MobilePatch,
          GiveUpSwitch
  <1> QED BY <1>1, <1>2, PFrame

LEMMA PRest == ASSUME TInv, PInv, Processes \/ UNCHANGED vars PROVE PInv'
  <1> USE DEF flagVars, managerVars, coreVars, PInv, Held, UsesHelper,
              IsDesktopTun, Desktop
  <1>1. CASE CoreCrash
    <2>1. UNCHANGED <<op, running, startInFlight, serviceActive, survivor>>
      BY <1>1 DEF CoreCrash
    <2>2. /\ appCore' => appCore
          /\ helperCore' # "off" => helperCore # "off"
      BY <1>1 DEF CoreCrash
    <2> QED BY <2>1, <2>2
  <1>2. CASE WatchdogRevive
    BY <1>2 DEF WatchdogRevive
  <1>3. CASE UNCHANGED vars
    BY <1>3 DEF vars
  <1> QED BY <1>1, <1>2, <1>3 DEF Processes

LEMMA PStep == ASSUME TInv, PInv, [Next]_vars PROVE PInv'
  <1>1. \/ Ask \/ (\E m \in Modes : PickModeInSettings(m)) \/ ResetToStopped
        \/ Begin \/ StartHalf \/ StopHalf \/ HotSwitchStep
        \/ Processes \/ UNCHANGED vars
    BY DEF Next, QueueNext, Execute, AwaitUser
  <1> QED
    BY <1>1, PAsk, PBegin, PStartHalf, PStopHalf, PHotSwitch, PRest

-----------------------------------------------------------------------------
(***************************************************************************)
(* The theorems.                                                           *)
(***************************************************************************)
IInv == TInv /\ FInv /\ PInv

LEMMA IInvHolds == Spec => []IInv
  <1>1. Init => IInv
    BY TInit, SInit, EInit, PInit DEF IInv, FInv
  <1>2. IInv /\ [Next]_vars => IInv'
    BY TStep, SStep, EStep, PStep DEF IInv, FInv, SOk
  <1> QED BY <1>1, <1>2, PTL DEF Spec

\* Types hold, and isLifecycleBusy's counter is the number of operations.
THEOREM TypeCorrect == Spec => [](TypeOK /\ BusyIsExact)
  <1>1. IInv => TypeOK /\ BusyIsExact
    BY DEF IInv, TInv
  <1> QED BY <1>1, IInvHolds, PTL

\* A disconnect by the user sticks until an operation starts that lifts it.
THEOREM StopSticks == Spec => []UserStopSticks
  <1>1. IInv => UserStopSticks
    BY IdleFacts DEF IInv, FInv, SInv, EInv, UserStopSticks
  <1> QED BY <1>1, IInvHolds, PTL

\* The stop flag is on disk before a disconnect tears anything down, and
\* between operations its three copies agree.
THEOREM FlagPersists == Spec => []FlagIsKept
  <1>1. IInv => StopIntentFirst
    BY DEF IInv, TInv, TypeOK, FInv, SInv, StopIntentFirst, UserStops
  <1>2. IInv => FlagsAgree
    BY IdleFacts DEF IInv, FInv, SInv, EInv, FlagsAgree
  <1>3. IInv => FlagIsKept
    BY <1>1, <1>2 DEF FlagIsKept
  <1> QED BY <1>3, IInvHolds, PTL

\* No core outlives the operation that should have stopped it, except one
\* whose call was lost; without one of those, two cores are never up.
THEOREM NoCoreLost == Spec => [](NoStrayCore /\ OneCore)
  <1>1. IInv => NoStrayCore
    BY IdleFacts DEF IInv, PInv, Held, NoStrayCore
  <1>2. IInv => OneCore
    BY DEF IInv, PInv, OneCore
  <1> QED BY <1>1, <1>2, IInvHolds, PTL

\* Only a start or a toggle clears the persisted stop flag.
THEOREM OnlyConnectLifts == Spec => OnlyConnectLiftsStop
  <1>1. IInv /\ [Next]_vars =>
            [manualStopped /\ ~manualStopped' => op'.kind \in {"start", "toggle"}]_vars
    BY SStep DEF IInv, FInv, SOk, LiftStep
  <1> QED BY <1>1, IInvHolds, PTL DEF Spec, OnlyConnectLiftsStop

\* The lifecycle implements the safety part of the promise made to the user.
THEOREM ImplementsIntent == Spec => Intent!Safe
  <1>1. Init => Intent!Init
    BY DEF Init, Intent!Init
  <1>2. IInv /\ [Next]_vars => [Intent!Next]_(Intent!uvars)
    <2> SUFFICES ASSUME IInv, [Next]_vars PROVE [Intent!Next]_(Intent!uvars)
      OBVIOUS
    <2>1. /\ running \in BOOLEAN /\ running' \in BOOLEAN
          /\ manualStopped \in BOOLEAN /\ manualStopped' \in BOOLEAN
      BY TStep DEF IInv, TInv, TypeOK
    <2>2. IntentStep
      BY SStep DEF IInv, FInv, SOk
    <2> QED
      BY <2>1, <2>2
      DEF IntentStep, Intent!Next, Intent!uvars, Intent!Connect,
          Intent!Disconnect, Intent!ComeUp, Intent!GoDown
  <1> QED BY <1>1, <1>2, IInvHolds, PTL DEF Spec, Intent!Safe

-----------------------------------------------------------------------------
(***************************************************************************)
(* CoreSupervision.  The recovery guard always has an owner.  GuardOwned   *)
(* alone is not inductive: on Android a run of the sequence after launch   *)
(* returns with the guard up, which is sound only because that sequence is *)
(* not over, so the invariant has to say who called the run, and that no   *)
(* run precedes that sequence.                                             *)
(***************************************************************************)
GuardTyped ==
    /\ resume \in [pc : ResumePcs, by : {"app", "boot"}]
    /\ recovering \in BOOLEAN

Owner == \/ ~Desktop /\ boot # "done"
         \/ /\ resume.pc \in {"health", "promote"}
            /\ Desktop \/ resume.by = "app"

GuardInv ==
    /\ GuardTyped
    /\ recovering => Owner
    /\ ~Desktop /\ boot = "init" => resume.pc = "idle"

LEMMA GuardInit == SupervisedInit => GuardInv
<1> SUFFICES ASSUME SupervisedInit PROVE GuardInv
  OBVIOUS
<1>1. resume = [pc |-> "idle", by |-> "app"]
  BY DEF SupervisedInit, NoResume
<1>2. recovering = FALSE
  BY Zenon DEF SupervisedInit
<1>3. QED
  BY <1>1, <1>2 DEF GuardInv, GuardTyped, ResumePcs

\* A step that leaves the guard, the run and the launch alone.
LEMMA GuardFrame ==
    GuardInv /\ UNCHANGED <<recovering, resume, boot>> => GuardInv'
BY DEF GuardInv, GuardTyped, Owner, Desktop

\* A run that starts while none is in flight, called by the app lifecycle or by
\* the sequence after launch, which is then under way.
LEMMA GuardRun ==
    ASSUME GuardInv, resume.pc = "idle", NEW by \in {"app", "boot"},
           RunResume(by),
           by = "app" => UNCHANGED boot /\ (Desktop \/ boot # "init"),
           by = "boot" => ~Desktop /\ boot' = "resume"
    PROVE  GuardInv'
<1> USE PlatformAssumption
    DEF GuardInv, GuardTyped, ResumePcs, Owner, Desktop, NoResume
<1>1. CASE RunReturns(by, recovering)
  BY <1>1 DEF RunReturns
<1>2. CASE resume' = [pc |-> "check", by |-> by] /\ UNCHANGED recovering
  BY <1>2
<1>3. CASE recovering' = TRUE /\ resume' = [pc |-> "health", by |-> by]
  BY <1>3
<1>4. QED
  BY <1>1, <1>2, <1>3 DEF RunResume

LEMMA GuardStep == GuardInv /\ [SupervisedNext]_svars => GuardInv'
<1> SUFFICES ASSUME GuardInv, [SupervisedNext]_svars PROVE GuardInv'
  OBVIOUS
<1> USE PlatformAssumption
<1>1. CASE LifecycleStep
  BY <1>1, GuardFrame DEF LifecycleStep
<1>2. CASE BeatStep \/ Rebuild
  BY <1>2, GuardFrame
     DEF BeatStep, Tick, BeatAlive, BeatFails, SilentRestart,
         SilentRestartReturns, Rebuild
<1>3. CASE TunStep
  BY <1>3, GuardFrame
     DEF TunStep, TunVerified, TunBroken, TunRestart, TunRestartReturns,
         TunSettled
<1>4. CASE AppResumed
  <2>1. CASE resume.pc = "idle"
    BY <1>4, <2>1, GuardRun DEF AppResumed, Desktop
  <2>2. CASE resume.pc # "idle"
    BY <1>4, <2>2
       DEF AppResumed, GuardInv, GuardTyped, Owner, Desktop
  <2>3. QED
    BY <2>1, <2>2
<1>5. CASE ResumeStep
  <2>1. CASE AbortRecovery
    BY <1>5, <2>1
       DEF AbortRecovery, RunReturns, GuardInv, GuardTyped, ResumePcs, NoResume
  <2>2. CASE CoreIsGone
    BY <2>2
       DEF CoreIsGone, RunReturns, GuardAfter, GuardInv, GuardTyped,
           ResumePcs, Owner, Desktop, NoResume
  <2>3. CASE resume.pc \in {"health", "promote"} /\ Promote
    BY <2>3
       DEF Promote, RunReturns, GuardAfter, GuardInv, GuardTyped,
           ResumePcs, Owner, Desktop, NoResume
  <2>4. CASE AdoptCore
    <3>1. CASE resume' = [resume EXCEPT !.pc = "promote"]
               /\ UNCHANGED <<recovering, boot>>
      BY <2>4, <3>1 DEF AdoptCore, GuardInv, GuardTyped, ResumePcs, Owner, Desktop
    <3>2. QED
      BY <2>3, <2>4, <3>1 DEF AdoptCore
  <2>5. CASE HelperAnswered
    BY <2>3, <2>5 DEF HelperAnswered
  <2>6. CASE ResumeCheck
    BY <2>6
       DEF ResumeCheck, RunReturns, GuardInv, GuardTyped, ResumePcs, Owner,
           Desktop, NoResume
  <2>7. QED
    BY <1>5, <2>1, <2>2, <2>4, <2>5, <2>6 DEF ResumeStep
<1>6. CASE BootStep
  <2>1. CASE BootLooks
    <3>1. CASE Desktop
      BY <2>1, <3>1 DEF BootLooks, GuardInv, GuardTyped, Owner, Desktop
    <3>2. CASE ~Desktop
      <4>1. resume.pc = "idle"
        BY <2>1, <3>2 DEF BootLooks, GuardInv
      <4>2. RunResume("boot") /\ boot' = "resume"
        BY <2>1, <3>2 DEF BootLooks
      <4>3. QED
        BY <3>2, <4>1, <4>2, GuardRun
    <3>3. QED
      BY <3>1, <3>2
  <2>2. CASE BootLooked
    BY <2>2 DEF BootLooked, GuardInv, GuardTyped, Owner, Desktop
  <2>3. CASE UNCHANGED resume /\ BootDone
    BY <2>3 DEF BootDone, GuardInv, GuardTyped, Owner, Desktop
  <2>4. CASE AutoConnect
    BY <2>3, <2>4 DEF AutoConnect, GuardInv, GuardTyped, Owner, Desktop
  <2>5. CASE AutoStart
    BY <2>3, <2>5 DEF AutoStart, GuardInv, GuardTyped, Owner, Desktop
  <2>6. CASE BootEnds
    BY <2>3, <2>6 DEF BootEnds
  <2>7. QED
    BY <1>6, <2>1, <2>2, <2>4, <2>5, <2>6 DEF BootStep
<1>7. CASE Relaunch
  BY <1>7 DEF Relaunch, GuardInv, GuardTyped, ResumePcs, NoResume
<1>8. CASE UNCHANGED svars \/ (AwaitUser /\ UNCHANGED <<watchVars, events>>)
  BY <1>8, GuardFrame DEF svars, watchVars
<1>9. QED
  BY <1>1, <1>2, <1>3, <1>4, <1>5, <1>6, <1>7, <1>8 DEF SupervisedNext

\* The guard of recoveryInProgressProvider is up only while a health check, or
\* on Android the sequence after launch, is there to lower it.
THEOREM GuardHasOwner == SupervisedSpec => []GuardOwned
<1>1. GuardInv => GuardOwned
  BY DEF GuardInv, Owner, GuardOwned
<1>2. QED
  BY <1>1, GuardInit, GuardStep, PTL DEF SupervisedSpec

-----------------------------------------------------------------------------
(***************************************************************************)
(* The stop flag under supervision.  TInv and SInv survive the watchers:   *)
(* most of them write the status and queue operations, a resume that finds *)
(* a core adopts it, and a relaunch starts from what the disk says.        *)
(***************************************************************************)
\* What every watcher does that adopts nothing.
WatchStep ==
    /\ status' \in Statuses
    /\ UNCHANGED <<flagVars, connMode, op, managerVars, coreVars, requests,
                   crashes>>
    /\ \/ UNCHANGED <<queue, inFlight>>
       \/ \E k \in Kinds \ {"hotSwitch"} : Enqueue(Plain(k))

\* What a resume does: it may lower the flag in memory, raise it again where
\* the persisted one is up, and adopt a core where that one is down.
AdoptStep ==
    /\ status' \in Statuses
    /\ running' \in BOOLEAN /\ serviceActive' \in BOOLEAN
    /\ userStopped' \in BOOLEAN
    /\ running' # running => running' /\ ~manualStopped
    /\ userStopped' => manualStopped
    /\ UNCHANGED <<manualStopped, manualDisk, connMode, queue, op, inFlight,
                   startInFlight, coreVars, requests, crashes>>

LEMMA WatchKeeps == ASSUME TInv, SInv, WatchStep PROVE TInv' /\ SOk
  <1> USE DEF flagVars, managerVars, coreVars
  <1>1. SOk
    BY DEF WatchStep, SInv, SOk, IntentStep, LiftStep
  <1>2. ASSUME NEW k \in Kinds \ {"hotSwitch"}, Enqueue(Plain(k)) PROVE TInv'
    <2>1. Plain(k) \in Request
      BY DEF Plain, Request
    <2> QED
      BY <1>2, <2>1, EnqueueFacts DEF WatchStep, TInv, TypeOK
  <1>3. CASE UNCHANGED <<queue, inFlight>>
    <2>1. BusyIsExact' /\ OpShape'
      BY <1>3 DEF WatchStep, TInv, BusyIsExact, OpShape
    <2>2. /\ status' \in Statuses
          /\ UNCHANGED <<flagVars, connMode, op, managerVars, coreVars, requests,
                         crashes>>
      BY DEF WatchStep
    <2>3. TypeOK'
      BY <1>3, <2>2 DEF TInv, TypeOK
    <2> QED BY <1>1, <2>1, <2>3 DEF TInv
  <1> QED BY <1>1, <1>2, <1>3 DEF WatchStep

LEMMA AdoptKeeps == ASSUME TInv, SInv, AdoptStep PROVE TInv' /\ SOk
  <1> USE DEF coreVars
  <1>1. TInv'
    BY DEF AdoptStep, TInv, TypeOK, BusyIsExact, OpShape
  <1>2. SInv'
    BY DEF AdoptStep, SInv, TInv, TypeOK
  <1>3. IntentStep /\ LiftStep
    BY DEF AdoptStep, IntentStep, LiftStep
  <1> QED BY <1>1, <1>2, <1>3 DEF SOk

\* The operations a watcher queues.
LEMMA WatcherFacts ==
  ASSUME TInv
  PROVE  /\ UNCHANGED vars => WatchStep
         /\ \A s \in Statuses : WatcherSets(s) => WatchStep
         /\ WatcherResets => WatchStep
         /\ \A k \in {"start", "restart"} :
               WatcherEnqueues(k) /\ UNCHANGED status => WatchStep
  <1> USE DEF WatchStep, vars, flagVars, managerVars, coreVars
  <1>1. status \in Statuses
    BY DEF TInv, TypeOK
  <1>2. UNCHANGED vars => WatchStep
    BY <1>1
  <1>3. ASSUME NEW s \in Statuses, WatcherSets(s) PROVE WatchStep
    BY <1>3 DEF WatcherSets
  <1>4. ASSUME NEW k \in {"start", "restart", "recoveryStop"},
               WatcherEnqueues(k), status' \in Statuses
        PROVE  WatchStep
    BY <1>4 DEF WatcherEnqueues, Kinds
  <1>5. WatcherResets => WatchStep
    BY <1>4 DEF WatcherResets, Statuses
  <1> QED BY <1>1, <1>2, <1>3, <1>4, <1>5

LEMMA ResumeAdopts ==
  ASSUME TInv, SInv, NEW by \in {"app", "boot"}, RunResume(by)
  PROVE  AdoptStep
  <1> USE DEF AdoptStep, TInv, TypeOK, SInv, flagVars, managerVars, coreVars
  <1>1. CASE UNCHANGED vars
    BY <1>1 DEF vars
  <1>2. CASE UNCHANGED <<status, manualStopped, manualDisk, connMode, queue, op,
                         inFlight, managerVars, coreVars, requests, crashes>>
             /\ StopLanded /\ userStopped' = TRUE
    BY <1>2 DEF StopLanded
  <1> QED BY <1>1, <1>2 DEF RunResume, vars

LEMMA PromoteAdopts ==
  ASSUME TInv, SInv, AdoptCore \/ HelperAnswered
  PROVE  AdoptStep
  <1> USE HelperAssumption
      DEF AdoptStep, TInv, TypeOK, SInv, Statuses, flagVars, managerVars, coreVars
  <1>1. CASE HelperAnswered
    BY <1>1 DEF HelperAnswered, Promote
  <1>2. CASE AdoptCore
    <2>1. ~userStopped /\ ~manualStopped
      BY <1>2 DEF AdoptCore, StopLanded
    <2> QED BY <1>2, <2>1 DEF AdoptCore, Promote
  <1> QED BY <1>1, <1>2

\* A step of the watchers that is no relaunch.
LEMMA WatchersStep ==
  ASSUME TInv, SInv,
         BeatStep \/ Rebuild \/ AppResumed \/ ResumeStep \/ TunStep \/ BootStep
  PROVE  TInv' /\ SOk
  <1>1. CASE BeatStep \/ Rebuild
    <2>1. WatchStep
      BY <1>1, WatcherFacts
      DEF BeatStep, Tick, BeatAlive, BeatFails, SilentRestart,
          SilentRestartReturns, Rebuild
    <2> QED BY <2>1, WatchKeeps
  <1>2. CASE TunStep
    <2>1. WatchStep
      <3>1. \A s \in Statuses : WatcherSets(s) => WatchStep
        BY WatcherFacts
      <3>2. {"running", "degraded"} \subseteq Statuses /\ status \in Statuses
        BY DEF Statuses, TInv, TypeOK
      <3>3. TunVerified => WatchStep
        BY <3>1, <3>2 DEF TunVerified
      <3>4. TunBroken => WatchStep
        BY <3>1, <3>2 DEF TunBroken
      <3> QED
        BY <1>2, <3>1, <3>2, <3>3, <3>4, WatcherFacts
        DEF TunStep, TunRestart, TunRestartReturns, TunSettled
    <2> QED BY <2>1, WatchKeeps
  <1>3. CASE AppResumed
    <2>1. CASE UNCHANGED vars
      BY <2>1, WatcherFacts, WatchKeeps
    <2>2. CASE RunResume("app")
      BY <2>2, ResumeAdopts, AdoptKeeps
    <2> QED BY <1>3, <2>1, <2>2 DEF AppResumed
  <1>4. CASE ResumeStep
    <2>1. CASE AbortRecovery \/ CoreIsGone \/ ResumeCheck
      <3>1. WatchStep
        BY <2>1, WatcherFacts DEF AbortRecovery, CoreIsGone, ResumeCheck
      <3> QED BY <3>1, WatchKeeps
    <2>2. CASE AdoptCore \/ HelperAnswered
      BY <2>2, PromoteAdopts, AdoptKeeps
    <2> QED BY <1>4, <2>1, <2>2 DEF ResumeStep
  <1>5. CASE BootStep
    <2>1. CASE UNCHANGED vars \/ (WatcherEnqueues("start") /\ UNCHANGED status)
      BY <2>1, WatcherFacts, WatchKeeps
    <2>2. CASE RunResume("boot")
      BY <2>2, ResumeAdopts, AdoptKeeps
    <2> QED
      BY <1>5, <2>1, <2>2
      DEF BootStep, BootLooks, BootLooked, AutoConnect, AutoStart, BootEnds
  <1> QED BY <1>1, <1>2, <1>3, <1>4, <1>5

LEMMA RelaunchKeeps == ASSUME TInv, SInv, Relaunch PROVE TInv' /\ SInv'
  <1> USE DEF Relaunch, coreVars
  <1>1. TypeOK'
    <2>1. appCore' \in BOOLEAN
      BY DEF TInv, TypeOK
    <2>2. survivor' \in SUBSET {"app", "helper"}
      OBVIOUS
    <2>3. queue' \in Seq(Request)
      BY EmptySeq
    <2> QED
      BY <2>1, <2>2, <2>3, IdleFacts DEF TInv, TypeOK, Statuses
  <1>2. BusyIsExact' /\ OpShape'
    BY IdleFacts, EmptySeq DEF BusyIsExact, OpShape
  <1>3. SInv'
    BY IdleFacts DEF SInv, StartPcs
  <1> QED BY <1>1, <1>2, <1>3 DEF TInv

LEMMA SupervisedStep ==
  ASSUME TInv, SInv, [SupervisedNext]_svars
  PROVE  /\ TInv' /\ SInv'
         /\ (IntentStep /\ LiftStep) \/ Relaunch
  <1>1. CASE LifecycleStep
    <2>1. Next
      BY <1>1 DEF LifecycleStep, Next, QueueNext
    <2> QED BY <2>1, TStep, SStep DEF SOk
  <1>2. CASE BeatStep \/ Rebuild \/ AppResumed \/ ResumeStep \/ TunStep \/ BootStep
    BY <1>2, WatchersStep DEF SOk
  <1>3. CASE Relaunch
    BY <1>3, RelaunchKeeps
  <1>4. CASE UNCHANGED vars
    BY <1>4, TRest, SRest DEF SOk
  <1> QED
    BY <1>1, <1>2, <1>3, <1>4 DEF SupervisedNext, AwaitUser, svars

LEMMA SupervisedInv == SupervisedSpec => [](TInv /\ SInv)
  <1>1. SupervisedInit => TInv /\ SInv
    BY TInit, SInit DEF SupervisedInit
  <1>2. TInv /\ SInv /\ [SupervisedNext]_svars => (TInv /\ SInv)'
    BY SupervisedStep
  <1> QED BY <1>1, <1>2, PTL DEF SupervisedSpec

\* The types of the lifecycle and its counter of operations hold with every
\* watcher queueing operations of its own.
THEOREM SupervisedTypes == SupervisedSpec => [](TypeOK /\ BusyIsExact)
  <1>1. TInv => TypeOK /\ BusyIsExact
    BY DEF TInv
  <1> QED BY <1>1, SupervisedInv, PTL

\* No watcher lifts a disconnect: the flag falls only by a start or a toggle, or
\* by a relaunch that finds it never reached the disk.
THEOREM WatchersLiftNothing == SupervisedSpec => WatchersKeepStop
  <1>1. TInv /\ SInv /\ [SupervisedNext]_svars =>
            [manualStopped /\ ~manualStopped'
                => \/ op'.kind \in {"start", "toggle"}
                   \/ ~manualDisk /\ boot' = "init"]_svars
    BY SupervisedStep DEF LiftStep, Relaunch
  <1> QED BY <1>1, SupervisedInv, PTL DEF SupervisedSpec, WatchersKeepStop

\* With the heartbeat, the resume handler and the repair of desktop TUN at work,
\* a disconnect whose operation is over leaves nothing running and is on disk,
\* it was on disk before its teardown began, and the flag in memory never claims
\* a stop the persisted one does not know.
THEOREM SupervisedStopHolds ==
    SupervisedSpec => [](DisconnectHolds /\ StopIntentFirst /\ MemoryFollows)
  <1>1. SInv => DisconnectHolds
    BY IdleFacts DEF SInv, DisconnectHolds
  <1>2. TInv /\ SInv => StopIntentFirst
    BY DEF TInv, TypeOK, SInv, StopIntentFirst, UserStops
  <1>3. SInv => MemoryFollows
    BY DEF SInv, MemoryFollows
  <1> QED BY <1>1, <1>2, <1>3, SupervisedInv, PTL

\* The lifecycle under all its watchers implements the safety part of the
\* promise made to the user, across kills and relaunches of the app.
THEOREM SupervisedIntent == SupervisedSpec => KeepsUserIntentAcrossKills
  <1>1. SupervisedInit => Intent!Init
    BY DEF SupervisedInit, Init, Intent!Init
  <1>2. TInv /\ SInv /\ [SupervisedNext]_svars
            => [Intent!Next \/ Intent!Forget]_(Intent!uvars)
    <2> SUFFICES ASSUME TInv, SInv, [SupervisedNext]_svars
                 PROVE  [Intent!Next \/ Intent!Forget]_(Intent!uvars)
      OBVIOUS
    <2>1. /\ running \in BOOLEAN /\ running' \in BOOLEAN
          /\ manualStopped \in BOOLEAN /\ manualStopped' \in BOOLEAN
      BY SupervisedStep DEF TInv, TypeOK
    <2>2. CASE Relaunch
      BY <2>1, <2>2 DEF Relaunch, Intent!Forget
    <2>3. CASE IntentStep
      BY <2>1, <2>3
      DEF IntentStep, Intent!Next, Intent!uvars, Intent!Connect,
          Intent!Disconnect, Intent!ComeUp, Intent!GoDown
    <2> QED BY <2>2, <2>3, SupervisedStep
  <1> QED
    BY <1>1, <1>2, SupervisedInv, PTL
    DEF SupervisedSpec, KeepsUserIntentAcrossKills, Intent!SafeAcrossKills
=============================================================================
