----------------------- MODULE TelemetryPipeline_proofs -----------------------
(***************************************************************************)
(* What holds of the app's events, of the runner's report and of a green   *)
(* gate for any number of events, requests, runs, gates and faults, any    *)
(* sizes of buffers, batches and limits, and both deployments.             *)
(* What is put back after a broken request is a recursive function: what   *)
(* it computes is proved from a least position where it would not hold.    *)
(***************************************************************************)
EXTENDS TelemetryPipeline, Integers, FiniteSetTheorems, SequenceTheorems,
        WellFoundedInduction, TLAPS

Typed ==
    /\ events \in [Ids -> Nat]
    /\ runner \in [pc : {"idle", "post"}, run : 0 .. MaxRuns, at : Nat, posted : Nat]
    /\ gate \in [pc : {"idle", "ingest", "probe", "clean", "over"}, run : Nat,
                 ok : BOOLEAN, skip : BOOLEAN]
    /\ synthetic \in [Tables -> SUBSET Nat]

\* a result is taken if it is stored or in the dead letter
Taken(rows, run, i) == <<"runner", run, i>> \in rows \/ <<"dead_letter", run, i>> \in rows

\* what the tables hold of a run
StoredIn(rows, run) == {i \in 1 .. Results : Taken(rows, run, i)}

\* The first k results of the latest run are taken, k is within a batch of
\* what was posted, and a run that goes on knows k.
Reported(r, rows, k) ==
    /\ StoredIn(rows, r.run) = 1 .. k
    /\ k <= r.posted /\ r.posted <= k + BatchSize
    /\ r.pc = "post" => k = r.at /\ r.posted = r.at /\ r.at < Results

\* ... and a run to come has no rows.
RunnerOk(r, rows) ==
    /\ r.pc = "post" => r.run > 0
    /\ r.run > 0 => \E k \in 0 .. Results : Reported(r, rows, k)
    /\ \A run \in Runs : run > r.run => StoredIn(rows, run) = {}

RunnerInv == RunnerOk(runner, probeRows)

IInv == Typed /\ RunnerInv /\ GateRemovesItsRows

-----------------------------------------------------------------------------
(* The batches of a run. *)

Smaller(m, n) == IF m < n THEN m ELSE n

\* a batch goes from where the run is to its size further, or to the end
LEMMA BatchIsInterval ==
    ASSUME Typed, runner.at < Results
    PROVE  LET m == Smaller(runner.at + BatchSize, Results)
           IN  /\ m \in Nat /\ runner.at < m /\ m <= Results
               /\ m <= runner.at + BatchSize
               /\ Batch = (runner.at + 1) .. m
               /\ runner.at + Cardinality(Batch) = m
               /\ Cardinality(Batch) \in Nat
<1> DEFINE m == Smaller(runner.at + BatchSize, Results)
<1>1. runner.at \in Nat /\ Results \in Nat /\ BatchSize \in Nat \ {0}
  BY PipelineAssumption DEF Typed
<1>2. /\ m \in Nat /\ runner.at < m /\ m <= Results /\ m <= runner.at + BatchSize
      /\ \A i \in Int : i <= m <=> (i <= Results /\ i <= runner.at + BatchSize)
  BY <1>1 DEF Smaller
<1>3. Batch = (runner.at + 1) .. m
  <2>1. ASSUME NEW i PROVE i \in Batch <=> i \in (runner.at + 1) .. m
    BY <1>1, <1>2 DEF Batch
  <2> QED BY <2>1
<1>4. Cardinality(Batch) = m - runner.at
  <2> HIDE DEF m
  <2>1. runner.at + 1 \in Int /\ m \in Int /\ runner.at + 1 <= m
    BY <1>1, <1>2
  <2>2. Cardinality((runner.at + 1) .. m) = m - (runner.at + 1) + 1
    BY <2>1, FS_Interval
  <2> QED BY <1>1, <1>3, <2>1, <2>2
<1> QED BY <1>1, <1>2, <1>3, <1>4

\* what the runner is after the answer to a batch
LEMMA AfterBatchFields ==
    ASSUME Typed, runner.at < Results, NEW good \in BOOLEAN
    PROVE  LET m == Smaller(runner.at + BatchSize, Results)
           IN  /\ AfterBatch(good) \in [pc : {"idle", "post"}, run : 0 .. MaxRuns,
                                        at : Nat, posted : Nat]
               /\ AfterBatch(good).run = runner.run
               /\ AfterBatch(good).at = m
               /\ AfterBatch(good).posted = runner.posted + (m - runner.at)
               /\ AfterBatch(good).pc = "post" => good /\ m < Results
<1>1. runner \in [pc : {"idle", "post"}, run : 0 .. MaxRuns, at : Nat, posted : Nat]
  BY DEF Typed
<1> DEFINE m == Smaller(runner.at + BatchSize, Results)
           n == Cardinality(Batch)
<1>2. m \in Nat /\ n \in Nat /\ runner.at + n = m /\ n = m - runner.at
  BY <1>1, BatchIsInterval
<1>3. AfterBatch(good) = [runner EXCEPT !.at = m, !.posted = runner.posted + n,
                            !.pc = IF good /\ m < Results THEN "post" ELSE "idle"]
  BY <1>1, <1>2 DEF AfterBatch
<1> HIDE DEF m, n
<1>4. runner.posted + n \in Nat /\ n = m - runner.at /\ m \in Nat
  BY <1>1, <1>2
<1>5. QED
  BY <1>1, <1>3, <1>4 DEF m

-----------------------------------------------------------------------------
(* Initially. *)

LEMMA Initially == ASSUME Init PROVE IInv
<1>1. Typed
  BY PipelineAssumption DEF Init, Typed, Tables
<1>2. RunnerInv
  BY PipelineAssumption DEF Init, RunnerInv, RunnerOk, StoredIn, Taken, Runs
<1>3. GateRemovesItsRows
  BY DEF Init, GateRemovesItsRows
<1> QED BY <1>1, <1>2, <1>3 DEF IInv

-----------------------------------------------------------------------------
(* Types. *)

\* the app writes no other table than that of its events
LEMMA AppSteps ==
    ASSUME Typed, AppNext
    PROVE  /\ UNCHANGED <<deployment, runner, probeRows, gate, synthetic>>
           /\ events' \in [Ids -> Nat]
<1>1. UNCHANGED serverVars
  BY DEF AppNext, Record, Flush, CoolDown, SwitchOff, SwitchOn, SaveSetting, Relaunch,
         Store, StoreFails, Answered, Breaks
<1>2. \/ UNCHANGED events
      \/ \E S : events' = [i \in Ids |-> IF i \in S THEN events[i] + 1 ELSE events[i]]
  BY DEF AppNext, Record, Flush, CoolDown, SwitchOff, SwitchOn, SaveSetting, Relaunch,
         Store, StoreFails, Answered, Breaks
<1> QED BY <1>1, <1>2 DEF serverVars, Typed

LEMMA TypedStep == ASSUME Typed, [Next]_vars PROVE Typed'
<1> USE DEF Typed
<1>1. CASE AppNext
  BY <1>1, AppSteps
<1>2. CASE RunnerNext
  <2>1. UNCHANGED <<events, gate, synthetic>>
    BY <1>2 DEF RunnerNext, StartRun, BatchStored, BatchRefused, NewMinute, appVars
  <2>2. CASE StartRun
    BY <2>1, <2>2, PipelineAssumption DEF StartRun
  <2>3. CASE runner.pc = "post" /\ \E good \in BOOLEAN : runner' = AfterBatch(good)
    <3>1. PICK good \in BOOLEAN : runner' = AfterBatch(good)
      BY <2>3
    <3>2. runner \in [pc : {"idle", "post"}, run : 0 .. MaxRuns, at : Nat, posted : Nat]
          /\ Cardinality(Batch) \in Nat
      <4>1. Batch \subseteq 1 .. Results
        BY DEF Batch
      <4>2. IsFiniteSet(1 .. Results)
        BY PipelineAssumption, FS_Interval
      <4> QED BY <4>1, <4>2, FS_Subset, FS_CardinalityType
    <3> DEFINE n == Cardinality(Batch)
    <3>3. /\ n \in Nat
          /\ runner' = [runner EXCEPT !.at = runner.at + n, !.posted = runner.posted + n,
                           !.pc = IF good /\ runner.at + n < Results
                                  THEN "post" ELSE "idle"]
      BY <3>1, <3>2 DEF AfterBatch
    <3> HIDE DEF n
    <3>4. PICK pc \in {"idle", "post"}, at \in Nat, posted \in Nat :
            runner' = [runner EXCEPT !.at = at, !.posted = posted, !.pc = pc]
      <4>1. runner.at + n \in Nat /\ runner.posted + n \in Nat
        BY <3>2, <3>3
      <4>2. (IF good /\ runner.at + n < Results THEN "post" ELSE "idle") \in {"idle", "post"}
        OBVIOUS
      <4> QED BY <3>3, <4>1, <4>2, Zenon
    <3>5. runner' \in [pc : {"idle", "post"}, run : 0 .. MaxRuns, at : Nat, posted : Nat]
      BY <3>2, <3>4
    <3> QED BY <2>1, <3>5
  <2>4. CASE UNCHANGED runner
    BY <2>1, <2>4
  <2> QED
    BY <1>2, <2>2, <2>3, <2>4
    DEF RunnerNext, BatchStored, BatchRefused, NewMinute
<1>3. CASE GateNext
  <2>1. UNCHANGED <<events, runner>>
    BY <1>3
    DEF GateNext, GateStart, IngestStored, IngestFails, ProbeSkipped, ProbeStored,
        ProbeRefused, Cleanup, GateKilled, Recompute, restVars, appVars
  <2>2. gate' \in [pc : {"idle", "ingest", "probe", "clean", "over"}, run : Nat,
                   ok : BOOLEAN, skip : BOOLEAN]
    <3>1. CASE IngestFails
      BY <3>1 DEF IngestFails, AnswersOk
    <3>2. CASE GateStart
      BY <3>2 DEF GateStart
    <3>3. CASE ~IngestFails /\ ~GateStart
      BY <1>3, <3>3
      DEF GateNext, IngestStored, ProbeSkipped, ProbeStored, ProbeRefused, Cleanup,
          GateKilled, Recompute, AfterProbe
    <3> QED BY <3>1, <3>2, <3>3
  <2>3. synthetic' \in [Tables -> SUBSET Nat]
    BY <1>3
    DEF GateNext, GateStart, IngestStored, IngestFails, ProbeSkipped, ProbeStored,
        ProbeRefused, Cleanup, Cleaned, GateKilled, Recompute, Tables
  <2> QED BY <2>1, <2>2, <2>3
<1>4. CASE UNCHANGED vars
  BY <1>4 DEF vars
<1> QED BY <1>1, <1>2, <1>3, <1>4 DEF Next

-----------------------------------------------------------------------------
(* The runner. *)

LEMMA RowsAre ==
    ASSUME NEW region, NEW run, NEW results, NEW other, NEW r, NEW i
    PROVE  <<other, r, i>> \in Rows(region, run, results)
             <=> other = region /\ r = run /\ i \in results
BY DEF Rows

LEMMA TakenAfterBatch ==
    ASSUME NEW bad \in SUBSET Batch,
           probeRows' = probeRows \cup Rows("runner", runner.run, Batch \ bad)
                                  \cup Rows("dead_letter", runner.run, bad),
           NEW run, NEW i
    PROVE  Taken(probeRows', run, i) <=>
             Taken(probeRows, run, i) \/ (run = runner.run /\ i \in Batch)
<1> DEFINE stored == Rows("runner", runner.run, Batch \ bad)
           dead == Rows("dead_letter", runner.run, bad)
           x == <<"runner", run, i>>
           y == <<"dead_letter", run, i>>
<1>1. /\ x \in stored <=> run = runner.run /\ i \in Batch \ bad
      /\ y \in dead <=> run = runner.run /\ i \in bad
      /\ x \notin dead /\ y \notin stored
  BY RowsAre
<1>2. i \in Batch <=> i \in Batch \ bad \/ i \in bad
  OBVIOUS
<1>3. probeRows' = probeRows \cup stored \cup dead
  OBVIOUS
<1>4. (Taken(probeRows, run, i) <=> x \in probeRows \/ y \in probeRows)
      /\ (Taken(probeRows', run, i) <=> x \in probeRows' \/ y \in probeRows')
  BY DEF Taken
<1> HIDE DEF stored, dead, x, y
<1> QED BY <1>1, <1>2, <1>3, <1>4

\* nobody else touches what is stored of its runs
LEMMA RowsOfRuns ==
    ASSUME \/ AppNext \/ GateNext \/ NewMinute \/ BatchRefused \/ StartRun
           \/ UNCHANGED vars,
           Typed
    PROVE  \A run : StoredIn(probeRows', run) = StoredIn(probeRows, run)
<1>1. \/ UNCHANGED probeRows
      \/ probeRows' = probeRows \cup Rows("release-gate", gate.run, {1})
      \/ probeRows' = {r \in probeRows : r[1] # "release-gate"}
  BY AppSteps
  DEF GateNext, GateStart, IngestStored, IngestFails, ProbeSkipped, ProbeStored,
      ProbeRefused, Cleanup, Cleaned, GateKilled, Recompute, NewMinute, BatchRefused,
      StartRun, vars
<1>2. ASSUME NEW run, NEW i
      PROVE  /\ <<"runner", run, i>> \in probeRows' <=> <<"runner", run, i>> \in probeRows
             /\ <<"dead_letter", run, i>> \in probeRows'
                   <=> <<"dead_letter", run, i>> \in probeRows
  BY <1>1 DEF Rows
<1> QED BY <1>2 DEF StoredIn, Taken

LEMMA StartRunOk == ASSUME Typed, RunnerInv, StartRun PROVE RunnerInv'
<1>1. /\ runner'.run = runner.run + 1 /\ runner'.run \in Runs
      /\ runner'.at = 0 /\ runner'.posted = 0
      /\ runner'.pc = "post" => Results # 0
      /\ runner.run \in Nat /\ Results \in Nat /\ BatchSize \in Nat
  BY PipelineAssumption DEF StartRun, Typed, Runs
<1>2. \A run : StoredIn(probeRows', run) = StoredIn(probeRows, run)
  BY RowsOfRuns
<1>3. StoredIn(probeRows', runner'.run) = {}
  BY <1>1, <1>2 DEF RunnerInv, RunnerOk
<1>4. Reported(runner', probeRows', 0)
  BY <1>1, <1>3 DEF Reported
<1>5. \A run \in Runs : run > runner'.run => StoredIn(probeRows', run) = {}
  BY <1>1, <1>2, PipelineAssumption DEF RunnerInv, RunnerOk, Runs
<1> QED BY <1>1, <1>4, <1>5 DEF RunnerInv, RunnerOk

LEMMA BatchOk ==
    ASSUME Typed, RunnerInv, BatchStored \/ BatchRefused PROVE RunnerInv'
<1> DEFINE m == Smaller(runner.at + BatchSize, Results)
<1>1. /\ runner.pc = "post" /\ runner.run > 0 /\ runner.run \in Runs
      /\ runner.at \in Nat /\ Results \in Nat /\ BatchSize \in Nat
  <2>1. runner.pc = "post"
    BY DEF BatchStored, BatchRefused
  <2>2. runner.run > 0 /\ runner.run \in 0 .. MaxRuns /\ runner.at \in Nat
    BY <2>1 DEF RunnerInv, RunnerOk, Typed
  <2> QED BY <2>1, <2>2, PipelineAssumption DEF Runs
<1>2. /\ runner.at < Results /\ runner.posted = runner.at
      /\ StoredIn(probeRows, runner.run) = 1 .. runner.at
      /\ \A run \in Runs : run > runner.run => StoredIn(probeRows, run) = {}
  BY <1>1 DEF RunnerInv, RunnerOk, Reported
<1>3. /\ m \in Nat /\ runner.at < m /\ m <= Results /\ m <= runner.at + BatchSize
      /\ Batch = (runner.at + 1) .. m
  BY <1>2, BatchIsInterval
<1>4. PICK good \in BOOLEAN :
        runner' = AfterBatch(good) /\ (good => BatchStored)
  BY DEF BatchStored, BatchRefused
<1>5. /\ runner'.run = runner.run /\ runner'.at = m
      /\ runner'.posted = m
      /\ runner'.pc = "post" => good /\ m < Results
  BY <1>1, <1>2, <1>3, <1>4, AfterBatchFields
<1> HIDE DEF m
<1>6. CASE BatchStored
  <2>1. \A run \in Runs : \A i :
          Taken(probeRows', run, i) <=>
            \/ Taken(probeRows, run, i)
            \/ run = runner.run /\ i \in Batch
    <3>1. PICK bad \in SUBSET Batch :
            probeRows' = probeRows \cup Rows("runner", runner.run, Batch \ bad)
                                   \cup Rows("dead_letter", runner.run, bad)
      BY <1>6 DEF BatchStored
    <3> QED BY <3>1, TakenAfterBatch
  <2>2. ASSUME NEW i \in 1 .. Results
        PROVE  Taken(probeRows', runner.run, i) <=> i \in 1 .. m
    <3>1. Taken(probeRows, runner.run, i) <=> i \in 1 .. runner.at
      BY <1>2 DEF StoredIn
    <3> QED BY <1>1, <1>3, <2>1, <3>1
  <2>3. StoredIn(probeRows', runner.run) = 1 .. m
    BY <1>1, <1>3, <2>2 DEF StoredIn
  <2>4. Reported(runner', probeRows', m)
    BY <1>1, <1>3, <1>5, <2>3 DEF Reported
  <2>5. ASSUME NEW run \in Runs, run > runner'.run
        PROVE  StoredIn(probeRows', run) = {}
    BY <1>1, <1>2, <1>5, <2>1, <2>5 DEF StoredIn, Runs
  <2> QED BY <1>1, <1>3, <1>5, <2>4, <2>5 DEF RunnerInv, RunnerOk
<1>7. CASE ~BatchStored
  <2>1. \A run : StoredIn(probeRows', run) = StoredIn(probeRows, run)
    BY <1>7, RowsOfRuns
  <2>2. Reported(runner', probeRows', runner.at)
    BY <1>1, <1>2, <1>3, <1>4, <1>5, <1>7, <2>1 DEF Reported
  <2> QED BY <1>1, <1>2, <1>5, <2>1, <2>2 DEF RunnerInv, RunnerOk
<1> QED BY <1>6, <1>7

LEMMA RunnerStep == ASSUME Typed, RunnerInv, [Next]_vars PROVE RunnerInv'
<1>1. CASE AppNext \/ GateNext \/ NewMinute \/ UNCHANGED vars
  <2>1. UNCHANGED runner
    BY <1>1, AppSteps
    DEF GateNext, GateStart, IngestStored, IngestFails, ProbeSkipped, ProbeStored,
        ProbeRefused, Cleanup, GateKilled, Recompute, restVars, NewMinute, vars
  <2> QED BY <1>1, <2>1, RowsOfRuns DEF RunnerInv, RunnerOk, Reported
<1> QED BY <1>1, StartRunOk, BatchOk DEF Next, RunnerNext

-----------------------------------------------------------------------------
(* The gate. *)

LEMMA GateStep ==
    ASSUME Typed, GateRemovesItsRows, [Next]_vars PROVE GateRemovesItsRows'
<1> USE DEF Typed, GateRemovesItsRows
<1>1. CASE AppNext \/ UNCHANGED vars
  <2>1. UNCHANGED <<deployment, gate, synthetic, probeRows>>
    BY <1>1, AppSteps DEF vars
  <2> QED BY <2>1
<1>2. CASE RunnerNext
  <2>1. UNCHANGED <<deployment, gate, synthetic>>
    BY <1>2 DEF RunnerNext, StartRun, BatchStored, BatchRefused, NewMinute, appVars
  <2>2. \/ UNCHANGED probeRows
        \/ \E good, bad :
             probeRows' = probeRows \cup Rows("runner", runner.run, good)
                                    \cup Rows("dead_letter", runner.run, bad)
    BY <1>2 DEF RunnerNext, StartRun, BatchStored, BatchRefused, NewMinute
  <2>3. \A good, bad : \A r \in Rows("runner", runner.run, good)
                                  \cup Rows("dead_letter", runner.run, bad) :
          r[1] # "release-gate"
    BY DEF Rows
  <2> QED BY <2>1, <2>2, <2>3
<1>3. CASE Cleanup
  <2>1. UNCHANGED deployment /\ gate'.run = gate.run
    BY <1>3 DEF Cleanup, restVars, appVars
  <2>2. gate'.ok => Cleaned
    BY <1>3 DEF Cleanup
  <2>3. Cleaned /\ deployment = "register" =>
          /\ gate'.run \notin synthetic'["events"]
          /\ \A r \in probeRows' : r[1] # "release-gate"
    BY <2>1 DEF Cleaned, PrefixMatches, Tables
  <2> QED BY <2>1, <2>2, <2>3
<1>4. CASE Recompute
  <2>1. UNCHANGED <<deployment, gate, probeRows>> /\ synthetic'["events"] = synthetic["events"]
    BY <1>4 DEF Recompute, restVars, appVars, Tables
  <2> QED BY <2>1
<1>5. CASE \/ GateStart \/ IngestStored \/ IngestFails \/ ProbeSkipped
           \/ ProbeStored \/ ProbeRefused \/ GateKilled
  <2>1. gate'.pc # "over" \/ gate'.skip
    <3>1. CASE IngestFails
      BY <3>1 DEF IngestFails
    <3>2. CASE GateStart
      BY <3>2 DEF GateStart
    <3>3. CASE ~IngestFails /\ ~GateStart
      BY <1>5, <3>3
      DEF IngestStored, ProbeSkipped, ProbeStored, ProbeRefused, GateKilled, AfterProbe
    <3> QED BY <3>1, <3>2, <3>3
  <2> QED BY <2>1
<1> QED BY <1>1, <1>2, <1>3, <1>4, <1>5 DEF Next, GateNext

-----------------------------------------------------------------------------
(* The crashes of a request. *)

\* a set of natural numbers has a least member
LEMMA Least ==
    ASSUME NEW N \in SUBSET Nat, N # {}
    PROVE  \E n \in N : \A m \in N : n <= m
<1>1. PICK n \in N : \A m \in N : <<m, n>> \notin OpToRel(<, Nat)
  BY NatLessThanWellFounded, WFMin
<1>2. \A m \in N : ~(m < n)
  BY <1>1 DEF OpToRel
<1> QED BY <1>2

\* what is kept of the first n events of a request
Step(s, kept, n) ==
    IF n = 0 THEN <<>> ELSE IF s[n].crash THEN Append(kept[n - 1], s[n]) ELSE kept[n - 1]

\* the crashes among the first n, each of them once
KeptIds(s, n) == {s[k].id : k \in {j \in 1 .. n : s[j].crash}}

LEMMA KeptExists ==
    ASSUME NEW s
    PROVE  \A n \in Nat : \E kept : kept = [i \in 0 .. n |-> Step(s, kept, i)]
<1> DEFINE Has(n) == \E kept : kept = [i \in 0 .. n |-> Step(s, kept, i)]
           Missing == {n \in Nat : ~Has(n)}
<1> SUFFICES ASSUME Missing # {} PROVE FALSE
  OBVIOUS
<1>1. PICK n \in Missing : \A m \in Missing : n <= m
  BY Least
<1>2. CASE n = 0
  <2> DEFINE kept == [i \in 0 .. 0 |-> <<>>]
  <2>1. \A i \in 0 .. 0 : Step(s, kept, i) = <<>>
    BY DEF Step
  <2>2. kept = [i \in 0 .. 0 |-> Step(s, kept, i)]
    BY <2>1
  <2> HIDE DEF kept
  <2>3. Has(0)
    BY <2>2
  <2> QED BY <1>1, <1>2, <2>3
<1>3. CASE n # 0
  <2>1. n - 1 \in Nat /\ n - 1 \notin Missing /\ n \in Nat
    BY <1>1, <1>3
  <2>2. PICK old : old = [i \in 0 .. n - 1 |-> Step(s, old, i)]
    BY <2>1
  <2> DEFINE kept == [i \in 0 .. n |-> IF i = n THEN Step(s, old, n) ELSE old[i]]
  <2>3. ASSUME NEW i \in 0 .. n PROVE kept[i] = Step(s, kept, i)
    <3>1. CASE i = n
      <4>1. kept[n - 1] = old[n - 1] /\ kept[n] = Step(s, old, n)
        BY <2>1
      <4> HIDE DEF kept
      <4> QED BY <1>3, <3>1, <4>1 DEF Step
    <3>2. CASE i # n
      <4>1. i \in 0 .. n - 1 /\ kept[i] = old[i] /\ (i # 0 => kept[i - 1] = old[i - 1])
        BY <2>1, <3>2
      <4>2. old[i] = Step(s, old, i)
        BY <2>2, <4>1
      <4> HIDE DEF kept
      <4> QED BY <4>1, <4>2 DEF Step
    <3> QED BY <3>1, <3>2
  <2>4. kept = [i \in 0 .. n |-> kept[i]]
    OBVIOUS
  <2> HIDE DEF kept
  <2>5. kept = [i \in 0 .. n |-> Step(s, kept, i)]
    BY <2>3, <2>4
  <2> QED BY <1>1, <2>5
<1> QED BY <1>2, <1>3

LEMMA CrashesOfIs ==
    ASSUME NEW S, NEW s \in Seq(S)
    PROVE  \E kept : /\ kept = [i \in 0 .. Len(s) |-> Step(s, kept, i)]
                     /\ CrashesOf(s) = kept[Len(s)]
<1> DEFINE kept[n \in 0 .. Len(s)] ==
               IF n = 0 THEN <<>>
               ELSE IF s[n].crash THEN Append(kept[n - 1], s[n]) ELSE kept[n - 1]
<1>1. CrashesOf(s) = kept[Len(s)]
  BY DEF CrashesOf
<1>2. \E f : f = [i \in 0 .. Len(s) |-> Step(s, f, i)]
  BY KeptExists, LenProperties
<1>3. kept = [i \in 0 .. Len(s) |-> Step(s, kept, i)]
  BY <1>2 DEF Step
<1> HIDE DEF kept
<1> QED BY <1>1, <1>3

\* the ids of sequences that are put together or cut
LEMMA IdsConcat ==
    ASSUME NEW S, NEW s \in Seq(S), NEW t \in Seq(S)
    PROVE  s \o t \in Seq(S) /\ IdsOf(s \o t) = IdsOf(s) \cup IdsOf(t)
<1>1. /\ s \o t \in Seq(S) /\ Len(s \o t) = Len(s) + Len(t)
      /\ \A i \in 1 .. Len(s) + Len(t) :
           (s \o t)[i] = IF i <= Len(s) THEN s[i] ELSE t[i - Len(s)]
  BY ConcatProperties
<1>2. /\ Len(s) \in Nat /\ Len(t) \in Nat
      /\ DOMAIN s = 1 .. Len(s) /\ DOMAIN t = 1 .. Len(t)
      /\ DOMAIN (s \o t) = 1 .. Len(s) + Len(t)
  BY <1>1, LenProperties
<1> DEFINE st == s \o t
<1>3. ASSUME NEW x \in IdsOf(st) PROVE x \in IdsOf(s) \cup IdsOf(t)
  <2>1. PICK i \in 1 .. Len(s) + Len(t) : x = st[i].id
    BY <1>2, <1>3 DEF IdsOf
  <2>2. i <= Len(s) => i \in DOMAIN s /\ st[i] = s[i]
    BY <1>1, <1>2
  <2>3. i > Len(s) => i - Len(s) \in DOMAIN t /\ st[i] = t[i - Len(s)]
    BY <1>1, <1>2
  <2> QED BY <1>2, <2>1, <2>2, <2>3 DEF IdsOf
<1>4. ASSUME NEW x \in IdsOf(s) PROVE x \in IdsOf(st)
  <2>1. PICK i \in 1 .. Len(s) : x = s[i].id
    BY <1>2, <1>4 DEF IdsOf
  <2>2. i \in DOMAIN st /\ st[i] = s[i]
    BY <1>1, <1>2
  <2> QED BY <2>1, <2>2 DEF IdsOf
<1>5. ASSUME NEW x \in IdsOf(t) PROVE x \in IdsOf(st)
  <2>1. PICK i \in 1 .. Len(t) : x = t[i].id
    BY <1>2, <1>5 DEF IdsOf
  <2>2. i + Len(s) \in DOMAIN st /\ st[i + Len(s)] = t[i]
    BY <1>1, <1>2
  <2> QED BY <2>1, <2>2 DEF IdsOf
<1> QED BY <1>1, <1>3, <1>4, <1>5

LEMMA IdsAppend ==
    ASSUME NEW S, NEW s \in Seq(S), NEW e \in S
    PROVE  Append(s, e) \in Seq(S) /\ IdsOf(Append(s, e)) = IdsOf(s) \cup {e.id}
<1>1. <<e>> \in Seq(S) /\ Append(s, e) = s \o <<e>>
  BY AppendIsConcat
<1>2. IdsOf(<<e>>) = {e.id}
  <2>1. DOMAIN <<e>> = 1 .. 1 /\ <<e>>[1] = e
    OBVIOUS
  <2> QED BY <2>1 DEF IdsOf
<1> DEFINE one == <<e>>
<1> HIDE DEF one
<1>3. one \in Seq(S) /\ Append(s, e) = s \o one /\ IdsOf(one) = {e.id}
  BY <1>1, <1>2 DEF one
<1>4. s \o one \in Seq(S) /\ IdsOf(s \o one) = IdsOf(s) \cup IdsOf(one)
  BY <1>3, IdsConcat
<1> QED BY <1>3, <1>4

LEMMA IdsTail ==
    ASSUME NEW S, NEW s \in Seq(S), s # <<>>
    PROVE  Tail(s) \in Seq(S) /\ IdsOf(Tail(s)) \subseteq IdsOf(s)
<1>1. /\ Tail(s) \in Seq(S) /\ Len(Tail(s)) = Len(s) - 1
      /\ \A i \in 1 .. Len(Tail(s)) : Tail(s)[i] = s[i + 1]
  BY HeadTailProperties
<1>2. /\ Len(s) \in Nat /\ DOMAIN s = 1 .. Len(s)
      /\ DOMAIN Tail(s) = 1 .. Len(s) - 1
  BY <1>1, LenProperties
<1> DEFINE t == Tail(s)
<1>3. ASSUME NEW i \in DOMAIN t PROVE i + 1 \in DOMAIN s /\ t[i] = s[i + 1]
  BY <1>1, <1>2
<1> HIDE DEF t
<1>4. IdsOf(t) \subseteq IdsOf(s)
  BY <1>3 DEF IdsOf
<1> QED BY <1>1, <1>4 DEF t

LEMMA IdsPrefix ==
    ASSUME NEW S, NEW s \in Seq(S), NEW n \in Nat
    PROVE  IdsOf(Prefix(s, n)) \subseteq IdsOf(s)
<1> DEFINE m == IF Len(s) < n THEN Len(s) ELSE n
           t == SubSeq(s, 1, m)
<1>1. /\ Len(s) \in Nat /\ DOMAIN s = 1 .. Len(s) /\ m \in Nat /\ m <= Len(s)
      /\ \A i \in 1 .. m : s[i] \in S
  BY LenProperties, ElementOfSeq
<1> HIDE DEF m
<1>2. /\ t \in Seq(S) /\ Len(t) = m /\ \A i \in 1 .. m : t[i] = s[i]
  <2>1. 1 \in Int /\ m \in Int
    BY <1>1
  <2>2. /\ SubSeq(s, 1, m) \in Seq(S)
        /\ Len(SubSeq(s, 1, m)) = IF 1 <= m THEN m - 1 + 1 ELSE 0
        /\ \A i \in 1 .. m - 1 + 1 : SubSeq(s, 1, m)[i] = s[1 + i - 1]
    BY <1>1, <2>1, SubSeqProperties
  <2> QED BY <1>1, <2>2
<1> HIDE DEF t
<1>3. DOMAIN t = 1 .. m
  BY <1>2, LenProperties
<1>4. IdsOf(t) \subseteq IdsOf(s)
  BY <1>1, <1>2, <1>3 DEF IdsOf
<1> QED BY <1>4 DEF Prefix, t, m

\* what is kept of the first n events are the crashes among them
LEMMA KeptFacts ==
    ASSUME NEW S \in SUBSET Event, NEW s \in Seq(S), NEW kept,
           kept = [i \in 0 .. Len(s) |-> Step(s, kept, i)],
           NEW upTo \in 0 .. Len(s)
    PROVE  kept[upTo] \in Seq({e \in S : e.crash}) /\ IdsOf(kept[upTo]) = KeptIds(s, upTo)
<1> DEFINE Crash == {e \in S : e.crash}
<1>1. kept = [i \in 0 .. Len(s) |-> Step(s, kept, i)]
  OBVIOUS
<1> DEFINE Good(n) == kept[n] \in Seq(Crash) /\ IdsOf(kept[n]) = KeptIds(s, n)
           Bad == {n \in 0 .. Len(s) : ~Good(n)}
<1>2. Len(s) \in Nat /\ \A k \in 1 .. Len(s) : s[k] \in S
  BY LenProperties, ElementOfSeq
<1>3. Bad = {}
  <2> SUFFICES ASSUME Bad # {} PROVE FALSE
    OBVIOUS
  <2>1. PICK n \in Bad : \A m \in Bad : n <= m
    <3>1. Bad \in SUBSET Nat
      BY <1>2
    <3> HIDE DEF Bad
    <3> QED BY <3>1, Least
  <2>2. n \in 0 .. Len(s) /\ kept[n] = Step(s, kept, n)
    BY <1>1, <2>1
  <2>3. CASE n = 0
    <3>1. kept[n] = <<>>
      BY <2>2, <2>3 DEF Step
    <3>2. IdsOf(<<>>) = {}
      BY DEF IdsOf
    <3>3. KeptIds(s, 0) = {}
      BY DEF KeptIds
    <3>4. <<>> \in Seq(Crash)
      BY EmptySeq
    <3>5. Good(n)
      BY <2>3, <3>1, <3>2, <3>3, <3>4
    <3> QED BY <2>1, <3>5
  <2>4. CASE n # 0
    <3>1. n - 1 \in 0 .. Len(s) /\ n - 1 \notin Bad /\ n \in 1 .. Len(s)
      BY <1>2, <2>1, <2>2, <2>4
    <3>2. Good(n - 1)
      BY <3>1
    <3>3. s[n] \in S
      BY <1>2, <3>1
    <3> HIDE DEF Bad
    <3>4. CASE s[n].crash
      <4>1. s[n] \in Crash /\ kept[n] = Append(kept[n - 1], s[n])
        BY <2>2, <2>4, <3>3, <3>4 DEF Step
      <4>2. /\ kept[n] \in Seq(Crash)
            /\ IdsOf(kept[n]) = IdsOf(kept[n - 1]) \cup {s[n].id}
        <5> DEFINE old == kept[n - 1]
        <5>1. old \in Seq(Crash)
          BY <3>2
        <5> HIDE DEF Crash, old
        <5>2. /\ Append(old, s[n]) \in Seq(Crash)
              /\ IdsOf(Append(old, s[n])) = IdsOf(old) \cup {s[n].id}
          BY <4>1, <5>1, IdsAppend
        <5> QED BY <4>1, <5>2 DEF old
      <4>3. KeptIds(s, n) = KeptIds(s, n - 1) \cup {s[n].id}
        BY <3>1, <3>4 DEF KeptIds
      <4> QED BY <2>1, <3>2, <4>2, <4>3 DEF Bad
    <3>5. CASE ~s[n].crash
      <4>1. kept[n] = kept[n - 1]
        BY <2>2, <2>4, <3>5 DEF Step
      <4>2. KeptIds(s, n) = KeptIds(s, n - 1)
        <5>1. {j \in 1 .. n : s[j].crash} = {j \in 1 .. n - 1 : s[j].crash}
          BY <3>1, <3>5
        <5> QED BY <5>1 DEF KeptIds
      <4> QED BY <2>1, <3>2, <4>1, <4>2 DEF Bad
    <3> QED BY <3>4, <3>5
  <2> QED BY <2>3, <2>4
<1> QED BY <1>3

\* the crashes of a request are what is put back after it breaks
LEMMA CrashesKept ==
    ASSUME NEW S \in SUBSET Event, NEW s \in Seq(S)
    PROVE  /\ CrashesOf(s) \in Seq({e \in S : e.crash})
           /\ IdsOf(CrashesOf(s)) = KeptIds(s, Len(s))
<1>1. PICK kept : /\ kept = [i \in 0 .. Len(s) |-> Step(s, kept, i)]
                  /\ CrashesOf(s) = kept[Len(s)]
  BY CrashesOfIs
<1>2. Len(s) \in 0 .. Len(s)
  BY LenProperties
<1> QED BY <1>1, <1>2, KeptFacts
-----------------------------------------------------------------------------
(***************************************************************************)
(* The app's invariant, of a client `a', requests P, rows E and crashes C: *)
(* recording an event and flushing are then steps of their own.            *)
(***************************************************************************)

\* events recorded before the n-th, marked as what they are
Known(n, C) == {e \in Event : e.id < n /\ (e.crash <=> e.id \in C)}
Plain(n, C) == {e \in Known(n, C) : ~e.crash}
Crashes(n, C) == {e \in Known(n, C) : e.crash}

\* the client and a request of its, of such events
Client(n, C) ==
    [buffer : Seq(Plain(n, C)), priority : Seq(Crashes(n, C)), next : Nat \ {0},
     sent : Nat, cooling : BOOLEAN, on : BOOLEAN, saved : BOOLEAN, first : Nat]
Request(n, C) ==
    [no : Nat, batch : Seq(Known(n, C)), served : BOOLEAN, waiting : BOOLEAN]

\* a request ends, or goes on in another state
Follow(P, p, q) == {P \ {p}, (P \ {p}) \cup {q}}

AppTyped(a, P, E, C) ==
    /\ a \in Client(a.next, C)
    /\ \A p \in P : p \in Request(a.next, C)
    /\ E \in [Ids -> Nat]
    /\ C \subseteq Ids /\ \A i \in C : i < a.next

\* An event that is no crash is in one place only, until it is stored.
UsageOk(a, P, E, i) ==
    /\ E[i] <= 1
    /\ i >= a.next => E[i] = 0
    /\ i \in IdsOf(a.buffer) => E[i] = 0 /\ \A p \in P : i \notin IdsOf(p.batch)
    /\ \A p \in P : i \in IdsOf(p.batch) /\ ~p.served => E[i] = 0
    /\ \A p, q \in P : i \in IdsOf(p.batch) /\ i \in IdsOf(q.batch) => p = q

AppOk(a, P, E, C) ==
    AppTyped(a, P, E, C) /\ \A i \in Ids \ C : UsageOk(a, P, E, i)

AppInv == deployment \in Deployments /\ AppOk(app, posts, events, crashes)

LEMMA KnownIds ==
    ASSUME NEW n, NEW C
    PROVE  /\ \A s \in Seq(Known(n, C)) : IdsOf(s) \subseteq {i \in Ids : i < n}
           /\ \A s \in Seq(Plain(n, C)) :
                IdsOf(s) \subseteq {i \in Ids \ C : i < n} /\ s \in Seq(Known(n, C))
           /\ \A s \in Seq(Crashes(n, C)) :
                IdsOf(s) \subseteq {i \in Ids \cap C : i < n} /\ s \in Seq(Known(n, C))
<1>1. ASSUME NEW S, NEW s \in Seq(S), NEW i \in IdsOf(s)
      PROVE  \E e \in S : i = e.id
  <2>1. \A k \in DOMAIN s : s[k] \in S
    BY LenProperties, ElementOfSeq
  <2> QED BY <1>1, <2>1 DEF IdsOf
<1>2. Plain(n, C) \subseteq Known(n, C) /\ Crashes(n, C) \subseteq Known(n, C)
  BY DEF Plain, Crashes
<1>3. \A s \in Seq(Known(n, C)) : IdsOf(s) \subseteq {i \in Ids : i < n}
  <2>1. \A e \in Known(n, C) : e.id \in Ids /\ e.id < n
    BY DEF Known, Event
  <2> QED BY <1>1, <2>1
<1>4. \A s \in Seq(Plain(n, C)) :
        IdsOf(s) \subseteq {i \in Ids \ C : i < n} /\ s \in Seq(Known(n, C))
  <2>1. \A e \in Plain(n, C) : e.id \in Ids \ C /\ e.id < n
    BY DEF Plain, Known, Event
  <2>2. \A s \in Seq(Plain(n, C)) : s \in Seq(Known(n, C))
    BY <1>2, SeqMonotonic
  <2> QED BY <1>1, <2>1, <2>2
<1>5. \A s \in Seq(Crashes(n, C)) :
        IdsOf(s) \subseteq {i \in Ids \cap C : i < n} /\ s \in Seq(Known(n, C))
  <2>1. \A e \in Crashes(n, C) : e.id \in Ids \cap C /\ e.id < n
    BY DEF Crashes, Known, Event
  <2>2. \A s \in Seq(Crashes(n, C)) : s \in Seq(Known(n, C))
    BY <1>2, SeqMonotonic
  <2> QED BY <1>1, <2>1, <2>2
<1> QED BY <1>3, <1>4, <1>5

\* a new event changes nothing of what is known of the earlier ones
LEMMA KnownGrows ==
    ASSUME NEW n \in Nat, NEW C, NEW D \in {C, C \cup {n}}
    PROVE  /\ \A s \in Seq(Known(n, C)) : s \in Seq(Known(n + 1, D))
           /\ \A s \in Seq(Plain(n, C)) : s \in Seq(Plain(n + 1, D))
           /\ \A s \in Seq(Crashes(n, C)) : s \in Seq(Crashes(n + 1, D))
<1>1. ASSUME NEW e \in Known(n, C) PROVE e \in Known(n + 1, D)
  <2>1. e.id \in Ids /\ e.id < n /\ e \in Event
    BY DEF Known, Event
  <2>2. e.id \in Nat /\ e.id < n + 1 /\ e.id # n
    BY <2>1, PipelineAssumption DEF Ids
  <2> QED BY <2>1, <2>2 DEF Known
<1>2. /\ Known(n, C) \subseteq Known(n + 1, D)
      /\ Plain(n, C) \subseteq Plain(n + 1, D)
      /\ Crashes(n, C) \subseteq Crashes(n + 1, D)
  BY <1>1 DEF Plain, Crashes
<1> QED BY <1>2, SeqMonotonic

\* A flush moves the buffers into a request.
LEMMA FlushOk ==
    ASSUME NEW a, NEW P, NEW E, NEW C, AppOk(a, P, E, C)
    PROVE  AppOk(Flushed(a), P \cup {Post(a)}, E, C)
<1> DEFINE b == Flushed(a)
           q == Post(a)
<1>1. AppTyped(a, P, E, C)
  BY DEF AppOk
<1>2. /\ a.buffer \in Seq(Plain(a.next, C)) /\ a.priority \in Seq(Crashes(a.next, C))
      /\ a.buffer \in Seq(Known(a.next, C)) /\ a.priority \in Seq(Known(a.next, C))
      /\ IdsOf(a.buffer) \subseteq {i \in Ids : i < a.next}
      /\ IdsOf(a.priority) \subseteq C
      /\ a.sent \in Nat /\ a.next \in Nat
  BY <1>1, KnownIds DEF AppTyped, Client
<1>3. /\ q \in Request(a.next, C)
      /\ IdsOf(q.batch) = IdsOf(a.priority) \cup IdsOf(a.buffer)
  BY <1>2, IdsConcat DEF Post, Request
<1>4. /\ b \in Client(a.next, C)
      /\ b.next = a.next /\ b.buffer = <<>>
  <2> DEFINE none == <<>>
  <2>1. none \in Seq(Plain(a.next, C)) /\ none \in Seq(Crashes(a.next, C))
    BY EmptySeq
  <2>2. b = [a EXCEPT !.priority = none, !.buffer = none, !.sent = a.sent + 1]
    BY DEF Flushed
  <2> HIDE DEF none, b
  <2>3. /\ b \in Client(a.next, C)
        /\ b.next = a.next /\ b.buffer = none
    <3>1. a \in Client(a.next, C)
      BY <1>1 DEF AppTyped
    <3>2. a.sent + 1 \in Nat
      BY <1>2
    <3>3. b = [buffer |-> none, priority |-> none, next |-> a.next, sent |-> a.sent + 1,
               cooling |-> a.cooling, on |-> a.on, saved |-> a.saved,
               first |-> a.first]
      BY <2>2, <3>1 DEF Client
    <3> QED BY <2>1, <3>1, <3>2, <3>3 DEF Client
  <2> QED BY <2>3 DEF none
<1> HIDE DEF b, q
<1>5. AppTyped(b, P \cup {q}, E, C)
  BY <1>1, <1>3, <1>4 DEF AppTyped
<1>6. IdsOf(b.buffer) = {}
  BY <1>4 DEF IdsOf
<1>7. ASSUME NEW i \in Ids \ C PROVE UsageOk(b, P \cup {q}, E, i)
  <2>1. UsageOk(a, P, E, i)
    BY DEF AppOk
  <2>2. i \in IdsOf(q.batch) => i \in IdsOf(a.buffer)
    BY <1>2, <1>3
  <2> QED BY <1>4, <1>6, <2>1, <2>2 DEF UsageOk
<1> QED BY <1>5, <1>7 DEF AppOk, b, q

\* Recording adds one event, which is in no other place.
LEMMA GrownOk ==
    ASSUME NEW a, NEW P, NEW E, NEW C, NEW crash \in BOOLEAN,
           AppOk(a, P, E, C), a.next <= MaxEvents
    PROVE  AppOk(Grown(a, crash), P, E, IF crash THEN C \cup {a.next} ELSE C)
<1> DEFINE n == a.next
           D == IF crash THEN C \cup {n} ELSE C
           e == [id |-> n, crash |-> crash]
           b == Grown(a, crash)
<1>1. AppTyped(a, P, E, C)
  BY DEF AppOk
<1>2. /\ a.buffer \in Seq(Plain(n, C)) /\ a.priority \in Seq(Crashes(n, C))
      /\ n \in Nat /\ n + 1 \in Nat \ {0} /\ n \in Ids /\ n \notin C
      /\ a.sent \in Nat /\ a.cooling \in BOOLEAN
  BY <1>1, PipelineAssumption DEF AppTyped, Ids, Client
<1>3. D \in {C, C \cup {n}}
  OBVIOUS
<1>4. /\ \A s \in Seq(Known(n, C)) : s \in Seq(Known(n + 1, D))
      /\ a.buffer \in Seq(Plain(n + 1, D)) /\ a.priority \in Seq(Crashes(n + 1, D))
  BY <1>2, <1>3, KnownGrows
<1>5. e \in Known(n + 1, D) /\ e.id = n /\ e.crash = crash
  BY <1>2 DEF Known, Event
<1> HIDE DEF e, n
<1>6. /\ b \in Client(n + 1, D)
      /\ b.next = n + 1
      /\ IdsOf(b.buffer) \subseteq IdsOf(a.buffer) \cup (IF crash THEN {} ELSE {n})
  <2>1. CASE crash
    <3>1. e \in Crashes(n + 1, D)
      BY <1>5, <2>1 DEF Crashes
    <3>2. Append(a.priority, e) \in Seq(Crashes(n + 1, D))
      BY <1>4, <3>1, IdsAppend
    <3>3. b = [a EXCEPT !.priority = Append(a.priority, e), !.next = n + 1]
      BY <1>1, <2>1 DEF Grown, AppTyped, n, e
    <3> HIDE DEF b, D
    <3> QED BY <1>1, <1>2, <1>4, <2>1, <3>2, <3>3 DEF AppTyped, Client, Request
  <2>2. CASE ~crash
    <3> DEFINE old == IF Len(a.buffer) = HardMax THEN Tail(a.buffer) ELSE a.buffer
    <3>1. e \in Plain(n + 1, D)
      BY <1>5, <2>2 DEF Plain
    <3>2. old \in Seq(Plain(n + 1, D)) /\ IdsOf(old) \subseteq IdsOf(a.buffer)
      <4>1. a.buffer = <<>> => Len(a.buffer) # HardMax
        BY PipelineAssumption
      <4> QED BY <1>4, <4>1, IdsTail
    <3>3. /\ Append(old, e) \in Seq(Plain(n + 1, D))
          /\ IdsOf(Append(old, e)) = IdsOf(old) \cup {n}
      BY <1>5, <3>1, <3>2, IdsAppend
    <3>4. b = [a EXCEPT !.buffer = Append(old, e), !.next = n + 1]
      BY <1>1, <2>2 DEF Grown, AppTyped, n, e
    <3> HIDE DEF b, D, old
    <3> QED BY <1>1, <1>2, <1>4, <2>2, <3>2, <3>3, <3>4 DEF AppTyped, Client, Request
  <2> QED BY <2>1, <2>2
<1>7. AppTyped(b, P, E, D)
  <2>1. D \subseteq Ids /\ \A i \in D : i < n + 1
    <3>1. \A i \in C : i < n /\ i \in Nat
      BY <1>1, PipelineAssumption DEF AppTyped, Ids, n
    <3> QED BY <1>1, <1>2, <3>1 DEF AppTyped
  <2>2. \A p \in P : p \in Request(n + 1, D)
    BY <1>1, <1>4 DEF AppTyped, n, Request
  <2> HIDE DEF b, D
  <2> QED BY <1>1, <1>6, <2>1, <2>2 DEF AppTyped
<1>8. ASSUME NEW i \in Ids \ D PROVE UsageOk(b, P, E, i)
  <2>1. UsageOk(a, P, E, i) /\ i \in Nat
    BY PipelineAssumption DEF AppOk, Ids
  <2>2. ~crash => E[n] = 0 /\ \A p \in P : n \notin IdsOf(p.batch)
    <3>1. ~crash => n \in Ids \ C
      BY <1>2
    <3>2. ~crash => E[n] = 0
      BY <1>2, <3>1 DEF AppOk, UsageOk, n
    <3>3. \A p \in P : n \notin IdsOf(p.batch)
      BY <1>1, <1>2, KnownIds DEF AppTyped, n, Request
    <3> QED BY <3>2, <3>3
  <2> HIDE DEF b, D
  <2>3. i >= n + 1 => i >= a.next
    BY <1>2, <2>1 DEF n
  <2> QED BY <1>6, <2>1, <2>2, <2>3 DEF UsageOk
<1> QED BY <1>7, <1>8 DEF AppOk, n
-----------------------------------------------------------------------------
(* The requests under way. *)

\* A request that ends, or goes on as it is in another state, leaves the rest as
\* it was; a row is added for what it stores.
LEMMA PostOk ==
    ASSUME NEW a, NEW P, NEW E, NEW C, AppOk(a, P, E, C),
           NEW p \in P, NEW q, NEW Q, Q \in Follow(P, p, q),
           q \in Request(a.next, C),
           q.batch = p.batch, q.served \/ ~p.served,
           NEW S \in SUBSET IdsOf(p.batch),
           S # {} => ~p.served /\ q.served,
           NEW F \in [Ids -> Nat],
           \A i \in Ids : F[i] = IF i \in S THEN E[i] + 1 ELSE E[i]
    PROVE  AppOk(a, Q, F, C)
<1>1. AppTyped(a, P, E, C)
  BY DEF AppOk
<1>2. F \in [Ids -> Nat] /\ \A i \in Ids : i \notin S => F[i] = E[i]
  BY <1>1 DEF AppTyped
<1>3. AppTyped(a, Q, F, C)
  BY <1>1, <1>2 DEF AppTyped, Request, Follow
<1>4. ASSUME NEW i \in Ids \ C PROVE UsageOk(a, Q, F, i)
  <2>1. UsageOk(a, P, E, i)
    BY DEF AppOk
  <2>2. CASE i \in S
    <3>1. ~p.served /\ q.served /\ i \in IdsOf(p.batch) /\ F[i] = E[i] + 1
      BY <2>2
    <3>2. E[i] = 0 /\ i \notin IdsOf(a.buffer) /\ i < a.next
      <4>1. E[i] = 0 /\ i \notin IdsOf(a.buffer)
        BY <2>1, <3>1 DEF UsageOk
      <4>2. p.batch \in Seq(Known(a.next, C))
        BY <1>1 DEF AppTyped, Client, Request
      <4> QED BY <3>1, <4>1, <4>2, KnownIds
    <3>3. \A r \in Q : i \in IdsOf(r.batch) => r = q
      BY <2>1, <3>1 DEF UsageOk, Follow
    <3>4. F[i] = 1
      BY <3>1, <3>2
    <3>5. ~(i >= a.next)
      BY <1>1, <3>2, PipelineAssumption DEF AppTyped, Ids, Client
    <3> QED BY <3>1, <3>2, <3>3, <3>4, <3>5 DEF UsageOk
  <2>3. CASE i \notin S
    <3>1. F[i] = E[i]
      BY <1>2, <2>3
    <3> QED BY <2>1, <3>1 DEF UsageOk, Follow
  <2> QED BY <2>2, <2>3
<1> QED BY <1>3, <1>4 DEF AppOk

\* the fields that the rest of the app's invariant does not depend on
LEMMA ClientOk ==
    ASSUME NEW a, NEW b, NEW P, NEW E, NEW C, AppOk(a, P, E, C),
           b \in Client(a.next, C),
           b.next = a.next, b.buffer = a.buffer
    PROVE  AppOk(b, P, E, C)
BY DEF AppOk, AppTyped, UsageOk

\* The crashes of a broken request go in front of the priority buffer.
LEMMA BreaksOk == ASSUME AppInv, NEW p \in posts, Breaks(p) PROVE AppInv'
<1> DEFINE n == app.next
           back == CrashesOf(p.batch) \o app.priority
           q == [p EXCEPT !.waiting = FALSE]
<1>1. AppTyped(app, posts, events, crashes)
  BY DEF AppInv, AppOk
<1>2. /\ p \in Request(n, crashes)
      /\ app \in Client(n, crashes)
  BY <1>1 DEF AppTyped
<1>3. back \in Seq(Crashes(n, crashes))
  <2>1. Known(n, crashes) \in SUBSET Event
    BY DEF Known
  <2>2. CrashesOf(p.batch) \in Seq({e \in Known(n, crashes) : e.crash})
    BY <1>2, <2>1, CrashesKept DEF Request
  <2> QED BY <1>2, <2>2, IdsConcat DEF Crashes, Client
<1>4. /\ app' = [app EXCEPT !.priority = back, !.cooling = TRUE]
      /\ events' = events /\ crashes' = crashes
      /\ posts' \in Follow(posts, p, q)
  BY DEF Breaks, Follow
<1> HIDE DEF back, n
<1>5. /\ app' \in Client(n, crashes)
      /\ app'.next = app.next /\ app'.buffer = app.buffer
  BY <1>2, <1>3, <1>4 DEF Client
<1>6. /\ q \in Request(n, crashes)
      /\ q.batch = p.batch /\ q.served = p.served
  BY <1>2 DEF Request
<1> HIDE DEF q
<1> DEFINE none == {}
<1>7. /\ events \in [Ids -> Nat] /\ none \in SUBSET IdsOf(p.batch) /\ ~(none # {})
      /\ \A i \in Ids : events[i] = IF i \in none THEN events[i] + 1 ELSE events[i]
      /\ AppOk(app, posts, events, crashes)
  BY <1>1 DEF AppTyped, AppInv
<1> HIDE DEF none
<1>8. AppOk(app, posts', events, crashes)
  BY <1>2, <1>4, <1>6, <1>7, PostOk DEF n
<1>9. deployment' = deployment
  BY DEF Breaks, serverVars
<1> QED BY <1>4, <1>5, <1>8, <1>9, ClientOk DEF AppInv, n

\* A request is stored, or not, or answered.
LEMMA ServedOk ==
    ASSUME AppInv, NEW p \in posts, Store(p) \/ StoreFails(p) \/ Answered(p)
    PROVE  AppInv'
<1> DEFINE n == app.next
           q == [p EXCEPT !.served = TRUE]
           stored == IdsOf(Prefix(p.batch, Cap[deployment]))
<1>1. AppTyped(app, posts, events, crashes)
  BY DEF AppInv, AppOk
<1>2. /\ p \in Request(n, crashes)
      /\ app \in Client(n, crashes)
      /\ events \in [Ids -> Nat]
  BY <1>1 DEF AppTyped
<1>3. /\ q \in Request(n, crashes)
      /\ q.batch = p.batch /\ q.served
  BY <1>2 DEF Request
<1>4. deployment' = deployment /\ AppOk(app, posts, events, crashes)
  BY DEF Store, StoreFails, Answered, serverVars, AppInv
<1>5. crashes' = crashes /\ posts' \in Follow(posts, p, q)
  BY DEF Store, StoreFails, Answered, Follow
<1> HIDE DEF q
<1>6. CASE Store(p)
  <2>1. /\ app' = app /\ ~p.served
        /\ events' = [i \in Ids |-> IF i \in stored THEN events[i] + 1 ELSE events[i]]
    BY <1>6 DEF Store
  <2>2. stored \subseteq IdsOf(p.batch)
    <3>1. Cap[deployment] \in Nat
      BY PipelineAssumption DEF AppInv
    <3> QED BY <1>2, <3>1, IdsPrefix DEF Request
  <2> HIDE DEF stored
  <2>3. /\ events' \in [Ids -> Nat]
        /\ \A i \in Ids : events'[i] = IF i \in stored THEN events[i] + 1 ELSE events[i]
    BY <1>2, <2>1
  <2>4. AppOk(app, posts', events', crashes)
    BY <1>3, <1>4, <1>5, <2>1, <2>2, <2>3, PostOk
  <2> QED BY <1>4, <1>5, <2>1, <2>4 DEF AppInv
<1>7. CASE StoreFails(p) \/ Answered(p)
  <2>1. /\ events' = events
        /\ app' = app \/ app' = [app EXCEPT !.cooling = FALSE]
    BY <1>7 DEF StoreFails, Answered
  <2>2. AppOk(app, posts', events, crashes)
    <3> DEFINE none == {}
    <3>1. /\ none \in SUBSET IdsOf(p.batch) /\ ~(none # {})
          /\ \A i \in Ids : events[i] = IF i \in none THEN events[i] + 1 ELSE events[i]
      OBVIOUS
    <3> HIDE DEF none
    <3> QED BY <1>2, <1>3, <1>4, <1>5, <3>1, PostOk
  <2>3. /\ app' \in Client(n, crashes)
        /\ app'.next = app.next /\ app'.buffer = app.buffer
    BY <1>2, <2>1 DEF Client
  <2> QED BY <1>4, <1>5, <2>1, <2>2, <2>3, ClientOk DEF AppInv
<1> QED BY <1>6, <1>7

-----------------------------------------------------------------------------
(* Events recorded, the switch, the end of the app. *)

\* what event() does to the client and its requests
LEMMA RecordedIs ==
    ASSUME NEW a, NEW P, NEW crash, Recorded(a, P, crash)
    PROVE  LET g == Grown(a, crash)
           IN  \/ app' = Flushed(g) /\ posts' = P \cup {Post(g)}
               \/ app' = g /\ posts' = P
BY DEF Recorded

LEMMA RecordedOk ==
    ASSUME NEW a, NEW P, NEW E, NEW C, NEW crash \in BOOLEAN,
           AppOk(a, P, E, C), a.next <= MaxEvents, Recorded(a, P, crash)
    PROVE  AppOk(app', posts', E, IF crash THEN C \cup {a.next} ELSE C)
<1> DEFINE g == Grown(a, crash)
           D == IF crash THEN C \cup {a.next} ELSE C
<1>1. AppOk(g, P, E, D)
  BY GrownOk
<1>2. \/ app' = Flushed(g) /\ posts' = P \cup {Post(g)}
      \/ app' = g /\ posts' = P
  BY RecordedIs
<1> HIDE DEF g, D
<1> QED BY <1>1, <1>2, FlushOk DEF D

\* A client that gives its buffers up; its requests stay, or what is left of them
\* when the app has ended.
LEMMA LostOk ==
    ASSUME NEW a, NEW b, NEW P, NEW Q, NEW E, NEW C, AppOk(a, P, E, C),
           b \in Client(a.next, C), b.next = a.next, b.buffer = <<>>,
           Q = P \/ Q \in Orphans(P)
    PROVE  AppOk(b, Q, E, C)
<1>1. AppTyped(a, P, E, C)
  BY DEF AppOk
<1>2. IdsOf(b.buffer) = {}
  BY DEF IdsOf
<1>3. \A q \in Q : \E p \in P : /\ q = p \/ q = [p EXCEPT !.waiting = FALSE]
                                /\ p \in Request(a.next, C)
  BY <1>1 DEF Orphans, AppTyped
<1>4. ASSUME NEW q \in Q
      PROVE  \E p \in P : /\ q \in Request(a.next, C)
                          /\ q.batch = p.batch /\ q.served = p.served
                          /\ Q # P => q = [p EXCEPT !.waiting = FALSE]
                          /\ Q = P => q = p
  <2>1. CASE Q = P
    BY <1>1, <2>1 DEF AppTyped
  <2>2. CASE Q # P
    <3>1. PICK p \in P : q = [p EXCEPT !.waiting = FALSE]
      BY <2>2 DEF Orphans
    <3>2. p \in Request(a.next, C)
      BY <1>1 DEF AppTyped
    <3>3. q \in Request(a.next, C) /\ q.batch = p.batch /\ q.served = p.served
      BY <3>1, <3>2 DEF Request
    <3> QED BY <2>2, <3>1, <3>3
  <2> QED BY <2>1, <2>2
<1>5. AppTyped(b, Q, E, C)
  BY <1>1, <1>4 DEF AppTyped
<1>6. ASSUME NEW i \in Ids \ C PROVE UsageOk(b, Q, E, i)
  <2>1. UsageOk(a, P, E, i)
    BY DEF AppOk
  <2>2. \A q \in Q : i \in IdsOf(q.batch) /\ ~q.served => E[i] = 0
    BY <1>4, <2>1 DEF UsageOk
  <2>3. ASSUME NEW q \in Q, NEW r \in Q, i \in IdsOf(q.batch), i \in IdsOf(r.batch)
        PROVE  q = r
    <3>1. PICK p \in P : /\ q.batch = p.batch
                         /\ Q # P => q = [p EXCEPT !.waiting = FALSE]
                         /\ Q = P => q = p
      BY <1>4
    <3>2. PICK u \in P : /\ r.batch = u.batch
                         /\ Q # P => r = [u EXCEPT !.waiting = FALSE]
                         /\ Q = P => r = u
      BY <1>4
    <3>3. p = u
      BY <2>1, <2>3, <3>1, <3>2 DEF UsageOk
    <3> QED BY <3>1, <3>2, <3>3
  <2> QED BY <1>2, <2>1, <2>2, <2>3 DEF UsageOk
<1> QED BY <1>5, <1>6 DEF AppOk

\* the client that has given its buffers up, switched on or off
LEMMA GivenUpIs ==
    ASSUME NEW a, NEW n, NEW C, a \in Client(n, C), NEW on \in BOOLEAN, NEW cooling \in BOOLEAN
    PROVE  LET b == [GivenUp(a) EXCEPT !.cooling = cooling, !.on = on]
           IN  /\ b \in Client(n, C) /\ b.next = a.next /\ b.first = a.next
               /\ b.buffer = <<>> /\ b.priority = <<>>
<1> DEFINE none == <<>>
           b == [GivenUp(a) EXCEPT !.cooling = cooling, !.on = on]
<1>1. none \in Seq(Plain(n, C)) /\ none \in Seq(Crashes(n, C))
  BY EmptySeq
<1>2. GivenUp(a) = [a EXCEPT !.buffer = none, !.priority = none, !.first = a.next]
  BY DEF GivenUp
<1> HIDE DEF none
<1> DEFINE g == GivenUp(a)
<1>3. b = [buffer |-> none, priority |-> none, next |-> a.next, sent |-> a.sent,
           cooling |-> cooling, on |-> on, saved |-> a.saved, first |-> a.next]
  <2>1. g = [buffer |-> none, priority |-> none, next |-> a.next, sent |-> a.sent,
             cooling |-> a.cooling, on |-> a.on, saved |-> a.saved, first |-> a.next]
    BY <1>2 DEF Client
  <2>2. b = [g EXCEPT !.cooling = cooling, !.on = on]
    OBVIOUS
  <2> HIDE DEF g, b
  <2> QED BY <2>1, <2>2
<1> HIDE DEF b
<1>4. /\ b \in Client(n, C) /\ b.next = a.next /\ b.first = a.next
      /\ b.buffer = none /\ b.priority = none
  BY <1>1, <1>3 DEF Client
<1> QED BY <1>4 DEF b, none

\* what a switch-off and a new start make of the client
LEMMA GivenUpSteps ==
    ASSUME AppInv
    PROVE  /\ SwitchOff =>
                /\ app' \in Client(app.next, crashes) /\ app'.next = app.next
                /\ app'.first = app.next /\ app'.buffer = <<>> /\ app'.priority = <<>>
           /\ LET fresh == [GivenUp(app) EXCEPT !.cooling = FALSE, !.on = app.saved]
              IN  /\ fresh \in Client(app.next, crashes) /\ fresh.next = app.next
                  /\ fresh.first = app.next /\ fresh.buffer = <<>>
                  /\ fresh.priority = <<>>
<1>1. app \in Client(app.next, crashes) /\ app.saved \in BOOLEAN /\ app.cooling \in BOOLEAN
  BY DEF AppInv, AppOk, AppTyped, Client
<1>2. [GivenUp(app) EXCEPT !.on = FALSE]
        = [GivenUp(app) EXCEPT !.cooling = app.cooling, !.on = FALSE]
  <2> DEFINE g == GivenUp(app)
  <2>1. g.cooling = app.cooling /\ g = [f \in DOMAIN g |-> g[f]]
    BY <1>1 DEF GivenUp, Client
  <2> HIDE DEF g
  <2> QED BY <2>1 DEF g
<1>3. ASSUME SwitchOff
      PROVE  /\ app' \in Client(app.next, crashes) /\ app'.next = app.next
             /\ app'.first = app.next /\ app'.buffer = <<>> /\ app'.priority = <<>>
  <2> DEFINE b == [GivenUp(app) EXCEPT !.cooling = app.cooling, !.on = FALSE]
  <2>1. app' = b
    BY <1>2, <1>3 DEF SwitchOff
  <2>2. /\ b \in Client(app.next, crashes) /\ b.next = app.next /\ b.first = app.next
        /\ b.buffer = <<>> /\ b.priority = <<>>
    BY <1>1, GivenUpIs
  <2> HIDE DEF b
  <2> QED BY <2>1, <2>2
<1>4. LET fresh == [GivenUp(app) EXCEPT !.cooling = FALSE, !.on = app.saved]
      IN  /\ fresh \in Client(app.next, crashes) /\ fresh.next = app.next
          /\ fresh.first = app.next /\ fresh.buffer = <<>> /\ fresh.priority = <<>>
  BY <1>1, GivenUpIs
<1> QED BY <1>3, <1>4

LEMMA SwitchOnIs ==
    ASSUME NEW a, NEW n, NEW C, a \in Client(n, C)
    PROVE  LET b == [a EXCEPT !.on = TRUE]
           IN  /\ b \in Client(n, C) /\ b.next = a.next /\ b.first = a.first
               /\ b.buffer = a.buffer /\ b.priority = a.priority
BY DEF Client

LEMMA AppInvStep == ASSUME AppInv, [Next]_vars PROVE AppInv'
<1>1. ASSUME NEW crash \in BOOLEAN, Record(crash) PROVE AppInv'
  <2>1. /\ app.next <= MaxEvents /\ Recorded(app, posts, crash)
        /\ crashes' = IF crash THEN crashes \cup {app.next} ELSE crashes
        /\ events' = events /\ deployment' = deployment
    BY <1>1 DEF Record, serverVars
  <2> QED BY <2>1, RecordedOk DEF AppInv
<1>5. CASE SwitchOff
  <2>1. UNCHANGED <<posts, events, crashes, deployment>>
    BY <1>5 DEF SwitchOff, serverVars
  <2> QED BY <1>5, <2>1, GivenUpSteps, LostOk DEF AppInv
<1>6. CASE SwitchOn
  <2> DEFINE b == [app EXCEPT !.on = TRUE]
  <2>1. /\ app.next <= MaxEvents /\ Recorded(b, posts, FALSE)
        /\ UNCHANGED <<events, crashes, deployment>>
    BY <1>6 DEF SwitchOn, serverVars
  <2>2. app \in Client(app.next, crashes) /\ AppOk(app, posts, events, crashes)
    BY DEF AppInv, AppOk, AppTyped
  <2>3. b \in Client(app.next, crashes) /\ b.next = app.next /\ b.buffer = app.buffer
    BY <2>2, SwitchOnIs
  <2> HIDE DEF b
  <2>4. AppOk(b, posts, events, crashes)
    BY <2>2, <2>3, ClientOk
  <2> QED BY <2>1, <2>3, <2>4, RecordedOk DEF AppInv
<1>7. CASE SaveSetting
  <2>1. /\ app' = [app EXCEPT !.saved = app.on]
        /\ posts' = posts /\ events' = events /\ crashes' = crashes
        /\ deployment' = deployment
    BY <1>7 DEF SaveSetting, serverVars
  <2>2. app \in Client(app.next, crashes)
    BY DEF AppInv, AppOk, AppTyped
  <2>3. /\ app' \in Client(app.next, crashes)
        /\ app'.next = app.next /\ app'.buffer = app.buffer
    BY <2>1, <2>2 DEF Client
  <2> QED BY <2>1, <2>3, ClientOk DEF AppInv
<1>8. CASE Relaunch
  <2> DEFINE fresh == [GivenUp(app) EXCEPT !.cooling = FALSE, !.on = app.saved]
  <2>1. PICK P \in Orphans(posts) :
          IF app.saved THEN Recorded(fresh, P, FALSE) ELSE app' = fresh /\ posts' = P
    BY <1>8 DEF Relaunch
  <2>2. /\ app.saved => app.next <= MaxEvents
        /\ UNCHANGED <<events, crashes, deployment>>
    BY <1>8 DEF Relaunch, serverVars
  <2>3. /\ fresh \in Client(app.next, crashes) /\ fresh.next = app.next
        /\ fresh.buffer = <<>>
    BY GivenUpSteps
  <2> HIDE DEF fresh
  <2>4. AppOk(fresh, P, events, crashes)
    BY <2>3, LostOk DEF AppInv
  <2> QED BY <2>1, <2>2, <2>3, <2>4, RecordedOk DEF AppInv
<1>2. CASE Flush
  BY <1>2, FlushOk DEF Flush, AppInv, serverVars
<1>3. CASE CoolDown
  <2>1. /\ app' = [app EXCEPT !.cooling = FALSE]
        /\ posts' = posts /\ events' = events /\ crashes' = crashes
        /\ deployment' = deployment
    BY <1>3 DEF CoolDown, serverVars
  <2>2. app \in Client(app.next, crashes)
    BY DEF AppInv, AppOk, AppTyped
  <2>3. /\ app' \in Client(app.next, crashes)
        /\ app'.next = app.next /\ app'.buffer = app.buffer
    BY <2>1, <2>2 DEF Client
  <2> QED BY <2>1, <2>3, ClientOk DEF AppInv
<1>4. CASE RunnerNext \/ GateNext \/ UNCHANGED vars
  <2>1. UNCHANGED <<deployment, app, posts, events, crashes>>
    BY <1>4
    DEF RunnerNext, StartRun, BatchStored, BatchRefused, NewMinute, appVars, GateNext,
        GateStart, IngestStored, IngestFails, ProbeSkipped, ProbeStored, ProbeRefused,
        Cleanup, GateKilled, Recompute, restVars, vars
  <2> QED BY <2>1 DEF AppInv
<1> QED
  BY <1>1, <1>2, <1>3, <1>4, <1>5, <1>6, <1>7, <1>8, ServedOk, BreaksOk DEF Next, AppNext

LEMMA AppInitially == ASSUME Init PROVE AppInv
<1> DEFINE none == <<>>
<1>1. /\ \A S : none \in Seq(S)
      /\ IdsOf(none) = {}
  BY EmptySeq DEF IdsOf
<1>2. /\ app = [buffer |-> none, priority |-> none, next |-> 1, sent |-> 0,
                cooling |-> FALSE, on |-> FALSE, saved |-> FALSE, first |-> 1]
      /\ deployment \in Deployments /\ posts = {} /\ events = [i \in Ids |-> 0] /\ crashes = {}
  BY DEF Init
<1> HIDE DEF none
<1>3. app \in Client(app.next, {})
  BY <1>1, <1>2 DEF Client
<1>4. AppTyped(app, posts, events, crashes)
  BY <1>2, <1>3 DEF AppTyped, Client
<1>5. ASSUME NEW i \in Ids PROVE UsageOk(app, posts, events, i)
  BY <1>1, <1>2 DEF UsageOk
<1> QED BY <1>2, <1>4, <1>5 DEF AppInv, AppOk

-----------------------------------------------------------------------------
(***************************************************************************)
(* Crashes.  The buffers and each request hold a crash once, the requests  *)
(* before any other event; and of the priority buffer and the requests     *)
(* whose answer the app waits for, one at most holds it.                   *)
(***************************************************************************)

Leads(s) == \A j, k \in DOMAIN s : j < k /\ s[k].crash => s[j].crash
CrashesOnce(s) ==
    \A j, k \in DOMAIN s : s[j].crash /\ s[k].crash /\ s[j].id = s[k].id => j = k

\* who may put the crash i back holds it alone
Alone(a, P, i) ==
    \A p \in P : p.waiting /\ i \in IdsOf(p.batch) =>
        /\ i \notin IdsOf(a.priority)
        /\ \A q \in P : q.waiting /\ i \in IdsOf(q.batch) => p = q

CrashOk(a, P, C) ==
    /\ IsFiniteSet(C) /\ Cardinality(C) <= MaxCrashes
    /\ CrashesOnce(a.priority)
    /\ \A p \in P : Leads(p.batch) /\ CrashesOnce(p.batch)
    /\ \A i \in C : Alone(a, P, i)

CrashInv == AppInv /\ CrashOk(app, posts, crashes) /\ NoCrashLost

LEMMA OnceConcat ==
    ASSUME NEW S, NEW s \in Seq(S), NEW t \in Seq(S), CrashesOnce(s), CrashesOnce(t),
           \A j \in DOMAIN s, k \in DOMAIN t :
               s[j].crash /\ t[k].crash => s[j].id # t[k].id
    PROVE  CrashesOnce(s \o t)
<1>1. /\ Len(s) \in Nat /\ Len(t) \in Nat
      /\ DOMAIN s = 1 .. Len(s) /\ DOMAIN t = 1 .. Len(t)
      /\ DOMAIN (s \o t) = 1 .. Len(s) + Len(t)
      /\ \A i \in 1 .. Len(s) + Len(t) :
           (s \o t)[i] = IF i <= Len(s) THEN s[i] ELSE t[i - Len(s)]
  BY ConcatProperties, LenProperties
<1> DEFINE st == s \o t
<1>2. SUFFICES ASSUME NEW j \in DOMAIN st, NEW k \in DOMAIN st,
                      st[j].crash, st[k].crash, st[j].id = st[k].id
               PROVE  j = k
  BY DEF CrashesOnce
<1>3. \A i \in DOMAIN st :
        \/ i \in DOMAIN s /\ st[i] = s[i]
        \/ i > Len(s) /\ i - Len(s) \in DOMAIN t /\ st[i] = t[i - Len(s)]
  BY <1>1
<1>4. \A i \in DOMAIN st : i \in Int
  BY <1>1
<1> HIDE DEF st
<1>5. CASE j \in DOMAIN s /\ st[j] = s[j]
  BY <1>1, <1>2, <1>3, <1>4, <1>5 DEF CrashesOnce
<1>6. CASE j > Len(s) /\ j - Len(s) \in DOMAIN t /\ st[j] = t[j - Len(s)]
  <2>1. CASE k \in DOMAIN s /\ st[k] = s[k]
    BY <1>2, <1>6, <2>1
  <2>2. CASE k > Len(s) /\ k - Len(s) \in DOMAIN t /\ st[k] = t[k - Len(s)]
    <3>1. j - Len(s) = k - Len(s)
      BY <1>2, <1>6, <2>2 DEF CrashesOnce
    <3> QED BY <1>1, <1>4, <3>1
  <2> QED BY <1>3, <2>1, <2>2
<1> QED BY <1>3, <1>5, <1>6

LEMMA OnceAppend ==
    ASSUME NEW S, NEW s \in Seq(S), NEW e \in S, CrashesOnce(s),
           e.id \notin IdsOf(s)
    PROVE  CrashesOnce(Append(s, e))
<1> DEFINE one == <<e>>
<1>1. one \in Seq(S) /\ Append(s, e) = s \o one
  BY AppendIsConcat
<1>2. DOMAIN one = 1 .. 1 /\ one[1] = e
  OBVIOUS
<1> HIDE DEF one
<1>3. CrashesOnce(one)
  BY <1>2 DEF CrashesOnce
<1>4. \A j \in DOMAIN s, k \in DOMAIN one : s[j].id # one[k].id
  BY <1>2 DEF IdsOf
<1> QED BY <1>1, <1>3, <1>4, OnceConcat

\* what is put back holds a crash once if the request did
LEMMA KeptOnce ==
    ASSUME NEW S \in SUBSET Event, NEW s \in Seq(S), CrashesOnce(s)
    PROVE  CrashesOnce(CrashesOf(s))
<1> DEFINE Crash == {e \in S : e.crash}
<1>1. PICK kept : /\ kept = [i \in 0 .. Len(s) |-> Step(s, kept, i)]
                  /\ CrashesOf(s) = kept[Len(s)]
  BY CrashesOfIs
<1> DEFINE Good(n) == CrashesOnce(kept[n])
           Bad == {n \in 0 .. Len(s) : ~Good(n)}
<1>2. Len(s) \in Nat /\ DOMAIN s = 1 .. Len(s) /\ \A k \in 1 .. Len(s) : s[k] \in S
  BY LenProperties, ElementOfSeq
<1>3. Bad = {}
  <2> SUFFICES ASSUME Bad # {} PROVE FALSE
    OBVIOUS
  <2>1. PICK n \in Bad : \A m \in Bad : n <= m
    <3>1. Bad \in SUBSET Nat
      BY <1>2
    <3> HIDE DEF Bad
    <3> QED BY <3>1, Least
  <2>2. n \in 0 .. Len(s) /\ kept[n] = Step(s, kept, n)
    BY <1>1, <2>1
  <2>3. CASE n = 0
    <3>1. kept[n] = <<>>
      BY <2>2, <2>3 DEF Step
    <3>2. CrashesOnce(<<>>)
      BY DEF CrashesOnce
    <3> QED BY <2>1, <3>1, <3>2
  <2>4. CASE n # 0
    <3>1. n - 1 \in 0 .. Len(s) /\ n - 1 \notin Bad /\ n \in 1 .. Len(s)
      BY <1>2, <2>1, <2>2, <2>4
    <3>2. Good(n - 1)
      BY <3>1
    <3>3. kept[n - 1] \in Seq(Crash) /\ IdsOf(kept[n - 1]) = KeptIds(s, n - 1)
      BY <1>1, <3>1, KeptFacts
    <3> HIDE DEF Bad
    <3>4. CASE s[n].crash
      <4>1. s[n] \in Crash /\ kept[n] = Append(kept[n - 1], s[n])
        BY <1>2, <2>2, <2>4, <3>1, <3>4 DEF Step
      <4>2. s[n].id \notin KeptIds(s, n - 1)
        BY <1>2, <3>1, <3>4 DEF KeptIds, CrashesOnce
      <4>3. CrashesOnce(kept[n])
        BY <3>2, <3>3, <4>1, <4>2, OnceAppend
      <4> QED BY <2>1, <4>3 DEF Bad
    <3>5. CASE ~s[n].crash
      <4>1. kept[n] = kept[n - 1]
        BY <2>2, <2>4, <3>5 DEF Step
      <4> QED BY <2>1, <3>2, <4>1 DEF Bad
    <3> QED BY <3>4, <3>5
  <2> QED BY <2>3, <2>4
<1> QED BY <1>1, <1>2, <1>3

\* The crashes of a request are among its first events, as many as there are.
LEMMA CrashesFirst ==
    ASSUME NEW n, NEW C, NEW s \in Seq(Known(n, C)), Leads(s), CrashesOnce(s),
           IsFiniteSet(C), NEW cut \in Nat, Cardinality(C) <= cut,
           NEW i \in C, i \in IdsOf(s)
    PROVE  i \in IdsOf(Prefix(s, cut))
<1>1. /\ Len(s) \in Nat /\ DOMAIN s = 1 .. Len(s)
      /\ \A k \in 1 .. Len(s) : s[k] \in Known(n, C)
  BY LenProperties, ElementOfSeq
<1>2. PICK k \in DOMAIN s : s[k].id = i
  BY DEF IdsOf
<1>3. \A j \in 1 .. k : j \in DOMAIN s /\ s[j].crash /\ s[j].id \in C
  <2>1. s[k].crash
    BY <1>1, <1>2 DEF Known
  <2>2. ASSUME NEW j \in 1 .. k PROVE j \in DOMAIN s /\ s[j].crash
    <3>1. j \in DOMAIN s /\ (j < k \/ j = k)
      BY <1>1, <1>2
    <3> QED BY <1>2, <2>1, <3>1 DEF Leads
  <2> QED BY <1>1, <2>2 DEF Known
<1>4. k <= Cardinality(C)
  <2> DEFINE f == [j \in 1 .. k |-> s[j].id]
  <2>1. f \in Injection(1 .. k, C)
    <3>1. f \in [1 .. k -> C]
      BY <1>3
    <3>2. \A x, y \in 1 .. k : f[x] = f[y] => x = y
      BY <1>3 DEF CrashesOnce
    <3> QED BY <3>1, <3>2 DEF Injection, IsInjective
  <2>2. Cardinality(1 .. k) <= Cardinality(C)
    BY <2>1, FS_Injection
  <2>3. Cardinality(1 .. k) = IF 1 > k THEN 0 ELSE k - 1 + 1
    BY <1>1, <1>2, FS_Interval
  <2> QED BY <1>1, <1>2, <2>2, <2>3
<1>5. Cardinality(C) \in Nat
  BY FS_CardinalityType
<1> DEFINE m == IF Len(s) < cut THEN Len(s) ELSE cut
           t == SubSeq(s, 1, m)
<1>6. m \in Nat /\ m <= Len(s) /\ k \in 1 .. m
  BY <1>1, <1>2, <1>4, <1>5
<1> HIDE DEF m
<1>7. t \in Seq(Known(n, C)) /\ Len(t) = m /\ t[k] = s[k]
  <2>1. 1 \in Int /\ m \in Int /\ \A j \in 1 .. m : s[j] \in Known(n, C)
    BY <1>1, <1>6
  <2>2. /\ SubSeq(s, 1, m) \in Seq(Known(n, C))
        /\ Len(SubSeq(s, 1, m)) = IF 1 <= m THEN m - 1 + 1 ELSE 0
        /\ \A j \in 1 .. m - 1 + 1 : SubSeq(s, 1, m)[j] = s[1 + j - 1]
    BY <2>1, SubSeqProperties
  <2> QED BY <1>6, <2>2
<1> HIDE DEF t
<1>8. k \in DOMAIN t /\ t[k].id = i
  BY <1>2, <1>6, <1>7, LenProperties
<1>9. i \in IdsOf(t)
  BY <1>8 DEF IdsOf
<1> QED BY <1>9 DEF Prefix, m, t
\* where a crash is
Held(a, P, E, R, i) ==
    \/ E[i] > 0 \/ i \in R
    \/ i \in IdsOf(a.priority)
    \/ \E p \in P : ~p.served /\ i \in IdsOf(p.batch)

LEMMA KnownMarks ==
    ASSUME NEW n, NEW C
    PROVE  /\ \A s \in Seq(Known(n, C)) : \A k \in DOMAIN s : s[k].crash <=> s[k].id \in C
           /\ \A s \in Seq(Plain(n, C)) : \A k \in DOMAIN s : ~s[k].crash
           /\ \A s \in Seq(Crashes(n, C)) : \A k \in DOMAIN s : s[k].crash
           /\ \A s \in Seq(Known(n, C)) : KeptIds(s, Len(s)) = C \cap IdsOf(s)
<1>1. \A S : \A s \in Seq(S) : \A k \in DOMAIN s : s[k] \in S
  BY LenProperties, ElementOfSeq
<1>2. \A s \in Seq(Known(n, C)) : \A k \in DOMAIN s : s[k].crash <=> s[k].id \in C
  BY <1>1 DEF Known
<1>3. \A s \in Seq(Plain(n, C)) : \A k \in DOMAIN s : ~s[k].crash
  BY <1>1 DEF Plain
<1>4. \A s \in Seq(Crashes(n, C)) : \A k \in DOMAIN s : s[k].crash
  BY <1>1 DEF Crashes
<1>5. ASSUME NEW s \in Seq(Known(n, C)) PROVE KeptIds(s, Len(s)) = C \cap IdsOf(s)
  <2>1. DOMAIN s = 1 .. Len(s)
    BY LenProperties
  <2> QED BY <1>2, <2>1 DEF KeptIds, IdsOf
<1> QED BY <1>2, <1>3, <1>4, <1>5

\* A flush moves the crashes of the priority buffer to the front of a request.
LEMMA FlushCrash ==
    ASSUME NEW a, NEW P, NEW E, NEW C, NEW R, AppOk(a, P, E, C), CrashOk(a, P, C)
    PROVE  /\ CrashOk(Flushed(a), P \cup {Post(a)}, C)
           /\ \A i \in C : Held(a, P, E, R, i) => Held(Flushed(a), P \cup {Post(a)}, E, R, i)
<1> DEFINE b == Flushed(a)
           q == Post(a)
           s == a.priority
           t == a.buffer
<1>1. a \in Client(a.next, C)
  BY DEF AppOk, AppTyped
<1>2. /\ s \in Seq(Known(a.next, C)) /\ t \in Seq(Known(a.next, C))
      /\ \A k \in DOMAIN s : s[k].crash
      /\ \A k \in DOMAIN t : ~t[k].crash
      /\ IdsOf(t) \cap C = {}
  BY <1>1, KnownIds, KnownMarks DEF Client
<1>3. /\ q.batch = s \o t /\ ~q.served
      /\ IdsOf(q.batch) = IdsOf(s) \cup IdsOf(t)
  BY <1>2, IdsConcat DEF Post
<1>4. CrashesOnce(q.batch)
  <2>1. CrashesOnce(s)
    BY DEF CrashOk
  <2>2. CrashesOnce(t)
    BY <1>2 DEF CrashesOnce
  <2> HIDE DEF q, s, t
  <2> QED BY <1>2, <1>3, <2>1, <2>2, OnceConcat
<1>5. Leads(q.batch)
  <2> HIDE DEF q, s, t
  <2>1. /\ Len(s) \in Nat /\ Len(t) \in Nat
        /\ DOMAIN s = 1 .. Len(s) /\ DOMAIN t = 1 .. Len(t)
        /\ DOMAIN (s \o t) = 1 .. Len(s) + Len(t)
        /\ \A i \in 1 .. Len(s) + Len(t) :
             (s \o t)[i] = IF i <= Len(s) THEN s[i] ELSE t[i - Len(s)]
    BY <1>2, ConcatProperties, LenProperties
  <2> DEFINE st == s \o t
  <2>2. \A k \in DOMAIN st : k \in Int /\ (st[k].crash <=> k <= Len(s))
    <3> SUFFICES ASSUME NEW k \in 1 .. Len(s) + Len(t)
                 PROVE  k \in Int /\ (st[k].crash <=> k <= Len(s))
      BY <2>1
    <3>1. CASE k <= Len(s)
      BY <1>2, <2>1, <3>1
    <3>2. CASE k > Len(s)
      <4>1. k - Len(s) \in DOMAIN t /\ st[k] = t[k - Len(s)]
        <5>1. k - Len(s) \in 1 .. Len(t) /\ ~(k <= Len(s))
          BY <2>1, <3>2
        <5> QED BY <2>1, <5>1
      <4> QED BY <1>2, <2>1, <3>2, <4>1
    <3> QED BY <2>1, <3>1, <3>2
  <2> HIDE DEF st
  <2>3. Leads(st)
    BY <2>1, <2>2 DEF Leads
  <2> QED BY <1>3, <2>3 DEF st
<1>6. b.priority = <<>>
  BY <1>1 DEF Flushed, Client
<1>7. IdsOf(b.priority) = {} /\ CrashesOnce(b.priority)
  BY <1>6 DEF IdsOf, CrashesOnce
<1> HIDE DEF b, q, s, t
<1>8. ASSUME NEW i \in C PROVE Alone(b, P \cup {q}, i)
  <2>1. Alone(a, P, i)
    BY DEF CrashOk
  <2>2. i \in IdsOf(q.batch) => i \in IdsOf(a.priority)
    BY <1>2, <1>3 DEF s
  <2> QED BY <1>7, <2>1, <2>2 DEF Alone
<1>9. CrashOk(b, P \cup {q}, C)
  BY <1>4, <1>5, <1>7, <1>8 DEF CrashOk
<1>10. \A i \in C : Held(a, P, E, R, i) => Held(b, P \cup {q}, E, R, i)
  BY <1>3 DEF Held, s
<1> QED BY <1>9, <1>10 DEF b, q

\* A new crash is in the priority buffer and nowhere else.
LEMMA GrownCrash ==
    ASSUME NEW a, NEW P, NEW E, NEW C, NEW R, NEW crash \in BOOLEAN,
           AppOk(a, P, E, C), CrashOk(a, P, C), a.next <= MaxEvents,
           crash => Cardinality(C) < MaxCrashes
    PROVE  LET D == IF crash THEN C \cup {a.next} ELSE C
           IN  /\ CrashOk(Grown(a, crash), P, D)
               /\ \A i \in D : (i \in C => Held(a, P, E, R, i))
                                 => Held(Grown(a, crash), P, E, R, i)
<1> DEFINE n == a.next
           b == Grown(a, crash)
           e == [id |-> n, crash |-> crash]
<1>1. AppTyped(a, P, E, C) /\ a \in Client(n, C)
  BY DEF AppOk, AppTyped
<1>2. CASE ~crash
  <2>1. b.priority = a.priority
    BY <1>1, <1>2 DEF Grown, Client
  <2> HIDE DEF b
  <2>2. CrashOk(b, P, C)
    BY <2>1 DEF CrashOk, Alone
  <2>3. \A i \in C : Held(a, P, E, R, i) => Held(b, P, E, R, i)
    BY <2>1 DEF Held
  <2> QED BY <1>2, <2>2, <2>3 DEF b
<1>3. CASE crash
  <2>1. /\ n \in Nat /\ n \in Ids /\ n \notin C
        /\ a.priority \in Seq(Crashes(n, C))
        /\ a.priority \in Seq(Known(n, C))
        /\ n \notin IdsOf(a.priority)
        /\ \A p \in P : n \notin IdsOf(p.batch)
    <3>1. n \in Nat /\ n \in Ids /\ n \notin C /\ ~(n < n)
      BY <1>1, PipelineAssumption DEF AppTyped, Client, Ids
    <3>2. \A p \in P : n \notin IdsOf(p.batch)
      BY <1>1, <3>1, KnownIds DEF AppTyped, Request
    <3> QED BY <1>1, <3>1, <3>2, KnownIds DEF Client
  <2>2. /\ b.priority = Append(a.priority, e)
        /\ e \in Event /\ e.id = n
    BY <1>1, <1>3, <2>1 DEF Grown, Client, Event
  <2>3. a.priority \in Seq(Event)
    <3>1. Crashes(n, C) \subseteq Event
      BY DEF Crashes, Known
    <3> QED BY <2>1, <3>1, SeqMonotonic
  <2> HIDE DEF b, e
  <2>4. /\ IdsOf(b.priority) = IdsOf(a.priority) \cup {n}
        /\ CrashesOnce(b.priority)
    <3>1. CrashesOnce(a.priority)
      BY DEF CrashOk
    <3> HIDE DEF n
    <3> QED BY <2>1, <2>2, <2>3, <3>1, IdsAppend, OnceAppend
  <2>5. IsFiniteSet(C \cup {n}) /\ Cardinality(C \cup {n}) <= MaxCrashes
    <3>1. IsFiniteSet(C) /\ Cardinality(C) \in Nat
      BY FS_CardinalityType DEF CrashOk
    <3>2. /\ IsFiniteSet(C \cup {n})
          /\ Cardinality(C \cup {n}) = Cardinality(C) + 1
      BY <2>1, <3>1, FS_AddElement
    <3> QED BY <1>3, <3>1, <3>2, PipelineAssumption
  <2>6. ASSUME NEW i \in C \cup {n} PROVE Alone(b, P, i)
    BY <2>1, <2>4, <2>6 DEF CrashOk, Alone
  <2>7. CrashOk(b, P, C \cup {n})
    BY <2>4, <2>5, <2>6 DEF CrashOk
  <2>8. \A i \in C \cup {n} : (i \in C => Held(a, P, E, R, i)) => Held(b, P, E, R, i)
    BY <2>4 DEF Held
  <2> QED BY <1>3, <2>7, <2>8 DEF b
<1> QED BY <1>2, <1>3

\* A request that ends, or goes on, takes no part from the others.
LEMMA FollowCrash ==
    ASSUME NEW a, NEW b, NEW P, NEW C, CrashOk(a, P, C), b.priority = a.priority,
           NEW p \in P, NEW q, NEW Q, Q \in Follow(P, p, q),
           q.batch = p.batch, q.waiting => p.waiting
    PROVE  CrashOk(b, Q, C)
<1>1. \A i \in C : Alone(a, P, i)
  BY DEF CrashOk
<1>2. \A r \in Q : r \in P \/ r = q
  BY DEF Follow
<1>3. \A r \in Q : Leads(r.batch) /\ CrashesOnce(r.batch)
  BY <1>2 DEF CrashOk
<1>4. ASSUME NEW i \in C PROVE Alone(b, Q, i)
  <2>1. ASSUME NEW r \in Q, r.waiting, i \in IdsOf(r.batch)
        PROVE  i \notin IdsOf(b.priority)
    BY <1>1, <1>2, <2>1 DEF Alone
  <2>2. ASSUME NEW r \in Q, r.waiting, i \in IdsOf(r.batch),
               NEW u \in Q, u.waiting, i \in IdsOf(u.batch)
        PROVE  r = u
    BY <1>1, <2>2 DEF Alone, Follow
  <2> QED BY <2>1, <2>2 DEF Alone
<1> QED BY <1>3, <1>4 DEF CrashOk
\* The crashes of a broken request go in front of the priority buffer, where none
\* of them is yet.
LEMMA BreaksCrash == ASSUME CrashInv, NEW p \in posts, Breaks(p) PROVE CrashInv'
<1> DEFINE n == app.next
           kept == CrashesOf(p.batch)
           back == kept \o app.priority
           q == [p EXCEPT !.waiting = FALSE]
<1>1. AppInv /\ AppInv' /\ CrashOk(app, posts, crashes) /\ NoCrashLost
  BY BreaksOk DEF CrashInv
<1>2. app \in Client(n, crashes) /\ p \in Request(n, crashes)
  BY <1>1 DEF AppInv, AppOk, AppTyped
<1>3. /\ app' = [app EXCEPT !.priority = back, !.cooling = TRUE]
      /\ events' = events /\ crashes' = crashes /\ refused' = refused
      /\ deployment' = deployment /\ p.waiting
      /\ \/ posts' = posts \ {p}
         \/ ~p.served /\ posts' = (posts \ {p}) \cup {q}
  BY DEF Breaks, serverVars
<1>4. /\ p.batch \in Seq(Known(n, crashes)) /\ app.priority \in Seq(Known(n, crashes))
      /\ Leads(p.batch) /\ CrashesOnce(p.batch) /\ CrashesOnce(app.priority)
  BY <1>1, <1>2, KnownIds DEF CrashOk, Client, Request
<1>5. /\ kept \in Seq(Known(n, crashes)) /\ CrashesOnce(kept)
      /\ IdsOf(kept) = crashes \cap IdsOf(p.batch)
  <2>1. Known(n, crashes) \in SUBSET Event
    BY DEF Known
  <2>2. /\ kept \in Seq({e \in Known(n, crashes) : e.crash})
        /\ IdsOf(kept) = KeptIds(p.batch, Len(p.batch)) /\ CrashesOnce(kept)
    BY <1>4, <2>1, CrashesKept, KeptOnce
  <2>3. {e \in Known(n, crashes) : e.crash} \subseteq Known(n, crashes)
    OBVIOUS
  <2> QED BY <1>4, <2>2, <2>3, SeqMonotonic, KnownMarks
<1>6. q.batch = p.batch /\ q.served = p.served /\ ~q.waiting
  BY <1>2 DEF Request
<1>7. app'.priority = back /\ app'.first = app.first
  BY <1>2, <1>3 DEF Client
<1> HIDE DEF kept, q
<1>8. IdsOf(back) = IdsOf(kept) \cup IdsOf(app.priority) /\ CrashesOnce(back)
  <2>1. \A i \in IdsOf(kept) : i \notin IdsOf(app.priority)
    BY <1>1, <1>3, <1>5 DEF CrashOk, Alone
  <2>2. \A j \in DOMAIN kept, k \in DOMAIN app.priority : kept[j].id # app.priority[k].id
    BY <2>1 DEF IdsOf
  <2> QED BY <1>4, <1>5, <2>2, IdsConcat, OnceConcat
<1> HIDE DEF back, n
<1>9. ASSUME NEW i \in crashes PROVE Alone(app', posts', i)
  <2>1. Alone(app, posts, i)
    BY <1>1 DEF CrashOk
  <2>2. \A r \in posts' : r.waiting => r \in posts \ {p}
    BY <1>3, <1>6
  <2>3. ASSUME NEW r \in posts', r.waiting, i \in IdsOf(r.batch)
        PROVE  i \notin IdsOf(back)
    BY <1>3, <1>5, <1>8, <2>1, <2>2, <2>3 DEF Alone
  <2> QED BY <1>7, <2>1, <2>2, <2>3 DEF Alone
<1>10. CrashOk(app', posts', crashes')
  <2>1. \A r \in posts' : Leads(r.batch) /\ CrashesOnce(r.batch)
    BY <1>1, <1>3, <1>4, <1>6 DEF CrashOk
  <2> QED BY <1>1, <1>3, <1>7, <1>8, <1>9, <2>1 DEF CrashOk
<1>11. ASSUME NEW i \in crashes, Accounted(i) PROVE Accounted(i)'
  <2>1. i \in IdsOf(p.batch) => i \in IdsOf(app'.priority)
    BY <1>5, <1>7, <1>8
  <2>2. i \in IdsOf(app.priority) => i \in IdsOf(app'.priority)
    BY <1>7, <1>8
  <2> QED BY <1>3, <1>11, <2>1, <2>2 DEF Accounted
<1> QED BY <1>1, <1>3, <1>7, <1>10, <1>11 DEF CrashInv, NoCrashLost

\* What the server stores of a request has its crashes.
LEMMA ServedCrash ==
    ASSUME CrashInv, NEW p \in posts, Store(p) \/ StoreFails(p) \/ Answered(p)
    PROVE  CrashInv'
<1> DEFINE q == [p EXCEPT !.served = TRUE]
           n == app.next
<1>1. AppInv /\ AppInv' /\ CrashOk(app, posts, crashes) /\ NoCrashLost
  BY ServedOk DEF CrashInv
<1>2. app \in Client(n, crashes) /\ p \in Request(n, crashes) /\ events \in [Ids -> Nat]
      /\ crashes \subseteq Ids
  BY <1>1 DEF AppInv, AppOk, AppTyped
<1>3. /\ crashes' = crashes /\ deployment' = deployment
      /\ app' \in {app, [app EXCEPT !.cooling = FALSE]}
      /\ posts' \in Follow(posts, p, q)
  BY DEF Store, StoreFails, Answered, Follow, serverVars
<1>4. app'.priority = app.priority /\ app'.first = app.first
  BY <1>2, <1>3 DEF Client
<1>5. q.batch = p.batch /\ q.waiting = p.waiting
  BY <1>2 DEF Request
<1> HIDE DEF q
<1>6. CrashOk(app', posts', crashes')
  BY <1>1, <1>3, <1>4, <1>5, FollowCrash
<1>7. ASSUME NEW i \in crashes, Accounted(i), MaxCrashes <= Cap[deployment]
      PROVE  Accounted(i)'
  <2>1. \A r \in posts : r = p \/ r \in posts'
    BY <1>3 DEF Follow
  <2>2. CASE Store(p)
    <3> DEFINE stored == IdsOf(Prefix(p.batch, Cap[deployment]))
    <3>1. /\ events' = [j \in Ids |-> IF j \in stored THEN events[j] + 1 ELSE events[j]]
          /\ refused' = refused
      BY <2>2 DEF Store
    <3>2. i \in IdsOf(p.batch) => i \in stored
      <4>1. Cap[deployment] \in Nat
        BY <1>1, PipelineAssumption DEF AppInv
      <4>2. /\ IsFiniteSet(crashes) /\ Cardinality(crashes) <= Cap[deployment]
            /\ Leads(p.batch) /\ CrashesOnce(p.batch)
        <5>1. Cardinality(crashes) <= MaxCrashes /\ Cardinality(crashes) \in Nat
          BY <1>1, FS_CardinalityType DEF CrashOk
        <5> QED BY <1>1, <1>7, <4>1, <5>1, PipelineAssumption DEF CrashOk
      <4>3. p.batch \in Seq(Known(n, crashes))
        BY <1>2 DEF Request
      <4> HIDE DEF n
      <4> QED BY <4>1, <4>2, <4>3, CrashesFirst
    <3> HIDE DEF stored
    <3>3. /\ i \in Ids /\ events[i] \in Nat
          /\ events'[i] = IF i \in stored THEN events[i] + 1 ELSE events[i]
      BY <1>2, <3>1
    <3>4. (events[i] > 0 => events'[i] > 0) /\ (i \in stored => events'[i] > 0)
      BY <3>3
    <3> QED BY <1>4, <1>7, <2>1, <3>1, <3>2, <3>4 DEF Accounted
  <2>3. CASE StoreFails(p)
    <3>1. events' = events /\ refused' = refused \cup IdsOf(p.batch)
      BY <2>3 DEF StoreFails
    <3> QED BY <1>4, <1>7, <2>1, <3>1 DEF Accounted
  <2>4. CASE Answered(p)
    <3>1. events' = events /\ refused' = refused /\ p.served
      BY <2>4 DEF Answered
    <3> QED BY <1>4, <1>7, <2>1, <3>1 DEF Accounted
  <2> QED BY <2>2, <2>3, <2>4
<1> QED BY <1>1, <1>3, <1>4, <1>6, <1>7 DEF CrashInv, NoCrashLost

\* the same places, said of the state
LEMMA HeldIsAccounted ==
    \A i : Accounted(i) <=> Held(app, posts, events, refused, i)
BY DEF Accounted, Held

\* the ghost of what was given up last
LEMMA FirstStays ==
    ASSUME NEW a, NEW n, NEW C, a \in Client(n, C), NEW crash \in BOOLEAN
    PROVE  /\ Flushed(a).first = a.first /\ Grown(a, crash).first = a.first
           /\ Flushed(Grown(a, crash)).first = a.first
BY DEF Flushed, Grown, Client

LEMMA RecordedCrash ==
    ASSUME NEW a, NEW P, NEW E, NEW C, NEW R, NEW crash \in BOOLEAN,
           AppOk(a, P, E, C), CrashOk(a, P, C), a.next <= MaxEvents,
           crash => Cardinality(C) < MaxCrashes,
           Recorded(a, P, crash)
    PROVE  LET D == IF crash THEN C \cup {a.next} ELSE C
           IN  /\ CrashOk(app', posts', D) /\ app'.first = a.first
               /\ \A i \in D : (i \in C => Held(a, P, E, R, i))
                                 => Held(app', posts', E, R, i)
<1> DEFINE g == Grown(a, crash)
           D == IF crash THEN C \cup {a.next} ELSE C
<1>1. AppOk(g, P, E, D)
  BY GrownOk
<1>2. /\ CrashOk(g, P, D)
      /\ \A i \in D : (i \in C => Held(a, P, E, R, i)) => Held(g, P, E, R, i)
  BY GrownCrash
<1>3. \/ app' = Flushed(g) /\ posts' = P \cup {Post(g)}
      \/ app' = g /\ posts' = P
  BY RecordedIs
<1>4. g.first = a.first /\ Flushed(g).first = a.first
  <2>1. a \in Client(a.next, C)
    BY DEF AppOk, AppTyped
  <2> QED BY <2>1, FirstStays
<1> HIDE DEF g, D
<1>5. CASE app' = Flushed(g) /\ posts' = P \cup {Post(g)}
  <2>1. /\ CrashOk(app', posts', D)
        /\ \A i \in D : Held(g, P, E, R, i) => Held(app', posts', E, R, i)
    BY <1>1, <1>2, <1>5, FlushCrash
  <2> QED BY <1>2, <1>4, <1>5, <2>1 DEF D
<1>6. CASE app' = g /\ posts' = P
  BY <1>2, <1>4, <1>6 DEF D
<1> QED BY <1>3, <1>5, <1>6

\* given up or not, no two that wait hold the same crash
LEMMA LostCrash ==
    ASSUME NEW a, NEW b, NEW P, NEW Q, NEW C, CrashOk(a, P, C),
           b.priority = <<>>, Q = P \/ Q \in Orphans(P),
           \A p \in P : \E n : p \in Request(n, C)
    PROVE  CrashOk(b, Q, C)
<1>1. IdsOf(b.priority) = {} /\ CrashesOnce(b.priority)
  BY DEF IdsOf, CrashesOnce
<1>2. ASSUME NEW q \in Q
      PROVE  \E p \in P : q.batch = p.batch /\ (Q = P => q = p) /\ (Q # P => ~q.waiting)
  <2>1. CASE Q = P
    BY <2>1
  <2>2. CASE Q # P
    <3>1. PICK p \in P : q = [p EXCEPT !.waiting = FALSE]
      BY <2>2 DEF Orphans
    <3>2. PICK n : p \in Request(n, C)
      OBVIOUS
    <3>3. q.batch = p.batch /\ ~q.waiting
      BY <3>1, <3>2 DEF Request
    <3> QED BY <2>2, <3>3
  <2> QED BY <2>1, <2>2
<1>3. \A q \in Q : Leads(q.batch) /\ CrashesOnce(q.batch)
  BY <1>2 DEF CrashOk
<1>4. \A i \in C : Alone(b, Q, i)
  <2>1. CASE Q = P
    BY <1>1, <2>1 DEF CrashOk, Alone
  <2>2. CASE Q # P
    BY <1>2, <2>2 DEF Alone
  <2> QED BY <2>1, <2>2
<1> QED BY <1>1, <1>3, <1>4 DEF CrashOk

LEMMA RecordCrash ==
    ASSUME CrashInv, NEW crash \in BOOLEAN, Record(crash) PROVE CrashInv'
<1> DEFINE D == IF crash THEN crashes \cup {app.next} ELSE crashes
<1>1. /\ AppInv /\ AppInv' /\ CrashOk(app, posts, crashes) /\ NoCrashLost
      /\ AppOk(app, posts, events, crashes)
  BY AppInvStep DEF CrashInv, AppInv, Next, AppNext
<1>2. /\ app.next <= MaxEvents /\ (crash => Cardinality(crashes) < MaxCrashes)
      /\ Recorded(app, posts, crash) /\ crashes' = D
      /\ UNCHANGED <<events, refused, deployment>>
  BY DEF Record, serverVars
<1>3. /\ CrashOk(app', posts', D) /\ app'.first = app.first
      /\ \A i \in D : (i \in crashes => Held(app, posts, events, refused, i))
                        => Held(app', posts', events, refused, i)
  BY <1>1, <1>2, RecordedCrash
<1> HIDE DEF D
<1>4. ASSUME MaxCrashes <= Cap[deployment], NEW i \in D, i >= app.first
      PROVE  Accounted(i)'
  <2>1. Held(app', posts', events, refused, i)
    BY <1>1, <1>3, <1>4, HeldIsAccounted DEF NoCrashLost
  <2> QED BY <1>2, <2>1 DEF Accounted, Held
<1> QED BY <1>1, <1>2, <1>3, <1>4 DEF CrashInv, NoCrashLost

\* The switch: what is given up is excused, what is recorded then is a session's
\* start.
LEMMA SwitchCrash ==
    ASSUME CrashInv, SwitchOff \/ SwitchOn \/ SaveSetting \/ Relaunch PROVE CrashInv'
<1>1. /\ AppInv /\ AppInv' /\ CrashOk(app, posts, crashes) /\ NoCrashLost
      /\ AppOk(app, posts, events, crashes)
  BY AppInvStep DEF CrashInv, AppInv, Next, AppNext
<1>2. /\ app \in Client(app.next, crashes) /\ app.next \in Nat
      /\ \A p \in posts : p \in Request(app.next, crashes)
      /\ \A i \in crashes : i < app.next /\ i \in Nat
      /\ UNCHANGED <<events, crashes, refused, deployment>>
  <2>1. AppTyped(app, posts, events, crashes)
    BY <1>1 DEF AppOk
  <2>2. app.next \in Nat
    BY <2>1 DEF AppTyped, Client
  <2>3. \A i \in crashes : i < app.next /\ i \in Nat
    BY <2>1, PipelineAssumption DEF AppTyped, Ids
  <2>4. UNCHANGED <<events, crashes, refused, deployment>>
    BY DEF SwitchOff, SwitchOn, SaveSetting, Relaunch, serverVars
  <2> QED BY <2>1, <2>2, <2>3, <2>4 DEF AppTyped
<1>3. CASE SwitchOff
  <2>1. app'.priority = <<>> /\ app'.first = app.next /\ posts' = posts
    BY <1>1, <1>3, GivenUpSteps DEF SwitchOff
  <2>2. CrashOk(app', posts', crashes)
    BY <1>1, <1>2, <2>1, LostCrash
  <2>3. \A i \in crashes : ~(i >= app'.first)
    BY <1>2, <2>1
  <2> QED BY <1>1, <1>2, <2>2, <2>3 DEF CrashInv, NoCrashLost
<1>4. CASE SwitchOn
  <2> DEFINE b == [app EXCEPT !.on = TRUE]
  <2>1. app.next <= MaxEvents /\ Recorded(b, posts, FALSE)
    BY <1>4 DEF SwitchOn
  <2>2. /\ b \in Client(app.next, crashes) /\ b.next = app.next /\ b.first = app.first
        /\ b.buffer = app.buffer /\ b.priority = app.priority
    BY <1>2, SwitchOnIs
  <2> HIDE DEF b
  <2>3. AppOk(b, posts, events, crashes)
    BY <1>1, <2>2, ClientOk
  <2>4. CrashOk(b, posts, crashes)
    BY <1>1, <2>2 DEF CrashOk, Alone
  <2>5. /\ CrashOk(app', posts', crashes) /\ app'.first = app.first
        /\ \A i \in crashes : Held(b, posts, events, refused, i)
                                => Held(app', posts', events, refused, i)
    BY <2>1, <2>2, <2>3, <2>4, RecordedCrash
  <2>6. ASSUME MaxCrashes <= Cap[deployment], NEW i \in crashes, i >= app.first
        PROVE  Accounted(i)'
    <3>1. Held(app, posts, events, refused, i)
      BY <1>1, <2>6, HeldIsAccounted DEF NoCrashLost
    <3>2. Held(b, posts, events, refused, i)
      BY <2>2, <3>1 DEF Held
    <3> QED BY <1>2, <2>5, <3>2 DEF Accounted, Held
  <2> QED BY <1>1, <1>2, <2>5, <2>6 DEF CrashInv, NoCrashLost
<1>5. CASE SaveSetting
  <2>1. app' = [app EXCEPT !.saved = app.on] /\ posts' = posts
    BY <1>5 DEF SaveSetting
  <2>2. app'.priority = app.priority /\ app'.first = app.first
    BY <1>2, <2>1 DEF Client
  <2> QED BY <1>1, <1>2, <2>1, <2>2 DEF CrashInv, NoCrashLost, CrashOk, Alone, Accounted
<1>6. CASE Relaunch
  <2> DEFINE fresh == [GivenUp(app) EXCEPT !.cooling = FALSE, !.on = app.saved]
  <2>1. PICK P \in Orphans(posts) :
          IF app.saved THEN Recorded(fresh, P, FALSE) ELSE app' = fresh /\ posts' = P
    BY <1>6 DEF Relaunch
  <2>2. app.saved => app.next <= MaxEvents
    BY <1>6 DEF Relaunch
  <2>3. /\ fresh \in Client(app.next, crashes) /\ fresh.next = app.next
        /\ fresh.first = app.next /\ fresh.buffer = <<>> /\ fresh.priority = <<>>
    BY <1>1, GivenUpSteps
  <2> HIDE DEF fresh
  <2>4. AppOk(fresh, P, events, crashes) /\ CrashOk(fresh, P, crashes)
    BY <1>1, <1>2, <2>3, LostOk, LostCrash
  <2>5. CrashOk(app', posts', crashes) /\ app'.first = app.next
    <3>1. CASE app.saved
      BY <2>1, <2>2, <2>3, <2>4, <3>1, RecordedCrash
    <3>2. CASE ~app.saved
      BY <2>1, <2>3, <2>4, <3>2
    <3> QED BY <3>1, <3>2
  <2>6. \A i \in crashes : ~(i >= app'.first)
    BY <1>2, <2>5
  <2> QED BY <1>1, <1>2, <2>5, <2>6 DEF CrashInv, NoCrashLost
<1> QED BY <1>3, <1>4, <1>5, <1>6

LEMMA CrashStep == ASSUME CrashInv, [Next]_vars PROVE CrashInv'
<1>1. AppInv /\ AppInv' /\ CrashOk(app, posts, crashes) /\ NoCrashLost
  BY AppInvStep DEF CrashInv
<1>2. CASE Flush
  <2>1. /\ app' = Flushed(app) /\ posts' = posts \cup {Post(app)}
        /\ UNCHANGED <<events, crashes, refused, deployment>>
    BY <1>2 DEF Flush, serverVars
  <2>2. AppOk(app, posts, events, crashes)
    BY <1>1 DEF AppInv
  <2>3. /\ CrashOk(app', posts', crashes)
        /\ \A i \in crashes : Held(app, posts, events, refused, i)
                                => Held(app', posts', events, refused, i)
    BY <1>1, <2>1, <2>2, FlushCrash
  <2>4. app'.first = app.first
    BY <2>1, <2>2, FirstStays DEF AppOk, AppTyped
  <2>5. ASSUME MaxCrashes <= Cap[deployment], NEW i \in crashes, i >= app.first
        PROVE  Accounted(i)'
    <3>1. Held(app', posts', events, refused, i)
      BY <1>1, <2>3, <2>5, HeldIsAccounted DEF NoCrashLost
    <3> QED BY <2>1, <3>1 DEF Accounted, Held
  <2> QED BY <1>1, <2>1, <2>3, <2>4, <2>5 DEF CrashInv, NoCrashLost
<1>3. CASE CoolDown
  <2>1. /\ app' = [app EXCEPT !.cooling = FALSE]
        /\ UNCHANGED <<posts, events, crashes, refused, deployment>>
    BY <1>3 DEF CoolDown, serverVars
  <2>2. app \in Client(app.next, crashes)
    BY <1>1 DEF AppInv, AppOk, AppTyped
  <2>3. app'.priority = app.priority /\ app'.first = app.first
    BY <2>1, <2>2 DEF Client
  <2> QED BY <1>1, <2>1, <2>3 DEF CrashInv, NoCrashLost, CrashOk, Alone, Accounted
<1>4. CASE RunnerNext \/ GateNext \/ UNCHANGED vars
  <2>1. UNCHANGED <<deployment, app, posts, events, crashes, refused>>
    BY <1>4
    DEF RunnerNext, StartRun, BatchStored, BatchRefused, NewMinute, appVars, GateNext,
        GateStart, IngestStored, IngestFails, ProbeSkipped, ProbeStored, ProbeRefused,
        Cleanup, GateKilled, Recompute, restVars, vars
  <2> QED BY <1>1, <2>1 DEF CrashInv, NoCrashLost, CrashOk, Alone, Accounted
<1> QED
  BY <1>2, <1>3, <1>4, RecordCrash, SwitchCrash, ServedCrash, BreaksCrash
  DEF Next, AppNext

LEMMA CrashInitially == ASSUME Init PROVE CrashInv
<1> DEFINE none == <<>>
<1>1. AppInv
  BY AppInitially
<1>2. app.priority = <<>> /\ posts = {} /\ crashes = {}
  BY DEF Init
<1>3. CrashesOnce(app.priority)
  BY <1>2 DEF CrashesOnce
<1>4. IsFiniteSet({}) /\ Cardinality({}) <= MaxCrashes
  BY FS_EmptySet, PipelineAssumption
<1> QED BY <1>1, <1>2, <1>3, <1>4 DEF CrashInv, CrashOk, NoCrashLost

-----------------------------------------------------------------------------
(***************************************************************************)
(* The theorems.                                                           *)
(***************************************************************************)

\* The types, what the runner's report says and what a green gate leaves are
\* kept by every step of the app, the runner, the gate and the jobs.
THEOREM Invariance == Spec => []IInv
<1>1. Init => IInv
  BY Initially
<1>2. IInv /\ [Next]_vars => IInv'
  BY TypedStep, RunnerStep, GateStep DEF IInv
<1> QED BY <1>1, <1>2, PTL DEF Spec

LEMMA ReportFromInv == ASSUME Typed, RunnerInv PROVE ReportWithinABatch
<1> SUFFICES ASSUME runner.run > 0 PROVE ReportWithinABatch
  BY DEF ReportWithinABatch
<1>1. PICK k \in 0 .. Results : Reported(runner, probeRows, k)
  BY DEF RunnerInv, RunnerOk
<1>2. k \in Nat /\ Cardinality(1 .. k) = k
  <2>1. k \in Nat
    BY <1>1, PipelineAssumption
  <2>2. Cardinality(1 .. k) = IF 1 > k THEN 0 ELSE k - 1 + 1
    BY <2>1, FS_Interval
  <2> QED BY <2>1, <2>2
<1>3. TakenOf(runner.run) = 1 .. k /\ k <= runner.posted /\ runner.posted <= k + BatchSize
  BY <1>1 DEF Reported, TakenOf, StoredIn, Taken
<1> QED BY <1>2, <1>3 DEF ReportWithinABatch

\* What the runner reports as posted (active_probe_runner.py, main) exceeds what
\* the server has taken, as a result or a dead letter, by one batch at most, and
\* what it has taken is a first part of the results, for any size of a run, of a
\* batch and of the server's rate limit.
THEOREM ReportIsClose == Spec => []ReportWithinABatch
<1>1. IInv => ReportWithinABatch
  BY ReportFromInv DEF IInv
<1> QED BY <1>1, Invariance, PTL

\* With every router of telemetry.py mounted a green release gate that cleans has
\* removed its events and every probe row of a gate, however many gates, runs and
\* faults there were before it.
THEOREM GreenGateHasCleaned == Spec => []GateRemovesItsRows
<1>1. IInv => GateRemovesItsRows
  BY DEF IInv
<1> QED BY <1>1, Invariance, PTL

\* An event that is no crash is stored once at most, however many requests break
\* before or after the server has them, for any caps, buffers and faults
\* (telemetry.dart, flush; main.py and telemetry.py, the ingest handlers).
THEOREM UsageCountedOnce == Spec => []UsageAtMostOnce
<1>1. Init => AppInv
  BY AppInitially
<1>2. AppInv /\ [Next]_vars => AppInv'
  BY AppInvStep
<1>3. AppInv => UsageAtMostOnce
  BY DEF AppInv, AppOk, UsageOk, UsageAtMostOnce
<1> QED BY <1>1, <1>2, <1>3, PTL DEF Spec

\* "Error/crash events ... survive overflow pruning" (telemetry.dart): whatever
\* breaks, a crash recorded since telemetry was last switched off and the app last
\* ended is stored, rolled back by the server, waiting in the priority buffer or on
\* its way, if a request has room for all crashes.
THEOREM CrashesAreKept == Spec => []NoCrashLost
<1>1. Init => CrashInv
  BY CrashInitially
<1>2. CrashInv /\ [Next]_vars => CrashInv'
  BY CrashStep
<1>3. CrashInv => NoCrashLost
  BY DEF CrashInv
<1> QED BY <1>1, <1>2, <1>3, PTL DEF Spec
=============================================================================
