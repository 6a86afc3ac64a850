-------------------------- MODULE TelemetryPipeline --------------------------
(***************************************************************************)
(* From a client's buffers to the telemetry tables: the app's flush        *)
(* (lib/shared/telemetry.dart), the two ingest handlers of the server      *)
(* (checkin-api/main.py; telemetry.py), the active-probe runner, the       *)
(* release gate with its synthetic data, the cleanup endpoint and the cron *)
(* job that turns events into rows of node_state.                          *)
(*                                                                         *)
(* A deployment mounts either main.py's handwritten ingest and only the    *)
(* dashboard routes ("main"), or every router of telemetry.py, whose       *)
(* ingest comes first in the route order ("register").                     *)
(***************************************************************************)
EXTENDS Naturals, Sequences, FiniteSets

CONSTANTS
    Deployments,    \* those to consider
    Cap,            \* deployment -> events of a request that are looked at
    SoftMax,        \* _softMaxBuffer
    HardMax,        \* _hardMaxBuffer
    Results,        \* results of one run of the runner
    BatchSize,      \* --batch-size
    RateLimit,      \* ACTIVE_PROBE_RATE_LIMIT_PER_MIN
    MaxEvents,      \* bound: events the app records
    MaxCrashes,     \* bound: those that are crashes (they fit one request)
    MaxGates,       \* bound: runs of the release gate
    MaxRuns,        \* bound: runs of the runner
    MaxFaults       \* bound: failed writes, broken requests, ends of the app or a gate

ASSUME PipelineAssumption ==
    /\ Deployments \subseteq {"main", "register"}
    /\ Cap \in [Deployments -> Nat \ {0}]
    /\ SoftMax \in Nat \ {0} /\ HardMax \in Nat \ {0}
    /\ Results \in Nat /\ BatchSize \in Nat \ {0} /\ RateLimit \in Nat
    /\ MaxEvents \in Nat /\ MaxCrashes \in Nat /\ MaxGates \in Nat /\ MaxRuns \in Nat /\ MaxFaults \in Nat

VARIABLES
    deployment,     \* what the server mounts
    app,            \* the client: its two buffers, the last flush failed lately, the
                    \* setting and what is saved of it; ghost `first': the first event
                    \* since the buffers were last given up
    posts,          \* its requests under way
    events,         \* rows of `events` of the app: id -> copies
    crashes,        \* ghost: ids of the crashes recorded
    refused,        \* ghost: ids whose transaction was rolled back
    runner,         \* the runner's process
    probeRows,      \* rows of active_probe_results: <<region, run, result>>, and those
                    \* of active_probe_dead_letter with "dead_letter" for the region
    rate,           \* _PROBE_BUCKET's count in the current minute
    gate,           \* the release gate's process
    synthetic,      \* what is left of each gate's data, per table
    faults          \* faults so far

vars == <<deployment, app, posts, events, crashes, refused, runner, probeRows, rate,
          gate, synthetic, faults>>

Ids == 1..MaxEvents
Event == [id : Ids, crash : BOOLEAN]
Tables == {"events", "node_events", "node_identity", "node_state"}
Runs == 1..MaxRuns
Gates == 1..MaxGates

IdsOf(s) == {s[i].id : i \in DOMAIN s}

\* the crashes of a request, in their order
CrashesOf(s) ==
    LET kept[n \in 0..Len(s)] ==
            IF n = 0 THEN <<>>
            ELSE IF s[n].crash THEN Append(kept[n - 1], s[n]) ELSE kept[n - 1]
    IN  kept[Len(s)]

Prefix(s, n) == SubSeq(s, 1, IF Len(s) < n THEN Len(s) ELSE n)

Fault == faults < MaxFaults /\ faults' = faults + 1

Init ==
    /\ deployment \in Deployments
    /\ app = [buffer |-> <<>>, priority |-> <<>>, next |-> 1, sent |-> 0,
              cooling |-> FALSE, on |-> FALSE, saved |-> FALSE, first |-> 1]
    /\ posts = {}
    /\ events = [i \in Ids |-> 0]
    /\ crashes = {}
    /\ refused = {}
    /\ runner = [pc |-> "idle", run |-> 0, at |-> 0, posted |-> 0]
    /\ probeRows = {}
    /\ rate = 0
    /\ gate = [pc |-> "idle", run |-> 0, ok |-> TRUE, skip |-> FALSE]
    /\ synthetic = [t \in Tables |-> {}]
    /\ faults = 0

-----------------------------------------------------------------------------
(***************************************************************************)
(* The app.  A request under way carries the events of both buffers, the   *)
(* priority ones first.                                                    *)
(***************************************************************************)
serverVars == <<deployment, runner, probeRows, rate, gate, synthetic>>

\* (a variant: the events in the order of the buffers' declaration)
PostBufferFirst(a) ==
    [no |-> a.sent, batch |-> a.buffer \o a.priority, served |-> FALSE, waiting |-> TRUE]

Post(a) ==
    [no |-> a.sent, batch |-> a.priority \o a.buffer, served |-> FALSE, waiting |-> TRUE]

\* what flush() does before it waits for the network
Flushed(a) == [a EXCEPT !.priority = <<>>, !.buffer = <<>>, !.sent = @ + 1]

\* the client after an event: the buffer is cut to its hard cap, the priority
\* buffer is not
Grown(a, crash) ==
    LET e == [id |-> a.next, crash |-> crash]
    IN  IF crash THEN [a EXCEPT !.priority = Append(@, e), !.next = @ + 1]
        ELSE [a EXCEPT !.buffer =
                  IF Len(@) = HardMax THEN Append(Tail(@), e) ELSE Append(@, e),
                       !.next = @ + 1]

\* event() of a client `a' with requests P: full buffers are flushed, but not
\* while the last failure is recent
Recorded(a, P, crash) ==
    LET grown == Grown(a, crash)
    IN  IF Len(grown.buffer) + Len(grown.priority) >= SoftMax /\ ~a.cooling
        THEN app' = Flushed(grown) /\ posts' = P \cup {Post(grown)}
        ELSE app' = grown /\ posts' = P

Record(crash) ==
    /\ app.on /\ app.next <= MaxEvents
    /\ crash => Cardinality(crashes) < MaxCrashes
    /\ crashes' = IF crash THEN crashes \cup {app.next} ELSE crashes
    /\ Recorded(app, posts, crash)
    /\ UNCHANGED <<events, refused, faults>> /\ UNCHANGED serverVars

\* both buffers are emptied, unsent
GivenUp(a) == [a EXCEPT !.buffer = <<>>, !.priority = <<>>, !.first = a.next]

\* setEnabled(false); a request under way goes on, and puts its crashes back
SwitchOff ==
    /\ app.on
    /\ app' = [GivenUp(app) EXCEPT !.on = FALSE]
    /\ UNCHANGED <<posts, events, crashes, refused, faults>> /\ UNCHANGED serverVars

\* setEnabled(true) records the start of a session
SwitchOn ==
    /\ ~app.on /\ app.next <= MaxEvents
    /\ Recorded([app EXCEPT !.on = TRUE], posts, FALSE)
    /\ UNCHANGED <<events, crashes, refused, faults>> /\ UNCHANGED serverVars

\* the settings are written some time after they are set
SaveSetting ==
    /\ app.saved # app.on
    /\ app' = [app EXCEPT !.saved = app.on]
    /\ UNCHANGED <<posts, events, crashes, refused, faults>> /\ UNCHANGED serverVars

\* what may be left of requests when nobody waits for them any more
Orphans(P) == SUBSET {[p EXCEPT !.waiting = FALSE] : p \in {q \in P : ~q.served}}

\* The app is killed and started again, with the setting that was saved.
Relaunch ==
    LET fresh == [GivenUp(app) EXCEPT !.cooling = FALSE, !.on = app.saved]
    IN  /\ Fault
        /\ app.saved => app.next <= MaxEvents
        /\ \E P \in Orphans(posts) :
               IF app.saved THEN Recorded(fresh, P, FALSE) ELSE app' = fresh /\ posts' = P
        /\ UNCHANGED <<events, crashes, refused>> /\ UNCHANGED serverVars

\* flush() of the 60 s timer, or of a paused app
Flush ==
    /\ app.buffer # <<>> \/ app.priority # <<>>
    /\ app' = Flushed(app)
    /\ posts' = posts \cup {Post(app)}
    /\ UNCHANGED <<events, crashes, refused, faults>> /\ UNCHANGED serverVars

\* the cooldown of 90 s runs out
CoolDown ==
    /\ app.cooling
    /\ app' = [app EXCEPT !.cooling = FALSE]
    /\ UNCHANGED <<posts, events, crashes, refused, faults>> /\ UNCHANGED serverVars

(* The server looks at the first Cap events and stores them in one transaction. *)
Store(p) ==
    /\ p \in posts /\ ~p.served
    /\ LET ids == IdsOf(Prefix(p.batch, Cap[deployment]))
       IN  events' = [i \in Ids |-> IF i \in ids THEN events[i] + 1 ELSE events[i]]
    /\ posts' = (posts \ {p}) \cup (IF p.waiting THEN {[p EXCEPT !.served = TRUE]} ELSE {})
    /\ UNCHANGED <<app, crashes, refused, faults>> /\ UNCHANGED serverVars

\* The transaction fails: main.py logs it and answers ok, telemetry.py answers
\* 500; the app looks at neither.
StoreFails(p) ==
    /\ p \in posts /\ ~p.served /\ Fault
    /\ refused' = refused \cup IdsOf(p.batch)
    /\ posts' = (posts \ {p}) \cup (IF p.waiting THEN {[p EXCEPT !.served = TRUE]} ELSE {})
    /\ UNCHANGED <<app, events, crashes>> /\ UNCHANGED serverVars

\* an answer, any answer, ends the flush
Answered(p) ==
    /\ p \in posts /\ p.served
    /\ posts' = posts \ {p}
    /\ app' = [app EXCEPT !.cooling = FALSE]
    /\ UNCHANGED <<events, crashes, refused, faults>> /\ UNCHANGED serverVars

\* (a variant: everything is put back)
BreaksRequeuesAll(p) ==
    /\ p \in posts /\ p.waiting /\ Fault
    /\ app' = [app EXCEPT !.priority = p.batch \o @, !.cooling = TRUE]
    /\ \/ posts' = posts \ {p}
       \/ ~p.served /\ posts' = (posts \ {p}) \cup {[p EXCEPT !.waiting = FALSE]}
    /\ UNCHANGED <<events, crashes, refused>> /\ UNCHANGED serverVars

\* (a variant: nothing is put back)
BreaksDropsAll(p) ==
    /\ p \in posts /\ p.waiting /\ Fault
    /\ app' = [app EXCEPT !.cooling = TRUE]
    /\ posts' = posts \ {p}
    /\ UNCHANGED <<events, crashes, refused>> /\ UNCHANGED serverVars

\* The request breaks or times out, before or after the server has it, and may
\* still reach the server later: only the crash events are put back, in front.
Breaks(p) ==
    /\ p \in posts /\ p.waiting /\ Fault
    /\ app' = [app EXCEPT !.priority = CrashesOf(p.batch) \o @,
                          !.cooling = TRUE]
    /\ \/ posts' = posts \ {p}
       \/ ~p.served /\ posts' = (posts \ {p}) \cup {[p EXCEPT !.waiting = FALSE]}
    /\ UNCHANGED <<events, crashes, refused>> /\ UNCHANGED serverVars

-----------------------------------------------------------------------------
(***************************************************************************)
(* The active-probe runner: main() posts the results of its run batch by   *)
(* batch, counts a batch as posted whatever the answer, and stops at the   *)
(* first one that fails.                                                   *)
(***************************************************************************)
appVars == <<deployment, app, posts, events, crashes, refused>>

StartRun ==
    /\ runner.pc = "idle" /\ runner.run < MaxRuns
    /\ runner' = [pc |-> IF Results = 0 THEN "idle" ELSE "post",
                  run |-> runner.run + 1, at |-> 0, posted |-> 0]
    /\ UNCHANGED <<probeRows, rate, gate, synthetic, faults>> /\ UNCHANGED appVars

Batch == {i \in 1..Results : i > runner.at /\ i <= runner.at + BatchSize}
Rows(region, run, results) == {<<region, run, i>> : i \in results}

\* (a variant: a batch that fails does not stop the run)
AfterBatchGoesOn(good) ==
    LET at == runner.at + Cardinality(Batch)
    IN  [runner EXCEPT !.at = at, !.posted = @ + Cardinality(Batch),
                       !.pc = IF at < Results THEN "post" ELSE "idle"]

\* the runner after the answer to a batch
AfterBatch(good) ==
    LET at == runner.at + Cardinality(Batch)
    IN  [runner EXCEPT !.at = at, !.posted = @ + Cardinality(Batch),
                       !.pc = IF good /\ at < Results THEN "post" ELSE "idle"]

\* _probe_rate_limit: the request is counted, then let through or refused
Counted == rate' = rate + 1
LetThrough == deployment = "register" /\ rate < RateLimit
NoRoute == deployment = "main"
TooMany == deployment = "register" /\ rate >= RateLimit

\* The results of a batch that are not valid go to the dead letter, one by one;
\* the answer is still ok.
BatchStored ==
    /\ runner.pc = "post" /\ LetThrough /\ Counted
    /\ \E bad \in SUBSET Batch :
           probeRows' = probeRows \cup Rows("runner", runner.run, Batch \ bad)
                                  \cup Rows("dead_letter", runner.run, bad)
    /\ \/ runner' = AfterBatch(TRUE) /\ UNCHANGED faults
       \/ runner' = AfterBatch(FALSE) /\ Fault              \* its answer is lost
    /\ UNCHANGED <<gate, synthetic>> /\ UNCHANGED appVars

BatchRefused ==
    /\ runner.pc = "post"
    /\ runner' = AfterBatch(FALSE)
    /\ \/ NoRoute /\ UNCHANGED <<rate, faults>>            \* 404
       \/ TooMany /\ Counted /\ UNCHANGED faults           \* 429
       \/ LetThrough /\ Counted /\ Fault                   \* 500
    /\ UNCHANGED <<probeRows, gate, synthetic>> /\ UNCHANGED appVars

NewMinute ==
    /\ rate > 0
    /\ rate' = 0
    /\ UNCHANGED <<runner, probeRows, gate, synthetic, faults>> /\ UNCHANGED appVars

-----------------------------------------------------------------------------
(***************************************************************************)
(* The release gate (scripts/probe_telemetry.py --full): it posts events   *)
(* and probe results that are tagged as synthetic, then asks the server to *)
(* clean them.  Every step runs whatever the ones before it found; with    *)
(* --skip-ingest it posts the probe results only, and cleans nothing.      *)
(***************************************************************************)
restVars == <<appVars, runner>>

GateStart ==
    /\ gate.pc \in {"idle", "over"} /\ gate.run < MaxGates
    /\ \E skip \in BOOLEAN :
           gate' = [pc |-> IF skip THEN "probe" ELSE "ingest", run |-> gate.run + 1,
                    ok |-> TRUE, skip |-> skip]
    /\ UNCHANGED <<probeRows, rate, synthetic, faults>> /\ UNCHANGED restVars

\* What the synthetic events of a gate reach: main.py keeps a row and an identity
\* for every event with a fingerprint, telemetry.py fans out none of these.
MainTables == {"events", "node_events", "node_identity"}
RegisterTables == {"events"}
Reached == IF deployment = "main" THEN MainTables ELSE RegisterTables

IngestStored ==
    /\ gate.pc = "ingest"
    /\ synthetic' = [t \in Tables |-> IF t \in Reached THEN synthetic[t] \cup {gate.run}
                                      ELSE synthetic[t]]
    /\ \/ UNCHANGED faults /\ gate' = [gate EXCEPT !.pc = "probe"]
       \/ Fault /\ gate' = [gate EXCEPT !.pc = "probe", !.ok = FALSE]
    /\ UNCHANGED <<probeRows, rate>> /\ UNCHANGED restVars

\* A write that fails: main.py still answers ok and the number of events.
AnswersOk == deployment = "main"

IngestFails ==
    /\ gate.pc = "ingest" /\ Fault
    /\ gate' = [gate EXCEPT !.pc = "probe", !.ok = @ /\ AnswersOk]
    /\ UNCHANGED <<probeRows, rate, synthetic>> /\ UNCHANGED restVars

AfterProbe == IF gate.skip THEN "over" ELSE "clean"

\* without a token, or with --skip-probe, the check is skipped, and passes
ProbeSkipped ==
    /\ gate.pc = "probe"
    /\ gate' = [gate EXCEPT !.pc = AfterProbe]
    /\ UNCHANGED <<probeRows, rate, synthetic, faults>> /\ UNCHANGED restVars

ProbeStored ==
    /\ gate.pc = "probe" /\ LetThrough /\ Counted
    /\ probeRows' = probeRows \cup Rows("release-gate", gate.run, {1})
    /\ \/ UNCHANGED faults /\ gate' = [gate EXCEPT !.pc = AfterProbe]
       \/ Fault /\ gate' = [gate EXCEPT !.pc = AfterProbe, !.ok = FALSE]
    /\ UNCHANGED synthetic /\ UNCHANGED restVars

ProbeRefused ==
    /\ gate.pc = "probe"
    /\ gate' = [gate EXCEPT !.pc = AfterProbe, !.ok = FALSE]
    /\ \/ NoRoute /\ UNCHANGED <<rate, faults>>
       \/ TooMany /\ Counted /\ UNCHANGED faults
       \/ LetThrough /\ Counted /\ Fault
    /\ UNCHANGED <<probeRows, synthetic>> /\ UNCHANGED restVars

(***************************************************************************)
(* admin_synthetic_cleanup: events whose stored client id begins with the  *)
(* prefix of the run, probe rows of the region.  telemetry.py stores the   *)
(* id as it is sent, main.py a salted hash of it, which has no such prefix. *)
(***************************************************************************)
PrefixMatches == deployment = "register"

\* (a variant: the region is looked at only without a prefix)
CleanedPrefixOnly ==
    /\ synthetic' = [synthetic EXCEPT !["events"] =
                        IF PrefixMatches THEN @ \ {gate.run} ELSE @]
    /\ UNCHANGED probeRows

Cleaned ==
    /\ synthetic' = [synthetic EXCEPT !["events"] =
                        IF PrefixMatches THEN @ \ {gate.run} ELSE @]
    /\ probeRows' = {r \in probeRows : r[1] # "release-gate"}

Cleanup ==
    /\ gate.pc = "clean"
    /\ \/ Cleaned /\ UNCHANGED faults /\ gate' = [gate EXCEPT !.pc = "over"]
       \/ Cleaned /\ Fault /\ gate' = [gate EXCEPT !.pc = "over", !.ok = FALSE]
       \/ /\ Fault /\ gate' = [gate EXCEPT !.pc = "over", !.ok = FALSE]
          /\ UNCHANGED <<synthetic, probeRows>>
    /\ UNCHANGED rate /\ UNCHANGED restVars

\* the CI job is cancelled
GateKilled ==
    /\ gate.pc \in {"ingest", "probe", "clean"} /\ Fault
    /\ gate' = [gate EXCEPT !.pc = "idle", !.ok = FALSE]
    /\ UNCHANGED <<probeRows, rate, synthetic>> /\ UNCHANGED restVars

\* sre_recompute_state: every node with an event gets a row in node_state
Recompute ==
    /\ deployment = "register"
    /\ ~(synthetic["events"] \subseteq synthetic["node_state"])
    /\ synthetic' = [synthetic EXCEPT !["node_state"] = @ \cup synthetic["events"]]
    /\ UNCHANGED <<probeRows, rate, gate, faults>> /\ UNCHANGED restVars

-----------------------------------------------------------------------------
AppNext ==
    \/ \E crash \in BOOLEAN : Record(crash)
    \/ Flush \/ CoolDown \/ SwitchOff \/ SwitchOn \/ SaveSetting \/ Relaunch
    \/ \E p \in posts : Store(p) \/ StoreFails(p) \/ Answered(p) \/ Breaks(p)

RunnerNext == StartRun \/ BatchStored \/ BatchRefused \/ NewMinute

GateNext ==
    \/ GateStart \/ IngestStored \/ IngestFails \/ ProbeSkipped
    \/ ProbeStored \/ ProbeRefused \/ Cleanup \/ GateKilled \/ Recompute

Next == AppNext \/ RunnerNext \/ GateNext

\* The flush timer of an app that is switched on goes on; the network and the
\* server answer in the end.
Fairness ==
    /\ WF_vars(app.on /\ Flush)
    /\ WF_vars(\E p \in posts : Store(p))
    /\ WF_vars(\E p \in posts : Answered(p))

Spec == Init /\ [][Next]_vars /\ Fairness

-----------------------------------------------------------------------------
TypeOK ==
    /\ deployment \in Deployments
    /\ app \in [buffer : Seq(Event), priority : Seq(Event), next : Nat, sent : Nat,
                cooling : BOOLEAN, on : BOOLEAN, saved : BOOLEAN, first : Nat]
    /\ \A p \in posts : p \in [no : Nat, batch : Seq(Event), served : BOOLEAN,
                               waiting : BOOLEAN]
    /\ events \in [Ids -> Nat] /\ crashes \subseteq Ids /\ refused \subseteq Ids
    /\ runner \in [pc : {"idle", "post"}, run : Nat, at : Nat, posted : Nat]
    /\ rate \in Nat /\ faults \in 0..MaxFaults
    /\ gate \in [pc : {"idle", "ingest", "probe", "clean", "over"}, run : Nat,
                 ok : BOOLEAN, skip : BOOLEAN]
    /\ synthetic \in [Tables -> SUBSET Gates]

(***************************************************************************)
(* Whatever breaks, an event that is no crash is stored at most once: the  *)
(* counters of the dashboard do not count it twice.                        *)
(***************************************************************************)
UsageAtMostOnce == \A i \in Ids \ crashes : events[i] <= 1

(***************************************************************************)
(* "Error/crash events ... survive overflow pruning": a crash is stored in *)
(* the end, or the server has rolled its transaction back, or the user has *)
(* switched telemetry off or the app has ended, which both give up what is *)
(* in the buffers and nobody answers for what is on its way.               *)
(***************************************************************************)
CrashDelivered ==
    \A i \in Ids :
        (i \in crashes /\ i >= app.first)
            ~> (events[i] > 0 \/ i \in refused \/ i < app.first)

(***************************************************************************)
(* While neither happens no crash is lost between the buffers, the         *)
(* requests and the server's cut, if a request has room for all of them: a *)
(* request that is too long is cut at the end where no crash is.           *)
(***************************************************************************)
Accounted(i) ==
    \/ events[i] > 0 \/ i \in refused
    \/ i \in IdsOf(app.priority)
    \/ \E p \in posts : ~p.served /\ i \in IdsOf(p.batch)

NoCrashLost ==
    MaxCrashes <= Cap[deployment] => \A i \in crashes : i >= app.first => Accounted(i)

(***************************************************************************)
(* What the runner reports as posted exceeds what the server has taken of  *)
(* its run, as a result or into the dead letter, by one batch at most, and *)
(* what it has taken is a first part of the results.                       *)
(***************************************************************************)
TakenOf(run) ==
    {i \in 1..Results : <<"runner", run, i>> \in probeRows
                        \/ <<"dead_letter", run, i>> \in probeRows}

ReportWithinABatch ==
    runner.run > 0 =>
        LET taken == TakenOf(runner.run)
        IN  /\ taken = 1..Cardinality(taken)
            /\ Cardinality(taken) <= runner.posted
            /\ runner.posted <= Cardinality(taken) + BatchSize

(***************************************************************************)
(* With every router of telemetry.py mounted, a green gate that cleans has *)
(* removed its own events and the probe rows of every gate before it.  The *)
(* rows of node_state that the cron job may have made meanwhile, and the   *)
(* events of a gate that was killed, stay.                                 *)
(***************************************************************************)
GateRemovesItsRows ==
    deployment = "register" /\ gate.pc = "over" /\ gate.ok /\ ~gate.skip =>
        /\ gate.run \notin synthetic["events"]
        /\ \A r \in probeRows : r[1] # "release-gate"

\* what is left of the data of the gate's last run
Leftover ==
    \/ \E t \in Tables : gate.run \in synthetic[t]
    \/ \E r \in probeRows : r[1] = "release-gate"

(***************************************************************************)
(* "cleans them so production stats stay accurate", for each deployment: a *)
(* green gate that cleans leaves no synthetic row behind.                  *)
(***************************************************************************)
GreenGateIsClean == gate.pc = "over" /\ gate.ok /\ ~gate.skip => ~Leftover
=============================================================================
