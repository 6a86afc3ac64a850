# YueLink in TLA+

YueLink is a desktop and mobile VPN client: a Flutter app (Dart) around the
mihomo proxy core (Go), with a privileged helper service on the desktop.  Behind
it stand Python services and scripts: the check-in API that shares the panel's
database, the telemetry service with its node state machine, the release gate
and the probes.  This directory holds TLA+ models of its own logic, TLC configurations that check
them on small instances, and TLAPS proofs.  Every definition is translated from
the source; `PROJECT.json` maps each one to its lines.

## The system

| Part | State it keeps | Operations | Hard part |
|---|---|---|---|
| Lifecycle queue (`core_lifecycle_manager.dart`) | `_operationQueue`, `_inFlightOpCount`, `coreStatusProvider`, the stop flag (provider, settings cache, disk), the connection mode | start, stop, toggle, restart, hot switch, recovery stop | operations queue behind each other while their reasons go away; every step may fail |
| Core manager (`core_manager.dart`, `desktop_service_mode.dart`) | `_running`, `_startInFlight`, `_serviceModeActive` | start, stop, markRunning | two places a core may run (app process, helper), bookkeeping kept apart from both |
| Heartbeat (`core_heartbeat_manager.dart`) | failure count, retry gate, timer | tick, silent restart, proxy guard | lives only while the status is running, acts on what it read before an await |
| Resume controller (`app_resume_controller.dart`, `main.dart`) | in-progress flag, transport memory | resume, revoked VPN, transport hand-off, auto-connect | runs concurrently with the queue, with a dozen awaits |
| Recovery (`recovery_manager.dart`) | none | reset to stopped, aliveness predicates | writes the status at once, stops the core later |
| System proxy (`system_proxy_manager.dart`) | OS setting, verify cache, dirty flag on disk | set, clear, verify, startup clean-up | OS state that outlives the app |
| Service helper (`service/`, Go) | child process, watchdog context, crash window | start, stop, status | goroutine per child, two mutexes |
| Service manager / client | installed helper | install, update, uninstall, IPC calls | lost calls |
| Go core hub (`core/`) | running flag, log writer | start, stop, shutdown | exported calls from several threads |
| MITM engine (`core/mitm`) | listener, config | start, stop, reload | connections in flight |
| Android VPN service, tile, boot; iOS tunnel | fd, VPN state | start, stop, revoke | the engine dies and the service lives |
| Settings, secure storage | cache, file | get, set, flush, migrate | coalesced writes, crash between two of them |
| Auth, subscription sync, profiles | token, profile | login, logout, sync | late answers after a logout |
| Store purchase | order state | order, checkout, poll, cancel | answers out of order |
| Nodes, delay tests, smart select | delays, groups | test, select | cancellation, concurrency limit |
| Config transformers, relay selection, modules | none | pure functions | wide inputs |
| Telemetry client (`telemetry.dart`), logs, updater | two buffers, cool-down, files | record, flush | a request that broke may have been stored |
| Check-in API (`checkin-api/main.py`) | the user's row (shared with the panel), points, calendar | check-in, make-up card, midnight job | every statement is a transaction of its own, on threads |
| Ticket worker (`main.py`) | cursor, tickets in flight, tickets to close; the panel's tickets | read, triage, write every 30 s | two transactions with the language model in between; users and staff write meanwhile |
| AI and web gateway (`main.py`, `web_gateway.py`) | caches with a time to live | translate requests | pass-through I/O |
| Telemetry server (`telemetry.py`, ingest in `main.py`) | events, probe results, node tables | ingest, probe results, statistics, clean-up | two deployments with different tables |
| Node state machine (`telemetry.py`) | `node_state`, its audit table, reviews | recompute, review | a cron job and a human write the same row |
| Active probe runner, release gate (`active_probe_runner.py`, `probe_telemetry.py`) | none, synthetic rows | post batches; run, clean up | a shared rate limit, a process that is killed |
| Node probe script (`probe_nodes.py`) | a private mihomo, a config with secrets, its log | probe, redact, audit | signals between any two steps |
| UI, i18n, theme, Emby player, build scripts | - | - | not modelled |

In the client the parts meet in four places.  Everything that starts or stops a core goes
through the FIFO of the lifecycle manager; `coreStatusProvider` is written by
the lifecycle, the resume controller and the recovery reset, and read by all;
the stop flag is written by the lifecycle (and by the resume controller, which
hydrates or clears it) and read before every automatic restart; the core itself
lives in the app process or in the helper, and each side learns of the other
only through calls that may be lost.  On the server they meet in the tables: the
check-in handlers, the midnight job and the panel write one row of a user, the
worker and the support staff the same tickets, the recompute and the review the
same node, the runner and the release gate share one rate limit.

## Modules

* `UserIntent` - what connect and disconnect promise the user: a core comes up
  only while no disconnect is in force, and a disconnect in force while a core
  is up ends with the core down.
* `CoreLifecycle` - the queue and the core manager.  `queue` / `op` /
  `inFlight` are `_operationQueue`, the operation at its front and
  `_inFlightOpCount`; `op.pc` names the await the operation stands at.
  `status`, `userStopped`, `manualStopped` (cache) / `manualDisk` and `connMode`
  are the providers and settings; `running`, `startInFlight`, `serviceActive`
  are CoreManager's fields; `appCore`, `helperCore` are the processes.
  `survivor` is a history variable: the processes a lost or refused call left
  behind.
* `Core_proofs` - the inductive invariants and theorems of the lifecycle, alone and
  with its watchers.
* `MCCoreLifecycle` and the `lifecycle_*.cfg` - its instances.
* `ServiceRuntime` - the privileged helper (Go): calls that queue for `opMu`,
  the child process, the goroutine that waits for each process and the watchdog
  it turns into.  `opMu` is a variable that names its holder, the goroutine of
  process `p` is `reaper[p]`, `child` / `closed` / `context` / `crashCount` are
  the fields of `ServiceRuntime`.  `overtaken` and `stray` are history: a
  watchdog was past its last look at its context when a call went by, and the
  processes that lost their place on record to such a watchdog.
* `ServiceRuntime_proofs`, `MCServiceRuntime`, `service_*.cfg`.
* `SystemProxy` - the OS proxy setting and everyone who writes it.  A task is
  one call in flight and stands where its Dart code awaits a command or the
  disk; `os` is the setting, `dirty` / `dirtyDisk` the flag in cache and file,
  `verdict` the verify cache, `strikes` the heartbeat's
  `_proxyRestoreFailures`, `background` the provider that an unfocused window
  raises (`main.dart:647-649`): the heartbeat does not guard the setting then
  (`core_heartbeat_manager.dart:305`), and each change of it rebuilds the
  heartbeat.  Nothing distinguishes a setting that is off from another client's,
  and a verdict of null from yes, so each pair is one value.  `slips` is history
  of what befell the setting, whatever the flag says: a restore that wrote it for
  a connection that had ended ("late"), a start that failed or a reset while it
  stood ("kept"), a last command that failed with the setting there all the same
  ("failed"), a set that wrote it while a clear was past its commands
  ("overlap"), a kill inside a set ("died").
* `SystemProxy_proofs`, `MCSystemProxy`, `proxy*.cfg`, `flag_promise.cfg`.

* `CoreSupervision` - extends `CoreLifecycle` with everything that watches the
  core.  `beat` is the live heartbeat manager (where its tick stands, its
  failure count, its retry gate) and `Beating` the provider that builds and
  disposes of it; `resume` is `AppResumeController.run`, `tunCheck` its check of
  desktop TUN, `boot` the sequence after the first frame; `recovering` is the
  recovery guard.  The watchers read the lifecycle's variables, write `status`
  and the flags where the code does, and queue operations of their own.  A reply
  of the REST API is judged in the step that handles it: alive only if some core
  is up (and, without desktop TUN, if the FFI agrees), dead at any time, because
  a probe may fail.
* `Core_proofs` again, `MCCoreSupervision`, `supervision_*.cfg`, `stop_undone.cfg`.

* `Checkin` - the daily check-in and the make-up card, for one user.  `reqs[t]`
  is the request a thread of the pool serves: where it stands between two
  transactions, the payments still to be made and the copy of the row it read at
  its beginning, cut down to what it still uses.  `user`, `points`, `history` are
  the columns; `resetDue` the midnight job that is triggered and has not run.
  `period`, `paid`, `marked`, `closed`, `cards` are history: how often the flag
  was reset, which periods paid how often, which had a check-in admitted that
  finished, in which one the flag was set, the cards paid.
* `Checkin_proofs`, `MCCheckin`, `checkin.cfg`, `once_per_day.cfg`.
* `TicketWorker` - the worker's run in its three phases (`Scan`, `Triage`,
  `Write`) over the panel's messages.  `cursor`, `inFlight`, `closeSet` are its
  globals, lost in a restart.  A message is a row with its class, what the rules
  make of its text; a row may be committed after rows with a higher id.
  `handed` and `excused` are history.
* `TicketWorker_proofs`, `MCTicketWorker`, `tickets.cfg`, `ticket_follow_up.cfg`.
* `NodeState` - the node state machine: samples of clients (`rum`, by target and
  outcome: a Reality failure counts on transport and on an AI target alike) and
  of the runner (`probes`), the state table `row` and the last line `trail` of the audit
  table.  `Classify` is `_classify_node_state` rule by rule, `Derive` the
  dashboard's own classifier of the same samples.  `Recompute` and `Review` do
  not await inside their transaction and are one step each.
* `NodeState_proofs`, `MCNodeState`, `node_state.cfg`, `quarantine_undone.cfg`.
* `TelemetryPipeline` - from the app's buffers over either deployment's ingest
  into the tables, with the runner, the release gate and the clean-up.  A
  request under way is a member of `posts`, which may be stored before, after or
  without the app hearing of it, and may outlive the app.  `app` holds both
  buffers, which the app's end and the switch of the setting empty (`SwitchOff`,
  `Relaunch`), and the setting itself with what is saved of it; its ghost `first`
  is the first event since then.  An accepted batch of the runner is stored result
  by result, each in the table or, invalid, in the dead letter.  `synthetic` says
  which table still holds rows of which gate, `node_state` included, where the
  recompute puts them.
* `TelemetryPipeline_proofs`, `MCTelemetryPipeline`, `telemetry.cfg`, `gate_leftover.cfg`.
* `ProbeRun` - one run of `probe_nodes.py` as the sequence of its steps (`pc`),
  the mihomo it starts as a process of its own that writes the log while it is
  up and may die, and a signal before any step, whose handler stops what is
  registered and unwinds through the `finally` blocks that have been entered.
  `cut` is history: where the signals landed.
* `ProbeRun_proofs`, `MCProbeRun`, `probe_run.cfg`, `refused_is_healthy.cfg`, `audit_scope.cfg`.

Step granularity: Dart runs one isolate, so the code between two awaits that
really leave the event loop (disk, IPC, HTTP, timers) is one action.  The long
bring-up of CoreManager.start is cut where its state changes: before anything,
around the spawn, before and after the API answers.

## Runs

| Run | Bounds | Shows |
|---|---|---|
| `lifecycle_desktop` | desktop with and without helper; 4 requests, 1 crash | the stop flag is on disk before the teardown and after it, no core is lost, the refinement of `UserIntent` (in which a disconnect sticks); the queue drains, through pre-flight failures and refused switches too |
| `lifecycle_android` | Android; 4 requests, 1 crash | where a mode switch may patch the running core in place: a disconnect sticks, only a connect lifts it |
| `supervision_android` | 2 requests, threshold 2, 2 events | with resumes, silent restarts, auto-connect and engine restarts no watcher lifts a disconnect; the recovery guard has an owner |
| `supervision_desktop` | desktop, helper; 1 request, 1 crash, threshold 2, 1 event | a status that says running over a dead core does not last; the recovery guard is always lowered |
| `service_runtime` | 2 calls, 4 processes, limit of 1 crash | no child is lost, a stop which answers ok really stopped, a session whose process died is revived or given up |
| `proxy` | Linux, 2 tasks, failing commands, 1 kill | wherever the app is killed, a setting that is ours is on the books of the next cold start; it is clean after a disconnect and after that cold start, but for what `slips` names |
| `proxy_kill` | macOS, 1 task, failing commands, 1 kill | with the focus on the window a stolen setting is taken back or the connection given up |
| `checkin` | 2 threads, 2 requests on 4 days or 3 requests on 2, 1 fault, two plans | once a check-in has finished none is let through before the reset, streak and cards are paid for, the debt is bounded; nobody is locked out |
| `tickets` | 2 tickets, 3 messages, 1 human answer, 1 fault, batch of 2 | one answer to a message, three named reasons for a forgotten one, closing for a reason; the limit starves nobody |
| `node_state` | 1 vless node, 4 samples a day, 3 probe rows, 2 reviews, threshold 3 | the audit table explains the state table, quarantine needs a review, labels settle, the dashboard does not contradict them; a node that fails everywhere reaches a human |
| `telemetry` | both deployments; 3 events with 1 crash, or 2 runs of 3 results in batches of 2 and 2 gates; 2 faults | usage is counted at most once; a crash is not lost, and arrives, unless the switch or the app's end gives it up; a report is off by a batch at most; a green gate that cleans has removed its events and every gate's probe rows |
| `probe_run` | 2 runs, 2 signals, 2 names of one node, 2 rounds | nothing is left behind but in two windows, PASSED holds, every probe counts; a run ends |

Every run passes.  Beside them there is one configuration for each disagreement
below that names one; it finds its property violated.

Two requests already give every pair of operations racing; four allow an
operation to be queued on both sides of a restart or a hot switch and its
roll-back.  The state keeps no counter but the two bounds, so more requests
repeat these patterns.  One crash may fall into any step of any of them.

The threshold of the heartbeat is 3 in the code and 2 in the runs: one failure
is then still counted without consequence and the next one acts.  An event is a
resume, a rebuild of the heartbeat (background or network change) or a relaunch;
two are enough for one to overtake the other, or for a relaunch around a resume.
On the desktop one event is enough: the start comes from auto-connect, the resume
is the event and the request is the disconnect or the restart that races it, in
either mode, because the mode of the last session is an initial value.
The bound also says that the app is not moved between fore- and background for
ever: each such move starts the count of failures afresh, and without the bound a
dead core could go unnoticed for good.  A disconnect is asked for on Android,
where the app may lose its Dart side while the core stays; the liveness
properties run on the desktop, whose guard is lowered by a finally block and
whose aliveness needs two answers.  Their Android instances are too large to check
in minutes.

For the helper, two calls are a start and what races it or follows it; four
processes are one for each of them and two for the watchdogs.  A stop between
two starts needs a third call, whose temporal properties are too large to check
at once; the safety properties are proved for any number of calls.
For the proxy, two tasks are a writer and whoever takes the setting away from
it, one kill falls into any step of either and is followed by a cold start; what
more of them could do to the safety properties the proofs cover.  The
crash limit of 1 and the three strikes of ProxyGuard are both reached.  Linux is
the platform of `proxy` because its writes have the most outcomes (a desktop
whose command succeeds without effect) and its reset leaves the setting alone.

For the check-in, two threads are a request and the one that overlaps it, the
third request comes after both.  `MCCheckin` adds days with the plan that resets
and requests with the other one: on the fourth day a lockout that began on the
second, whose reset was missed, must be over; with three requests on two days two
overlap and one comes after.  A user has two units of traffic and gets one more,
which uses up the quota of either plan, stops one of them and not the one that
resets, and reaches every branch of the payment in traffic.  In the second world
the clock stops on the second day, so that `LockoutEnds` is a claim about the
first; what more threads, requests, days and faults could do to the safety
properties the proofs cover.  The bounds end the behaviours, so the configuration
allows a stop: everybody has been served on the last day.  The same holds for the
tickets, the pipeline and the probe run, whose users stop writing and whose runs
end.  Two tickets with three messages are a question, its follow-up and one of
somebody else; a batch of two is full before all of them are seen.  Four samples
in a day reach every minimum count (3) and both rates at once, three probe rows
reach the threshold; one node is enough because no rule looks at two.  In the
pipeline each buffer and limit is 1 and a run takes two batches, so that every one
of them overflows; the app's half and the half of the runner and the gate share
nothing but the deployment and the bound on faults, so `MCTelemetryPipeline` lets
each behaviour be about one of them (`half`): what a property of one half says does
not depend on the variables of the other.
In the probe run two names share one fingerprint, and the second run meets what
the first has left.

Fairness of the lifecycle: `WF_vars(Execute)`.  Every await inside an operation either has a
time-out in the code (API and proxies polling, helper pings, HTTP) or ends by
itself, so the executing operation goes on.  Nothing is assumed of the user, of
crashes or of the helper's watchdog.

Fairness of the supervision: weak for the heartbeat, the resume handler, the TUN
check and the launch sequence.  The heartbeat is a timer, and each of the others
stands at an await with a time-out (two seconds for a health check, 3 and 20 for
the launch) or at one that ends when the operation it queued has ended.  Nothing
obliges the user or the system to resume, relaunch or rebuild anything.

Fairness of the helper: weak for the steps that end by themselves or by a
ceiling, strong for taking `opMu`, because a Go mutex hands itself over to a
waiter that starves.  Fairness of the proxy: weak for the steps of a task, every
command having a time-out; strong for the ticks of the heartbeat, an answering
core and the time to live of a verdict, each of which recurs by a timer.
Nothing is assumed of the window's focus: `Restored` promises nothing once the
window has lost it, which also starts the heartbeat and its strikes afresh.

Fairness of the server: the midnight job and the clock (a scheduler that runs
what it has triggered), the worker's phases (a job every 30 seconds, each of whose
calls has a time-out), the recompute (cron), the flush of an app that is switched
on and a request's way through the server (timers and HTTP time-outs).  Of the probe script: its own
steps, each of which ends by itself or by a time-out.  Nothing is assumed of
users, staff, signals or mihomo.

## Disagreements found

With a configuration that shows them:

* `quarantine_undone.cfg` - the review handler is the "Human gate for moves into
  `quarantined` (and reversals)" (`telemetry.py:1957`), but the upsert of the
  recompute (`:1817`) writes the derived label over a quarantined row too, as soon
  as there is a sample of the node.
* `ghost_running.cfg` - `resetToStopped` sets the status now and stops the core
  later (`recovery_manager.dart:71`); a start in flight overwrites the status in
  between, and the queued stop does not touch it.  The UI says running with no
  core, where `:55` says "Reset all core-related provider state to stopped and
  stop the core."
* `stop_undone.cfg` - the resume handler reads the stop flags again after its
  health check, "either becoming true between the two checks means the user
  stopped during the await, and we must not promote to running"
  (`app_resume_controller.dart:632`), then awaits `markRunning`, which in desktop
  TUN asks the OS for the helper, and promotes without a third look.
* `service_stop.cfg` - the watchdog looks at its context before it takes `opMu`
  (`runtime.go:358`) and not after it (`:364`), so a stop in that window is answered
  ok and undone; `:226` says "Cancel watchdog so it doesn't auto-restart after
  explicit stop".
* `proxy_late.cfg` - the tamper check and ProxyGuard decide on what they read
  before an await and write the setting after the disconnect cleared it.
* `flag_promise.cfg` - the dirty flag is set "the moment we've asked" and cleared
  only after a successful clear, so that the next launch can clean up after a crash
  (`system_proxy_manager.dart:128-131`): `set` marks it after the OS was changed
  and then flushes it (`:186`), so a kill in between leaves a setting that no cold
  start takes back; `clear` drops it in a finally block (`:484`), failed or not.
* `once_per_day.cfg` - check-in is once a day in
  `docs/release-preflight-v1.0.20.md:67` and `CHANGELOG.md:140`; the flag is
  looked at before the payments (`main.py:638`) and set after them (`:400`), each
  in a transaction of its own, so two requests at once both pay.
* `ticket_follow_up.cfg` - a further question "has a new id and is picked up
  naturally" (comment at `main.py:1824`): one that is written while the ticket is
  in flight or being answered is passed by the cursor and never taken.
* `gate_leftover.cfg` - the clean-up is there so that a green gate leaves no
  synthetic row (`telemetry.py:1429-1433`): with `main.py`'s ingest the client ids
  are hashed before they are stored (`main.py:2158`), the prefix matches nothing.
  With the routers of `telemetry.py` it leaves the rows of `node_state` that the cron
  job made of the gate's events meanwhile, and no later gate removes the events of one
  that was killed.  With `--skip-ingest` nothing is cleaned and the gate is green.
* `refused_is_healthy.cfg` - "The classification step decides whether 403 means
  ai_blocked vs healthy" (`probe_nodes.py:604`), but `_classify_node` (650-690)
  never looks at a status: a node that got nothing but 403 is healthy.
* `audit_scope.cfg` - the audit promises every server hostname of the input YAML
  (`probe_nodes.py:33-41`), but its tokens are those of the group's members
  (`:789`) while mihomo loads all nodes; and a PASSED of an earlier run stands
  beside the unredacted log of an interrupted one in the same directory.

Met while modelling, without a configuration:

* The classifier's comment promises not to escalate without several regions; the
  rows are grouped without a region.  The runner does not go through the nodes it
  reports on (`active_probe_runner.py:285`).
* The recompute is called idempotent; a suspect node that is well again is
  recovered after one run and healthy after the next (`SettlesInTwo` is what
  holds).  The dashboard's thresholds and order of rules differ from the state
  machine's.  A stale Reject of a second reviewer undoes a quarantine.
* `main.py` mounts only the dashboard's router (`:546`), so the gate's probe check is
  skipped and the state machine has no routes there.
* One malformed latency makes the whole recompute fail.  The runner's exit code is
  0 whatever failed, and its `posted` counts a failed batch.  The app looks at no
  HTTP status: a refused request counts as delivered.
* The runner counts a result that went to the dead letter as posted, for the
  answer is ok (`telemetry.py:2151-2166`, `2219`).
* A broken request puts `startup_fail` back like a crash.  One that breaks after
  telemetry was switched off puts its crashes back into the emptied buffer, and the
  next pause of the app sends them although telemetry is off.
* Three Reality failures on AI targets alone make a vless node a candidate
  (`telemetry.py:1608-1613` sums over all targets), though what these targets
  answer "must NEVER escalate" (`:1586-1588`); `AiNeverEscalates` is about their
  blocks and time-outs.
* With 1 as the id of the oldest waiting message the worker's cursor stays 0 and
  is taken for a fresh start (`FirstId` is 2 in the runs).  `_close_set` is never
  emptied.  The answer of the language model is written after a person has closed
  the ticket.
* `migrate_sqlite_to_pg.py:10` promises to insert only into empty tables; the count
  it takes of them is never used.
* In `probe_nodes.py` a SIGTERM between the start of mihomo and its registration
  leaves it running, one in the clean-up leaves the config: the two windows that
  `LeavesNothing` names.
* The settings page (`general_settings_page.dart:176`) persists and shows the
  new mode but skips the hot switch unless the status is running at that moment:
  picked while a start is in flight, the core comes up in the old mode.
* The captured mode that the stop half of a hot switch should use
  (`core_lifecycle_manager.dart:505-519`) never survives, because every
  CoreActions call builds a new lifecycle manager: a TUN to system-proxy switch
  stops the helper's core without the TUN clean-up.
* A desktop window without the focus counts as background (`main.dart:647-649`), so a
  setting that is stolen while the user works in another window stays stolen until
  the focus returns.
* The TUN check after a resume sets degraded or running on snapshots taken
  before its awaits (`app_resume_controller.dart:739-748`, `794`), over a status
  that a stop may have changed: a second way into `stop_undone`.
* The retry gate of the heartbeat (`_retriedThisOutage`) is meant to outlive one
  silent restart, so that a second round of failures gives up.  The restart takes
  the status through stopping, which disposes of the manager and the gate, so a
  core that keeps failing is restarted for ever, and the toast promised at
  `core_heartbeat_manager.dart:269` for a restart that failed never comes: the
  status is stopped then and nobody ticks.  Its header speaks of 5 failures
  (`:26`), the code has 3.
* On Android the `whenComplete` of a resume that was coalesced or deferred lowers
  the guard at once (`main.dart:688-697`), although the run or the launch
  sequence it was absorbed by is still under way and was to keep it (`403`).
* Nothing ticks while the status is degraded, and the dashboard disconnects only
  from running (`dashboard_page.dart:350-362`).
* Auto-connect reads the stop flag before it loads the profile
  (`main.dart:764-776`): a disconnect during the load is lifted by the start.
* Without the helper, a start queued while a core runs, in a mode changed to TUN
  meanwhile, fails in pre-flight and reports stopped although that core runs.

## Proofs

Every safety invariant and every action property that a passing run checks is a
theorem, for every value of the constants that the assumptions of its module admit;
`LossExplained` alone needs one assumption more.

`Core_proofs` proves of the lifecycle alone, for every number of requests and
crashes, on each platform and with or without the helper: type correctness and
exactness of the busy counter, `UserStopSticks`, `FlagIsKept` (`StopIntentFirst`, `FlagsAgree`),
`NoStrayCore` and `OneCore`, `OnlyConnectLiftsStop`, and that every step is one
of `UserIntent` or leaves its state alone.

None of them is inductive.  `IInv` has three parts: `TInv` adds to the types the
counter equation and the shape of the operation (which kinds can stand at which
point); `FInv` says what the stop flags are at each point of each operation;
`PInv` says which process is up, given `running`, `serviceActive` and the point
the operation is at.  `FInv` rests on `TInv`, `PInv` on both; one lemma per
group of actions shows that a step keeps each.

With the watchers of `CoreSupervision` around the queue `FInv` no longer holds: they
write the status without asking the queue, and a resume that finds a core lowers
the flag in memory and adopts it.  `FInv` is therefore the conjunction of `SInv`,
about the persisted flag and `running`, and `EInv`, about the flag in memory and the
status.  Every watcher is one of two abstract steps (`WatchStep`, `AdoptStep`) or a
relaunch, and each keeps `SInv`, from which everything else follows: the watchers
lift no disconnect (`WatchersKeepStop`), a disconnect whose operation is over leaves
nothing running and is on disk, as it was before its teardown began
(`DisconnectHolds`, `StopIntentFirst`), the flag in memory never claims a stop that
the persisted one does not know (`MemoryFollows`), and every step is one of
`UserIntent`, whose `Forget` is the kill of the app, or leaves it alone
(`KeepsUserIntentAcrossKills`).  `GuardOwned` holds for any threshold, number of
requests, crashes and events; `GuardInv` has to add who called the run in flight,
because on Android a run may return with the guard up only if the sequence after
launch called it, and that no run precedes that sequence.

`ServiceRuntime_proofs` proves, for any number of calls and processes and any
crash limit, `ChildIsWatched`, `SpawnsAlone`, `NoStrayProcess`, `OneContext`,
`SessionGuarded`, `StopHolds` and `StopMeansStopped`.  Its `IInv` adds to the
types: `LockInv` (who is between taking and releasing `opMu` holds it, so there
is one such), `AwaitInv` (a call that waits for a process is the one that holds
the lock, and that process is the child or gone), `ProcInv` (which processes are
alive at which point of their goroutine), `ContextInv` (whose context may be
alive) and `QuietInv` (what holds when no child is on record).

`SystemProxy_proofs` proves, for any number of overlapping calls and kills, on
each platform and with commands that may fail, all five safety properties:
`TypeOK`, `Accounted`, `FlagOnDisk`, `StoppedIsClean`, `TunIsAlone`.  The last two
speak of moments with nothing in flight and are not inductive.  `CleanInv`
drops that premise: without a connection a setting that is ours is excused, or
somebody is about to clear it, or a start is on its way, or the app is dead with
the flag on disk.  `Accounted` is not inductive either: `BooksInv` is its
counterpart for the cached flag, from which `FlagOnDisk` leads to the file, and
`ClearInv` says what befell a setting that a clear has passed over.
That needs `OpsInv` (one lifecycle operation at a time, so a teardown cannot
meet a connection, and a start that writes the setting is in system proxy mode)
and `OffInv` (what a kill leaves).  `TunInv` needs `OpsInv` only.

`NodeState_proofs` proves `AuditExplains`, `QuarantineIsReviewed`,
`SettlesInTwo`, `GreenAgrees` and, beyond the runs, `QueueIsExact` and
`AiNeverEscalates`, for any number of nodes, samples, probe rows and reviews and
any threshold of two or more.  Its invariant adds to the types that the tables
agree row by row, `Explained`: the last audit line of a node ends in its label, starts at
its previous state and carries its flag, the flag is up exactly for the labels a
human has to see, and a quarantined row was moved there by a review of a
candidate.  `SettlesInTwo` and `GreenAgrees` speak of the classifier and every
count of samples at once: they follow from lemmas on its rules
(`RatesDisjoint`, `ClassifySettles`, `HealthyLabels`) and arithmetic on the
rates.

`Checkin_proofs` proves `FinishedShutsOut`, `StreakEarned`, `CardIsPaid` and
`DebtBounded` for any number of threads, requests, days and faults, and
`PaymentsBounded`: what the flag does not prevent, the payments of requests that
overlap or are ended by a fault, is at most one in a period for each thread and as
many again for each fault.  The rows
alone are not inductive, for the requests under way carry copies of them.  `Inv`
counts those requests: `Payments` sets what a period has paid against the
check-ins that still have their flag to set, paid or not, and against what faults
have ended; `Streaks` gives every copy its allowance (a check-in's must hold
without the period it will mark, a card's before and after it was paid);
`Calendar` and `Debt` count the cards between two of their statements.  `Clock`
says that the flag is up in a period in which a check-in has set it, and that
nothing belongs to a period to come; `FinishedShutsOut` follows from the first, for
the admission looks at the flag in the same transaction.

`TelemetryPipeline_proofs` proves `ReportWithinABatch` and `GateRemovesItsRows`
for any number of events, results, gates and faults, any batch
and any rate limit.  Its `IInv` ties the batch under way to what was stored of it
and what was counted, and each phase of a gate to the tables that may hold its
rows.  `UsageAtMostOnce` rests on `AppInv`: every buffered event is marked as what
it is, the priority buffer has crashes only, and an event that is no crash is in
the buffer, in one request or in neither, with no row until that request is stored.
`NoCrashLost`, the safety side of `CrashDelivered`, speaks of the crashes since the
buffers were last given up; it holds if a request has room for
all crashes (`MaxCrashes <= Cap[deployment]`, for the server cuts what is longer).
`CrashInv` adds why the cut hits no crash: a request has its crashes first and each
once, because the priority buffer and the requests whose answer the app still waits
for never hold the same crash twice.

What `CrashesOf` keeps of a request is a recursive function of its length.  The
library's induction theorems cannot be used here, but its well-foundedness of the
natural numbers can: `KeptExists` (there is such a function), `KeptFacts` and
`KeptOnce` take the least position where the claim would not hold and refute it.

`ProbeRun_proofs` proves `LeavesNothing`, `PassedIsClean` and `EveryProbeCounts`, for
any group, fingerprints, targets, rounds, runs and signals.  `LeftInv` says of every
point of a run whether its mihomo may be up and its config on disk, and of every
earlier run that its mihomo is gone or slipped through the window before
`_set_active`; `AuditInv` adds that a verdict of this run is its last word.
`CountInv` gives, for the round and the target a run is at, what has been counted of
each fingerprint; it needs that no target's name stands twice (`TargetsAssumption`),
as in the script's constant `TARGETS`.

`TicketWorker_proofs` proves `AnsweredOnce` and `ClosedForAReason` for any number
of tickets, messages, answers and faults, and `LossExplained` under `FirstId > 1`
(with id 1 the code takes a cursor below the first message for no cursor, and the
property fails).  `WorkInv` says that what a run holds is taken, passed and
unanswered, that a ticket in flight has such a message, and that a ticket to be
closed has a message that asked for it.  `LossExplained` speaks of tickets marked as
answered, a mark that comes and goes with each post; `LossInv` replaces it by an
answer that follows the message, which only Write and people add, and `RepliedInv`
leads from the mark to that answer.  A late
commit is excused below the cursor and also before an answer: after a restart the
worker may look at the message again and leaves it, because of the answer.

Only model-checked: the liveness properties (`BusyEnds`, `GhostRepaired`,
`GuardReleased`, the fairness part of `KeepsUserIntent`, `Revives`, `Restored`,
`LockoutEnds`, `NothingStarves`, `EscalationReached`, `CrashDelivered`, `RunEnds`).
The prover has no rule for fairness and `ENABLED`.  Beyond the runs, TLC has checked
on their instances what is proved but in no configuration (`DisconnectHolds`,
`MemoryFollows`, `KeepsUserIntentAcrossKills`, `PaymentsBounded` and the like).

## Not modelled

Of the server: the AI and web gateways, which translate one request at a time;
validation of tokens and payloads beyond the branch it decides; the statistics
pages but for the node status; feature flags, whose two evaluators differ and
keep no state; the one-off migration script, the icon script.  Of the client: the
mock and subprocess modes, the iOS extension, CoreManager's
`_pendingOperation` (the FIFO already serialises its callers), exceptions thrown
after a core has come up, traffic counters, notifications, telemetry.  The
components marked not_modelled in `PROJECT.json` say why.  Writes of the settings
file are assumed to succeed, where the code tries three renames, then writes
directly, and swallows a failure of that too.  The mixed port is constant, so
the cached verdict's port check never matters.  The DNS servers that macOS gets
for TUN (`_savedDnsServers`) are left for later.  Of the app shell: the
debouncing and cool-downs of the transport hand-off (it queues a plain restart,
which the user may too), the revocation of the VPN beyond the recovery reset it
calls, and more than one TUN check at a time.  After a give-up the heartbeat
waits a minute, which never matters, because giving up disposes of it.  Of the
probe script: with exit code 7 it also writes what mihomo said of the
configuration to `mihomo_validate.txt`, unredacted and outside the audit.

## Plan

1. `CoreLifecycle` and its proofs - done.
2. `ServiceRuntime` and its proofs - done; open: an abstract specification of a
   supervised process that it implements.
3. `SystemProxy` and its proofs - done; open: DNS servers of TUN on macOS.
4. `CoreSupervision` - heartbeat, resume, recovery and engine restarts around
   the lifecycle - done, with its flag properties as theorems.
5. The Python side: `Checkin`, `NodeState`, `TicketWorker`, `TelemetryPipeline`
   and `ProbeRun`, with their proofs - done.
6. Proofs: every safety property of the runs - done; open: the processes under the
   supervision (`PInv` with the watchers' restarts), and what the recursive `Sum`
   of the probe classifier computes.
7. Settings writes (a load that times out leaves an empty cache that the next set
   writes over the file, `settings_service.dart:73`; the write in place when the
   renames fail, `:128`) and secure-storage migration; the Go hub, whose shutdown
   gives its mutex up half way (`hub.go:259`); purchase flow; auth and sync; delay
   tests; MITM engine; Android VPN service; relay selector as a pure operator.
