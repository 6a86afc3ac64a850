------------------------------- MODULE ProbeRun -------------------------------
(***************************************************************************)
(* scripts/sre/probe_nodes.py: one run starts a private mihomo on a        *)
(* temporary config that holds the secrets of the subscription, probes the *)
(* nodes of a group round by round, stops mihomo, redacts its log, removes *)
(* the config and audits what it leaves in --out.                          *)
(*                                                                         *)
(* A signal may land before any step of it: the handler stops the mihomo   *)
(* that was registered and calls sys.exit, which unwinds through the       *)
(* `finally` blocks.  mihomo is a process of its own: it writes its log at *)
(* any time it is up, and may die.  Runs follow one another into the same  *)
(* --out directory (mkdir(exist_ok=True)).                                 *)
(***************************************************************************)
EXTENDS Naturals, Sequences, FiniteSets

CONSTANTS
    Members,        \* nodes of the requested group (names)
    Others,         \* the other nodes of the config, which mihomo loads too
    Prints,         \* fingerprints
    Fp,             \* member -> its fingerprint; two names may share one
    AiNodes,        \* the members picked by --max-ai-nodes
    NonAiTargets,   \* the targets measured by /group/<g>/delay, in order
    AiTargets,      \* the targets asked through the mixed port, in order
    Rounds,         \* --rounds
    AiRounds,       \* --ai-rounds
    MaxSignals,     \* bound: signals
    MaxRuns         \* bound: runs

ASSUME ProbeRunAssumption ==
    /\ Fp \in [Members -> Prints] /\ AiNodes \subseteq Members
    /\ Rounds \in Nat /\ AiRounds \in Nat
    /\ MaxSignals \in Nat /\ MaxRuns \in Nat \ {0}

\* The group is a list, and TARGETS is a constant of the script in which no name
\* stands twice.
ASSUME TargetsAssumption ==
    /\ IsFiniteSet(Members)
    /\ NonAiTargets # <<>>
    /\ NonAiTargets \in Seq({NonAiTargets[i] : i \in DOMAIN NonAiTargets})
    /\ AiTargets \in Seq({AiTargets[i] : i \in DOMAIN AiTargets})
    /\ LET all == NonAiTargets \o AiTargets
       IN  \A i, j \in DOMAIN all : all[i] = all[j] => i = j

VARIABLES
    run,        \* number of the run
    pc,         \* what main() does next
    code,       \* the exit code it leaves with (0: not leaving yet, or success)
    alive,      \* runs whose mihomo is up
    active,     \* _active_handle is set
    configs,    \* runs whose temporary config is on disk
    log,        \* nodes whose secrets stand in mihomo.log
    audit,      \* sanitization_audit.txt, with the run that wrote it
    round, at,  \* the round, and the target of it that is probed next
    tally,      \* the samples so far: fingerprint -> target -> counts
    summary,    \* summary.json: the run, the counts and the classes
    signals,    \* number of signals so far
    cut         \* where they landed: run and step

files == <<configs, log, audit, summary>>
probing == <<round, at, tally>>
vars == <<run, pc, code, alive, active, files, probing, signals, cut>>

Elements(s) == {s[i] : i \in DOMAIN s}
Targets == Elements(NonAiTargets) \cup Elements(AiTargets)
NoSamples ==
    [f \in Prints |-> [t \in Targets |-> [attempts |-> 0, ok |-> 0, refused |-> 0]]]
NoAudit == [run |-> 0, verdict |-> "none"]
NoSummary == [run |-> 0, counts |-> NoSamples, class |-> [f \in Prints |-> "unknown"]]

Leaving == code # 0
Secrets == Members \cup Others

\* _collect_secret_tokens is given the members only.
Tokens == Members

\* An AI probe: no answer (or no switch), a 403, any other status.  The raw
\* request (_raw_http_through_proxy) is ok with every status.
Answers == {"none", "refused", "other"}
GotThrough(answer) == answer # "none"

Init ==
    /\ run = 1 /\ pc = "start" /\ code = 0
    /\ alive = {} /\ active = FALSE
    /\ configs = {} /\ log = {} /\ audit = NoAudit
    /\ round = 1 /\ at = 1 /\ tally = NoSamples /\ summary = NoSummary
    /\ signals = 0 /\ cut = {}

-----------------------------------------------------------------------------
(* Up to the start of mihomo. *)

Exit(c, where) == code' = c /\ pc' = where

Resolve ==
    /\ pc = "start"
    /\ \/ pc' = "config" /\ UNCHANGED code
       \/ Exit(3, "ended")                    \* the group has no nodes
    /\ UNCHANGED <<run, alive, active, files, probing, signals, cut>>

\* mkdtemp, _build_temp_config and the write, inside the outer try.
WriteConfig ==
    /\ pc = "config"
    /\ \/ configs' = configs \cup {run} /\ pc' = "validate" /\ UNCHANGED code
       \/ Exit(1, "cleanup") /\ UNCHANGED configs     \* not a YAML mapping
    /\ UNCHANGED <<run, alive, active, log, audit, summary, probing, signals, cut>>

\* (a variant: a refused config is reported before the outer try)
ValidateEarly ==
    /\ pc = "validate"
    /\ \/ pc' = "launch" /\ UNCHANGED code
       \/ Exit(7, "ended")
    /\ UNCHANGED <<run, alive, active, files, probing, signals, cut>>

Validate ==
    /\ pc = "validate"
    /\ \/ pc' = "launch" /\ UNCHANGED code
       \/ Exit(7, "cleanup")                  \* mihomo -t refuses it
    /\ UNCHANGED <<run, alive, active, files, probing, signals, cut>>

\* _start_mihomo opens the log with "w", then Popen.
StartMihomo ==
    /\ pc = "launch" /\ pc' = "register"
    /\ alive' = alive \cup {run}
    /\ log' = {}
    /\ UNCHANGED <<run, code, active, configs, audit, summary, probing, signals, cut>>

SetActive ==
    /\ pc = "register" /\ pc' = "waiting"
    /\ active' = TRUE
    /\ UNCHANGED <<run, code, alive, files, probing, signals, cut>>

Ready ==
    /\ pc = "waiting" /\ pc' = "probing"
    /\ run \in alive
    /\ UNCHANGED <<run, code, alive, active, files, probing, signals, cut>>

\* (a variant: it waits for as long as it takes)
NotReadyWaits ==
    /\ pc = "waiting" /\ run \notin alive
    /\ UNCHANGED vars

NotReady ==
    /\ pc = "waiting"
    /\ Exit(1, "stopping")                    \* 20 s: SystemExit
    /\ UNCHANGED <<run, alive, active, files, probing, signals, cut>>

-----------------------------------------------------------------------------
(***************************************************************************)
(* _run_probes.  Every member gets a sample for every target, whatever     *)
(* happens: a /group delay that fails gives an empty result, in which each *)
(* member counts as `no_result`; a selector that does not switch counts as *)
(* a failed AI sample.                                                     *)
(***************************************************************************)
Turn == NonAiTargets \o (IF round <= AiRounds THEN AiTargets ELSE <<>>)

Count(t, ms, ok, refused) ==
    LET of(f, s) == Cardinality({m \in s : Fp[m] = f})
    IN  tally' = [f \in Prints |->
            [tally[f] EXCEPT ![t] = [attempts |-> @.attempts + of(f, ms),
                                     ok       |-> @.ok + of(f, ok),
                                     refused  |-> @.refused + of(f, refused)]]]

Advance ==
    IF at < Len(Turn) THEN at' = at + 1 /\ UNCHANGED round
    ELSE round' = round + 1 /\ at' = 1

\* The samples are locals of _run_probes, which begins and ends without them.
Forget == round' = 1 /\ at' = 1 /\ tally' = NoSamples

Probing == pc = "probing" /\ round <= Rounds

\* (a variant: a request that fails is skipped)
GroupDelaySkips(ok) ==
    /\ Probing /\ at <= Len(NonAiTargets)
    /\ ok # {} => run \in alive
    /\ IF ok = {} THEN UNCHANGED tally ELSE Count(Turn[at], Members, ok, {})
    /\ Advance
    /\ UNCHANGED <<run, pc, code, alive, active, files, signals, cut>>

GroupDelay(ok) ==
    /\ Probing /\ at <= Len(NonAiTargets)
    /\ ok # {} => run \in alive
    /\ Count(Turn[at], Members, ok, {})
    /\ Advance
    /\ UNCHANGED <<run, pc, code, alive, active, files, signals, cut>>

AskAi(answer) ==
    /\ Probing /\ at > Len(NonAiTargets)
    /\ LET ok == {m \in AiNodes : GotThrough(answer[m])}
       IN  /\ ok # {} => run \in alive
           /\ Count(Turn[at], AiNodes, ok, {m \in ok : answer[m] = "refused"})
    /\ Advance
    /\ UNCHANGED <<run, pc, code, alive, active, files, signals, cut>>

\* _classify_node.  The common targets have the same number of attempts, so
\* the mean of their rates is the rate of their sum.
Sum(per, field, ts) ==
    LET add[n \in 0..Len(ts)] == IF n = 0 THEN 0 ELSE add[n-1] + per[ts[n]][field]
    IN  add[Len(ts)]

Class(per) ==
    LET tried == {t \in Elements(AiTargets) : per[t].attempts > 0}
        attempts == Sum(per, "attempts", NonAiTargets)
    IN  IF attempts = 0 THEN "unknown"
        ELSE IF 2 * Sum(per, "ok", NonAiTargets) < attempts THEN "node_down"
        ELSE IF tried # {} /\ \A t \in tried : 2 * per[t].ok < per[t].attempts
        THEN "ai_blocked"
        ELSE "healthy"

Summarise ==
    /\ pc = "probing" /\ round > Rounds
    /\ summary' = [run |-> run, counts |-> tally,
                   class |-> [f \in Prints |-> Class(tally[f])]]
    /\ pc' = "stopping"
    /\ Forget
    /\ UNCHANGED <<run, code, alive, active, configs, log, audit, signals, cut>>

-----------------------------------------------------------------------------
(* The `finally` blocks, the redaction and the audit. *)

\* (a variant: it does not wait for the process to end)
StopMihomoNoWait ==
    /\ pc = "stopping"
    /\ pc' = IF Leaving THEN "cleanup" ELSE "redact"
    /\ active' = FALSE
    /\ UNCHANGED <<run, code, alive, files, probing, signals, cut>>

\* _stop_mihomo (SIGTERM, then SIGKILL, each waited for) and _set_active(None).
StopMihomo ==
    /\ pc = "stopping"
    /\ pc' = IF Leaving THEN "cleanup" ELSE "redact"
    /\ alive' = alive \ {run}
    /\ active' = FALSE
    /\ UNCHANGED <<run, code, files, probing, signals, cut>>

RedactLog ==
    /\ pc = "redact" /\ pc' = "cleanup"
    /\ log' = log \ Tokens
    /\ UNCHANGED <<run, code, alive, active, configs, audit, summary, probing, signals, cut>>

CleanUp ==
    /\ pc = "cleanup"
    /\ configs' = configs \ {run}
    /\ pc' = IF Leaving THEN "ended" ELSE "audit"
    /\ UNCHANGED <<run, code, alive, active, log, audit, summary, probing, signals, cut>>

Verdict(passed) == [run |-> run, verdict |-> IF passed THEN "PASSED" ELSE "FAILED"]

AuditArtifacts ==
    /\ pc = "audit"
    /\ LET clean == log \cap Tokens = {}
       IN  audit' = Verdict(clean) /\ Exit(IF clean THEN 0 ELSE 4, "ended")
    /\ UNCHANGED <<run, alive, active, configs, log, summary, probing, signals, cut>>

-----------------------------------------------------------------------------
(***************************************************************************)
(* SIGTERM from a parent (a Ctrl-C reaches mihomo too).  The handler stops *)
(* the registered process and raises SystemExit where main() stands.  In   *)
(* the clean-up that leaves the loop of the unlinks half done.             *)
(***************************************************************************)
Unwinds ==
    CASE pc \in {"waiting", "probing"} -> "stopping"
      [] pc \in {"config", "validate", "launch", "register", "stopping", "redact"}
         -> "cleanup"
      [] OTHER -> "ended"

Signal ==
    /\ pc # "ended"
    /\ signals < MaxSignals
    /\ signals' = signals + 1
    /\ cut' = cut \cup {<<run, pc>>}
    /\ Exit(143, Unwinds)
    /\ alive' = IF active THEN alive \ {run} ELSE alive
    /\ IF pc = "cleanup" THEN configs' \in {configs, configs \ {run}}
       ELSE UNCHANGED configs
    /\ Forget
    /\ UNCHANGED <<run, active, log, audit, summary>>

\* mihomo writes a line that quotes a node's server or SNI, or dies.
LogLine(n) ==
    /\ alive # {}
    /\ log' = log \cup {n}
    /\ UNCHANGED <<run, pc, code, alive, active, configs, audit, summary, probing,
                   signals, cut>>

MihomoDies(r) ==
    /\ r \in alive
    /\ alive' = alive \ {r}
    /\ UNCHANGED <<run, pc, code, active, files, probing, signals, cut>>

NewRun ==
    /\ pc = "ended" /\ run < MaxRuns
    /\ run' = run + 1 /\ pc' = "start" /\ code' = 0 /\ active' = FALSE
    /\ UNCHANGED <<alive, files, probing, signals, cut>>

-----------------------------------------------------------------------------
Ask ==
    \/ \E ok \in SUBSET Members : GroupDelay(ok)
    \/ \E answer \in [AiNodes -> Answers] : AskAi(answer)

Main ==
    \/ Resolve \/ WriteConfig \/ Validate \/ StartMihomo \/ SetActive
    \/ Ready \/ NotReady \/ Ask \/ Summarise
    \/ StopMihomo \/ RedactLog \/ CleanUp \/ AuditArtifacts

Next ==
    \/ Main \/ Signal \/ NewRun
    \/ \E n \in Secrets : LogLine(n)
    \/ \E r \in alive : MihomoDies(r)

\* Every wait of the script has a deadline of its own.
Spec == Init /\ [][Next]_vars /\ WF_vars(Main)

-----------------------------------------------------------------------------
Steps == {"start", "config", "validate", "launch", "register", "waiting",
          "probing", "stopping", "redact", "cleanup", "audit", "ended"}

TypeOK ==
    /\ run \in 1..MaxRuns /\ pc \in Steps /\ code \in {0, 1, 3, 4, 7, 143}
    /\ alive \subseteq 1..MaxRuns /\ active \in BOOLEAN
    /\ configs \subseteq 1..MaxRuns /\ log \subseteq Secrets
    /\ audit \in [run : 0..MaxRuns, verdict : {"none", "PASSED", "FAILED"}]
    /\ signals \in 0..MaxSignals
    /\ cut \subseteq (1..MaxRuns) \X Steps

(***************************************************************************)
(* A run that ended, however it ended, leaves neither its mihomo nor the   *)
(* config with the secrets behind, but in two windows: a signal between    *)
(* Popen and _set_active, and a signal in the clean-up itself.             *)
(***************************************************************************)
LeavesNothing ==
    pc = "ended" =>
        /\ run \in alive => <<run, "register">> \in cut
        /\ run \in configs => <<run, "cleanup">> \in cut

(***************************************************************************)
(* "Redact AFTER mihomo flushes its log on shutdown": once a run wrote     *)
(* PASSED no secret of a probed node stands in the log, and none comes     *)
(* into it later, unless the mihomo of an earlier run was left behind.     *)
(***************************************************************************)
PassedIsClean ==
    audit = [run |-> run, verdict |-> "PASSED"] =>
        \/ log \cap Members = {}
        \/ \E r \in 1..run : <<r, "register">> \in cut

(***************************************************************************)
(* The summary divides by everything that was tried: per fingerprint and   *)
(* target one attempt per round and name that shares it, with a dead       *)
(* mihomo, a failed request and a failed switch counted as failures.       *)
(***************************************************************************)
Tried(f, t) ==
    IF t \in Elements(AiTargets)
    THEN (IF AiRounds < Rounds THEN AiRounds ELSE Rounds)
            * Cardinality({m \in AiNodes : Fp[m] = f})
    ELSE Rounds * Cardinality({m \in Members : Fp[m] = f})

EveryProbeCounts ==
    summary # NoSummary =>
        \A f \in Prints, t \in Targets :
            /\ summary.counts[f][t].attempts = Tried(f, t)
            /\ summary.counts[f][t].ok <= Tried(f, t)

(***************************************************************************)
(* A run ends: no failure of mihomo and no signal makes it wait for ever.  *)
(***************************************************************************)
RunEnds == (pc # "ended") ~> (pc = "ended")

(***************************************************************************)
(* "final scan confirming no secrets leaked": a PASSED in the directory    *)
(* speaks of the log beside it.                                            *)
(***************************************************************************)
PassedSpeaksOfTheLog ==
    pc = "ended" /\ audit.verdict = "PASSED" => log = {}

(***************************************************************************)
(* "The classification step decides whether 403 means ai_blocked vs        *)
(* healthy": a node that only ever got 403 from the AI sites is not        *)
(* healthy.                                                                *)
(***************************************************************************)
RefusedIsNotHealthy ==
    \A f \in Prints :
        LET asked == {t \in Elements(AiTargets) : summary.counts[f][t].attempts > 0}
        IN  asked # {} /\ (\A t \in asked :
                 summary.counts[f][t].refused = summary.counts[f][t].attempts)
            => summary.class[f] # "healthy"
=============================================================================
