------------------------------ MODULE NodeState ------------------------------
(***************************************************************************)
(* The P7 node state machine of server/telemetry/telemetry.py: clients     *)
(* report probe samples (RUM), the runner posts active probes, a cron job  *)
(* recomputes one label per node from both, and a human reviews the nodes  *)
(* that are candidates for quarantine.                                     *)
(*                                                                         *)
(* The module is the file with every router mounted (register(app)).       *)
(* recompute and review are `async def` handlers that do not await inside  *)
(* their transaction, in a service with one worker: each is one step.      *)
(***************************************************************************)
EXTENDS Naturals, Sequences, FiniteSets

CONSTANTS
    Nodes,          \* fingerprints of nodes
    Vless,          \* those whose protocol is vless
    Threshold,      \* QUARANTINE_CANDIDATE_RUM_FAIL_THRESHOLD
    MaxSamples,     \* bound: RUM samples in one day, all nodes together
    MaxProbes,      \* bound: transport probe rows of a node in 24 hours
    MaxReviews      \* bound: reviews

ASSUME NodeStateAssumption ==
    /\ Vless \subseteq Nodes
    /\ Threshold \in Nat /\ Threshold >= 2
    /\ MaxSamples \in Nat /\ MaxProbes \in Nat /\ MaxReviews \in Nat

VARIABLES
    rum,        \* node -> kind of sample -> rows of today in `events`
    probes,     \* node -> its rows in active_probe_results, oldest first (TRUE: ok)
    row,        \* node -> its row of node_state, or NoRow
    trail,      \* node -> its last row of node_state_transitions, or NoMove
    reviews     \* number of rows in node_state_reviews

vars == <<rum, probes, row, trail, reviews>>

(***************************************************************************)
(* A sample is a target and an outcome.  The targets that the rules tell   *)
(* apart are `transport` and the AI ones; on the others only a Reality     *)
(* failure counts, as it does on an AI target.  An AI sample that succeeds *)
(* changes no label and is left out.                                       *)
(***************************************************************************)
TransportKinds == {"ok", "failed", "timeout", "reality"}
AiKinds == {"aiBlocked", "aiTimeout", "aiReality"}
Kinds == TransportKinds \cup AiKinds

Labels == {"healthy", "suspect", "quarantine_candidate", "ai_blocked",
           "ai_suspect", "recovered", "quarantined"}
HumanLabels == {"quarantine_candidate", "quarantined"}

NoRow == [current |-> "none", previous |-> "none", human |-> FALSE]
NoMove == [from |-> "none", to |-> "none", review |-> FALSE, human |-> FALSE]

Attempts(e) == e["ok"] + e["failed"] + e["timeout"] + e["reality"]
Samples(e) == Attempts(e) + e["aiBlocked"] + e["aiTimeout"] + e["aiReality"]

\* reality_auth_failed, summed over all the targets
RealityFailures(e) == e["reality"] + e["aiReality"]

\* success_rate >= HEALTHY_SUCCESS_THRESHOLD and < SUSPECT_SUCCESS_THRESHOLD
High(ok, n) == n > 0 /\ 5 * ok >= 4 * n
Low(ok, n) == n > 0 /\ 2 * ok < n

Passed(p) == Len(SelectSeq(p, LAMBDA b : b))

-----------------------------------------------------------------------------
(***************************************************************************)
(* _classify_node_state, one rule each in the order of the returns.        *)
(***************************************************************************)
RealityFails(n, e) == RealityFailures(e) >= Threshold /\ n \in Vless

BothFail(e, p) ==
    /\ Attempts(e) >= Threshold /\ Low(e["ok"], Attempts(e))
    /\ Len(p) >= Threshold /\ Low(Passed(p), Len(p))

AiBlocked(e) == e["aiBlocked"] > 0
AiTimesOut(e) == e["aiTimeout"] > 0 /\ High(e["ok"], Attempts(e))
Good(e) == Attempts(e) >= 3 /\ High(e["ok"], Attempts(e))
Bad(e) == Attempts(e) >= 3 /\ Low(e["ok"], Attempts(e))

\* The label without a rule that applies: hold the state, else be cautious.
Held(prev) == IF prev = "none" THEN "suspect" ELSE prev

\* (a variant: a healthy node recovers too)
ClassifyRecoversHealthy(n, e, p, prev) ==
    IF RealityFails(n, e) \/ BothFail(e, p) THEN "quarantine_candidate"
    ELSE IF AiBlocked(e) THEN "ai_blocked"
    ELSE IF AiTimesOut(e) THEN "ai_suspect"
    ELSE IF Good(e) THEN IF prev # "recovered" THEN "recovered" ELSE "healthy"
    ELSE IF Bad(e) THEN "suspect" ELSE Held(prev)

\* (a variant: the rate of the users decides before the two are compared)
ClassifyBadFirst(n, e, p, prev) ==
    IF Bad(e) THEN "suspect"
    ELSE IF RealityFails(n, e) \/ BothFail(e, p) THEN "quarantine_candidate"
    ELSE IF AiBlocked(e) THEN "ai_blocked"
    ELSE IF AiTimesOut(e) THEN "ai_suspect"
    ELSE IF ~Good(e) THEN Held(prev)
    ELSE IF prev \in {"suspect", "ai_suspect", "ai_blocked"}
         THEN "recovered" ELSE "healthy"

Classify(n, e, p, prev) ==
    IF RealityFails(n, e) \/ BothFail(e, p) THEN "quarantine_candidate"
    ELSE IF AiBlocked(e) THEN "ai_blocked"
    ELSE IF AiTimesOut(e) THEN "ai_suspect"
    ELSE IF Good(e)
    THEN IF prev \in {"suspect", "ai_suspect", "ai_blocked"}
         THEN "recovered" ELSE "healthy"
    ELSE IF Bad(e) THEN "suspect"
    ELSE Held(prev)

(* _derive_node_state: what /stats/nodes shows for the same samples. *)
\* (a variant: the AI targets are not looked at)
DeriveWithoutAi(n, e) ==
    IF RealityFailures(e) >= 2 /\ n \in Vless THEN "quarantine_candidate"
    ELSE IF Good(e) /\ 2 * e["timeout"] < Attempts(e) THEN "healthy"
    ELSE "suspect"

Derive(n, e) ==
    IF AiBlocked(e) THEN "ai_blocked"
    ELSE IF RealityFailures(e) >= 2 /\ n \in Vless THEN "quarantine_candidate"
    ELSE IF Good(e) /\ 2 * e["timeout"] < Attempts(e) THEN "healthy"
    ELSE "suspect"

\* the state of a node in the answer of /stats/nodes
Shown(n) == Derive(n, rum[n])

-----------------------------------------------------------------------------
Init ==
    /\ rum = [n \in Nodes |-> [k \in Kinds |-> 0]]
    /\ probes = [n \in Nodes |-> <<>>]
    /\ row = [n \in Nodes |-> NoRow]
    /\ trail = [n \in Nodes |-> NoMove]
    /\ reviews = 0

\* The two upserts write the row and, when the label moves, its audit row.
Upsert(old, label) ==
    [current |-> label,
     previous |-> IF label # old.current THEN old.current ELSE old.previous,
     human |-> label \in HumanLabels]

Audit(old, label, review) ==
    [from |-> old.current, to |-> label, review |-> review,
     human |-> label \in HumanLabels]

(* An event node_probe_result_v1 of some client is stored. *)
Report(n, k) ==
    /\ Samples(rum[n]) < MaxSamples
    /\ rum' = [rum EXCEPT ![n][k] = @ + 1]
    /\ UNCHANGED <<probes, row, trail, reviews>>

(* active_probe_post_results stores a transport row of the runner. *)
Probe(n, ok) ==
    /\ Len(probes[n]) < MaxProbes
    /\ probes' = [probes EXCEPT ![n] = Append(@, ok)]
    /\ UNCHANGED <<rum, row, trail, reviews>>

(***************************************************************************)
(* The two windows move: RUM rows count for their UTC day (_day_window(1)), *)
(* a probe row for the 24 hours after it was written.                      *)
(***************************************************************************)
NewDay ==
    /\ \E n \in Nodes : Samples(rum[n]) > 0
    /\ rum' = [n \in Nodes |-> [k \in Kinds |-> 0]]
    /\ UNCHANGED <<probes, row, trail, reviews>>

Expire(n) ==
    /\ probes[n] # <<>>
    /\ probes' = [probes EXCEPT ![n] = Tail(@)]
    /\ UNCHANGED <<rum, row, trail, reviews>>

(***************************************************************************)
(* sre_recompute_state: every node with a RUM row in the window gets its   *)
(* label written over the old one; a label that moved gets an audit row.   *)
(***************************************************************************)
Seen == {n \in Nodes : Samples(rum[n]) > 0}
Label(n) == Classify(n, rum[n], probes[n], row[n].current)
Moved(n) == n \in Seen /\ Label(n) # row[n].current

\* (a variant: a label that did not move gets an audit row too)
RecomputeAuditsEvery ==
    /\ row' = [n \in Nodes |->
                  IF n \in Seen THEN Upsert(row[n], Label(n)) ELSE row[n]]
    /\ trail' = [n \in Nodes |->
                    IF n \in Seen THEN Audit(row[n], Label(n), FALSE) ELSE trail[n]]
    /\ UNCHANGED <<rum, probes, reviews>>

Recompute ==
    /\ row' = [n \in Nodes |->
                  IF n \in Seen THEN Upsert(row[n], Label(n)) ELSE row[n]]
    /\ trail' = [n \in Nodes |->
                    IF Moved(n) THEN Audit(row[n], Label(n), FALSE) ELSE trail[n]]
    /\ UNCHANGED <<rum, probes, reviews>>

(***************************************************************************)
(* sre_review_node_state.  A review that changes no label still counts as  *)
(* a review; one that does writes the row and an audit row.                *)
(***************************************************************************)
Decide(n, label) ==
    /\ row[n] # NoRow                                       \* 404
    /\ reviews < MaxReviews
    /\ reviews' = reviews + 1
    /\ IF label = row[n].current
       THEN UNCHANGED <<row, trail>>
       ELSE /\ row' = [row EXCEPT ![n] = Upsert(@, label)]
            /\ trail' = [trail EXCEPT ![n] = Audit(row[n], label, TRUE)]
    /\ UNCHANGED <<rum, probes>>

\* (a variant: without the 409)
ApproveQuarantineAnyState(n) == Decide(n, "quarantined")

ApproveQuarantine(n) ==
    /\ row[n].current = "quarantine_candidate"              \* else 409
    /\ Decide(n, "quarantined")

ApproveOther(n) ==
    \E label \in {"healthy", "recovered", "suspect"} : Decide(n, label)

Reject(n) ==
    Decide(n, IF row[n].current \in HumanLabels THEN "suspect"
              ELSE row[n].current)

Hold(n) == Decide(n, row[n].current)

Review(n) == ApproveQuarantine(n) \/ ApproveOther(n) \/ Reject(n) \/ Hold(n)

-----------------------------------------------------------------------------
Next ==
    \/ \E n \in Nodes, k \in Kinds : Report(n, k)
    \/ \E n \in Nodes, ok \in BOOLEAN : Probe(n, ok)
    \/ \E n \in Nodes : Expire(n) \/ Review(n)
    \/ NewDay
    \/ Recompute

\* "Triggered by cron (every 5 min in production)".
Spec == Init /\ [][Next]_vars /\ WF_vars(Recompute)

-----------------------------------------------------------------------------
(* The tables hold what their columns allow. *)
TypeOK ==
    /\ rum \in [Nodes -> [Kinds -> Nat]]
    /\ probes \in [Nodes -> Seq(BOOLEAN)]
    /\ row \in [Nodes -> [current : Labels \cup {"none"},
                          previous : Labels \cup {"none"}, human : BOOLEAN]]
    /\ trail \in [Nodes -> [from : Labels \cup {"none"}, to : Labels \cup {"none"},
                            review : BOOLEAN, human : BOOLEAN]]
    /\ reviews \in Nat

(***************************************************************************)
(* The audit table explains the state table: the last transition of a node *)
(* ends in its label, starts at its previous_state and carries its flag.   *)
(* Two handlers write both tables by different statements.                 *)
(***************************************************************************)
AuditExplains ==
    \A n \in Nodes :
        /\ trail[n].to = row[n].current
        /\ trail[n].from = row[n].previous
        /\ trail[n].human = row[n].human

(***************************************************************************)
(* "automation only ever sets quarantine_candidate": whatever recomputes   *)
(* come after it, a quarantined node was put there by a review, from the   *)
(* candidate label.                                                        *)
(***************************************************************************)
QuarantineIsReviewed ==
    \A n \in Nodes :
        row[n].current = "quarantined" =>
            /\ trail[n].review
            /\ trail[n].from = "quarantine_candidate"

(* The review queue (requires_human) holds the nodes that wait for a human. *)
QueueIsExact ==
    \A n \in Nodes : row[n].human <=> row[n].current \in HumanLabels

(***************************************************************************)
(* "Idempotent": with the evidence unchanged, two recomputes reach a label *)
(* that a third one keeps (the first may say recovered, which the second   *)
(* turns into healthy).                                                    *)
(***************************************************************************)
SettlesInTwo ==
    \A n \in Seen :
        LET again(prev) == Classify(n, rum[n], probes[n], prev)
            second == again(Label(n))
        IN  again(second) = second

(***************************************************************************)
(* "ai_blocked must NEVER escalate": what the AI targets answer or leave   *)
(* unanswered (403, 429, 1020, a time-out) neither makes a node a          *)
(* candidate nor hides that it is one.  Their Reality failures are not     *)
(* among these: like those of any other target they count for the node.    *)
(***************************************************************************)
AiSignals == {"aiBlocked", "aiTimeout"}

AiNeverEscalates ==
    \A n \in Seen :
        LET e == [k \in Kinds |-> IF k \in AiSignals THEN 0 ELSE rum[n][k]]
            without == Classify(n, e, probes[n], row[n].current)
        IN  row[n].current # "quarantine_candidate" =>
              (Label(n) = "quarantine_candidate" <=> without = "quarantine_candidate")

(***************************************************************************)
(* The dashboard and the state machine are two classifiers of the same     *)
(* samples: a node the dashboard shows as healthy is never one the next    *)
(* recompute sends to the review queue, suspects or blocks.                *)
(***************************************************************************)
GreenAgrees ==
    \A n \in Seen :
        Shown(n) = "healthy" => Label(n) \in {"healthy", "recovered", "ai_suspect"}

(***************************************************************************)
(* A node that fails for the users and for the runner alike is put in      *)
(* front of a human in the end, whatever was decided about it before.      *)
(***************************************************************************)
EscalationReached ==
    \A n \in Nodes : <>[]BothFail(rum[n], probes[n]) => <>[]row[n].human

(***************************************************************************)
(* "Human gate for moves into `quarantined` (and reversals)": only a       *)
(* review takes a node out of quarantine.                                  *)
(***************************************************************************)
QuarantineHolds ==
    [][\A n \in Nodes :
          row[n].current = "quarantined" /\ row'[n].current # "quarantined"
          => trail'[n].review]_vars
=============================================================================
