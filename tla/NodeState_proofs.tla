--------------------------- MODULE NodeState_proofs ---------------------------
(***************************************************************************)
(* The state table and its audit table agree for any number of nodes,      *)
(* samples, probe rows and reviews and every threshold of two or more.     *)
(* The audit rows alone are not inductive: a recompute that does not move  *)
(* a label still writes its flag, so the invariant also says which labels  *)
(* carry the flag.  What is said of the two classifiers follows from their *)
(* arithmetic and holds of any counts.                                     *)
(***************************************************************************)
EXTENDS NodeState, TLAPS

AllLabels == Labels \cup {"none"}
RowSet == [current : AllLabels, previous : AllLabels, human : BOOLEAN]
MoveSet == [from : AllLabels, to : AllLabels, review : BOOLEAN, human : BOOLEAN]
Counts == [Kinds -> Nat]

\* What the invariant says of one node: its row r and its last audit row t.
Explained(r, t) ==
    /\ r \in RowSet /\ t \in MoveSet
    /\ t.to = r.current /\ t.from = r.previous /\ t.human = r.human
    /\ r.human <=> r.current \in HumanLabels
    /\ r.current = "quarantined" => t.review /\ t.from = "quarantine_candidate"

TablesInv ==
    /\ row \in [Nodes -> RowSet] /\ trail \in [Nodes -> MoveSet]
    /\ \A n \in Nodes : Explained(row[n], trail[n])

EvidenceInv ==
    /\ rum \in [Nodes -> Counts]
    /\ probes \in [Nodes -> Seq(BOOLEAN)]
    /\ reviews \in Nat

IInv == EvidenceInv /\ TablesInv

-----------------------------------------------------------------------------
(* Lemmas about the rows. *)

LEMMA ClassifyType ==
    ASSUME NEW n, NEW e, NEW p, NEW prev \in AllLabels
    PROVE  Classify(n, e, p, prev) \in Labels
BY DEF Classify, Held, Labels, AllLabels

\* No evidence makes a quarantined node of one that was not.
LEMMA ClassifyNoQuarantine ==
    ASSUME NEW n, NEW e, NEW p, NEW prev \in AllLabels,
           Classify(n, e, p, prev) = "quarantined"
    PROVE  prev = "quarantined"
BY DEF Classify, Held, Labels, AllLabels

\* A row and its audit row are written together.
LEMMA WriteKeeps ==
    ASSUME NEW r, NEW t, Explained(r, t), NEW label \in Labels,
           NEW review \in BOOLEAN, label # r.current,
           label = "quarantined" => review /\ r.current = "quarantine_candidate"
    PROVE  Explained(Upsert(r, label), Audit(r, label, review))
<1> DEFINE flag == label \in HumanLabels
           u == Upsert(r, label)
           a == Audit(r, label, review)
<1>1. flag \in BOOLEAN /\ (flag <=> label \in HumanLabels)
  OBVIOUS
<1>2. u = [current |-> label, previous |-> r.current, human |-> flag]
  BY DEF Upsert
<1>3. a = [from |-> r.current, to |-> label, review |-> review, human |-> flag]
  BY DEF Audit
<1>4. r.current \in AllLabels /\ label \in AllLabels
  BY DEF Explained, RowSet, AllLabels
<1> HIDE DEF flag, u, a
<1>5. u \in RowSet /\ a \in MoveSet
  BY <1>1, <1>2, <1>3, <1>4 DEF RowSet, MoveSet
<1>6. /\ u.current = label /\ u.previous = r.current /\ u.human = flag
      /\ a.to = label /\ a.from = r.current /\ a.human = flag
      /\ a.review = review
  BY <1>2, <1>3
<1>7. Explained(u, a)
  BY <1>1, <1>5, <1>6 DEF Explained
<1>8. QED
  BY <1>7 DEF u, a

\* The same label again rewrites the row as it was.
LEMMA RewriteKeeps ==
    ASSUME NEW r, NEW t, Explained(r, t)
    PROVE  Upsert(r, r.current) = r
<1>1. Upsert(r, r.current) = [current |-> r.current, previous |-> r.previous,
                              human |-> r.current \in HumanLabels]
  BY DEF Upsert
<1>2. r \in RowSet /\ r.human = (r.current \in HumanLabels)
  BY DEF Explained, RowSet
<1>3. QED
  BY <1>1, <1>2 DEF RowSet

-----------------------------------------------------------------------------
LEMMA InitIInv == Init => IInv
<1> SUFFICES ASSUME Init PROVE IInv
  OBVIOUS
<1>1. EvidenceInv
  BY DEF Init, EvidenceInv, Counts
<1>2. NoRow \in RowSet /\ NoMove \in MoveSet
  BY DEF NoRow, NoMove, RowSet, MoveSet, AllLabels
<1>3. Explained(NoRow, NoMove)
  BY <1>2 DEF NoRow, NoMove, Explained, HumanLabels
<1>4. QED
  BY <1>1, <1>2, <1>3 DEF Init, IInv, TablesInv

LEMMA ReportStep ==
    ASSUME IInv, NEW n \in Nodes, NEW k \in Kinds, Report(n, k)
    PROVE  IInv'
<1>1. rum'[n] = [rum[n] EXCEPT ![k] = @ + 1] /\ rum[n] \in Counts
  BY DEF IInv, EvidenceInv, Report
<1>2. rum'[n] \in Counts
  BY <1>1 DEF Counts
<1>3. rum' \in [Nodes -> Counts]
  BY <1>2 DEF IInv, EvidenceInv, Report
<1>4. QED
  BY <1>3 DEF IInv, EvidenceInv, TablesInv, Report

LEMMA EvidenceStep ==
    ASSUME IInv,
           \/ \E n \in Nodes, ok \in BOOLEAN : Probe(n, ok)
           \/ \E n \in Nodes : Expire(n)
           \/ NewDay
    PROVE  IInv'
<1>1. CASE \E n \in Nodes, ok \in BOOLEAN : Probe(n, ok)
  BY <1>1 DEF IInv, EvidenceInv, TablesInv, Probe
<1>2. CASE \E n \in Nodes : Expire(n)
  BY <1>2 DEF IInv, EvidenceInv, TablesInv, Expire
<1>3. CASE NewDay
  BY <1>3 DEF IInv, EvidenceInv, TablesInv, NewDay, Counts
<1>4. QED
  BY <1>1, <1>2, <1>3

LEMMA RecomputeStep == IInv /\ Recompute => IInv'
<1> SUFFICES ASSUME IInv, Recompute PROVE IInv'
  OBVIOUS
<1>1. EvidenceInv'
  BY DEF IInv, EvidenceInv, Recompute
<1>2. ASSUME NEW n \in Nodes
      PROVE  Explained(row'[n], trail'[n])
  <2>1. Explained(row[n], trail[n]) /\ row[n].current \in AllLabels
    BY DEF IInv, TablesInv, RowSet
  <2>2. Label(n) \in Labels
    BY <2>1, ClassifyType DEF Label
  <2>3. CASE n \notin Seen
    BY <2>1, <2>3 DEF Recompute, Moved
  <2>4. CASE n \in Seen /\ Label(n) = row[n].current
    <3>1. row'[n] = row[n] /\ trail'[n] = trail[n]
      BY <2>1, <2>4, RewriteKeeps DEF Recompute, Moved
    <3>2. QED
      BY <2>1, <3>1
  <2>5. CASE n \in Seen /\ Label(n) # row[n].current
    <3>1. /\ row'[n] = Upsert(row[n], Label(n))
          /\ trail'[n] = Audit(row[n], Label(n), FALSE)
      BY <2>5 DEF Recompute, Moved
    <3>2. Label(n) # "quarantined"
      BY <2>1, <2>5, ClassifyNoQuarantine DEF Label
    <3>3. QED
      BY <2>1, <2>2, <2>5, <3>1, <3>2, WriteKeeps
  <2>6. QED
    BY <2>3, <2>4, <2>5
<1>3. row' \in [Nodes -> RowSet] /\ trail' \in [Nodes -> MoveSet]
  BY <1>2 DEF Recompute, Explained
<1>4. QED
  BY <1>1, <1>2, <1>3 DEF IInv, TablesInv

\* Each decision ends in Decide with a label that is no quarantine of its own.
LEMMA DecideStep ==
    ASSUME IInv, NEW n \in Nodes, NEW label, Decide(n, label),
           label \in Labels \/ label = row[n].current,
           label = "quarantined" =>
               row[n].current \in {"quarantine_candidate", "quarantined"}
    PROVE  IInv'
<1>1. EvidenceInv'
  BY DEF IInv, EvidenceInv, Decide
<1>2. CASE label = row[n].current
  BY <1>1, <1>2 DEF IInv, TablesInv, Decide
<1>3. CASE label # row[n].current
  <2>1. /\ row' = [row EXCEPT ![n] = Upsert(@, label)]
        /\ trail' = [trail EXCEPT ![n] = Audit(row[n], label, TRUE)]
    BY <1>3 DEF Decide
  <2>2. Explained(row[n], trail[n])
    BY DEF IInv, TablesInv
  <2>3. Explained(Upsert(row[n], label), Audit(row[n], label, TRUE))
    BY <1>3, <2>2, WriteKeeps
  <2>4. /\ row'[n] = Upsert(row[n], label)
        /\ trail'[n] = Audit(row[n], label, TRUE)
        /\ \A m \in Nodes \ {n} : row'[m] = row[m] /\ trail'[m] = trail[m]
    BY <2>1 DEF IInv, TablesInv
  <2>5. \A m \in Nodes : Explained(row'[m], trail'[m])
    BY <2>3, <2>4 DEF IInv, TablesInv
  <2>6. row' \in [Nodes -> RowSet] /\ trail' \in [Nodes -> MoveSet]
    BY <2>1, <2>3 DEF IInv, TablesInv, Explained
  <2>7. QED
    BY <1>1, <2>5, <2>6 DEF IInv, TablesInv
<1>4. QED
  BY <1>2, <1>3

LEMMA ReviewStep ==
    ASSUME IInv, NEW n \in Nodes, Review(n)
    PROVE  IInv'
<1>1. CASE ApproveQuarantine(n)
  BY <1>1, DecideStep DEF ApproveQuarantine, Labels
<1>2. CASE ApproveOther(n)
  BY <1>2, DecideStep DEF ApproveOther, Labels
<1>3. CASE Reject(n)
  BY <1>3, DecideStep DEF Reject, Labels, HumanLabels
<1>4. CASE Hold(n)
  <2>1. row[n].current = "quarantined" =>
            row[n].current \in {"quarantine_candidate", "quarantined"}
    OBVIOUS
  <2>2. QED
    BY <1>4, <2>1, DecideStep DEF Hold
<1>5. QED
  BY <1>1, <1>2, <1>3, <1>4 DEF Review

LEMMA StepIInv == IInv /\ [Next]_vars => IInv'
<1> SUFFICES ASSUME IInv, [Next]_vars PROVE IInv'
  OBVIOUS
<1>1. CASE UNCHANGED vars
  BY <1>1 DEF vars, IInv, EvidenceInv, TablesInv
<1>2. CASE \E n \in Nodes, k \in Kinds : Report(n, k)
  BY <1>2, ReportStep
<1>3. CASE \/ \E n \in Nodes, ok \in BOOLEAN : Probe(n, ok)
           \/ \E n \in Nodes : Expire(n)
           \/ NewDay
  BY <1>3, EvidenceStep
<1>4. CASE \E n \in Nodes : Review(n)
  BY <1>4, ReviewStep
<1>5. CASE Recompute
  BY <1>5, RecomputeStep
<1>6. QED
  BY <1>1, <1>2, <1>3, <1>4, <1>5 DEF Next

(* The invariant holds in every reachable state. *)
THEOREM Invariance == Spec => []IInv
BY InitIInv, StepIInv, PTL DEF Spec

(***************************************************************************)
(* The tables hold what their columns allow, in any order of reports,      *)
(* probe rows, windows that move, recomputes and reviews.                  *)
(***************************************************************************)
THEOREM TypesHold == Spec => []TypeOK
<1>1. IInv => TypeOK
  BY DEF IInv, EvidenceInv, TablesInv, TypeOK, Counts, RowSet, MoveSet, AllLabels
<1>2. QED
  BY <1>1, Invariance, PTL

(***************************************************************************)
(* The audit table explains the state table: the last transition of every  *)
(* node ends in its label, starts at its previous state, has its flag.     *)
(***************************************************************************)
THEOREM AuditMatches == Spec => []AuditExplains
<1>1. IInv => AuditExplains
  BY DEF IInv, TablesInv, Explained, AuditExplains
<1>2. QED
  BY <1>1, Invariance, PTL

(***************************************************************************)
(* Only a review, from the candidate label, puts a node into quarantine,   *)
(* whatever recomputes come before and after.                              *)
(***************************************************************************)
THEOREM QuarantineNeedsReview == Spec => []QuarantineIsReviewed
<1>1. IInv => QuarantineIsReviewed
  BY DEF IInv, TablesInv, Explained, QuarantineIsReviewed
<1>2. QED
  BY <1>1, Invariance, PTL

(* The review queue holds exactly the nodes whose label waits for a human. *)
THEOREM QueueMatches == Spec => []QueueIsExact
<1>1. IInv => QueueIsExact
  BY DEF IInv, TablesInv, Explained, QueueIsExact
<1>2. QED
  BY <1>1, Invariance, PTL

-----------------------------------------------------------------------------
(* Lemmas about the two classifiers, for any counts. *)

LEMMA CountTypes ==
    ASSUME NEW e \in Counts
    PROVE  /\ \A k \in Kinds : e[k] \in Nat
           /\ Attempts(e) \in Nat /\ RealityFailures(e) \in Nat
BY DEF Counts, Kinds, TransportKinds, AiKinds, Attempts, RealityFailures

\* No rate is high and low at once.
LEMMA RatesDisjoint ==
    ASSUME NEW ok \in Nat, NEW n \in Nat, High(ok, n)
    PROVE  ~Low(ok, n)
BY DEF High, Low

\* The label settles after the second recompute over the same evidence.
LEMMA ClassifySettles ==
    ASSUME NEW n, NEW e, NEW p, NEW prev
    PROVE  LET again(s) == Classify(n, e, p, s)
           IN  again(again(again(prev))) = again(again(prev))
<1>1. CASE \/ RealityFails(n, e) \/ BothFail(e, p) \/ AiBlocked(e) \/ AiTimesOut(e)
  BY <1>1 DEF Classify
<1>2. CASE ~(\/ RealityFails(n, e) \/ BothFail(e, p) \/ AiBlocked(e) \/ AiTimesOut(e))
  <2>1. CASE Good(e)
    BY <1>2, <2>1 DEF Classify
  <2>2. CASE ~Good(e) /\ Bad(e)
    BY <1>2, <2>2 DEF Classify
  <2>3. CASE ~Good(e) /\ ~Bad(e)
    BY <1>2, <2>3 DEF Classify, Held
  <2>4. QED
    BY <2>1, <2>2, <2>3
<1>3. QED
  BY <1>1, <1>2

(***************************************************************************)
(* With the evidence unchanged two recomputes reach a label that a third   *)
(* one keeps, for every threshold and all counts.                          *)
(***************************************************************************)
THEOREM LabelsSettle == Spec => []SettlesInTwo
<1>1. SettlesInTwo
  <2> SUFFICES ASSUME NEW n \in Seen
               PROVE  LET again(prev) == Classify(n, rum[n], probes[n], prev)
                      IN  again(again(Label(n))) = again(Label(n))
    BY DEF SettlesInTwo
  <2>1. QED
    BY ClassifySettles DEF Label
<1>2. QED
  BY <1>1, PTL

\* What the dashboard shows as healthy triggers none of the bad labels.
LEMMA HealthyLabels ==
    ASSUME NEW n, NEW e \in Counts, NEW p \in Seq(BOOLEAN), NEW prev,
           Derive(n, e) = "healthy"
    PROVE  Classify(n, e, p, prev) \in {"healthy", "recovered", "ai_suspect"}
<1>1. ~AiBlocked(e) /\ ~(RealityFailures(e) >= 2 /\ n \in Vless) /\ Good(e)
  BY DEF Derive
<1>2. RealityFailures(e) \in Nat /\ e["ok"] \in Nat /\ Attempts(e) \in Nat
  BY CountTypes DEF Kinds, TransportKinds
<1>3. ~RealityFails(n, e)
  BY <1>1, <1>2, NodeStateAssumption DEF RealityFails
<1>4. ~BothFail(e, p)
  BY <1>1, <1>2, RatesDisjoint DEF BothFail, Good
<1>5. QED
  BY <1>1, <1>3, <1>4 DEF Classify

(***************************************************************************)
(* A node the dashboard shows as healthy is not sent to the review queue,  *)
(* suspected or blocked by the next recompute.  A threshold of one would   *)
(* break this: the dashboard asks for two Reality failures.                *)
(***************************************************************************)
THEOREM DashboardAgrees == Spec => []GreenAgrees
<1>1. IInv => GreenAgrees
  <2> SUFFICES ASSUME IInv, NEW n \in Seen, Shown(n) = "healthy"
               PROVE  Label(n) \in {"healthy", "recovered", "ai_suspect"}
    BY DEF GreenAgrees
  <2>1. rum[n] \in Counts /\ probes[n] \in Seq(BOOLEAN)
    BY DEF IInv, EvidenceInv, Seen
  <2>2. QED
    BY <2>1, HealthyLabels DEF Shown, Label
<1>2. QED
  BY <1>1, Invariance, PTL

(***************************************************************************)
(* "ai_blocked must NEVER escalate": without what the AI targets answered  *)
(* or left unanswered the next recompute makes a candidate of exactly the  *)
(* same nodes.  Reality failures on these targets do count.                *)
(***************************************************************************)
THEOREM AiBlocksHarmless == Spec => []AiNeverEscalates
<1>1. IInv => AiNeverEscalates
  <2> SUFFICES ASSUME IInv, NEW n \in Seen,
                      row[n].current # "quarantine_candidate"
               PROVE  LET e == [k \in Kinds |-> IF k \in AiSignals THEN 0 ELSE rum[n][k]]
                          without == Classify(n, e, probes[n], row[n].current)
                      IN  Label(n) = "quarantine_candidate"
                            <=> without = "quarantine_candidate"
    BY DEF AiNeverEscalates
  <2> DEFINE e == [k \in Kinds |-> IF k \in AiSignals THEN 0 ELSE rum[n][k]]
  <2>1. \A k \in {"ok", "failed", "timeout", "reality", "aiReality"} : e[k] = rum[n][k]
    BY DEF Kinds, TransportKinds, AiKinds, AiSignals
  <2> HIDE DEF e
  <2>2. Attempts(e) = Attempts(rum[n])
    BY <2>1 DEF Attempts
  <2>3. RealityFails(n, e) <=> RealityFails(n, rum[n])
    BY <2>1 DEF RealityFails, RealityFailures
  <2>4. BothFail(e, probes[n]) <=> BothFail(rum[n], probes[n])
    BY <2>1, <2>2 DEF BothFail
  <2>5. \A f : Classify(n, f, probes[n], row[n].current) = "quarantine_candidate"
                 <=> RealityFails(n, f) \/ BothFail(f, probes[n])
    BY DEF Classify, Held
  <2>6. QED
    BY <2>3, <2>4, <2>5 DEF Label, e
<1>2. QED
  BY <1>1, Invariance, PTL
=============================================================================
