--------------------------- MODULE ProbeRun_proofs ---------------------------
(***************************************************************************)
(* What a run of probe_nodes.py keeps for any group, targets, number of    *)
(* rounds, runs and signals, each landing before any step: what a run that *)
(* ended leaves behind, what a PASSED in the directory is worth, and that  *)
(* the summary divides by everything that was tried.                       *)
(***************************************************************************)
EXTENDS ProbeRun, FiniteSetTheorems, SequenceTheorems, TLAPS

-----------------------------------------------------------------------------
(***************************************************************************)
(* Processes and files.  LeavesNothing speaks of the run that just ended;  *)
(* it is kept because every step of a run says what is up and on disk, and *)
(* PassedIsClean because the runs before it ended the same way.            *)
(***************************************************************************)
Cut(r, where) == <<r, where>> \in cut

MayBeUp   == {"register", "waiting", "probing", "stopping"}
HasConfig == {"validate", "launch", "redact", "cleanup"} \cup MayBeUp

LeftInv ==
    /\ run \in Nat \ {0}
    /\ alive \subseteq 1 .. run /\ configs \subseteq 1 .. run
    /\ pc \in {"waiting", "probing", "stopping"} => active
    /\ \A r \in alive : Cut(r, "register") \/ (r = run /\ pc \in MayBeUp)
    /\ run \in configs => pc \in HasConfig \/ Cut(run, "cleanup")

AuditInv ==
    /\ audit.run \in Nat /\ audit.run <= run
    /\ audit.run = run => pc = "ended"
    /\ PassedIsClean

LEMMA LeftInit == Init => LeftInv /\ AuditInv
  BY DEF Init, LeftInv, AuditInv, NoAudit, PassedIsClean

LEMMA LeftStep == LeftInv /\ [Next]_vars => LeftInv'
<1> SUFFICES ASSUME LeftInv, [Next]_vars PROVE LeftInv'
  OBVIOUS
<1> USE DEF LeftInv, Cut, MayBeUp, HasConfig, files, probing
<1>1. CASE Resolve \/ Validate
  BY <1>1 DEF Resolve, Validate, Exit
<1>2. CASE WriteConfig
  <2>1. /\ pc = "config" /\ pc' \in {"validate", "cleanup"}
        /\ UNCHANGED <<run, alive, active, cut>>
        /\ configs' \in {configs, configs \cup {run}}
    BY <1>2 DEF WriteConfig, Exit
  <2>2. configs' \subseteq 1 .. run'
    BY <2>1
  <2> QED BY <2>1, <2>2
<1>3. CASE StartMihomo
  BY <1>3 DEF StartMihomo
<1>4. CASE SetActive
  BY <1>4 DEF SetActive
<1>5. CASE Ready \/ NotReady
  BY <1>5 DEF Ready, NotReady, Exit
<1>6. CASE Ask
  BY <1>6 DEF Ask, GroupDelay, AskAi
<1>7. CASE Summarise
  BY <1>7 DEF Summarise
<1>8. CASE StopMihomo
  BY <1>8 DEF StopMihomo
<1>9. CASE RedactLog \/ CleanUp
  BY <1>9 DEF RedactLog, CleanUp
<1>10. CASE AuditArtifacts
  BY <1>10 DEF AuditArtifacts, Exit
<1>11. CASE Signal
  BY <1>11 DEF Signal, Exit, Unwinds
<1>12. CASE NewRun
  BY <1>12 DEF NewRun
<1>13. ASSUME NEW n \in Secrets, LogLine(n) PROVE LeftInv'
  BY <1>13 DEF LogLine
<1>14. ASSUME NEW r \in alive, MihomoDies(r) PROVE LeftInv'
  BY <1>14 DEF MihomoDies
<1>15. CASE UNCHANGED vars
  BY <1>15 DEF vars
<1> QED
  BY <1>1, <1>2, <1>3, <1>4, <1>5, <1>6, <1>7, <1>8, <1>9, <1>10, <1>11, <1>12,
     <1>13, <1>14, <1>15 DEF Next, Main

\* Once a run has written PASSED it is over, and the only mihomo that may still
\* write into the log is one that a signal between Popen and _set_active left.
LEMMA AuditStep == LeftInv /\ AuditInv /\ [Next]_vars => AuditInv'
<1> SUFFICES ASSUME LeftInv, AuditInv, [Next]_vars PROVE AuditInv'
  OBVIOUS
<1> USE DEF LeftInv, AuditInv, PassedIsClean, Cut, files, probing
<1>1. ASSUME pc # "ended", UNCHANGED <<run, audit>> PROVE AuditInv'
  BY <1>1
<1>2. CASE AuditArtifacts
  BY <1>2 DEF AuditArtifacts, Exit, Verdict, Tokens
<1>3. CASE NewRun
  BY <1>3 DEF NewRun
<1>4. ASSUME NEW n \in Secrets, LogLine(n) PROVE AuditInv'
  <2>1. CASE pc = "ended"
    <3>1. PICK r \in alive : TRUE
      BY <1>4 DEF LogLine
    <3>2. r \in 1 .. run /\ Cut(r, "register")
      BY <2>1, <3>1 DEF MayBeUp
    <3> QED BY <1>4, <3>2 DEF LogLine
  <2> QED BY <1>1, <1>4, <2>1 DEF LogLine
<1>5. ASSUME NEW r \in alive, MihomoDies(r) PROVE AuditInv'
  BY <1>5 DEF MihomoDies
<1>6. CASE UNCHANGED vars
  BY <1>6 DEF vars
<1>7. CASE Main \/ Signal
  <2>1. CASE AuditArtifacts
    BY <1>2, <2>1
  <2>2. CASE ~AuditArtifacts
    <3>1. pc # "ended" /\ UNCHANGED <<run, audit>>
      BY <1>7, <2>2
      DEF Main, Resolve, WriteConfig, Validate, StartMihomo, SetActive, Ready,
          NotReady, Ask, GroupDelay, AskAi, Probing, Summarise, StopMihomo,
          RedactLog, CleanUp, Signal
    <3> QED BY <1>1, <3>1
  <2> QED BY <2>1, <2>2
<1> QED
  BY <1>3, <1>4, <1>5, <1>6, <1>7 DEF Next

-----------------------------------------------------------------------------
(***************************************************************************)
(* The samples.  While a run probes, what it has counted for a target is a *)
(* number of rounds times the number of names that share a fingerprint.    *)
(***************************************************************************)
All == NonAiTargets \o AiTargets
Places == 1 .. Len(All)

\* Whom a target is tried for, and how many of them have one fingerprint.
Asked(i) == IF i <= Len(NonAiTargets) THEN Members ELSE AiNodes
Of(f, s) == Cardinality({m \in s : Fp[m] = f})

\* The rounds that have sampled the target at place i.
Sampled(i) ==
    IF i > Len(NonAiTargets) /\ round > AiRounds THEN AiRounds
    ELSE IF i < at THEN round ELSE round - 1

Counts == [attempts : Nat, ok : Nat, refused : Nat]

CountInv ==
    /\ tally \in [Prints -> [Targets -> Counts]]
    /\ \A f \in Prints, t \in Targets : tally[f][t].ok <= tally[f][t].attempts
    /\ round \in Nat \ {0} /\ round <= Rounds + 1
    /\ at \in Nat \ {0} /\ at <= Len(Turn)
    /\ round > Rounds => at = 1
    /\ pc # "probing" => tally = NoSamples /\ round = 1 /\ at = 1
    /\ \A f \in Prints, i \in Places :
           tally[f][All[i]].attempts = Sampled(i) * Of(f, Asked(i))

LEMMA AllFacts ==
    /\ Len(NonAiTargets) \in Nat \ {0} /\ Len(AiTargets) \in Nat
    /\ Len(All) = Len(NonAiTargets) + Len(AiTargets)
    /\ DOMAIN All = Places
    /\ \A i \in Places : /\ All[i] \in Targets
                         /\ i <= Len(NonAiTargets) => All[i] = NonAiTargets[i]
                         /\ i > Len(NonAiTargets) =>
                                All[i] = AiTargets[i - Len(NonAiTargets)]
    /\ \A i, j \in Places : All[i] = All[j] => i = j
    /\ \A t \in Targets : \E i \in Places : t = All[i]
    /\ \A i \in Places : All[i] \in Elements(AiTargets) <=> i > Len(NonAiTargets)
<1> USE TargetsAssumption DEF All, Places
<1>1. /\ Len(NonAiTargets) \in Nat \ {0} /\ Len(AiTargets) \in Nat
      /\ DOMAIN NonAiTargets = 1 .. Len(NonAiTargets)
      /\ DOMAIN AiTargets = 1 .. Len(AiTargets)
  BY EmptySeq, LenProperties
<1>2. /\ Len(All) = Len(NonAiTargets) + Len(AiTargets) /\ DOMAIN All = Places
      /\ \A i \in Places : All[i] = IF i <= Len(NonAiTargets) THEN NonAiTargets[i]
                                    ELSE AiTargets[i - Len(NonAiTargets)]
  BY <1>1
<1>3. \A i, j \in Places : All[i] = All[j] => i = j
  BY <1>2
<1>4. \A i \in Places : All[i] \in Targets
  BY <1>1, <1>2 DEF Targets, Elements
<1>5. ASSUME NEW k \in DOMAIN AiTargets
      PROVE  Len(NonAiTargets) + k \in Places
             /\ All[Len(NonAiTargets) + k] = AiTargets[k]
  BY <1>1, <1>2, <1>5
<1>6. \A t \in Targets : \E i \in Places : t = All[i]
  <2>1. ASSUME NEW k \in DOMAIN NonAiTargets
        PROVE  k \in Places /\ All[k] = NonAiTargets[k]
    BY <1>1, <1>2, <2>1
  <2> QED BY <1>5, <2>1 DEF Targets, Elements
<1>7. ASSUME NEW i \in Places
      PROVE  All[i] \in Elements(AiTargets) <=> i > Len(NonAiTargets)
  <2>1. CASE i > Len(NonAiTargets)
    BY <1>1, <1>2, <2>1 DEF Elements
  <2>2. ASSUME NEW k \in DOMAIN AiTargets, All[i] = AiTargets[k]
        PROVE  i > Len(NonAiTargets)
    <3>1. i = Len(NonAiTargets) + k
      BY <1>3, <1>5, <2>2
    <3> QED BY <1>1, <3>1
  <2> QED BY <2>1, <2>2 DEF Elements
<1>8. \A i \in Places :
         /\ i <= Len(NonAiTargets) => All[i] = NonAiTargets[i]
         /\ i > Len(NonAiTargets) => All[i] = AiTargets[i - Len(NonAiTargets)]
  <2>1. \A i \in Places : i > Len(NonAiTargets) => ~(i <= Len(NonAiTargets))
    BY <1>1, <1>2
  <2> HIDE DEF All
  <2> QED BY <1>2, <2>1
<1> HIDE DEF All, Places
<1> QED BY <1>1, <1>2, <1>3, <1>4, <1>6, <1>7, <1>8

LEMMA TurnFacts ==
    ASSUME round \in Nat
    PROVE  /\ Len(Turn) = IF round <= AiRounds THEN Len(All)
                                               ELSE Len(NonAiTargets)
           /\ \A i \in 1 .. Len(Turn) : i \in Places /\ Turn[i] = All[i]
<1> USE TargetsAssumption, AllFacts DEF Turn
<1>1. CASE round <= AiRounds
  BY <1>1 DEF All, Places
<1>2. CASE ~(round <= AiRounds)
  <2>1. Turn = NonAiTargets
    BY <1>2, EmptySeq, ConcatEmptySeq
  <2>2. Len(NonAiTargets) <= Len(All)
    OBVIOUS
  <2> QED BY <1>2, <2>1, <2>2 DEF Places
<1> QED BY <1>1, <1>2

LEMMA OfFacts ==
    ASSUME NEW s \in SUBSET Members, NEW f
    PROVE  Of(f, s) \in Nat /\ \A o \in SUBSET s : Of(f, o) \in Nat
                                                   /\ Of(f, o) <= Of(f, s)
<1>1. ASSUME NEW o \in SUBSET s
      PROVE  Of(f, o) \in Nat /\ Of(f, o) <= Of(f, s) /\ Of(f, s) \in Nat
  <2>1. /\ IsFiniteSet({m \in s : Fp[m] = f})
        /\ {m \in o : Fp[m] = f} \subseteq {m \in s : Fp[m] = f}
    BY TargetsAssumption, FS_Subset
  <2> QED BY <2>1, FS_Subset, FS_CardinalityType DEF Of
<1> QED BY <1>1

\* One more round.
LEMMA OneMore == ASSUME NEW n \in Nat, NEW c \in Nat PROVE (n + 1) * c = n * c + c
  OBVIOUS

\* A request at the place of the turn is counted there and nowhere else.
LEMMA CountStep ==
    ASSUME CountInv, Probing, NEW ok \in SUBSET Asked(at), NEW refused \in SUBSET ok,
           Count(Turn[at], Asked(at), ok, refused), Advance, UNCHANGED pc
    PROVE  CountInv'
<1> DEFINE t0 == All[at]
           New(f) == [attempts |-> tally[f][t0].attempts + Of(f, Asked(at)),
                      ok       |-> tally[f][t0].ok + Of(f, ok),
                      refused  |-> tally[f][t0].refused + Of(f, refused)]
<1>1. /\ round \in Nat \ {0} /\ round <= Rounds /\ Rounds \in Nat
      /\ AiRounds \in Nat /\ at \in 1 .. Len(Turn) /\ Len(Turn) \in Nat
      /\ at \in Places /\ Turn[at] = t0 /\ t0 \in Targets
  <2>1. round \in Nat \ {0} /\ round <= Rounds /\ at \in Nat \ {0} /\ at <= Len(Turn)
    BY DEF CountInv, Probing
  <2>2. Len(Turn) \in Nat
    BY <2>1, TurnFacts, AllFacts, ProbeRunAssumption
  <2> QED BY <2>1, <2>2, TurnFacts, AllFacts, ProbeRunAssumption
<1>2. ASSUME NEW f \in Prints
      PROVE  /\ tally'[f] = [tally[f] EXCEPT ![t0] = New(f)]
             /\ New(f) \in Counts /\ New(f).ok <= New(f).attempts
  <2>1. Asked(at) \in SUBSET Members
    BY ProbeRunAssumption DEF Asked
  <2>2. /\ Of(f, Asked(at)) \in Nat /\ Of(f, ok) \in Nat /\ Of(f, refused) \in Nat
        /\ Of(f, ok) <= Of(f, Asked(at))
    BY <2>1, OfFacts
  <2>3. tally[f][t0] \in Counts /\ tally[f][t0].ok <= tally[f][t0].attempts
    BY <1>1 DEF CountInv
  <2>4. New(f) \in Counts /\ New(f).ok <= New(f).attempts
    BY <2>2, <2>3 DEF Counts
  <2>5. tally'[f] = [tally[f] EXCEPT ![t0] = New(f)]
    BY <1>1 DEF Count, Of, CountInv
  <2> QED BY <2>4, <2>5
<1>0. \A f \in Prints :
         /\ tally[f] \in [Targets -> Counts]
         /\ \A t \in Targets : tally[f][t].ok <= tally[f][t].attempts
  BY DEF CountInv
<1>3. /\ tally' \in [Prints -> [Targets -> Counts]]
      /\ \A f \in Prints, t \in Targets : tally'[f][t].ok <= tally'[f][t].attempts
  <2>1. tally' = [f \in Prints |-> tally'[f]]
    BY DEF Count
  <2>2. ASSUME NEW f \in Prints
        PROVE  /\ tally'[f] \in [Targets -> Counts]
               /\ \A t \in Targets : tally'[f][t].ok <= tally'[f][t].attempts
    <3> DEFINE n == New(f)
    <3>1. tally'[f] = [tally[f] EXCEPT ![t0] = n] /\ n \in Counts /\ n.ok <= n.attempts
      BY <1>2
    <3> HIDE DEF n
    <3> QED BY <1>0, <1>1, <3>1
  <2> QED BY <2>1, <2>2
<1>4. /\ round' \in Nat \ {0} /\ round' <= Rounds + 1
      /\ at' \in Nat \ {0} /\ at' <= Len(Turn)'
      /\ round' > Rounds => at' = 1
  <2>1. CASE at < Len(Turn)
    BY <1>1, <2>1 DEF Advance, Turn
  <2>2. CASE ~(at < Len(Turn))
    <3>1. round' = round + 1 /\ at' = 1
      BY <2>2 DEF Advance
    <3>2. Len(Turn)' = IF round' <= AiRounds THEN Len(All) ELSE Len(NonAiTargets)
      BY <1>1, <3>1, AllFacts, TargetsAssumption, EmptySeq, ConcatEmptySeq
      DEF Turn, All
    <3> QED BY <1>1, <3>1, <3>2, AllFacts
  <2> QED BY <2>1, <2>2
<1>5. ASSUME NEW i \in Places
      PROVE  /\ Sampled(i) \in Nat
             /\ Sampled(i)' = IF i = at THEN Sampled(i) + 1 ELSE Sampled(i)
  <2>1. /\ i \in 1 .. Len(All) /\ Len(NonAiTargets) \in Nat
        /\ Len(All) \in Nat
        /\ Len(Turn) = IF round <= AiRounds THEN Len(All) ELSE Len(NonAiTargets)
    BY <1>1, TurnFacts, AllFacts DEF Places
  <2>2. CASE at < Len(Turn)
    BY <1>1, <2>1, <2>2 DEF Advance, Sampled
  <2>3. CASE at = Len(Turn)
    BY <1>1, <2>1, <2>3 DEF Advance, Sampled
  <2> QED BY <1>1, <2>2, <2>3
<1>6. ASSUME NEW f \in Prints, NEW i \in Places
      PROVE  tally'[f][All[i]].attempts = Sampled(i)' * Of(f, Asked(i))
  <2>1. Of(f, Asked(i)) \in Nat
    BY OfFacts, ProbeRunAssumption DEF Asked
  <2>2. tally[f][All[i]].attempts = Sampled(i) * Of(f, Asked(i))
    BY DEF CountInv
  <2>3. CASE i = at
    <3>1. tally'[f][All[i]].attempts = tally[f][All[i]].attempts + Of(f, Asked(i))
      <4> DEFINE n == New(f)
      <4>1. tally'[f] = [tally[f] EXCEPT ![t0] = n]
        BY <1>2
      <4>2. n.attempts = tally[f][t0].attempts + Of(f, Asked(at))
        OBVIOUS
      <4> HIDE DEF n
      <4> QED BY <1>0, <1>1, <2>3, <4>1, <4>2
    <3> QED BY <1>5, <2>1, <2>2, <2>3, <3>1, OneMore
  <2>4. CASE i # at
    <3>1. All[i] # t0 /\ All[i] \in Targets
      BY <1>1, <2>4, AllFacts
    <3>2. tally'[f][All[i]] = tally[f][All[i]]
      BY <1>0, <1>1, <1>2, <3>1
    <3> QED BY <1>5, <2>2, <2>4, <3>2
  <2> QED BY <2>3, <2>4
<1>7. pc' = "probing"
  BY DEF Probing
<1> QED BY <1>3, <1>4, <1>6, <1>7 DEF CountInv, Asked

\* Before and after a run probes there are no samples.
LEMMA CountFresh ==
    tally = NoSamples /\ round = 1 /\ at = 1 => CountInv
<1> SUFFICES ASSUME tally = NoSamples, round = 1, at = 1 PROVE CountInv
  OBVIOUS
<1>1. Rounds \in Nat /\ AiRounds \in Nat
  BY ProbeRunAssumption
<1>2. Len(Turn) \in Nat \ {0}
  BY TurnFacts, AllFacts
<1>3. /\ tally \in [Prints -> [Targets -> Counts]]
      /\ \A f \in Prints, t \in Targets :
             tally[f][t].ok = 0 /\ tally[f][t].attempts = 0
  BY DEF NoSamples, Counts
<1>4. ASSUME NEW f \in Prints, NEW i \in Places
      PROVE  tally[f][All[i]].attempts = Sampled(i) * Of(f, Asked(i))
  <2>1. Sampled(i) = 0
    BY <1>1 DEF Sampled, Places
  <2>2. Of(f, Asked(i)) \in Nat
    BY OfFacts, ProbeRunAssumption DEF Asked
  <2>3. tally[f][All[i]].attempts = 0
    BY <1>3, AllFacts
  <2> QED BY <2>1, <2>2, <2>3
<1> QED BY <1>1, <1>2, <1>3, <1>4 DEF CountInv

LEMMA CountKeeps == CountInv /\ [Next]_vars => CountInv'
<1> SUFFICES ASSUME CountInv, [Next]_vars PROVE CountInv'
  OBVIOUS
<1> USE DEF files, probing
<1>1. ASSUME UNCHANGED probing, pc = "probing" => pc' = "probing"
      PROVE  CountInv'
  BY <1>1 DEF CountInv, Sampled, Turn
<1>2. CASE Forget
  <2>1. (tally = NoSamples /\ round = 1 /\ at = 1 => CountInv)'
    BY CountFresh, PTL
  <2> QED BY <1>2, <2>1 DEF Forget
<1>3. ASSUME NEW ok \in SUBSET Members, GroupDelay(ok) PROVE CountInv'
  <2>1. Asked(at) = Members
    BY <1>3 DEF Asked, GroupDelay
  <2> QED BY <1>3, <2>1, CountStep DEF GroupDelay
<1>4. ASSUME NEW answer \in [AiNodes -> Answers], AskAi(answer) PROVE CountInv'
  <2>1. Asked(at) = AiNodes
    <3>1. at \in Nat /\ Len(NonAiTargets) \in Nat
      BY AllFacts DEF CountInv
    <3> QED BY <1>4, <3>1 DEF Asked, AskAi
  <2> DEFINE ok == {m \in AiNodes : GotThrough(answer[m])}
  <2> QED BY <1>4, <2>1, CountStep DEF AskAi
<1>5. CASE Summarise \/ Signal
  BY <1>2, <1>5 DEF Summarise, Signal
<1>6. CASE Main /\ ~Ask /\ ~Summarise
  BY <1>1, <1>6
  DEF Main, Resolve, WriteConfig, Validate, StartMihomo, SetActive, Ready,
      NotReady, StopMihomo, RedactLog, CleanUp, AuditArtifacts, Exit
<1>7. CASE NewRun \/ UNCHANGED vars
  BY <1>1, <1>7 DEF NewRun, vars
<1>8. ASSUME NEW n \in Secrets, LogLine(n) PROVE CountInv'
  BY <1>1, <1>8 DEF LogLine
<1>9. ASSUME NEW r \in alive, MihomoDies(r) PROVE CountInv'
  BY <1>1, <1>9 DEF MihomoDies
<1> QED
  BY <1>3, <1>4, <1>5, <1>6, <1>7, <1>8, <1>9 DEF Next, Main, Ask

\* What the last round leaves is what was tried.
LEMMA SummaryStep == CountInv /\ EveryProbeCounts /\ [Next]_vars => EveryProbeCounts'
<1> SUFFICES ASSUME CountInv, EveryProbeCounts, [Next]_vars PROVE EveryProbeCounts'
  OBVIOUS
<1> USE DEF files
<1>1. CASE UNCHANGED summary
  BY <1>1 DEF EveryProbeCounts, Tried
<1>2. CASE Summarise
  <2>1. summary'.counts = tally
    BY <1>2 DEF Summarise
  <2>2. /\ Rounds \in Nat /\ AiRounds \in Nat
        /\ round = Rounds + 1 /\ at = 1
    BY <1>2, ProbeRunAssumption DEF Summarise, CountInv
  <2>3. ASSUME NEW f \in Prints, NEW t \in Targets
        PROVE  tally[f][t].attempts = Tried(f, t)
    <3>1. PICK i \in Places : t = All[i]
      BY AllFacts
    <3>2. tally[f][t].attempts = Sampled(i) * Of(f, Asked(i))
      BY <3>1 DEF CountInv
    <3>3. i \in Nat \ {0} /\ Len(NonAiTargets) \in Nat
      BY AllFacts DEF Places
    <3>4. t \in Elements(AiTargets) <=> i > Len(NonAiTargets)
      BY <3>1, AllFacts
    <3>5. CASE t \in Elements(AiTargets)
      <4>1. Sampled(i) = IF AiRounds < Rounds THEN AiRounds ELSE Rounds
        BY <2>2, <3>3, <3>4, <3>5 DEF Sampled
      <4>2. Asked(i) = AiNodes
        BY <3>3, <3>4, <3>5 DEF Asked
      <4> QED BY <3>2, <3>5, <4>1, <4>2 DEF Of, Tried
    <3>6. CASE t \notin Elements(AiTargets)
      <4>1. Sampled(i) = Rounds
        BY <2>2, <3>3, <3>4, <3>6 DEF Sampled
      <4>2. Asked(i) = Members
        BY <3>3, <3>4, <3>6 DEF Asked
      <4> QED BY <3>2, <3>6, <4>1, <4>2 DEF Of, Tried
    <3> QED BY <3>5, <3>6
  <2>4. \A f \in Prints, t \in Targets : tally[f][t].ok <= tally[f][t].attempts
    BY DEF CountInv
  <2> QED BY <2>1, <2>3, <2>4 DEF EveryProbeCounts, Tried
<1>3. Summarise \/ UNCHANGED summary
  BY DEF Next, Main, Ask, Resolve, WriteConfig, Validate, StartMihomo, SetActive,
         Ready, NotReady, GroupDelay, AskAi, StopMihomo, RedactLog, CleanUp,
         AuditArtifacts, Exit, Signal, NewRun, LogLine, MihomoDies, vars
<1> QED BY <1>1, <1>2, <1>3

-----------------------------------------------------------------------------
\* A run that ended leaves neither its mihomo nor its config, but after a signal
\* between Popen and _set_active and after one in the clean-up (main's finally
\* blocks and the handler).
THEOREM RunLeavesNothing == Spec => []LeavesNothing
<1>1. LeftInv => LeavesNothing
  BY DEF LeftInv, Cut, MayBeUp, HasConfig, LeavesNothing
<1> QED BY <1>1, LeftInit, LeftStep, PTL DEF Spec

\* Once a run wrote PASSED no secret of a probed node is in the log, nor comes
\* into it later, unless a run was cut between Popen and _set_active.
THEOREM PassedStaysClean == Spec => []PassedIsClean
<1>1. AuditInv => PassedIsClean
  BY DEF AuditInv
<1> QED BY <1>1, LeftInit, LeftStep, AuditStep, PTL DEF Spec

\* The summary divides by everything that was tried: with a dead mihomo, failed
\* requests and failed switches, each target has one attempt per round it was
\* due in and name that shares the fingerprint, and no more successes than that.
THEOREM SummaryCountsAll == Spec => []EveryProbeCounts
<1>1. Init => CountInv /\ EveryProbeCounts
  BY CountFresh DEF Init, EveryProbeCounts
<1> QED BY <1>1, CountKeeps, SummaryStep, PTL DEF Spec
=============================================================================
