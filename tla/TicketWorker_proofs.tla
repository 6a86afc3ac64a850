-------------------------- MODULE TicketWorker_proofs --------------------------
(***************************************************************************)
(* What the ticket worker keeps for any number of tickets, messages,       *)
(* answers and faults, and any size of the batch: one answer to a message, *)
(* closing for a reason, and the reasons for which a message is forgotten. *)
(***************************************************************************)
EXTENDS TicketWorker, FiniteSetTheorems, SequenceTheorems, WellFoundedInduction, TLAPS

Msg == [ticket : Tickets, from : {"user", "human", "ai"}, class : Classes,
        seen : BOOLEAN, re : Nat]

Typed ==
  /\ msgs \in Seq(Msg)
  /\ tickets \in [Tickets -> [open : BOOLEAN, replied : BOOLEAN]]
  /\ cursor \in 0 .. Len(msgs) /\ started \in BOOLEAN
  /\ inFlight \subseteq Tickets /\ closeSet \subseteq Tickets
  /\ pending \subseteq Ids /\ replies \subseteq Ids
  /\ handed \subseteq Ids /\ excused \subseteq Ids

\* nobody has answered message i
Unanswered(i) == \A k \in Ids : msgs[k].re # i

\* An answer of the worker is the only one to an earlier message of its ticket,
\* which it took.
AnswersInv ==
  /\ \A k \in Ids : msgs[k].from = "ai" <=> msgs[k].re # 0
  /\ \A k \in Ids : msgs[k].re # 0 =>
       /\ msgs[k].re \in handed /\ msgs[k].re < k
       /\ msgs[msgs[k].re].ticket = msgs[k].ticket
  /\ \A k, l \in Ids : msgs[k].re # 0 /\ msgs[k].re = msgs[l].re => k = l

\* What a run holds is taken, below the cursor and not answered yet.
TakenInv ==
  /\ phase # "triage" => pending = {}
  /\ phase # "write" => replies = {}
  /\ \A i \in pending \cup replies :
       started /\ i \in handed /\ i <= cursor /\ Unanswered(i)

\* A ticket in flight has a message that was taken and is not answered.
FlightInv ==
  \A t \in inFlight :
    started /\ \E j \in handed : j <= cursor /\ msgs[j].ticket = t /\ Unanswered(j)

\* A ticket to be closed has a message that asked for what closes one.
CloseInv ==
  \A t \in closeSet : \E i \in handed : msgs[i].ticket = t /\ msgs[i].class = "closing"

\* In a ticket that is marked as answered every visible question has an answer
\* after it.
RepliedInv ==
  \A i \in Ids :
    FromUser(i) /\ Seen(i) /\ tickets[msgs[i].ticket].replied => AnswerAfter(i)

\* A message nobody has taken and nobody may still help: no person answered
\* later.
Lone(i) ==
  /\ FromUser(i) /\ Seen(i) /\ i \notin handed /\ tickets[msgs[i].ticket].open
  /\ ~\E j \in Ids : j > i /\ msgs[j].ticket = msgs[i].ticket /\ msgs[j].from = "human"
Reason(i) ==
  \/ i \in excused
  \/ \E j \in handed :
       /\ j < i /\ msgs[j].ticket = msgs[i].ticket
       /\ \A k \in Ids : msgs[k].re = j => i < k
Passed(i) == started /\ i <= cursor

\* LossExplained with a premise that steps keep: an answer after the message
\* instead of the mark of its ticket.
LossInv == \A i \in Ids : Lone(i) /\ (Passed(i) \/ AnswerAfter(i)) => Reason(i)

WorkInv == Typed /\ AnswersInv /\ TakenInv /\ FlightInv /\ CloseInv
IInv == WorkInv /\ RepliedInv /\ LossInv

-----------------------------------------------------------------------------
(* The ends of sets of positions. *)

LEMMA Least ==
    ASSUME NEW S \in SUBSET Nat, S # {}
    PROVE  Min(S) \in S /\ \A x \in S : Min(S) <= x
<1>1. PICK x \in S : \A y \in S : <<y, x>> \notin OpToRel(<, Nat)
  BY NatLessThanWellFounded, WFMin
<1>2. \A y \in S : ~(y < x)
  BY <1>1 DEF OpToRel
<1>3. \E z \in S : \A y \in S : z =< y
  BY <1>2
<1> QED BY <1>3 DEF Min

LEMMA Greatest ==
    ASSUME NEW n \in Nat, NEW S \in SUBSET (0 .. n), S # {}
    PROVE  Max(S) \in S /\ \A x \in S : x <= Max(S)
<1> DEFINE R == {n - x : x \in S}
<1>1. R \in SUBSET Nat /\ R # {}
  <2>1. \A x \in S : x \in 0 .. n /\ n - x \in Nat
    OBVIOUS
  <2>2. PICK x \in S : TRUE
    OBVIOUS
  <2>3. n - x \in R
    BY <2>2
  <2> QED BY <2>1, <2>3
<1>2. Min(R) \in R /\ \A y \in R : Min(R) <= y
  BY <1>1, Least
<1>3. PICK m \in S : Min(R) = n - m
  BY <1>2
<1>4. \A x \in S : n - m <= n - x
  BY <1>2, <1>3
<1>5. \E z \in S : \A y \in S : z >= y
  BY <1>4
<1> QED BY <1>5 DEF Max

\* A batch is what waits above the cursor, up to its greatest member.
LEMMA BatchFacts ==
    ASSUME Typed, NEW from \in Nat
    PROVE  /\ \A i \in Batch(from) : i \in Ids /\ i > from /\ Waiting(i)
           /\ \A i \in Ids, b \in Batch(from) :
                i > from /\ i <= b /\ Waiting(i) => i \in Batch(from)
           /\ Batch(from) # {} =>
                /\ Max(Batch(from)) \in Batch(from)
                /\ \A i \in Batch(from) : i <= Max(Batch(from))
<1> DEFINE found == {i \in Ids : i > from /\ Waiting(i)}
<1>1. Len(msgs) \in Nat /\ Ids = 1 .. Len(msgs) /\ IsFiniteSet(Ids)
  BY FS_Interval DEF Typed, Ids
<1>2. \A i \in Batch(from) : i \in Ids /\ i > from /\ Waiting(i)
  BY DEF Batch
<1>3. ASSUME NEW i \in Ids, NEW b \in Batch(from), i > from, i <= b, Waiting(i)
      PROVE  i \in Batch(from)
  <2> DEFINE upTo(x) == {j \in found : j <= x}
  <2>1. upTo(i) \subseteq upTo(b) /\ upTo(b) \subseteq Ids
    BY <1>1, <1>2, <1>3
  <2>2. /\ Cardinality(upTo(i)) <= Cardinality(upTo(b))
        /\ Cardinality(upTo(i)) \in Nat /\ Cardinality(upTo(b)) \in Nat
    BY <1>1, <2>1, FS_Subset, FS_CardinalityType
  <2>3. Cardinality(upTo(b)) <= BatchSize
    BY DEF Batch
  <2>4. Cardinality(upTo(i)) <= BatchSize
    BY <2>2, <2>3, TicketAssumption
  <2> QED BY <1>3, <2>4 DEF Batch
<1>4. Batch(from) \in SUBSET (0 .. Len(msgs))
  BY <1>1, <1>2
<1> QED BY <1>1, <1>2, <1>3, <1>4, Greatest

\* Where a new process begins nothing that waits is passed.
LEMMA StartFacts ==
    ASSUME Typed
    PROVE  /\ StartAt \in 0 .. Len(msgs)
           /\ FirstId > 1 => \A i \in Ids : i <= StartAt => ~Waiting(i)
<1> DEFINE waiting == {i \in Ids : Waiting(i)}
           below == IF waiting = {} THEN 0 ELSE Min(waiting) - 1
           visible == {0} \cup {i \in Ids : Seen(i)}
<1>1. Len(msgs) \in Nat /\ Ids = 1 .. Len(msgs)
  BY DEF Typed, Ids
<1>2. Max(visible) \in 0 .. Len(msgs)
  <2>1. visible \in SUBSET (0 .. Len(msgs)) /\ visible # {}
    BY <1>1
  <2> QED BY <1>1, <2>1, Greatest
<1>3. StartAt = IF waiting = {} \/ below + FirstId - 1 = 0 THEN Max(visible) ELSE below
  BY DEF StartAt
<1>4. CASE waiting = {}
  BY <1>2, <1>3, <1>4
<1>5. CASE waiting # {}
  <2>1. waiting \in SUBSET Nat
    BY <1>1
  <2>2. Min(waiting) \in waiting /\ \A i \in waiting : Min(waiting) <= i
    BY <1>5, <2>1, Least
  <2>3. below \in 0 .. Len(msgs) /\ \A i \in waiting : below < i
    <3>1. below = Min(waiting) - 1
      BY <1>5
    <3>2. Min(waiting) \in 1 .. Len(msgs)
      BY <1>1, <2>2
    <3>3. \A i \in waiting : i \in Int /\ Min(waiting) <= i
      BY <1>1, <2>2
    <3> HIDE DEF below, waiting
    <3> QED BY <1>1, <3>1, <3>2, <3>3
  <2>4. FirstId > 1 => below + FirstId - 1 # 0
    BY <2>3, TicketAssumption
  <2> HIDE DEF below, waiting, visible
  <2>5. StartAt \in 0 .. Len(msgs)
    BY <1>2, <1>3, <2>3
  <2>6. FirstId > 1 => StartAt = below
    BY <1>3, <1>5, <2>4
  <2>7. ASSUME NEW i \in Ids, FirstId > 1, i <= StartAt PROVE ~Waiting(i)
    BY <1>1, <2>3, <2>6, <2>7 DEF waiting
  <2> QED BY <2>5, <2>7
<1> QED BY <1>4, <1>5

-----------------------------------------------------------------------------
(* What a step does to the messages. *)

\* a message stays what it is, but for becoming visible
Kept ==
  \A i \in Ids :
    /\ i \in Ids'
    /\ msgs'[i].ticket = msgs[i].ticket /\ msgs'[i].from = msgs[i].from
    /\ msgs'[i].class = msgs[i].class /\ msgs'[i].re = msgs[i].re
    /\ msgs[i].seen => msgs'[i].seen

\* the panel's three ways to add a row
PanelWrites ==
  \E t \in Tickets : (\E class \in Classes : Post(t, class)) \/ PostSlowly(t) \/ HumanReply(t)

LEMMA TypedFacts ==
    ASSUME Typed
    PROVE  /\ Len(msgs) \in Nat /\ Ids = 1 .. Len(msgs)
           /\ \A i \in Ids : msgs[i] \in Msg
BY DEF Typed, Ids

LEMMA PanelFacts ==
    ASSUME Typed, PanelWrites
    PROVE  /\ msgs' \in Seq(Msg) /\ Len(msgs') = Len(msgs) + 1
           /\ \A i \in Ids : i \in Ids' /\ msgs'[i] = msgs[i]
           /\ \A i \in Ids' : i \notin Ids => i = Len(msgs) + 1 /\ i > Len(msgs)
           /\ msgs'[Len(msgs) + 1].re = 0 /\ msgs'[Len(msgs) + 1].from # "ai"
           /\ UNCHANGED <<worker, handed, excused>>
<1>1. PICK m \in Msg : msgs' = Append(msgs, m) /\ m.re = 0 /\ m.from # "ai"
  <2>1. PICK t \in Tickets :
          (\E class \in Classes : Post(t, class)) \/ PostSlowly(t) \/ HumanReply(t)
    BY DEF PanelWrites
  <2>2. \E from \in {"user", "human"}, class \in Classes, seen \in BOOLEAN :
          msgs' = Append(msgs, Message(t, from, class, seen, 0))
    BY <2>1 DEF Post, PostSlowly, HumanReply, Classes
  <2>3. \A from \in {"user", "human"}, class \in Classes, seen \in BOOLEAN :
          LET m == Message(t, from, class, seen, 0)
          IN  m \in Msg /\ m.re = 0 /\ m.from # "ai"
    BY DEF Message, Msg
  <2> QED BY <2>2, <2>3
<1>2. /\ msgs' \in Seq(Msg) /\ Len(msgs') = Len(msgs) + 1
      /\ \A i \in 1 .. Len(msgs) : msgs'[i] = msgs[i]
      /\ msgs'[Len(msgs) + 1] = m
  BY <1>1 DEF Typed
<1>3. UNCHANGED <<worker, handed, excused>>
  BY DEF PanelWrites, Post, PostSlowly, HumanReply
<1>4. Ids' = 1 .. Len(msgs') /\ Ids = 1 .. Len(msgs) /\ Len(msgs) \in Nat
  BY DEF Ids, Typed
<1> QED BY <1>1, <1>2, <1>3, <1>4

LEMMA WriteFacts ==
    ASSUME Typed, Write
    PROVE  /\ msgs' \in Seq(Msg) /\ Len(msgs) <= Len(msgs')
           /\ \A i \in Ids : i \in Ids' /\ msgs'[i] = msgs[i]
           /\ \A k \in Ids' : k \notin Ids =>
                /\ k > Len(msgs)
                /\ msgs'[k].re \in replies /\ msgs'[k].from = "ai"
                /\ msgs'[k].ticket = msgs[msgs'[k].re].ticket
           /\ \A k, l \in Ids' :
                k \notin Ids /\ l \notin Ids /\ msgs'[k].re = msgs'[l].re => k = l
           /\ \A i \in replies : \E k \in Ids' : k \notin Ids /\ msgs'[k].re = i
<1> DEFINE n == Cardinality(replies)
<1>1. PICK order \in Orders(replies) : msgs' = msgs \o Answers(order)
  BY DEF Write
<1>2. n \in Nat
  <2>1. replies \subseteq 1 .. Len(msgs) /\ IsFiniteSet(1 .. Len(msgs))
    BY FS_Interval DEF Typed, Ids
  <2> QED BY <2>1, FS_Subset, FS_CardinalityType
<1>3. /\ order \in [1 .. n -> replies]
      /\ \A a, b \in 1 .. n : a < b => order[a] < order[b]
      /\ \A i \in replies : \E a \in 1 .. n : order[a] = i
  BY DEF Orders
<1> HIDE DEF n
<1>4. \A a \in 1 .. n :
        /\ order[a] \in replies /\ order[a] \in Nat
        /\ msgs[order[a]] \in Msg
  BY <1>3, TypedFacts DEF Typed
<1>5. \A a, b \in 1 .. n : order[a] = order[b] => a = b
  BY <1>2, <1>3, <1>4
<1>6. Answers(order) =
        [a \in 1 .. n |-> [ticket |-> msgs[order[a]].ticket, from |-> "ai",
                           class |-> "other", seen |-> TRUE, re |-> order[a]]]
  BY <1>3 DEF Answers, Message
<1>7. /\ Answers(order) \in Seq(Msg) /\ Len(Answers(order)) = n
      /\ \A a \in 1 .. n :
           /\ Answers(order)[a].re = order[a] /\ Answers(order)[a].from = "ai"
           /\ Answers(order)[a].ticket = msgs[order[a]].ticket
  <2>1. \A a \in 1 .. n : Answers(order)[a] \in Msg
    BY <1>4, <1>6 DEF Msg, Classes
  <2> QED BY <1>2, <1>6, <2>1
<1>8. /\ msgs' \in Seq(Msg) /\ Len(msgs') = Len(msgs) + n /\ Len(msgs) \in Nat
      /\ \A i \in 1 .. Len(msgs) : msgs'[i] = msgs[i]
      /\ \A a \in 1 .. n : msgs'[Len(msgs) + a] = Answers(order)[a]
  <2> DEFINE s == Answers(order)
  <2>1. msgs \in Seq(Msg) /\ s \in Seq(Msg) /\ Len(s) = n /\ msgs' = msgs \o s
    BY <1>1, <1>7 DEF Typed
  <2> HIDE DEF s
  <2>2. /\ msgs' \in Seq(Msg) /\ Len(msgs') = Len(msgs) + Len(s)
        /\ \A i \in 1 .. Len(msgs) + Len(s) :
             msgs'[i] = IF i <= Len(msgs) THEN msgs[i] ELSE s[i - Len(msgs)]
    BY <2>1, ConcatProperties
  <2>3. Len(msgs) \in Nat
    BY <2>1
  <2>4. \A i \in 1 .. Len(msgs) : msgs'[i] = msgs[i]
    BY <1>2, <2>1, <2>2, <2>3
  <2>5. ASSUME NEW a \in 1 .. n PROVE msgs'[Len(msgs) + a] = s[a]
    <3>1. Len(msgs) + a \in 1 .. Len(msgs) + Len(s) /\ ~(Len(msgs) + a <= Len(msgs))
          /\ (Len(msgs) + a) - Len(msgs) = a
      BY <1>2, <2>1, <2>3
    <3> QED BY <2>2, <3>1
  <2> QED BY <2>1, <2>2, <2>3, <2>4, <2>5 DEF s
<1>9. Ids' = 1 .. Len(msgs) + n /\ Ids = 1 .. Len(msgs)
  BY <1>8 DEF Ids
<1>10. ASSUME NEW k \in Ids', k \notin Ids
       PROVE  /\ k > Len(msgs) /\ k - Len(msgs) \in 1 .. n
              /\ msgs'[k] = Answers(order)[k - Len(msgs)]
  <2>1. k \in Nat /\ k > Len(msgs) /\ k - Len(msgs) \in 1 .. n /\ k = Len(msgs) + (k - Len(msgs))
    BY <1>2, <1>8, <1>9, <1>10
  <2> QED BY <1>8, <2>1
<1>11. ASSUME NEW k \in Ids', k \notin Ids
       PROVE  /\ msgs'[k].re = order[k - Len(msgs)] /\ msgs'[k].from = "ai"
              /\ msgs'[k].re \in replies
              /\ msgs'[k].ticket = msgs[msgs'[k].re].ticket
  BY <1>4, <1>7, <1>10, <1>11
<1>12. ASSUME NEW k \in Ids', NEW l \in Ids', k \notin Ids, l \notin Ids,
              msgs'[k].re = msgs'[l].re
       PROVE  k = l
  <2>1. k - Len(msgs) = l - Len(msgs)
    BY <1>5, <1>10, <1>11, <1>12
  <2> QED BY <1>8, <1>9, <2>1
<1>13. ASSUME NEW i \in replies
       PROVE  \E k \in Ids' : k \notin Ids /\ msgs'[k].re = i
  <2>1. PICK a \in 1 .. n : order[a] = i
    BY <1>3
  <2>2. /\ Len(msgs) + a \in Ids' /\ Len(msgs) + a \notin Ids
        /\ msgs'[Len(msgs) + a].re = i
    BY <1>2, <1>7, <1>8, <1>9, <2>1
  <2> QED BY <2>2
<1>14. Len(msgs) <= Len(msgs') /\ \A i \in Ids : i \in Ids' /\ msgs'[i] = msgs[i]
  BY <1>2, <1>8, <1>9
<1> QED BY <1>8, <1>10, <1>11, <1>12, <1>13, <1>14

\* every other step leaves the rows alone, but for the commit of one
Quiet == StartIdle \/ Scan \/ ScanFails \/ Triage \/ WriteFails \/ Restart \/ UNCHANGED vars

LEMMA NextCases ==
    ASSUME [Next]_vars
    PROVE  PanelWrites \/ (\E i \in Ids : Commit(i)) \/ Write \/ Quiet
BY DEF Next, PanelWrites, Quiet

LEMMA QuietFacts == ASSUME Quiet PROVE UNCHANGED <<msgs, tickets>>
BY DEF Quiet, StartIdle, Scan, ScanFails, Triage, WriteFails, Restart, vars

LEMMA CommitFacts ==
    ASSUME Typed, NEW c \in Ids, Commit(c)
    PROVE  /\ msgs' \in Seq(Msg) /\ Len(msgs') = Len(msgs) /\ Ids' = Ids
           /\ \A i \in Ids : i # c => msgs'[i] = msgs[i]
           /\ msgs'[c] = [msgs[c] EXCEPT !.seen = TRUE]
           /\ UNCHANGED <<worker, handed>>
<1>1. msgs \in Seq(Msg) /\ Ids = 1 .. Len(msgs) /\ c \in 1 .. Len(msgs)
  BY DEF Typed, Ids
<1>2. msgs' = [msgs EXCEPT ![c] = [msgs[c] EXCEPT !.seen = TRUE]]
  BY DEF Commit
<1>3. [msgs[c] EXCEPT !.seen = TRUE] \in Msg
  <2>1. msgs[c] \in Msg
    BY <1>1
  <2> QED BY <2>1 DEF Msg
<1>4. msgs' \in Seq(Msg) /\ Len(msgs') = Len(msgs)
  BY <1>1, <1>2, <1>3
<1>5. Ids' = Ids
  BY <1>4 DEF Ids
<1> QED BY <1>1, <1>2, <1>4, <1>5 DEF Commit

LEMMA KeptByAll == ASSUME Typed, [Next]_vars PROVE Kept /\ msgs' \in Seq(Msg) /\ Len(msgs) <= Len(msgs')
<1>1. CASE PanelWrites
  BY <1>1, PanelFacts, TypedFacts DEF Kept
<1>2. CASE Write
  BY <1>2, WriteFacts DEF Kept
<1>3. CASE Quiet
  BY <1>3, QuietFacts, TypedFacts DEF Kept, Ids, Typed
<1>4. ASSUME NEW c \in Ids, Commit(c) PROVE Kept /\ msgs' \in Seq(Msg) /\ Len(msgs) <= Len(msgs')
  <2>1. msgs[c] \in Msg /\ Len(msgs) \in Nat
    BY TypedFacts
  <2>2. \A i \in Ids : i \in Ids' /\ (i # c => msgs'[i] = msgs[i])
    BY <1>4, CommitFacts
  <2>3. /\ msgs'[c].ticket = msgs[c].ticket /\ msgs'[c].from = msgs[c].from
        /\ msgs'[c].class = msgs[c].class /\ msgs'[c].re = msgs[c].re
        /\ msgs'[c].seen
    <3>1. msgs'[c] = [msgs[c] EXCEPT !.seen = TRUE]
      BY <1>4, CommitFacts
    <3> QED BY <2>1, <3>1 DEF Msg
  <2>4. msgs' \in Seq(Msg) /\ Len(msgs') = Len(msgs)
    BY <1>4, CommitFacts
  <2> QED BY <2>1, <2>2, <2>3, <2>4 DEF Kept
<1> QED BY <1>1, <1>2, <1>3, <1>4, NextCases

LEMMA TypedStep == ASSUME Typed, [Next]_vars PROVE Typed'
<1>1. msgs' \in Seq(Msg) /\ Ids \subseteq Ids' /\ 0 .. Len(msgs) \subseteq 0 .. Len(msgs')
  BY KeptByAll DEF Kept, Typed
<1>2. CASE PanelWrites
  <2>1. tickets' \in [Tickets -> [open : BOOLEAN, replied : BOOLEAN]]
    <3>1. PICK t \in Tickets :
            (\E class \in Classes : Post(t, class)) \/ PostSlowly(t) \/ HumanReply(t)
      BY <1>2 DEF PanelWrites
    <3>2. tickets \in [Tickets -> [open : BOOLEAN, replied : BOOLEAN]]
      BY DEF Typed
    <3>3. CASE \E class \in Classes : Post(t, class)
      BY <3>2, <3>3 DEF Post
    <3>4. CASE PostSlowly(t)
      BY <3>2, <3>4 DEF PostSlowly
    <3>5. CASE HumanReply(t)
      BY <3>2, <3>5 DEF HumanReply
    <3> QED BY <3>1, <3>3, <3>4, <3>5
  <2> QED BY <1>1, <1>2, <2>1, PanelFacts DEF Typed, worker
<1>3. ASSUME NEW c \in Ids, Commit(c) PROVE Typed'
  <2>1. tickets' \in [Tickets -> [open : BOOLEAN, replied : BOOLEAN]]
    BY <1>3 DEF Commit, Typed
  <2>2. excused' \subseteq Ids
    BY <1>3 DEF Commit, Typed
  <2> QED BY <1>1, <1>3, <2>1, <2>2, CommitFacts DEF Typed, worker
<1>4. CASE Write
  <2>1. tickets' \in [Tickets -> [open : BOOLEAN, replied : BOOLEAN]]
    BY <1>4 DEF Write, Typed
  <2> QED BY <1>1, <1>4, <2>1 DEF Write, Typed
<1>5. CASE Quiet
  <2> USE QuietFacts DEF Typed
  <2>1. Ids' = Ids /\ Len(msgs') = Len(msgs)
    BY <1>5 DEF Ids
  <2>2. From \in Nat
    BY StartFacts DEF From
  <2>3. CASE StartIdle
    BY <2>1, <2>3, StartFacts DEF StartIdle
  <2>4. CASE Scan
    <3>1. PICK batch \in {Batch(From)} : \E taken \in {Take(batch)} :
            /\ batch # {} /\ cursor' = Max(batch) /\ pending' = taken
            /\ inFlight' = (inFlight \cap TicketsOf(batch)) \cup TicketsOf(taken)
            /\ handed' = handed \cup taken
      BY <2>4 DEF Scan
    <3>2. Take(batch) \subseteq Ids /\ Max(batch) \in Ids
      BY <2>2, <3>1, BatchFacts DEF Take
    <3>3. TicketsOf(Take(batch)) \subseteq Tickets
      BY <3>2, TypedFacts DEF TicketsOf, Msg
    <3>4. Max(batch) \in 0 .. Len(msgs)
      BY <3>2, TypedFacts
    <3> QED BY <1>1, <2>1, <2>4, <3>1, <3>2, <3>3, <3>4 DEF Scan
  <2>5. CASE ScanFails
    <3>1. Batch(From) \subseteq Ids /\ Ids \subseteq 0 .. Len(msgs)
      BY <2>2, BatchFacts, TypedFacts
    <3> QED BY <1>1, <2>1, <2>5, <3>1 DEF ScanFails
  <2>6. CASE Triage
    <3>1. TicketsOf({i \in pending : Class(i) = "closing"}) \subseteq Tickets
      BY TypedFacts DEF TicketsOf, Msg
    <3>2. replies' \subseteq pending
      BY <2>6 DEF Triage
    <3> QED BY <1>1, <2>1, <2>6, <3>1, <3>2 DEF Triage
  <2>7. CASE WriteFails
    BY <1>1, <2>1, <2>7 DEF WriteFails
  <2>9. CASE Restart
    <3>1. 0 \in 0 .. Len(msgs)
      BY TypedFacts
    <3> QED BY <1>1, <2>1, <2>9, <3>1 DEF Restart
  <2>8. CASE UNCHANGED vars
    BY <2>1, <2>8 DEF vars
  <2> QED BY <1>5, <2>3, <2>4, <2>5, <2>6, <2>7, <2>8, <2>9 DEF Quiet
<1> QED BY <1>2, <1>3, <1>4, <1>5, NextCases

-----------------------------------------------------------------------------
(* One answer to a message. *)

LEMMA HandedGrows == ASSUME Typed, [Next]_vars PROVE handed \subseteq handed'
<1>1. CASE PanelWrites \/ (\E i \in Ids : Commit(i)) \/ Write
  BY <1>1, PanelFacts, CommitFacts DEF Write
<1>2. CASE Quiet
  BY <1>2 DEF Quiet, StartIdle, Scan, ScanFails, Triage, WriteFails, Restart, vars
<1> QED BY <1>1, <1>2, NextCases

\* apart from Write no step adds an answer of the worker
LEMMA NoNewAnswer ==
    ASSUME Typed, [Next]_vars, ~Write, NEW k \in Ids', k \notin Ids
    PROVE  msgs'[k].re = 0 /\ msgs'[k].from # "ai"
<1>1. CASE PanelWrites
  BY <1>1, PanelFacts
<1>2. CASE (\E i \in Ids : Commit(i)) \/ Quiet
  <2>1. Ids' = Ids
    BY <1>2, CommitFacts, QuietFacts DEF Ids
  <2> QED BY <2>1
<1> QED BY <1>1, <1>2, NextCases

\* a message that has no answer gets one only by Write, and only if it is among
\* the replies
LEMMA StaysUnanswered ==
    ASSUME Typed, [Next]_vars, NEW i \in Ids, Unanswered(i), Write => i \notin replies
    PROVE  Unanswered(i)'
<1>1. \A k \in Ids : msgs'[k].re # i
  BY KeptByAll DEF Kept, Unanswered
<1>2. ASSUME NEW k \in Ids', k \notin Ids PROVE msgs'[k].re # i
  <2>1. i # 0
    BY TypedFacts
  <2>2. CASE Write
    BY <1>2, <2>2, WriteFacts
  <2>3. CASE ~Write
    BY <1>2, <2>1, <2>3, NoNewAnswer
  <2> QED BY <2>2, <2>3
<1> QED BY <1>1, <1>2 DEF Unanswered

LEMMA AnswersStep ==
    ASSUME Typed, AnswersInv, TakenInv, [Next]_vars PROVE AnswersInv'
<1>1. /\ handed \subseteq handed' /\ handed \subseteq Ids
      /\ Ids = 1 .. Len(msgs) /\ Len(msgs) \in Nat
  BY HandedGrows, TypedFacts DEF Typed
<1>2. \A k \in Ids :
        /\ k \in Ids' /\ msgs'[k].ticket = msgs[k].ticket
        /\ msgs'[k].from = msgs[k].from /\ msgs'[k].re = msgs[k].re
  BY KeptByAll DEF Kept
<1>3. CASE ~Write
  <2>1. \A k \in Ids' : k \notin Ids => msgs'[k].re = 0 /\ msgs'[k].from # "ai"
    BY <1>3, NoNewAnswer
  <2>2. \A k \in Ids' : msgs'[k].from = "ai" <=> msgs'[k].re # 0
    BY <1>2, <2>1 DEF AnswersInv
  <2>3. ASSUME NEW k \in Ids', msgs'[k].re # 0
        PROVE  /\ msgs'[k].re \in handed' /\ msgs'[k].re < k
               /\ msgs'[msgs'[k].re].ticket = msgs'[k].ticket
    <3> DEFINE j == msgs'[k].re
    <3>1. k \in Ids /\ msgs[k].re = j /\ j # 0
      BY <1>2, <2>1, <2>3
    <3>2. j \in handed /\ j < k /\ msgs[j].ticket = msgs[k].ticket
      BY <3>1 DEF AnswersInv
    <3>3. msgs'[j].ticket = msgs[j].ticket /\ msgs'[k].ticket = msgs[k].ticket
      BY <1>1, <1>2, <3>1, <3>2
    <3> QED BY <1>1, <3>2, <3>3
  <2>4. \A k, l \in Ids' : msgs'[k].re # 0 /\ msgs'[k].re = msgs'[l].re => k = l
    BY <1>2, <2>1 DEF AnswersInv
  <2> QED BY <2>2, <2>3, <2>4 DEF AnswersInv
<1>4. CASE Write
  <2>1. replies \subseteq Ids /\ \A i \in replies : i \in handed /\ Unanswered(i)
    BY DEF Typed, TakenInv
  <2>2. \A k \in Ids' : k \notin Ids =>
          /\ k > Len(msgs) /\ msgs'[k].re \in replies /\ msgs'[k].re # 0
          /\ msgs'[k].from = "ai" /\ msgs'[k].ticket = msgs[msgs'[k].re].ticket
    BY <1>1, <1>4, <2>1, WriteFacts
  <2>3. \A k \in Ids' : msgs'[k].from = "ai" <=> msgs'[k].re # 0
    BY <1>2, <2>2 DEF AnswersInv
  <2>4. ASSUME NEW k \in Ids', msgs'[k].re # 0
        PROVE  /\ msgs'[k].re \in handed' /\ msgs'[k].re < k
               /\ msgs'[msgs'[k].re].ticket = msgs'[k].ticket
    <3>1. CASE k \in Ids
      <4> DEFINE j == msgs'[k].re
      <4>1. msgs[k].re = j /\ j # 0
        BY <1>2, <2>4, <3>1
      <4>2. j \in handed /\ j < k /\ msgs[j].ticket = msgs[k].ticket
        BY <3>1, <4>1 DEF AnswersInv
      <4>3. msgs'[j].ticket = msgs[j].ticket /\ msgs'[k].ticket = msgs[k].ticket
        BY <1>1, <1>2, <3>1, <4>2
      <4> QED BY <1>1, <4>2, <4>3
    <3>2. CASE k \notin Ids
      <4> DEFINE j == msgs'[k].re
      <4>1. k > Len(msgs) /\ j \in replies /\ msgs'[k].ticket = msgs[j].ticket
        BY <2>2, <3>2
      <4>2. j \in Ids /\ j \in handed
        BY <2>1, <4>1
      <4>3. msgs'[j].ticket = msgs[j].ticket /\ j <= Len(msgs) /\ j \in Nat
        BY <1>1, <1>2, <4>2
      <4>4. k \in Int
        BY DEF Ids
      <4> HIDE DEF j
      <4>5. j < k
        BY <1>1, <4>1, <4>3, <4>4
      <4> QED BY <1>1, <4>1, <4>2, <4>3, <4>5 DEF j
    <3> QED BY <3>1, <3>2
  <2>5. ASSUME NEW k \in Ids', NEW l \in Ids',
               msgs'[k].re # 0, msgs'[k].re = msgs'[l].re
        PROVE  k = l
    <3>1. CASE k \in Ids /\ l \in Ids
      BY <1>2, <2>5, <3>1 DEF AnswersInv
    <3>2. CASE k \notin Ids /\ l \notin Ids
      BY <1>4, <2>5, <3>2, WriteFacts
    <3>3. CASE (k \in Ids /\ l \notin Ids) \/ (k \notin Ids /\ l \in Ids)
      BY <1>2, <2>1, <2>2, <2>5, <3>3 DEF Unanswered
    <3> QED BY <3>1, <3>2, <3>3
  <2> QED BY <2>3, <2>4, <2>5 DEF AnswersInv
<1> QED BY <1>3, <1>4

\* what a run takes has no answer
LEMMA TakenIsUnanswered ==
    ASSUME Typed, AnswersInv, NEW i \in Ids, ~AnswerAfter(i) PROVE Unanswered(i)
<1> SUFFICES ASSUME NEW k \in Ids, msgs[k].re = i PROVE FALSE
  BY DEF Unanswered
<1>1. i # 0 /\ i \in Nat /\ k \in Nat
  BY TypedFacts
<1>2. i < k /\ msgs[i].ticket = msgs[k].ticket /\ msgs[k].from = "ai"
  BY <1>1 DEF AnswersInv
<1> QED BY <1>1, <1>2 DEF AnswerAfter, FromUser

\* what the first transaction of a run finds and does
LEMMA ScanFacts ==
    ASSUME Typed, Scan
    PROVE  /\ From \in Nat /\ Batch(From) # {}
           /\ cursor' = Max(Batch(From)) /\ cursor' \in Batch(From)
           /\ \A i \in Batch(From) : i <= cursor'
           /\ pending' = Take(Batch(From)) /\ Take(Batch(From)) \subseteq Batch(From)
           /\ Batch(From) \subseteq Ids
           /\ handed' = handed \cup Take(Batch(From))
           /\ inFlight' = (inFlight \cap TicketsOf(Batch(From)))
                             \cup TicketsOf(Take(Batch(From)))
           /\ started' /\ UNCHANGED <<msgs, tickets, replies, excused>>
           /\ phase = "idle" /\ phase' \in {"idle", "triage"}
           /\ phase' # "triage" => pending' = {}
<1>1. From \in Nat
  BY StartFacts DEF From, Typed
<1>2. /\ Batch(From) # {} /\ cursor' = Max(Batch(From)) /\ pending' = Take(Batch(From))
      /\ handed' = handed \cup Take(Batch(From))
      /\ inFlight' = (inFlight \cap TicketsOf(Batch(From))) \cup TicketsOf(Take(Batch(From)))
      /\ started' /\ UNCHANGED <<msgs, tickets, replies, excused>>
      /\ phase = "idle" /\ phase' \in {"idle", "triage"}
      /\ phase' # "triage" => pending' = {}
  BY DEF Scan
<1>3. Take(Batch(From)) \subseteq Batch(From)
  BY DEF Take
<1> QED BY <1>1, <1>2, <1>3, BatchFacts

LEMMA TakenStep ==
    ASSUME Typed, AnswersInv, TakenInv, [Next]_vars PROVE TakenInv'
<1>1. CASE PanelWrites \/ \E c \in Ids : Commit(c)
  <2>1. UNCHANGED <<worker, handed>> /\ ~Write
    <3>1. UNCHANGED <<worker, handed>>
      BY <1>1, PanelFacts, CommitFacts
    <3>2. Write => UNCHANGED phase /\ phase = "write" /\ phase' = "idle"
      BY <3>1 DEF Write, worker
    <3> QED BY <3>1, <3>2
  <2>2. ASSUME NEW i \in pending \cup replies PROVE Unanswered(i)'
    BY <2>1, StaysUnanswered DEF TakenInv, Typed
  <2> QED BY <2>1, <2>2 DEF TakenInv, worker
<1>2. CASE Scan
  <2>1. \A i \in Take(Batch(From)) : i \in Ids /\ ~AnswerAfter(i)
    BY <1>2, ScanFacts DEF Take
  <2>2. \A i \in Take(Batch(From)) : Unanswered(i)
    BY <2>1, TakenIsUnanswered
  <2>3. \A i \in Take(Batch(From)) : Unanswered(i)'
    BY <1>2, <2>2, ScanFacts DEF Unanswered, Ids
  <2>4. replies' = {}
    BY <1>2, ScanFacts DEF TakenInv
  <2> QED BY <1>2, <2>3, <2>4, ScanFacts DEF TakenInv
<1>3. CASE Triage
  <2>1. /\ replies' \subseteq pending /\ pending' = {} /\ phase' # "triage"
        /\ phase' # "write" => replies' = {}
        /\ UNCHANGED <<msgs, cursor, started, handed>>
    BY <1>3 DEF Triage
  <2> QED BY <2>1 DEF TakenInv, Unanswered, Ids
<1>4. CASE Write \/ WriteFails \/ StartIdle \/ ScanFails \/ Restart
  <2>1. pending' = {} /\ replies' = {}
    BY <1>4 DEF TakenInv, Write, WriteFails, StartIdle, ScanFails, Restart
  <2> QED BY <2>1 DEF TakenInv
<1>5. CASE UNCHANGED vars
  BY <1>5 DEF vars, TakenInv, Unanswered, Ids
<1> QED BY <1>1, <1>2, <1>3, <1>4, <1>5, NextCases DEF Quiet

LEMMA FlightStep ==
    ASSUME Typed, AnswersInv, FlightInv, [Next]_vars PROVE FlightInv'
<1> SUFFICES ASSUME NEW t \in inFlight'
             PROVE  started' /\ \E j \in handed' :
                      j <= cursor' /\ msgs'[j].ticket = t /\ Unanswered(j)'
  BY DEF FlightInv
<1>1. ASSUME t \in inFlight, started',
             \A j \in Ids : started /\ j <= cursor => j <= cursor',
             \A j \in replies : Write => msgs[j].ticket # t
      PROVE  started' /\ \E j \in handed' :
               j <= cursor' /\ msgs'[j].ticket = t /\ Unanswered(j)'
  <2>1. PICK j \in handed :
          started /\ j <= cursor /\ msgs[j].ticket = t /\ Unanswered(j)
    BY <1>1 DEF FlightInv
  <2>2. j \in Ids /\ j \in handed'
    BY HandedGrows DEF Typed
  <2>3. Unanswered(j)'
    BY <1>1, <2>1, <2>2, StaysUnanswered
  <2>4. msgs'[j].ticket = t
    BY <2>1, <2>2, KeptByAll DEF Kept
  <2> QED BY <1>1, <2>1, <2>2, <2>3, <2>4
<1>2. t \in inFlight => started
  BY DEF FlightInv
<1>3. CASE PanelWrites \/ \E c \in Ids : Commit(c)
  <2>1. UNCHANGED worker
    BY <1>3, PanelFacts, CommitFacts
  <2>2. ~Write
    BY <2>1 DEF worker, Write
  <2> QED BY <1>1, <1>2, <2>1, <2>2 DEF worker
<1>4. CASE Scan
  <2>1. CASE t \in TicketsOf(Take(Batch(From)))
    <3>1. PICK j \in Take(Batch(From)) : msgs[j].ticket = t
      BY <2>1 DEF TicketsOf
    <3>2. j \in Ids /\ ~AnswerAfter(j) /\ j \in handed' /\ j <= cursor'
      BY <1>4, ScanFacts DEF Take
    <3>3. Unanswered(j)
      BY <3>2, TakenIsUnanswered
    <3> QED BY <1>4, <3>1, <3>2, <3>3, ScanFacts DEF Unanswered, Ids
  <2>2. CASE t \in inFlight
    <3>1. cursor < cursor' /\ cursor' \in Int
      <4>1. cursor' \in Batch(cursor) /\ cursor \in Nat
        BY <1>2, <1>4, <2>2, ScanFacts DEF From, Typed
      <4> QED BY <4>1, BatchFacts, TypedFacts
    <3>2. phase = "idle"
      BY <1>4, ScanFacts
    <3> QED BY <1>1, <1>4, <2>2, <3>1, <3>2, ScanFacts, TypedFacts DEF Write, Typed
  <2> QED BY <1>4, <2>1, <2>2, ScanFacts
<1>5. CASE ScanFails
  <2>1. t \in inFlight /\ started' /\ cursor' \in Batch(From) /\ phase = "idle"
    BY <1>5 DEF ScanFails
  <2>2. cursor' > cursor /\ cursor' \in Int
    <3>1. From = cursor /\ cursor \in Nat
      BY <1>2, <2>1 DEF From, Typed
    <3> QED BY <2>1, <3>1, BatchFacts, TypedFacts
  <2> QED BY <1>1, <2>1, <2>2, TypedFacts DEF Write, Typed
<1>6. CASE Write
  <2>1. t \in inFlight /\ t \notin TicketsOf(replies) /\ UNCHANGED <<cursor, started>>
    BY <1>6 DEF Write
  <2> QED BY <1>1, <1>2, <2>1 DEF TicketsOf
<1>7. CASE StartIdle \/ Restart
  BY <1>2, <1>7 DEF StartIdle, Restart
<1>8. CASE Triage \/ WriteFails \/ UNCHANGED vars
  <2>1. UNCHANGED <<cursor, started, inFlight, msgs, handed>>
    BY <1>8 DEF Triage, WriteFails, vars
  <2> QED BY <2>1 DEF FlightInv, Unanswered, Ids
<1> QED BY <1>3, <1>4, <1>5, <1>6, <1>7, <1>8, NextCases DEF Quiet

LEMMA CloseStep ==
    ASSUME Typed, TakenInv, CloseInv, [Next]_vars PROVE CloseInv'
<1>1. ASSUME NEW t \in closeSet
      PROVE  \E i \in handed' : msgs'[i].ticket = t /\ msgs'[i].class = "closing"
  <2>1. PICK i \in handed : msgs[i].ticket = t /\ msgs[i].class = "closing"
    BY DEF CloseInv
  <2>2. i \in Ids /\ i \in handed'
    BY HandedGrows DEF Typed
  <2> QED BY <2>1, <2>2, KeptByAll DEF Kept
<1>2. CASE Triage
  <2>1. /\ closeSet' = closeSet \cup TicketsOf({i \in pending : Class(i) = "closing"})
        /\ UNCHANGED <<msgs, handed>>
    BY <1>2 DEF Triage
  <2>2. ASSUME NEW t \in TicketsOf({i \in pending : Class(i) = "closing"})
        PROVE  \E i \in handed' : msgs'[i].ticket = t /\ msgs'[i].class = "closing"
    BY <2>1 DEF TicketsOf, Class, TakenInv
  <2> QED BY <1>1, <2>1, <2>2 DEF CloseInv
<1>3. CASE PanelWrites \/ (\E c \in Ids : Commit(c)) \/ Write \/ StartIdle \/ Scan
           \/ ScanFails \/ WriteFails \/ Restart \/ UNCHANGED vars
  <2>1. closeSet' \subseteq closeSet
    BY <1>3, PanelFacts, CommitFacts
       DEF worker, Write, StartIdle, Scan, ScanFails, WriteFails, Restart, vars
  <2> QED BY <1>1, <2>1 DEF CloseInv
<1> QED BY <1>2, <1>3, NextCases DEF Quiet

-----------------------------------------------------------------------------
(* Messages that are forgotten. *)

\* an answer stays after the message it follows
LEMMA AnswerStays ==
    ASSUME Typed, [Next]_vars, NEW i \in Ids, AnswerAfter(i) PROVE AnswerAfter(i)'
BY KeptByAll DEF Kept, AnswerAfter, FromUser

LEMMA RepliedStep ==
    ASSUME Typed, RepliedInv, [Next]_vars PROVE RepliedInv'
<1> SUFFICES ASSUME NEW i \in Ids', FromUser(i)', Seen(i)',
                    tickets'[msgs'[i].ticket].replied
             PROVE  AnswerAfter(i)'
  BY DEF RepliedInv
<1>1. ASSUME i \in Ids, Seen(i), tickets[msgs[i].ticket].replied PROVE AnswerAfter(i)'
  <2>1. FromUser(i)
    BY <1>1, KeptByAll DEF Kept, FromUser
  <2> QED BY <1>1, <2>1, AnswerStays DEF RepliedInv
<1>2. i \in Ids => msgs'[i].ticket = msgs[i].ticket /\ msgs[i].ticket \in Tickets
  BY KeptByAll, TypedFacts DEF Kept, Msg
<1>3. CASE PanelWrites
  <2>1. PICK t \in Tickets :
          (\E class \in Classes : Post(t, class)) \/ PostSlowly(t) \/ HumanReply(t)
    BY <1>3 DEF PanelWrites
  <2>2. i \in Ids => Seen(i)
    BY <1>3, PanelFacts DEF Seen
  <2>3. CASE i \notin Ids
    <3>1. i = Len(msgs) + 1 /\ msgs \in Seq(Msg)
      BY <1>3, <2>3, PanelFacts DEF Typed
    <3>2. CASE \E class \in Classes : Post(t, class)
      <4>1. msgs'[i].ticket = t /\ ~tickets'[t].replied
        BY <3>1, <3>2 DEF Post, Message, Typed
      <4> QED BY <4>1
    <3>3. CASE PostSlowly(t)
      BY <3>1, <3>3 DEF PostSlowly, Message, Seen
    <3>4. CASE HumanReply(t)
      BY <3>1, <3>4 DEF HumanReply, Message, FromUser
    <3> QED BY <2>1, <3>2, <3>3, <3>4
  <2>4. CASE i \in Ids
    <3>1. CASE \E class \in Classes : Post(t, class)
      BY <1>1, <1>2, <2>2, <2>4, <3>1 DEF Post, Typed
    <3>2. CASE PostSlowly(t)
      BY <1>1, <1>2, <2>2, <2>4, <3>2 DEF PostSlowly
    <3>3. CASE HumanReply(t)
      <4>1. CASE msgs[i].ticket = t
        <5>1. Len(msgs) + 1 \in Ids' /\ Len(msgs) + 1 > i /\ Len(msgs) \in Nat /\ i \in Nat
          BY <1>3, <2>4, PanelFacts, TypedFacts DEF Ids
        <5>2. msgs \in Seq(Msg) /\ msgs' = Append(msgs, Message(t, "human", "other", TRUE, 0))
          BY <3>3 DEF HumanReply, Typed
        <5>3. msgs'[Len(msgs) + 1].ticket = t /\ msgs'[Len(msgs) + 1].from = "human"
          BY <5>2 DEF Message
        <5> QED BY <1>2, <2>4, <4>1, <5>1, <5>3 DEF AnswerAfter, FromUser
      <4>2. CASE msgs[i].ticket # t
        BY <1>1, <1>2, <2>2, <2>4, <3>3, <4>2 DEF HumanReply, Typed
      <4> QED BY <4>1, <4>2
    <3> QED BY <2>1, <3>1, <3>2, <3>3
  <2> QED BY <2>3, <2>4
<1>4. ASSUME NEW c \in Ids, Commit(c) PROVE AnswerAfter(i)'
  <2>1. i \in Ids /\ tickets' = [tickets EXCEPT ![msgs[c].ticket].replied = FALSE]
    BY <1>4, CommitFacts DEF Commit
  <2>2. msgs[i].ticket # msgs[c].ticket
    BY <1>2, <2>1 DEF Typed
  <2>3. i # c
    BY <2>2
  <2>4. Seen(i)
    BY <1>4, <2>1, <2>3, CommitFacts DEF Seen
  <2> QED BY <1>1, <1>2, <2>1, <2>2, <2>4 DEF Typed
<1>5. CASE Write
  <2>1. i \in Ids
    BY <1>5, WriteFacts DEF FromUser
  <2>2. Seen(i)
    BY <1>5, <2>1, WriteFacts DEF Seen
  <2>3. CASE msgs[i].ticket \notin TicketsOf(replies)
    BY <1>1, <1>2, <1>5, <2>1, <2>2, <2>3 DEF Write
  <2>4. CASE msgs[i].ticket \in TicketsOf(replies)
    <3>1. PICK j \in replies : msgs[j].ticket = msgs[i].ticket
      BY <2>4 DEF TicketsOf
    <3>2. PICK k \in Ids' : k \notin Ids /\ msgs'[k].re = j
      BY <1>5, WriteFacts
    <3>3. k > Len(msgs) /\ msgs'[k].ticket = msgs[i].ticket /\ msgs'[k].from = "ai"
      BY <1>5, <3>1, <3>2, WriteFacts
    <3>4. k > i
      BY <2>1, <3>2, <3>3, TypedFacts DEF Ids
    <3> QED BY <1>2, <2>1, <3>3, <3>4 DEF AnswerAfter, FromUser
  <2> QED BY <2>3, <2>4
<1>6. CASE Quiet
  BY <1>1, <1>6, QuietFacts DEF Ids, Seen
<1> QED BY <1>3, <1>4, <1>5, <1>6, NextCases

\* a ticket that is closed stays closed
LEMMA ClosedStays ==
    ASSUME Typed, [Next]_vars, NEW t \in Tickets, tickets'[t].open PROVE tickets[t].open
<1>1. tickets \in [Tickets -> [open : BOOLEAN, replied : BOOLEAN]]
  BY DEF Typed
<1>2. CASE PanelWrites
  <2>1. PICK u \in Tickets :
          (\E class \in Classes : Post(u, class)) \/ PostSlowly(u) \/ HumanReply(u)
    BY <1>2 DEF PanelWrites
  <2>2. CASE \E class \in Classes : Post(u, class)
    BY <1>1, <2>2 DEF Post
  <2>3. CASE PostSlowly(u)
    BY <2>3 DEF PostSlowly
  <2>4. CASE HumanReply(u)
    BY <1>1, <2>4 DEF HumanReply
  <2> QED BY <2>1, <2>2, <2>3, <2>4
<1>3. CASE \E c \in Ids : Commit(c)
  BY <1>1, <1>3 DEF Commit
<1>4. CASE Write
  BY <1>4 DEF Write
<1>5. CASE Quiet
  BY <1>5, QuietFacts
<1> QED BY <1>2, <1>3, <1>4, <1>5, NextCases

LEMMA ReasonStays ==
    ASSUME Typed, [Next]_vars, NEW i \in Ids, Reason(i) PROVE Reason(i)'
<1>1. CASE i \in excused
  <2>1. excused \subseteq excused'
    <3>1. CASE PanelWrites \/ Write
      BY <3>1, PanelFacts DEF Write
    <3>2. CASE (\E c \in Ids : Commit(c)) \/ Quiet
      BY <3>2
         DEF Commit, Quiet, StartIdle, Scan, ScanFails, Triage, WriteFails, Restart, vars
    <3> QED BY <3>1, <3>2, NextCases
  <2> QED BY <1>1, <2>1 DEF Reason
<1>2. CASE i \notin excused
  <2>1. PICK j \in handed :
          /\ j < i /\ msgs[j].ticket = msgs[i].ticket
          /\ \A k \in Ids : msgs[k].re = j => i < k
    BY <1>2 DEF Reason
  <2>2. j \in Ids /\ j \in handed' /\ msgs'[j].ticket = msgs'[i].ticket
    BY <2>1, HandedGrows, KeptByAll DEF Kept, Typed
  <2>3. ASSUME NEW k \in Ids', msgs'[k].re = j PROVE i < k
    <3>1. CASE k \in Ids
      BY <2>1, <2>3, <3>1, KeptByAll DEF Kept
    <3>2. CASE k \notin Ids
      <4>1. Ids = 1 .. Len(msgs) /\ Ids' = 1 .. Len(msgs') /\ Len(msgs) \in Nat
        BY TypedFacts DEF Ids
      <4> QED BY <3>2, <4>1
    <3> QED BY <3>1, <3>2
  <2> QED BY <2>1, <2>2, <2>3 DEF Reason
<1> QED BY <1>1, <1>2

\* before it is passed or answered, such a message waits
LEMMA LoneWaits ==
    ASSUME Typed, RepliedInv, NEW i \in Ids, Lone(i), ~AnswerAfter(i) PROVE Waiting(i)
<1>1. msgs[i].ticket \in Tickets
  BY TypedFacts DEF Msg
<1>2. ~tickets[msgs[i].ticket].replied /\ tickets[msgs[i].ticket].open
  BY DEF RepliedInv, Lone
<1>3. tickets[msgs[i].ticket] = [open |-> TRUE, replied |-> FALSE]
  BY <1>1, <1>2 DEF Typed
<1> QED BY <1>3 DEF Waiting, Lone

\* the query leaves out nothing that waits between where it began and where the
\* cursor goes
LEMMA FoundByQuery ==
    ASSUME Typed, FirstId > 1, NEW i \in Ids, NEW b \in Batch(From),
           Waiting(i), ~Passed(i), i <= b
    PROVE  i \in Batch(From)
<1>1. From \in Nat
  BY StartFacts DEF From, Typed
<1>2. i > From
  <2>1. CASE started
    BY <2>1, TypedFacts DEF From, Passed, Typed
  <2>2. CASE ~started
    BY <2>2, StartFacts, TypedFacts DEF From
  <2> QED BY <2>1, <2>2
<1> QED BY <1>1, <1>2, BatchFacts

LEMMA LossStep ==
    ASSUME FirstId > 1, WorkInv, RepliedInv, LossInv, [Next]_vars PROVE LossInv'
<1> USE DEF WorkInv
<1> SUFFICES ASSUME NEW i \in Ids', Lone(i)', Passed(i)' \/ AnswerAfter(i)'
             PROVE  Reason(i)'
  BY DEF LossInv
<1>1. /\ Ids = 1 .. Len(msgs) /\ Ids' = 1 .. Len(msgs')
      /\ Len(msgs) \in Nat /\ Len(msgs') \in Nat
  BY TypedFacts, KeptByAll DEF Ids
<1>2. i \in Ids
  <2> SUFFICES ASSUME i \notin Ids PROVE FALSE
    OBVIOUS
  <2>1. msgs'[i].from = "user"
    BY DEF Lone, FromUser
  <2>2. PanelWrites
    <3>1. ~Write
      BY <2>1, WriteFacts
    <3>2. ~Quiet /\ ~\E c \in Ids : Commit(c)
      BY QuietFacts, CommitFacts DEF Ids
    <3> QED BY <3>1, <3>2, NextCases
  <2>3. i = Len(msgs) + 1 /\ Len(msgs') = Len(msgs) + 1 /\ UNCHANGED worker
    BY <2>2, PanelFacts
  <2>4. ~Passed(i)'
    BY <1>1, <2>3 DEF Passed, worker, Typed
  <2>5. ~AnswerAfter(i)'
    BY <1>1, <2>3 DEF AnswerAfter
  <2> QED BY <2>4, <2>5
<1>3. /\ msgs'[i].ticket = msgs[i].ticket /\ msgs[i].ticket \in Tickets
      /\ FromUser(i) /\ i \notin handed /\ tickets[msgs[i].ticket].open
      /\ ~\E j \in Ids : j > i /\ msgs[j].ticket = msgs[i].ticket /\ msgs[j].from = "human"
  <2>1. msgs'[i].ticket = msgs[i].ticket /\ msgs[i].ticket \in Tickets /\ FromUser(i)
    BY <1>2, KeptByAll, TypedFacts DEF Kept, Lone, FromUser, Msg
  <2>2. i \notin handed
    BY HandedGrows DEF Lone
  <2>3. tickets[msgs[i].ticket].open
    BY <2>1, ClosedStays DEF Lone
  <2>4. ~\E j \in Ids : j > i /\ msgs[j].ticket = msgs[i].ticket /\ msgs[j].from = "human"
    BY <1>2, <2>1, KeptByAll DEF Kept, Lone
  <2> QED BY <2>1, <2>2, <2>3, <2>4
<1>4. CASE ~Seen(i)
  <2>1. PICK c \in Ids : Commit(c)
    BY <1>2, <1>4, PanelFacts, WriteFacts, QuietFacts, NextCases DEF Lone, Seen
  <2>2. c = i
    BY <1>2, <1>4, <2>1, CommitFacts DEF Lone, Seen
  <2>3. excused' = IF i <= cursor \/ AnswerAfter(i) THEN excused \cup {i} ELSE excused
    BY <2>1, <2>2 DEF Commit
  <2>4. Passed(i)' => i <= cursor
    BY <2>1, CommitFacts DEF Passed, worker
  <2>5. AnswerAfter(i)' => AnswerAfter(i)
    BY <1>2, <1>3, <2>1, CommitFacts, KeptByAll DEF Kept, AnswerAfter, FromUser
  <2> QED BY <2>3, <2>4, <2>5 DEF Reason
<1>5. CASE Seen(i) /\ (Passed(i) \/ AnswerAfter(i))
  BY <1>2, <1>3, <1>5, ReasonStays DEF LossInv, Lone
<1>6. CASE Seen(i) /\ ~Passed(i) /\ ~AnswerAfter(i)
  <2>1. Waiting(i)
    BY <1>2, <1>3, <1>6, LoneWaits DEF Lone
  <2>2. CASE Write
    <3>1. UNCHANGED <<cursor, started, handed>>
      BY <2>2 DEF Write
    <3>2. AnswerAfter(i)'
      BY <1>6, <3>1 DEF Passed
    <3>3. PICK k \in Ids' : k > i /\ msgs'[k].ticket = msgs'[i].ticket /\ msgs'[k].from # "user"
      BY <3>2 DEF AnswerAfter, FromUser
    <3>4. k \notin Ids
      BY <1>2, <1>3, <1>6, <2>2, <3>3, WriteFacts DEF AnswerAfter, FromUser
    <3>5. PICK j \in replies : msgs'[k].re = j /\ msgs[j].ticket = msgs[i].ticket
      BY <1>3, <2>2, <3>3, <3>4, WriteFacts
    <3>6. j \in Ids /\ j \in handed' /\ started /\ j <= cursor /\ Unanswered(j)
      BY <3>1 DEF TakenInv, Typed
    <3>7. j < i
      BY <1>1, <1>2, <1>6, <3>6 DEF Passed, Typed
    <3>8. ASSUME NEW l \in Ids', msgs'[l].re = j PROVE i < l
      <4>1. l \notin Ids
        BY <2>2, <3>6, <3>8, WriteFacts DEF Unanswered
      <4> QED BY <1>1, <1>2, <4>1
    <3>9. msgs'[j].ticket = msgs'[i].ticket
      BY <1>3, <3>5, <3>6, KeptByAll DEF Kept
    <3> QED BY <3>6, <3>7, <3>8, <3>9 DEF Reason
  <2>3. CASE PanelWrites
    <3>1. ~Passed(i)'
      BY <1>6, <2>3, PanelFacts DEF Passed, worker
    <3>2. PICK k \in Ids' : k > i /\ msgs'[k].ticket = msgs'[i].ticket /\ msgs'[k].from # "user"
      BY <3>1 DEF AnswerAfter, FromUser
    <3>3. msgs'[k].from # "human"
      BY <3>2 DEF Lone
    <3>4. k \in Ids
      <4>1. msgs'[k].from \in {"user", "human", "ai"}
        <5>1. msgs' \in Seq(Msg) /\ k \in 1 .. Len(msgs')
          BY <1>1, KeptByAll
        <5>2. msgs'[k] \in Msg
          BY <5>1
        <5> QED BY <5>2 DEF Msg
      <4> QED BY <2>3, <3>2, <3>3, <4>1, PanelFacts
    <3> QED BY <1>2, <1>3, <1>6, <2>3, <3>2, <3>4, PanelFacts DEF AnswerAfter, FromUser
  <2>4. CASE \E c \in Ids : Commit(c)
    <3>1. PICK c \in Ids : Commit(c)
      BY <2>4
    <3>2. ~Passed(i)'
      BY <1>6, <3>1, CommitFacts DEF Passed, worker
    <3>3. ~AnswerAfter(i)'
      BY <1>2, <1>3, <1>6, <3>1, CommitFacts, KeptByAll DEF Kept, AnswerAfter, FromUser
    <3> QED BY <3>2, <3>3
  <2>5. CASE Quiet
    <3>1. UNCHANGED msgs /\ ~AnswerAfter(i)'
      BY <1>6, <2>5, QuietFacts DEF AnswerAfter, FromUser, Ids
    <3>2. started' /\ i <= cursor'
      BY <3>1 DEF Passed
    <3>3. CASE Scan
      <4>1. i \in Batch(From) /\ i \notin Take(Batch(From))
        BY <1>2, <1>6, <2>1, <3>2, <3>3, FoundByQuery, ScanFacts DEF Lone
      <4>2. msgs[i].ticket \in inFlight
        BY <1>6, <4>1 DEF Take
      <4>3. PICK j \in handed :
              started /\ j <= cursor /\ msgs[j].ticket = msgs[i].ticket /\ Unanswered(j)
        BY <4>2 DEF FlightInv
      <4>4. j \in Ids /\ j < i
        BY <1>1, <1>2, <1>6, <4>3 DEF Passed, Typed
      <4>5. j \in handed' /\ \A k \in Ids' : msgs'[k].re # j
        BY <3>1, <4>3, HandedGrows DEF Unanswered, Ids
      <4> QED BY <3>1, <4>3, <4>4, <4>5 DEF Reason
    <3>4. CASE ScanFails
      <4>1. PICK b \in Batch(From) :
              cursor' = b /\ excused' = excused \cup {j \in Batch(From) : j <= b}
        BY <3>4 DEF ScanFails
      <4>2. i \in Batch(From)
        BY <1>2, <1>6, <2>1, <3>2, <4>1, FoundByQuery
      <4> QED BY <3>2, <4>1, <4>2 DEF Reason
    <3>5. CASE StartIdle
      <4>1. cursor' = StartAt
        BY <3>5 DEF StartIdle
      <4> QED BY <1>2, <2>1, <3>2, <4>1, StartFacts
    <3>6. CASE Triage \/ WriteFails \/ Restart \/ UNCHANGED vars
      BY <1>6, <3>2, <3>6 DEF Triage, WriteFails, Restart, vars, Passed
    <3> QED BY <2>5, <3>3, <3>4, <3>5, <3>6 DEF Quiet
  <2> QED BY <2>2, <2>3, <2>4, <2>5, NextCases
<1> QED BY <1>4, <1>5, <1>6

-----------------------------------------------------------------------------
(* The theorems *)

LEMMA Initially == Init => IInv
<1> SUFFICES ASSUME Init PROVE IInv
  OBVIOUS
<1>1. msgs = <<>> /\ Len(msgs) = 0 /\ msgs \in Seq(Msg) /\ Ids = {}
  BY DEF Init, Ids
<1>2. Typed
  <2>1. tickets \in [Tickets -> [open : BOOLEAN, replied : BOOLEAN]]
    BY DEF Init
  <2>2. /\ cursor = 0 /\ started = FALSE /\ inFlight = {} /\ closeSet = {}
        /\ pending = {} /\ replies = {} /\ handed = {} /\ excused = {}
    BY DEF Init
  <2>3. 0 \in 0 .. Len(msgs)
    BY <1>1
  <2> QED BY <1>1, <2>1, <2>2, <2>3 DEF Typed
<1>3. AnswersInv /\ RepliedInv /\ LossInv
  BY <1>1 DEF AnswersInv, RepliedInv, LossInv
<1>4. TakenInv /\ FlightInv /\ CloseInv
  BY DEF Init, TakenInv, FlightInv, CloseInv
<1> QED BY <1>2, <1>3, <1>4 DEF IInv, WorkInv

\* What a run holds, the tickets in flight and the tickets to be closed all go
\* back to messages that were taken, in every reachable state (_ticket_worker).
THEOREM WorkInvariance == Spec => []WorkInv
<1>1. Init => WorkInv
  BY Initially DEF IInv
<1>2. WorkInv /\ [Next]_vars => WorkInv'
  BY TypedStep, AnswersStep, TakenStep, FlightStep, CloseStep DEF WorkInv
<1> QED BY <1>1, <1>2, PTL DEF Spec

\* A message gets one answer of the worker at most, for any number of failures
\* and restarts (the check for a later answer in _ticket_worker).
THEOREM OneAnswer == Spec => []AnsweredOnce
<1>1. WorkInv => AnsweredOnce
  <2> SUFFICES ASSUME WorkInv, NEW i \in Ids
               PROVE  Cardinality({j \in Ids : msgs[j].re = i}) <= 1
    BY DEF AnsweredOnce
  <2> DEFINE answers == {j \in Ids : msgs[j].re = i}
  <2>1. i # 0
    BY TypedFacts DEF WorkInv
  <2>2. \A k, l \in answers : k = l
    BY <2>1 DEF WorkInv, AnswersInv
  <2>3. CASE answers = {}
    <3>1. Cardinality(answers) = 0
      BY <2>3, FS_EmptySet
    <3> QED BY <3>1
  <2>4. CASE answers # {}
    <3>1. PICK k \in answers : TRUE
      BY <2>4
    <3>2. answers = {k}
      BY <2>2, <3>1
    <3>3. Cardinality(answers) = 1
      BY <3>2, FS_Singleton
    <3> QED BY <3>3
  <2> QED BY <2>3, <2>4
<1> QED BY <1>1, WorkInvariance, PTL

\* The worker closes a ticket only when a message of the ticket asked for it,
\* though the set of tickets to close outlives the run (_ticket_worker, the UPDATE
\* with _close_set).
THEOREM ClosedWithReason == Spec => ClosedForAReason
<1> DEFINE Closes ==
      \A t \in Tickets :
        tickets[t].open /\ ~tickets'[t].open /\ msgs'[Len(msgs')].from = "ai"
          => \E i \in handed : msgs[i].ticket = t /\ msgs[i].class = "closing"
<1>1. WorkInv /\ [Next]_vars => Closes
  <2> SUFFICES ASSUME WorkInv, [Next]_vars, NEW t \in Tickets,
                      tickets[t].open, ~tickets'[t].open, msgs'[Len(msgs')].from = "ai"
               PROVE  \E i \in handed : msgs[i].ticket = t /\ msgs[i].class = "closing"
    OBVIOUS
  <2> USE DEF WorkInv
  <2>1. CASE PanelWrites
    BY <2>1, PanelFacts
  <2>2. CASE \E c \in Ids : Commit(c)
    BY <2>2 DEF Commit, Typed
  <2>3. CASE Quiet
    BY <2>3, QuietFacts
  <2>4. CASE Write
    <3>1. t \in closeSet
      BY <2>4 DEF Write
    <3> QED BY <3>1 DEF CloseInv
  <2> QED BY <2>1, <2>2, <2>3, <2>4, NextCases
<1>2. WorkInv /\ [Next]_vars => [Closes]_vars
  BY <1>1
<1> QED BY <1>2, WorkInvariance, PTL DEF Spec, ClosedForAReason

\* When the first message does not have id 1 (with which a new process cannot be
\* told from one that starts below it), a question is forgotten for the three
\* reasons of LossExplained only.
THEOREM LossIsExplained == ASSUME FirstId > 1 PROVE Spec => []LossExplained
<1>1. Init => IInv
  BY Initially
<1>2. IInv /\ [Next]_vars => IInv'
  BY TypedStep, AnswersStep, TakenStep, FlightStep, CloseStep, RepliedStep, LossStep
     DEF IInv, WorkInv
<1>3. IInv => LossExplained
  <2> SUFFICES ASSUME IInv, NEW i \in Ids, Forgotten(i) PROVE Reason(i)
    BY DEF LossExplained, Reason
  <2>1. Lone(i)
    BY DEF Forgotten, Lone
  <2>2. Passed(i) \/ AnswerAfter(i)
    BY DEF Forgotten, Passed, IInv, RepliedInv
  <2> QED BY <2>1, <2>2 DEF IInv, LossInv
<1> QED BY <1>1, <1>2, <1>3, PTL DEF Spec
=============================================================================
