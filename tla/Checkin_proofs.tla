---------------------------- MODULE Checkin_proofs ----------------------------
(***************************************************************************)
(* What the rows of a user keep under any number of threads, requests,     *)
(* days and faults.  None of the properties is inductive: each speaks of   *)
(* the rows, and the requests under way carry copies of them.              *)
(***************************************************************************)
EXTENDS Checkin, FiniteSetTheorems, TLAPS

N == Cardinality(Threads)
Days == 0 .. MaxDay
Item == [type : {"traffic", "balance", "points"}, amount : Nat]
UserRow == [sign : BOOLEAN, streak : Nat, u : Int, d : Int]
Request == [pc : Pcs, todo : Seq(Item), paid : BOOLEAN, date : Days,
            period : Days, user : UserRow]

Typed ==
    /\ day \in 1 .. MaxDay /\ resetDue \in BOOLEAN /\ plan \in Plans
    /\ user \in UserRow /\ points \in Int
    /\ history \in [Days -> {"none", "normal", "card"}]
    /\ reqs \in [Threads -> Request]
    /\ \A t \in Threads : reqs[t].pc = "pay" => reqs[t].todo # <<>>
    /\ faults \in Nat
    /\ period \in Days /\ marked \in SUBSET Days /\ closed \in SUBSET Days
    /\ paid \in [Days -> Nat] /\ cards \in Nat

\* Check-ins admitted in period p that have not set the flag yet, with and
\* without a payment made; cards that are past the look at the points, and paid.
Checking == {"pay", "mark"}
Paid(p) == {t \in Threads : reqs[t].pc \in Checking /\ reqs[t].period = p /\ reqs[t].paid}
Fresh(p) == {t \in Threads : reqs[t].pc \in Checking /\ reqs[t].period = p /\ ~reqs[t].paid}
Buying == {t \in Threads : reqs[t].pc = "deduct"}
Bought == {t \in Threads : reqs[t].pc = "card"}
CardDays == {n \in Days : history[n] = "card"}

-----------------------------------------------------------------------------
(* The four parts of the invariant. *)

\* The flag is up once a check-in of the period has finished; nothing belongs
\* to a period that is still to come.
Clock ==
    /\ period + (IF resetDue THEN 1 ELSE 0) < day
    /\ marked \subseteq 0 .. period /\ closed \subseteq 0 .. period
    /\ \A q \in Days : q > period => paid[q] = 0
    /\ \A t \in Threads : reqs[t].period <= period
    /\ period \in marked \cup closed => user.sign

\* While the flag is down a payment belongs to a request under way or was lost
\* to a fault, which loses N of them at most.
Payments ==
    \A p \in Days :
        /\ paid[p] + Cardinality(Fresh(p)) <= N * (1 + faults)
        /\ p \notin marked => paid[p] <= Cardinality(Paid(p)) + N * faults

\* A copy of the streak allows for what its request has still to earn.
Earned(s) == InitStreak + Cardinality(s) + cards
Owed(t) ==
    /\ reqs[t].pc \in Checking =>
          reqs[t].user.streak <= Earned(marked \ {reqs[t].period})
    /\ reqs[t].pc \in {"lookup", "points", "deduct"} =>
          reqs[t].user.streak <= Earned(marked)
    /\ reqs[t].pc \in {"card", "streak"} =>
          reqs[t].user.streak + 1 <= Earned(marked)
Streaks ==
    /\ user.streak <= Earned(marked)
    /\ \A t \in Threads : Owed(t)

Calendar == Cardinality(CardDays) + Cardinality(Bought) <= cards

Debt == points >= Cost * (Cardinality(Buying) - (N - 1))

-----------------------------------------------------------------------------
(* Finite sets. *)

LEMMA ThreadsFinite == IsFiniteSet(Threads) /\ N \in Nat \ {0}
BY CheckinAssumption, FS_CardinalityType, FS_EmptySet DEF N

LEMMA DaysFinite == IsFiniteSet(Days) /\ MaxDay \in Nat
BY CheckinAssumption, FS_Interval DEF Days

LEMMA SubsetCount ==
    ASSUME NEW T, IsFiniteSet(T), NEW S, S \subseteq T
    PROVE  /\ IsFiniteSet(S) /\ Cardinality(S) \in Nat
           /\ Cardinality(S) <= Cardinality(T)
BY FS_Subset, FS_CardinalityType

\* One element more or less.
LEMMA OneMore ==
    ASSUME NEW S, IsFiniteSet(S), NEW x, NEW R, R \subseteq S \cup {x}
    PROVE  /\ Cardinality(R) <= Cardinality(S) + 1
           /\ Cardinality(S) \in Nat /\ Cardinality(R) \in Nat
<1>1. Cardinality(S) \in Nat
  BY FS_CardinalityType
<1>2. /\ IsFiniteSet(S \cup {x})
      /\ Cardinality(S \cup {x}) = IF x \in S THEN Cardinality(S) ELSE Cardinality(S) + 1
  BY FS_AddElement
<1>3. Cardinality(R) <= Cardinality(S \cup {x}) /\ Cardinality(R) \in Nat
  BY <1>2, SubsetCount
<1>4. QED
  BY <1>1, <1>2, <1>3

LEMMA OneLess ==
    ASSUME NEW S, IsFiniteSet(S), NEW x \in S, NEW R, R \subseteq S \ {x}
    PROVE  /\ Cardinality(R) + 1 <= Cardinality(S)
           /\ Cardinality(S) \in Nat /\ Cardinality(R) \in Nat
<1>1. /\ IsFiniteSet(S \ {x}) /\ Cardinality(S) \in Nat
      /\ Cardinality(S \ {x}) = Cardinality(S) - 1
  BY FS_RemoveElement, FS_CardinalityType
<1>2. QED
  BY <1>1, SubsetCount

\* Two disjoint sets of threads.
LEMMA DisjointCount ==
    ASSUME NEW A \in SUBSET Threads, NEW B \in SUBSET Threads, A \cap B = {}
    PROVE  /\ Cardinality(A) + Cardinality(B) <= N
           /\ Cardinality(A) \in Nat /\ Cardinality(B) \in Nat
<1>1. IsFiniteSet(A) /\ IsFiniteSet(B) /\ A \cup B \subseteq Threads
  BY ThreadsFinite, FS_Subset
<1>2. /\ Cardinality(A) \in Nat /\ Cardinality(B) \in Nat
      /\ Cardinality(A \cap B) = 0
  BY <1>1, FS_EmptySet, FS_CardinalityType
<1>3. Cardinality(A \cup B) = Cardinality(A) + Cardinality(B) - Cardinality(A \cap B)
  BY <1>1, FS_Union
<1>4. Cardinality(A \cup B) <= N
  BY <1>1, ThreadsFinite, SubsetCount DEF N
<1>5. QED
  BY <1>2, <1>3, <1>4

-----------------------------------------------------------------------------
(* Types. *)

LEMMA IdleType == Idle \in Request /\ Idle.pc = "idle"
<1>1. 0 \in Days /\ <<>> \in Seq(Item)
  BY DaysFinite DEF Days
<1>2. QED
  BY <1>1 DEF Idle, Request, UserRow, Pcs

LEMMA RewardsType ==
    ASSUME NEW streak, NEW todo \in Rewards(streak)
    PROVE  todo \in Seq(Item) /\ todo # <<>>
<1> DEFINE bonus == IF streak \in Milestones THEN <<BalancePay>> ELSE <<>>
           Draws == {<<TrafficPay(n)>> : n \in TrafficSizes}
                      \cup {<<TrafficPay(n), BalancePay>> : n \in TrafficSizes}
                      \cup {<<BalancePay>>, <<PointsPay>>}
<1>1. /\ BalancePay \in Item /\ PointsPay \in Item
      /\ \A n \in TrafficSizes : TrafficPay(n) \in Item
  BY CheckinAssumption DEF BalancePay, PointsPay, TrafficPay, Item
<1>2. bonus \in Seq(Item)
  BY <1>1
<1>3. \A draw \in Draws : draw \in Seq(Item) /\ Len(draw) >= 1
  <2>1. \A a \in Item : <<a>> \in Seq(Item) /\ Len(<<a>>) = 1
    OBVIOUS
  <2>2. \A a, b \in Item : <<a, b>> \in Seq(Item) /\ Len(<<a, b>>) = 2
    OBVIOUS
  <2>3. \A draw \in Draws : \/ \E a \in Item : draw = <<a>>
                            \/ \E a, b \in Item : draw = <<a, b>>
    BY <1>1, Zenon
  <2> HIDE DEF Draws
  <2>4. \A draw \in Draws : draw \in Seq(Item)
    BY <2>1, <2>2, <2>3, Zenon
  <2>5. ASSUME NEW draw \in Draws
        PROVE  Len(draw) >= 1
    <3>1. CASE \E a \in Item : draw = <<a>>
      BY <3>1
    <3>2. CASE \E a, b \in Item : draw = <<a, b>>
      BY <3>2
    <3>3. QED
      BY <2>3, <3>1, <3>2, Zenon
  <2>6. QED
    BY <2>4, <2>5
<1>4. PICK draw \in Draws : todo = draw \o bonus
  BY DEF Rewards
<1> HIDE DEF bonus, Draws
<1>5. Len(todo) = Len(draw) + Len(bonus) /\ todo \in Seq(Item)
  BY <1>2, <1>3, <1>4
<1>6. Len(bonus) \in Nat /\ Len(draw) \in Nat
  BY <1>2, <1>3
<1>7. todo # <<>>
  BY <1>3, <1>5, <1>6
<1>8. QED
  BY <1>5, <1>7

\* Both counters of a row are replaced.
Counters(row, u, d) == [row EXCEPT !.u = u, !.d = d]

LEMMA CountersType ==
    ASSUME NEW row \in UserRow, NEW u \in Int, NEW d \in Int
    PROVE  /\ Counters(row, u, d) \in UserRow
           /\ Counters(row, u, d).streak = row.streak
           /\ Counters(row, u, d).sign = row.sign
BY DEF Counters, UserRow

LEMMA CopyType ==
    ASSUME NEW row \in UserRow, NEW todo
    PROVE  /\ Copy(row, todo) \in UserRow
           /\ Copy(row, todo).streak = row.streak
<1>1. Copy(row, todo) \in {row, Counters(row, 0, 0)}
  BY DEF Copy, Counters
<1>2. QED
  BY <1>1, CountersType

LEMMA TakeOffType ==
    ASSUME NEW row \in UserRow, NEW copy \in UserRow, NEW n \in Nat
    PROVE  /\ TakeOff(row, copy, n) \in UserRow
           /\ TakeOff(row, copy, n).streak = row.streak
           /\ TakeOff(row, copy, n).sign = row.sign
<1>1. /\ row.u - (n - copy.d) \in Int /\ row.d - n \in Int
      /\ copy.d \in Int /\ row.u \in Int
  BY DEF UserRow
<1>2. [row EXCEPT !.d = row.d - n] = Counters(row, row.u, row.d - n)
  BY DEF Counters, UserRow
<1>3. TakeOff(row, copy, n) \in {Counters(row, 0, 0), Counters(row, row.u, row.d - n),
                                 Counters(row, row.u - (n - copy.d), 0)}
  BY <1>2, Zenon DEF TakeOff, Counters
<1>4. QED
  BY <1>1, <1>3, CountersType

LEMMA TypedInit == Init => Typed
<1> SUFFICES ASSUME Init PROVE Typed
  OBVIOUS
<1>1. day \in 1 .. MaxDay /\ 0 \in Days
  BY DaysFinite, CheckinAssumption DEF Init, Days
<1>2. user \in UserRow
  BY CheckinAssumption DEF Init, UserRow
<1>3. points \in Int
  BY CheckinAssumption DEF Init
<1>4. /\ reqs \in [Threads -> Request]
      /\ \A t \in Threads : reqs[t].pc # "pay"
  BY IdleType DEF Init
<1>5. history \in [Days -> {"none", "normal", "card"}] /\ paid \in [Days -> Nat]
  BY DEF Init, Days
<1>6. QED
  BY <1>1, <1>2, <1>3, <1>4, <1>5 DEF Init, Typed

\* Only the request of t changes, and it stays well formed.
Moved(t) ==
    /\ reqs' \in [Threads -> Request]
    /\ \A s \in Threads : reqs'[s].pc = "pay" => reqs'[s].todo # <<>>
    /\ \A s \in Threads \ {t} : reqs'[s] = reqs[s]

LEMMA Becomes ==
    ASSUME Typed, NEW t \in Threads, NEW r \in Request, reqs' = [reqs EXCEPT ![t] = r],
           r.pc = "pay" => r.todo # <<>>
    PROVE  Moved(t) /\ reqs'[t] = r
BY DEF Typed, Moved

(***************************************************************************)
(* What each step makes of the request of its thread.                      *)
(***************************************************************************)
LEMMA GotoFacts ==
    ASSUME Typed, NEW t \in Threads, NEW pc \in Pcs \ {"pay"}, Goto(t, pc)
    PROVE  /\ Moved(t)
           /\ reqs'[t].pc = pc /\ reqs'[t].period = reqs[t].period
           /\ reqs'[t].user = reqs[t].user
<1> DEFINE r == [reqs[t] EXCEPT !.pc = pc]
<1>1. reqs[t] \in Request
  BY DEF Typed
<1>2. /\ r \in Request /\ r.pc = pc
      /\ r.period = reqs[t].period /\ r.user = reqs[t].user
  BY <1>1 DEF Request
<1>3. reqs' = [reqs EXCEPT ![t] = r]
  BY DEF Goto, Typed
<1> HIDE DEF r
<1>4. Moved(t) /\ reqs'[t] = r
  BY <1>2, <1>3, Becomes
<1>5. QED
  BY <1>2, <1>4

LEMMA LeaveFacts ==
    ASSUME Typed, NEW t \in Threads, Leave(t)
    PROVE  Moved(t) /\ reqs'[t].pc = "idle" /\ reqs'[t].period = 0
<1>1. Moved(t) /\ reqs'[t] = Idle
  BY IdleType, Becomes DEF Leave
<1>2. QED
  BY <1>1 DEF Idle

LEMMA AdmitFacts ==
    ASSUME Typed, NEW t \in Threads, Admit(t)
    PROVE  /\ Moved(t) /\ ~user.sign
           /\ reqs[t].pc = "idle" /\ reqs'[t].pc = "pay"
           /\ reqs'[t].period = period /\ reqs'[t].user.streak = user.streak
<1>1. PICK todo \in Rewards(user.streak + 1) :
        reqs' = [reqs EXCEPT ![t] = [reqs[t] EXCEPT !.pc = "pay", !.todo = todo,
                                       !.user = Copy(user, todo), !.period = period]]
  BY DEF Admit, Typed
<1> DEFINE copy == Copy(user, todo)
           r == [reqs[t] EXCEPT !.pc = "pay", !.todo = todo, !.user = copy, !.period = period]
<1>2. /\ reqs[t] \in Request /\ user \in UserRow /\ period \in Days
      /\ todo \in Seq(Item) /\ todo # <<>>
  BY RewardsType DEF Typed
<1>3. copy \in UserRow /\ copy.streak = user.streak
  BY <1>2, CopyType
<1> HIDE DEF copy
<1>4. /\ r \in Request /\ r.pc = "pay" /\ r.todo = todo
      /\ r.period = period /\ r.user = copy
  BY <1>2, <1>3 DEF Request, Pcs
<1>5. reqs' = [reqs EXCEPT ![t] = r]
  BY <1>1 DEF copy
<1> HIDE DEF r
<1>6. Moved(t) /\ reqs'[t] = r
  BY <1>2, <1>4, <1>5, Becomes
<1>7. QED
  BY <1>3, <1>4, <1>6 DEF Admit, Served, At, CanCheckin

LEMMA PayFacts ==
    ASSUME Typed, NEW t \in Threads, Pay(t)
    PROVE  /\ Moved(t)
           /\ reqs[t].pc = "pay" /\ reqs'[t].pc \in Checking /\ reqs'[t].paid
           /\ reqs'[t].period = reqs[t].period
           /\ reqs'[t].user.streak = reqs[t].user.streak
           /\ user' \in UserRow /\ user'.streak = user.streak /\ user'.sign = user.sign
           /\ points' \in Int /\ points' >= points
<1> DEFINE item == Head(reqs[t].todo)
           rest == Tail(reqs[t].todo)
           copy == Copy(reqs[t].user, rest)
           pc == IF rest = <<>> THEN "mark" ELSE "pay"
           r == [reqs[t] EXCEPT !.todo = rest, !.paid = TRUE, !.user = copy, !.pc = pc]
<1>1. /\ reqs[t] \in Request /\ reqs[t].pc = "pay" /\ reqs[t].todo # <<>>
      /\ user \in UserRow /\ points \in Int /\ reqs[t].user \in UserRow
  BY DEF Pay, At, Typed, Request
<1>2. reqs[t].todo \in Seq(Item)
  BY <1>1 DEF Request
<1>3. item \in Item /\ rest \in Seq(Item)
  BY <1>1, <1>2
<1>4. copy \in UserRow /\ copy.streak = reqs[t].user.streak
  BY <1>1, CopyType
<1>5. reqs' = [reqs EXCEPT ![t] = r]
  BY DEF Pay
<1>6. user' = IF item.type = "traffic" THEN TakeOff(user, reqs[t].user, item.amount) ELSE user
  BY DEF Pay
<1>7. points' = IF item.type = "points" THEN points + item.amount ELSE points
  BY DEF Pay
<1> HIDE DEF copy, item, rest
<1>8. item.amount \in Nat
  BY <1>3 DEF Item
<1>9. user' \in UserRow /\ user'.streak = user.streak /\ user'.sign = user.sign
  BY <1>1, <1>6, <1>8, TakeOffType
<1>10. points' \in Int /\ points' >= points
  BY <1>1, <1>7, <1>8
<1>11. pc \in Checking /\ pc \in Pcs /\ (pc = "pay" => rest # <<>>)
  BY DEF Checking, Pcs
<1> HIDE DEF pc
<1>12. /\ r \in Request /\ r.pc = pc /\ r.todo = rest /\ r.paid
       /\ r.period = reqs[t].period /\ r.user = copy
  BY <1>1, <1>3, <1>4, <1>11 DEF Request
<1> HIDE DEF r
<1>13. Moved(t) /\ reqs'[t] = r
  BY <1>5, <1>11, <1>12, Becomes
<1>14. QED
  BY <1>1, <1>4, <1>9, <1>10, <1>11, <1>12, <1>13

LEMMA SkipFacts ==
    ASSUME Typed, NEW t \in Threads, SkipPoints(t)
    PROVE  /\ Moved(t)
           /\ reqs[t].pc = "pay" /\ reqs'[t].pc \in Checking
           /\ reqs'[t].paid = reqs[t].paid
           /\ reqs'[t].period = reqs[t].period
           /\ reqs'[t].user = reqs[t].user
<1> DEFINE rest == Tail(reqs[t].todo)
           pc == IF rest = <<>> THEN "mark" ELSE "pay"
           r == [reqs[t] EXCEPT !.todo = rest, !.pc = pc]
<1>1. /\ reqs[t] \in Request /\ reqs[t].pc = "pay" /\ reqs[t].todo # <<>>
  BY DEF SkipPoints, At, Typed
<1>2. reqs[t].todo \in Seq(Item)
  BY <1>1 DEF Request
<1>3. rest \in Seq(Item)
  BY <1>1, <1>2
<1>4. reqs' = [reqs EXCEPT ![t] = r]
  BY DEF SkipPoints
<1> HIDE DEF rest
<1>5. pc \in Checking /\ pc \in Pcs /\ (pc = "pay" => rest # <<>>)
  BY DEF Checking, Pcs
<1> HIDE DEF pc
<1>6. /\ r \in Request /\ r.pc = pc /\ r.todo = rest /\ r.paid = reqs[t].paid
      /\ r.period = reqs[t].period /\ r.user = reqs[t].user
  BY <1>1, <1>3, <1>5 DEF Request
<1> HIDE DEF r
<1>7. Moved(t) /\ reqs'[t] = r
  BY <1>4, <1>5, <1>6, Becomes
<1>8. QED
  BY <1>1, <1>5, <1>6, <1>7

LEMMA MarkFacts ==
    ASSUME Typed, NEW t \in Threads, MarkSigned(t)
    PROVE  /\ Moved(t)
           /\ reqs[t].pc = "mark" /\ reqs'[t].pc = "record" /\ reqs'[t].period = 0
           /\ user' \in UserRow /\ user'.sign
           /\ user'.streak = reqs[t].user.streak + 1
<1> DEFINE r == [Idle EXCEPT !.pc = "record", !.date = day]
<1>1. /\ reqs[t].pc = "mark" /\ day \in Days
      /\ user \in UserRow /\ reqs[t].user \in UserRow
  BY DaysFinite DEF MarkSigned, At, Typed, Request, Days
<1>2. reqs[t].user.streak \in Nat
  BY <1>1 DEF UserRow
<1>3. /\ user' \in UserRow /\ user'.sign
      /\ user'.streak = reqs[t].user.streak + 1
  <2> DEFINE n == reqs[t].user.streak + 1
  <2>1. n \in Nat /\ user' = [user EXCEPT !.sign = TRUE, !.streak = n]
    BY <1>2 DEF MarkSigned
  <2> HIDE DEF n
  <2>2. user' \in UserRow /\ user'.sign /\ user'.streak = n
    BY <1>1, <2>1 DEF UserRow
  <2>3. QED
    BY <2>2 DEF n
<1>4. /\ r \in Request /\ r.pc = "record" /\ r.period = 0
  BY <1>1, IdleType DEF Request, Idle, Pcs
<1>5. reqs' = [reqs EXCEPT ![t] = r]
  BY DEF MarkSigned
<1> HIDE DEF r
<1>6. Moved(t) /\ reqs'[t] = r
  BY <1>4, <1>5, Becomes
<1>7. QED
  BY <1>1, <1>3, <1>4, <1>6

LEMMA ResignFacts ==
    ASSUME Typed, NEW t \in Threads, BeginResign(t)
    PROVE  /\ Moved(t)
           /\ reqs[t].pc = "idle" /\ reqs'[t].pc = "lookup"
           /\ reqs'[t].period = reqs[t].period
           /\ reqs'[t].user.streak = user.streak
<1> DEFINE copy == Copy(user, <<>>)
           r == [reqs[t] EXCEPT !.pc = "lookup", !.user = copy, !.date = day - 1]
<1>1. /\ reqs[t] \in Request /\ reqs[t].pc = "idle"
      /\ user \in UserRow /\ day - 1 \in Days
  BY DaysFinite DEF BeginResign, Served, At, Typed, Days
<1>2. copy \in UserRow /\ copy.streak = user.streak
  BY <1>1, CopyType
<1>3. reqs' = [reqs EXCEPT ![t] = r]
  BY DEF BeginResign
<1> HIDE DEF copy
<1>4. /\ r \in Request /\ r.pc = "lookup"
      /\ r.period = reqs[t].period /\ r.user = copy
  BY <1>1, <1>2 DEF Request, Pcs
<1> HIDE DEF r
<1>5. Moved(t) /\ reqs'[t] = r
  BY <1>3, <1>4, Becomes
<1>6. QED
  BY <1>1, <1>2, <1>4, <1>5

\* A request that fails leaves; it was past its admission.
Failing == {"pay", "mark", "lookup", "points", "deduct", "streak"}

(***************************************************************************)
(* Types are kept: one step per action.  The period stays below the day.   *)
(***************************************************************************)
LEMMA TypedNext ==
    ASSUME Typed, Clock, [Next]_vars
    PROVE  Typed'
<1>1. CASE UNCHANGED vars
  BY <1>1 DEF vars, Typed
<1>2. ASSUME NEW t \in Threads, Admit(t)
      PROVE  Typed'
  BY <1>2, AdmitFacts DEF Admit, Moved, Typed, ghosts
<1>3. ASSUME NEW t \in Threads, Pay(t)
      PROVE  Typed'
  <2>1. reqs[t].period \in Days
    BY DEF Typed, Request
  <2>2. paid' \in [Days -> Nat]
    BY <1>3, <2>1 DEF Pay, Typed
  <2>3. /\ UNCHANGED <<day, resetDue, plan, counted, history, sent, faults, period,
                       marked, closed, cards>>
    BY <1>3 DEF Pay
  <2>4. QED
    BY <1>3, <2>2, <2>3, PayFacts DEF Moved, Typed
<1>4. ASSUME NEW t \in Threads, SkipPoints(t)
      PROVE  Typed'
  <2>1. /\ faults' = faults + 1
        /\ UNCHANGED <<day, resetDue, plan, counted, user, points, history, sent, ghosts>>
    BY <1>4 DEF SkipPoints
  <2>2. QED
    BY <1>4, <2>1, SkipFacts DEF Moved, Typed, ghosts
<1>5. ASSUME NEW t \in Threads, MarkSigned(t)
      PROVE  Typed'
  <2>1. /\ marked' = marked \cup {reqs[t].period} /\ closed' = closed \cup {period}
        /\ UNCHANGED <<day, resetDue, plan, counted, points, history, sent, faults,
                       period, paid, cards>>
    BY <1>5 DEF MarkSigned
  <2>2. reqs[t].period \in Days
    BY DEF Typed, Request
  <2>3. QED
    BY <1>5, <2>1, <2>2, MarkFacts DEF Moved, Typed
<1>6. ASSUME NEW t \in Threads, Record(t)
      PROVE  Typed'
  <2>1. /\ Leave(t)
        /\ UNCHANGED <<day, resetDue, plan, counted, user, points, sent, ghosts>>
        /\ faults' = faults \/ faults' = faults + 1
        /\ history' = history \/ history' = [history EXCEPT ![reqs[t].date] = "normal"]
    BY <1>6 DEF Record
  <2>2. faults' \in Nat
    BY <2>1 DEF Typed
  <2>3. history' \in [Days -> {"none", "normal", "card"}]
    BY <2>1 DEF Typed
  <2>4. QED
    BY <2>1, <2>2, <2>3, LeaveFacts, Zenon DEF Moved, Typed, ghosts
<1>7. ASSUME NEW t \in Threads, BeginResign(t)
      PROVE  Typed'
  BY <1>7, ResignFacts DEF BeginResign, Moved, Typed, ghosts
<1>8. ASSUME NEW t \in Threads, LookUpYesterday(t)
      PROVE  Typed'
  BY <1>8, LeaveFacts, GotoFacts DEF LookUpYesterday, Moved, Typed, ghosts, Pcs
<1>9. ASSUME NEW t \in Threads, CheckPoints(t)
      PROVE  Typed'
  BY <1>9, LeaveFacts, GotoFacts DEF CheckPoints, Moved, Typed, ghosts, Pcs
<1>10. ASSUME NEW t \in Threads, Deduct(t)
       PROVE  Typed'
  BY <1>10, GotoFacts, CheckinAssumption DEF Deduct, Moved, Typed, Pcs
<1>11. ASSUME NEW t \in Threads, RecordCard(t)
       PROVE  Typed'
  BY <1>11, GotoFacts DEF RecordCard, Moved, Typed, ghosts, Pcs
<1>12. ASSUME NEW t \in Threads, RestoreStreak(t)
       PROVE  Typed'
  <2>1. reqs[t].user.streak + 1 \in Nat
    BY DEF Typed, Request, UserRow
  <2>2. user' \in UserRow
    BY <1>12, <2>1 DEF RestoreStreak, Typed, UserRow
  <2>3. UNCHANGED <<day, resetDue, plan, counted, points, history, sent, faults, ghosts>>
    BY <1>12 DEF RestoreStreak
  <2>4. QED
    BY <1>12, <2>2, <2>3, LeaveFacts DEF RestoreStreak, Moved, Typed, ghosts
<1>13. ASSUME NEW t \in Threads, Fail(t)
       PROVE  Typed'
  BY <1>13, LeaveFacts DEF Fail, Moved, Typed, ghosts
<1>14. CASE Restart
  <2>1. \A t \in Threads : reqs'[t] = Idle
    BY <1>14 DEF Restart
  <2>2. /\ reqs' \in [Threads -> Request]
        /\ \A t \in Threads : reqs'[t].pc = "pay" => reqs'[t].todo # <<>>
    BY <1>14, <2>1, IdleType DEF Restart
  <2>3. /\ faults' = faults + 1 /\ resetDue' = FALSE
        /\ UNCHANGED <<day, plan, user, points, history, period, paid, marked, closed, cards>>
    BY <1>14 DEF Restart, ghosts
  <2>4. faults' \in Nat
    BY <2>3 DEF Typed
  <2>5. resetDue' \in BOOLEAN
    BY <2>3, Zenon
  <2>6. QED
    BY <2>2, <2>3, <2>4, <2>5, Zenon DEF Typed
<1>15. CASE Midnight
  BY <1>15, DaysFinite DEF Midnight, Typed, ghosts
<1>16. CASE ClearAppSign
  <2>1. user' \in UserRow
    <3>1. \A n \in Nat : n \div 2 \in Nat
      OBVIOUS
    <3>2. user.streak \in Nat
      BY DEF Typed, UserRow
    <3>3. QED
      BY <1>16, <3>1, <3>2 DEF ClearAppSign, Typed, UserRow
  <2>2. period' \in Days
    BY <1>16, DaysFinite DEF ClearAppSign, Clock, Typed, Days
  <2>3. QED
    BY <1>16, <2>1, <2>2 DEF ClearAppSign, Typed
<1>17. CASE Consume
  <2>1. user' \in UserRow
    BY <1>17 DEF Consume, Typed, UserRow
  <2>2. QED
    BY <1>17, <2>1 DEF Consume, Typed, ghosts
<1>18. CASE ResetTraffic
  <2>1. user' \in UserRow
    <3>1. user' = Counters(user, 0, 0)
      BY <1>18 DEF ResetTraffic, Counters
    <3>2. Counters(user, 0, 0) \in UserRow
      BY CountersType DEF Typed
    <3>3. QED
      BY <3>1, <3>2
  <2>2. QED
    BY <1>18, <2>1 DEF ResetTraffic, Typed, ghosts
<1>19. QED
  BY <1>1, <1>2, <1>3, <1>4, <1>5, <1>6, <1>7, <1>8, <1>9, <1>10, <1>11, <1>12,
     <1>13, <1>14, <1>15, <1>16, <1>17, <1>18 DEF Next, CheckinStep, ResignStep

-----------------------------------------------------------------------------
(* The clock. *)

LEMMA ClockInit == Init => Clock
BY IdleType DEF Init, Clock, Idle, Days

\* The requests of the threads belong to a period that has come.
LEMMA ClockMoved ==
    ASSUME Typed, Clock, NEW t \in Threads, Moved(t),
           reqs'[t].period \in {0, period, reqs[t].period},
           UNCHANGED <<day, resetDue, period>>
    PROVE  /\ period' + (IF resetDue' THEN 1 ELSE 0) < day'
           /\ \A s \in Threads : reqs'[s].period <= period'
<1>1. \A s \in Threads : reqs[s].period <= period
  BY DEF Clock
<1>2. period \in Nat
  BY DaysFinite DEF Typed, Days
<1>3. \A s \in Threads : reqs'[s].period <= period
  BY <1>1, <1>2 DEF Moved
<1>4. QED
  BY <1>3 DEF Clock

LEMMA ClockNext ==
    ASSUME Typed, Clock, [Next]_vars
    PROVE  Clock'
<1> DEFINE Behind == period + (IF resetDue THEN 1 ELSE 0) < day
           Asked == \A t \in Threads : reqs[t].period <= period
           Paying == \A q \in Days : q > period => paid[q] = 0
<1>1. CASE UNCHANGED vars
  BY <1>1 DEF vars, Clock
<1>2. ASSUME NEW t \in Threads, Admit(t)
      PROVE  Clock'
  <2>1. Behind' /\ Asked'
    BY <1>2, AdmitFacts, ClockMoved DEF Admit, ghosts
  <2>2. QED
    BY <1>2, <2>1 DEF Admit, Clock, ghosts
<1>3. ASSUME NEW t \in Threads, Pay(t)
      PROVE  Clock'
  <2>1. UNCHANGED <<day, resetDue, period, marked, closed>>
    BY <1>3 DEF Pay
  <2>2. Behind' /\ Asked' /\ user'.sign = user.sign
    BY <1>3, <2>1, PayFacts, ClockMoved
  <2>3. reqs[t].period \in Days /\ reqs[t].period <= period
    BY DEF Typed, Request, Clock
  <2>4. Paying'
    <3>1. paid' = paid \/ paid' = [paid EXCEPT ![reqs[t].period] = @ + 1]
      BY <1>3 DEF Pay
    <3>2. Paying /\ paid \in [Days -> Nat] /\ period \in Int
      BY DaysFinite DEF Clock, Typed, Days
    <3>3. \A q \in Days : q > period => q # reqs[t].period
      BY <2>3, <3>2 DEF Days
    <3>4. \A q \in Days : q # reqs[t].period => paid'[q] = paid[q]
      BY <3>1, <3>2
    <3>5. QED
      BY <2>1, <3>2, <3>3, <3>4
  <2>5. QED
    BY <2>1, <2>2, <2>4 DEF Clock
<1>4. ASSUME NEW t \in Threads, SkipPoints(t)
      PROVE  Clock'
  <2>1. Behind' /\ Asked'
    BY <1>4, SkipFacts, ClockMoved DEF SkipPoints, ghosts
  <2>2. QED
    BY <1>4, <2>1 DEF SkipPoints, Clock, ghosts
<1>5. ASSUME NEW t \in Threads, MarkSigned(t)
      PROVE  Clock'
  <2>1. /\ UNCHANGED <<day, resetDue, period, paid>>
        /\ marked' = marked \cup {reqs[t].period} /\ closed' = closed \cup {period}
    BY <1>5 DEF MarkSigned
  <2>2. Behind' /\ Asked' /\ user'.sign
    BY <1>5, <2>1, MarkFacts, ClockMoved
  <2>3. reqs[t].period \in 0 .. period /\ period \in 0 .. period
    BY DaysFinite DEF Typed, Request, Clock, Days
  <2>4. QED
    BY <2>1, <2>2, <2>3 DEF Clock
<1>6. ASSUME NEW t \in Threads, Record(t)
      PROVE  Clock'
  <2>1. Behind' /\ Asked'
    BY <1>6, LeaveFacts, ClockMoved DEF Record, ghosts
  <2>2. QED
    BY <1>6, <2>1 DEF Record, Clock, ghosts
<1>7. ASSUME NEW t \in Threads, BeginResign(t)
      PROVE  Clock'
  <2>1. Behind' /\ Asked'
    BY <1>7, ResignFacts, ClockMoved DEF BeginResign, ghosts
  <2>2. QED
    BY <1>7, <2>1 DEF BeginResign, Clock, ghosts
<1>8. ASSUME NEW t \in Threads, LookUpYesterday(t) \/ CheckPoints(t)
      PROVE  Clock'
  <2>1. UNCHANGED <<day, resetDue, period, user, paid, marked, closed>>
    BY <1>8 DEF LookUpYesterday, CheckPoints, ghosts
  <2>2. Leave(t) \/ \E pc \in Pcs \ {"pay"} : Goto(t, pc)
    BY <1>8 DEF LookUpYesterday, CheckPoints, Pcs
  <2>3. Behind' /\ Asked'
    BY <2>1, <2>2, LeaveFacts, GotoFacts, ClockMoved
  <2>4. QED
    BY <2>1, <2>3 DEF Clock
<1>9. ASSUME NEW t \in Threads, Deduct(t) \/ RecordCard(t)
      PROVE  Clock'
  <2>1. UNCHANGED <<day, resetDue, period, user, paid, marked, closed>>
    BY <1>9 DEF Deduct, RecordCard, ghosts
  <2>2. \E pc \in Pcs \ {"pay"} : Goto(t, pc)
    BY <1>9 DEF Deduct, RecordCard, Pcs
  <2>3. Behind' /\ Asked'
    BY <2>1, <2>2, GotoFacts, ClockMoved
  <2>4. QED
    BY <2>1, <2>3 DEF Clock
<1>10. ASSUME NEW t \in Threads, RestoreStreak(t) \/ Fail(t)
       PROVE  Clock'
  <2>1. UNCHANGED <<day, resetDue, period, paid, marked, closed>> /\ Leave(t)
    BY <1>10 DEF RestoreStreak, Fail, ghosts
  <2>2. user'.sign = user.sign
    <3>1. user \in UserRow
      BY DEF Typed
    <3>2. QED
      BY <1>10, <3>1 DEF RestoreStreak, Fail, UserRow
  <2>3. Behind' /\ Asked'
    BY <2>1, LeaveFacts, ClockMoved
  <2>4. QED
    BY <2>1, <2>2, <2>3 DEF Clock
<1>11. CASE Restart
  <2>1. \A t \in Threads : reqs'[t].period = 0
    BY <1>11 DEF Restart, Idle
  <2>2. period \in Nat /\ day \in Int
    BY DaysFinite DEF Typed, Days
  <2>3. UNCHANGED <<day, user, period, paid, marked, closed>> /\ ~resetDue'
    BY <1>11 DEF Restart, ghosts
  <2>4. QED
    BY <2>1, <2>2, <2>3 DEF Clock
<1>12. CASE Midnight
  <2>1. day \in Int /\ period \in Int
    BY DaysFinite DEF Typed, Days
  <2>2. QED
    BY <1>12, <2>1 DEF Midnight, Clock, ghosts
<1>13. CASE ClearAppSign
  <2>1. day \in Int /\ period \in Nat /\ marked \cup closed \subseteq 0 .. period
    BY DaysFinite DEF Typed, Days, Clock
  <2>2. \A t \in Threads : reqs[t].period \in Int
    BY DEF Typed, Request, Days
  <2>3. /\ period' = period + 1 /\ resetDue /\ ~resetDue'
        /\ UNCHANGED <<day, reqs, paid, marked, closed>>
    BY <1>13 DEF ClearAppSign
  <2>4. period' \notin marked' \cup closed' /\ marked' \cup closed' \subseteq 0 .. period'
    BY <2>1, <2>3
  <2>5. Behind' /\ Asked'
    BY <2>1, <2>2, <2>3 DEF Clock
  <2>6. Paying'
    BY <2>1, <2>3 DEF Clock, Days
  <2>7. QED
    BY <2>4, <2>5, <2>6 DEF Clock
<1>14. CASE Consume \/ ResetTraffic
  <2>1. UNCHANGED <<day, resetDue, period, reqs, paid, marked, closed>>
    BY <1>14 DEF Consume, ResetTraffic, ghosts
  <2>2. user'.sign = user.sign
    <3>1. user \in UserRow
      BY DEF Typed
    <3>2. QED
      BY <1>14, <3>1 DEF Consume, ResetTraffic, UserRow
  <2>3. QED
    BY <2>1, <2>2 DEF Clock
<1>15. QED
  BY <1>1, <1>2, <1>3, <1>4, <1>5, <1>6, <1>7, <1>8, <1>9, <1>10, <1>11, <1>12,
     <1>13, <1>14 DEF Next, CheckinStep, ResignStep

-----------------------------------------------------------------------------
(* Points: who is past the look at the balance may still take a card's cost. *)

LEMMA CostTimes ==
    ASSUME NEW a \in Int, NEW b \in Int
    PROVE  /\ Cost * a \in Int
           /\ Cost * (a - 1) = Cost * a - Cost
           /\ a <= b => Cost * a <= Cost * b
<1>1. Cost \in Nat
  BY CheckinAssumption
<1>2. /\ Cost * a \in Int
      /\ Cost * (a - 1) = Cost * a - Cost
  BY <1>1
<1>3. ASSUME a <= b
      PROVE  Cost * a <= Cost * b
  <2>1. \A x, y \in Nat : x * y \in Nat
    OBVIOUS
  <2>2. b - a \in Nat
    BY <1>3
  <2>3. Cost * (b - a) \in Nat
    BY <1>1, <2>1, <2>2
  <2>4. Cost * (b - a) = Cost * b - Cost * a
    BY <1>1
  <2>5. Cost * a \in Int /\ Cost * b \in Int
    BY <1>1
  <2>6. QED
    BY <2>3, <2>4, <2>5
<1>4. QED
  BY <1>2, <1>3

\* The sets of threads the invariant counts.
LEMMA BuyingCount == Cardinality(Buying) \in Nat /\ Cardinality(Buying) <= N
BY ThreadsFinite, SubsetCount DEF Buying, N

LEMMA BuyingCountNext == Cardinality(Buying') \in Nat /\ Cardinality(Buying') <= N
BY ThreadsFinite, SubsetCount DEF Buying, N

LEMMA DebtInit == Init => Debt
<1> SUFFICES ASSUME Init PROVE Debt
  OBVIOUS
<1>1. Buying = {}
  BY IdleType DEF Init, Buying
<1>2. Cardinality(Buying) = 0
  BY <1>1, FS_EmptySet
<1>3. 0 - (N - 1) <= 0 /\ 0 - (N - 1) \in Int
  BY ThreadsFinite
<1>4. Cost * (0 - (N - 1)) <= Cost * 0 /\ Cost * (0 - (N - 1)) \in Int
  BY <1>3, CostTimes
<1>5. Cost * 0 = 0 /\ InitPoints \in Nat
  BY CheckinAssumption
<1>6. points = InitPoints
  BY DEF Init
<1>7. QED
  BY <1>2, <1>4, <1>5, <1>6 DEF Debt

\* Nobody comes to the deduction and nothing is taken.
LEMMA DebtKept ==
    ASSUME Typed, Debt, Buying' \subseteq Buying, points' \in Int, points' >= points
    PROVE  Debt'
<1> DEFINE a == Cardinality(Buying') - (N - 1)
           b == Cardinality(Buying) - (N - 1)
<1>1. Cardinality(Buying') <= Cardinality(Buying)
  BY ThreadsFinite, SubsetCount DEF Buying
<1>2. a \in Int /\ b \in Int /\ a <= b
  BY <1>1, BuyingCount, BuyingCountNext, ThreadsFinite
<1>3. points >= Cost * b /\ points \in Int
  BY DEF Debt, Typed
<1> HIDE DEF a, b
<1>4. Cost * a \in Int /\ Cost * b \in Int /\ Cost * a <= Cost * b
  BY <1>2, CostTimes
<1>5. points' >= Cost * a
  BY <1>3, <1>4
<1>6. QED
  BY <1>5 DEF Debt, a, N

\* The request that moves does not come to the deduction.
LEMMA BuyingMoved ==
    ASSUME NEW t \in Threads, Moved(t), reqs'[t].pc # "deduct"
    PROVE  Buying' \subseteq Buying
BY DEF Moved, Buying

LEMMA DebtNext ==
    ASSUME Typed, Debt, [Next]_vars
    PROVE  Debt'
<1>0. points \in Int
  BY DEF Typed
<1>1. CASE UNCHANGED vars
  BY <1>0, <1>1, DebtKept DEF vars, Buying
<1>2. ASSUME NEW t \in Threads, Admit(t) \/ SkipPoints(t) \/ MarkSigned(t) \/ BeginResign(t)
      PROVE  Debt'
  <2>1. Moved(t) /\ reqs'[t].pc # "deduct"
    BY <1>2, AdmitFacts, SkipFacts, MarkFacts, ResignFacts DEF Checking
  <2>2. points' = points
    BY <1>2 DEF Admit, SkipPoints, MarkSigned, BeginResign
  <2>3. QED
    BY <1>0, <2>1, <2>2, BuyingMoved, DebtKept
<1>3. ASSUME NEW t \in Threads, Pay(t)
      PROVE  Debt'
  <2>1. Moved(t) /\ reqs'[t].pc # "deduct" /\ points' \in Int /\ points' >= points
    BY <1>3, PayFacts DEF Checking
  <2>2. QED
    BY <2>1, BuyingMoved, DebtKept
<1>4. ASSUME NEW t \in Threads, Record(t) \/ RestoreStreak(t) \/ Fail(t)
      PROVE  Debt'
  <2>1. Leave(t) /\ points' = points
    BY <1>4 DEF Record, RestoreStreak, Fail
  <2>2. Moved(t) /\ reqs'[t].pc # "deduct"
    BY <2>1, LeaveFacts
  <2>3. QED
    BY <1>0, <2>1, <2>2, BuyingMoved, DebtKept
<1>5. ASSUME NEW t \in Threads, LookUpYesterday(t) \/ RecordCard(t)
      PROVE  Debt'
  <2>1. Leave(t) \/ Goto(t, "points") \/ Goto(t, "streak")
    BY <1>5 DEF LookUpYesterday, RecordCard
  <2>2. points' = points
    BY <1>5 DEF LookUpYesterday, RecordCard
  <2>3. Moved(t) /\ reqs'[t].pc # "deduct"
    BY <2>1, LeaveFacts, GotoFacts DEF Pcs
  <2>4. QED
    BY <1>0, <2>2, <2>3, BuyingMoved, DebtKept
<1>6. ASSUME NEW t \in Threads, CheckPoints(t)
      PROVE  Debt'
  <2>1. points' = points
    BY <1>6 DEF CheckPoints
  <2>2. CASE Leave(t)
    BY <1>0, <2>1, <2>2, LeaveFacts, BuyingMoved, DebtKept
  <2>3. CASE points >= Cost
    <3> DEFINE a == Cardinality(Buying') - (N - 1)
    <3>1. a \in Int /\ a <= 1
      BY BuyingCountNext, ThreadsFinite
    <3> HIDE DEF a
    <3>2. Cost * a <= Cost * 1 /\ Cost * a \in Int
      BY <3>1, CostTimes
    <3>3. Cost * 1 = Cost /\ Cost \in Int
      BY CheckinAssumption
    <3>4. points' >= Cost * a
      BY <1>0, <2>1, <2>3, <3>2, <3>3
    <3>5. QED
      BY <3>4 DEF Debt, a, N
  <2>4. QED
    BY <1>6, <2>2, <2>3 DEF CheckPoints
<1>7. ASSUME NEW t \in Threads, Deduct(t)
      PROVE  Debt'
  <2>1. points' = points - Cost /\ Goto(t, "card") /\ t \in Buying
    BY <1>7 DEF Deduct, At, Buying
  <2>2. Moved(t) /\ reqs'[t].pc = "card"
    BY <2>1, GotoFacts DEF Pcs
  <2>3. Buying' \subseteq Buying \ {t}
    BY <2>2 DEF Moved, Buying
  <2>4. IsFiniteSet(Buying)
    BY ThreadsFinite, SubsetCount DEF Buying
  <2>5. Cardinality(Buying') + 1 <= Cardinality(Buying)
    BY <2>1, <2>3, <2>4, OneLess
  <2> DEFINE a == Cardinality(Buying') - (N - 1)
             b == Cardinality(Buying) - (N - 1)
  <2>6. a \in Int /\ b \in Int /\ b - 1 \in Int /\ a <= b - 1
    BY <2>5, BuyingCount, BuyingCountNext, ThreadsFinite
  <2>7. points >= Cost * b
    BY DEF Debt
  <2> HIDE DEF a, b
  <2>8. /\ Cost * a <= Cost * (b - 1) /\ Cost * (b - 1) = Cost * b - Cost
        /\ Cost * a \in Int /\ Cost * b \in Int /\ Cost \in Int
    BY <2>6, CostTimes, CheckinAssumption
  <2>9. points' >= Cost * a
    BY <1>0, <2>1, <2>7, <2>8
  <2>10. QED
    BY <2>9 DEF Debt, a, N
<1>8. CASE Restart
  <2>1. Buying' = {}
    BY <1>8, IdleType DEF Restart, Buying
  <2>2. points' = points
    BY <1>8 DEF Restart
  <2>3. QED
    BY <1>0, <2>1, <2>2, DebtKept
<1>9. CASE Midnight \/ ClearAppSign \/ Consume \/ ResetTraffic
  <2>1. reqs' = reqs /\ points' = points
    BY <1>9 DEF Midnight, ClearAppSign, Consume, ResetTraffic
  <2>2. Buying' = Buying
    BY <2>1 DEF Buying
  <2>3. QED
    BY <1>0, <2>1, <2>2, DebtKept
<1>10. QED
  BY <1>1, <1>2, <1>3, <1>4, <1>5, <1>6, <1>7, <1>8, <1>9
     DEF Next, CheckinStep, ResignStep

-----------------------------------------------------------------------------
(* Cards: one that is paid for is in the calendar or about to be. *)

LEMMA CalendarCounts ==
    /\ IsFiniteSet(CardDays) /\ Cardinality(CardDays) \in Nat
    /\ IsFiniteSet(Bought) /\ Cardinality(Bought) \in Nat
BY ThreadsFinite, DaysFinite, SubsetCount DEF CardDays, Bought

LEMMA CalendarInit == Init => Calendar
<1> SUFFICES ASSUME Init PROVE Calendar
  OBVIOUS
<1>1. Bought = {}
  BY IdleType DEF Init, Bought
<1>2. CardDays = {}
  BY DEF Init, CardDays, Days
<1>3. QED
  BY <1>1, <1>2, FS_EmptySet DEF Init, Calendar

\* No row becomes a card's and nobody has paid.
LEMMA CalendarKept ==
    ASSUME Typed, Calendar, Bought' \subseteq Bought, CardDays' \subseteq CardDays,
           cards' = cards
    PROVE  Calendar'
<1>1. /\ Cardinality(Bought') <= Cardinality(Bought)
      /\ Cardinality(CardDays') <= Cardinality(CardDays)
      /\ Cardinality(Bought') \in Nat /\ Cardinality(CardDays') \in Nat
  BY CalendarCounts, SubsetCount
<1>2. cards \in Nat
  BY DEF Typed
<1>3. QED
  BY <1>1, <1>2, CalendarCounts DEF Calendar

LEMMA BoughtMoved ==
    ASSUME NEW t \in Threads, Moved(t), reqs'[t].pc # "card"
    PROVE  Bought' \subseteq Bought
BY DEF Moved, Bought

LEMMA CalendarNext ==
    ASSUME Typed, Calendar, [Next]_vars
    PROVE  Calendar'
<1>1. CASE UNCHANGED vars
  BY <1>1 DEF vars, Calendar, Bought, CardDays
<1>2. ASSUME NEW t \in Threads,
             Admit(t) \/ Pay(t) \/ SkipPoints(t) \/ MarkSigned(t) \/ BeginResign(t)
      PROVE  Calendar'
  <2>1. Moved(t) /\ reqs'[t].pc # "card"
    BY <1>2, AdmitFacts, PayFacts, SkipFacts, MarkFacts, ResignFacts DEF Checking
  <2>2. history' = history /\ cards' = cards
    BY <1>2 DEF Admit, Pay, SkipPoints, MarkSigned, BeginResign, ghosts
  <2>3. CardDays' = CardDays
    BY <2>2 DEF CardDays
  <2>4. QED
    BY <2>1, <2>2, <2>3, BoughtMoved, CalendarKept
<1>3. ASSUME NEW t \in Threads, RestoreStreak(t) \/ Fail(t)
      PROVE  Calendar'
  <2>1. Leave(t) /\ history' = history /\ cards' = cards
    BY <1>3 DEF RestoreStreak, Fail, ghosts
  <2>2. Moved(t) /\ reqs'[t].pc # "card" /\ CardDays' = CardDays
    BY <2>1, LeaveFacts DEF CardDays
  <2>3. QED
    BY <2>1, <2>2, BoughtMoved, CalendarKept
<1>4. ASSUME NEW t \in Threads, Record(t)
      PROVE  Calendar'
  <2>1. Leave(t) /\ cards' = cards
    BY <1>4 DEF Record, ghosts
  <2>2. Moved(t) /\ reqs'[t].pc # "card"
    BY <2>1, LeaveFacts
  <2>3. CardDays' \subseteq CardDays
    <3>1. history' = history \/ history' = [history EXCEPT ![reqs[t].date] = "normal"]
      BY <1>4 DEF Record
    <3>2. history \in [Days -> {"none", "normal", "card"}]
      BY DEF Typed
    <3>3. QED
      BY <3>1, <3>2 DEF CardDays
  <2>4. QED
    BY <2>1, <2>2, <2>3, BoughtMoved, CalendarKept
<1>5. ASSUME NEW t \in Threads, LookUpYesterday(t) \/ CheckPoints(t)
      PROVE  Calendar'
  <2>1. Leave(t) \/ Goto(t, "points") \/ Goto(t, "deduct")
    BY <1>5 DEF LookUpYesterday, CheckPoints
  <2>2. history' = history /\ cards' = cards
    BY <1>5 DEF LookUpYesterday, CheckPoints, ghosts
  <2>3. Moved(t) /\ reqs'[t].pc # "card" /\ CardDays' = CardDays
    BY <2>1, <2>2, LeaveFacts, GotoFacts DEF Pcs, CardDays
  <2>4. QED
    BY <2>2, <2>3, BoughtMoved, CalendarKept
<1>6. ASSUME NEW t \in Threads, Deduct(t)
      PROVE  Calendar'
  <2>1. Goto(t, "card") /\ history' = history /\ cards' = cards + 1
    BY <1>6 DEF Deduct
  <2>2. Moved(t)
    BY <2>1, GotoFacts DEF Pcs
  <2>3. Bought' \subseteq Bought \cup {t} /\ CardDays' = CardDays
    BY <2>1, <2>2 DEF Moved, Bought, CardDays
  <2>4. /\ Cardinality(Bought') <= Cardinality(Bought) + 1
        /\ Cardinality(Bought') \in Nat /\ Cardinality(CardDays') = Cardinality(CardDays)
    BY <2>3, CalendarCounts, OneMore
  <2>5. cards \in Nat
    BY DEF Typed
  <2>6. QED
    BY <2>1, <2>4, <2>5, CalendarCounts DEF Calendar
<1>7. ASSUME NEW t \in Threads, RecordCard(t)
      PROVE  Calendar'
  <2>1. Goto(t, "streak") /\ cards' = cards /\ t \in Bought
    BY <1>7 DEF RecordCard, ghosts, At, Bought
  <2>2. Moved(t) /\ reqs'[t].pc = "streak"
    BY <2>1, GotoFacts DEF Pcs
  <2>3. Bought' \subseteq Bought \ {t}
    BY <2>2 DEF Moved, Bought
  <2>4. CardDays' \subseteq CardDays \cup {reqs[t].date}
    <3>1. history' = history \/ history' = [history EXCEPT ![reqs[t].date] = "card"]
      BY <1>7 DEF RecordCard
    <3>2. history \in [Days -> {"none", "normal", "card"}]
      BY DEF Typed
    <3>3. QED
      BY <3>1, <3>2 DEF CardDays
  <2>5. /\ Cardinality(Bought') + 1 <= Cardinality(Bought)
        /\ Cardinality(Bought') \in Nat
    BY <2>1, <2>3, CalendarCounts, OneLess
  <2>6. /\ Cardinality(CardDays') <= Cardinality(CardDays) + 1
        /\ Cardinality(CardDays') \in Nat
    BY <2>4, CalendarCounts, OneMore
  <2>7. cards \in Nat
    BY DEF Typed
  <2>8. QED
    BY <2>1, <2>5, <2>6, <2>7, CalendarCounts DEF Calendar
<1>8. CASE Restart
  <2>1. Bought' = {}
    BY <1>8, IdleType DEF Restart, Bought
  <2>2. history' = history /\ cards' = cards
    BY <1>8 DEF Restart, ghosts
  <2>3. CardDays' = CardDays
    BY <2>2 DEF CardDays
  <2>4. QED
    BY <2>1, <2>2, <2>3, CalendarKept
<1>9. CASE Midnight \/ ClearAppSign \/ Consume \/ ResetTraffic
  <2>1. reqs' = reqs /\ history' = history /\ cards' = cards
    BY <1>9 DEF Midnight, ClearAppSign, Consume, ResetTraffic, ghosts
  <2>2. Bought' = Bought /\ CardDays' = CardDays
    BY <2>1 DEF Bought, CardDays
  <2>3. QED
    BY <2>1, <2>2, CalendarKept
<1>10. QED
  BY <1>1, <1>2, <1>3, <1>4, <1>5, <1>6, <1>7, <1>8, <1>9
     DEF Next, CheckinStep, ResignStep

-----------------------------------------------------------------------------
(* The streak. *)

\* What is earned grows with the periods and the cards.
LEMMA EarnedGrows ==
    ASSUME NEW A, NEW B, B \in SUBSET Days, A \subseteq B,
           NEW c \in Nat, NEW d \in Nat, c <= d
    PROVE  /\ InitStreak + Cardinality(A) + c \in Nat
           /\ InitStreak + Cardinality(B) + d \in Nat
           /\ InitStreak + Cardinality(A) + c <= InitStreak + Cardinality(B) + d
<1>1. IsFiniteSet(B)
  BY DaysFinite, SubsetCount
<1>2. /\ Cardinality(A) \in Nat /\ Cardinality(B) \in Nat
      /\ Cardinality(A) <= Cardinality(B)
  BY <1>1, SubsetCount, FS_CardinalityType
<1>3. QED
  BY <1>2, CheckinAssumption

LEMMA StreaksInit == Init => Streaks
<1> SUFFICES ASSUME Init PROVE Streaks
  OBVIOUS
<1>1. Cardinality(marked) = 0 /\ cards = 0 /\ user.streak = InitStreak
  BY FS_EmptySet DEF Init
<1>2. \A t \in Threads : reqs[t].pc = "idle"
  BY IdleType DEF Init
<1>3. QED
  BY <1>1, <1>2, CheckinAssumption DEF Streaks, Owed, Earned, Checking

\* A request that keeps its copy and its stage keeps its allowance.
LEMMA OwedKept ==
    ASSUME Typed, Typed', NEW s \in Threads, Owed(s), reqs'[s] = reqs[s],
           marked \subseteq marked', cards <= cards'
    PROVE  Owed(s)'
<1> DEFINE p == reqs[s].period
           before == InitStreak + Cardinality(marked) + cards
           after == InitStreak + Cardinality(marked') + cards'
           open == InitStreak + Cardinality(marked \ {p}) + cards
           openAfter == InitStreak + Cardinality(marked' \ {p}) + cards'
<1>1. /\ marked' \in SUBSET Days /\ marked' \ {p} \in SUBSET Days
      /\ marked \ {p} \subseteq marked' \ {p}
      /\ cards \in Nat /\ cards' \in Nat
  BY DEF Typed
<1>2. before \in Nat /\ after \in Nat /\ before <= after
  BY <1>1, EarnedGrows
<1>3. open \in Nat /\ openAfter \in Nat /\ open <= openAfter
  BY <1>1, EarnedGrows
<1>4. reqs[s].user.streak \in Nat
  BY DEF Typed, Request, UserRow
<1>5. /\ reqs[s].pc \in Checking => reqs[s].user.streak <= open
      /\ reqs[s].pc \in {"lookup", "points", "deduct"} => reqs[s].user.streak <= before
      /\ reqs[s].pc \in {"card", "streak"} => reqs[s].user.streak + 1 <= before
  BY DEF Owed, Earned
<1> HIDE DEF before, after, open, openAfter
<1>6. /\ reqs'[s].pc \in Checking => reqs'[s].user.streak <= openAfter
      /\ reqs'[s].pc \in {"lookup", "points", "deduct"} => reqs'[s].user.streak <= after
      /\ reqs'[s].pc \in {"card", "streak"} => reqs'[s].user.streak + 1 <= after
  BY <1>2, <1>3, <1>4, <1>5
<1>7. /\ after = InitStreak + Cardinality(marked') + cards'
      /\ openAfter = InitStreak + Cardinality(marked' \ {reqs'[s].period}) + cards'
  BY DEF after, openAfter
<1>8. QED
  BY <1>6, <1>7 DEF Owed, Earned

LEMMA StreaksKept ==
    ASSUME Typed, Typed', Streaks, NEW t \in Threads, Moved(t), Owed(t)',
           marked \subseteq marked', cards <= cards',
           user'.streak <= InitStreak + Cardinality(marked') + cards'
    PROVE  Streaks'
<1>1. \A s \in Threads \ {t} : Owed(s)'
  BY OwedKept DEF Moved, Streaks
<1>2. \A s \in Threads : Owed(s)'
  BY <1>1
<1>3. QED
  BY <1>2 DEF Streaks, Earned

\* The step leaves the row, what is earned, and all requests but one alone.
LEMMA StreaksSame ==
    ASSUME Typed, Typed', Streaks, NEW t \in Threads, Moved(t), Owed(t)',
           marked' = marked, cards' = cards, user'.streak = user.streak
    PROVE  Streaks'
<1>1. /\ cards <= cards'
      /\ user'.streak <= InitStreak + Cardinality(marked') + cards'
  BY DEF Typed, Streaks, Earned
<1>2. QED
  BY <1>1, StreaksKept

LEMMA StreaksNext ==
    ASSUME Typed, Typed', Clock, Streaks, [Next]_vars
    PROVE  Streaks'
<1>0. /\ user.streak <= InitStreak + Cardinality(marked) + cards
      /\ \A t \in Threads : Owed(t)
  BY DEF Streaks, Earned
<1>1. CASE UNCHANGED vars
  BY <1>1 DEF vars, Streaks, Owed, Earned
<1>2. ASSUME NEW t \in Threads, Admit(t)
      PROVE  Streaks'
  <2>1. UNCHANGED <<user, marked, cards>>
    BY <1>2 DEF Admit, ghosts
  <2>2. /\ Moved(t) /\ reqs'[t].pc = "pay"
        /\ reqs'[t].period = period /\ reqs'[t].user.streak = user.streak /\ ~user.sign
    BY <1>2, AdmitFacts
  <2>3. marked' \ {reqs'[t].period} = marked
    BY <2>1, <2>2 DEF Clock
  <2>4. Owed(t)'
    BY <1>0, <2>1, <2>2, <2>3 DEF Owed, Earned
  <2>5. QED
    BY <2>1, <2>2, <2>4, StreaksSame
<1>3. ASSUME NEW t \in Threads, Pay(t) \/ SkipPoints(t)
      PROVE  Streaks'
  <2>1. UNCHANGED <<marked, cards>>
    BY <1>3 DEF Pay, SkipPoints, ghosts
  <2>2. /\ Moved(t) /\ reqs[t].pc = "pay" /\ reqs'[t].pc \in Checking
        /\ reqs'[t].period = reqs[t].period
        /\ reqs'[t].user.streak = reqs[t].user.streak
    BY <1>3, PayFacts, SkipFacts
  <2>3. user'.streak = user.streak
    BY <1>3, PayFacts DEF SkipPoints
  <2>4. reqs[t].user.streak <= Earned(marked \ {reqs[t].period})
    BY <1>0, <2>2 DEF Owed, Checking
  <2>5. Owed(t)'
    BY <2>1, <2>2, <2>4 DEF Owed, Earned, Checking
  <2>6. QED
    BY <2>1, <2>2, <2>3, <2>5, StreaksSame
<1>4. ASSUME NEW t \in Threads, MarkSigned(t)
      PROVE  Streaks'
  <2> DEFINE p == reqs[t].period
  <2>1. marked' = marked \cup {p} /\ cards' = cards
    BY <1>4 DEF MarkSigned
  <2>2. /\ Moved(t) /\ reqs[t].pc = "mark" /\ reqs'[t].pc = "record"
        /\ user'.streak = reqs[t].user.streak + 1
    BY <1>4, MarkFacts
  <2>3. reqs[t].user.streak <= InitStreak + Cardinality(marked \ {p}) + cards
    BY <1>0, <2>2 DEF Owed, Earned, Checking
  <2>4. p \in marked' /\ marked \ {p} \subseteq marked' \ {p} /\ IsFiniteSet(marked')
    BY <2>1, DaysFinite, SubsetCount DEF Typed
  <2>5. /\ Cardinality(marked \ {p}) + 1 <= Cardinality(marked')
        /\ Cardinality(marked \ {p}) \in Nat /\ Cardinality(marked') \in Nat
    BY <2>4, OneLess
  <2>6. reqs[t].user.streak \in Nat /\ cards \in Nat
    BY DEF Typed, Request, UserRow
  <2> HIDE DEF p
  <2>7. user'.streak <= InitStreak + Cardinality(marked') + cards'
    BY <2>1, <2>2, <2>3, <2>5, <2>6, CheckinAssumption
  <2>8. Owed(t)'
    BY <2>2 DEF Owed, Checking
  <2>9. QED
    BY <2>1, <2>2, <2>6, <2>7, <2>8, StreaksKept
<1>5. ASSUME NEW t \in Threads, Record(t) \/ Fail(t)
      PROVE  Streaks'
  <2>1. Leave(t) /\ UNCHANGED <<user, marked, cards>>
    BY <1>5 DEF Record, Fail, ghosts
  <2>2. Moved(t) /\ reqs'[t].pc = "idle"
    BY <2>1, LeaveFacts
  <2>3. Owed(t)'
    BY <2>2 DEF Owed, Checking
  <2>4. QED
    BY <2>1, <2>2, <2>3, StreaksSame
<1>6. ASSUME NEW t \in Threads, BeginResign(t)
      PROVE  Streaks'
  <2>1. UNCHANGED <<user, marked, cards>>
    BY <1>6 DEF BeginResign, ghosts
  <2>2. Moved(t) /\ reqs'[t].pc = "lookup" /\ reqs'[t].user.streak = user.streak
    BY <1>6, ResignFacts
  <2>3. Owed(t)'
    BY <1>0, <2>1, <2>2 DEF Owed, Earned, Checking
  <2>4. QED
    BY <2>1, <2>2, <2>3, StreaksSame
<1>7. ASSUME NEW t \in Threads, LookUpYesterday(t) \/ CheckPoints(t)
      PROVE  Streaks'
  <2>1. /\ Leave(t) \/ Goto(t, "points") \/ Goto(t, "deduct")
        /\ UNCHANGED <<user, marked, cards>> /\ reqs[t].pc \in {"lookup", "points"}
    BY <1>7 DEF LookUpYesterday, CheckPoints, ghosts, At
  <2>2. /\ Moved(t) /\ reqs'[t].pc \in {"idle", "points", "deduct"}
        /\ reqs'[t].pc # "idle" => reqs'[t].user = reqs[t].user
    BY <2>1, LeaveFacts, GotoFacts DEF Pcs
  <2>3. reqs[t].user.streak <= InitStreak + Cardinality(marked) + cards
    BY <1>0, <2>1 DEF Owed, Earned
  <2>4. Owed(t)'
    BY <2>1, <2>2, <2>3 DEF Owed, Earned, Checking
  <2>5. QED
    BY <2>1, <2>2, <2>4, StreaksSame
<1>8. ASSUME NEW t \in Threads, Deduct(t)
      PROVE  Streaks'
  <2>1. /\ Goto(t, "card") /\ UNCHANGED <<user, marked>> /\ cards' = cards + 1
        /\ reqs[t].pc = "deduct"
    BY <1>8 DEF Deduct, At
  <2>2. Moved(t) /\ reqs'[t].pc = "card" /\ reqs'[t].user = reqs[t].user
    BY <2>1, GotoFacts DEF Pcs
  <2>3. reqs[t].user.streak <= InitStreak + Cardinality(marked) + cards
    BY <1>0, <2>1 DEF Owed, Earned
  <2>4. /\ reqs[t].user.streak \in Nat /\ user.streak \in Nat /\ cards \in Nat
        /\ Cardinality(marked) \in Nat
    BY DaysFinite, SubsetCount DEF Typed, Request, UserRow
  <2>5. Owed(t)'
    BY <2>1, <2>2, <2>3, <2>4, CheckinAssumption DEF Owed, Earned, Checking
  <2>6. /\ cards <= cards'
        /\ user'.streak <= InitStreak + Cardinality(marked') + cards'
    BY <1>0, <2>1, <2>4, CheckinAssumption
  <2>7. QED
    BY <2>1, <2>2, <2>5, <2>6, StreaksKept
<1>9. ASSUME NEW t \in Threads, RecordCard(t)
      PROVE  Streaks'
  <2>1. Goto(t, "streak") /\ UNCHANGED <<user, marked, cards>> /\ reqs[t].pc = "card"
    BY <1>9 DEF RecordCard, ghosts, At
  <2>2. Moved(t) /\ reqs'[t].pc = "streak" /\ reqs'[t].user = reqs[t].user
    BY <2>1, GotoFacts DEF Pcs
  <2>3. reqs[t].user.streak + 1 <= InitStreak + Cardinality(marked) + cards
    BY <1>0, <2>1 DEF Owed, Earned
  <2>4. Owed(t)'
    BY <2>1, <2>2, <2>3 DEF Owed, Earned, Checking
  <2>5. QED
    BY <2>1, <2>2, <2>4, StreaksSame
<1>10. ASSUME NEW t \in Threads, RestoreStreak(t)
       PROVE  Streaks'
  <2>1. Leave(t) /\ UNCHANGED <<marked, cards>> /\ reqs[t].pc = "streak"
    BY <1>10 DEF RestoreStreak, ghosts, At
  <2>2. user'.streak = reqs[t].user.streak + 1
    BY <1>10 DEF RestoreStreak, Typed, UserRow
  <2>3. reqs[t].user.streak + 1 <= InitStreak + Cardinality(marked) + cards
    BY <1>0, <2>1 DEF Owed, Earned
  <2>4. Moved(t) /\ reqs'[t].pc = "idle"
    BY <2>1, LeaveFacts
  <2>5. Owed(t)'
    BY <2>4 DEF Owed, Checking
  <2>6. cards <= cards'
    BY <2>1 DEF Typed
  <2>7. QED
    BY <2>1, <2>2, <2>3, <2>4, <2>5, <2>6, StreaksKept
<1>11. CASE Restart
  <2>1. \A t \in Threads : reqs'[t].pc = "idle"
    BY <1>11, IdleType DEF Restart
  <2>2. UNCHANGED <<user, marked, cards>>
    BY <1>11 DEF Restart, ghosts
  <2>3. QED
    BY <1>0, <2>1, <2>2 DEF Streaks, Owed, Earned, Checking
<1>12. CASE Midnight \/ ClearAppSign \/ Consume \/ ResetTraffic
  <2>1. UNCHANGED <<reqs, marked, cards>>
    BY <1>12 DEF Midnight, ClearAppSign, Consume, ResetTraffic, ghosts
  <2>2. user'.streak \in Nat /\ user'.streak <= user.streak
    <3>1. \A n \in Nat : n \div 2 \in Nat /\ n \div 2 <= n
      OBVIOUS
    <3>2. user \in UserRow /\ user.streak \in Nat
      BY DEF Typed, UserRow
    <3>3. CASE ClearAppSign
      BY <3>1, <3>2, <3>3 DEF ClearAppSign, UserRow
    <3>4. CASE Midnight \/ Consume
      BY <3>2, <3>4 DEF Midnight, Consume, UserRow
    <3>5. CASE ResetTraffic
      <4>1. user' = Counters(user, 0, 0)
        BY <3>5 DEF ResetTraffic, Counters
      <4>2. Counters(user, 0, 0).streak = user.streak
        BY <3>2, CountersType
      <4>3. QED
        BY <3>2, <4>1, <4>2
    <3>6. QED
      BY <1>12, <3>3, <3>4, <3>5
  <2>3. user.streak \in Nat /\ Cardinality(marked) \in Nat /\ cards \in Nat
    BY DaysFinite, SubsetCount DEF Typed, UserRow
  <2>4. user'.streak <= InitStreak + Cardinality(marked') + cards'
    BY <1>0, <2>1, <2>2, <2>3, CheckinAssumption
  <2>5. QED
    BY <1>0, <2>1, <2>4 DEF Streaks, Owed, Earned
<1>13. QED
  BY <1>1, <1>2, <1>3, <1>4, <1>5, <1>6, <1>7, <1>8, <1>9, <1>10, <1>11, <1>12
     DEF Next, CheckinStep, ResignStep

-----------------------------------------------------------------------------
(* Payments: a period is paid for by requests that are under way with their  *)
(* flag to set, and by those a fault has ended.                              *)

Allowed(p) == paid[p] + Cardinality(Fresh(p)) <= N * (1 + faults)
Traced(p) == p \notin marked => paid[p] <= Cardinality(Paid(p)) + N * faults

LEMMA PaymentsParts == Payments <=> \A p \in Days : Allowed(p) /\ Traced(p)
BY DEF Payments, Allowed, Traced

LEMMA Counted ==
    ASSUME Typed, NEW p \in Days
    PROVE  /\ Cardinality(Fresh(p)) + Cardinality(Paid(p)) <= N
           /\ Cardinality(Fresh(p)) \in Nat /\ Cardinality(Paid(p)) \in Nat
           /\ IsFiniteSet(Fresh(p)) /\ IsFiniteSet(Paid(p))
           /\ paid[p] \in Nat
<1>1. /\ Fresh(p) \in SUBSET Threads /\ Paid(p) \in SUBSET Threads
      /\ Fresh(p) \cap Paid(p) = {}
  BY DEF Fresh, Paid
<1>2. IsFiniteSet(Fresh(p)) /\ IsFiniteSet(Paid(p))
  BY <1>1, ThreadsFinite, SubsetCount
<1>3. paid[p] \in Nat
  BY DEF Typed
<1>4. QED
  BY <1>1, <1>2, <1>3, DisjointCount

LEMMA CountedNext ==
    ASSUME Typed', NEW p \in Days
    PROVE  /\ Cardinality(Fresh(p)') + Cardinality(Paid(p)') <= N
           /\ Cardinality(Fresh(p)') \in Nat /\ Cardinality(Paid(p)') \in Nat
           /\ paid'[p] \in Nat
<1>1. /\ Fresh(p)' \in SUBSET Threads /\ Paid(p)' \in SUBSET Threads
      /\ Fresh(p)' \cap Paid(p)' = {}
  BY DEF Fresh, Paid
<1>2. paid'[p] \in Nat
  BY DEF Typed
<1>3. QED
  BY <1>1, <1>2, DisjointCount

\* A product with the number of faults.
LEMMA FaultTimes ==
    ASSUME NEW n \in Nat, NEW m \in Nat
    PROVE  /\ n * m \in Nat
           /\ n * (1 + m) = n + n * m
OBVIOUS

LEMMA PaymentsInit == Init => Payments
<1> SUFFICES ASSUME Init, NEW p \in Days
             PROVE  Allowed(p) /\ Traced(p)
  BY PaymentsParts
<1>1. paid[p] = 0 /\ faults = 0
  BY DEF Init, Days
<1>2. Typed
  BY TypedInit
<1>3. N * (1 + faults) = N /\ N * faults = 0
  BY <1>1, ThreadsFinite
<1>4. QED
  BY <1>1, <1>2, <1>3, Counted, ThreadsFinite DEF Allowed, Traced

\* Nobody pays, and a request that stops before its flag is set is a fault.
LEMMA PaymentsLost ==
    ASSUME Typed, Typed', Payments, NEW p \in Days, paid' = paid, marked' = marked,
           faults' = faults + 1, Fresh(p)' \subseteq Fresh(p)
    PROVE  Allowed(p)' /\ Traced(p)'
<1>1. Allowed(p) /\ Traced(p)
  BY PaymentsParts
<1>2. Cardinality(Fresh(p)') <= Cardinality(Fresh(p))
  BY Counted, SubsetCount
<1>3. /\ faults \in Nat /\ 1 + faults \in Nat /\ N \in Nat
  BY ThreadsFinite DEF Typed
<1> DEFINE k == N * faults
<1>4. k \in Nat /\ N * (1 + faults) = N + k
  BY <1>3, FaultTimes
<1>5. N * (1 + (faults + 1)) = N + (N + k) /\ N * (faults + 1) = N + k
  <2>1. 1 + faults = faults + 1 /\ faults + 1 \in Nat
    BY <1>3
  <2>2. N * (1 + (faults + 1)) = N + N * (faults + 1)
    BY <1>3, <2>1, FaultTimes
  <2>3. QED
    BY <1>4, <2>1, <2>2
<1> HIDE DEF k
<1>6. /\ paid[p] + Cardinality(Fresh(p)) <= N + k
      /\ p \notin marked => paid[p] <= Cardinality(Paid(p)) + k
  BY <1>1, <1>4 DEF Allowed, Traced, k
<1>7. /\ paid'[p] + Cardinality(Fresh(p)') <= N + (N + k)
      /\ p \notin marked' => paid'[p] <= Cardinality(Paid(p)') + (N + k)
  BY <1>2, <1>3, <1>4, <1>6, Counted, CountedNext
<1>8. QED
  BY <1>5, <1>7 DEF Allowed, Traced, N

\* Nobody pays and no payment is lost sight of.
LEMMA PaymentsKept ==
    ASSUME Typed, Typed', Payments, NEW p \in Days, paid'[p] = paid[p], marked \subseteq marked',
           faults' = faults \/ faults' = faults + 1, Fresh(p)' \subseteq Fresh(p),
           p \notin marked' => Paid(p) \subseteq Paid(p)'
    PROVE  Allowed(p)' /\ Traced(p)'
<1>1. Allowed(p) /\ Traced(p)
  BY PaymentsParts
<1>2. Cardinality(Fresh(p)') <= Cardinality(Fresh(p))
  BY Counted, SubsetCount
<1>3. p \notin marked' => Cardinality(Paid(p)) <= Cardinality(Paid(p)')
  <2>1. IsFiniteSet(Paid(p)')
    BY ThreadsFinite, SubsetCount DEF Paid
  <2>2. QED
    BY <2>1, SubsetCount
<1>4. faults \in Nat /\ N \in Nat /\ 1 + faults \in Nat
  BY ThreadsFinite DEF Typed
<1> DEFINE k == N * faults
           j == N * faults'
<1>5. k \in Nat /\ j \in Nat /\ k <= j
  <2>1. k \in Nat /\ N * (1 + faults) = N + k
    BY <1>4, FaultTimes
  <2>2. faults + 1 = 1 + faults
    BY <1>4
  <2>3. QED
    BY <1>4, <2>1, <2>2
<1>6. N * (1 + faults) = N + k /\ N * (1 + faults') = N + j
  BY <1>4, FaultTimes DEF Typed
<1>7. /\ paid[p] + Cardinality(Fresh(p)) <= N + k
      /\ p \notin marked => paid[p] <= Cardinality(Paid(p)) + k
  BY <1>1, <1>6 DEF Allowed, Traced
<1> HIDE DEF k, j
<1>8. /\ paid'[p] + Cardinality(Fresh(p)') <= N + j
      /\ p \notin marked' => paid'[p] <= Cardinality(Paid(p)') + j
  BY <1>2, <1>3, <1>4, <1>5, <1>7, Counted, CountedNext
<1>9. QED
  BY <1>6, <1>8 DEF Allowed, Traced, j, N

\* A request that is neither before nor after a check-in with its flag to set.
LEMMA PaymentsBeside ==
    ASSUME Typed, Typed', Payments, NEW t \in Threads, Moved(t), NEW p \in Days,
           reqs[t].pc \notin Checking, reqs'[t].pc \notin Checking,
           paid' = paid, marked' = marked, faults' = faults \/ faults' = faults + 1
    PROVE  Allowed(p)' /\ Traced(p)'
<1>1. Fresh(p)' \subseteq Fresh(p) /\ Paid(p) \subseteq Paid(p)'
  BY DEF Moved, Fresh, Paid
<1>2. QED
  BY <1>1, PaymentsKept

LEMMA PaymentsNext ==
    ASSUME Typed, Typed', Clock, Payments, [Next]_vars
    PROVE  Payments'
<1> SUFFICES ASSUME NEW p \in Days PROVE Allowed(p)' /\ Traced(p)'
  BY DEF Payments, Allowed, Traced
<1>0. Allowed(p) /\ Traced(p)
  BY PaymentsParts
<1>1. CASE UNCHANGED vars
  BY <1>0, <1>1 DEF vars, Allowed, Traced, Fresh, Paid
<1>2. ASSUME NEW t \in Threads, Admit(t)
      PROVE  Allowed(p)' /\ Traced(p)'
  <2>1. UNCHANGED <<faults, paid, marked>>
    BY <1>2 DEF Admit, ghosts
  <2>2. /\ Moved(t) /\ ~user.sign /\ reqs[t].pc = "idle" /\ reqs'[t].pc = "pay"
        /\ reqs'[t].period = period
    BY <1>2, AdmitFacts
  <2>3. Paid(p) \subseteq Paid(p)'
    BY <2>2 DEF Moved, Paid, Checking
  <2>4. CASE p # period
    <3>1. Fresh(p)' \subseteq Fresh(p)
      BY <2>2, <2>4 DEF Moved, Fresh
    <3>2. QED
      BY <2>1, <2>3, <3>1, PaymentsKept
  <2>5. CASE p = period
    <3> DEFINE k == N * faults
    <3>1. p \notin marked
      BY <2>2, <2>5 DEF Clock
    <3>2. Cardinality(Paid(p)) <= Cardinality(Paid(p)')
      <4>1. IsFiniteSet(Paid(p)')
        BY ThreadsFinite, SubsetCount DEF Paid
      <4>2. QED
        BY <2>3, <4>1, SubsetCount
    <3>3. k \in Nat /\ N \in Nat /\ N * (1 + faults) = N + k
      BY ThreadsFinite, FaultTimes DEF Typed
    <3>4. paid[p] <= Cardinality(Paid(p)) + k
      BY <1>0, <3>1 DEF Traced
    <3> HIDE DEF k
    <3>5. /\ paid'[p] + Cardinality(Fresh(p)') <= N + k
          /\ paid'[p] <= Cardinality(Paid(p)') + k
      BY <2>1, <3>2, <3>3, <3>4, Counted, CountedNext
    <3>6. QED
      BY <2>1, <3>3, <3>5 DEF Allowed, Traced, k, N
  <2>6. QED
    BY <2>4, <2>5
<1>3. ASSUME NEW t \in Threads, Pay(t)
      PROVE  Allowed(p)' /\ Traced(p)'
  <2>1. UNCHANGED <<faults, marked>>
    BY <1>3 DEF Pay
  <2>2. /\ Moved(t) /\ reqs[t].pc = "pay" /\ reqs'[t].pc \in Checking /\ reqs'[t].paid
        /\ reqs'[t].period = reqs[t].period
    BY <1>3, PayFacts
  <2>3. Fresh(p)' \subseteq Fresh(p) /\ Paid(p) \subseteq Paid(p)'
    BY <2>2 DEF Moved, Fresh, Paid, Checking
  <2>4. CASE reqs[t].paid \/ reqs[t].period # p
    <3>1. paid'[p] = paid[p]
      BY <1>3, <2>4 DEF Pay, Typed
    <3>2. QED
      BY <2>1, <2>3, <3>1, PaymentsKept
  <2>5. CASE ~reqs[t].paid /\ reqs[t].period = p
    <3> DEFINE k == N * faults
    <3>1. paid'[p] = paid[p] + 1
      BY <1>3, <2>5 DEF Pay, Typed
    <3>2. t \in Fresh(p) /\ Fresh(p)' \subseteq Fresh(p) \ {t}
      BY <2>2, <2>5 DEF Moved, Fresh, Checking
    <3>3. t \in Paid(p)' /\ Paid(p) \subseteq Paid(p)' \ {t}
      BY <2>2, <2>5 DEF Moved, Paid, Checking
    <3>4. Cardinality(Fresh(p)') + 1 <= Cardinality(Fresh(p))
      BY <3>2, Counted, OneLess
    <3>5. Cardinality(Paid(p)) + 1 <= Cardinality(Paid(p)')
      <4>1. IsFiniteSet(Paid(p)')
        BY ThreadsFinite, SubsetCount DEF Paid
      <4>2. QED
        BY <3>3, <4>1, OneLess
    <3>6. k \in Nat /\ N \in Nat /\ N * (1 + faults) = N + k
      BY ThreadsFinite, FaultTimes DEF Typed
    <3>7. /\ paid[p] + Cardinality(Fresh(p)) <= N + k
          /\ p \notin marked => paid[p] <= Cardinality(Paid(p)) + k
      BY <1>0, <3>6 DEF Allowed, Traced
    <3> HIDE DEF k
    <3>8. /\ paid'[p] + Cardinality(Fresh(p)') <= N + k
          /\ p \notin marked => paid'[p] <= Cardinality(Paid(p)') + k
      BY <3>1, <3>4, <3>5, <3>6, <3>7, Counted, CountedNext
    <3>9. QED
      BY <2>1, <3>6, <3>8 DEF Allowed, Traced, k, N
  <2>6. QED
    BY <2>4, <2>5
<1>4. ASSUME NEW t \in Threads, SkipPoints(t)
      PROVE  Allowed(p)' /\ Traced(p)'
  <2>1. UNCHANGED <<paid, marked>> /\ faults' = faults + 1
    BY <1>4 DEF SkipPoints, ghosts
  <2>2. Fresh(p)' \subseteq Fresh(p)
    BY <1>4, SkipFacts DEF Moved, Fresh, Checking
  <2>3. QED
    BY <2>1, <2>2, PaymentsLost
<1>5. ASSUME NEW t \in Threads, MarkSigned(t)
      PROVE  Allowed(p)' /\ Traced(p)'
  <2>1. UNCHANGED <<faults, paid>> /\ marked' = marked \cup {reqs[t].period}
    BY <1>5 DEF MarkSigned
  <2>2. Moved(t) /\ reqs[t].pc = "mark" /\ reqs'[t].pc = "record"
    BY <1>5, MarkFacts
  <2>3. Fresh(p)' \subseteq Fresh(p)
    BY <2>2 DEF Moved, Fresh, Checking
  <2>4. p \notin marked' => Paid(p) \subseteq Paid(p)'
    BY <2>1, <2>2 DEF Moved, Paid, Checking
  <2>5. QED
    BY <2>1, <2>3, <2>4, PaymentsKept
<1>6. ASSUME NEW t \in Threads, Fail(t)
      PROVE  Allowed(p)' /\ Traced(p)'
  <2>1. Leave(t) /\ UNCHANGED <<paid, marked>> /\ faults' = faults + 1
    BY <1>6 DEF Fail, ghosts
  <2>2. Moved(t) /\ reqs'[t].pc = "idle"
    BY <2>1, LeaveFacts
  <2>3. Fresh(p)' \subseteq Fresh(p)
    BY <2>2 DEF Moved, Fresh, Checking
  <2>4. QED
    BY <2>1, <2>3, PaymentsLost
<1>7. ASSUME NEW t \in Threads,
             BeginResign(t) \/ LookUpYesterday(t) \/ CheckPoints(t) \/ Deduct(t)
               \/ RecordCard(t) \/ RestoreStreak(t) \/ Record(t)
      PROVE  Allowed(p)' /\ Traced(p)'
  <2>1. UNCHANGED <<paid, marked>> /\ (faults' = faults \/ faults' = faults + 1)
    BY <1>7 DEF BeginResign, LookUpYesterday, CheckPoints, Deduct, RecordCard,
                RestoreStreak, Record, ghosts
  <2>2. reqs[t].pc \notin Checking
    BY <1>7 DEF BeginResign, LookUpYesterday, CheckPoints, Deduct, RecordCard,
                RestoreStreak, Record, Served, At, Checking
  <2>3. \/ BeginResign(t) \/ Leave(t)
        \/ \E pc \in {"points", "deduct", "card", "streak"} : Goto(t, pc)
    BY <1>7 DEF LookUpYesterday, CheckPoints, Deduct, RecordCard, RestoreStreak, Record
  <2>4. Moved(t) /\ reqs'[t].pc \notin Checking
    BY <2>3, ResignFacts, LeaveFacts, GotoFacts DEF Checking, Pcs
  <2>5. QED
    BY <2>1, <2>2, <2>4, PaymentsBeside
<1>8. CASE Restart
  <2>1. \A t \in Threads : reqs'[t].pc = "idle"
    BY <1>8, IdleType DEF Restart
  <2>2. Fresh(p)' \subseteq Fresh(p)
    BY <2>1 DEF Fresh, Checking
  <2>3. UNCHANGED <<paid, marked>> /\ faults' = faults + 1
    BY <1>8 DEF Restart, ghosts
  <2>4. QED
    BY <2>2, <2>3, PaymentsLost
<1>9. CASE Midnight \/ ClearAppSign \/ Consume \/ ResetTraffic
  <2>1. UNCHANGED <<reqs, faults, paid, marked>>
    BY <1>9 DEF Midnight, ClearAppSign, Consume, ResetTraffic, ghosts
  <2>2. QED
    BY <1>0, <2>1 DEF Allowed, Traced, Fresh, Paid
<1>10. QED
  BY <1>1, <1>2, <1>3, <1>4, <1>5, <1>6, <1>7, <1>8, <1>9
     DEF Next, CheckinStep, ResignStep

-----------------------------------------------------------------------------
(* The invariant and what follows from it. *)

Inv == Typed /\ Clock /\ Payments /\ Streaks /\ Calendar /\ Debt

\* The six parts hold together in every reachable state.
THEOREM Invariance == Spec => []Inv
<1>1. Init => Inv
  BY TypedInit, ClockInit, PaymentsInit, StreaksInit, CalendarInit, DebtInit DEF Inv
<1>2. Inv /\ [Next]_vars => Inv'
  <2> SUFFICES ASSUME Inv, [Next]_vars PROVE Inv'
    OBVIOUS
  <2>1. Typed /\ Clock /\ Payments /\ Streaks /\ Calendar /\ Debt
    BY DEF Inv
  <2>2. Typed'
    BY <2>1, TypedNext
  <2>3. Clock' /\ Payments' /\ Streaks'
    BY <2>1, <2>2, ClockNext, PaymentsNext, StreaksNext
  <2>4. Calendar' /\ Debt'
    BY <2>1, CalendarNext, DebtNext
  <2>5. QED
    BY <2>2, <2>3, <2>4 DEF Inv
<1>3. QED
  BY <1>1, <1>2, PTL DEF Spec

\* Every variable has its type: the server's rows, the requests and the counts.
THEOREM TypesHold == Spec => []TypeOK
<1>1. Inv => TypeOK
  BY DaysFinite DEF Inv, Typed, TypeOK, UserRow, Request, Days
<1>2. QED
  BY <1>1, Invariance, PTL

\* No check-in is let through in a period after another one of it has finished,
\* for any number of threads, requests, cards and faults: the flag that the
\* admission looks at stays up until the reset starts the next period.
THEOREM FinishedCheckinShutsOut == Spec => FinishedShutsOut
<1>1. ASSUME Inv, [Next]_vars
      PROVE  [\A t \in Threads : period \in closed /\ reqs'[t].pc = "pay"
                                  => reqs[t].pc = "pay"]_vars
  <2> SUFFICES ASSUME NEW t \in Threads, period \in closed, reqs'[t].pc = "pay",
                      reqs[t].pc # "pay"
               PROVE  UNCHANGED vars
    OBVIOUS
  <2>1. Typed /\ user.sign
    BY <1>1 DEF Inv, Clock
  <2>2. ASSUME NEW s \in Threads, Moved(s), reqs'[s].pc # "pay" \/ reqs[s].pc = "pay"
        PROVE  FALSE
    BY <2>2 DEF Moved
  <2>3. ASSUME NEW s \in Threads, Admit(s)
        PROVE  FALSE
    BY <2>1, <2>3, AdmitFacts
  <2>4. ASSUME NEW s \in Threads, Pay(s) \/ SkipPoints(s)
        PROVE  FALSE
    BY <2>1, <2>2, <2>4, PayFacts, SkipFacts
  <2>5. ASSUME NEW s \in Threads, MarkSigned(s) \/ BeginResign(s)
        PROVE  FALSE
    BY <2>1, <2>2, <2>5, MarkFacts, ResignFacts
  <2>6. ASSUME NEW s \in Threads,
               Leave(s) \/ \E pc \in {"points", "deduct", "card", "streak"} : Goto(s, pc)
        PROVE  FALSE
    BY <2>1, <2>2, <2>6, LeaveFacts, GotoFacts DEF Pcs
  <2>7. ASSUME NEW s \in Threads,
               Record(s) \/ LookUpYesterday(s) \/ CheckPoints(s) \/ Deduct(s)
                 \/ RecordCard(s) \/ RestoreStreak(s) \/ Fail(s)
        PROVE  FALSE
    BY <2>6, <2>7 DEF Record, LookUpYesterday, CheckPoints, Deduct, RecordCard,
                      RestoreStreak, Fail
  <2>8. CASE Restart
    BY <2>8, IdleType DEF Restart
  <2>9. CASE Midnight \/ ClearAppSign \/ Consume \/ ResetTraffic
    BY <2>9 DEF Midnight, ClearAppSign, Consume, ResetTraffic
  <2>10. QED
    BY <1>1, <2>3, <2>4, <2>5, <2>7, <2>8, <2>9 DEF Next, CheckinStep, ResignStep
<1>2. QED
  BY <1>1, Invariance, PTL DEF Spec, FinishedShutsOut

\* What the flag does not prevent is bounded: requests that overlap and requests
\* a fault ends before the mark may pay again, in one period no more often than
\* once for each thread, and as often again for each fault.
THEOREM PaymentsAreBounded == Spec => []PaymentsBounded
<1>1. Inv => PaymentsBounded
  <2> SUFFICES ASSUME Inv, NEW p \in Days
               PROVE  paid[p] <= Cardinality(Threads) * (1 + faults)
    BY DEF PaymentsBounded, Days
  <2>1. Typed /\ Allowed(p)
    BY PaymentsParts DEF Inv
  <2> DEFINE most == N * (1 + faults)
  <2>2. most \in Nat
    <3>1. 1 + faults \in Nat /\ N \in Nat
      BY <2>1, ThreadsFinite DEF Typed
    <3>2. QED
      BY <3>1, FaultTimes
  <2>3. paid[p] + Cardinality(Fresh(p)) <= most
    BY <2>1 DEF Allowed
  <2> HIDE DEF most
  <2>4. paid[p] <= most
    BY <2>1, <2>2, <2>3, Counted
  <2>5. QED
    BY <2>4 DEF most, N
<1>2. QED
  BY <1>1, Invariance, PTL

\* The streak counts periods with a finished check-in and cards that were paid
\* for, for any number of requests that write it from copies they read earlier.
THEOREM StreakIsEarned == Spec => []StreakEarned
<1>1. Inv => StreakEarned
  BY DEF Inv, Streaks, Earned, StreakEarned
<1>2. QED
  BY <1>1, Invariance, PTL

\* There are never more make-up rows in the calendar than cards paid for.
THEOREM CardsArePaid == Spec => []CardIsPaid
<1>1. Inv => CardIsPaid
  <2> SUFFICES ASSUME Inv PROVE CardIsPaid
    OBVIOUS
  <2>1. Cardinality(CardDays) + Cardinality(Bought) <= cards /\ cards \in Nat
    BY DEF Inv, Calendar, Typed
  <2>2. Cardinality(CardDays) <= cards
    BY <2>1, CalendarCounts
  <2>3. QED
    BY <2>2 DEF CardIsPaid, CardDays, Days
<1>2. QED
  BY <1>1, Invariance, PTL

\* The check and the deduction of points are two statements: with any number of
\* threads the debt is at most the price of one card less than there are threads.
THEOREM DebtIsBounded == Spec => []DebtBounded
<1>1. Inv => DebtBounded
  <2> SUFFICES ASSUME Inv PROVE DebtBounded
    OBVIOUS
  <2> DEFINE a == 0 - (N - 1)
             b == Cardinality(Buying) - (N - 1)
  <2>1. a \in Int /\ b \in Int /\ a <= b
    BY BuyingCount, ThreadsFinite
  <2>2. points >= Cost * b /\ points \in Int
    BY DEF Inv, Debt, Typed
  <2>3. - Cost * (N - 1) = Cost * a
    BY ThreadsFinite, CheckinAssumption
  <2> HIDE DEF a, b
  <2>4. Cost * a \in Int /\ Cost * b \in Int /\ Cost * a <= Cost * b
    BY <2>1, CostTimes
  <2>5. points >= Cost * a
    BY <2>2, <2>4
  <2>6. QED
    BY <2>3, <2>5 DEF DebtBounded, N
<1>2. QED
  BY <1>1, Invariance, PTL
=============================================================================
