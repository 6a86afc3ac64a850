------------------------------ MODULE Checkin ------------------------------
(***************************************************************************)
(* The daily check-in and the make-up card of the check-in service         *)
(* (src/server/checkin-api/main.py), for one user.                         *)
(*                                                                         *)
(* Both handlers are plain functions, so each request runs on a thread of  *)
(* the server's pool, and every database statement is a transaction of its *)
(* own: between two statements of a request any statement of another       *)
(* request, the midnight job, the panel that shares the user's row, a      *)
(* failing statement or the end of the process may come.  The user's row   *)
(* is read once, at the beginning; what is written later is computed from  *)
(* that copy.                                                              *)
(***************************************************************************)
EXTENDS Integers, Sequences, FiniteSets

CONSTANTS
  Threads,      \* the pool threads that may serve this user at once
  Plans,        \* the plans the user may have: [enable, expiry, resets]
  InitPoints,   \* the user's gambling points at first
  InitStreak,   \* the user's streak at first
  Cost,         \* SIGN_CARD_COST
  PointReward,  \* what a "points" reward adds
  TrafficSizes, \* what a "traffic", "both" or "lucky" reward may take off
  Milestones,   \* the streaks of STREAK_BONUS
  MaxDay,       \* bound: the last day
  MaxRequests,  \* bound: the requests that are let in
  MaxUse,       \* bound: the units of traffic that are counted
  MaxFaults     \* bound: failing statements, restarts and missed resets

ASSUME CheckinAssumption ==
  /\ IsFiniteSet(Threads) /\ Threads # {}
  /\ Cost \in Nat \ {0} /\ PointReward \in Nat /\ InitPoints \in Nat
  /\ InitStreak \in Nat /\ TrafficSizes \subseteq Nat \ {0}
  /\ Milestones \subseteq Nat /\ MaxDay \in Nat \ {0}
  /\ MaxRequests \in Nat /\ MaxUse \in Nat /\ MaxFaults \in Nat
  /\ Plans \subseteq [enable : Nat, expiry : Nat, resets : BOOLEAN]

VARIABLES
  day,      \* the date in Asia/Shanghai
  resetDue, \* the midnight job has been triggered and has not run yet
  plan,     \* the user's plan
  user,     \* the columns of v2_user the handlers write
  points,   \* user_account.gambling_points
  history,  \* app_sign_history: what the row of a date says, if there is one
  reqs,     \* what each thread is doing
  sent,     \* how many requests were let in
  counted,  \* how much traffic was counted
  faults,   \* how many faults there were
  period,   \* history variable: how often the midnight job has run
  paid,     \* history variable: check-ins of each period that paid something
  marked,   \* history variable: periods a finished check-in was admitted in
  closed,   \* history variable: periods whose flag a finished check-in set
  cards     \* history variable: how many cards were paid for

vars == <<day, resetDue, plan, user, points, history, reqs, sent, faults, counted,
          period, paid, marked, closed, cards>>
ghosts == <<period, paid, marked, closed, cards>>

Pcs == {"idle", "pay", "mark", "record",
        "lookup", "points", "deduct", "card", "streak"}
Idle == [pc |-> "idle", todo |-> <<>>, paid |-> FALSE,
         date |-> 0, period |-> 0,
         user |-> [sign |-> FALSE, streak |-> 0, u |-> 0, d |-> 0]]

-----------------------------------------------------------------------------
(* What a check-in computes from the row it has read *)

\* (a variant: the flag is not looked at)
CheckWithoutFlag(row) ==
  plan.enable > 0 /\ (plan.expiry > 0 => day <= plan.expiry)

\* the plan lets the user check in today
CanCheckin(row) ==
  /\ ~row.sign
  /\ plan.enable > 0
  /\ plan.expiry > 0 => day <= plan.expiry
  /\ \/ row.u + row.d < plan.enable
     \/ plan.expiry > 0 /\ plan.resets

TrafficPay(n) == [type |-> "traffic", amount |-> n]
BalancePay == [type |-> "balance", amount |-> 0]
PointsPay == [type |-> "points", amount |-> PointReward]

\* the payments of the reward that is drawn, the milestone's last
Rewards(streak) ==
  LET bonus == IF streak \in Milestones THEN <<BalancePay>> ELSE <<>>
  IN  {draw \o bonus : draw \in
         {<<TrafficPay(n)>> : n \in TrafficSizes}
           \cup {<<TrafficPay(n), BalancePay>> : n \in TrafficSizes}
           \cup {<<BalancePay>>, <<PointsPay>>}}

\* of the row that was read, what the payments still to be made look at
Copy(row, todo) ==
  IF todo # <<>> /\ Head(todo).type = "traffic" THEN row
  ELSE [row EXCEPT !.u = 0, !.d = 0]

\* the row after taking n off the traffic used; the copy decides the case,
\* the subtraction is made on the row as it is now
TakeOff(row, copy, n) ==
  IF copy.u + copy.d <= n THEN [row EXCEPT !.u = 0, !.d = 0]
  ELSE IF copy.d >= n THEN [row EXCEPT !.d = @ - n]
  ELSE [row EXCEPT !.u = @ - (n - copy.d), !.d = 0]

-----------------------------------------------------------------------------
Init ==
  /\ day = 1 /\ resetDue = FALSE
  /\ plan \in Plans
  /\ user = [sign |-> FALSE, streak |-> InitStreak, u |-> 1, d |-> 1]
  /\ points = InitPoints
  /\ history = [n \in 0 .. MaxDay |-> "none"]
  /\ reqs = [t \in Threads |-> Idle]
  /\ sent = 0 /\ counted = 0 /\ faults = 0
  /\ period = 0 /\ paid = [p \in 0 .. MaxDay |-> 0] /\ marked = {}
  /\ closed = {} /\ cards = 0

At(t, pc) == reqs[t].pc = pc
Goto(t, pc) == reqs' = [reqs EXCEPT ![t].pc = pc]
Leave(t) == reqs' = [reqs EXCEPT ![t] = Idle]

\* the panel accepts the token and the user has a row; a request that is turned
\* away, here or by the checks that follow, leaves no trace
Served(t) == At(t, "idle") /\ sent < MaxRequests

\* the row is read, the check passes and the reward is drawn
Admit(t) ==
  /\ Served(t)
  /\ CanCheckin(user)
  /\ \E todo \in Rewards(user.streak + 1) :
       reqs' = [reqs EXCEPT ![t] = [@ EXCEPT !.pc = "pay", !.todo = todo,
                              !.user = Copy(user, todo), !.period = period]]
  /\ sent' = sent + 1
  /\ UNCHANGED <<day, resetDue, plan, counted, user, points, history, faults, ghosts>>

\* one payment of the reward, in a transaction of its own
Pay(t) ==
  /\ At(t, "pay")
  /\ LET item == Head(reqs[t].todo)
         rest == Tail(reqs[t].todo)
     IN  /\ user' = IF item.type = "traffic"
                      THEN TakeOff(user, reqs[t].user, item.amount) ELSE user
         /\ points' = IF item.type = "points" THEN points + item.amount ELSE points
         /\ reqs' = [reqs EXCEPT ![t] = [@ EXCEPT !.todo = rest, !.paid = TRUE,
                              !.user = Copy(reqs[t].user, rest),
                              !.pc = IF rest = <<>> THEN "mark" ELSE "pay"]]
  /\ paid' = IF reqs[t].paid THEN paid ELSE [paid EXCEPT ![reqs[t].period] = @ + 1]
  /\ UNCHANGED <<day, resetDue, plan, counted, history, sent, faults, period,
                 marked, closed, cards>>

\* a points payment that fails is passed over
SkipPoints(t) ==
  /\ At(t, "pay") /\ Head(reqs[t].todo).type = "points" /\ faults < MaxFaults
  /\ faults' = faults + 1
  /\ LET rest == Tail(reqs[t].todo)
     IN  reqs' = [reqs EXCEPT ![t] = [@ EXCEPT !.todo = rest,
                                        !.pc = IF rest = <<>> THEN "mark" ELSE "pay"]]
  /\ UNCHANGED <<day, resetDue, plan, counted, user, points, history, sent, ghosts>>

\* (a variant: the streak of the row is counted up)
MarkByCounting(t) ==
  /\ At(t, "mark")
  /\ user' = [user EXCEPT !.sign = TRUE, !.streak = @ + 1]
  /\ marked' = marked \cup {reqs[t].period} /\ closed' = closed \cup {period}
  /\ reqs' = [reqs EXCEPT ![t] = [Idle EXCEPT !.pc = "record", !.date = day]]
  /\ UNCHANGED <<day, resetDue, plan, counted, points, history, sent, faults, period,
                 paid, cards>>

\* the flag is set and the streak of the copy, plus one, written; the date the
\* history row will have is read when this is done
MarkSigned(t) ==
  /\ At(t, "mark")
  /\ user' = [user EXCEPT !.sign = TRUE, !.streak = reqs[t].user.streak + 1]
  /\ marked' = marked \cup {reqs[t].period} /\ closed' = closed \cup {period}
  /\ reqs' = [reqs EXCEPT ![t] = [Idle EXCEPT !.pc = "record", !.date = day]]
  /\ UNCHANGED <<day, resetDue, plan, counted, points, history, sent, faults, period,
                 paid, cards>>

\* the row is inserted or replaced, or the failure is only logged
Record(t) ==
  /\ At(t, "record")
  /\ \/ history' = [history EXCEPT ![reqs[t].date] = "normal"] /\ UNCHANGED faults
     \/ faults < MaxFaults /\ faults' = faults + 1 /\ UNCHANGED history
  /\ Leave(t)
  /\ UNCHANGED <<day, resetDue, plan, counted, user, points, sent, ghosts>>

-----------------------------------------------------------------------------
(* The make-up card, one action for each transaction *)

\* the row is read: not signed today
BeginResign(t) ==
  /\ Served(t)
  /\ ~user.sign
  /\ reqs' = [reqs EXCEPT ![t] = [@ EXCEPT !.pc = "lookup", !.user = Copy(user, <<>>),
                                           !.date = day - 1]]
  /\ sent' = sent + 1
  /\ UNCHANGED <<day, resetDue, plan, counted, user, points, history, faults, ghosts>>

LookUpYesterday(t) ==
  /\ At(t, "lookup")
  /\ IF history[reqs[t].date] = "none" THEN Goto(t, "points") ELSE Leave(t)
  /\ UNCHANGED <<day, resetDue, plan, counted, user, points, history, sent, faults, ghosts>>

\* (a variant: any balance will do)
CheckSomePoints(t) ==
  /\ At(t, "points")
  /\ IF points > - Cost THEN Goto(t, "deduct") ELSE Leave(t)
  /\ UNCHANGED <<day, resetDue, plan, counted, user, points, history, sent, faults, ghosts>>

CheckPoints(t) ==
  /\ At(t, "points")
  /\ IF points >= Cost THEN Goto(t, "deduct") ELSE Leave(t)
  /\ UNCHANGED <<day, resetDue, plan, counted, user, points, history, sent, faults, ghosts>>

\* (a variant: a failing deduction is only logged, like a failing row)
DeductOrLog(t) ==
  /\ At(t, "deduct")
  /\ \/ points' = points - Cost /\ cards' = cards + 1 /\ UNCHANGED faults
     \/ faults < MaxFaults /\ faults' = faults + 1 /\ UNCHANGED <<points, cards>>
  /\ Goto(t, "card")
  /\ UNCHANGED <<day, resetDue, plan, counted, user, history, sent, period, paid,
                 marked, closed>>

Deduct(t) ==
  /\ At(t, "deduct")
  /\ points' = points - Cost
  /\ cards' = cards + 1
  /\ Goto(t, "card")
  /\ UNCHANGED <<day, resetDue, plan, counted, user, history, sent, faults, period,
                 paid, marked, closed>>

RecordCard(t) ==
  /\ At(t, "card")
  /\ \/ history' = [history EXCEPT ![reqs[t].date] = "card"] /\ UNCHANGED faults
     \/ faults < MaxFaults /\ faults' = faults + 1 /\ UNCHANGED history
  /\ Goto(t, "streak")
  /\ UNCHANGED <<day, resetDue, plan, counted, user, points, sent, ghosts>>

RestoreStreak(t) ==
  /\ At(t, "streak")
  /\ user' = [user EXCEPT !.streak = reqs[t].user.streak + 1]
  /\ Leave(t)
  /\ UNCHANGED <<day, resetDue, plan, counted, points, history, sent, faults, ghosts>>

-----------------------------------------------------------------------------
(* Faults, the clock, the midnight job and the panel *)

\* a statement fails and the request ends with an error; what its earlier
\* transactions did stays
Fail(t) ==
  /\ reqs[t].pc \in {"pay", "mark", "lookup", "points", "deduct", "streak"}
  /\ At(t, "pay") => Head(reqs[t].todo).type # "points"
  /\ faults < MaxFaults
  /\ faults' = faults + 1
  /\ Leave(t)
  /\ UNCHANGED <<day, resetDue, plan, counted, user, points, history, sent, ghosts>>

\* the process ends: every request with it, and a reset that was due (the
\* scheduler keeps its jobs in memory)
Restart ==
  /\ faults < MaxFaults
  /\ faults' = faults + 1
  /\ reqs' = [t \in Threads |-> Idle]
  /\ resetDue' = FALSE
  /\ UNCHANGED <<day, plan, counted, user, points, history, sent, ghosts>>

Midnight ==
  /\ day < MaxDay /\ ~resetDue
  /\ day' = day + 1
  /\ resetDue' = TRUE
  /\ UNCHANGED <<plan, counted, user, points, history, reqs, sent, faults, ghosts>>

\* (a variant: the second statement, which clears the flags, is missing)
HalveOnly ==
  /\ resetDue
  /\ resetDue' = FALSE
  /\ user' = IF user.sign THEN user ELSE [user EXCEPT !.streak = @ \div 2]
  /\ period' = period + 1
  /\ UNCHANGED <<day, plan, counted, points, history, reqs, sent, faults, paid,
                 marked, closed, cards>>

\* the streak of a user who did not check in is halved, the flag of one who
\* did is cleared, in one transaction
ClearAppSign ==
  /\ resetDue
  /\ resetDue' = FALSE
  /\ user' = IF user.sign THEN [user EXCEPT !.sign = FALSE]
             ELSE [user EXCEPT !.streak = @ \div 2]
  /\ period' = period + 1
  /\ UNCHANGED <<day, plan, counted, points, history, reqs, sent, faults, paid,
                 marked, closed, cards>>

\* the user's traffic is counted on the same row, up to the quota
Consume ==
  /\ user.u + user.d < plan.enable /\ counted < MaxUse
  /\ counted' = counted + 1
  /\ \/ user' = [user EXCEPT !.u = @ + 1]
     \/ user' = [user EXCEPT !.d = @ + 1]
  /\ UNCHANGED <<day, resetDue, plan, points, history, reqs, sent, faults, ghosts>>

\* the panel starts a new month for a plan that resets
ResetTraffic ==
  /\ plan.resets /\ user.u + user.d > 0
  /\ user' = [user EXCEPT !.u = 0, !.d = 0]
  /\ UNCHANGED <<day, resetDue, plan, counted, points, history, reqs, sent, faults, ghosts>>

CheckinStep(t) == Admit(t) \/ Pay(t) \/ MarkSigned(t) \/ Record(t)
ResignStep(t) ==
  \/ BeginResign(t) \/ LookUpYesterday(t) \/ CheckPoints(t)
  \/ Deduct(t) \/ RecordCard(t) \/ RestoreStreak(t)

Next ==
  \/ \E t \in Threads :
       CheckinStep(t) \/ ResignStep(t) \/ SkipPoints(t) \/ Fail(t)
  \/ Restart \/ Midnight \/ ClearAppSign \/ Consume \/ ResetTraffic

\* the clock goes on, and a job that is triggered is run
Spec == Init /\ [][Next]_vars /\ WF_vars(Midnight) /\ WF_vars(ClearAppSign)

-----------------------------------------------------------------------------
(* What the rows keep, whatever runs together and whatever fails *)

TypeOK ==
  /\ day \in 1 .. MaxDay /\ resetDue \in BOOLEAN /\ plan \in Plans
  /\ user \in [sign : BOOLEAN, streak : Nat, u : Int, d : Int]
  /\ points \in Int
  /\ history \in [0 .. MaxDay -> {"none", "normal", "card"}]
  /\ \A t \in Threads : reqs[t].pc \in Pcs /\ reqs[t].date \in 0 .. MaxDay
  /\ period \in 0 .. MaxDay /\ marked \subseteq 0 .. MaxDay
  /\ closed \subseteq 0 .. MaxDay
  /\ paid \in [0 .. MaxDay -> Nat] /\ cards \in Nat

\* Once a check-in has finished, no other is let through before the next
\* reset, whatever was under way when it set the flag and whatever is written to
\* the row meanwhile: a card that restores a streak, counted traffic, a check-in
\* admitted before a reset that finishes after it.
FinishedShutsOut ==
  [][\A t \in Threads :
       period \in closed /\ reqs'[t].pc = "pay" => reqs[t].pc = "pay"]_vars

\* A period pays more than one check-in only where they overlap or a fault ends
\* one between its payment and its mark: at most one for each thread, and as
\* many again for each fault.
PaymentsBounded ==
  \A p \in 0 .. MaxDay : paid[p] <= Cardinality(Threads) * (1 + faults)

\* The streak is earned: however check-ins, cards and the midnight job
\* interleave, it is at most one more for each period in which a check-in
\* finished and for each card that was paid.
StreakEarned == user.streak <= InitStreak + Cardinality(marked) + cards

\* Every make-up row in the calendar was paid for, also when a statement
\* failed or the process ended between the payment and the row.
CardIsPaid == Cardinality({n \in 0 .. MaxDay : history[n] = "card"}) <= cards

\* The balance of points is checked and then reduced without a condition, so
\* cards bought at the same time can overdraw it: by one card less than
\* there are threads, and no more however long this goes on.
DebtBounded == points >= - Cost * (Cardinality(Threads) - 1)

\* A user who is marked as signed is not locked out for good: a reset that
\* was missed, or a check-in that straddled midnight, costs a day for each
\* fault, and the next reset that runs clears the flag.
LockoutEnds == (user.sign /\ day + MaxFaults < MaxDay) ~> ~user.sign

\* docs/release-preflight-v1.0.20.md: check-in is once a day.
OncePerDay == \A p \in 0 .. MaxDay : paid[p] <= 1

=============================================================================
