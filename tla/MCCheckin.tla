----------------------------- MODULE MCCheckin -----------------------------
(* Two plans: one that resets every month and expires before the last day,  *)
(* and one whose quota runs out.                                            *)
EXTENDS Checkin

MCPlans == {[enable |-> 2, expiry |-> 3, resets |-> TRUE],
            [enable |-> 3, expiry |-> 0, resets |-> FALSE]}

\* The days add up with the first plan, the requests with the second.
MCNext == Next /\ IF plan.resets THEN sent' <= 2 ELSE day' <= 2
MCSpec == Init /\ [][MCNext]_vars /\ WF_vars(Midnight) /\ WF_vars(ClearAppSign)
=============================================================================
