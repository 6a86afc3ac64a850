---------------------------- MODULE TicketWorker ----------------------------
(***************************************************************************)
(* The worker that answers support tickets (src/server/checkin-api/main.py,*)
(* _ticket_worker), which the scheduler runs every 30 seconds, one run at  *)
(* a time, on the panel's tables v2_ticket and v2_ticket_message.          *)
(*                                                                         *)
(* A run reads the messages above a cursor in one transaction, asks the    *)
(* rules and the language model without a transaction, and writes all the  *)
(* answers in a second one.  The users, the human support and a restart of *)
(* the process come in between.  The cursor and the set of tickets in      *)
(* flight live in the memory of the process.                               *)
(***************************************************************************)
EXTENDS Integers, Sequences, FiniteSets, FiniteSetsExt

CONSTANTS
  Tickets,    \* the tickets
  BatchSize,  \* LIMIT of the query
  FirstId,    \* the id the first message gets
  MaxPosts,   \* bound: messages the users write
  MaxHuman,   \* bound: answers the human support writes
  MaxFaults   \* bound: failures, late commits and restarts

ASSUME TicketAssumption ==
  /\ IsFiniteSet(Tickets) /\ Tickets # {}
  /\ BatchSize \in Nat \ {0} /\ FirstId \in Nat \ {0}
  /\ MaxPosts \in Nat /\ MaxHuman \in Nat /\ MaxFaults \in Nat

VARIABLES
  msgs,      \* v2_ticket_message, by insertion; a row is seen once committed
  tickets,   \* v2_ticket: is it open, is its reply_status 1
  cursor,    \* _ticket_last_check_id, as a position of msgs
  started,   \* the cursor is not 0 any more
  inFlight,  \* _ticket_in_flight
  closeSet,  \* _match_auto_close_rule._close_set
  phase,     \* between the two transactions of a run, or idle
  pending,   \* the messages the run took
  replies,   \* the messages it has an answer for
  faults,    \* how many faults there were
  handed,    \* history variable: messages that were ever taken by a run
  excused    \* history variable: committed below the cursor or before an answer to
             \* its ticket, or passed by a run that failed

vars == <<msgs, tickets, cursor, started, inFlight, closeSet, phase, pending,
          replies, faults, handed, excused>>
worker == <<cursor, started, inFlight, closeSet, phase, pending, replies>>

\* what the texts of the rules make of a message: a reply that closes the
\* ticket (prizes, refunds), a fixed reply, none (payouts), or the model's
Classes == {"closing", "fixed", "payout", "other"}

Ids == 1 .. Len(msgs)
Seen(i) == msgs[i].seen
FromUser(i) == msgs[i].from = "user"
\* a committed answer with a higher id: by a person, or by the worker
AnswerAfter(i) ==
  \E j \in Ids : j > i /\ msgs[j].ticket = msgs[i].ticket /\ ~FromUser(j)
\* what the queries look for
Waiting(i) ==
  FromUser(i) /\ Seen(i) /\ tickets[msgs[i].ticket] = [open |-> TRUE, replied |-> FALSE]

Count(from) == Cardinality({i \in Ids : msgs[i].from = from})

-----------------------------------------------------------------------------
Init ==
  /\ msgs = <<>>
  /\ tickets = [t \in Tickets |-> [open |-> TRUE, replied |-> FALSE]]
  /\ cursor = 0 /\ started = FALSE /\ inFlight = {} /\ closeSet = {}
  /\ phase = "idle" /\ pending = {} /\ replies = {}
  /\ faults = 0 /\ handed = {} /\ excused = {}

-----------------------------------------------------------------------------
(* The panel: users and human support *)

Message(t, from, class, seen, re) ==
  [ticket |-> t, from |-> from, class |-> class, seen |-> seen, re |-> re]

\* a user writes; the panel marks the ticket as waiting in the same transaction
Post(t, class) ==
  /\ Count("user") < MaxPosts /\ tickets[t].open
  /\ msgs' = Append(msgs, Message(t, "user", class, TRUE, 0))
  /\ tickets' = [tickets EXCEPT ![t].replied = FALSE]
  /\ UNCHANGED <<worker, faults, handed, excused>>

\* the row has its id, its transaction takes longer (a plain question, for the
\* bound's sake)
PostSlowly(t) ==
  /\ Count("user") < MaxPosts /\ tickets[t].open /\ faults < MaxFaults
  /\ faults' = faults + 1
  /\ msgs' = Append(msgs, Message(t, "user", "other", FALSE, 0))
  /\ UNCHANGED <<tickets, worker, handed, excused>>

Commit(i) ==
  /\ ~Seen(i)
  /\ msgs' = [msgs EXCEPT ![i].seen = TRUE]
  /\ tickets' = [tickets EXCEPT ![msgs[i].ticket].replied = FALSE]
  /\ excused' = IF i <= cursor \/ AnswerAfter(i) THEN excused \cup {i} ELSE excused
  /\ UNCHANGED <<worker, faults, handed>>

\* a person answers, and may close the ticket
HumanReply(t) ==
  /\ Count("human") < MaxHuman /\ tickets[t].open
  /\ \E i \in Ids : Waiting(i) /\ msgs[i].ticket = t
  /\ msgs' = Append(msgs, Message(t, "human", "other", TRUE, 0))
  /\ \E open \in BOOLEAN : tickets' = [tickets EXCEPT ![t] = [open |-> open, replied |-> TRUE]]
  /\ UNCHANGED <<worker, faults, handed, excused>>

-----------------------------------------------------------------------------
(* The first transaction of a run *)

\* where a worker that has just started begins: below the oldest message that
\* waits; if there is none, or its id leaves a cursor of 0, above them all
StartAt ==
  LET waiting == {i \in Ids : Waiting(i)}
      below == IF waiting = {} THEN 0 ELSE Min(waiting) - 1
  IN  IF waiting = {} \/ below + FirstId - 1 = 0
      THEN Max({0} \cup {i \in Ids : Seen(i)}) ELSE below

\* the messages of the query: waiting, above the cursor, the oldest few
Batch(from) ==
  LET found == {i \in Ids : i > from /\ Waiting(i)}
  IN  {i \in found : Cardinality({j \in found : j <= i}) <= BatchSize}

From == IF started THEN cursor ELSE StartAt

\* (a variant: the messages are not compared with the answers in the table)
TakeAnswered(batch) == {i \in batch : msgs[i].ticket \notin inFlight}

\* of a batch, what is handed to the second phase
Take(batch) == {i \in batch : msgs[i].ticket \notin inFlight /\ ~AnswerAfter(i)}

TicketsOf(S) == {msgs[i].ticket : i \in S}

\* nothing waits when the worker starts: it only sets its cursor
StartIdle ==
  /\ phase = "idle" /\ ~started
  /\ Batch(StartAt) = {}
  /\ cursor' = StartAt
  /\ started' = (StartAt + FirstId - 1 > 0)
  /\ UNCHANGED <<msgs, tickets, inFlight, closeSet, phase, pending, replies,
                 faults, handed, excused>>

\* (a variant: the cursor moves over the messages that are taken)
ScanMovesOverTaken ==
  /\ phase = "idle"
  /\ \E batch \in {Batch(From)} : \E taken \in {Take(batch)} :
         /\ batch # {}
         /\ cursor' = IF taken = {} THEN From ELSE Max(taken)
         /\ pending' = taken
         /\ inFlight' = (inFlight \cap TicketsOf(batch)) \cup TicketsOf(taken)
         /\ handed' = handed \cup taken
         /\ phase' = IF taken = {} THEN "idle" ELSE "triage"
  /\ started' = TRUE
  /\ UNCHANGED <<msgs, tickets, closeSet, replies, faults, excused>>

Scan ==
  /\ phase = "idle"
  /\ \E batch \in {Batch(From)} : \E taken \in {Take(batch)} :
         /\ batch # {}
         /\ cursor' = Max(batch)
         /\ pending' = taken
         /\ inFlight' = (inFlight \cap TicketsOf(batch)) \cup TicketsOf(taken)
         /\ handed' = handed \cup taken
         /\ phase' = IF taken = {} THEN "idle" ELSE "triage"
  /\ started' = TRUE
  /\ UNCHANGED <<msgs, tickets, closeSet, replies, faults, excused>>

\* a statement fails in the middle of the batch: the cursor has moved over the
\* messages looked at, what was taken is forgotten
ScanFails ==
  /\ phase = "idle" /\ faults < MaxFaults
  /\ \E i \in Batch(From) :
       /\ cursor' = i
       /\ excused' = excused \cup {j \in Batch(From) : j <= i}
  /\ started' = TRUE
  /\ faults' = faults + 1
  /\ UNCHANGED <<msgs, tickets, inFlight, closeSet, phase, pending, replies, handed>>

-----------------------------------------------------------------------------
(* The second phase and the second transaction *)

Class(i) == msgs[i].class

\* (a variant: every fixed reply closes its ticket)
TriageCloses ==
  /\ phase = "triage"
  /\ \E byModel \in SUBSET {i \in pending : Class(i) = "other"} :
       replies' = byModel \cup {i \in pending : Class(i) \in {"closing", "fixed"}}
  /\ closeSet' = closeSet \cup TicketsOf({i \in pending : Class(i) \in {"closing", "fixed"}})
  /\ pending' = {}
  /\ phase' = IF replies' = {} THEN "idle" ELSE "write"
  /\ UNCHANGED <<msgs, tickets, cursor, started, inFlight, faults, handed, excused>>

\* rules first, payouts are left to people, refunds and prizes have a fixed
\* text, and the model answers the rest if it can
Triage ==
  /\ phase = "triage"
  /\ \E byModel \in SUBSET {i \in pending : Class(i) = "other"} :
       replies' = byModel \cup {i \in pending : Class(i) \in {"closing", "fixed"}}
  /\ closeSet' = closeSet \cup TicketsOf({i \in pending : Class(i) = "closing"})
  /\ pending' = {}
  /\ phase' = IF replies' = {} THEN "idle" ELSE "write"
  /\ UNCHANGED <<msgs, tickets, cursor, started, inFlight, faults, handed, excused>>

\* the ways to run through a set of messages by id (there is one), and the
\* rows that answer them
Orders(S) ==
  {order \in [1 .. Cardinality(S) -> S] :
     /\ \A m, n \in DOMAIN order : m < n => order[m] < order[n]
     /\ \A i \in S : \E n \in DOMAIN order : order[n] = i}
Answers(order) ==
  [n \in DOMAIN order |->
     Message(msgs[order[n]].ticket, "ai", "other", TRUE, order[n])]

\* (a variant: the tickets stay in flight)
WriteKeepsFlight ==
  /\ phase = "write"
  /\ \E order \in Orders(replies) : msgs' = msgs \o Answers(order)
  /\ tickets' = [t \in Tickets |->
       IF t \notin TicketsOf(replies) THEN tickets[t]
       ELSE [open |-> tickets[t].open /\ t \notin closeSet, replied |-> TRUE]]
  /\ phase' = "idle" /\ replies' = {}
  /\ UNCHANGED <<cursor, started, inFlight, closeSet, pending, faults, handed, excused>>

\* all answers, and the status of their tickets, in one transaction
Write ==
  /\ phase = "write"
  /\ \E order \in Orders(replies) : msgs' = msgs \o Answers(order)
  /\ tickets' = [t \in Tickets |->
       IF t \notin TicketsOf(replies) THEN tickets[t]
       ELSE [open |-> tickets[t].open /\ t \notin closeSet, replied |-> TRUE]]
  /\ inFlight' = inFlight \ TicketsOf(replies)
  /\ phase' = "idle" /\ replies' = {}
  /\ UNCHANGED <<cursor, started, closeSet, pending, faults, handed, excused>>

WriteFails ==
  /\ phase = "write" /\ faults < MaxFaults
  /\ faults' = faults + 1
  /\ phase' = "idle" /\ replies' = {}
  /\ UNCHANGED <<msgs, tickets, cursor, started, inFlight, closeSet, pending, handed, excused>>

\* what the process had in memory is gone
Restart ==
  /\ faults < MaxFaults
  /\ faults' = faults + 1
  /\ cursor' = 0 /\ started' = FALSE /\ inFlight' = {} /\ closeSet' = {}
  /\ phase' = "idle" /\ pending' = {} /\ replies' = {}
  /\ UNCHANGED <<msgs, tickets, handed, excused>>

Next ==
  \/ \E t \in Tickets :
       (\E class \in Classes : Post(t, class)) \/ PostSlowly(t) \/ HumanReply(t)
  \/ \E i \in Ids : Commit(i)
  \/ StartIdle \/ Scan \/ ScanFails \/ Triage \/ Write \/ WriteFails \/ Restart

\* the scheduler runs the worker again and again, and a run goes on to its end
Work == StartIdle \/ Scan \/ Triage \/ Write
Spec == Init /\ [][Next]_vars /\ WF_vars(Work)

-----------------------------------------------------------------------------
(* What the users may rely on *)

TypeOK ==
  /\ \A i \in Ids :
       msgs[i] \in [ticket : Tickets, from : {"user", "human", "ai"}, class : Classes,
                   seen : BOOLEAN, re : 0 .. Len(msgs)]
  /\ tickets \in [Tickets -> [open : BOOLEAN, replied : BOOLEAN]]
  /\ cursor \in 0 .. Len(msgs) /\ started \in BOOLEAN
  /\ inFlight \subseteq Tickets /\ closeSet \subseteq Tickets
  /\ phase \in {"idle", "triage", "write"}
  /\ pending \subseteq Ids /\ replies \subseteq Ids
  /\ handed \subseteq Ids /\ excused \subseteq Ids

\* A message gets one answer of the worker at most, also when a restart makes
\* the worker begin again below messages it has answered.
AnsweredOnce == \A i \in Ids : Cardinality({j \in Ids : msgs[j].re = i}) <= 1

\* a message nobody has taken, which no query will find any more
Forgotten(i) ==
  /\ FromUser(i) /\ Seen(i) /\ i \notin handed
  /\ tickets[msgs[i].ticket].open
  /\ ~\E j \in Ids : j > i /\ msgs[j].ticket = msgs[i].ticket /\ msgs[j].from = "human"
  /\ (started /\ i <= cursor) \/ tickets[msgs[i].ticket].replied

\* A message is forgotten for three reasons only: it became visible too late,
\* below the cursor or before an answer, or a run failed over it; it follows one
\* of its ticket that the worker took and has not answered; or it was written
\* while the answer to an earlier one was on its way.
LossExplained ==
  \A i \in Ids : Forgotten(i) =>
    \/ i \in excused
    \/ \E j \in handed :
         /\ j < i /\ msgs[j].ticket = msgs[i].ticket
         /\ \A k \in Ids : msgs[k].re = j => i < k

\* The worker closes a ticket only if a message of the ticket that it took asked
\* for what closes one, though the set of tickets to close is never emptied while
\* the process lives, and outlives a write that failed.
ClosedForAReason ==
  [][\A t \in Tickets :
       tickets[t].open /\ ~tickets'[t].open /\ msgs'[Len(msgs')].from = "ai"
         => \E i \in handed : msgs[i].ticket = t /\ msgs[i].class = "closing"]_vars

\* The query's limit starves no one: the messages that wait above the cursor are
\* all passed by it in the end, or stop waiting.
NothingStarves == []<>(\A i \in Ids : Waiting(i) => i <= cursor)

\* src/server/checkin-api/main.py, _ticket_worker: each further question of a
\* user has a new id and is picked up naturally.
FollowUpPickedUp == []<>(\A i \in Ids :
  FromUser(i) /\ Seen(i) /\ tickets[msgs[i].ticket].open =>
    \/ i \in handed
    \/ \E j \in Ids : j > i /\ msgs[j].ticket = msgs[i].ticket /\ msgs[j].from = "human")

=============================================================================
