--------------------------- MODULE WebhookDelivery ---------------------------
(***************************************************************************)
(* The delivery of webhooks: rows of webhook_delivery, put there by the    *)
(* transactions that enqueue events, and the loops that send them to the   *)
(* subscribers (run_delivery_loop around deliver_pending).                 *)
(*                                                                         *)
(* A batch is one transaction: its rows are read once, at its start, and   *)
(* the columns that changed are written when all of them have been sent.   *)
(* next_attempt_at is abstracted to whether it has passed.                 *)
(***************************************************************************)
EXTENDS Integers, Sequences, FiniteSets

CONSTANTS
  Deliveries,   \* rows: an event for a subscription
  Loops,        \* processes running run_delivery_loop
  MaxBatch,     \* max_batch of deliver_pending
  MaxAttempts,  \* max_attempts of deliver_pending
  MaxDeaths     \* bound: deaths of a loop

ASSUME DeliveryAssumption ==
  /\ IsFiniteSet(Deliveries)
  /\ MaxBatch \in Nat \ {0} /\ MaxAttempts \in Nat \ {0}
  /\ MaxDeaths \in Nat

VARIABLES
  status, attempts, due,   \* columns of webhook_delivery; "NONE": no such row
  loop,      \* the batch each loop has in progress
  received,  \* deliveries whose body a subscriber has accepted
  unanswered,  \* sends of each delivery without a 2xx answer, up to MaxAttempts
  deaths

table == <<status, attempts, due>>
world == <<received, unanswered>>
vars == <<table, world, loop, deaths>>

Final == {"DELIVERED", "FAILED"}
NoBatch == [pc |-> "idle", todo |-> <<>>, wrote |-> <<>>]

Init ==
  /\ status = [d \in Deliveries |-> "NONE"]
  /\ attempts = [d \in Deliveries |-> 0]
  /\ due = [d \in Deliveries |-> FALSE]
  /\ loop = [p \in Loops |-> NoBatch]
  /\ received = {} /\ unanswered = [d \in Deliveries |-> 0]
  /\ deaths = 0

\* enqueue_event, committed with the change of status that it tells of.
Enqueue(d) ==
  /\ status[d] = "NONE"
  /\ status' = [status EXCEPT ![d] = "PENDING"]
  /\ due' = [due EXCEPT ![d] = TRUE]
  /\ UNCHANGED <<attempts, world, loop, deaths>>

----------------------------------------------------------------------------
SelectableAny == {d \in Deliveries : due[d]}   \* mutant: the filter on status is lost

Selectable == {d \in Deliveries : status[d] = "PENDING" /\ due[d]}

\* As many due rows as the limit admits, in no particular order.
Batches(S) ==
  LET n == IF Cardinality(S) < MaxBatch THEN Cardinality(S) ELSE MaxBatch
  IN  {b \in [1 .. n -> S] : \A i, j \in 1 .. n : b[i] = b[j] => i = j}

Select(p) ==
  /\ loop[p].pc = "idle" /\ Selectable # {}
  /\ \E b \in Batches(Selectable) :
       loop' = [loop EXCEPT ![p] = [NoBatch EXCEPT !.pc = "send", !.todo =
                  [i \in DOMAIN b |-> [row |-> b[i], attempts |-> attempts[b[i]]]]]]
  /\ UNCHANGED <<table, world, deaths>>

\* The columns a send leaves to be written.  A delivery keeps its status and
\* its attempts in the row unless the code assigned them.
Delivered == [status |-> "DELIVERED"]
RetryOrGiveUpLate(n) ==   \* mutant: one attempt too many
  IF n > MaxAttempts THEN [attempts |-> n, status |-> "FAILED"] ELSE [attempts |-> n, due |-> FALSE]
RetryOrGiveUp(n) ==
  IF n >= MaxAttempts THEN [attempts |-> n, status |-> "FAILED"] ELSE [attempts |-> n, due |-> FALSE]

OnErrorForgets(n) == [due |-> FALSE]   \* mutant: an exception is not an attempt
OnErrorFinal(n) == [attempts |-> n, status |-> "FAILED"]   \* mutant: an exception is final
OnError(n) == RetryOrGiveUp(n)

OnRefusalTaken(n) == Delivered   \* mutant: any answer counts as a delivery
OnRefusal(n) == RetryOrGiveUp(n)

Current(p) == Head(loop[p].todo).row
AttemptCountedTwice(p) ==   \* mutant: before the request, and again after it
  Head(loop[p].todo).attempts + 2
Attempt(p) == Head(loop[p].todo).attempts + 1
Noted(p, columns) ==
  loop' = [loop EXCEPT ![p].todo = Tail(@),
                       ![p].wrote = Append(@, [row |-> Current(p), columns |-> columns])]
NotTaken(d) ==
  unanswered' = [unanswered EXCEPT ![d] = IF @ < MaxAttempts THEN @ + 1 ELSE @]

Sending(p) == loop[p].pc = "send" /\ loop[p].todo # <<>>

SendAccepted(p) ==
  /\ Sending(p)
  /\ received' = received \cup {Current(p)}
  /\ Noted(p, Delivered)
  /\ UNCHANGED <<table, unanswered, deaths>>

SendRefused(p) ==
  /\ Sending(p)
  /\ NotTaken(Current(p))
  /\ Noted(p, OnRefusal(Attempt(p)))
  /\ UNCHANGED <<table, received, deaths>>

\* No connection, a time-out, a lost answer: the subscriber may have it or not.
SendError(p) ==
  /\ Sending(p)
  /\ received' \in {received, received \cup {Current(p)}}
  /\ NotTaken(Current(p))
  /\ Noted(p, OnError(Attempt(p)))
  /\ UNCHANGED <<table, deaths>>

\* The end of the transaction: the assigned columns, whatever the rows hold now.
Written(column, name, changes) ==
  [d \in Deliveries |->
     IF \E i \in DOMAIN changes : changes[i].row = d /\ name \in DOMAIN changes[i].columns
     THEN (CHOOSE c \in {changes[i] : i \in DOMAIN changes} : c.row = d).columns[name]
     ELSE column[d]]

Commit(p) ==
  /\ loop[p].pc = "send" /\ loop[p].todo = <<>>
  /\ status' = Written(status, "status", loop[p].wrote)
  /\ attempts' = Written(attempts, "attempts", loop[p].wrote)
  /\ due' = Written(due, "due", loop[p].wrote)
  /\ loop' = [loop EXCEPT ![p] = NoBatch]
  /\ UNCHANGED <<world, deaths>>

\* The loop's process dies, or an exception of the database leaves the loop:
\* nothing of the batch is written.
Die(p) ==
  /\ loop[p].pc # "down" /\ deaths < MaxDeaths
  /\ loop' = [loop EXCEPT ![p] = [NoBatch EXCEPT !.pc = "down"]]
  /\ deaths' = deaths + 1
  /\ UNCHANGED <<table, world>>

Restart(p) ==
  /\ loop[p].pc = "down"
  /\ loop' = [loop EXCEPT ![p] = NoBatch]
  /\ UNCHANGED <<table, world, deaths>>

\* The backoff of a row passes.
Elapse(d) ==
  /\ status[d] = "PENDING" /\ ~due[d]
  /\ due' = [due EXCEPT ![d] = TRUE]
  /\ UNCHANGED <<status, attempts, world, loop, deaths>>

----------------------------------------------------------------------------
Deliver(p) == Select(p) \/ SendAccepted(p) \/ SendRefused(p) \/ SendError(p) \/ Commit(p)

Next == \/ \E d \in Deliveries : Enqueue(d) \/ Elapse(d)
        \/ \E p \in Loops : Deliver(p) \/ Die(p) \/ Restart(p)

Spec == Init /\ [][Next]_vars

\* The loop is endless and is restarted, and time passes; nothing is promised
\* of the subscribers.
FairSpec == /\ Spec
            /\ \A d \in Deliveries : WF_vars(Elapse(d))
            /\ \A p \in Loops : WF_vars(Deliver(p)) /\ WF_vars(Restart(p))
=============================================================================
