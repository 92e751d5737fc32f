-------------------------- MODULE WebhookProperties --------------------------
(***************************************************************************)
(* What must hold of WebhookDelivery: at-least-once delivery with a last   *)
(* attempt (Design-Doc.md 8.5).                                            *)
(***************************************************************************)
EXTENDS WebhookDelivery

Columns == [status: {"DELIVERED"}] \cup [attempts: 1 .. MaxAttempts, status: {"FAILED"}]
           \cup [attempts: 1 .. MaxAttempts, due: {FALSE}]
LoopState == [pc: {"idle", "send", "down"},
              todo: Seq([row: Deliveries, attempts: 0 .. MaxAttempts - 1]),
              wrote: Seq([row: Deliveries, columns: Columns])]

\* Every variable has its type; attempts never go beyond max_attempts.
TypeOK ==
  /\ status \in [Deliveries -> {"NONE", "PENDING"} \cup Final]
  /\ attempts \in [Deliveries -> 0 .. MaxAttempts]
  /\ due \in [Deliveries -> BOOLEAN]
  /\ loop \in [Loops -> LoopState]
  /\ received \subseteq Deliveries
  /\ unanswered \in [Deliveries -> 0 .. MaxAttempts]
  /\ deaths \in 0 .. MaxDeaths

\* A row is DELIVERED only if a subscriber has accepted it, whichever loop's
\* outcome was committed last (deliver_pending 77-78).
DeliveredMeansReceived == \A d \in Deliveries : status[d] = "DELIVERED" => d \in received

\* A row is given up only after max_attempts sends that were not answered with
\* a 2xx, also when two loops count in the same row and a death forgets some.
FailedMeansExhausted ==
  \A d \in Deliveries : status[d] = "FAILED" => unanswered[d] = MaxAttempts

\* An attempt that is counted was made: the counter never runs ahead of the
\* sends, in the rows and in what the loops have read of them.
AttemptsWereMade ==
  \A d \in Deliveries :
    /\ attempts[d] <= unanswered[d]
    /\ \A p \in Loops : \A i \in DOMAIN loop[p].todo :
         loop[p].todo[i].row = d => loop[p].todo[i].attempts <= unanswered[d]

InBatch(p, d) == \/ \E i \in DOMAIN loop[p].todo : loop[p].todo[i].row = d
                 \/ \E i \in DOMAIN loop[p].wrote : loop[p].wrote[i].row = d

\* A row that is DELIVERED or FAILED stays so, and is not sent again, once no
\* loop has it in a batch: the filter of the query is all that protects it.
OutcomeIsFinal ==
  [][\A d \in Deliveries :
       status[d] \in Final /\ (\A p \in Loops : ~InBatch(p, d))
       => status'[d] = status[d] /\ \A p \in Loops : ~InBatch(p, d)']_vars

\* Every enqueued row is DELIVERED or FAILED in the end, whatever the
\* subscribers answer, and though two loops overwrite one another's counts.
DeliveryEnds == \A d \in Deliveries : status[d] = "PENDING" ~> status[d] \in Final
=============================================================================
