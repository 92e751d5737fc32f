---------------------------- MODULE RunProperties ----------------------------
(***************************************************************************)
(* What must hold of RunLifecycle, and what the repository's documents say *)
(* of it that does not.                                                    *)
(***************************************************************************)
EXTENDS RunLifecycle

\* Every variable has its type (the schema of run, run_result and the two logs).
TypeOK ==
  /\ status \in [RunIds -> Status]
  /\ key \in [RunIds -> Keys \cup {NoKey}]
  /\ progress \in [RunIds -> {"none", "loaded", "done"}]
  /\ repeats \subseteq RunIds
  /\ results \in [RunIds -> Seq(SUBSET Metrics)]
  /\ measured \in [RunIds -> SUBSET Metrics]
  /\ outbox \in [RunIds -> Seq(Event)]
  /\ audit \in [RunIds -> SUBSET {"run.create", "run.cancel"}]
  /\ artifacts \in [RunIds -> SUBSET {"predictions", "metric_results"}]
  /\ history \in [RunIds -> SUBSET Metrics]
  /\ blob \in [RunIds -> SUBSET Metrics]
  /\ client \in [Clients -> ClientState]
  /\ worker \in [Workers -> WorkerState]
  /\ replies \subseteq Keys \X (RunIds \cup {NoRun})
  /\ nextRun \in 1 .. MaxRuns + 1
  /\ crashes \in 0 .. MaxCrashes
  /\ requests \in 0 .. MaxRequests

----------------------------------------------------------------------------
(* Safety                                                                  *)

\* A run is never COMPLETED while its results are not committed and its
\* artifacts not stored: whatever cancellations, crashes and aggregations
\* interleave with the worker that completes it (process_run_locally 142-162).
CompletedIsVisible ==
  \A r \in RunIds : status[r] = "COMPLETED" =>
    /\ results[r] # <<>>
    /\ artifacts[r] = {"predictions", "metric_results"}

SingleWorker == \A v, w \in Workers : v = w

\* With one worker, what a committed pass inserted for the metrics that have
\* per-example scores is in the analytics history or in the object that stands
\* in for it, whichever passes follow: write_run_results runs before the commit,
\* and a later pass overwrites the object with the same metrics.  (A second
\* worker may execute the run again, and overwrite it with fewer.)
ResultsHaveHistory ==
  SingleWorker => \A r \in RunIds : \A i \in DOMAIN results[r] :
    Listed(r, results[r][i]) \subseteq history[r] \cup blob[r]

\* All successful replies to one idempotency key name one run, which exists and
\* carries that key, however the requests interleave (create_run and
\* uq_run_idempotency together).
SameKeySameRun ==
  /\ \A x, y \in replies : x[1] = y[1] /\ NoRun \notin {x[2], y[2]} => x[2] = y[2]
  /\ \A x \in replies : x[2] # NoRun => Exists(x[2]) /\ key[x[2]] = x[1]

LastEvent(r) == outbox[r][Len(outbox[r])]
Explains(s) == CASE s \in {"QUEUED", "PENDING_SUBMISSION"} -> "run.queued"
                 [] s = "RUNNING"   -> "run.started"
                 [] s = "COMPLETED" -> "run.completed"
                 [] s = "FAILED"    -> "run.failed"
                 [] s = "CANCELLED" -> "run.cancelled"

\* A cancelled run has its audit row, a run that no script repeated has the one
\* of its creation, and the event that explains a status has been enqueued, even
\* when a cancel, a worker and an aggregation overwrite one another's status: each
\* writer enqueues in the transaction that writes.  With one worker that event is
\* the last.  Two kinds of status have no event: AGGREGATING, and the QUEUED of a
\* run that replay inserted.  (A second worker that has read RUNNING may commit
\* run.started after a cancellation, without writing the status.)
StatusIsAccountedFor ==
  \A r \in RunIds : status[r] \notin {"NONE", "AGGREGATING"} =>
    /\ r \in repeats \/ "run.create" \in audit[r]
    /\ status[r] = "CANCELLED" => "run.cancel" \in audit[r]
    /\ (r \in repeats /\ status[r] = "QUEUED") \/ Sent(r, Explains(status[r]))
    /\ SingleWorker /\ outbox[r] # <<>> => LastEvent(r) = Explains(status[r])

\* With one worker, a run is executed at most once and ends at most once, across
\* crashes and restarts: RUNNING hides it from the poll for good.  (Two workers
\* may execute it twice, since the poll does not claim what it reads.)
AtMostOneExecution ==
  \A r \in RunIds : \A i, j \in DOMAIN outbox[r] :
    i < j => /\ ~(outbox[r][i] = "run.started" /\ outbox[r][j] = "run.started")
             /\ ~({outbox[r][i], outbox[r][j]} \subseteq {"run.completed", "run.failed"})

Active == {r \in RunIds : Exists(r) /\ status[r] \notin Terminal}
Uncancelled == {r \in RunIds : ~Sent(r, "run.cancelled")}

\* The quota is checked by counting rows before the transaction that inserts one
\* commits, so racing creates exceed it, by less than one run for each request;
\* and a worker revives the cancelled run it holds after its place was given away,
\* which adds at most one run for each worker (create_run 106-118,
\* _set_run_status).  With one worker the runs that nobody cancelled stay within
\* what the race explains.  Without this limit are the runs that replay inserts,
\* which looks at no quota; the aggregation endpoint, which revives any finished
\* run; and Temporal, whose pending submissions are not counted.
ExcessIsBounded ==
  ~AggregatorServed /\ ~UseTemporal =>
    /\ Cardinality(Active \ repeats) <= Quota - 1 + Cardinality(Clients) + Cardinality(Workers)
    /\ SingleWorker =>
         Cardinality((Active \cap Uncancelled) \ repeats) <= Quota - 1 + Cardinality(Clients)

HeldByWorker(r) == \E w \in Workers : worker[w].run = r
HeldByAggregation(r) ==
  \E c \in Clients : client[c].run = r /\ client[c].op \in {"publish", "commit"}

\* A run cancelled while no worker and no aggregation holds it stays cancelled
\* and is not picked up: the poll's filter is all that protects it.
CancelledIsNotPickedUp ==
  [][\A r \in RunIds :
       status[r] = "CANCELLED" /\ ~HeldByWorker(r) /\ ~HeldByAggregation(r)
       => status'[r] = "CANCELLED" /\ ~HeldByWorker(r)']_vars

----------------------------------------------------------------------------
(* The contract the pipeline implements                                    *)

Started(r) == Sent(r, "run.started")
StageOf(r) == CASE ~Exists(r) -> "absent"
                [] Exists(r) /\ results[r] # <<>> -> "published"
                [] Exists(r) /\ results[r] = <<>> /\ Started(r) -> "started"
                [] Exists(r) /\ results[r] = <<>> /\ ~Started(r) -> "accepted"
OwnerOf(k) == IF \E r \in RunIds : HasKey(r, k)
              THEN CHOOSE r \in RunIds : HasKey(r, k) ELSE NoRun

Contract == INSTANCE RunContract WITH
              owner <- [k \in Keys |-> OwnerOf(k)],
              stage <- [r \in RunIds |-> StageOf(r)]

\* The pipeline implements the contract: a key is bound once, results appear
\* only after a start, and no run goes back a stage.
ImplementsContract == Contract!Spec

----------------------------------------------------------------------------
(* Liveness                                                                *)

\* The poll reaches every queued run, in spite of worker crashes.
QueuedIsTaken == \A r \in RunIds : status[r] = "QUEUED" ~> status[r] # "QUEUED"

\* Where the aggregation endpoint is not deployed, a queued run ends and stays
\* ended, or a worker has died: the worker's overwriting of cancellations
\* converges.
QueuedSettles ==
  \A r \in RunIds :
    status[r] = "QUEUED" ~> (crashes > 0 \/ [](status[r] \in Terminal))

----------------------------------------------------------------------------
(* Statements of the documents                                             *)

\* Design-Doc.md 17.7 and routes.py 3-8: CANCELLED is a final state.
CancelledIsFinal ==
  [][\A r \in RunIds : status[r] = "CANCELLED" => status'[r] = "CANCELLED"]_vars

\* aggregator.py 8: the results are idempotent on (run, metric, slice).
AggregationIdempotent ==
  \A r \in RunIds : \A i, j \in DOMAIN results[r] :
    i # j => results[r][i] \cap results[r][j] = {}
=============================================================================
