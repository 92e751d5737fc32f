---------------------------- MODULE RunLifecycle ----------------------------
(***************************************************************************)
(* The life of an evaluation run: the Run Service's create and cancel      *)
(* handlers, the script that repeats completed runs, the polling worker    *)
(* that executes runs, the aggregator (as the worker's last stage and as   *)
(* the endpoint POST /v1/aggregate/{run_id}), and the tables and objects   *)
(* they share.                                                             *)
(*                                                                         *)
(* Postgres runs at READ COMMITTED and the code takes no row locks of its  *)
(* own, so a transaction is two steps here: one that reads and decides,    *)
(* and one that writes and commits by primary key.  In between, the        *)
(* transaction remembers what it read ("seen"), because SQLAlchemy writes  *)
(* a column only when its value is not the one read; an exception or the   *)
(* death of the process in between rolls it back.                          *)
(***************************************************************************)
EXTENDS Integers, Sequences, FiniteSets

CONSTANTS
  Clients,        \* requests, and calls of replay, that can be open at one time
  Workers,        \* processes running melp.workers.runner.run
  Keys,           \* values of the Idempotency-Key header
  NoKey,          \* a request without that header
  MaxRuns,        \* bound: run rows ever attempted
  Quota,          \* project.quota_run_concurrency
  Metrics,        \* the metric versions a run asks for
  SingleValued,   \* <<run, metric>>: a result without per-example scores, as
                  \* the metric has none or the dataset is empty
  SlicedRuns,     \* runs whose dataset version has a slice that keeps examples
  UseTemporal,    \* MELP_USE_TEMPORAL = 1
  MaxCrashes,     \* bound: deaths of a worker process
  MaxRequests,    \* bound: cancel and aggregate requests admitted
  AggregatorServed \* the aggregator service (POST /v1/aggregate) is deployed

ASSUME ConstantsAssumption ==
  /\ MaxRuns \in Nat /\ Quota \in Nat
  /\ MaxCrashes \in Nat /\ MaxRequests \in Nat
  /\ UseTemporal \in BOOLEAN /\ AggregatorServed \in BOOLEAN
  /\ NoKey \notin Keys /\ SingleValued \subseteq (1 .. MaxRuns) \X Metrics

RunIds == 1 .. MaxRuns   \* in the order of submitted_at (transaction start)
NoRun == 0

VARIABLES
  status, key, progress,   \* columns of run; status "NONE": no such row
  repeats,     \* the rows that replay inserted (parent_run_id is set)
  results,     \* run_result: the metrics each committed aggregation inserted
  outbox,      \* webhook_delivery: events enqueued for the run, in commit order
  audit,       \* audit_log: actions recorded for the run
  artifacts,   \* objects under runs/{run_id}/ in the artifacts bucket
  measured,    \* the metrics that metric_results.json holds without an error
  history,     \* the metrics with rows of the run in melp.run_result_history
  blob,        \* the metrics with rows in runs/{run_id}/aggregate.json
  client,      \* the request each client has in progress
  worker,      \* the run and the next step of each worker
  replies,     \* replies to keyed creates: <<key, run>>, NoRun for an error 500
  nextRun, crashes, requests

db == <<status, key, progress, repeats, results, outbox, audit>>
store == <<artifacts, measured, history, blob>>
vars == <<db, store, client, worker, replies, nextRun, crashes, requests>>

Terminal == {"COMPLETED", "FAILED", "CANCELLED"}
Status == {"NONE", "PENDING_SUBMISSION", "QUEUED", "RUNNING", "AGGREGATING"} \cup Terminal
Event == {"run.queued", "run.started", "run.completed", "run.failed", "run.cancelled"}
Step == {"load", "start", "starting", "infer", "record", "evaluate", "aggregate",
         "publish", "commit", "complete", "completing"}
Busy == Step \cup {"fail", "failing"}

\* An open transaction has seen a status; a pass of the aggregator has loaded rows.
IdleClient == [op |-> "idle", run |-> NoRun, key |-> NoKey, seen |-> "NONE", rows |-> {}]
IdleWorker == [pc |-> "idle", run |-> NoRun, seen |-> "NONE", rows |-> {}]

ClientState ==
  {IdleClient} \cup
  [op: {"create", "repeat", "cancel", "publish", "commit"}, run: RunIds,
   key: Keys \cup {NoKey}, seen: Status, rows: SUBSET Metrics]
WorkerState ==
  [pc: {"idle", "down"}, run: {NoRun}, seen: {"NONE"}, rows: {{}}] \cup
  [pc: Busy, run: RunIds, seen: Status, rows: SUBSET Metrics]
Request(op, r, k) == [op |-> op, run |-> r, key |-> k, seen |-> "NONE", rows |-> {}]
Taken(r) == [pc |-> "load", run |-> r, seen |-> "NONE", rows |-> {}]

Init ==
  /\ status = [r \in RunIds |-> "NONE"]
  /\ key = [r \in RunIds |-> NoKey]
  /\ progress = [r \in RunIds |-> "none"]
  /\ repeats = {}
  /\ results = [r \in RunIds |-> <<>>]
  /\ outbox = [r \in RunIds |-> <<>>]
  /\ audit = [r \in RunIds |-> {}]
  /\ artifacts = [r \in RunIds |-> {}]
  /\ measured = [r \in RunIds |-> {}]
  /\ history = [r \in RunIds |-> {}]
  /\ blob = [r \in RunIds |-> {}]
  /\ client = [c \in Clients |-> IdleClient]
  /\ worker = [w \in Workers |-> IdleWorker]
  /\ replies = {}
  /\ nextRun = 1 /\ crashes = 0 /\ requests = 0

----------------------------------------------------------------------------
(* The Run Service: POST /runs.                                            *)

Exists(r) == status[r] # "NONE"
HasKey(r, k) == Exists(r) /\ k # NoKey /\ key[r] = k
CountedRunning ==   \* mutant: runs that wait to be taken are not counted
  {r \in RunIds : status[r] \in {"RUNNING", "AGGREGATING"}}
Counted == {r \in RunIds : status[r] \in {"QUEUED", "RUNNING", "AGGREGATING"}}

\* The first query of create_run finds the key: the original run is returned.
CreateReplay(c, k) ==
  /\ client[c].op = "idle"
  /\ \E r \in RunIds : HasKey(r, k) /\ replies' = replies \cup {<<k, r>>}
  /\ UNCHANGED <<db, store, client, worker, nextRun, crashes, requests>>

\* The checks of create_run on what is committed now: no run has the key and
\* the project is below its quota (otherwise 409, and nothing changes).
CreateBegin(c, k) ==
  /\ client[c].op = "idle"
  /\ nextRun <= MaxRuns
  /\ \A r \in RunIds : ~HasKey(r, k)
  /\ Cardinality(Counted) < Quota
  /\ client' = [client EXCEPT ![c] = Request("create", nextRun, k)]
  /\ nextRun' = nextRun + 1
  /\ UNCHANGED <<db, store, worker, replies, crashes, requests>>

KeyTakenUnchecked(k) == FALSE   \* mutant: the table without uq_run_idempotency

KeyTaken(k) == \E q \in RunIds : HasKey(q, k)

\* submit_run_workflow, called before the commit: with Temporal configured,
\* eval_workflow.start calls run_until_complete on the loop that runs the
\* handler and always raises; without it a failed Redis publish is swallowed.
DispatchedUnlisted ==   \* mutant: a status that no reader of the table knows
  IF UseTemporal THEN "PENDING_SUBMISSION" ELSE "SUBMITTED"

Dispatched == IF UseTemporal THEN "PENDING_SUBMISSION" ELSE "QUEUED"

\* The insert, its audit row and its event commit together.
CreateCommit(c) ==
  LET r == client[c].run  k == client[c].key IN
  /\ client[c].op = "create"
  /\ ~KeyTaken(k)
  /\ status' = [status EXCEPT ![r] = Dispatched]
  /\ key' = [key EXCEPT ![r] = k]
  /\ outbox' = [outbox EXCEPT ![r] = Append(@, "run.queued")]
  /\ audit' = [audit EXCEPT ![r] = @ \cup {"run.create"}]
  /\ replies' = IF k = NoKey THEN replies ELSE replies \cup {<<k, r>>}
  /\ client' = [client EXCEPT ![c] = IdleClient]
  /\ UNCHANGED <<progress, repeats, results, store, worker, nextRun, crashes, requests>>

\* Another request committed the key after this one looked: the flush raises
\* IntegrityError, which no handler turns into anything but a 500.
CreateConflict(c) ==
  /\ client[c].op = "create"
  /\ KeyTaken(client[c].key)
  /\ replies' = replies \cup {<<client[c].key, NoRun>>}
  /\ client' = [client EXCEPT ![c] = IdleClient]
  /\ UNCHANGED <<db, store, worker, nextRun, crashes, requests>>

----------------------------------------------------------------------------
(* scripts/reproducibility_check.py: replay inserts a child of a run that  *)
(* was COMPLETED when the sample was drawn.  It looks at no quota and no   *)
(* key, and writes neither an audit row nor an event.                      *)

Sent(r, event) == \E i \in DOMAIN outbox[r] : outbox[r][i] = event

RepeatBegin(c) ==
  /\ client[c].op = "idle"
  /\ nextRun <= MaxRuns
  /\ \E r \in RunIds : Sent(r, "run.completed")
  /\ client' = [client EXCEPT ![c] = Request("repeat", nextRun, NoKey)]
  /\ nextRun' = nextRun + 1
  /\ UNCHANGED <<db, store, worker, replies, crashes, requests>>

\* The column's default status, unless the dispatch raised (ClientAbort).
RepeatCommit(c) ==
  LET r == client[c].run IN
  /\ client[c].op = "repeat"
  /\ status' = [status EXCEPT ![r] = "QUEUED"]
  /\ key' = [key EXCEPT ![r] = NoKey]
  /\ repeats' = repeats \cup {r}
  /\ client' = [client EXCEPT ![c] = IdleClient]
  /\ UNCHANGED <<progress, results, outbox, audit, store, worker, replies,
                 nextRun, crashes, requests>>

----------------------------------------------------------------------------
(* POST /runs/{run_id}/cancel: the status is checked when it is read, and  *)
(* the update is by primary key alone; what was read was not CANCELLED.    *)

Cancellable(s) == s \notin Terminal \cup {"NONE"}

CancelBegin(c, r) ==
  /\ client[c].op = "idle"
  /\ Cancellable(status[r])
  /\ requests < MaxRequests
  /\ client' = [client EXCEPT ![c] = Request("cancel", r, NoKey)]
  /\ requests' = requests + 1
  /\ UNCHANGED <<db, store, worker, replies, nextRun, crashes>>

CancelCommitNoEvent(c) ==   \* mutant: the cancellation enqueues no event
  LET r == client[c].run IN
  /\ client[c].op = "cancel"
  /\ status' = [status EXCEPT ![r] = "CANCELLED"]
  /\ audit' = [audit EXCEPT ![r] = @ \cup {"run.cancel"}]
  /\ client' = [client EXCEPT ![c] = IdleClient]
  /\ UNCHANGED <<key, progress, repeats, results, outbox, store, worker, replies,
                 nextRun, crashes, requests>>

CancelCommit(c) ==
  LET r == client[c].run IN
  /\ client[c].op = "cancel"
  /\ status' = [status EXCEPT ![r] = "CANCELLED"]
  /\ outbox' = [outbox EXCEPT ![r] = Append(@, "run.cancelled")]
  /\ audit' = [audit EXCEPT ![r] = @ \cup {"run.cancel"}]
  /\ client' = [client EXCEPT ![c] = IdleClient]
  /\ UNCHANGED <<key, progress, repeats, results, store, worker, replies,
                 nextRun, crashes, requests>>

----------------------------------------------------------------------------
(* aggregate_run, shared by the worker and the endpoint.  It loads the     *)
(* artifacts and opens one transaction that reads the run, inserts the     *)
(* rows and marks the run; write_run_results persists outside of it, after *)
(* the rows and before the commit.                                         *)

\* Of the metrics a pass has rows for (those not in error), the ones with
\* per-example scores enter result_summary, from which the history is written.
Listed(r, rows) == {m \in rows : <<r, m>> \notin SingleValued}

\* uq_run_metric_slice does not constrain rows whose slice is NULL, so a second
\* pass inserts a second overall row, unless a slice row collides.
RowsCollide(r, rows) ==
  r \in SlicedRuns /\ \E i \in DOMAIN results[r] : results[r][i] \cap Listed(r, rows) # {}

\* write_run_results appends to the table, or, without rows or when Iceberg is
\* off or failing, writes the JSON object anew.
PersistHistory(r, rows) ==
  \/ /\ Listed(r, rows) # {}
     /\ history' = [history EXCEPT ![r] = @ \cup Listed(r, rows)] /\ blob' = blob
  \/ blob' = [blob EXCEPT ![r] = Listed(r, rows)] /\ history' = history

\* A row for each metric, with a confidence interval or without.
CommitRows(r, seen, rows) ==
  /\ ~RowsCollide(r, rows)
  /\ results' = [results EXCEPT ![r] = Append(@, rows)]
  /\ status' = IF seen = "AGGREGATING" THEN status
               ELSE [status EXCEPT ![r] = "AGGREGATING"]

\* The load and the first read of the transaction are one step: only a second
\* execution of the run would change what is loaded.
Pass(r) ==
  [op |-> "publish", run |-> r, key |-> NoKey, seen |-> status[r], rows |-> measured[r]]

AggregateBeginUnloaded(c, r) ==   \* mutant: missing artifacts count as empty
  /\ client[c].op = "idle"
  /\ AggregatorServed /\ requests < MaxRequests
  /\ Exists(r)
  /\ client' = [client EXCEPT ![c] = Pass(r)]
  /\ requests' = requests + 1
  /\ UNCHANGED <<db, store, worker, replies, nextRun, crashes>>

\* POST /v1/aggregate/{run_id} on any run whose artifacts can be loaded.
AggregateBegin(c, r) ==
  /\ client[c].op = "idle"
  /\ AggregatorServed /\ requests < MaxRequests
  /\ Exists(r) /\ {"predictions", "metric_results"} \subseteq artifacts[r]
  /\ client' = [client EXCEPT ![c] = Pass(r)]
  /\ requests' = requests + 1
  /\ UNCHANGED <<db, store, worker, replies, nextRun, crashes>>

AggregatePublish(c) ==
  /\ client[c].op = "publish"
  /\ PersistHistory(client[c].run, client[c].rows)
  /\ client' = [client EXCEPT ![c].op = "commit"]
  /\ UNCHANGED <<db, artifacts, measured, worker, replies, nextRun, crashes, requests>>

AggregateCommit(c) ==
  /\ client[c].op = "commit"
  /\ CommitRows(client[c].run, client[c].seen, client[c].rows)
  /\ client' = [client EXCEPT ![c] = IdleClient]
  /\ UNCHANGED <<key, progress, repeats, outbox, audit, store, worker, replies,
                 nextRun, crashes, requests>>

\* Any request may end without committing: a constraint or a store raised, or
\* the process serving it died.
ClientAbort(c) ==
  /\ client[c].op # "idle"
  /\ client' = [client EXCEPT ![c] = IdleClient]
  /\ UNCHANGED <<db, store, worker, replies, nextRun, crashes, requests>>

----------------------------------------------------------------------------
(* The worker: runner.run polls, process_run_locally executes.             *)

Goto(w, step) == worker' = [worker EXCEPT ![w].pc = step]
WorkerOnly == <<client, replies, nextRun, crashes, requests>>

PollableCancelled(s) == s \in {"QUEUED", "CANCELLED"}   \* mutant: CANCELLED not final
PollableRunning(s) == s \in {"QUEUED", "RUNNING"}   \* mutant: stuck runs taken again
Pollable(s) == s = "QUEUED"

\* The oldest QUEUED run; nothing in the database records that it was taken.
Poll(w) ==
  /\ worker[w].pc = "idle"
  /\ \E r \in RunIds :
       /\ Pollable(status[r])
       /\ \A q \in RunIds : Pollable(status[q]) => r <= q
       /\ worker' = [worker EXCEPT ![w] = Taken(r)]
  /\ UNCHANGED <<db, store, WorkerOnly>>

\* load_dataset_for_run records the example count and leaves the status alone.
Load(w) ==
  /\ worker[w].pc = "load"
  /\ progress' = [progress EXCEPT ![worker[w].run] = "loaded"]
  /\ Goto(w, "start")
  /\ UNCHANGED <<status, key, repeats, results, outbox, audit, store, WorkerOnly>>

\* _set_run_status in a transaction of its own: the row is read, and later the
\* event is committed, with the status unless it is the one read.  A query in
\* between flushes the update, which then holds the row until the commit.
Reads(w, step) ==
  worker' = [worker EXCEPT ![w].pc = step, ![w].seen = status[worker[w].run]]

SetStatus(r, seen, s, event) ==
  /\ status' = IF seen = s THEN status ELSE [status EXCEPT ![r] = s]
  /\ outbox' = [outbox EXCEPT ![r] = Append(@, event)]
  /\ UNCHANGED <<key, progress, repeats, results, audit>>

\* run_inference_for_run, in order: its first transaction, the artifact, its
\* second transaction.
StartBegin(w) ==
  /\ worker[w].pc = "start"
  /\ Reads(w, "starting")
  /\ UNCHANGED <<db, store, WorkerOnly>>

StartCommit(w) ==
  /\ worker[w].pc = "starting"
  /\ SetStatus(worker[w].run, worker[w].seen, "RUNNING", "run.started")
  /\ Goto(w, "infer")
  /\ UNCHANGED <<store, WorkerOnly>>

Infer(w) ==
  /\ worker[w].pc = "infer"
  /\ artifacts' = [artifacts EXCEPT ![worker[w].run] = @ \cup {"predictions"}]
  /\ Goto(w, "record")
  /\ UNCHANGED <<db, measured, history, blob, WorkerOnly>>

Record(w) ==
  /\ worker[w].pc = "record"
  /\ progress' = [progress EXCEPT ![worker[w].run] = "done"]
  /\ Goto(w, "evaluate")
  /\ UNCHANGED <<status, key, repeats, results, outbox, audit, store, WorkerOnly>>

\* The judge, when configured (module JudgePlane), then compute_metrics_for_run,
\* which records a metric that raises as an error and goes on.
Evaluate(w) ==
  /\ worker[w].pc = "evaluate"
  /\ \E ok \in SUBSET Metrics : measured' = [measured EXCEPT ![worker[w].run] = ok]
  /\ artifacts' = [artifacts EXCEPT ![worker[w].run] = @ \cup {"metric_results"}]
  /\ Goto(w, "aggregate")
  /\ UNCHANGED <<db, history, blob, WorkerOnly>>

Aggregate(w) ==
  /\ worker[w].pc = "aggregate"
  /\ worker' = [worker EXCEPT ![w].pc = "publish", ![w].seen = status[worker[w].run],
                              ![w].rows = measured[worker[w].run]]
  /\ UNCHANGED <<db, store, WorkerOnly>>

CommitUnpublished(w) ==   \* mutant: the rows' transaction ends before the history is written
  /\ worker[w].pc = "publish"
  /\ CommitRows(worker[w].run, worker[w].seen, worker[w].rows)
  /\ Goto(w, "complete")
  /\ UNCHANGED <<key, progress, repeats, outbox, audit, store, WorkerOnly>>

Publish(w) ==
  /\ worker[w].pc = "publish"
  /\ PersistHistory(worker[w].run, worker[w].rows)
  /\ Goto(w, "commit")
  /\ UNCHANGED <<db, artifacts, measured, WorkerOnly>>

CommitAsLast(w) ==   \* mutant: the aggregator is taken to complete the run
  /\ worker[w].pc = "commit"
  /\ CommitRows(worker[w].run, worker[w].seen, worker[w].rows)
  /\ worker' = [worker EXCEPT ![w] = IdleWorker]
  /\ UNCHANGED <<key, progress, repeats, outbox, audit, store, WorkerOnly>>

Commit(w) ==
  /\ worker[w].pc = "commit"
  /\ CommitRows(worker[w].run, worker[w].seen, worker[w].rows)
  /\ Goto(w, "complete")
  /\ UNCHANGED <<key, progress, repeats, outbox, audit, store, WorkerOnly>>

CompleteBegin(w) ==
  /\ worker[w].pc = "complete"
  /\ Reads(w, "completing")
  /\ UNCHANGED <<db, store, WorkerOnly>>

CompleteCommit(w) ==
  /\ worker[w].pc = "completing"
  /\ SetStatus(worker[w].run, worker[w].seen, "COMPLETED", "run.completed")
  /\ worker' = [worker EXCEPT ![w] = IdleWorker]
  /\ UNCHANGED <<store, WorkerOnly>>

StepFailsSwallowed(w) ==   \* mutant: a failed aggregation is only logged
  /\ worker[w].pc \in Step
  /\ Goto(w, IF worker[w].pc \in {"aggregate", "publish", "commit"} THEN "complete" ELSE "fail")
  /\ UNCHANGED <<db, store, WorkerOnly>>

\* An exception in any step: its transaction is rolled back and the handler of
\* process_run_locally takes over.
StepFails(w) ==
  /\ worker[w].pc \in Step
  /\ Goto(w, "fail")
  /\ UNCHANGED <<db, store, WorkerOnly>>

FailBegin(w) ==
  /\ worker[w].pc = "fail"
  /\ Reads(w, "failing")
  /\ UNCHANGED <<db, store, WorkerOnly>>

FailLogged(w) ==   \* mutant: the handler logs and leaves the row as it was
  /\ worker[w].pc = "failing"
  /\ worker' = [worker EXCEPT ![w] = IdleWorker]
  /\ UNCHANGED <<db, store, WorkerOnly>>

FailCommit(w) ==
  /\ worker[w].pc = "failing"
  /\ SetStatus(worker[w].run, worker[w].seen, "FAILED", "run.failed")
  /\ worker' = [worker EXCEPT ![w] = IdleWorker]
  /\ UNCHANGED <<store, WorkerOnly>>

\* The process dies (also when the handler's own transaction raises), then comes back
\* with no memory of the run it had taken.
Crash(w) ==
  /\ worker[w].pc # "down"
  /\ crashes < MaxCrashes
  /\ crashes' = crashes + 1
  /\ worker' = [worker EXCEPT ![w] = [IdleWorker EXCEPT !.pc = "down"]]
  /\ UNCHANGED <<db, store, client, replies, nextRun, requests>>

Restart(w) ==
  /\ worker[w].pc = "down"
  /\ Goto(w, "idle")
  /\ UNCHANGED <<db, store, WorkerOnly>>

----------------------------------------------------------------------------
CreateStep(c) == \/ \E k \in Keys : CreateReplay(c, k)
                 \/ \E k \in Keys \cup {NoKey} : CreateBegin(c, k)
                 \/ CreateCommit(c) \/ CreateConflict(c)
CancelStep(c) == (\E r \in RunIds : CancelBegin(c, r)) \/ CancelCommit(c)
AggregateStep(c) == \/ \E r \in RunIds : AggregateBegin(c, r)
                    \/ AggregatePublish(c) \/ AggregateCommit(c)
RepeatStep(c) == RepeatBegin(c) \/ RepeatCommit(c)
ClientStep(c) == \/ CreateStep(c) \/ RepeatStep(c) \/ CancelStep(c) \/ AggregateStep(c)
                 \/ ClientAbort(c)

Work(w) == \/ Poll(w) \/ Load(w) \/ StartBegin(w) \/ StartCommit(w) \/ Infer(w) \/ Record(w)
           \/ Evaluate(w) \/ Aggregate(w) \/ Publish(w) \/ Commit(w)
           \/ CompleteBegin(w) \/ CompleteCommit(w) \/ FailBegin(w) \/ FailCommit(w)
WorkerStep(w) == Work(w) \/ StepFails(w) \/ Crash(w) \/ Restart(w)

Next == (\E c \in Clients : ClientStep(c)) \/ (\E w \in Workers : WorkerStep(w))
Spec == Init /\ [][Next]_vars

\* The poll loop never stops by itself and a dead worker is restarted; users
\* and requests promise nothing.
FairSpec == Spec /\ \A w \in Workers : WF_vars(Work(w)) /\ WF_vars(Restart(w))
=============================================================================
