# Models of the evaluation platform

TLA+ specifications of the platform under `src/melp`: what its services,
workers and scripts do to the state they share, the properties that state must
keep, TLC runs that check them on small instances, and TLAPS proofs of the most
important ones for every size. Paths below are relative to `src/`.

Parse, check and prove inside this directory:

    tlasany RunLifecycle.tla
    tlc -workers 2 -config RunSafety.cfg MCRunLifecycle
    tlapm RunProofs.tla

and likewise `tlapm` for each of the modules whose name ends in `Proofs`.

`PROJECT.json` lists the components, the runs with their properties, the
mutants that show each property can be violated by a plausible bug, the source
lines of every definition, the findings, the hazards and the theorems.

## 1. The system

| Part | State it keeps | Operations | Talks to |
|---|---|---|---|
| Run Service (`services/run/routes.py`) | rows of `run`; audit and delivery rows it adds | create (Idempotency-Key, quota, dispatch), cancel, decide, register webhook; reads | Postgres; dispatch |
| Dispatch (`workflows/dispatch.py`, `eval_workflow.py`) | nothing of its own | start a Temporal workflow, or publish to Redis and swallow failures | Redis, Temporal |
| Worker (`workers/runner.py`) | the run it is on | poll `QUEUED`, load, infer, judge, measure, aggregate, complete or fail | Postgres, object store |
| Metric pool, sandbox (`workers/metric_pool.py`, `metrics/`) | `metric_results.json` | evaluate each metric in a child process, record its error | object store |
| Aggregator (`workers/aggregator.py`, `services/aggregator`) | rows of `run_result` | aggregate a run, from the worker or from its endpoint | Postgres, object store, history |
| Analytics history (`workers/iceberg_writer.py`) | rows of the history, or one JSON object per run | `write_run_results` | object store or Iceberg |
| Judge orchestrator (`judge/`, `services/judge_orch`) | response cache, minute counters, dead-letter list in Redis; rows of `judgment` | `judge_run`, `judge_one`, calibration | LLM gateway, Redis, Postgres, object store |
| Dead-letter replay (`scripts/dlq_replay.py`) | -- | read the list, judge it again, delete it | the orchestrator's code |
| Webhooks (`common/webhooks.py`) | rows of `webhook_delivery` | enqueue in the caller's transaction; deliver in batches | subscribers |
| Catalog (`services/dataset`, `model`, `metric`, `judge_config`, `project`) | names, versions, memberships, audit rows | check, insert, flush, publish; the commit follows in a thread | Postgres, object sizes, AuthZ |
| Gateway, AuthN, AuthZ (`services/gateway`, `common/auth.py`, `services/authz`) | one counter per second, cached roles | count and refuse; look a role up | Redis, Postgres |
| Batch inference, sandbox (`workers/ray_runner.py`, `metrics/sandbox.py`) | shard tasks; one child process per metric | partition and gather; spawn, collect, time out, kill | the worker |
| Release gate (`services/run/gating.py`) | -- | rules over results and baseline | Postgres (reads) |
| Calibration, reproducibility check, rollback watcher | calibration rows, child runs, events | measure agreement; resubmit and compare; watch two rates | judge, dispatch, Prometheus |
| SDK, CLI, UI, statistics, plug-ins, key management, plumbing | -- | clients and pure functions | |

How they interact: processes never call one another's functions across the
three planes, they meet in Postgres, Redis and the object store. Every database
transaction is one `session_scope` (`common/db.py:35-45`), at READ COMMITTED,
without row locks taken on purpose; a handler's transaction commits after the
handler has returned (`get_db`). Redis commands are atomic one at a time. The
object store and the history are outside every transaction.

What is hard here: decisions taken on rows that change before the commit
(idempotency key, quota, cancellation, status); a worker that dies between the
transactions of one run; an aggregation repeated or run beside the worker;
dead letters read, judged for minutes and then deleted; a budget shared by
processes; a batch of webhooks whose outcomes commit long after the requests;
handlers that wait for the database inside the one event loop that would commit
what they wait for; shards and child processes that end, hang or are killed in
any order; alarms raised from state that another process is still changing.

What makes each part correct:

* Run Service: one key, one run; an accepted cancellation is told and audited.
* Worker: a run is executed once; COMPLETED means results and artifacts exist;
  every queued run is taken and ends.
* Aggregator and history: what Postgres shows, the history has (of metrics with
  per-example scores, as it turns out); the same rows are not inserted twice.
* Judge plane: the budget of a minute holds; every example has a judgment or a
  dead letter; a judgment's raw response exists; an outage ends.
* Webhooks: delivered means received, failed means tried often enough, and each
  row ends.
* Catalog: one row per name, version, e-mail, membership and key; the audit log
  tells what was committed; runs name published data; a cached role is the role;
  every request is answered.
* Execution: one prediction per example in the dataset's order, one entry for
  each metric the run names, in whatever order the query returns them and
  whatever shards and sandboxes do; the metrics compute what their names say.
* Watchers: an alarm is raised for a stored reason and reaches all its
  subscribers or none; a lasting breach is announced.
* Gate: the decision is what the rules say of the results that exist.

## 2. The modules

| Module | What it is |
|---|---|
| `RunLifecycle` | create, cancel, the repetition of runs, the worker, the aggregator, and the tables between them |
| `RunContract` | the abstract promise: a key is bound once, a run goes accepted, started, published |
| `RunProperties` | properties of `RunLifecycle`, and its refinement of `RunContract` |
| `RunProofs` | theorems about `RunLifecycle`: types, keys, accounting, visibility, one execution, the history, the quota, cancellation, and that it implements `RunContract` |
| `JudgePlane`, `JudgeProperties` | judging, replay and the service's requests, over cache, budget, dead letters, judgments |
| `JudgeProofs` | theorems about `JudgePlane` |
| `WebhookDelivery`, `WebhookProperties` | the delivery loops over `webhook_delivery` |
| `WebhookProofs` | theorems about `WebhookDelivery` |
| `Gate`, `GateProperties` | decisions over the results of a run and its baseline, while they are aggregated |
| `GateProofs` | theorems about `Gate` |
| `Catalog`, `CatalogProperties` | the handlers of projects, datasets, models, metrics, prompts, judge configurations, webhooks and run references, in the event loop they share, behind the role cache |
| `CatalogProofs` | theorems about `Catalog` |
| `MetricKernels` | the arithmetic of metrics and rater agreement on exact fractions (constant operators) |
| `Execution`, `ExecutionProperties` | what one run does between its dataset and its metric results: shards, sandboxes, time-outs; what the kernels must compute |
| `ExecutionContract` | the abstract promise of that execution |
| `KernelProofs` | lemmas: what the kernels of `MetricKernels` compute, for lists of any length |
| `ExecutionProofs` | that `Execution` implements `ExecutionContract`, and that what it records is what the kernels promise |
| `DriftWatch`, `DriftProperties` | calibration, the nightly repetition of runs, the rollback watcher, and the alarms they raise |
| `DriftProofs` | a theorem about `DriftWatch` |
| `MC...` | the values TLC's constants are given |

In a component's module, definitions whose comment begins with `mutant:` are
not used by it: they are the plausible bugs that PROJECT.json pairs with the
properties.

How the parts are put together: `RunLifecycle` takes inference and the metrics
as one step each, `Execution` opens those two; `RunLifecycle` takes the
references of a run as valid, `Catalog` validates them; `RunLifecycle` and
`DriftWatch` both have the script that repeats runs, the one as a writer of `run`
beside the others, the other with what it compares and reports; they
fill the outbox that `WebhookDelivery` empties; `Gate` reads what
`RunLifecycle`'s aggregations insert; `DriftWatch` and `Execution` extend
`MetricKernels`.

### RunLifecycle

State: columns of `run` (`status`, `key` = request_id, `progress`) and the rows
that replay inserted (`repeats`); `results`, for each run the sequence of
aggregations committed, each the set of metrics that got its row; `outbox`, the
events enqueued for the run; `audit`; `artifacts`, `measured` (the metrics
`metric_results.json` holds without an error); what the history table (`history`)
and the JSON object that stands in for it (`blob`) hold of each run; and the local
state of each request (`client`) and each worker, with the status an open
transaction has read (`seen`) and the rows a pass has loaded. `replies` records
what keyed creates were answered.

A transaction is a step that reads and decides and a step that writes and
commits, because that is where others come in between:

| Actions | Code |
|---|---|
| `CreateReplay`, `CreateBegin`, `CreateCommit`, `CreateConflict` | `create_run`, `uq_run_idempotency` |
| `CancelBegin`, `CancelCommit` | `cancel_run` |
| `RepeatBegin`, `RepeatCommit` | `replay` of `scripts/reproducibility_check.py` |
| `AggregateBegin`, `AggregatePublish`, `AggregateCommit` | `POST /v1/aggregate/{run_id}`, `aggregate_run` |
| `ClientAbort` | any exception before a commit |
| `Poll` | `runner.run` |
| `Load`, `StartBegin`, `StartCommit`, `Infer`, `Record` | `load_dataset_for_run`, `run_inference_for_run` |
| `Evaluate` | `compute_metrics_for_run`, after the judge |
| `Aggregate`, `Publish`, `Commit` | `aggregate_run` in the worker: its read, `write_run_results`, its commit |
| `CompleteBegin`, `CompleteCommit`, `StepFails`, `FailBegin`, `FailCommit` | the end of `process_run_locally` and its handler |
| `Crash`, `Restart` | the process dies and is started again by the deployment |

Decisions worth knowing:

* `_set_run_status` reads the row, and its transaction commits later, with the
  event. SQLAlchemy writes a column only when its value is not the one read, so
  each of these transactions, and that of `aggregate_run`, remembers the status
  it has read (`seen`), and its commit leaves an equal status as it finds it: a
  second worker that read RUNNING commits `run.started` over a CANCELLED row. A
  query inside the transaction flushes the update and locks the row; the model
  lets others in up to the commit, which has more behaviours.
* `aggregate_run` inserts a row for every metric without an error, but only the
  metrics with per-example scores (`Listed`) enter `result_summary`, from which the
  history is written. `SingleValued` says of which runs and metrics there are none
  (perplexity, AUC, ECE, the averaged F1; any metric on an empty dataset).
  `PersistHistory` appends to the table, or writes the object of the run anew.
* `replay` inserts a run with the default status, without quota, key, audit row
  or event. With Temporal configured it runs outside an event loop and may submit
  the workflow; what a cluster then does is not modelled (section 6).
* `uq_run_metric_slice` does not constrain rows whose slice is NULL. `SlicedRuns`
  says which runs have slice rows that can collide (`RowsCollide`).
* With Temporal configured `submit_run_workflow` always raises in the handler,
  because `eval_workflow.start` calls `run_until_complete` on the event loop that
  is running it; without it
  a failed publication is swallowed and the poll finds the row.
* Which metrics succeed is any set: the sandbox's results, errors and time-outs.

### JudgePlane

State: `cached`, the minute's counter `spent` and what it let through
(`admitted`), stored raw responses, judgment rows, the dead-letter list `dlq`,
and for each judging process its list of examples, the failures it remembers
and where it is. `RunBegins` is the worker's `judge_run`, `ReplayBegins` an
operator's replay, `PostBegins` a request to the service. Then `Lookup`,
`Gate`, `Answered` or `CallFails`, `Put` are `judge_one`; `Store`, `Insert`,
`Finish` the rest of `judge_run`; `Clear` the replay's DEL; `ReadScores` the
metrics' read of the judgments. `JudgeOneRaises` is any exception inside
`judge_one`, `Dies` any outside of its handler, and the death of the process.

Examples have ids of their own (the loader's data has them), a response is its
example, and the run has a judge configuration.

### WebhookDelivery

State: `status`, `attempts` and `due` (`next_attempt_at` has passed) of each
row; for each loop the rows it has read and has still to send, with the
attempts it read, and the columns it will write. `Select` is the query,
`SendAccepted`, `SendRefused`, `SendError` one request each, `Commit` the end of
`session_scope`: only assigned columns are written, over whatever the rows hold
by then. `Die` is a death or an exception that leaves the loop, and writes
nothing. `received` and `unanswered` are what the subscribers saw; `unanswered`
stops counting at `MaxAttempts`.

The repository has the loop (`run_delivery_loop`) but not the process that its
docstring names (`melp.workers.webhook_dispatcher`): until something calls it,
rows stay PENDING. The model is of the loop where it runs.

### Gate

State: what a pass of the aggregator inserts for each run, metric and slice
(`point`) and the p-values of the overall rows (`pvalue`), both fixed by the
artifacts and arbitrary in `Init`; how many passes have committed (`passes`);
the rule each request is at and the outcomes it has (`decider`); the answers in
their order (`decisions`).

`Begin` is a request with its policy, `ReadResult` and `ReadBaseline` the two
queries of `_eval_rule` with everything it decides after each, `Answer` the
verdict of `evaluate_policy`, and `Aggregate` a pass that commits in between. A
query that finds two rows raises, and the request ends without a decision. The
point estimates are two naturals, which is what comparisons and margins can
tell apart. A run's metric versions belong to different metrics:
`_result_for` searches by the metric's name and raises otherwise.
`render_pr_comment` is formatting and is left out. `GateProperties` has the
reference (`Met`): what a rule means once all results are there.

### Catalog

State: the committed `rows` of fifteen tables, each a record with its unique key,
the rows its foreign keys name and the few columns that are read again;
`audit`; the cached roles; for each request its phase and what its session
holds; `loop`, the request that has the event loop; and the deaths of the server.

A request goes through `Authorize` (authenticate, `require_role` with its cache,
a failing AuthZ service), the handler's action (one per endpoint that writes,
each with its own checks, refusals, rows and audit entry), `Flush` where the
handler flushes, `Leave` when the loop has started the thread of the
dependency's exit, and `Commit`, which the constraints may turn into `RollBack`.

Two rows cannot be inserted side by side when they share a unique key, or, for
`user`, a primary key (`SameKey`): the id of a user is the caller's subject, and
`_ensure_user` inserts the row at the caller's first project, so two such
requests of one new caller compete for it as well.

What makes this more than check-then-insert: the async handlers share one event
loop and call the database synchronously, so a flush that waits for a key in
another open transaction holds up the loop (`Waits`, `Scheduled`); the handlers
that are plain functions, and every commit, run in threads and wait there.
`Crash` is the death of the server: open sessions are rolled back.

Simplified: the quota of `publish_version` is a nondeterministic answer, like the
import of a metric's package; the read and the fill of the role cache are one
step, as nothing changes or removes a membership; an administrator only names
projects that exist; the rows of one flush are inserted together. FastAPI may
send the answer before the dependency's exit commits; the model's answer is the
one after the commit, since nothing here depends on what the client does next.

### MetricKernels, Execution

`MetricKernels` translates each kernel with the structure of its code: the one
row of the edit distance with its diagonal, the ranks of ties, the half-open
bins, confusions per class. Floats become exact fractions, so that equality can
be tested; rounding is not modelled. A score and a label are integers; texts are
sequences of tokens.

`Execution` has one run (`job`): `Dispatch` cuts the examples into shards, or
takes all of them at once without Ray; `ShardEnds` and `Gather` in any order;
`Query` reads the metric versions with an IN and no ORDER BY, so `versions` is any
sequence that has each metric of the run once; for each of them `Spawn`,
`ChildEnds` (with its value, or in any of the ways a process ends without one),
then `Collect`, or `TimeOut` and `Kill`; `Store` at the end. A child need never
end. `ExecutionContract` is what the rest of the platform relies on, one entry for
each metric that the run names in no particular order, and `ImplementsExecution`
is the refinement. The echo back end stands for all models; the runs have no
judge, so `semantic_equivalence` raises.

### DriftWatch

State: calibration rows, the outbox as a bag of deliveries, each calibration's
progress and the judge's cached answers, the runs with their parents and values,
the nightly job, what Prometheus answers, and the watcher's evaluation at hand.
`CalibrateBegin`, `CalibrateExample`, `CalibrateEnd` are `run_calibration`; `Pick`,
`Replay`, `Diff`, `Report` the reproducibility script, with `Execute` for the
worker; `QueryErrors`, `QueryLatency`, `Decide` are `evaluate_once` in its loop.
Every transaction may fail (`RollBack`), at most `MaxFailures` times; in the
watcher a failure ends the loop's thread, as nothing catches it.

The nightly job compares a run with its repetition in the step after it was
submitted. Unless a worker is quicker than the script, the repetition has no
results and the alarm says so; the results that it gets later are never compared
("let the next pass diff them", reproducibility_check.py:117, has no code), while
the repetition may itself be picked as an original the next night. The model has
exactly this, and `AlarmsAreWhole` asks only that an alarm names a run and its
own repetition.

## 3. The runs

| Run | Instance | Shows |
|---|---|---|
| `run_safety` | 2 requests at a time, 1 worker, 2 runs (one with slices), 1 key, quota 2, 1 metric (single-valued for one run), 1 crash, 2 cancel or aggregate requests; clients are symmetric | type, visibility, idempotency, accounting, one execution, history, cancellation, refinement of `RunContract` |
| `run_liveness` | 2 requests at a time, 1 worker, 3 runs, quota 1, no keys, 1 crash, 1 cancel request, no aggregation endpoint | queued runs are taken, and settle; how far the quota is exceeded meanwhile |
| `run_cancel_final` | as small as it gets | violation: CANCELLED is overwritten |
| `run_aggregate_twice` | | violation: overall rows inserted twice |
| `judge_replay` | 2 examples, 2 processes, budget 1, 2 attempts, 2 minutes, 2 replays, 1 trouble (request, death or expiration) | budget, nothing forgotten, raw responses, judging ends |
| `webhook_batches` | 2 rows, 2 loops, batches of 2, 3 attempts, 1 death | outcomes are earned and final, rows end |
| `gate_decisions` | 1 metric, 1 slice, 2 values, 6 policies, 2 requests, 2 passes over each run; the requests are symmetric | decisions match the rules, and are not taken back |
| `catalog_requests` | 3 requests (any write by Alice or an administrator; Alice or Bob on datasets and prompts; a run), of which two may be the first project of Carol, a new user; one seeded project, 1 name, version and key, 1 crash | no twins, a true audit log, published references, a current cache, and an answer to each request unless the loop jams |
| `catalog_keyed` | 2 submissions with one key | violation: the event loop jams |
| `metric_execution` | 483 runs: all pairs of texts of up to 3 tokens, no example and all lists of 2 or 3 scored labels, a run of five examples in three shards, one that names a metric twice; every order of the metrics | refinement of `ExecutionContract`, an end, and the kernels against reference definitions |
| `drift_alarms` | 1 calibration of 2 golden examples, 2 nights of 1 repetition, 1 change in Prometheus, 1 failing transaction, 3 subscriptions | alarms are whole, a breach is announced |
| `drift_agreement` | a golden set whose ratings are all high | violation: perfect agreement raises the alarm |

The bounds and why they are enough. Two requests, and two runs, are what a race
for a key or for a status needs; with one crash the worker can die between any two
of its transactions and come back, and with one further request a cancellation or
an aggregation can land at each of them. One worker is what `run_all.py` and the
deployment start; the properties that depend on it say so. In the judge plane two
processes and two examples let one replay read what another appends or deletes, a
budget of one prompt makes the gate refuse, two minutes reset it, and two attempts
let a call fail once and for good. In `webhook_batches` two loops hold the same
two rows in batches of different order, and three attempts let a stale commit take
the count of a row back while it is still PENDING. In `run_liveness` two creates
pass the count of a quota of one together while the worker can revive a run
cancelled under its hands, and a third run is one more that must not be admitted,
or one for replay; with one worker the runs that nobody cancelled may then be two,
and a count that overlooked the queued runs would admit the third. In `run_safety`
a pass of the worker and one or two of the endpoint append to the history or
overwrite the object in any order. No run has a second worker: what two of them do
to one run (`CompletedIsVisible`, `StatusIsAccountedFor`,
`CancelledIsNotPickedUp`) is in the theorems, which hold for any number of them.
In the gate, policies of two rules let a pass commit between and within rules, a
second pass duplicates overall rows, and the six policies use every operator, both
severities, both kinds of slice, a margin, a missing threshold and
`require_significant`; Init ranges over all tables of results. In the catalog the
first request meets a second that makes or publishes versions or prompts and a
third that submits a run: the pairs that share a key, a draft or a reference all
occur, one name and one version make every repetition a collision, and the crash
can fall between any two steps. In the execution three tokens are enough for a
substitution, an insertion and a deletion to compete, three scores for ties within
and between classes and for the values 0, 1 and a bin's edge, and shards of two
leave a shorter one at the end. In `drift_alarms` two golden examples give kappas
above and below the floor and an undefined one, two nights let a repetition be
picked as an original, and one failure falls on each of the transactions in turn.
`MaxRuns`, `MaxCrashes`, `MaxRequests`, `MaxMinute`, `MaxReplays`, `MaxTroubles`,
`MaxDeaths`, `MaxDecisions`, `MaxPasses`, `MaxAlerts`, `MaxChanges`,
`MaxFailures`, `MaxText`, `Jobs` and `Calls` are bounds of the models and not of
the code (`MaxText` is of the property alone: the length up to which
`AlignmentsAreOptimal` enumerates alignments). Deadlock is not checked: once the
bounded requests are used up everything may rightly be idle.

The violated properties state what a document or comment says; PROJECT.json
quotes each with the code that differs (`findings`).

Some statements are true only under a condition, which is then part of them:
`AtMostOneExecution` for one worker (two would execute a run twice, as the poll
claims nothing), and so `ResultsHaveHistory` (the second execution may measure
less and overwrite the object of the first) and the part of `StatusIsAccountedFor`
that names the last event (`SingleWorker`); `StatusIsAccountedFor` except for the
creation and the QUEUED of the runs that replay inserts; `QueuedSettles` without
the aggregation endpoint and unless a worker died (a dead worker's run stays
RUNNING); `ExcessIsBounded` without the runs that replay inserts, for its second
part with one worker (a second may take a COMPLETED run back to RUNNING), without
the aggregation endpoint, which makes finished runs active again, and without
Temporal, whose PENDING_SUBMISSION runs the quota does not count;
`NothingForgotten` as long as nothing is posted to the judge service;
`AnsweredOrJammed` except in the jam that `catalog_keyed` shows;
`BreachIsAnnounced` unless the database has ended the watcher's loop;
`OutcomeIsFinal` once no loop has the row in a batch (a second loop can turn
DELIVERED into FAILED).

### Fairness

* `RunLifecycle`: each worker's next step, because its loop is endless, every
  step returns or raises (the requests it makes have time-outs), and every
  exception is caught; and the restart of a dead worker by the deployment.
  Nothing is assumed of clients, nor that a step fails or succeeds.
* `JudgePlane`: a process that judges goes on. Nobody has to start a replay,
  and the gateway may refuse every attempt.
* `WebhookDelivery`: each loop goes on and is restarted, time passes.
  Subscribers may never answer.
* `Catalog`: a request that was let in goes on, because the loop resumes every
  ready coroutine and each thread runs; nobody has to call, and a flush or a
  commit that waits is not enabled and is owed nothing.
* `Execution`: the worker goes on and its clock runs; each shard ends, as the
  clients of the models have time-outs. A metric's process may hang for ever.
* `DriftWatch`: the watcher's loop goes on. Nobody has to calibrate, to repeat
  runs or to execute them.

## 4. The proofs

`RunProofs` proves, for any number of clients, workers, keys, runs, metrics,
crashes and requests:

* `TypeCorrect` -- `Spec => []TypeOK`.
* `StatusAccounted` -- `StatusIsAccountedFor`. For any number of workers: each
  writer enqueues and audits in the transaction that writes, nothing is removed,
  and a commit that leaves the status alone adds an event only (`AccountInv`; it
  rests on `KeyInv`, because the commit of a cancel needs the row it read to
  exist still). With one worker, that the event of the status is the last
  (`LastInv`): a worker never writes the status it has read (`SeenIsOther`),
  because nobody else sets RUNNING, COMPLETED or FAILED and the run it holds has
  not been started or ended (`ExecutedInv`), and a run that replay inserted has
  no event while it is queued.
* `OneRunPerKey` -- all successful replies to a key name one run. The
  strengthening is `KeyInv`: two rows with one key are one row (`KeysUnique`),
  a reply names a row with its key (`RepliesHold`), ids not yet given out have
  no row (`FreshIds`), two creates never hold one id and the id they hold has
  no row (`CreatorsApart`), and what cancels, aggregations and workers hold is a
  row (`HoldersExist`).
* `CompletedVisible` -- COMPLETED runs have results and artifacts. The
  strengthening (`VisibleInv`) adds what each worker relies on (`Relies`): past
  `infer` the predictions exist, past
  `evaluate` the metric results, from `complete` on the results are committed; rows
  and artifacts are never taken away.

The second half of `RunProofs` is about properties of more than one step and
more than one actor:

* `ExecutedOnce` -- `AtMostOneExecution` when there is one worker (the theorem's
  hypothesis; two workers would break it). `ExecutedInv` adds that a run which
  is still queued has neither start nor end among its events
  (`FreshIsUntouched`) and that the run a worker holds has no end yet, and no
  start before the worker has started it (`HeldIsOpen`).
* `HistoryIsAhead` -- `ResultsHaveHistory`. `HistoryInv` follows the rows from the
  evaluation to the store: where metrics are not evaluated yet nothing is loaded
  or inserted, and only such runs is the worker about to evaluate
  (`UnmeasuredInv`, from `ExecutedInv` and `StageInv`: a run with artifacts was
  started, and is not started again); so what passes have loaded and inserted is
  what was evaluated (`LoadedInv`), a pass that overwrites the object does so with
  the same metrics, and whatever is about to be committed or is committed is
  covered by the history or the object (`CoveredInv`).
* `ExcessBounded` -- `ExcessIsBounded`, for finitely many clients, at least one,
  and workers. `QuotaInv` bounds the set that can become active (`Places`: the
  counted runs, those that creates were admitted for, those that workers hold,
  because a worker can make a cancelled run active again), without the runs that
  replay inserted. An admission adds one to fewer than `Quota` counted runs,
  the other requests and the workers; no other step adds a run to it.
  With one worker `RaceInv` bounds the smaller set `Raced`, the counted runs that
  nobody cancelled and those that creates were admitted for: the run that the
  worker holds has no end among its events (`ExecutedInv`), and a terminal status
  has its event (`AccountInv`), so what the worker makes active again was
  cancelled (`HeldIsCounted`).
* `CancelledLeftAlone` -- the action property `CancelledIsNotPickedUp`, from types
  and keys.
* `ContractImplemented` -- each step of `RunLifecycle` is a step of `RunContract` or
  leaves its variables alone. `StageInv` says what the mapping needs of the
  steps before: a run without a row has no start and no results, and whoever may
  publish results of a run comes after its start.

The only assumption is `ConstantsAssumption` of `RunLifecycle`: bounds are
naturals, switches Boolean, and `NoKey` is no key. Each proof has a lemma for
the initial state, one for the step (a step per action), and PTL.

`JudgeProofs` proves, for any number of processes, examples, replays and
minutes, and any costs and budget (`JudgeAssumption`: costs are positive, at
least one attempt is made, the list of predictions is one of examples):

* `TypeCorrect` -- `Spec => []TypeOK`.
* `BudgetKept` -- `BudgetHolds`, with the strengthening that what was admitted
  was counted first (`admitted <= spent`).
* `RawKept` -- `RawIsKept`. A process that is about to insert a judgment of its
  own has stored the response (`HasStored`), and responses are never removed.
* `NoneForgotten` -- `NothingForgotten`. The strengthening (`ForgetInv`) is what
  makes the replay's blind DEL harmless: a process judging the run, or a replay
  of it, carries in what it has still to judge and what has failed every
  example that has no judgment (`IsOnTheRun`). A replay only starts when
  `judge_run` has returned, because the list is empty before. So a replay that
  comes to the DEL has seen everything judged. A posted request carries less and
  breaks this.

`WebhookProofs`, for any loops, batch size and number of attempts, and finitely
many rows:

* `DeliveryTyped`, `DeliveredHonest`, `FailedHonest`, `CountsHonest` -- `TypeOK`,
  `DeliveredMeansReceived`, `FailedMeansExhausted`, `AttemptsWereMade`. The types
  are not inductive alone: that no loop counts past the last attempt holds
  because an open row has an attempt left, and this because what a batch noted
  for a row was earned (`Earned`) even if others have written since. A batch
  holds a row once (`HeldOnce`, `Apart`).
* `OutcomesFinal` -- the action property `OutcomeIsFinal`.

`GateProofs`, for any runs, metrics, slices and values, policies that are
sequences of rules, and finitely many requests:

* `GateTyped` -- `TypeOK`. That `decisions` is bounded rests on `AskedInv`, which
  counts the requests being served with the decisions given.
* `PassEarned`, `FailureFinal` -- `PassedIsEarned`, `FailureIsFinal`. `DeciderInv` and
  `DecisionInv` say that every outcome is `Honest`, even of a rule whose two
  queries have a pass between them: one that passed has a rule that is met, one
  that failed on results it found has a rule that is not.
* `PassedStays` -- `PassedStaysPassed`. A request in progress already agrees, rule by
  rule, with the decisions that passed its policy before it began (`Repeats`).

`CatalogProofs`, for any requests, callers, names, versions and keys and any
crashes, from a well-formed `Seed` (`SeedAssumption`: what the script seeds has its
rows' form, unique ids and keys, and references to itself):

* `CatalogTyped`, `TwinsNever`, `AuditIsTrue`, `RunsOnPublishedData`,
  `CachedRolesCurrent` -- `TypeOK`, `NoTwins`, `AuditTellsTheTruth`,
  `RunsNamePublishedData`, `CacheIsCurrent`. One invariant (`CatalogInv`) carries all:
  what a session holds is fit to be committed (`Writable`: rows of the form a
  handler builds, with ids of this request, references to committed rows or to
  its own, runs that name published versions, and the audit entry that belongs
  to them); a row with a generated id belongs to a request that is done
  (`IdInv`); and rows, entries and cached roles are as the properties say. A lemma
  for each handler shows that it answers or holds `Writable` rows, one set of
  lemmas that a commit of such rows keeps the rest; published versions stay
  published and roles stay, which is why what was checked earlier still holds.

`ExecutionProofs` proves `ExecutionImplemented`: `Execution` implements
`ExecutionContract`, for every dataset, shard size and list of metrics
(`ExecutionAssumption`: these are sequences; size, bins and scale are positive).
`ExecutionInv` says that the shards are a cut of the dataset (`CutInto`), that the
lines are its predictions from the gathering on, that the query returned each
metric of the run once and the entries are those of its first ones in turn, and
that a child that has ended has an answer of the metric at hand. So the next
metric has no entry yet, and when there are as many entries as versions every
metric has one: a sequence without repetitions that is as long as a finite set is
large has all of it (`EachOnce`). That the joined shards are the dataset's
predictions (`JoinedInOrder`) is about a recursive function of the community
modules: a function that joins correctly is given, it satisfies the recursion, and
two solutions of the recursion are equal, as there is no least index at which they
differ (`Least`, from the well-foundedness of the naturals).

`ExecutionProofs` also proves what the recorded numbers mean:

* `MicroIsAlwaysAccuracy` -- `MicroIsAccuracy`, for any classes and examples.
  For each class what is predicted and what is labelled split into the hits
  and the errors; summed over the classes both are the number of examples.
* `AucAlwaysCountsPairs` -- `AucCountsPairs`. The averaged rank of a score counts
  the scores below it and those at most it; summed over the positives these
  are two relations, of which the positives among themselves contribute a
  fixed part (each pair counted from both ends) and the rest are the pairs.
* `ErrorAlwaysCountsAll` -- `ErrorCountsAll`. Each score lies in the bin that
  division gives it and in no other, so the bins cut the predictions into
  disjoint parts.
* `AlignmentsAlwaysOptimal` -- `AlignmentsAreOptimal`. An alignment of two
  prefixes ends in one of three ways (`BestSteps`), which is the recursion of
  both tables, the edit rows and the longest common subsequence. `MaxText` is any
  number: it only says of which texts the enumeration speaks.

For these `ExecutionInv` has to say of a recorded entry that its value is one its
own metric can have (`Entries`), and that where there is one the lines are the
predictions of the dataset. The sums and tables themselves are in
`KernelProofs`, by the argument of `JoinedInOrder`: a function that satisfies the
recursion is given in closed form, and two that satisfy it are equal. Two
conditions come from the code, which checks neither: what a text metric
compares are texts (`TextsAreSequences`), and what a probability metric compares
are scores in the range with labels 0 or 1 (`AreProbabilities`, a precondition
of its two properties).

`DriftProofs` proves `AlarmsWhole` (`AlarmsAreWhole`) for any calibrations, golden set,
samples and bounds, and finitely many subscriptions with distinct names
(`DriftAssumption`; a name stands for the primary key). `DriftInv` says that
the outbox is exactly the causes in it, each told to all who wanted it (`Tells`),
that a cause in it is past (`Past`: its calibration is done, its repetition
reported, its evaluation counted), so that what is raised next is a new cause,
and that a row with a drift has its cause. A rollback adds its deliveries in a
fold over the projects; that the result is one delivery for each subscriber is
proved by the smallest set of projects on which two solutions of the fold's
recursion differ.

Only model-checked:

* Liveness (`QueuedIsTaken`, `QueuedSettles`, `JudgingEnds`, `DeliveryEnds`,
  `AnsweredOrJammed`, `ExecutionEnds`, `BreachIsAnnounced`) and the fairness it
  needs: out of reach of the prover.
* The kernels with no property of their own: ROUGE-N, METEOR, macro averages,
  kappa and alpha. They are evaluated in runs, and fixed by the source alone.
* The four properties of the violation runs, which are false.

## 5. Where the documents differ, beyond the runs

Met while modelling, visible in the models, and not runs of their own:

* A metric that raises is skipped by the aggregator and the run is COMPLETED;
  `services/run/routes.py:5` and `Design-Doc.md:1153` promise PARTIAL, which
  nothing assigns. (`RunLifecycle`: `Evaluate`, `CompleteCommit`.)
* The row of a metric without per-example scores (and, on an empty dataset, of
  every metric) is committed to Postgres and never written to the history:
  `workers/aggregator.py:111-120` continues before `result_summary`, while
  `workers/iceberg_writer.py:3` speaks of one row per metric and slice. The JSON
  object that stands in for the table holds the rows of the last pass only.
  (`SingleValued`, `Listed`, `PersistHistory`.)
* With Temporal configured a run stays in PENDING_SUBMISSION: the reconciler of
  `services/run/routes.py:13` does not exist. (`Dispatched`.)
* The judge's scores are matched with the examples by position, and an example
  that failed has no row, though `workers/aggregator.py:42` speaks of an order.
  (`JudgePlane`: `ReadScores`.)
* A replay deletes dead letters that were appended after it read the list,
  though `judge/orchestrator.py:108` keeps them for a runbook. It needs a request
  posted to the judge service while the run is judged: without one nothing is
  lost (`NothingForgotten`). (`Clear`.)
* With `require_significant`, a result that has no p-value counts as a
  significant one, against `services/run/gating.py:32`. (`Gate`: `Excused`.)
* Two publications of one draft both succeed, and the later is recorded as the
  publisher. Each has its audit entry (`AuditTellsTheTruth`), and the content
  does not change. (`Catalog`: `Publish`.)

## 6. Not modelled, and the plan

Not modelled, and why: BLEU, log loss, perplexity and the image metrics
(roots, logarithms, arrays), auc_pr (with equal scores its value is that of
whatever order `np.argsort` gives them, although `metrics/probability.py:49`
calls it sklearn-compatible), bootstrap and significance tests
(random generators over floating point); the gateway's counter per second, which
refuses requests by the wall clock and leaves nothing that a service reads; the
sums of object sizes behind the storage quota; key management (an external
service); the UI and the read endpoints (no state); the SDK and the CLI (one
request per call: the clients of the models); telemetry, configuration, request
schemas and file formats; the in-process mode of the sandbox, which cannot time
out. EvalWorkflow under Temporal is left out because the repository has no
process that hosts it and its start cannot succeed from the handler; `replay`,
which runs outside an event loop, could submit it to a cluster.

Every invariant that a run checks is a theorem. What could follow: that kappa
and alpha do not depend on the order of the ratings.
