------------------------------ MODULE Execution ------------------------------
(***************************************************************************)
(* How a worker executes one run between load_dataset and aggregate:       *)
(* inference in shards, on Ray or in the process, and then every metric in *)
(* a sandbox, a child process with limits that has a wall-clock time to    *)
(* answer on a pipe.  RunLifecycle takes these two as the steps Infer and  *)
(* Evaluate of one run; here are their insides.                            *)
(***************************************************************************)
EXTENDS MetricKernels

CONSTANTS
  Jobs,        \* bound: the runs, [examples, metrics]; an example is
               \* [input, reference, own], own being its "prediction" or None
  ShardSize,    \* shard_size
  Bins, Scale,  \* n_bins of ECE; a score s stands for s / Scale
  None, Failed  \* an absent field; the error entry of a metric

ASSUME ExecutionAssumption ==
  /\ ShardSize \in Nat \ {0} /\ Bins \in Nat \ {0} /\ Scale \in Nat \ {0}
  /\ \A j \in Jobs : /\ j.examples \in Seq(ToSet(j.examples))
                     /\ j.metrics \in Seq(ToSet(j.metrics))

VARIABLES
  job,
  step,      \* where the worker is
  shards,    \* the shard tasks: their examples and how they ended
  lines,     \* predictions.jsonl: the prediction of each line
  versions,  \* metric_versions: what the query for the run's metrics returned
  summary,   \* the entries of metric_results.json so far
  child      \* the sandbox process of the metric at hand, and its answer

vars == <<job, step, shards, lines, versions, summary, child>>

----------------------------------------------------------------------------
(* Inference.                                                              *)

\* The echo model; a field "prediction" of the example is written over its
\* answer, since the example's other fields are merged in last.
Predicted(ex) == IF ex.own = None THEN ex.input ELSE ex.own
Predictions(examples) == [i \in DOMAIN examples |-> Predicted(examples[i])]

ChunkShort(items, size) ==   \* mutant: the last, shorter chunk is not yielded
  [k \in 1 .. Len(items) \div size |-> SubSeq(items, (k - 1) * size + 1, k * size)]

Chunk(items, size) ==
  [k \in 1 .. (Len(items) + size - 1) \div size |->
     SubSeq(items, (k - 1) * size + 1, Min({k * size, Len(items)}))]

\* With MELP_USE_RAY and a cluster that answers, a task per chunk; else one
\* loop over all the examples.
Dispatch ==
  /\ step = "begin"
  /\ step' = "inference"
  /\ \E size \in {ShardSize, Max({1, Len(job.examples)})} :
       LET batches == Chunk(job.examples, size)
       IN shards' = [k \in DOMAIN batches |-> [batch |-> batches[k], state |-> "running"]]
  /\ UNCHANGED <<job, lines, versions, summary, child>>

\* The model answers for the whole batch, or raises and fails the task.
ShardEnds(k) ==
  /\ shards[k].state = "running"
  /\ \E end \in {"done", "failed"} : shards' = [shards EXCEPT ![k].state = end]
  /\ UNCHANGED <<job, step, lines, versions, summary, child>>

\* ray.get returns the results in the order of the futures, or raises.
Gather ==
  /\ step = "inference"
  /\ \/ /\ \A k \in DOMAIN shards : shards[k].state = "done"
        /\ lines' = FlattenSeq([k \in DOMAIN shards |-> Predictions(shards[k].batch)])
        /\ step' = "query"
     \/ /\ \E k \in DOMAIN shards : shards[k].state = "failed"
        /\ step' = "failed" /\ UNCHANGED lines
  /\ UNCHANGED <<job, shards, versions, summary, child>>

----------------------------------------------------------------------------
(* Metrics in their sandboxes.                                             *)

References(examples) == [i \in DOMAIN examples |-> examples[i].reference]

\* semantic_equivalence raises without judge scores, and no run here has a
\* judge; the metrics that MetricKernels lacks are not asked for.
Value(metric, preds, examples) ==
  LET refs == References(examples) IN
  CASE metric = "wer" -> Wer(preds, refs)
    [] metric = "cer" -> Cer(preds, refs)
    [] metric = "rouge_1" -> Rouge1(preds, refs)
    [] metric = "rouge_2" -> Rouge2(preds, refs)
    [] metric = "rouge_l" -> RougeL(preds, refs)
    [] metric = "meteor" -> Meteor(preds, refs)
    [] metric = "accuracy" -> Accuracy(preds, refs)
    [] metric = "exact_match" -> ExactMatch(preds, refs)
    [] metric = "precision_macro" -> PrecisionMacro(preds, refs)
    [] metric = "recall_macro" -> RecallMacro(preds, refs)
    [] metric = "f1_weighted" -> F1Weighted(preds, refs)
    [] metric = "mse" -> Mse(preds, refs)
    [] metric = "mae" -> Mae(preds, refs)
    [] metric = "f1_micro" -> F1Micro(preds, refs)
    [] metric = "f1_macro" -> F1Macro(preds, refs)
    [] metric = "auc_roc" -> AucRoc(preds, refs)
    [] metric = "ece" -> Ece(preds, refs, Bins, Scale)
    [] OTHER -> Failed

\* The stored predictions are read back and the metric versions queried, with
\* IN and without ORDER BY: a version that the run names twice is a row once,
\* and the rows come in any order.  The run's creation has looked up each of
\* them.  Either call may raise.
Query ==
  /\ step = "query"
  /\ \/ step' = "metrics" /\ versions' \in SetToSeqs(ToSet(job.metrics))
     \/ step' = "failed" /\ UNCHANGED versions
  /\ UNCHANGED <<job, shards, lines, summary, child>>

NoChild == [state |-> "none", answer |-> Failed]
At == Len(summary) + 1

Spawn ==
  /\ step = "metrics" /\ At <= Len(versions)
  /\ step' = "waiting" /\ child' = [state |-> "running", answer |-> Failed]
  /\ UNCHANGED <<job, shards, lines, versions, summary>>

\* The child ends in time: with the pickled result on its stdout, with the
\* exception the metric raised, killed by a limit, or with something else on
\* the pipe because the metric printed or exited.  Or it never ends.
ChildEnds ==
  /\ child.state = "running"
  /\ \E answer \in {Failed, Value(versions[At], lines, job.examples)} :
       child' = [state |-> "ended", answer |-> answer]
  /\ UNCHANGED <<job, step, shards, lines, versions, summary>>

EnterAsked(result) ==   \* mutant: the entry is named after the list of the run
  summary' = Append(summary, [metric |-> job.metrics[At], result |-> result])

Enter(result) ==
  summary' = Append(summary, [metric |-> versions[At], result |-> result])

\* communicate returns: a bad return code, pickle or "ok" is raised, and
\* compute_metrics_for_run turns what is raised into an error entry.
Collect ==
  /\ step = "waiting" /\ child.state = "ended"
  /\ Enter(child.answer)
  /\ step' = "metrics" /\ child' = NoChild
  /\ UNCHANGED <<job, shards, lines, versions>>

\* communicate raises TimeoutExpired, even if the answer is in the pipe.
TimeOut ==
  /\ step = "waiting"
  /\ step' = "killing"
  /\ UNCHANGED <<job, shards, lines, versions, summary, child>>

EndedByItself == child.state = "ended"   \* mutant: wait() without kill()
Ended == TRUE   \* kill() ends a child that runs, wait() then returns

Kill ==
  /\ step = "killing" /\ Ended
  /\ Enter(Failed)
  /\ step' = "metrics" /\ child' = NoChild
  /\ UNCHANGED <<job, shards, lines, versions>>

\* put_bytes of metric_results.json, which may raise.
Store ==
  /\ step = "metrics" /\ At > Len(versions)
  /\ step' \in {"done", "failed"}
  /\ UNCHANGED <<job, shards, lines, versions, summary, child>>

Init ==
  /\ job \in Jobs
  /\ step = "begin" /\ shards = <<>> /\ lines = <<>> /\ versions = <<>>
  /\ summary = <<>> /\ child = NoChild

Worker == Dispatch \/ Gather \/ Query \/ Spawn \/ Collect \/ TimeOut \/ Kill \/ Store
Next == Worker \/ ChildEnds \/ \E k \in DOMAIN shards : ShardEnds(k)

Spec == Init /\ [][Next]_vars

\* The worker runs on and its clock with it; the model answers or its client
\* times out.  A child need never end.
FairSpec ==
  /\ Spec /\ WF_vars(Worker)
  /\ \A k \in 1 .. Max({Len(j.examples) : j \in Jobs}) :
       WF_vars(k \in DOMAIN shards /\ ShardEnds(k))
=============================================================================
