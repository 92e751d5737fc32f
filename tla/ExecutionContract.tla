-------------------------- MODULE ExecutionContract --------------------------
(***************************************************************************)
(* What the worker may rely on when it executes a run: one prediction per  *)
(* example, in the order of the dataset, and then one entry for each       *)
(* metric asked for, once however often it is, and in whatever order: the  *)
(* metric's own value on exactly these predictions or an error of this     *)
(* metric alone.                                                           *)
(***************************************************************************)
EXTENDS Naturals, Sequences

CONSTANTS Predictions(_), Value(_, _, _), Failed

VARIABLES job, lines, summary, outcome

vars == <<job, lines, summary, outcome>>

Init == lines = <<>> /\ summary = <<>> /\ outcome = "executing"

Infer ==
  /\ outcome = "executing" /\ lines = <<>>
  /\ lines' = Predictions(job.examples)
  /\ UNCHANGED <<job, summary, outcome>>

AskedFor == {job.metrics[i] : i \in DOMAIN job.metrics}
Named == {summary[k].metric : k \in DOMAIN summary}

Evaluate ==
  /\ outcome = "executing" /\ Len(lines) = Len(job.examples)
  /\ \E metric \in AskedFor \ Named :
       \E result \in {Failed, Value(metric, lines, job.examples)} :
         summary' = Append(summary, [metric |-> metric, result |-> result])
  /\ UNCHANGED <<job, lines, outcome>>

Finish ==
  /\ outcome = "executing" /\ Named = AskedFor
  /\ outcome' = "done"
  /\ UNCHANGED <<job, lines, summary>>

Abort ==
  /\ outcome = "executing" /\ outcome' = "failed"
  /\ UNCHANGED <<job, lines, summary>>

Next == Infer \/ Evaluate \/ Finish \/ Abort

Spec == Init /\ [][Next]_vars
=============================================================================
