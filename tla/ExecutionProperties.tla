------------------------- MODULE ExecutionProperties -------------------------
(* What the execution of a run is meant to guarantee, and what the kernels *)
(* of its metrics are meant to compute, by definitions that do not go      *)
(* through tables, ranks or bins.                                          *)
EXTENDS Execution

CONSTANT MaxText   \* bound: the longest text whose alignments are enumerated

\* Sharding, sandboxes and time-outs are invisible from outside: the
\* predictions are those of the examples in their order, and each metric that
\* the run names has one entry, with its own value or with an error, in
\* whatever order the query returned the metrics
\* (ray_runner.py: shard_inference; sandbox.py; metric_pool.py:59-82).
Contract ==
  INSTANCE ExecutionContract WITH
    outcome <- IF step \in {"done", "failed"} THEN step ELSE "executing"
ImplementsExecution == Contract!Spec

\* The execution ends, although a metric's process may hang for ever and a
\* shard may fail (sandbox.py:115-119: the wall clock and the kill).
ExecutionEnds == <>(step \in {"done", "failed"})

Texts == {"wer", "cer", "rouge_l"}
IsScored(metric) == \E k \in DOMAIN summary : summary[k].metric = metric
OnTexts == \E metric \in Texts : IsScored(metric)
Preds == lines
Refs == References(job.examples)

\* What a text metric compares are texts.
ASSUME TextsAreSequences ==
  /\ MaxText \in Nat
  /\ \A j \in Jobs : ToSet(j.metrics) \cap Texts # {} =>
       \A ex \in ToSet(j.examples) : \A x \in {Predicted(ex), ex.reference} : x \in Seq(ToSet(x))

\* The ways to align two texts: order-preserving partial matchings.
InOrder(S) ==
  \A s, t \in S : s # t => (s[1] < t[1] /\ s[2] < t[2]) \/ (t[1] < s[1] /\ t[2] < s[2])
Alignments ==
  [c \in (0 .. MaxText) \X (0 .. MaxText) |->
     {S \in SUBSET ((1 .. c[1]) \X (1 .. c[2])) : InOrder(S)}]
Matches(S, a, b) == Cardinality({s \in S : a[s[1]] = b[s[2]]})

\* The one-row table of the error rates finds the fewest substitutions,
\* insertions and deletions, and the table of ROUGE-L the longest common
\* subsequence (speech.py: _edit_distance; text.py: _lcs_length).
AlignmentsAreOptimal ==
  OnTexts => \A i \in DOMAIN Preds :
    LET a == Refs[i]  b == Preds[i]  all == Alignments[<<Len(a), Len(b)>>] IN
    Len(a) <= MaxText /\ Len(b) <= MaxText =>
    /\ EditDistance(a, b) =
         Min({Len(a) + Len(b) - Cardinality(S) - Matches(S, a, b) : S \in all})
    /\ LcsLength(a, b) = Max({Matches(S, a, b) : S \in all})

\* What a probability metric is given, labels 0 or 1 and scores in the range:
\* the code relies on it and validates neither (probability.py: auc_roc, ece).
AreProbabilities ==
  \A i \in DOMAIN Preds : Preds[i] \in 0 .. Scale /\ Refs[i] \in {0, 1}

\* The AUC of averaged ranks is the share of the pairs of a positive and a
\* negative example that the scores put in order, a tie being half a pair
\* (probability.py: auc_roc).
AucCountsPairs ==
  \A k \in DOMAIN summary :
    summary[k].metric = "auc_roc" /\ summary[k].result # Failed /\ AreProbabilities =>
      LET pos == {i \in DOMAIN Refs : Refs[i] = 1}
          neg == {i \in DOMAIN Refs : Refs[i] = 0}
          pairs == pos \X neg
          auc == summary[k].result.aggregate
      IN IF pairs = {} THEN auc = "nan"
         ELSE Same(auc, <<Cardinality({c \in pairs : Preds[c[1]] > Preds[c[2]]})
                            + Cardinality({c \in pairs : Preds[c[1]] >= Preds[c[2]]}),
                          2 * Cardinality(pairs)>>)

\* Pooled over the classes, precision, recall and F1 are one number, the
\* accuracy, and so is the recall of the classes weighted by their support:
\* what one class loses as a false positive another loses as a false negative
\* (classic.py: _confusion, _prf, accuracy).
MicroIsAccuracy ==
  IsScored("f1_micro") =>
    LET accuracy == Accuracy(Preds, Refs).aggregate IN
    \A value \in {F1Micro(Preds, Refs).aggregate, PrecisionMicro(Preds, Refs).aggregate,
                 RecallMicro(Preds, Refs).aggregate, Weighted("recall", Preds, Refs)} :
      Same(value, accuracy)

\* The calibration error leaves no prediction out, 0.0, 1.0 and the edges
\* between bins included: it is what cutting the range by division gives, with
\* 1.0 in the last part (probability.py:77).
PartOf(score) == Min({(score * Bins) \div Scale, Bins - 1})
ErrorCountsAll ==
  \A k \in DOMAIN summary :
    summary[k].metric = "ece" /\ summary[k].result # Failed /\ AreProbabilities =>
      LET part(i) == {e \in DOMAIN Preds : PartOf(Preds[e]) = i}
          gap(i) == MapThenSumSet(LAMBDA e : Preds[e] - Scale * Refs[e], part(i))
          gaps == MapThenSumSet(LAMBDA i : IF gap(i) < 0 THEN -gap(i) ELSE gap(i), 0 .. Bins - 1)
      IN Same(summary[k].result.aggregate, Ratio(gaps, Scale * Len(Preds)))
=============================================================================
