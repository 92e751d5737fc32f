----------------------------- MODULE MCExecution -----------------------------
(* Texts of up to three tokens, scores with labels, and runs of several      *)
(* shards and metrics.                                                       *)
EXTENDS ExecutionProperties

Ex(input, reference) == [input |-> input, reference |-> reference, own |-> None]
Words == UNION {[1 .. n -> {"a", "b"}] : n \in 0 .. 3}
ScoredExamples == {Ex(score, label) : score \in 0 .. 2, label \in 0 .. 1}

OneText == {[examples |-> <<Ex(p, r)>>, metrics |-> <<"wer", "rouge_l">>] : p, r \in Words}
ThreeScores ==
  {[examples |-> d, metrics |-> <<"auc_roc", "f1_micro", "ece">>] :
     d \in UNION {[1 .. n -> ScoredExamples] : n \in {0, 2, 3}}}
Others ==
  {[examples |-> <<Ex(<<"a">>, <<"a", "b">>), [Ex(<<"b">>, <<"b", "b">>) EXCEPT !.own = <<"a">>],
                   Ex(<<>>, <<>>), Ex(<<"b", "a">>, <<"a">>), Ex(<<"a", "b">>, <<"a", "b">>)>>,
    metrics |-> <<"meteor", "semantic_equivalence", "rouge_1">>],
   [examples |-> <<Ex(<<"b", "a">>, <<"a">>), Ex(<<>>, <<>>), Ex(<<"a">>, <<"a", "b">>), Ex(<<"a">>, <<>>)>>,
    metrics |-> <<"rouge_2", "cer", "rouge_2">>],
   [examples |-> <<Ex(1, 1), Ex(0, 1), Ex(1, 0)>>, metrics |-> <<"accuracy", "f1_macro", "mse">>],
   [examples |-> <<Ex(2, 1), Ex(0, 0)>>, metrics |-> <<"precision_macro", "recall_macro", "f1_weighted", "mae">>],
   [examples |-> <<Ex(<<"a">>, <<"b">>)>>, metrics |-> <<"exact_match">>]}
MCJobs == OneText \cup ThreeScores \cup Others
=============================================================================
