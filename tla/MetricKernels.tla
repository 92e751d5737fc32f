---------------------------- MODULE MetricKernels ----------------------------
(***************************************************************************)
(* The arithmetic of the built-in metrics and of rater agreement, on exact *)
(* fractions <<numerator, denominator>> where the code has floats.  A text *)
(* is the sequence of its tokens (words, or characters for CER), a score   *)
(* and a label are integers.  BLEU, log loss, perplexity and the image     *)
(* metrics, which need roots, logarithms or arrays, are not here, and nor  *)
(* is auc_pr, whose value depends on how the sort orders equal scores.     *)
(***************************************************************************)
EXTENDS Integers, Sequences, FiniteSetsExt, SequencesExt

Ratio(n, d) == IF d = 0 THEN <<0, 1>> ELSE <<n, d>>
Same(x, y) == x[1] * y[2] = y[1] * x[2]
Plus(x, y) == <<x[1] * y[2] + y[1] * x[2], x[2] * y[2]>>
Mean(per) ==
  LET total == FoldLeft(Plus, <<0, 1>>, per) IN Ratio(total[1], total[2] * Len(per))

\* A MetricResult: the aggregate and the scores of the examples, if any.
Scored(per) == [aggregate |-> Mean(per), per_example |-> per]
Whole(x) == [aggregate |-> x, per_example |-> <<>>]
Count(P(_), s) == Cardinality({i \in DOMAIN s : P(i)})

----------------------------------------------------------------------------
(* Speech: one row of the table is kept, and overwritten from the left.    *)

NextRowOverwritten(row, i, a, b) ==   \* mutant: the diagonal is not kept in prev
  LET r[j \in 0 .. Len(b)] ==
        IF j = 0 THEN i
        ELSE IF a[i] = b[j] THEN r[j - 1] ELSE 1 + Min({r[j - 1], row[j]})
  IN r

\* row[j - 1] is prev, r[j - 1] the cell just written, row[j] the one to go.
NextRow(row, i, a, b) ==
  LET r[j \in 0 .. Len(b)] ==
        IF j = 0 THEN i
        ELSE IF a[i] = b[j] THEN row[j - 1]
        ELSE 1 + Min({row[j - 1], r[j - 1], row[j]})
  IN r

EditDistance(a, b) ==
  IF a = <<>> THEN Len(b) ELSE IF b = <<>> THEN Len(a)
  ELSE LET dp[i \in 0 .. Len(a)] ==
             IF i = 0 THEN [j \in 0 .. Len(b) |-> j] ELSE NextRow(dp[i - 1], i, a, b)
       IN dp[Len(a)][Len(b)]

ErrorRate(pred, ref) ==
  IF ref = <<>> THEN Ratio(IF pred = <<>> THEN 0 ELSE 1, 1)
  ELSE Ratio(EditDistance(ref, pred), Len(ref))
Wer(preds, refs) == Scored([i \in DOMAIN preds |-> ErrorRate(preds[i], refs[i])])
Cer(preds, refs) == Scored([i \in DOMAIN preds |-> ErrorRate(preds[i], refs[i])])

----------------------------------------------------------------------------
(* Text.                                                                   *)

LcsLength(a, b) ==
  LET dp[c \in (0 .. Len(a)) \X (0 .. Len(b))] ==
        LET i == c[1]  j == c[2] IN
        IF i = 0 \/ j = 0 THEN 0
        ELSE IF a[i] = b[j] THEN dp[<<i - 1, j - 1>>] + 1
        ELSE Max({dp[<<i - 1, j>>], dp[<<i, j - 1>>]})
  IN dp[<<Len(a), Len(b)>>]

\* 2PR / (P + R), where P = lcs / |pred| and R = lcs / |ref|.
RougeL(preds, refs) ==
  Scored([i \in DOMAIN preds |->
    LET lcs == LcsLength(preds[i], refs[i])
    IN IF lcs = 0 THEN <<0, 1>> ELSE <<2 * lcs, Len(preds[i]) + Len(refs[i])>>])

Grams(s, n) == {SubSeq(s, i, i + n - 1) : i \in 1 .. Len(s) - n + 1}
Times(g, s) == Cardinality({i \in 1 .. Len(s) - Len(g) + 1 :
                              SubSeq(s, i, i + Len(g) - 1) = g})
RougeN(pred, ref, n) ==
  LET shared == Grams(pred, n) \cap Grams(ref, n)
  IN Ratio(MapThenSumSet(LAMBDA g : Min({Times(g, pred), Times(g, ref)}), shared),
           Max({Len(ref) - n + 1, 0}))
Rouge1(preds, refs) == Scored([i \in DOMAIN preds |-> RougeN(preds[i], refs[i], 1)])
Rouge2(preds, refs) == Scored([i \in DOMAIN preds |-> RougeN(preds[i], refs[i], 2)])

\* 10PR / (R + 9P) on the sets of words.
Meteor(preds, refs) ==
  Scored([i \in DOMAIN preds |->
    LET p == ToSet(preds[i])  r == ToSet(refs[i])  both == Cardinality(p \cap r)
    IN IF both = 0 THEN <<0, 1>>
       ELSE <<10 * both, Cardinality(p) + 9 * Cardinality(r)>>])

----------------------------------------------------------------------------
(* Labels.                                                                 *)

Accuracy(preds, refs) ==
  Scored([i \in DOMAIN preds |-> <<IF preds[i] = refs[i] THEN 1 ELSE 0, 1>>])

ExactMatch(preds, refs) == Accuracy(preds, refs)   \* the texts being stripped

Classes(p, r) == ToSet(p) \cup ToSet(r)

ConfusionOneSided(p, r, c) ==   \* mutant: a wrong label counts against one class
  [tp |-> Count(LAMBDA i : p[i] = c /\ r[i] = c, p), fp |-> 0,
   fn |-> Count(LAMBDA i : p[i] # c /\ r[i] = c, p)]

Confusion(p, r, c) ==
  [tp |-> Count(LAMBDA i : p[i] = c /\ r[i] = c, p),
   fp |-> Count(LAMBDA i : p[i] = c /\ r[i] # c, p),
   fn |-> Count(LAMBDA i : p[i] # c /\ r[i] = c, p)]

Precision(m) == Ratio(m.tp, m.tp + m.fp)
Recall(m) == Ratio(m.tp, m.tp + m.fn)
F1(m) == Ratio(2 * m.tp, 2 * m.tp + m.fp + m.fn)
Pooled(p, r) ==
  LET sum(f) == MapThenSumSet(LAMBDA c : Confusion(p, r, c)[f], Classes(p, r))
  IN [tp |-> sum("tp"), fp |-> sum("fp"), fn |-> sum("fn")]
F1Micro(preds, refs) == Whole(F1(Pooled(preds, refs)))
PrecisionMicro(preds, refs) == Whole(Precision(Pooled(preds, refs)))
RecallMicro(preds, refs) == Whole(Recall(Pooled(preds, refs)))
\* What _prf returns: the classes have one weight each, or their number among
\* the references.
Shares(p, r, c) ==
  LET m == Confusion(p, r, c) IN [precision |-> Precision(m), recall |-> Recall(m), f1 |-> F1(m)]
Macro(share, p, r) ==
  LET cs == SetToSeq(Classes(p, r))
  IN IF cs = <<>> THEN "nan" ELSE Mean([k \in DOMAIN cs |-> Shares(p, r, cs[k])[share]])
Weighted(share, p, r) ==
  LET cs == SetToSeq(Classes(p, r))
      part(c) == LET x == Shares(p, r, c)[share]
                 IN <<Count(LAMBDA i : r[i] = c, r) * x[1], Len(r) * x[2]>>
  IN FoldLeft(Plus, <<0, 1>>, [k \in DOMAIN cs |-> part(cs[k])])
PrecisionMacro(preds, refs) == Whole(Macro("precision", preds, refs))
RecallMacro(preds, refs) == Whole(Macro("recall", preds, refs))
F1Macro(preds, refs) == Whole(Macro("f1", preds, refs))
F1Weighted(preds, refs) == Whole(Weighted("f1", preds, refs))

Mse(preds, refs) ==
  Scored([i \in DOMAIN preds |-> <<(preds[i] - refs[i]) * (preds[i] - refs[i]), 1>>])
Mae(preds, refs) ==
  Scored([i \in DOMAIN preds |-> <<IF preds[i] < refs[i] THEN refs[i] - preds[i]
                                                        ELSE preds[i] - refs[i], 1>>])

----------------------------------------------------------------------------
(* Probabilities.                                                          *)

RankFirst(p, e) == 2 * (Count(LAMBDA i : p[i] < p[e], p) + 1)   \* mutant: ties by position

\* Twice the rank of p[e]: a block of equal scores from position i to j of
\* the sorted order, from 0, has the rank (i + j) / 2 + 1.
Rank2(p, e) ==
  Count(LAMBDA i : p[i] < p[e], p) + Count(LAMBDA i : p[i] <= p[e], p) - 1 + 2

AucRoc(p, y) ==
  LET pos == {i \in DOMAIN y : y[i] = 1}  neg == {i \in DOMAIN y : y[i] = 0}
      n == Cardinality(pos)
      ranks == MapThenSumSet(LAMBDA e : Rank2(p, e), pos)
  IN IF pos = {} \/ neg = {} THEN Whole("nan")
     ELSE Whole(<<ranks - n * (n + 1), 2 * n * Cardinality(neg)>>)

InOpenBin(k, i, bins, scale) == bins * k >= i * scale /\ bins * k < (i + 1) * scale   \* mutant: the last bin lacks 1.0

\* A prediction k / scale falls in bin i; only the last bin has its upper end.
InBin(k, i, bins, scale) ==
  /\ bins * k >= i * scale
  /\ IF i < bins - 1 THEN bins * k < (i + 1) * scale ELSE bins * k <= (i + 1) * scale

BinGap(p, y, i, bins, scale) ==
  LET mask == {e \in DOMAIN p : InBin(p[e], i, bins, scale)}
      gap == MapThenSumSet(LAMBDA e : p[e], mask)
               - scale * Cardinality({e \in mask : y[e] = 1})
  IN IF gap < 0 THEN -gap ELSE gap
Ece(p, y, bins, scale) ==
  Whole(Ratio(MapThenSumSet(LAMBDA i : BinGap(p, y, i, bins, scale), 0 .. bins - 1),
              scale * Len(p)))

----------------------------------------------------------------------------
(* Agreement of two raters.                                                *)

\* (po - pe) / (1 - pe), both ends times n * n; the code adds 1e-12 below.
CohenKappa(x, y) ==
  LET n == Len(x)
      agree == Count(LAMBDA i : x[i] = y[i], x)
      chance == MapThenSumSet(LAMBDA c : Count(LAMBDA i : x[i] = c, x)
                                           * Count(LAMBDA i : y[i] = c, y),
                              Classes(x, y))
  IN <<n * agree - chance, n * n - chance>>

\* 1 - do / de with squared differences, of two raters of every item.
KrippendorffAlpha(x, y) ==
  LET n == Len(x)
      v(i) == IF i <= n THEN x[i] ELSE y[i - n]
      D == MapThenSumSet(LAMBDA i : (x[i] - y[i]) * (x[i] - y[i]), 1 .. n)
      E == MapThenSumSet(LAMBDA c : (v(c[1]) - v(c[2])) * (v(c[1]) - v(c[2])),
                         (1 .. 2 * n) \X (1 .. 2 * n))
  IN IF E = 0 THEN <<1, 1>> ELSE <<E - 4 * n * D, E>>
=============================================================================
