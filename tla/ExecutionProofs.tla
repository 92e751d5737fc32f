--------------------------- MODULE ExecutionProofs ---------------------------
(***************************************************************************)
(* Theorems about Execution, for every dataset, shard size and list of     *)
(* metrics: that shards, sandboxes and time-outs are invisible in what a   *)
(* run's execution leaves behind.  The join of the shards is a recursive   *)
(* function, and what it computes is proved by the least shard at which it *)
(* would go wrong.                                                         *)
(***************************************************************************)
EXTENDS KernelProofs

----------------------------------------------------------------------------
(* Where the shards begin and end.                                         *)

\* The shards of a list of L examples: each begins inside the list, and the
\* last one reaches its end.
Shards(L, size) == (L + size - 1) \div size

LEMMA ShardsCover ==
  ASSUME NEW L \in Nat, NEW size \in Nat \ {0}
  PROVE  /\ Shards(L, size) \in Nat /\ L <= Shards(L, size) * size
         /\ \A k \in 1 .. Shards(L, size) : (k - 1) * size \in Nat /\ (k - 1) * size < L
<1> DEFINE n == Shards(L, size)
<1>1. n \in Int /\ size * n <= L + size - 1 /\ L + size - 1 < size * n + size
  BY DEF Shards
<1> HIDE DEF n
<1>2. n \in Nat
  <2>1. SUFFICES ASSUME n <= -1 PROVE FALSE
    BY <1>1
  <2>2. PICK c \in Nat : n = -1 - c
    BY <2>1, <1>1, -1 - n \in Nat, n = -1 - (-1 - n)
  <2>3. size * n = - size - size * c /\ size * c \in Nat
    BY <2>2
  <2> QED BY <2>3, <1>1
<1>3. L <= n * size
  BY <1>1, <1>2, n * size = size * n
<1>4. ASSUME NEW k \in 1 .. n PROVE (k - 1) * size \in Nat /\ (k - 1) * size < L
  <2>1. (k - 1) * size <= (n - 1) * size /\ (k - 1) * size \in Nat /\ (n - 1) * size \in Nat
    BY <1>2, k - 1 \in Nat, n - 1 \in Nat, k - 1 <= n - 1, size \in Nat, TimesGrows
  <2>2. (n - 1) * size = size * n - size
    BY <1>2
  <2>3. size * n \in Int
    BY <1>2
  <2> QED BY <1>1, <2>1, <2>2, <2>3
<1> QED BY <1>2, <1>3, <1>4 DEF n

\* Where shard k ends.
End(L, size, k) == Min({k * size, L})

LEMMA Ends ==
  ASSUME NEW L \in Nat, NEW size \in Nat \ {0}, NEW k \in 1 .. Shards(L, size)
  PROVE  /\ End(L, size, k) \in Nat /\ End(L, size, k) <= L
         /\ (k - 1) * size \in Nat /\ (k - 1) * size < End(L, size, k)
         /\ k > 1 => End(L, size, k - 1) = (k - 1) * size
         /\ k = Shards(L, size) => End(L, size, k) = L
<1>1. (k - 1) * size \in Nat /\ (k - 1) * size < L /\ k \in Nat /\ L <= Shards(L, size) * size
  BY ShardsCover
<1>2. k * size = (k - 1) * size + size /\ k * size \in Nat
  BY <1>1
<1> HIDE DEF Shards
<1>3. End(L, size, k) = IF k * size <= L THEN k * size ELSE L
  BY <1>2, SmallerOfTwo DEF End
<1>4. End(L, size, k - 1) = IF (k - 1) * size <= L THEN (k - 1) * size ELSE L
  BY <1>1, SmallerOfTwo DEF End
<1>5. k = Shards(L, size) => L <= k * size
  BY <1>1, SMTT(30)
<1> QED BY <1>1, <1>2, <1>3, <1>4, <1>5

----------------------------------------------------------------------------
(* The join of the shards.                                                 *)

\* The recursion of FlattenSeq.
Flattens(f, s, n) == f = [i \in 1 .. n |-> IF i = 1 THEN s[i] ELSE f[i - 1] \o s[i]]

\* When a function satisfies it, the one that FlattenSeq takes does too.
LEMMA Flattened ==
  ASSUME NEW s, Len(s) # 0, NEW g, Flattens(g, s, Len(s))
  PROVE  \E f : Flattens(f, s, Len(s)) /\ FlattenSeq(s) = f[Len(s)]
<1> DEFINE flat == CHOOSE f : f = [i \in 1 .. Len(s) |-> IF i = 1 THEN s[i] ELSE f[i - 1] \o s[i]]
<1>1. flat = [i \in 1 .. Len(s) |-> IF i = 1 THEN s[i] ELSE flat[i - 1] \o s[i]]
  BY Zenon DEF Flattens
<1>2. FlattenSeq(s) = flat[Len(s)]
  BY DEF FlattenSeq
<1> QED BY <1>1, <1>2, ZenonT(40) DEF Flattens

\* The recursion has one solution: at the least index where two differ they
\* are computed from what is equal.
LEMMA OneFlattening ==
  ASSUME NEW s, NEW n \in Nat, NEW f, NEW g,
         Flattens(f, s, n), Flattens(g, s, n)
  PROVE  f = g
<1>0. DOMAIN f = 1 .. n /\ DOMAIN g = 1 .. n /\ f = [i \in 1 .. n |-> f[i]] /\ g = [i \in 1 .. n |-> g[i]]
  BY DEF Flattens
<1>1. SUFFICES ASSUME \E i \in 1 .. n : f[i] # g[i] PROVE FALSE
  BY <1>0, Zenon
<1> DEFINE Wrong == {i \in 1 .. n : f[i] # g[i]}
<1>2. PICK m \in Wrong : \A i \in Wrong : m <= i
  BY <1>1, Least, Wrong \subseteq Nat, Wrong # {}
<1>3. m \in 1 .. n /\ f[m] # g[m]
  BY <1>2
<1>4. CASE m = 1
  BY <1>3, <1>4 DEF Flattens
<1>5. CASE m # 1
  <2>1. m - 1 \in 1 .. n /\ m - 1 \notin Wrong
    BY <1>2, <1>3, <1>5
  <2>2. f[m - 1] = g[m - 1]
    BY <2>1, SMTT(30)
  <2>3. f[m] = f[m - 1] \o s[m] /\ g[m] = g[m - 1] \o s[m]
    BY <1>3, <1>5, Zenon DEF Flattens
  <2> QED BY <1>3, <2>2, <2>3
<1> QED BY <1>4, <1>5

LEMMA Concatenated ==
  ASSUME NEW P, NEW x \in Seq(P), NEW y \in Seq(P)
  PROVE  x \o y = [i \in 1 .. Len(x) + Len(y) |-> IF i <= Len(x) THEN x[i] ELSE y[i - Len(x)]]
<1> DEFINE z == x \o y
<1>1. /\ z \in Seq(P) /\ Len(z) = Len(x) + Len(y)
      /\ \A i \in 1 .. Len(x) + Len(y) : z[i] = IF i <= Len(x) THEN x[i] ELSE y[i - Len(x)]
  BY ConcatProperties
<1> HIDE DEF z
<1>2. z = [i \in 1 .. Len(z) |-> z[i]]
  BY <1>1
<1> QED BY <1>1, <1>2 DEF z

\* Predictions made shard by shard and joined are the predictions of the
\* dataset in its order.
LEMMA JoinedInOrder ==
  ASSUME NEW e, NEW S, e \in Seq(S), NEW size \in Nat \ {0}
  PROVE  FlattenSeq([k \in DOMAIN Chunk(e, size) |-> Predictions(Chunk(e, size)[k])])
           = Predictions(e)
<1> DEFINE L == Len(e)
           n == Shards(L, size)
           first(k) == [i \in 1 .. End(L, size, k) |-> Predicted(e[i])]
           s == [k \in 1 .. n |-> Predictions(Chunk(e, size)[k])]
           g == [k \in 1 .. n |-> first(k)]
<1>1. L \in Nat /\ n \in Nat /\ DOMAIN e = 1 .. L /\ L <= n * size
  <2>1. L \in Nat /\ DOMAIN e = 1 .. L
    OBVIOUS
  <2> QED BY <2>1, ShardsCover
<1>2. DOMAIN Chunk(e, size) = 1 .. n
  BY DEF Chunk, Shards
<1>3. Len(s) = n
  BY <1>1
<1>4. ASSUME NEW k \in 1 .. n
      PROVE  s[k] = [i \in 1 .. End(L, size, k) - (k - 1) * size |-> Predicted(e[(k - 1) * size + i])]
  <2> DEFINE a == (k - 1) * size
             b == End(L, size, k)
  <2>1. a \in Nat /\ b \in Nat /\ a < b /\ b <= L
    BY <1>1, Ends
  <2>2. Chunk(e, size)[k] = SubSeq(e, a + 1, b)
    BY DEF Chunk, End, Shards
  <2> HIDE DEF a, b
  <2>3. SubSeq(e, a + 1, b) = [i \in 1 .. b - a |-> e[a + i]]
    BY <2>1, <1>1
  <2>4. s[k] = [i \in 1 .. b - a |-> Predicted(e[a + i])]
    BY <2>2, <2>3 DEF Predictions
  <2> QED BY <2>4 DEF a, b
<1>5. Flattens(g, s, n)
  <2>1. ASSUME NEW k \in 1 .. n PROVE g[k] = IF k = 1 THEN s[k] ELSE g[k - 1] \o s[k]
    <3> DEFINE a == (k - 1) * size
               b == End(L, size, k)
    <3>1. a \in Nat /\ b \in Nat /\ a < b /\ b <= L /\ (k > 1 => End(L, size, k - 1) = a)
      BY <1>1, Ends
    <3>2. k = 1 => a = 0
      OBVIOUS
    <3>3. s[k] = [i \in 1 .. b - a |-> Predicted(e[a + i])]
      BY <1>4
    <3>4. k # 1 => g[k - 1] = [i \in 1 .. a |-> Predicted(e[i])]
      BY <3>1, <1>1
    <3>5. g[k] = [i \in 1 .. b |-> Predicted(e[i])]
      OBVIOUS
    <3> HIDE DEF a, b, s, g
    <3>6. CASE k = 1
      BY <3>1, <3>2, <3>3, <3>5, <3>6
    <3>7. CASE k # 1
      <4> DEFINE P == {Predicted(e[i]) : i \in 1 .. L}
      <4>1. g[k - 1] \in Seq(P) /\ s[k] \in Seq(P) /\ Len(g[k - 1]) = a /\ Len(s[k]) = b - a
        <5>1. \A i \in 1 .. a : Predicted(e[i]) \in P
          BY <3>1, <1>1
        <5>2. \A i \in 1 .. b - a : Predicted(e[a + i]) \in P
          BY <3>1, <1>1
        <5>3. g[k - 1] \in [1 .. a -> P] /\ s[k] \in [1 .. b - a -> P] /\ b - a \in Nat
          BY <3>1, <3>3, <3>4, <3>7, <5>1, <5>2
        <5>4. g[k - 1] \in Seq(P) /\ Len(g[k - 1]) = a
          <6> DEFINE x == g[k - 1]
          <6>1. x \in [1 .. a -> P] /\ a \in Nat
            BY <5>3, <3>1
          <6> HIDE DEF x, P
          <6>2. x \in Seq(P) /\ Len(x) = a
            BY <6>1
          <6> QED BY <6>2 DEF x
        <5>5. s[k] \in Seq(P) /\ Len(s[k]) = b - a
          <6> DEFINE x == s[k]
                     m == b - a
          <6>1. x \in [1 .. m -> P] /\ m \in Nat
            BY <5>3
          <6> HIDE DEF x, P, m
          <6>2. x \in Seq(P) /\ Len(x) = m
            BY <6>1
          <6> QED BY <6>2 DEF x, m
        <5> QED BY <5>4, <5>5
      <4>2. g[k - 1] \o s[k] = [i \in 1 .. b |-> IF i <= a THEN g[k - 1][i] ELSE s[k][i - a]]
        <5> HIDE DEF P
        <5> DEFINE x == g[k - 1]
                   y == s[k]
        <5>1. x \in Seq(P) /\ y \in Seq(P) /\ Len(x) = a /\ Len(y) = b - a /\ a + (b - a) = b
          BY <4>1, <3>1
        <5> HIDE DEF x, y
        <5>2. x \o y = [i \in 1 .. Len(x) + Len(y) |-> IF i <= Len(x) THEN x[i] ELSE y[i - Len(x)]]
          BY <5>1, Concatenated
        <5>3. Len(x) = a /\ Len(x) + Len(y) = b
          BY <5>1
        <5> QED BY <5>2, <5>3 DEF x, y
      <4>3. \A i \in 1 .. b : (IF i <= a THEN g[k - 1][i] ELSE s[k][i - a]) = Predicted(e[i])
        BY <3>1, <3>3, <3>4, <3>7
      <4> QED BY <4>2, <4>3, <3>5, <3>7
    <3> QED BY <3>6, <3>7
  <2> HIDE DEF s
  <2>2. g = [k \in 1 .. n |-> g[k]]
    OBVIOUS
  <2> HIDE DEF g
  <2> QED BY <2>1, <2>2, Zenon DEF Flattens
<1>6. FlattenSeq(s) = Predictions(e)
  <2>1. CASE n = 0
    <3>1. L = 0
      BY <1>1, <2>1
    <3>2. s = << >> /\ Predictions(e) = << >>
      BY <3>1, <2>1, <1>1 DEF Predictions
    <3> QED BY <3>2 DEF FlattenSeq
  <2>2. CASE n # 0
    <3> HIDE DEF g, s
    <3>1. PICK f : Flattens(f, s, n) /\ FlattenSeq(s) = f[n]
      BY Flattened, <1>3, <1>5, <2>2
    <3>2. f = g
      BY OneFlattening, <3>1, <1>5, <1>1
    <3>3. g[n] = [i \in 1 .. L |-> Predicted(e[i])]
      <4>1. n \in 1 .. n /\ n = Shards(L, size)
        BY <1>1, <2>2
      <4>2. End(L, size, n) = L
        BY <4>1, <1>1, Ends
      <4> QED BY <4>1, <4>2 DEF g
    <3> QED BY <3>1, <3>2, <3>3, <1>1 DEF Predictions
  <2> QED BY <2>1, <2>2
<1> QED BY <1>2, <1>6, Zenon

----------------------------------------------------------------------------
(* The execution.  That a step of the contract is made needs to be known   *)
(* of the steps before it: the shards are a cut of the dataset, the lines  *)
(* are their predictions from the gathering on, the query returned each    *)
(* metric of the run once, the entries are those of the first metrics that *)
(* it returned, and a child that ended has an answer of the next one.      *)

States == {"running", "done", "failed"}
CutInto(size) ==
  LET batches == Chunk(job.examples, size) IN
  /\ DOMAIN shards = DOMAIN batches
  /\ \A k \in DOMAIN batches : shards[k] \in [batch : {batches[k]}, state : States]
ShardInv == step # "begin" => \E size \in Nat \ {0} : CutInto(size)

LineInv ==
  CASE step \in {"begin", "inference"} -> lines = << >> /\ summary = << >>
    [] step = "query" -> lines = Predictions(job.examples) /\ summary = << >>
    [] step = "failed" -> summary # << >> => lines = Predictions(job.examples)
    [] OTHER -> lines = Predictions(job.examples)

Results(metric) == {Failed, Value(metric, lines, job.examples)}
Entries == UNION {[metric : {metric}, result : Results(metric)] : metric \in ToSet(job.metrics)}
SummaryInv ==
  /\ summary \in Seq(Entries)
  /\ step \in {"metrics", "waiting", "killing", "done"} =>
       /\ versions \in SetToSeqs(ToSet(job.metrics))
       /\ Len(summary) <= Len(versions)
       /\ \A k \in DOMAIN summary : summary[k].metric = versions[k]
  /\ step \in {"waiting", "killing"} => At <= Len(versions)
  /\ step = "done" => Len(summary) = Len(versions)

ChildInv ==
  IF step \in {"waiting", "killing"}
  THEN child \in [state : {"running", "ended"}, answer : Results(versions[At])]
  ELSE child = NoChild

Steps == {"begin", "inference", "query", "metrics", "waiting", "killing", "done", "failed"}
ExecutionInv ==
  job \in Jobs /\ step \in Steps /\ ShardInv /\ LineInv /\ SummaryInv /\ ChildInv

LEMMA JobIsTyped ==
  ASSUME job \in Jobs
  PROVE  /\ job.examples \in Seq(ToSet(job.examples)) /\ job.metrics \in Seq(ToSet(job.metrics))
         /\ Len(job.examples) \in Nat /\ Len(job.metrics) \in Nat
<1>1. job.examples \in Seq(ToSet(job.examples)) /\ job.metrics \in Seq(ToSet(job.metrics))
  BY ExecutionAssumption
<1>2. \A S, s : s \in Seq(S) => Len(s) \in Nat
  OBVIOUS
<1> QED BY <1>1, <1>2

\* The metrics that a run names are finitely many.
LEMMA MetricsAreFinite == ASSUME job \in Jobs PROVE IsFiniteSet(ToSet(job.metrics))
<1> DEFINE n == Len(job.metrics)
           f == job.metrics
<1>1. n \in Nat /\ f \in Seq(ToSet(f))
  BY JobIsTyped
<1>2. f \in [1 .. n -> ToSet(f)]
  BY <1>1
<1>3. \A x \in ToSet(f) : \E i \in 1 .. n : f[i] = x
  BY <1>2 DEF ToSet
<1> HIDE DEF n, f
<1>4. f \in Surjection(1 .. n, ToSet(f))
  BY <1>2, <1>3 DEF Surjection
<1>5. IsFiniteSet(1 .. n)
  BY <1>1, FS_Interval
<1>6. IsFiniteSet(ToSet(f))
  BY <1>4, <1>5, FS_Surjection
<1> QED BY <1>6 DEF f

\* What the query returns has each element of the set once and all of them.
LEMMA EachOnce ==
  ASSUME NEW S, IsFiniteSet(S), NEW f \in SetToSeqs(S)
  PROVE  /\ Len(f) \in Nat /\ DOMAIN f = 1 .. Len(f)
         /\ \A i \in 1 .. Len(f) : f[i] \in S
         /\ \A i, j \in 1 .. Len(f) : f[i] = f[j] => i = j
         /\ \A x \in S : \E i \in 1 .. Len(f) : f[i] = x
<1> DEFINE n == Cardinality(S)
<1>1. n \in Nat
  BY FS_CardinalityType
<1>2. f \in [1 .. n -> S] /\ \A i, j \in 1 .. n : i # j => f[i] # f[j]
  BY DEF SetToSeqs
<1>3. Cardinality(1 .. n) = n
  BY <1>1, FS_Interval
<1>4. n = Cardinality(S)
  OBVIOUS
<1> HIDE DEF n
<1>5. f \in Injection(1 .. n, S)
  BY <1>2, Zenon DEF Injection, IsInjective
<1>6. f \in Surjection(1 .. n, S)
  BY <1>3, <1>4, <1>5, FS_Injection
<1>7. \A x \in S : \E i \in 1 .. n : f[i] = x
  BY <1>6 DEF Surjection
<1>8. Len(f) = n
  BY <1>1, <1>2
<1> QED BY <1>1, <1>2, <1>7, <1>8

LEMMA VersionsAreMetrics ==
  ASSUME job \in Jobs, versions \in SetToSeqs(ToSet(job.metrics))
  PROVE  /\ Len(versions) \in Nat
         /\ \A i \in 1 .. Len(versions) : versions[i] \in ToSet(job.metrics)
         /\ \A i, j \in 1 .. Len(versions) : versions[i] = versions[j] => i = j
         /\ \A x \in ToSet(job.metrics) : \E i \in 1 .. Len(versions) : versions[i] = x
BY MetricsAreFinite, EachOnce

LEMMA MetricIsNamed ==
  ASSUME ExecutionInv, step \in {"waiting", "killing"}
  PROVE  /\ At \in 1 .. Len(versions) /\ versions[At] \in ToSet(job.metrics)
         /\ Len(summary) \in Nat /\ Len(versions) \in Nat
<1>1. summary \in Seq(Entries) /\ At <= Len(versions) /\ job \in Jobs
      /\ versions \in SetToSeqs(ToSet(job.metrics))
  BY DEF ExecutionInv, SummaryInv
<1> HIDE DEF Entries
<1>2. Len(summary) \in Nat
  BY <1>1
<1>3. Len(versions) \in Nat /\ \A i \in 1 .. Len(versions) : versions[i] \in ToSet(job.metrics)
  BY <1>1, VersionsAreMetrics
<1>4. At \in 1 .. Len(versions)
  BY <1>1, <1>2, <1>3 DEF At
<1> QED BY <1>2, <1>3, <1>4

LEMMA ExecutionStarts == ASSUME Init PROVE ExecutionInv
<1>1. job \in Jobs /\ step = "begin" /\ shards = << >> /\ lines = << >> /\ summary = << >> /\ child = NoChild
  BY DEF Init
<1>2. SummaryInv
  BY <1>1 DEF SummaryInv
<1> QED BY <1>1, <1>2 DEF ExecutionInv, ShardInv, LineInv, ChildInv, Steps

\* The shards are a cut of the dataset.
LEMMA DispatchKeeps == ASSUME ExecutionInv, Dispatch PROVE ExecutionInv'
<1>1. /\ step = "begin" /\ step' = "inference" /\ job' = job /\ lines' = lines
      /\ summary' = summary /\ child' = child
  BY DEF Dispatch
<1>2. job \in Jobs /\ lines = << >> /\ summary = << >> /\ child = NoChild
  BY <1>1 DEF ExecutionInv, LineInv, ChildInv
<1>3. PICK size \in {ShardSize, Max({1, Len(job.examples)})} :
        LET batches == Chunk(job.examples, size)
        IN shards' = [k \in DOMAIN batches |-> [batch |-> batches[k], state |-> "running"]]
  BY DEF Dispatch
<1>4. size \in Nat \ {0}
  <2>1. Len(job.examples) \in Nat
    BY <1>2, JobIsTyped
  <2>2. Max({1, Len(job.examples)}) = IF 1 <= Len(job.examples) THEN Len(job.examples) ELSE 1
    <3> DEFINE n == Len(job.examples)
    <3>1. n \in Int
      BY <2>1
    <3> HIDE DEF n
    <3>2. Max({1, n}) = IF 1 <= n THEN n ELSE 1
      BY <3>1, 1 \in Int, SmallerOfTwo
    <3> QED BY <3>2 DEF n
  <2> QED BY <1>3, <2>1, <2>2, ExecutionAssumption
<1>5. CutInto(size)'
  <2> DEFINE batches == Chunk(job.examples, size)
  <2>1. shards' = [k \in DOMAIN batches |-> [batch |-> batches[k], state |-> "running"]]
    BY <1>3
  <2>2. batches' = batches
    BY <1>1
  <2> HIDE DEF batches
  <2>3. /\ DOMAIN shards' = DOMAIN batches
        /\ \A k \in DOMAIN batches : shards'[k] \in [batch : {batches[k]}, state : States]
    BY <2>1 DEF States
  <2> QED BY <2>3, <2>2 DEF CutInto, batches
<1>6. ShardInv'
  BY <1>4, <1>5 DEF ShardInv
<1>7. SummaryInv'
  BY <1>1, <1>2 DEF SummaryInv
<1> QED BY <1>1, <1>2, <1>6, <1>7 DEF ExecutionInv, LineInv, ChildInv, Steps

\* A step that leaves the shards alone leaves them cut.
LEMMA ShardsStay ==
  ASSUME ExecutionInv, step # "begin", UNCHANGED <<job, shards>>
  PROVE  ShardInv' /\ job' \in Jobs
<1>1. PICK size \in Nat \ {0} : CutInto(size)
  BY DEF ExecutionInv, ShardInv
<1>2. CutInto(size)'
  BY <1>1 DEF CutInto
<1> QED BY <1>2 DEF ShardInv, ExecutionInv

LEMMA ShardEndsKeeps ==
  ASSUME ExecutionInv, NEW k \in DOMAIN shards, ShardEnds(k)
  PROVE  ExecutionInv'
<1>1. UNCHANGED <<job, step, lines, versions, summary, child>>
  BY DEF ShardEnds
<1>2. PICK end \in {"done", "failed"} : shards' = [shards EXCEPT ![k].state = end]
  BY DEF ShardEnds
<1>3. ASSUME NEW size \in Nat \ {0}, CutInto(size) PROVE CutInto(size)'
  <2> DEFINE batches == Chunk(job.examples, size)
  <2>1. DOMAIN shards = DOMAIN batches
    BY <1>3 DEF CutInto
  <2>2. \A m \in DOMAIN batches : shards[m] \in [batch : {batches[m]}, state : States]
    BY <1>3 DEF CutInto
  <2>3. batches' = batches
    BY <1>1
  <2> HIDE DEF batches
  <2>4. DOMAIN shards' = DOMAIN batches
    BY <1>2, <2>1
  <2>5. ASSUME NEW m \in DOMAIN batches
        PROVE  shards'[m] \in [batch : {batches[m]}, state : States]
    <3>1. CASE m = k
      <4>1. shards'[m] = [shards[m] EXCEPT !.state = end]
        BY <1>2, <2>1, <3>1
      <4> QED BY <4>1, <2>2 DEF States
    <3>2. CASE m # k
      BY <1>2, <2>1, <2>2, <3>2
    <3> QED BY <3>1, <3>2
  <2> QED BY <2>3, <2>4, <2>5 DEF CutInto, batches
<1>4. ShardInv'
  BY <1>1, <1>3 DEF ExecutionInv, ShardInv
<1>5. SummaryInv' /\ ChildInv' /\ LineInv'
  BY <1>1 DEF ExecutionInv, SummaryInv, ChildInv, LineInv, Entries, Results, At
<1> QED BY <1>1, <1>4, <1>5 DEF ExecutionInv

\* What is gathered are the predictions of the dataset in its order.
LEMMA GatheredInOrder ==
  ASSUME ExecutionInv, step = "inference"
  PROVE  FlattenSeq([k \in DOMAIN shards |-> Predictions(shards[k].batch)]) = Predictions(job.examples)
<1>1. PICK size \in Nat \ {0} : CutInto(size)
  BY DEF ExecutionInv, ShardInv
<1> DEFINE batches == Chunk(job.examples, size)
<1>2. DOMAIN shards = DOMAIN batches /\ \A k \in DOMAIN batches : shards[k].batch = batches[k]
  BY <1>1 DEF CutInto
<1>3. FlattenSeq([k \in DOMAIN batches |-> Predictions(batches[k])]) = Predictions(job.examples)
  BY JoinedInOrder, JobIsTyped DEF ExecutionInv
<1> HIDE DEF batches
<1>4. [k \in DOMAIN shards |-> Predictions(shards[k].batch)] = [k \in DOMAIN batches |-> Predictions(batches[k])]
  BY <1>2
<1> QED BY <1>3, <1>4

LEMMA GatherKeeps == ASSUME ExecutionInv, Gather PROVE ExecutionInv'
<1>1. /\ step = "inference" /\ job' = job /\ shards' = shards
      /\ summary' = summary /\ child' = child
  BY DEF Gather
<1>2. job \in Jobs /\ summary = << >> /\ child = NoChild
  BY <1>1 DEF ExecutionInv, LineInv, ChildInv
<1>3. \/ step' = "query" /\ lines' = Predictions(job.examples)
      \/ step' = "failed"
  BY <1>1, GatheredInOrder DEF Gather
<1>4. ShardInv' /\ job' \in Jobs
  BY <1>1, ShardsStay
<1>5. SummaryInv'
  BY <1>1, <1>2, <1>3 DEF SummaryInv
<1> QED BY <1>1, <1>2, <1>3, <1>4, <1>5 DEF ExecutionInv, LineInv, ChildInv, Steps

\* The metrics are there, each once, and none has an entry yet.
LEMMA QueryKeeps == ASSUME ExecutionInv, Query PROVE ExecutionInv'
<1>1. step = "query" /\ UNCHANGED <<job, shards, lines, summary, child>>
  BY DEF Query
<1>2. /\ job \in Jobs /\ lines = Predictions(job.examples)
      /\ summary = << >> /\ child = NoChild
  BY <1>1 DEF ExecutionInv, LineInv, ChildInv
<1>3. ShardInv' /\ job' \in Jobs
  BY <1>1, ShardsStay
<1>4. CASE step' = "metrics" /\ versions' \in SetToSeqs(ToSet(job.metrics))
  <2>1. Len(versions') \in Nat
    BY <1>2, <1>4, MetricsAreFinite, EachOnce
  <2>2. Len(summary') <= Len(versions') /\ DOMAIN summary' = {} /\ summary' \in Seq(Entries')
    BY <1>1, <1>2, <2>1
  <2>3. SummaryInv'
    BY <1>1, <1>4, <2>2 DEF SummaryInv
  <2> QED BY <1>1, <1>2, <1>3, <1>4, <2>3 DEF ExecutionInv, LineInv, ChildInv, Steps
<1>5. CASE step' = "failed"
  <2>1. SummaryInv'
    BY <1>1, <1>2, <1>5 DEF SummaryInv
  <2> QED BY <1>1, <1>2, <1>3, <1>5, <2>1 DEF ExecutionInv, LineInv, ChildInv, Steps
<1> QED BY <1>4, <1>5 DEF Query

\* A step of the sandbox adds no entry.
LEMMA SandboxKeeps ==
  ASSUME ExecutionInv, UNCHANGED <<job, shards, lines, versions, summary>>,
         step \in {"metrics", "waiting", "killing"},
         step' \in {"metrics", "waiting", "killing", "done", "failed"},
         step' \in {"waiting", "killing"} => At <= Len(versions),
         step' = "done" => At > Len(versions),
         ChildInv'
  PROVE  ExecutionInv'
<1>1. ShardInv' /\ job' \in Jobs
  BY ShardsStay
<1>2. LineInv'
  BY DEF ExecutionInv, LineInv
<1>3. SummaryInv'
  <2>1. /\ summary \in Seq(Entries) /\ job \in Jobs /\ versions \in SetToSeqs(ToSet(job.metrics))
        /\ Len(summary) <= Len(versions)
        /\ \A k \in DOMAIN summary : summary[k].metric = versions[k]
    BY DEF ExecutionInv, SummaryInv
  <2>2. Entries' = Entries /\ At' = At
    BY DEF Entries, Results, At
  <2>3. Len(summary) \in Nat /\ Len(versions) \in Nat
    <3> HIDE DEF Entries
    <3> QED BY <2>1, VersionsAreMetrics
  <2>4. step' = "done" => Len(summary) = Len(versions)
    BY <2>1, <2>3 DEF At
  <2> QED BY <2>1, <2>2, <2>4 DEF SummaryInv
<1> QED BY <1>1, <1>2, <1>3 DEF ExecutionInv, Steps

LEMMA SpawnKeeps == ASSUME ExecutionInv, Spawn PROVE ExecutionInv'
<1>1. /\ step = "metrics" /\ step' = "waiting" /\ At <= Len(versions)
      /\ child' = [state |-> "running", answer |-> Failed]
      /\ UNCHANGED <<job, shards, lines, versions, summary>>
  BY DEF Spawn
<1>2. ChildInv'
  BY <1>1 DEF ChildInv, Results
<1> QED BY <1>1, <1>2, SandboxKeeps

LEMMA ChildEndsKeeps == ASSUME ExecutionInv, ChildEnds PROVE ExecutionInv'
<1>1. child.state = "running" /\ UNCHANGED <<job, step, shards, lines, versions, summary>>
  BY DEF ChildEnds
<1>2. step \in {"waiting", "killing"}
  BY <1>1 DEF ExecutionInv, ChildInv, NoChild
<1>3. PICK answer \in Results(versions[At]) : child' = [state |-> "ended", answer |-> answer]
  BY DEF ChildEnds, Results
<1>4. Results(versions[At])' = Results(versions[At])
  BY <1>1 DEF Results, At
<1>5. ChildInv'
  BY <1>1, <1>2, <1>3, <1>4 DEF ChildInv
<1>6. At <= Len(versions)
  BY <1>2 DEF ExecutionInv, SummaryInv
<1> QED BY <1>1, <1>2, <1>5, <1>6, SandboxKeeps

LEMMA TimeOutKeeps == ASSUME ExecutionInv, TimeOut PROVE ExecutionInv'
<1>1. step = "waiting" /\ step' = "killing" /\ UNCHANGED <<job, shards, lines, versions, summary, child>>
  BY DEF TimeOut
<1>2. ChildInv'
  BY <1>1 DEF ExecutionInv, ChildInv, Results, At
<1>3. At <= Len(versions)
  BY <1>1 DEF ExecutionInv, SummaryInv
<1> QED BY <1>1, <1>2, <1>3, SandboxKeeps

LEMMA StoreKeeps == ASSUME ExecutionInv, Store PROVE ExecutionInv'
<1>1. /\ step = "metrics" /\ step' \in {"done", "failed"} /\ At > Len(versions)
      /\ UNCHANGED <<job, shards, lines, versions, summary, child>>
  BY DEF Store
<1>2. ChildInv'
  BY <1>1 DEF ExecutionInv, ChildInv
<1> QED BY <1>1, <1>2, SandboxKeeps

\* The next entry is the metric's own.
LEMMA EntryKeeps ==
  ASSUME ExecutionInv, step \in {"waiting", "killing"}, step' = "metrics", child' = NoChild,
         NEW result \in Results(versions[At]), Enter(result),
         UNCHANGED <<job, shards, lines, versions>>
  PROVE  ExecutionInv'
<1> DEFINE entry == [metric |-> versions[At], result |-> result]
<1>1. ShardInv' /\ job' \in Jobs
  BY ShardsStay
<1>2. LineInv' /\ ChildInv'
  BY DEF ExecutionInv, LineInv, ChildInv
<1>3. /\ summary \in Seq(Entries) /\ At \in 1 .. Len(versions) /\ Len(summary) \in Nat
      /\ versions[At] \in ToSet(job.metrics) /\ Len(versions) \in Nat
      /\ versions \in SetToSeqs(ToSet(job.metrics))
      /\ \A k \in DOMAIN summary : summary[k].metric = versions[k]
  BY MetricIsNamed DEF ExecutionInv, SummaryInv
<1>4. entry \in Entries /\ entry.metric = versions[At]
  BY <1>3 DEF Entries
<1>5. summary' = Append(summary, entry)
  BY DEF Enter
<1>6. Entries' = Entries
  BY DEF Entries, Results
<1> HIDE DEF entry, Entries
<1>7. /\ summary' \in Seq(Entries) /\ Len(summary') = At /\ DOMAIN summary' = 1 .. At
      /\ summary'[At] = entry
      /\ \A k \in DOMAIN summary : summary'[k] = summary[k]
      /\ DOMAIN summary = 1 .. At - 1
  BY <1>3, <1>4, <1>5 DEF At
<1>8. ASSUME NEW k \in DOMAIN summary' PROVE summary'[k].metric = versions[k]
  <2>1. At \in Nat
    BY <1>3
  <2>2. CASE k = At
    BY <2>2, <1>4, <1>7
  <2>3. CASE k # At
    BY <2>1, <2>3, <1>3, <1>7
  <2> QED BY <2>2, <2>3
<1>9. SummaryInv'
  BY <1>3, <1>6, <1>7, <1>8 DEF SummaryInv
<1> QED BY <1>1, <1>2, <1>9 DEF ExecutionInv, Steps

LEMMA CollectKeeps == ASSUME ExecutionInv, Collect PROVE ExecutionInv'
<1>1. /\ step = "waiting" /\ step' = "metrics" /\ child' = NoChild
      /\ Enter(child.answer) /\ UNCHANGED <<job, shards, lines, versions>>
  BY DEF Collect
<1>2. child.answer \in Results(versions[At])
  BY <1>1 DEF ExecutionInv, ChildInv
<1> QED BY <1>1, <1>2, EntryKeeps

LEMMA KillKeeps == ASSUME ExecutionInv, Kill PROVE ExecutionInv'
<1>1. /\ step = "killing" /\ step' = "metrics" /\ child' = NoChild
      /\ Enter(Failed) /\ UNCHANGED <<job, shards, lines, versions>>
  BY DEF Kill
<1>2. Failed \in Results(versions[At])
  BY DEF Results
<1> QED BY <1>1, <1>2, EntryKeeps

LEMMA ExecutionStep == ASSUME ExecutionInv, [Next]_vars PROVE ExecutionInv'
<1>1. CASE UNCHANGED vars
  <2>1. UNCHANGED <<job, step, shards, lines, versions, summary, child>>
    BY <1>1 DEF vars
  <2>2. ShardInv'
    <3>1. ASSUME NEW size \in Nat \ {0}, CutInto(size) PROVE CutInto(size)'
      BY <2>1, <3>1 DEF CutInto
    <3> QED BY <2>1, <3>1 DEF ExecutionInv, ShardInv
  <2> QED BY <2>1, <2>2 DEF ExecutionInv, LineInv, SummaryInv, ChildInv, Entries, Results, At
<1>2. CASE Worker
  BY <1>2, DispatchKeeps, GatherKeeps, QueryKeeps, SpawnKeeps, CollectKeeps, TimeOutKeeps, KillKeeps,
     StoreKeeps DEF Worker
<1>3. CASE ChildEnds
  BY <1>3, ChildEndsKeeps
<1>4. CASE \E k \in DOMAIN shards : ShardEnds(k)
  BY <1>4, ShardEndsKeeps
<1> QED BY <1>1, <1>2, <1>3, <1>4 DEF Next

LEMMA ExecutionHolds == Spec => []ExecutionInv
BY ExecutionStarts, ExecutionStep, PTL DEF Spec

----------------------------------------------------------------------------
(* The refinement.                                                         *)

LEMMA StartsExecuting == ASSUME Init PROVE Contract!Init
BY DEF Init, Contract!Init

LEMMA EntryIsEvaluate ==
  ASSUME ExecutionInv, step \in {"waiting", "killing"}, step' = "metrics",
         NEW result \in Results(versions[At]), Enter(result), UNCHANGED <<job, lines>>
  PROVE  Contract!Evaluate
<1>1. Len(lines) = Len(job.examples)
  <2>1. lines = [i \in DOMAIN job.examples |-> Predicted(job.examples[i])]
    BY DEF ExecutionInv, LineInv, Predictions
  <2>2. DOMAIN job.examples = 1 .. Len(job.examples) /\ Len(job.examples) \in Nat
    BY JobIsTyped DEF ExecutionInv
  <2> QED BY <2>1, <2>2
<1>2. /\ summary \in Seq(Entries) /\ job \in Jobs /\ versions \in SetToSeqs(ToSet(job.metrics))
      /\ \A k \in DOMAIN summary : summary[k].metric = versions[k]
      /\ At \in 1 .. Len(versions) /\ versions[At] \in ToSet(job.metrics)
      /\ Len(summary) \in Nat /\ Len(versions) \in Nat
  BY MetricIsNamed DEF ExecutionInv, SummaryInv
<1>3. versions[At] \notin Contract!Named
  <2>1. SUFFICES ASSUME NEW k \in DOMAIN summary, summary[k].metric = versions[At] PROVE FALSE
    BY DEF Contract!Named
  <2> HIDE DEF Entries
  <2>2. k \in 1 .. Len(summary)
    BY <1>2
  <2>3. k \in 1 .. Len(versions) /\ k # At
    BY <1>2, <2>2 DEF At
  <2>4. versions[k] = versions[At]
    BY <1>2, <2>1
  <2> QED BY <1>2, <2>3, <2>4, VersionsAreMetrics
<1>4. versions[At] \in Contract!AskedFor
  BY <1>2 DEF ToSet, Contract!AskedFor
<1>5. /\ result \in {Failed, Value(versions[At], lines, job.examples)}
      /\ summary' = Append(summary, [metric |-> versions[At], result |-> result])
  BY DEF Results, Enter
<1> QED BY <1>1, <1>3, <1>4, <1>5 DEF Contract!Evaluate

\* When there are as many entries as the query returned metrics, each metric
\* of the run has one.
LEMMA AllAreNamed ==
  ASSUME ExecutionInv, step = "metrics", At > Len(versions)
  PROVE  Contract!Named = Contract!AskedFor
<1>1. /\ summary \in Seq(Entries) /\ job \in Jobs /\ versions \in SetToSeqs(ToSet(job.metrics))
      /\ \A k \in DOMAIN summary : summary[k].metric = versions[k]
      /\ Len(summary) <= Len(versions)
  BY DEF ExecutionInv, SummaryInv
<1>2. /\ Len(versions) \in Nat
      /\ \A i \in 1 .. Len(versions) : versions[i] \in ToSet(job.metrics)
      /\ \A x \in ToSet(job.metrics) : \E i \in 1 .. Len(versions) : versions[i] = x
  BY <1>1, VersionsAreMetrics
<1> HIDE DEF Entries
<1>3. Len(summary) \in Nat /\ DOMAIN summary = 1 .. Len(summary)
  BY <1>1
<1>4. DOMAIN summary = 1 .. Len(versions)
  BY <1>1, <1>2, <1>3 DEF At
<1>5. Contract!Named = {versions[k] : k \in 1 .. Len(versions)}
  <2>1. \A k \in 1 .. Len(versions) : summary[k].metric = versions[k]
    BY <1>1, <1>4
  <2>2. Contract!Named = {summary[k].metric : k \in 1 .. Len(versions)}
    BY <1>4 DEF Contract!Named
  <2> QED BY <2>1, <2>2
<1>6. {versions[k] : k \in 1 .. Len(versions)} = ToSet(job.metrics)
  BY <1>2
<1> QED BY <1>5, <1>6 DEF ToSet, Contract!AskedFor

\* Each step of the execution is one of the contract, or is not seen by it.
LEMMA StepMaps == ASSUME ExecutionInv, [Next]_vars PROVE [Contract!Next]_(Contract!vars)
<1>1. CASE UNCHANGED vars
  BY <1>1 DEF vars, Contract!vars
<1>2. CASE Dispatch
  BY <1>2 DEF Dispatch, Contract!vars
<1>3. CASE Gather
  <2>1. step = "inference" /\ lines = << >> /\ UNCHANGED <<job, summary>>
    BY <1>3 DEF Gather, ExecutionInv, LineInv
  <2>2. CASE step' = "query" /\ lines' = Predictions(job.examples)
    BY <2>1, <2>2 DEF Contract!Next, Contract!Infer
  <2>3. CASE step' = "failed" /\ lines' = lines
    BY <2>1, <2>3 DEF Contract!Next, Contract!Abort
  <2> QED BY <1>3, <2>1, <2>2, <2>3, GatheredInOrder DEF Gather
<1>4. CASE Spawn
  BY <1>4 DEF Spawn, Contract!vars
<1>5. CASE Collect
  <2>1. /\ step = "waiting" /\ step' = "metrics" /\ Enter(child.answer) /\ UNCHANGED <<job, lines>>
    BY <1>5 DEF Collect
  <2>2. child.answer \in Results(versions[At])
    BY <2>1 DEF ExecutionInv, ChildInv
  <2> QED BY <2>1, <2>2, EntryIsEvaluate DEF Contract!Next
<1>6. CASE TimeOut
  BY <1>6 DEF TimeOut, Contract!vars
<1>7. CASE Kill
  <2>1. /\ step = "killing" /\ step' = "metrics" /\ Enter(Failed) /\ UNCHANGED <<job, lines>>
    BY <1>7 DEF Kill
  <2>2. Failed \in Results(versions[At])
    BY DEF Results
  <2> QED BY <2>1, <2>2, EntryIsEvaluate DEF Contract!Next
<1>8. CASE Store
  <2>1. /\ step = "metrics" /\ step' \in {"done", "failed"} /\ At > Len(versions)
        /\ UNCHANGED <<job, lines, summary>>
    BY <1>8 DEF Store
  <2>2. Contract!Named = Contract!AskedFor
    BY <2>1, AllAreNamed
  <2> QED BY <2>1, <2>2 DEF Contract!Next, Contract!Finish, Contract!Abort
<1>9. CASE ChildEnds
  BY <1>9 DEF ChildEnds, Contract!vars
<1>10. CASE \E k \in DOMAIN shards : ShardEnds(k)
  BY <1>10 DEF ShardEnds, Contract!vars
<1>11. CASE Query
  <2>1. step = "query" /\ UNCHANGED <<job, lines, summary>>
    BY <1>11 DEF Query
  <2>2. CASE step' = "metrics"
    BY <2>1, <2>2 DEF Contract!vars
  <2>3. CASE step' = "failed"
    BY <2>1, <2>3 DEF Contract!Next, Contract!Abort
  <2> QED BY <1>11, <2>2, <2>3 DEF Query
<1> QED BY <1>1, <1>2, <1>3, <1>4, <1>5, <1>6, <1>7, <1>8, <1>9, <1>10, <1>11 DEF Next, Worker

\* Whatever the dataset, the shards, the metrics and the way children end, the
\* execution of a run implements its contract: one prediction per example in
\* the dataset's order, and one entry for each metric that the run names, in
\* whatever order and however often it names them, its own value or its own
\* error (ray_runner.py: shard_inference; sandbox.py; metric_pool.py:59-82).
THEOREM ExecutionImplemented == Spec => ImplementsExecution
<1>1. Init => Contract!Init
  BY StartsExecuting
<1>2. ExecutionInv /\ [Next]_vars => [Contract!Next]_(Contract!vars)
  BY StepMaps
<1> QED BY <1>1, <1>2, ExecutionHolds, PTL DEF Spec, ImplementsExecution, Contract!Spec

----------------------------------------------------------------------------
(* The values of the metrics.                                              *)

\* An entry without an error is what its metric gives for the predictions of
\* the dataset.
LEMMA EntriesAreValues ==
  ASSUME ExecutionInv, NEW k \in DOMAIN summary
  PROVE  /\ summary[k].metric \in ToSet(job.metrics)
         /\ summary[k].result # Failed =>
              summary[k].result = Value(summary[k].metric, lines, job.examples)
<1>1. summary \in Seq(Entries)
  BY DEF ExecutionInv, SummaryInv
<1> HIDE DEF Entries
<1>2. summary[k] \in Entries
  BY <1>1
<1>3. PICK metric \in ToSet(job.metrics) : summary[k] \in [metric : {metric}, result : Results(metric)]
  BY <1>2 DEF Entries
<1> QED BY <1>3 DEF Results

\* Once there is an entry, what is scored are the predictions of the dataset
\* and its references, one of each per example.
LEMMA ScoredLines ==
  ASSUME ExecutionInv, NEW k \in DOMAIN summary
  PROVE  /\ lines = Predictions(job.examples) /\ Len(job.examples) \in Nat
         /\ Listed(Preds, Len(job.examples)) /\ Listed(Refs, Len(job.examples))
         /\ Len(Refs) = Len(job.examples) /\ Len(Preds) = Len(job.examples)
<1>1. summary # << >> /\ job \in Jobs
  BY DEF ExecutionInv
<1>2. lines = Predictions(job.examples)
  BY <1>1 DEF ExecutionInv, LineInv
<1>3. PICK n : n = Len(job.examples)
  OBVIOUS
<1>4. n \in Nat /\ DOMAIN job.examples = 1 .. n
  BY <1>1, <1>3, JobIsTyped
<1>5. DOMAIN Preds = 1 .. n /\ DOMAIN Refs = 1 .. n
  BY <1>2, <1>4 DEF Preds, Refs, Predictions, References
<1>6. Preds = [i \in 1 .. n |-> Preds[i]] /\ Refs = [i \in 1 .. n |-> Refs[i]]
  BY <1>2, <1>4 DEF Preds, Refs, Predictions, References
<1>7. Len(Preds) = n /\ Len(Refs) = n
  BY <1>4, <1>6
<1> QED BY <1>2, <1>3, <1>4, <1>5, <1>7 DEF Listed

\* Pooled precision, recall and F1 and the weighted recall are the accuracy,
\* whatever the labels, the classes and their number: a wrong label is one
\* class's false positive and another's false negative (classic.py:
\* _confusion, _prf).
THEOREM MicroIsAlwaysAccuracy == Spec => []MicroIsAccuracy
<1>1. ASSUME ExecutionInv, IsScored("f1_micro"),
             NEW value \in {F1Micro(Preds, Refs).aggregate, PrecisionMicro(Preds, Refs).aggregate,
                            RecallMicro(Preds, Refs).aggregate, Weighted("recall", Preds, Refs)}
      PROVE  Same(value, Accuracy(Preds, Refs).aggregate)
  <2>1. PICK n \in Nat : Listed(Preds, n) /\ Listed(Refs, n) /\ Len(Refs) = n
    BY <1>1, ScoredLines DEF IsScored
  <2> QED BY <2>1, MicroAccuracy
<1>2. ExecutionInv => MicroIsAccuracy
  BY <1>1 DEF MicroIsAccuracy
<1> QED BY <1>2, ExecutionHolds, PTL

\* The AUC counts the pairs of a positive and a negative example that the
\* scores put in order, ties being half, for datasets of any size and any
\* scores: an averaged rank counts whom it is above, and the least sum of
\* ranks is taken off (probability.py: auc_roc).
THEOREM AucAlwaysCountsPairs == Spec => []AucCountsPairs
<1>1. ASSUME ExecutionInv, NEW k \in DOMAIN summary, summary[k].metric = "auc_roc",
             summary[k].result # Failed, AreProbabilities
      PROVE  LET pos == {i \in DOMAIN Refs : Refs[i] = 1}
                 neg == {i \in DOMAIN Refs : Refs[i] = 0}
                 pairs == pos \X neg
                 auc == summary[k].result.aggregate
             IN IF pairs = {} THEN auc = "nan"
                ELSE Same(auc, <<Cardinality({c \in pairs : Preds[c[1]] > Preds[c[2]]})
                                   + Cardinality({c \in pairs : Preds[c[1]] >= Preds[c[2]]}),
                                 2 * Cardinality(pairs)>>)
  <2>1. PICK n \in Nat : Listed(Preds, n) /\ Listed(Refs, n)
    BY <1>1, ScoredLines
  <2>2. summary[k].result = AucRoc(Preds, Refs)
    BY <1>1, EntriesAreValues DEF Value, Preds, Refs
  <2>3. \A i \in 1 .. n : Preds[i] \in Int /\ Refs[i] \in {0, 1}
    BY <1>1, <2>1, ExecutionAssumption DEF AreProbabilities, Listed
  <2> DEFINE pos == {i \in DOMAIN Refs : Refs[i] = 1}
             neg == {i \in DOMAIN Refs : Refs[i] = 0}
             pairs == pos \X neg
             inOrder == Cardinality({c \in pairs : Preds[c[1]] > Preds[c[2]]})
                          + Cardinality({c \in pairs : Preds[c[1]] >= Preds[c[2]]})
  <2>4. summary[k].result.aggregate = IF pairs = {} THEN "nan" ELSE <<inOrder, 2 * Cardinality(pairs)>>
    BY <2>1, <2>2, <2>3, AucCounts
  <2> HIDE DEF inOrder, pairs
  <2>5. IF pairs = {} THEN summary[k].result.aggregate = "nan"
        ELSE Same(summary[k].result.aggregate, <<inOrder, 2 * Cardinality(pairs)>>)
    BY <2>4 DEF Same
  <2> QED BY <2>5 DEF inOrder, pairs
<1>2. ExecutionInv => AucCountsPairs
  BY <1>1 DEF AucCountsPairs
<1> QED BY <1>2, ExecutionHolds, PTL

\* The calibration error leaves no prediction out, for any number of bins and
\* any scale of the scores: a score is in a bin just when the division puts
\* it there, 1.0 being put in the last (probability.py:77).
THEOREM ErrorAlwaysCountsAll == Spec => []ErrorCountsAll
<1>1. ASSUME ExecutionInv, NEW k \in DOMAIN summary, summary[k].metric = "ece",
             summary[k].result # Failed, AreProbabilities
      PROVE  Same(summary[k].result.aggregate,
                  Ratio(PartSum(Preds, Refs, 0 .. Bins - 1), Scale * Len(Preds)))
  <2>1. PICK n \in Nat : Listed(Preds, n) /\ Listed(Refs, n)
    BY <1>1, ScoredLines
  <2>2. summary[k].result = Ece(Preds, Refs, Bins, Scale)
    BY <1>1, EntriesAreValues DEF Value, Preds, Refs
  <2>3. \A i \in 1 .. n : Preds[i] \in 0 .. Scale /\ Refs[i] \in {0, 1}
    BY <1>1, <2>1 DEF AreProbabilities, Listed
  <2>4. summary[k].result.aggregate = Ratio(PartSum(Preds, Refs, 0 .. Bins - 1), Scale * Len(Preds))
    BY <2>1, <2>2, <2>3, EceCounts
  <2> QED BY <2>4 DEF Same
<1>2. ExecutionInv => ErrorCountsAll
  BY <1>1 DEF ErrorCountsAll, PartSum, AbsGap, GapSum, Part
<1> QED BY <1>2, ExecutionHolds, PTL

\* The tables of the error rates and of ROUGE-L find the best of all
\* alignments, for texts of any length up to the bound of the statement: the
\* row overwritten in place is, cell by cell, the distance of the prefixes
\* (speech.py: _edit_distance; text.py: _lcs_length).
THEOREM AlignmentsAlwaysOptimal == Spec => []AlignmentsAreOptimal
<1>1. ASSUME ExecutionInv, OnTexts, NEW i \in DOMAIN Preds,
             Len(Refs[i]) <= MaxText, Len(Preds[i]) <= MaxText
      PROVE  /\ EditDistance(Refs[i], Preds[i])
                  = Min({Len(Refs[i]) + Len(Preds[i]) - Cardinality(S) - Matches(S, Refs[i], Preds[i]) :
                           S \in Alignments[<<Len(Refs[i]), Len(Preds[i])>>]})
             /\ LcsLength(Refs[i], Preds[i])
                  = Max({Matches(S, Refs[i], Preds[i]) :
                           S \in Alignments[<<Len(Refs[i]), Len(Preds[i])>>]})
  <2>1. PICK metric \in Texts, k \in DOMAIN summary : summary[k].metric = metric
    BY <1>1 DEF OnTexts, IsScored
  <2>2. job \in Jobs /\ ToSet(job.metrics) \cap Texts # {}
    BY <1>1, <2>1, EntriesAreValues DEF ExecutionInv
  <2>3. lines = Predictions(job.examples) /\ DOMAIN Preds = DOMAIN job.examples
    BY <1>1, ScoredLines DEF Preds, Predictions
  <2>4. PICK ex : ex = job.examples[i]
    OBVIOUS
  <2>5. ex \in ToSet(job.examples) /\ Refs[i] = ex.reference /\ Preds[i] = Predicted(ex)
    BY <1>1, <2>3, <2>4 DEF ToSet, Refs, Preds, References, Predictions
  <2>6. PICK a, b : a = Refs[i] /\ b = Preds[i]
    OBVIOUS
  <2>7. a \in Seq(ToSet(a)) /\ b \in Seq(ToSet(b))
    BY <2>2, <2>5, <2>6, TextsAreSequences
  <2>8. /\ Len(a) \in Nat /\ Len(b) \in Nat
        /\ a = << >> <=> Len(a) = 0
        /\ b = << >> <=> Len(b) = 0
    BY <2>7, EmptySeq
  <2>9. Alignments[<<Len(a), Len(b)>>] = Aligned(Len(a), Len(b))
    BY <1>1, <2>6, <2>8, TextsAreSequences DEF Alignments, Aligned
  <2>10. EditDistance(a, b) = Distance(Len(a), Len(b), a, b)
    BY <2>8, EditIsDistance
  <2>11. LcsLength(a, b) = Best(0, Len(a), Len(b), a, b)
    BY <2>8, LcsIsBest
  <2>12. /\ Min({Len(a) + Len(b) - Cardinality(S) - Matches(S, a, b) : S \in Aligned(Len(a), Len(b))})
              = Distance(Len(a), Len(b), a, b)
         /\ Max({Matches(S, a, b) : S \in Aligned(Len(a), Len(b))}) = Best(0, Len(a), Len(b), a, b)
    <3>1. PICK m, n : m = Len(a) /\ n = Len(b)
      OBVIOUS
    <3>2. m \in Nat /\ n \in Nat
      BY <2>8, <3>1
    <3>3. /\ Min({m + n - Cardinality(S) - Matches(S, a, b) : S \in Aligned(m, n)}) = Distance(m, n, a, b)
          /\ Max({Matches(S, a, b) : S \in Aligned(m, n)}) = Best(0, m, n, a, b)
      BY <3>2, BestAlignments
    <3> QED BY <3>1, <3>3
  <2> QED BY <2>6, <2>9, <2>10, <2>11, <2>12
<1>2. ExecutionInv => AlignmentsAreOptimal
  BY <1>1, Zenon DEF AlignmentsAreOptimal
<1> QED BY <1>2, ExecutionHolds, PTL
=============================================================================
