----------------------------- MODULE KernelProofs -----------------------------
(***************************************************************************)
(* What the kernels of MetricKernels compute, for lists of any length.     *)
(* The tables and sums in them are recursive functions: that such a        *)
(* function exists, and is the only one, is proved by the least argument   *)
(* at which it would not be so.                                            *)
(***************************************************************************)
EXTENDS ExecutionProperties, WellFoundedInduction, FiniteSetTheorems, SequenceTheorems, TLAPS

----------------------------------------------------------------------------
(* Numbers.                                                                *)

LEMMA Least ==
  ASSUME NEW T, T \subseteq Nat, T # {}
  PROVE  \E m \in T : \A n \in T : m <= n
<1> DEFINE Smaller == {ss \in Nat \X Nat : ss[1] < ss[2]}
<1>1. IsWellFoundedOn(Smaller, Nat)
  BY NatLessThanWellFounded DEF OpToRel
<1> HIDE DEF Smaller
<1>2. PICK m \in T : \A n \in T : ~ (<<n, m>> \in Smaller)
  BY <1>1, WFMin
<1>3. \A n \in T : ~ (n < m)
  BY <1>2 DEF Smaller
<1> QED BY <1>3

LEMMA Greatest ==
  ASSUME NEW n \in Nat, NEW T \in SUBSET (0 .. n), T # {}
  PROVE  Max(T) \in T /\ \A x \in T : x <= Max(T)
<1> DEFINE U == {n - x : x \in T}
<1>0. U \subseteq Nat /\ U # {}
  <2>1. PICK x : x \in T
    OBVIOUS
  <2>2. n - x \in U
    BY <2>1
  <2> QED BY <2>2
<1>1. PICK m \in U : \A u \in U : m <= u
  BY <1>0, Least
<1>2. PICK x \in T : m = n - x
  OBVIOUS
<1>4. ASSUME NEW y \in T PROVE x >= y
  <2>1. m <= n - y
    BY <1>1
  <2> QED BY <1>2, <2>1
<1>3. \E z \in T : \A y \in T : z >= y
  BY <1>4
<1> HIDE DEF U
<1>5. Max(T) \in T /\ \A y \in T : Max(T) >= y
  BY <1>3 DEF Max
<1> QED BY <1>5

LEMMA TimesGrows ==
  ASSUME NEW a \in Nat, NEW b \in Nat, NEW size \in Nat, a <= b
  PROVE  a * size <= b * size /\ a * size \in Nat /\ b * size \in Nat
<1>1. PICK c \in Nat : b = a + c
  BY b - a \in Nat, b = a + (b - a)
<1>2. b * size = a * size + c * size
  BY <1>1
<1>3. a * size \in Nat /\ c * size \in Nat
  OBVIOUS
<1> QED BY <1>2, <1>3

LEMMA SmallerOfTwo ==
  ASSUME NEW a \in Int, NEW b \in Int
  PROVE  /\ Min({a, b}) = IF a <= b THEN a ELSE b
         /\ Max({a, b}) = IF a <= b THEN b ELSE a
<1>1. \A x \in {a, b} : (\A y \in {a, b} : x =< y) => x = IF a <= b THEN a ELSE b
  OBVIOUS
<1>2. \E x \in {a, b} : \A y \in {a, b} : x =< y
  OBVIOUS
<1>3. \A x \in {a, b} : (\A y \in {a, b} : x >= y) => x = IF a <= b THEN b ELSE a
  OBVIOUS
<1>4. \E x \in {a, b} : \A y \in {a, b} : x >= y
  OBVIOUS
<1> QED BY <1>1, <1>2, <1>3, <1>4 DEF Min, Max

LEMMA SmallestOfThree ==
  ASSUME NEW x \in Int, NEW y \in Int, NEW z \in Int, NEW v \in {x, y, z}, v <= x, v <= y, v <= z
  PROVE  Min({x, y, z}) = v
<1>1. \A u \in {x, y, z} : (\A t \in {x, y, z} : u =< t) => u = v
  OBVIOUS
<1>2. \A t \in {x, y, z} : v =< t
  OBVIOUS
<1> QED BY <1>1, <1>2 DEF Min

----------------------------------------------------------------------------
(* Folds over finite sets, the element to take being a function of the set *)
(* and the operation a function of pairs.                                  *)

\* f folds every set in R, a set of sets.
Folding(f, R, pick, op, base) ==
  f = [T \in R |-> IF T = {} THEN base ELSE op[<<pick[T], f[T \ {pick[T]}]>>]]
UpTo(S, n) == {T \in SUBSET S : Cardinality(T) <= n}

\* A set is folded from what is left without the element taken.
LEMMA FoldStep ==
  ASSUME NEW S, IsFiniteSet(S), NEW n \in Nat, NEW T \in UpTo(S, n), NEW x \in T
  PROVE  /\ T \ {x} \in UpTo(S, n) /\ Cardinality(T \ {x}) = Cardinality(T) - 1
         /\ Cardinality(T) \in Nat /\ n # 0 /\ T \ {x} \in UpTo(S, n - 1)
<1>1. T \subseteq S /\ Cardinality(T) <= n
  BY DEF UpTo
<1>2. IsFiniteSet(T) /\ Cardinality(T) \in Nat
  BY <1>1, FS_Subset, FS_CardinalityType
<1>3. Cardinality(T \ {x}) = Cardinality(T) - 1 /\ IsFiniteSet(T \ {x})
  BY <1>2, FS_RemoveElement
<1>4. Cardinality(T \ {x}) \in Nat
  BY <1>3, FS_CardinalityType
<1> QED BY <1>1, <1>2, <1>3, <1>4 DEF UpTo

LEMMA FoldExists ==
  ASSUME NEW S, IsFiniteSet(S), NEW V, NEW base \in V, NEW op \in [S \X V -> V],
         NEW pick, \A T \in SUBSET S : T # {} => pick[T] \in T
  PROVE  \E f \in [SUBSET S -> V] : Folding(f, SUBSET S, pick, op, base)
<1> DEFINE Fine(n) == \E f \in [UpTo(S, n) -> V] : Folding(f, UpTo(S, n), pick, op, base)
           Wrong == {n \in Nat : ~ Fine(n)}
<1>1. ASSUME NEW m \in Nat, m = 0 \/ Fine(m - 1) PROVE Fine(m)
  <2>1. \E f : m # 0 => f \in [UpTo(S, m - 1) -> V] /\ Folding(f, UpTo(S, m - 1), pick, op, base)
    BY <1>1
  <2>2. PICK f : m # 0 => f \in [UpTo(S, m - 1) -> V] /\ Folding(f, UpTo(S, m - 1), pick, op, base)
    BY <2>1
  <2> DEFINE g == [T \in UpTo(S, m) |-> IF T = {} THEN base ELSE op[<<pick[T], f[T \ {pick[T]}]>>]]
  <2>3. ASSUME NEW T \in UpTo(S, m), T # {}
        PROVE  /\ m # 0 /\ pick[T] \in T /\ pick[T] \in S
               /\ T \ {pick[T]} \in UpTo(S, m) /\ T \ {pick[T]} \in UpTo(S, m - 1)
    <3>1. T \in SUBSET S
      BY DEF UpTo
    <3>2. PICK x \in T : x = pick[T]
      BY <2>3, <3>1
    <3> QED BY <3>1, <3>2, FoldStep
  <2>4. ASSUME NEW T \in UpTo(S, m), m # 0, T \in UpTo(S, m - 1) PROVE g[T] = f[T]
    BY <2>2, <2>4 DEF Folding
  <2>5. ASSUME NEW T \in UpTo(S, m)
        PROVE  g[T] = IF T = {} THEN base ELSE op[<<pick[T], g[T \ {pick[T]}]>>]
    BY <2>3, <2>4
  <2>6. ASSUME NEW T \in UpTo(S, m) PROVE g[T] \in V
    <3>1. CASE T = {}
      BY <3>1
    <3>2. CASE T # {}
      <4>1. f[T \ {pick[T]}] \in V
        BY <2>2, <2>3, <3>2
      <4> QED BY <2>3, <3>2, <4>1
    <3> QED BY <3>1, <3>2
  <2>7. Folding(g, UpTo(S, m), pick, op, base)
    <3>1. g = [T \in UpTo(S, m) |-> g[T]]
      OBVIOUS
    <3> HIDE DEF g
    <3> QED BY <2>5, <3>1 DEF Folding
  <2>8. g \in [UpTo(S, m) -> V]
    BY <2>6
  <2> HIDE DEF g
  <2> QED BY <2>7, <2>8
<1>2. Wrong = {}
  <2>1. SUFFICES ASSUME Wrong # {} PROVE FALSE
    OBVIOUS
  <2> HIDE DEF Fine
  <2>2. PICK m \in Wrong : \A n \in Wrong : m <= n
    BY <2>1, Least, Wrong \subseteq Nat
  <2>3. m \in Nat /\ ~ Fine(m)
    BY <2>2
  <2>4. m = 0 \/ Fine(m - 1)
    BY <2>2, <2>3
  <2> QED BY <1>1, <2>3, <2>4
<1>3. Cardinality(S) \in Nat
  BY FS_CardinalityType
<1>4. UpTo(S, Cardinality(S)) = SUBSET S
  BY FS_Subset DEF UpTo
<1>5. Fine(Cardinality(S))
  <2> HIDE DEF Fine
  <2> QED BY <1>2, <1>3
<1> QED BY <1>4, <1>5

\* The smallest set on which two folds differ has an element to take.
LEMMA OneFold ==
  ASSUME NEW S, IsFiniteSet(S), NEW base, NEW op, NEW pick,
         \A T \in SUBSET S : T # {} => pick[T] \in T,
         NEW f, NEW g, Folding(f, SUBSET S, pick, op, base), Folding(g, SUBSET S, pick, op, base)
  PROVE  f = g
<1> DEFINE Wrong == {T \in SUBSET S : f[T] # g[T]}
           Sizes == {Cardinality(T) : T \in Wrong}
<1>0. f = [T \in SUBSET S |-> f[T]] /\ g = [T \in SUBSET S |-> g[T]]
  BY DEF Folding
<1>1. SUFFICES ASSUME Wrong # {} PROVE FALSE
  BY <1>0, Zenon
<1>2. \A T \in SUBSET S : IsFiniteSet(T) /\ Cardinality(T) \in Nat
  BY FS_Subset, FS_CardinalityType
<1>3. PICK T \in Wrong : \A U \in Wrong : Cardinality(T) <= Cardinality(U)
  <2>1. Sizes \subseteq Nat /\ Sizes # {}
    BY <1>1, <1>2
  <2>2. PICK m \in Sizes : \A n \in Sizes : m <= n
    BY <2>1, Least
  <2> QED BY <2>2
<1>4. T \in SUBSET S /\ f[T] # g[T]
  BY <1>3
<1>5. CASE T = {}
  BY <1>4, <1>5 DEF Folding
<1>6. CASE T # {}
  <2>1. PICK x \in T : x = pick[T]
    BY <1>4, <1>6
  <2>2. Cardinality(T \ {x}) = Cardinality(T) - 1 /\ T \ {x} \in SUBSET S
    BY <1>2, <1>4, FS_RemoveElement
  <2>3. T \ {x} \notin Wrong
    BY <1>2, <1>3, <1>4, <2>2
  <2>4. f[T \ {x}] = g[T \ {x}]
    BY <2>2, <2>3
  <2>5. f[T] = op[<<x, f[T \ {x}]>>] /\ g[T] = op[<<x, g[T \ {x}]>>]
    BY <1>4, <1>6, <2>1 DEF Folding
  <2> QED BY <1>4, <2>4, <2>5
<1> QED BY <1>5, <1>6

----------------------------------------------------------------------------
(* Sums.                                                                   *)

\* The recursion of MapThenSumSet over the sets of S.
Sums(f, F, S) ==
  f = [T \in SUBSET S |-> IF T = {} THEN 0
                          ELSE F[CHOOSE x \in T : TRUE] + f[T \ {CHOOSE x \in T : TRUE}]]

LEMMA SumIsFold ==
  ASSUME NEW S, NEW F, NEW V, NEW f \in [SUBSET S -> V]
  PROVE  Sums(f, F, S) <=>
           Folding(f, SUBSET S, [T \in SUBSET S |-> CHOOSE x \in T : TRUE],
                   [a \in S \X V |-> F[a[1]] + a[2]], 0)
<1> DEFINE pick == [T \in SUBSET S |-> CHOOSE x \in T : TRUE]
           op == [a \in S \X V |-> F[a[1]] + a[2]]
<1>1. ASSUME NEW T \in SUBSET S, T # {}
      PROVE  op[<<pick[T], f[T \ {pick[T]}]>>]
               = F[CHOOSE x \in T : TRUE] + f[T \ {CHOOSE x \in T : TRUE}]
  <2>1. PICK x : x = CHOOSE y \in T : TRUE
    OBVIOUS
  <2>2. x \in S /\ pick[T] = x
    BY <1>1, <2>1
  <2>3. PICK v \in V : v = f[T \ {x}]
    OBVIOUS
  <2>4. op[<<x, v>>] = F[x] + v
    BY <2>2
  <2> HIDE DEF pick, op
  <2>5. F[CHOOSE y \in T : TRUE] + f[T \ {CHOOSE y \in T : TRUE}] = F[x] + f[T \ {x}]
    BY <2>1
  <2> QED BY <2>2, <2>3, <2>4, <2>5
<1> HIDE DEF pick, op
<1>2. [T \in SUBSET S |-> IF T = {} THEN 0 ELSE op[<<pick[T], f[T \ {pick[T]}]>>]]
        = [T \in SUBSET S |-> IF T = {} THEN 0
                              ELSE F[CHOOSE x \in T : TRUE] + f[T \ {CHOOSE x \in T : TRUE}]]
  BY <1>1
<1>3. Folding(f, SUBSET S, pick, op, 0) <=> Sums(f, F, S)
  BY <1>2, Zenon DEF Folding, Sums
<1> QED BY <1>3 DEF pick, op

LEMMA SumExists ==
  ASSUME NEW S, IsFiniteSet(S), NEW F \in [S -> Int]
  PROVE  \E f \in [SUBSET S -> Int] : Sums(f, F, S)
<1> DEFINE pick == [T \in SUBSET S |-> CHOOSE x \in T : TRUE]
           op == [a \in S \X Int |-> F[a[1]] + a[2]]
<1>1. \A T \in SUBSET S : T # {} => pick[T] \in T
  OBVIOUS
<1>2. op \in [S \X Int -> Int]
  OBVIOUS
<1> HIDE DEF pick, op
<1>3. \E f \in [SUBSET S -> Int] : Folding(f, SUBSET S, pick, op, 0)
  BY <1>1, <1>2, FoldExists, 0 \in Int
<1> QED BY <1>3, SumIsFold DEF pick, op

LEMMA OneSum ==
  ASSUME NEW S, IsFiniteSet(S), NEW F, NEW f, NEW g, Sums(f, F, S), Sums(g, F, S)
  PROVE  f = g
<1> DEFINE V == {f[T] : T \in SUBSET S} \cup {g[T] : T \in SUBSET S}
           pick == [T \in SUBSET S |-> CHOOSE x \in T : TRUE]
           op == [a \in S \X V |-> F[a[1]] + a[2]]
<1>1. \A T \in SUBSET S : T # {} => pick[T] \in T
  OBVIOUS
<1>2. DOMAIN f = SUBSET S /\ DOMAIN g = SUBSET S /\ f = [T \in SUBSET S |-> f[T]]
        /\ g = [T \in SUBSET S |-> g[T]]
  BY DEF Sums
<1>3. f \in [SUBSET S -> V] /\ g \in [SUBSET S -> V]
  BY <1>2
<1> HIDE DEF V
<1>4. Folding(f, SUBSET S, pick, op, 0) /\ Folding(g, SUBSET S, pick, op, 0)
  BY <1>3, SumIsFold
<1> HIDE DEF pick, op
<1> QED BY <1>1, <1>4, OneFold

\* A function that splits off any element is the sum.
LEMMA SumBySplits ==
  ASSUME NEW S, IsFiniteSet(S), NEW F \in [S -> Int], NEW g \in [SUBSET S -> Int], g[{}] = 0,
         \A T \in SUBSET S : \A x \in T : g[T] = F[x] + g[T \ {x}]
  PROVE  Sums(g, F, S)
<1>1. \A T \in SUBSET S : T # {} => (CHOOSE x \in T : TRUE) \in T
  OBVIOUS
<1>2. \A T \in SUBSET S : g[T] = IF T = {} THEN 0
                                 ELSE F[CHOOSE x \in T : TRUE] + g[T \ {CHOOSE x \in T : TRUE}]
  BY <1>1
<1>3. g = [T \in SUBSET S |-> g[T]]
  OBVIOUS
<1> QED BY <1>2, <1>3 DEF Sums

\* Counting by parts.
LEMMA CardSplits ==
  ASSUME NEW B, NEW C, IsFiniteSet(B \cup C), B \cap C = {}
  PROVE  /\ Cardinality(B \cup C) = Cardinality(B) + Cardinality(C)
         /\ Cardinality(B) \in Nat /\ Cardinality(C) \in Nat
<1>1. IsFiniteSet(B) /\ IsFiniteSet(C)
  BY FS_Subset, B \subseteq B \cup C, C \subseteq B \cup C
<1>2. Cardinality(B \cap C) = 0
  BY FS_EmptySet
<1>3. Cardinality(B \cup C) = Cardinality(B) + Cardinality(C) - Cardinality(B \cap C)
  BY <1>1, FS_Union
<1>4. Cardinality(B) \in Nat /\ Cardinality(C) \in Nat
  BY <1>1, FS_CardinalityType
<1> QED BY <1>2, <1>3, <1>4

\* What the classes have each, they have together.
LEMMA SumOfClasses ==
  ASSUME NEW S, IsFiniteSet(S), NEW D, IsFiniteSet(D), NEW K
  PROVE  Sums([T \in SUBSET S |-> Cardinality({i \in D : K[i] \in T})],
              [c \in S |-> Cardinality({i \in D : K[i] = c})], S)
<1> DEFINE F == [c \in S |-> Cardinality({i \in D : K[i] = c})]
           g == [T \in SUBSET S |-> Cardinality({i \in D : K[i] \in T})]
<1>1. \A E \in SUBSET D : IsFiniteSet(E) /\ Cardinality(E) \in Nat
  BY FS_Subset, FS_CardinalityType
<1>2. F \in [S -> Nat] /\ g \in [SUBSET S -> Nat]
  BY <1>1
<1>3. ASSUME NEW T \in SUBSET S, NEW x \in T PROVE g[T] = F[x] + g[T \ {x}]
  <2> DEFINE A == {i \in D : K[i] \in T}
             B == {i \in D : K[i] = x}
             C == {i \in D : K[i] \in T \ {x}}
  <2>1. A = B \cup C /\ B \cap C = {} /\ IsFiniteSet(A)
    BY <1>1
  <2>2. g[T] = Cardinality(A) /\ F[x] = Cardinality(B) /\ g[T \ {x}] = Cardinality(C)
    OBVIOUS
  <2> HIDE DEF A, B, C, F, g
  <2> QED BY <2>1, <2>2, CardSplits
<1>4. g[{}] = 0
  <2>1. {i \in D : K[i] \in {}} = {}
    OBVIOUS
  <2> QED BY <2>1, FS_EmptySet
<1>5. F \in [S -> Int] /\ g \in [SUBSET S -> Int]
  BY <1>2
<1> HIDE DEF F, g
<1>6. Sums(g, F, S)
  BY <1>3, <1>4, <1>5, SumBySplits
<1> QED BY <1>6 DEF F, g

----------------------------------------------------------------------------
(* Labels: pooled counts.                                                  *)

\* p is a list of n values, and how many of them agree with those of r.
Listed(p, n) == DOMAIN p = 1 .. n
Agreed(p, r, n) == Cardinality({i \in 1 .. n : p[i] = r[i]})

LEMMA AgreedCounts ==
  ASSUME NEW n \in Nat, NEW p, NEW r
  PROVE  /\ Agreed(p, r, n) \in 0 .. n
         /\ Cardinality({i \in 1 .. n : p[i] # r[i]}) = n - Agreed(p, r, n)
<1> DEFINE B == {i \in 1 .. n : p[i] = r[i]}
           C == {i \in 1 .. n : p[i] # r[i]}
<1>1. 1 .. n = B \cup C /\ B \cap C = {}
  OBVIOUS
<1>2. IsFiniteSet(1 .. n) /\ Cardinality(1 .. n) = n
  BY FS_Interval
<1> HIDE DEF B, C
<1>3. n = Cardinality(B) + Cardinality(C) /\ Cardinality(B) \in Nat /\ Cardinality(C) \in Nat
  BY <1>1, <1>2, CardSplits
<1> QED BY <1>3 DEF Agreed, B, C

LEMMA ClassesFinite ==
  ASSUME NEW n \in Nat, NEW p, Listed(p, n), NEW r, Listed(r, n)
  PROVE  IsFiniteSet(Classes(p, r))
<1>1. ASSUME NEW f, Listed(f, n) PROVE IsFiniteSet(ToSet(f))
  <2> DEFINE h == [i \in 1 .. n |-> f[i]]
  <2>1. h \in Surjection(1 .. n, ToSet(f))
    BY <1>1 DEF Surjection, ToSet, Listed
  <2>2. IsFiniteSet(1 .. n)
    BY FS_Interval
  <2> QED BY <2>1, <2>2, FS_Surjection
<1> QED BY <1>1, FS_Union DEF Classes

\* The sum of a count over the classes, the count being given as a function.
PooledSum(p, r, field) ==
  MapThenSumSet(LAMBDA c : Confusion(p, r, c)[field], Classes(p, r))
LEMMA PooledTaken ==
  ASSUME NEW p, NEW r, IsFiniteSet(Classes(p, r)), NEW field, NEW F, NEW g,
         \A c \in Classes(p, r) : F[c] = Confusion(p, r, c)[field],
         Sums(g, F, Classes(p, r))
  PROVE  PooledSum(p, r, field) = g[Classes(p, r)]
<1> DEFINE S == Classes(p, r)
           taken == CHOOSE f : f = [T \in SUBSET S |-> IF T = {} THEN 0
                      ELSE Confusion(p, r, CHOOSE x \in T : TRUE)[field]
                             + f[T \ {CHOOSE x \in T : TRUE}]]
<1>1. ASSUME NEW T \in SUBSET S, T # {}
      PROVE  F[CHOOSE x \in T : TRUE] = Confusion(p, r, CHOOSE x \in T : TRUE)[field]
  <2>1. PICK x : x = CHOOSE y \in T : TRUE
    OBVIOUS
  <2>2. x \in T
    BY <1>1, <2>1
  <2>3. F[x] = Confusion(p, r, x)[field]
    BY <2>2
  <2> QED BY <2>1, <2>3
<1>2. \A f : Sums(f, F, S) <=>
        f = [T \in SUBSET S |-> IF T = {} THEN 0
               ELSE Confusion(p, r, CHOOSE x \in T : TRUE)[field] + f[T \ {CHOOSE x \in T : TRUE}]]
  BY <1>1 DEF Sums
<1>3. Sums(taken, F, S)
  BY <1>2, ZenonT(40)
<1>4. PooledSum(p, r, field) = taken[S]
  BY DEF PooledSum, MapThenSumSet, MapThenFoldSet
<1> HIDE DEF taken
<1> QED BY <1>3, <1>4, OneSum

\* A label that is wrong is one class's false positive and another's false
\* negative, and nothing is counted twice.
LEMMA PooledCounts ==
  ASSUME NEW n \in Nat, NEW p, Listed(p, n), NEW r, Listed(r, n)
  PROVE  Pooled(p, r) = [tp |-> Agreed(p, r, n), fp |-> n - Agreed(p, r, n),
                         fn |-> n - Agreed(p, r, n)]
<1> DEFINE S == Classes(p, r)
           same == {i \in 1 .. n : p[i] = r[i]}
           wrong == {i \in 1 .. n : p[i] # r[i]}
<1>1. IsFiniteSet(S) /\ IsFiniteSet(same) /\ IsFiniteSet(wrong)
  BY ClassesFinite, FS_Interval, FS_Subset, same \subseteq 1 .. n, wrong \subseteq 1 .. n
<1>2. \A i \in 1 .. n : p[i] \in S /\ r[i] \in S
  BY DEF Classes, ToSet, Listed
<1>3. PooledSum(p, r, "tp") = Agreed(p, r, n)
  <2> DEFINE F == [c \in S |-> Cardinality({i \in same : p[i] = c})]
             g == [T \in SUBSET S |-> Cardinality({i \in same : p[i] \in T})]
  <2>1. Sums(g, F, S)
    BY <1>1, SumOfClasses
  <2>2. g[S] = Agreed(p, r, n)
    <3>1. {i \in same : p[i] \in S} = {i \in 1 .. n : p[i] = r[i]}
      BY <1>2
    <3> QED BY <3>1 DEF Agreed
  <2>3. \A c \in S : F[c] = Confusion(p, r, c)["tp"]
    <3>1. \A c \in S : {i \in DOMAIN p : p[i] = c /\ r[i] = c} = {i \in same : p[i] = c}
      BY DEF Listed
    <3> QED BY <3>1 DEF Confusion, Count
  <2> HIDE DEF F, g, S
  <2>4. PooledSum(p, r, "tp") = g[S]
    BY <1>1, <2>1, <2>3, PooledTaken DEF S
  <2> QED BY <2>2, <2>4
<1>4. PooledSum(p, r, "fp") = n - Agreed(p, r, n)
  <2> DEFINE F == [c \in S |-> Cardinality({i \in wrong : p[i] = c})]
             g == [T \in SUBSET S |-> Cardinality({i \in wrong : p[i] \in T})]
  <2>1. Sums(g, F, S)
    BY <1>1, SumOfClasses
  <2>2. g[S] = n - Agreed(p, r, n)
    <3>1. {i \in wrong : p[i] \in S} = {i \in 1 .. n : p[i] # r[i]}
      BY <1>2
    <3> QED BY <3>1, AgreedCounts
  <2>3. \A c \in S : F[c] = Confusion(p, r, c)["fp"]
    <3>1. \A c \in S : {i \in DOMAIN p : p[i] = c /\ r[i] # c} = {i \in wrong : p[i] = c}
      BY DEF Listed
    <3> QED BY <3>1 DEF Confusion, Count
  <2> HIDE DEF F, g, S
  <2>4. PooledSum(p, r, "fp") = g[S]
    BY <1>1, <2>1, <2>3, PooledTaken DEF S
  <2> QED BY <2>2, <2>4
<1>5. PooledSum(p, r, "fn") = n - Agreed(p, r, n)
  <2> DEFINE F == [c \in S |-> Cardinality({i \in wrong : r[i] = c})]
             g == [T \in SUBSET S |-> Cardinality({i \in wrong : r[i] \in T})]
  <2>1. Sums(g, F, S)
    BY <1>1, SumOfClasses
  <2>2. g[S] = n - Agreed(p, r, n)
    <3>1. {i \in wrong : r[i] \in S} = {i \in 1 .. n : p[i] # r[i]}
      BY <1>2
    <3> QED BY <3>1, AgreedCounts
  <2>3. \A c \in S : F[c] = Confusion(p, r, c)["fn"]
    <3>1. \A c \in S : {i \in DOMAIN p : p[i] # c /\ r[i] = c} = {i \in wrong : r[i] = c}
      BY DEF Listed
    <3> QED BY <3>1 DEF Confusion, Count
  <2> HIDE DEF F, g, S
  <2>4. PooledSum(p, r, "fn") = g[S]
    BY <1>1, <2>1, <2>3, PooledTaken DEF S
  <2> QED BY <2>2, <2>4
<1>6. Pooled(p, r) = [tp |-> PooledSum(p, r, "tp"), fp |-> PooledSum(p, r, "fp"), fn |-> PooledSum(p, r, "fn")]
  BY DEF Pooled, PooledSum
<1> QED BY <1>3, <1>4, <1>5, <1>6

----------------------------------------------------------------------------
(* Fractions added from the left.                                          *)

Fractions == Int \X (Nat \ {0})

LEMMA PlusIsFraction ==
  ASSUME NEW x \in Fractions, NEW y \in Fractions
  PROVE  /\ Plus(x, y) \in Fractions
         /\ Plus(x, y)[1] = x[1] * y[2] + y[1] * x[2] /\ Plus(x, y)[2] = x[2] * y[2]
<1>1. x[1] \in Int /\ y[1] \in Int /\ x[2] \in Nat \ {0} /\ y[2] \in Nat \ {0}
  BY DEF Fractions
<1>2. \A a, b \in Nat \ {0} : a * b \in Nat \ {0}
  OBVIOUS
<1>3. x[2] * y[2] \in Nat \ {0} /\ x[1] * y[2] + y[1] * x[2] \in Int
  BY <1>1, <1>2
<1> QED BY <1>3 DEF Plus, Fractions

\* The recursion of FoldLeft over the sets of a list's indices.
Adding(f, s, n) ==
  f = [T \in SUBSET (1 .. n) |-> IF T = {} THEN <<0, 1>> ELSE Plus(f[T \ {Max(T)}], s[Max(T)])]

LEMMA AddingIsFold ==
  ASSUME NEW n \in Nat, NEW s, NEW V, NEW f \in [SUBSET (1 .. n) -> V]
  PROVE  Adding(f, s, n) <=>
           Folding(f, SUBSET (1 .. n), [T \in SUBSET (1 .. n) |-> Max(T)],
                   [a \in (1 .. n) \X V |-> Plus(a[2], s[a[1]])], <<0, 1>>)
<1> DEFINE S == 1 .. n
           pick == [T \in SUBSET S |-> Max(T)]
           op == [a \in S \X V |-> Plus(a[2], s[a[1]])]
<1>1. ASSUME NEW T \in SUBSET S, T # {}
      PROVE  op[<<pick[T], f[T \ {pick[T]}]>>] = Plus(f[T \ {Max(T)}], s[Max(T)])
  <2>1. Max(T) \in S /\ pick[T] = Max(T)
    BY <1>1, Greatest, T \subseteq 0 .. n
  <2>2. PICK v \in V : v = f[T \ {Max(T)}]
    OBVIOUS
  <2>3. op[<<Max(T), v>>] = Plus(v, s[Max(T)])
    BY <2>1
  <2> HIDE DEF pick, op
  <2> QED BY <2>1, <2>2, <2>3
<1> HIDE DEF pick, op
<1>2. [T \in SUBSET S |-> IF T = {} THEN <<0, 1>> ELSE op[<<pick[T], f[T \ {pick[T]}]>>]]
        = [T \in SUBSET S |-> IF T = {} THEN <<0, 1>> ELSE Plus(f[T \ {Max(T)}], s[Max(T)])]
  BY <1>1
<1>3. Folding(f, SUBSET S, pick, op, <<0, 1>>) <=> Adding(f, s, n)
  BY <1>2, Zenon DEF Folding, Adding
<1> QED BY <1>3 DEF pick, op

LEMMA AddingExists ==
  ASSUME NEW n \in Nat, NEW s \in [1 .. n -> Fractions]
  PROVE  \E f \in [SUBSET (1 .. n) -> Fractions] : Adding(f, s, n)
<1> DEFINE S == 1 .. n
           pick == [T \in SUBSET S |-> Max(T)]
           op == [a \in S \X Fractions |-> Plus(a[2], s[a[1]])]
<1>1. \A T \in SUBSET S : T # {} => pick[T] \in T
  BY Greatest, \A T \in SUBSET S : T \in SUBSET (0 .. n)
<1>2. op \in [S \X Fractions -> Fractions]
  BY PlusIsFraction
<1>3. <<0, 1>> \in Fractions
  BY DEF Fractions
<1>4. IsFiniteSet(S)
  BY FS_Interval
<1> HIDE DEF pick, op, S
<1>5. \E f \in [SUBSET S -> Fractions] : Folding(f, SUBSET S, pick, op, <<0, 1>>)
  BY <1>1, <1>2, <1>3, <1>4, FoldExists
<1> QED BY <1>5, AddingIsFold DEF pick, op, S

LEMMA OneAdding ==
  ASSUME NEW n \in Nat, NEW s, NEW f, NEW g, Adding(f, s, n), Adding(g, s, n)
  PROVE  f = g
<1> DEFINE S == 1 .. n
           V == {f[T] : T \in SUBSET S} \cup {g[T] : T \in SUBSET S}
           pick == [T \in SUBSET S |-> Max(T)]
           op == [a \in S \X V |-> Plus(a[2], s[a[1]])]
<1>1. \A T \in SUBSET S : T # {} => pick[T] \in T
  BY Greatest, \A T \in SUBSET S : T \in SUBSET (0 .. n)
<1>2. DOMAIN f = SUBSET S /\ DOMAIN g = SUBSET S /\ f = [T \in SUBSET S |-> f[T]]
        /\ g = [T \in SUBSET S |-> g[T]]
  BY DEF Adding
<1>3. f \in [SUBSET S -> V] /\ g \in [SUBSET S -> V]
  BY <1>2
<1> HIDE DEF V
<1>4. Folding(f, SUBSET S, pick, op, <<0, 1>>) /\ Folding(g, SUBSET S, pick, op, <<0, 1>>)
  BY <1>3, AddingIsFold
<1>5. IsFiniteSet(S)
  BY FS_Interval
<1> HIDE DEF pick, op, S
<1> QED BY <1>1, <1>4, <1>5, OneFold

Total(s) == FoldLeft(Plus, <<0, 1>>, s)
LEMMA TotalTaken ==
  ASSUME NEW n \in Nat, NEW s, DOMAIN s = 1 .. n, NEW g, Adding(g, s, n)
  PROVE  Total(s) = g[1 .. n]
<1> DEFINE taken == CHOOSE f : f = [T \in SUBSET (1 .. n) |-> IF T = {} THEN <<0, 1>>
                      ELSE Plus(f[T \ {Max(T)}], s[Max(T)])]
<1>1. Adding(taken, s, n)
  BY DEF Adding
<1>2. Total(s) = taken[1 .. n]
  BY DEF Total, FoldLeft, MapThenFoldSet
<1> HIDE DEF taken
<1> QED BY <1>1, <1>2, OneAdding

----------------------------------------------------------------------------
(* Labels: accuracy, and recall weighted by support.                       *)

LEMMA AccuracyCounts ==
  ASSUME NEW n \in Nat, NEW p, Listed(p, n), NEW r, Listed(r, n)
  PROVE  Accuracy(p, r).aggregate = Ratio(Agreed(p, r, n), n)
<1> DEFINE per == [i \in 1 .. n |-> <<IF p[i] = r[i] THEN 1 ELSE 0, 1>>]
           hits(T) == {i \in T : p[i] = r[i]}
           g == [T \in SUBSET (1 .. n) |-> <<Cardinality(hits(T)), 1>>]
<1>1. ASSUME NEW T \in SUBSET (1 .. n)
      PROVE  g[T] = IF T = {} THEN <<0, 1>> ELSE Plus(g[T \ {Max(T)}], per[Max(T)])
  <2>0. IsFiniteSet(hits(T)) /\ \A x \in T : IsFiniteSet(hits(T \ {x}))
    <3>1. IsFiniteSet(1 .. n)
      BY FS_Interval
    <3>2. \A U \in SUBSET (1 .. n) : IsFiniteSet(U)
      BY <3>1, FS_Subset
    <3> QED BY <3>2, \A U \in SUBSET (1 .. n) : hits(U) \in SUBSET (1 .. n)
  <2>1. CASE T = {}
    <3>1. hits({}) = {}
      OBVIOUS
    <3> QED BY <2>1, <3>1, FS_EmptySet
  <2>2. CASE T # {}
    <3>1. PICK x \in T : x = Max(T)
      BY <2>2, Greatest, T \subseteq 0 .. n
    <3> DEFINE less == hits(T \ {x})
               e == IF p[x] = r[x] THEN 1 ELSE 0
    <3>2. hits(T) = IF p[x] = r[x] THEN less \cup {x} ELSE less
      OBVIOUS
    <3>3. x \notin less /\ IsFiniteSet(less) /\ Cardinality(less) \in Nat
      BY <2>0, FS_CardinalityType
    <3>4. Cardinality(hits(T)) = Cardinality(less) + e
      <4> HIDE DEF less, hits
      <4> QED BY <3>2, <3>3, FS_AddElement
    <3>5. g[T] = <<Cardinality(hits(T)), 1>> /\ g[T \ {x}] = <<Cardinality(less), 1>> /\ per[x] = <<e, 1>>
      OBVIOUS
    <3> HIDE DEF g, per, less, hits
    <3>6. Plus(g[T \ {x}], per[x]) = <<Cardinality(less) + e, 1>>
      BY <3>3, <3>5 DEF Plus
    <3> QED BY <2>2, <3>1, <3>4, <3>5, <3>6
  <2> QED BY <2>1, <2>2
<1>2. g = [T \in SUBSET (1 .. n) |-> g[T]]
  OBVIOUS
<1>3. g[1 .. n] = <<Agreed(p, r, n), 1>>
  BY DEF Agreed
<1>4. DOMAIN per = 1 .. n /\ Len(per) = n
  OBVIOUS
<1>5. Accuracy(p, r).aggregate = Mean(per)
  BY DEF Accuracy, Scored, Listed
<1> HIDE DEF g, per
<1>6. Adding(g, per, n)
  BY <1>1, <1>2 DEF Adding
<1>7. Total(per) = <<Agreed(p, r, n), 1>>
  BY <1>3, <1>4, <1>6, TotalTaken
<1> QED BY <1>4, <1>5, <1>7 DEF Mean, Total

\* The list of a finite set has each of its elements once.
LEMMA SetListed ==
  ASSUME NEW S, IsFiniteSet(S)
  PROVE  /\ Cardinality(S) \in Nat /\ DOMAIN SetToSeq(S) = 1 .. Cardinality(S)
         /\ \A k \in 1 .. Cardinality(S) : SetToSeq(S)[k] \in S
         /\ \A c \in S : \E k \in 1 .. Cardinality(S) : SetToSeq(S)[k] = c
         /\ \A j, k \in 1 .. Cardinality(S) : SetToSeq(S)[j] = SetToSeq(S)[k] => j = k
<1> DEFINE m == Cardinality(S)
           s == SetToSeq(S)
<1>1. m \in Nat /\ ExistsBijection(1 .. m, S)
  BY FS_CardinalityType
<1>2. \E h \in [1 .. m -> S] : IsInjective(h)
  BY <1>1 DEF ExistsBijection, Bijection, Injection, IsInjective
<1>3. s \in [1 .. m -> S] /\ IsInjective(s)
  BY <1>2 DEF SetToSeq
<1> HIDE DEF s, m
<1>4. s \in Injection(1 .. m, S)
  BY <1>3 DEF Injection, IsInjective
<1>5. Cardinality(1 .. m) = m
  BY <1>1, FS_Interval
<1>6. s \in Surjection(1 .. m, S)
  BY <1>4, <1>5, FS_Injection DEF m
<1>7. \A c \in S : \E k \in 1 .. m : s[k] = c
  BY <1>6 DEF Surjection
<1> QED BY <1>1, <1>3, <1>7 DEF IsInjective, s, m

\* The summand of a class in the weighted recall is its hits by the length.
RecallPart(p, r, c) ==
  LET x == Recall(Confusion(p, r, c))
  IN <<Count(LAMBDA i : r[i] = c, r) * x[1], Len(r) * x[2]>>
Hits(p, r, n, S) == Cardinality({i \in 1 .. n : p[i] = r[i] /\ r[i] \in S})

LEMMA RecallPartIs ==
  ASSUME NEW n \in Nat \ {0}, NEW p, Listed(p, n), NEW r, Listed(r, n), Len(r) = n, NEW c
  PROVE  /\ RecallPart(p, r, c) \in Fractions
         /\ RecallPart(p, r, c)[1] * n = Hits(p, r, n, {c}) * RecallPart(p, r, c)[2]
<1> DEFINE B == {i \in 1 .. n : p[i] = c /\ r[i] = c}
           C == {i \in 1 .. n : p[i] # c /\ r[i] = c}
           D == {i \in 1 .. n : r[i] = c}
           tp == Cardinality(B)
           fn == Cardinality(C)
           s == Cardinality(D)
<1>1. D = B \cup C /\ B \cap C = {}
  OBVIOUS
<1>2. IsFiniteSet(D)
  BY FS_Interval, FS_Subset, D \in SUBSET (1 .. n)
<1>3. Hits(p, r, n, {c}) = tp
  <2>1. {i \in 1 .. n : p[i] = r[i] /\ r[i] \in {c}} = B
    OBVIOUS
  <2> QED BY <2>1 DEF Hits
<1>4. Confusion(p, r, c).tp = tp /\ Confusion(p, r, c).fn = fn /\ Count(LAMBDA i : r[i] = c, r) = s
  BY DEF Confusion, Count, Listed
<1>5. s = tp + fn /\ tp \in Nat /\ fn \in Nat
  <2> HIDE DEF B, C, D
  <2> QED BY <1>1, <1>2, CardSplits
<1>6. RecallPart(p, r, c) = <<s * Ratio(tp, tp + fn)[1], n * Ratio(tp, tp + fn)[2]>>
  BY <1>4 DEF RecallPart, Recall
<1> HIDE DEF tp, fn, s
<1>7. CASE s = 0
  <2>1. RecallPart(p, r, c) = <<0, n>> /\ tp = 0
    BY <1>5, <1>6, <1>7 DEF Ratio
  <2> QED BY <1>3, <2>1 DEF Fractions
<1>8. CASE s # 0
  <2>1. RecallPart(p, r, c) = <<s * tp, n * s>>
    BY <1>5, <1>6, <1>8 DEF Ratio
  <2>2. \A a, b \in Nat \ {0} : a * b \in Nat \ {0}
    OBVIOUS
  <2>3. s \in Nat \ {0} /\ n * s \in Nat \ {0} /\ s * tp \in Int
    BY <1>5, <1>8, <2>2
  <2>4. (s * tp) * n = tp * (n * s)
    BY <1>5, <2>3
  <2> QED BY <1>3, <2>1, <2>3, <2>4 DEF Fractions
<1> QED BY <1>7, <1>8

\* Two fractions of n, added.
LEMMA PlusOfShares ==
  ASSUME NEW n \in Nat, NEW x \in Fractions, NEW y \in Fractions, NEW a \in Nat, NEW b \in Nat,
         x[1] * n = a * x[2], y[1] * n = b * y[2]
  PROVE  Plus(x, y)[1] * n = (a + b) * Plus(x, y)[2]
<1>1. PICK u \in Int, v \in Int, w \in Int, z \in Int : u = x[1] /\ v = x[2] /\ w = y[1] /\ z = y[2]
  BY DEF Fractions
<1>2. Plus(x, y)[1] = u * z + w * v /\ Plus(x, y)[2] = v * z
  BY <1>1, PlusIsFraction
<1>3. u * n = a * v /\ w * n = b * z
  BY <1>1
<1> HIDE DEF Fractions
<1>4. (u * z + w * v) * n = (u * n) * z + (w * n) * v
  <2>1. PICK k \in Int, l \in Int : k = u * z /\ l = w * v
    OBVIOUS
  <2>2. (k + l) * n = k * n + l * n
    OBVIOUS
  <2>3. (u * z) * n = (u * n) * z /\ (w * v) * n = (w * n) * v
    OBVIOUS
  <2> QED BY <2>1, <2>2, <2>3
<1>5. (a * v) * z + (b * z) * v = (a + b) * (v * z)
  BY <1>1
<1> QED BY <1>2, <1>3, <1>4, <1>5

LEMMA WeightedRecall ==
  ASSUME NEW n \in Nat, NEW p, Listed(p, n), NEW r, Listed(r, n), Len(r) = n
  PROVE  LET w == Weighted("recall", p, r)
         IN  w \in Fractions /\ w[1] * n = Agreed(p, r, n) * w[2] /\ (n = 0 => w = <<0, 1>>)
<1> DEFINE S == Classes(p, r)
           cs == SetToSeq(S)
           m == Cardinality(S)
           s == [k \in DOMAIN cs |-> RecallPart(p, r, cs[k])]
           Of(T) == {cs[k] : k \in T}
<1>1. /\ m \in Nat /\ DOMAIN cs = 1 .. m /\ \A c \in S : \E k \in 1 .. m : cs[k] = c
      /\ (\A k \in 1 .. m : cs[k] \in S) /\ \A j, k \in 1 .. m : cs[j] = cs[k] => j = k
  BY ClassesFinite, SetListed
<1>2. Weighted("recall", p, r) = Total(s)
  BY DEF Weighted, Total, RecallPart, Shares
<1>3. \A T : IsFiniteSet({i \in 1 .. n : p[i] = r[i] /\ r[i] \in T}) /\ Hits(p, r, n, T) \in Nat
  <2>1. IsFiniteSet(1 .. n)
    BY FS_Interval
  <2>2. \A T : {i \in 1 .. n : p[i] = r[i] /\ r[i] \in T} \in SUBSET (1 .. n)
    OBVIOUS
  <2> QED BY <2>1, <2>2, FS_Subset, FS_CardinalityType DEF Hits
<1> HIDE DEF cs, m
<1>4. CASE n = 0
  <2>1. S = {}
    BY <1>4 DEF Classes, ToSet, Listed
  <2>2. m = 0
    BY <2>1, FS_EmptySet DEF m
  <2> DEFINE g == [T \in SUBSET (1 .. 0) |-> <<0, 1>>]
  <2>3. Adding(g, s, 0)
    <3>1. \A T \in SUBSET (1 .. 0) : T = {}
      OBVIOUS
    <3> QED BY <3>1 DEF Adding
  <2>4. DOMAIN s = 1 .. 0
    BY <1>1, <2>2
  <2>5. g[1 .. 0] = <<0, 1>>
    OBVIOUS
  <2> HIDE DEF g, s
  <2>6. Total(s) = <<0, 1>>
    BY <2>3, <2>4, <2>5, TotalTaken, 0 \in Nat
  <2>7. Agreed(p, r, n) = 0
    BY <1>4, AgreedCounts
  <2> QED BY <1>2, <1>4, <2>6, <2>7 DEF Fractions
<1>5. CASE n # 0
  <2>1. \A k \in 1 .. m : s[k] \in Fractions /\ s[k][1] * n = Hits(p, r, n, {cs[k]}) * s[k][2]
    BY <1>1, <1>5, RecallPartIs
  <2>2. s \in [1 .. m -> Fractions]
    BY <1>1, <2>1
  <2>3. PICK f \in [SUBSET (1 .. m) -> Fractions] : Adding(f, s, m)
    <3> HIDE DEF s
    <3> QED BY <1>1, <2>2, AddingExists
  <2> DEFINE Right(T) == f[T][1] * n = Hits(p, r, n, Of(T)) * f[T][2]
             Wrong == {T \in SUBSET (1 .. m) : ~ Right(T)}
             Sizes == {Cardinality(T) : T \in Wrong}
  <2>4. \A T \in SUBSET (1 .. m) : IsFiniteSet(T) /\ Cardinality(T) \in Nat
    <3>1. IsFiniteSet(1 .. m)
      BY <1>1, FS_Interval
    <3> QED BY <3>1, FS_Subset, FS_CardinalityType
  <2>5. ASSUME NEW T \in SUBSET (1 .. m), T # {} => Right(T \ {Max(T)}) PROVE Right(T)
    <3>1. CASE T = {}
      <4>1. f[T] = <<0, 1>>
        BY <2>3, <3>1 DEF Adding
      <4>2. Hits(p, r, n, Of(T)) = 0
        <5>1. {i \in 1 .. n : p[i] = r[i] /\ r[i] \in Of(T)} = {}
          BY <3>1
        <5> QED BY <5>1, FS_EmptySet DEF Hits
      <4> QED BY <4>1, <4>2
    <3>2. CASE T # {}
      <4>1. PICK x \in T : x = Max(T)
        BY <1>1, <3>2, Greatest, T \subseteq 0 .. m
      <4> DEFINE U == T \ {x}
                 B == {i \in 1 .. n : p[i] = r[i] /\ r[i] \in Of(U)}
                 C == {i \in 1 .. n : p[i] = r[i] /\ r[i] \in {cs[x]}}
      <4>2. {i \in 1 .. n : p[i] = r[i] /\ r[i] \in Of(T)} = B \cup C /\ B \cap C = {}
        <5>1. Of(T) = Of(U) \cup {cs[x]}
          OBVIOUS
        <5>2. cs[x] \notin Of(U)
          BY <1>1
        <5> HIDE DEF Of
        <5> QED BY <5>1, <5>2
      <4>3. Hits(p, r, n, Of(T)) = Hits(p, r, n, Of(U)) + Hits(p, r, n, {cs[x]})
        <5>1. IsFiniteSet(B \cup C)
          <6>1. B \cup C \in SUBSET (1 .. n) /\ IsFiniteSet(1 .. n)
            BY FS_Interval
          <6> HIDE DEF B, C
          <6> QED BY <6>1, FS_Subset
        <5>2. Cardinality(B \cup C) = Cardinality(B) + Cardinality(C)
          <6> HIDE DEF B, C
          <6> QED BY <4>2, <5>1, CardSplits
        <5> QED BY <4>2, <5>2 DEF Hits
      <4>4. f[T] = Plus(f[U], s[x])
        BY <2>3, <3>2, <4>1 DEF Adding
      <4>5. f[U] \in Fractions /\ s[x] \in Fractions
        BY <2>1, <2>3
      <4>6. f[U][1] * n = Hits(p, r, n, Of(U)) * f[U][2]
        BY <2>5, <3>2, <4>1
      <4>7. s[x][1] * n = Hits(p, r, n, {cs[x]}) * s[x][2]
        BY <2>1
      <4>8. Hits(p, r, n, Of(U)) \in Nat /\ Hits(p, r, n, {cs[x]}) \in Nat
        BY <1>3
      <4> HIDE DEF U, Of, s
      <4> QED BY <4>3, <4>4, <4>5, <4>6, <4>7, <4>8, PlusOfShares
    <3> QED BY <3>1, <3>2
  <2> HIDE DEF Right, s
  <2>6. Wrong = {}
    <3>1. SUFFICES ASSUME Wrong # {} PROVE FALSE
      OBVIOUS
    <3>2. PICK T \in Wrong : \A V \in Wrong : Cardinality(T) <= Cardinality(V)
      <4>1. Sizes \subseteq Nat /\ Sizes # {}
        BY <3>1, <2>4
      <4>2. PICK k \in Sizes : \A j \in Sizes : k <= j
        BY <4>1, Least
      <4> QED BY <4>2
    <3>3. T \in SUBSET (1 .. m) /\ ~ Right(T)
      BY <3>2
    <3>4. T # {} /\ ~ Right(T \ {Max(T)})
      BY <2>5, <3>3
    <3>5. PICK x \in T : x = Max(T)
      BY <1>1, <3>3, <3>4, Greatest, T \subseteq 0 .. m
    <3>6. Cardinality(T \ {x}) = Cardinality(T) - 1 /\ T \ {x} \in SUBSET (1 .. m)
      BY <2>4, <3>3, FS_RemoveElement
    <3>7. T \ {x} \in Wrong
      BY <3>4, <3>5, <3>6
    <3> QED BY <2>4, <3>2, <3>3, <3>6, <3>7
  <2>7. Right(1 .. m)
    BY <2>6
  <2>8. Total(s) = f[1 .. m]
    BY <1>1, <2>2, <2>3, TotalTaken
  <2>9. Hits(p, r, n, Of(1 .. m)) = Agreed(p, r, n)
    <3>1. \A i \in 1 .. n : r[i] \in Of(1 .. m)
      <4>1. \A i \in 1 .. n : r[i] \in S
        BY DEF Classes, ToSet, Listed
      <4> HIDE DEF S
      <4> QED BY <1>1, <4>1
    <3>2. {i \in 1 .. n : p[i] = r[i] /\ r[i] \in Of(1 .. m)} = {i \in 1 .. n : p[i] = r[i]}
      BY <3>1
    <3> QED BY <3>2 DEF Hits, Agreed
  <2> QED BY <1>2, <1>5, <2>3, <2>7, <2>8, <2>9 DEF Right
<1> QED BY <1>4, <1>5

\* All four are the accuracy.
LEMMA MicroAccuracy ==
  ASSUME NEW n \in Nat, NEW p, Listed(p, n), NEW r, Listed(r, n), Len(r) = n,
         NEW value \in {F1Micro(p, r).aggregate, PrecisionMicro(p, r).aggregate,
                        RecallMicro(p, r).aggregate, Weighted("recall", p, r)}
  PROVE  Same(value, Accuracy(p, r).aggregate)
<1> DEFINE a == Agreed(p, r, n)
<1>1. a \in 0 .. n
  BY AgreedCounts
<1>2. Accuracy(p, r).aggregate = IF n = 0 THEN <<0, 1>> ELSE <<a, n>>
  BY AccuracyCounts DEF Ratio
<1>3. Pooled(p, r) = [tp |-> a, fp |-> n - a, fn |-> n - a]
  BY PooledCounts
<1> HIDE DEF a
<1>4. F1Micro(p, r).aggregate = Ratio(2 * a, 2 * n)
  <2>1. 2 * a + (n - a) + (n - a) = 2 * n
    BY <1>1
  <2> QED BY <1>3, <2>1 DEF F1Micro, Whole, F1
<1>5. PrecisionMicro(p, r).aggregate = Ratio(a, n) /\ RecallMicro(p, r).aggregate = Ratio(a, n)
  <2>1. a + (n - a) = n
    BY <1>1
  <2> QED BY <1>3, <2>1 DEF PrecisionMicro, RecallMicro, Whole, Precision, Recall
<1>6. CASE value = F1Micro(p, r).aggregate
  <2>1. CASE n = 0
    BY <1>2, <1>4, <1>6, <2>1 DEF Ratio, Same
  <2>2. CASE n # 0
    <3>1. value = <<2 * a, 2 * n>>
      BY <1>4, <1>6, <2>2 DEF Ratio
    <3>2. (2 * a) * n = a * (2 * n)
      BY <1>1
    <3> QED BY <1>2, <2>2, <3>1, <3>2 DEF Same
  <2> QED BY <2>1, <2>2
<1>7. CASE value = Ratio(a, n)
  BY <1>1, <1>2, <1>7 DEF Ratio, Same
<1>8. CASE value = Weighted("recall", p, r)
  <2>1. value \in Fractions /\ value[1] * n = a * value[2] /\ (n = 0 => value = <<0, 1>>)
    BY <1>8, WeightedRecall DEF a
  <2> QED BY <1>2, <2>1 DEF Same
<1> QED BY <1>5, <1>6, <1>7, <1>8

----------------------------------------------------------------------------
(* Probabilities: ranks and pairs.                                         *)

\* A relation and its converse.
AreConverse(R, Q, A, B) ==
  /\ R \in SUBSET (A \X B) /\ Q \in SUBSET (B \X A)
  /\ \A a \in A, b \in B : <<a, b>> \in R <=> <<b, a>> \in Q
LEMMA Conversed ==
  ASSUME NEW A, NEW B, NEW R, NEW Q, AreConverse(R, Q, A, B), IsFiniteSet(R)
  PROVE  IsFiniteSet(Q) /\ Cardinality(Q) = Cardinality(R)
<1> DEFINE h == [c \in R |-> <<c[2], c[1]>>]
<1>1. \A c \in R : c = <<c[1], c[2]>> /\ c[1] \in A /\ c[2] \in B
  BY DEF AreConverse
<1>2. \A c \in Q : c = <<c[1], c[2]>> /\ c[1] \in B /\ c[2] \in A
  BY DEF AreConverse
<1>3. \A c \in R : <<c[2], c[1]>> \in Q
  BY <1>1 DEF AreConverse
<1>4. h \in [R -> Q]
  BY <1>3
<1>5. \A c, d \in R : h[c] = h[d] => c = d
  BY <1>1
<1>6. \A d \in Q : \E c \in R : h[c] = d
  <2>1. ASSUME NEW d \in Q PROVE <<d[2], d[1]>> \in R /\ h[<<d[2], d[1]>>] = d
    BY <1>2 DEF AreConverse
  <2> QED BY <2>1
<1> HIDE DEF h
<1>7. h \in Bijection(R, Q)
  BY <1>4, <1>5, <1>6 DEF Bijection, Injection, Surjection, IsInjective
<1> QED BY <1>7, FS_Bijection DEF ExistsBijection

\* The pairs of a relation whose second element is in a set, and the elements
\* that it relates to one.
Relates(R, D) == \A c \in R : c = <<c[1], c[2]>> /\ c[1] \in D
Within(R, T) == {c \in R : c[2] \in T}
Column(D, R, x) == {i \in D : <<i, x>> \in R}

LEMMA OneColumn ==
  ASSUME NEW D, NEW R, NEW x, Relates(R, D), IsFiniteSet(R)
  PROVE  Cardinality(Within(R, {x})) = Cardinality(Column(D, R, x))
<1> DEFINE h == [c \in Within(R, {x}) |-> c[1]]
<1>1. \A c \in R : c = <<c[1], c[2]>> /\ c[1] \in D
  BY DEF Relates
<1>2. h \in [Within(R, {x}) -> Column(D, R, x)]
  BY <1>1 DEF Within, Column
<1>3. \A c, d \in Within(R, {x}) : h[c] = h[d] => c = d
  BY <1>1 DEF Within
<1>4. \A i \in Column(D, R, x) : <<i, x>> \in Within(R, {x}) /\ h[<<i, x>>] = i
  BY DEF Within, Column
<1>5. IsFiniteSet(Within(R, {x}))
  BY FS_Subset, Within(R, {x}) \in SUBSET R DEF Within
<1> HIDE DEF h
<1>6. h \in Bijection(Within(R, {x}), Column(D, R, x))
  BY <1>2, <1>3, <1>4 DEF Bijection, Injection, Surjection, IsInjective
<1> QED BY <1>5, <1>6, FS_Bijection DEF ExistsBijection

LEMMA ColumnSplits ==
  ASSUME NEW D, NEW R, NEW T, NEW x, x \in T, Relates(R, D), IsFiniteSet(R)
  PROVE  /\ Cardinality(Within(R, T))
              = Cardinality(Column(D, R, x)) + Cardinality(Within(R, T \ {x}))
         /\ Cardinality(Within(R, T)) \in Nat /\ Cardinality(Column(D, R, x)) \in Nat
         /\ Cardinality(Within(R, T \ {x})) \in Nat
<1>1. Within(R, T) = Within(R, {x}) \cup Within(R, T \ {x})
        /\ Within(R, {x}) \cap Within(R, T \ {x}) = {}
  BY DEF Within
<1>2. IsFiniteSet(Within(R, T))
  BY FS_Subset, Within(R, T) \in SUBSET R DEF Within
<1>3. /\ Cardinality(Within(R, T)) = Cardinality(Within(R, {x})) + Cardinality(Within(R, T \ {x}))
      /\ Cardinality(Within(R, {x})) \in Nat /\ Cardinality(Within(R, T \ {x})) \in Nat
  BY <1>1, <1>2, CardSplits
<1>4. Cardinality(Within(R, {x})) = Cardinality(Column(D, R, x))
  BY OneColumn
<1> QED BY <1>3, <1>4

\* The sum of the ranks of some examples, as one function of the set.
Ranks(p, S) == MapThenSumSet(LAMBDA e : Rank2(p, e), S)
GivesRanks(F, p, S) == \A e \in S : F[e] = Rank2(p, e)
LEMMA RanksTaken ==
  ASSUME NEW p, NEW S, NEW F, NEW g, IsFiniteSet(S), GivesRanks(F, p, S), Sums(g, F, S)
  PROVE  Ranks(p, S) = g[S]
<1> DEFINE taken == CHOOSE f : f = [T \in SUBSET S |-> IF T = {} THEN 0
                      ELSE Rank2(p, CHOOSE x \in T : TRUE) + f[T \ {CHOOSE x \in T : TRUE}]]
<1>1. ASSUME NEW T \in SUBSET S, T # {}
      PROVE  F[CHOOSE x \in T : TRUE] = Rank2(p, CHOOSE x \in T : TRUE)
  <2>1. PICK x : x = CHOOSE y \in T : TRUE
    OBVIOUS
  <2>2. x \in T
    BY <1>1, <2>1
  <2>3. F[x] = Rank2(p, x)
    BY <2>2 DEF GivesRanks
  <2> QED BY <2>1, <2>3
<1>2. ASSUME NEW f
      PROVE  Sums(f, F, S) <=>
               f = [T \in SUBSET S |-> IF T = {} THEN 0
                      ELSE Rank2(p, CHOOSE x \in T : TRUE) + f[T \ {CHOOSE x \in T : TRUE}]]
  <2>1. [T \in SUBSET S |-> IF T = {} THEN 0
           ELSE F[CHOOSE x \in T : TRUE] + f[T \ {CHOOSE x \in T : TRUE}]]
          = [T \in SUBSET S |-> IF T = {} THEN 0
               ELSE Rank2(p, CHOOSE x \in T : TRUE) + f[T \ {CHOOSE x \in T : TRUE}]]
    BY <1>1
  <2> QED BY <2>1, Zenon DEF Sums
<1>3. Sums(taken, F, S)
  BY <1>2, ZenonT(40)
<1>4. Ranks(p, S) = taken[S]
  BY DEF Ranks, MapThenSumSet, MapThenFoldSet
<1> HIDE DEF taken
<1> QED BY <1>3, <1>4, OneSum

\* The pairs that the scores order, the first example being in A and the
\* second in B.
Less(p, A, B) == {c \in A \X B : p[c[1]] < p[c[2]]}
AtMost(p, A, B) == {c \in A \X B : p[c[1]] <= p[c[2]]}

LEMMA ProductFinite ==
  ASSUME NEW n \in Nat, NEW A \in SUBSET (1 .. n), NEW B \in SUBSET (1 .. n)
  PROVE  /\ IsFiniteSet(A) /\ IsFiniteSet(B) /\ IsFiniteSet(A \X B)
         /\ Cardinality(A) \in Nat /\ Cardinality(B) \in Nat
         /\ Cardinality(A \X B) = Cardinality(A) * Cardinality(B)
<1>1. IsFiniteSet(1 .. n)
  BY FS_Interval
<1>2. IsFiniteSet(A) /\ IsFiniteSet(B)
  BY <1>1, FS_Subset
<1>3. IsFiniteSet(A \X B) /\ Cardinality(A \X B) = Cardinality(A) * Cardinality(B)
  BY <1>2, FS_Product
<1> QED BY <1>2, <1>3, FS_CardinalityType

LEMMA PairsFinite ==
  ASSUME NEW n \in Nat, NEW p, NEW A \in SUBSET (1 .. n), NEW B \in SUBSET (1 .. n)
  PROVE  /\ Less(p, A, B) \in SUBSET (A \X B) /\ IsFiniteSet(Less(p, A, B))
         /\ AtMost(p, A, B) \in SUBSET (A \X B) /\ IsFiniteSet(AtMost(p, A, B))
         /\ Cardinality(Less(p, A, B)) \in Nat /\ Cardinality(AtMost(p, A, B)) \in Nat
<1>1. Less(p, A, B) \in SUBSET (A \X B) /\ AtMost(p, A, B) \in SUBSET (A \X B)
  BY DEF Less, AtMost
<1>2. IsFiniteSet(A \X B)
  BY ProductFinite
<1>3. IsFiniteSet(Less(p, A, B)) /\ IsFiniteSet(AtMost(p, A, B))
  BY <1>1, <1>2, FS_Subset
<1> QED BY <1>1, <1>3, FS_CardinalityType

LEMMA RanksCountPairs ==
  ASSUME NEW n \in Nat, NEW p, Listed(p, n), NEW S \in SUBSET (1 .. n)
  PROVE  Ranks(p, S) = Cardinality(Less(p, 1 .. n, S)) + Cardinality(AtMost(p, 1 .. n, S))
                         + Cardinality(S)
<1> DEFINE D == 1 .. n
           L == Less(p, D, S)
           M == AtMost(p, D, S)
           g == [T \in SUBSET S |-> Cardinality(Within(L, T)) + Cardinality(Within(M, T))
                                      + Cardinality(T)]
           F == [e \in S |-> Rank2(p, e)]
<1>1. /\ IsFiniteSet(S) /\ IsFiniteSet(L) /\ IsFiniteSet(M)
      /\ Relates(L, D) /\ Relates(M, D)
  <2>1. L \in SUBSET (D \X S) /\ M \in SUBSET (D \X S)
    BY DEF Less, AtMost
  <2>2. Relates(L, D) /\ Relates(M, D)
    BY <2>1 DEF Relates
  <2> QED BY <2>2, ProductFinite, PairsFinite, D \in SUBSET (1 .. n)
<1>2. \A T \in SUBSET S : IsFiniteSet(T) /\ Cardinality(T) \in Nat
  BY <1>1, FS_Subset, FS_CardinalityType
<1>3. \A e \in S : Column(D, L, e) = {i \in D : p[i] < p[e]}
                   /\ Column(D, M, e) = {i \in D : p[i] <= p[e]}
  BY DEF Less, AtMost, Column
<1>4. \A e \in S : Rank2(p, e) = Cardinality(Column(D, L, e)) + Cardinality(Column(D, M, e)) - 1 + 2
  BY <1>3 DEF Rank2, Count, Listed
<1>5. Within(L, {}) = {} /\ Within(M, {}) = {} /\ Within(L, S) = L /\ Within(M, S) = M
  BY DEF Within, Less, AtMost
<1> HIDE DEF L, M, D
<1>6. ASSUME NEW T \in SUBSET S, NEW x \in T PROVE g[T] = F[x] + g[T \ {x}]
  <2>1. PICK a1, a2, a3 : a1 = Cardinality(Within(L, T)) /\ a2 = Cardinality(Column(D, L, x))
                            /\ a3 = Cardinality(Within(L, T \ {x}))
    OBVIOUS
  <2>2. PICK b1, b2, b3 : b1 = Cardinality(Within(M, T)) /\ b2 = Cardinality(Column(D, M, x))
                            /\ b3 = Cardinality(Within(M, T \ {x}))
    OBVIOUS
  <2>3. a1 = a2 + a3 /\ a2 \in Nat /\ a3 \in Nat
    <3> HIDE DEF F, g
    <3>1. Cardinality(Within(L, T))
            = Cardinality(Column(D, L, x)) + Cardinality(Within(L, T \ {x}))
      BY <1>1, ColumnSplits
    <3>2. Cardinality(Column(D, L, x)) \in Nat /\ Cardinality(Within(L, T \ {x})) \in Nat
      BY <1>1, ColumnSplits
    <3> QED BY <2>1, <3>1, <3>2
  <2>4. b1 = b2 + b3 /\ b2 \in Nat /\ b3 \in Nat
    <3> HIDE DEF F, g
    <3>1. Cardinality(Within(M, T))
            = Cardinality(Column(D, M, x)) + Cardinality(Within(M, T \ {x}))
      BY <1>1, ColumnSplits
    <3>2. Cardinality(Column(D, M, x)) \in Nat /\ Cardinality(Within(M, T \ {x})) \in Nat
      BY <1>1, ColumnSplits
    <3> QED BY <2>2, <3>1, <3>2
  <2>5. Cardinality(T \ {x}) = Cardinality(T) - 1 /\ Cardinality(T) \in Nat
    BY <1>2, FS_RemoveElement
  <2>6. F[x] = a2 + b2 - 1 + 2
    BY <1>4, <2>1, <2>2
  <2>7. g[T] = a1 + b1 + Cardinality(T) /\ g[T \ {x}] = a3 + b3 + Cardinality(T \ {x})
    BY <2>1, <2>2
  <2> HIDE DEF F, g
  <2> QED BY <2>3, <2>4, <2>5, <2>6, <2>7
<1>7. g[{}] = 0
  BY <1>5, FS_EmptySet
<1>8. F \in [S -> Int]
  <2>1. \A e \in S : Cardinality(Column(D, L, e)) \in Nat /\ Cardinality(Column(D, M, e)) \in Nat
    BY <1>1, ColumnSplits
  <2> QED BY <1>4, <2>1
<1>9. g \in [SUBSET S -> Int]
  <2>1. \A T \in SUBSET S : Within(L, T) \in SUBSET L /\ Within(M, T) \in SUBSET M
    BY DEF Within
  <2>2. \A T \in SUBSET S : Cardinality(Within(L, T)) \in Nat /\ Cardinality(Within(M, T)) \in Nat
    BY <1>1, <2>1, FS_Subset, FS_CardinalityType
  <2> QED BY <1>2, <2>2
<1>10. g[S] = Cardinality(L) + Cardinality(M) + Cardinality(S) /\ \A e \in S : F[e] = Rank2(p, e)
  BY <1>5
<1> HIDE DEF F, g
<1>11. Sums(g, F, S)
  BY <1>1, <1>6, <1>7, <1>8, <1>9, SumBySplits
<1>12. Ranks(p, S) = g[S]
  <2>1. IsFiniteSet(S)
    BY <1>1
  <2>2. GivesRanks(F, p, S)
    BY <1>10 DEF GivesRanks
  <2> QED BY <2>1, <2>2, <1>11, RanksTaken
<1>13. Ranks(p, S) = Cardinality(L) + Cardinality(M) + Cardinality(S)
  BY <1>10, <1>12
<1> QED BY <1>13 DEF L, M, D

\* The pairs of two sets are split by their second element's part.
LEMMA PairsSplit ==
  ASSUME NEW n \in Nat, NEW p, NEW A \in SUBSET (1 .. n), NEW B \in SUBSET (1 .. n),
         NEW C \in SUBSET (1 .. n), A \cap B = {}
  PROVE  /\ Cardinality(Less(p, A \cup B, C)) = Cardinality(Less(p, A, C)) + Cardinality(Less(p, B, C))
         /\ Cardinality(AtMost(p, A \cup B, C))
              = Cardinality(AtMost(p, A, C)) + Cardinality(AtMost(p, B, C))
<1>1. A \cup B \in SUBSET (1 .. n)
  OBVIOUS
<1>2. Less(p, A \cup B, C) = Less(p, A, C) \cup Less(p, B, C) /\ Less(p, A, C) \cap Less(p, B, C) = {}
  <2>1. \A c : c \in Less(p, A, C) => c[1] \in A
    BY DEF Less
  <2>2. \A c : c \in Less(p, B, C) => c[1] \in B
    BY DEF Less
  <2>3. Less(p, A, C) \cap Less(p, B, C) = {}
    BY <2>1, <2>2
  <2>4. (A \cup B) \X C = (A \X C) \cup (B \X C)
    OBVIOUS
  <2> QED BY <2>3, <2>4 DEF Less
<1>3. /\ AtMost(p, A \cup B, C) = AtMost(p, A, C) \cup AtMost(p, B, C)
      /\ AtMost(p, A, C) \cap AtMost(p, B, C) = {}
  <2>1. \A c : c \in AtMost(p, A, C) => c[1] \in A
    BY DEF AtMost
  <2>2. \A c : c \in AtMost(p, B, C) => c[1] \in B
    BY DEF AtMost
  <2>3. AtMost(p, A, C) \cap AtMost(p, B, C) = {}
    BY <2>1, <2>2
  <2>4. (A \cup B) \X C = (A \X C) \cup (B \X C)
    OBVIOUS
  <2> QED BY <2>3, <2>4 DEF AtMost
<1>4. IsFiniteSet(Less(p, A \cup B, C)) /\ IsFiniteSet(AtMost(p, A \cup B, C))
  BY <1>1, PairsFinite
<1> QED BY <1>2, <1>3, <1>4, CardSplits

\* Among the examples of one set, a pair is in order one way round or the
\* other, or equal both ways.
LEMMA PairsOfOneSet ==
  ASSUME NEW n \in Nat, NEW p, NEW A \in SUBSET (1 .. n), \A i \in 1 .. n : p[i] \in Int
  PROVE  Cardinality(Less(p, A, A)) + Cardinality(AtMost(p, A, A)) = Cardinality(A) * Cardinality(A)
<1> DEFINE Greater == {c \in A \X A : ~ (p[c[1]] <= p[c[2]])}
<1>1. \A c \in A \X A : p[c[1]] \in Int /\ p[c[2]] \in Int
  OBVIOUS
<1>2. A \X A = AtMost(p, A, A) \cup Greater /\ AtMost(p, A, A) \cap Greater = {}
  BY DEF AtMost
<1>3. /\ IsFiniteSet(A \X A) /\ Cardinality(A \X A) = Cardinality(A) * Cardinality(A)
      /\ Less(p, A, A) \in SUBSET (A \X A) /\ IsFiniteSet(Less(p, A, A))
  BY ProductFinite, PairsFinite
<1>4. Cardinality(Greater) = Cardinality(Less(p, A, A))
  <2>1. \A a \in A, b \in A : <<a, b>> \in Less(p, A, A) <=> <<b, a>> \in Greater
    BY <1>1 DEF Less
  <2>2. Greater \in SUBSET (A \X A)
    OBVIOUS
  <2> HIDE DEF Greater
  <2>3. AreConverse(Less(p, A, A), Greater, A, A)
    BY <1>3, <2>1, <2>2 DEF AreConverse
  <2> QED BY <1>3, <2>3, Conversed
<1> HIDE DEF Greater
<1>5. /\ Cardinality(A \X A) = Cardinality(AtMost(p, A, A)) + Cardinality(Greater)
      /\ Cardinality(AtMost(p, A, A)) \in Nat /\ Cardinality(Greater) \in Nat
  <2>1. IsFiniteSet(AtMost(p, A, A) \cup Greater)
    BY <1>2, <1>3
  <2>2. Cardinality(AtMost(p, A, A) \cup Greater) = Cardinality(AtMost(p, A, A)) + Cardinality(Greater)
    BY <1>2, <2>1, CardSplits
  <2>3. Cardinality(AtMost(p, A, A)) \in Nat /\ Cardinality(Less(p, A, A)) \in Nat
    BY PairsFinite
  <2> QED BY <1>2, <1>4, <2>2, <2>3
<1> QED BY <1>3, <1>4, <1>5

\* What the ranks of the positive examples count over the least they can be
\* are the pairs in order.
LEMMA RanksOverLeast ==
  ASSUME NEW n \in Nat, NEW p, NEW A \in SUBSET (1 .. n), NEW B \in SUBSET (1 .. n),
         Listed(p, n), \A i \in 1 .. n : p[i] \in Int, A \cap B = {}, A \cup B = 1 .. n
  PROVE  Ranks(p, A) - Cardinality(A) * (Cardinality(A) + 1)
           = Cardinality(Less(p, B, A)) + Cardinality(AtMost(p, B, A))
<1>1. Ranks(p, A) = Cardinality(Less(p, 1 .. n, A)) + Cardinality(AtMost(p, 1 .. n, A)) + Cardinality(A)
  BY RanksCountPairs
<1>2. /\ Cardinality(Less(p, 1 .. n, A)) = Cardinality(Less(p, A, A)) + Cardinality(Less(p, B, A))
      /\ Cardinality(AtMost(p, 1 .. n, A)) = Cardinality(AtMost(p, A, A)) + Cardinality(AtMost(p, B, A))
  <2>1. /\ Cardinality(Less(p, A \cup B, A)) = Cardinality(Less(p, A, A)) + Cardinality(Less(p, B, A))
        /\ Cardinality(AtMost(p, A \cup B, A))
             = Cardinality(AtMost(p, A, A)) + Cardinality(AtMost(p, B, A))
    <3>1. ASSUME NEW C \in SUBSET (1 .. n)
          PROVE  /\ Cardinality(Less(p, A \cup B, C))
                      = Cardinality(Less(p, A, C)) + Cardinality(Less(p, B, C))
                 /\ Cardinality(AtMost(p, A \cup B, C))
                      = Cardinality(AtMost(p, A, C)) + Cardinality(AtMost(p, B, C))
      BY PairsSplit
    <3> QED BY <3>1
  <2> QED BY <2>1
<1>3. Cardinality(Less(p, A, A)) + Cardinality(AtMost(p, A, A)) = Cardinality(A) * Cardinality(A)
  BY PairsOfOneSet
<1>4. /\ Cardinality(A) \in Nat /\ Cardinality(Less(p, A, A)) \in Nat /\ Cardinality(AtMost(p, A, A)) \in Nat
      /\ Cardinality(Less(p, B, A)) \in Nat /\ Cardinality(AtMost(p, B, A)) \in Nat
  BY ProductFinite, PairsFinite
<1>5. Cardinality(A) * (Cardinality(A) + 1) = Cardinality(A) * Cardinality(A) + Cardinality(A)
  BY <1>4
<1>6. PICK u, v, w, x, m, q : /\ u = Cardinality(Less(p, A, A)) /\ v = Cardinality(AtMost(p, A, A))
                          /\ w = Cardinality(Less(p, B, A)) /\ x = Cardinality(AtMost(p, B, A))
                          /\ m = Cardinality(A) /\ q = Cardinality(A) * Cardinality(A)
  OBVIOUS
<1>7. u \in Nat /\ v \in Nat /\ w \in Nat /\ x \in Nat /\ m \in Nat /\ u + v = q
  BY <1>3, <1>4, <1>6
<1>8. Ranks(p, A) = (u + w) + (v + x) + m /\ Cardinality(A) * (Cardinality(A) + 1) = q + m
  BY <1>1, <1>2, <1>5, <1>6
<1>9. ((u + w) + (v + x) + m) - (q + m) = w + x
  BY <1>7
<1> QED BY <1>6, <1>8, <1>9

\* The AUC, for labels 0 and 1 and scores that are numbers.
LEMMA AucCounts ==
  ASSUME NEW n \in Nat, NEW p, NEW y, Listed(p, n), Listed(y, n),
         \A i \in 1 .. n : p[i] \in Int /\ y[i] \in {0, 1}
  PROVE  LET pos == {i \in DOMAIN y : y[i] = 1}
             neg == {i \in DOMAIN y : y[i] = 0}
             pairs == pos \X neg
         IN  AucRoc(p, y).aggregate =
               IF pairs = {} THEN "nan"
               ELSE <<Cardinality({c \in pairs : p[c[1]] > p[c[2]]})
                        + Cardinality({c \in pairs : p[c[1]] >= p[c[2]]}),
                      2 * Cardinality(pairs)>>
<1> DEFINE pos == {i \in DOMAIN y : y[i] = 1}
           neg == {i \in DOMAIN y : y[i] = 0}
           more == {c \in pos \X neg : p[c[1]] > p[c[2]]}
           atLeast == {c \in pos \X neg : p[c[1]] >= p[c[2]]}
<1>1. pos \in SUBSET (1 .. n) /\ neg \in SUBSET (1 .. n) /\ pos \cap neg = {} /\ pos \cup neg = 1 .. n
  BY DEF Listed
<1>2. AucRoc(p, y).aggregate =
        IF pos = {} \/ neg = {} THEN "nan"
        ELSE <<Ranks(p, pos) - Cardinality(pos) * (Cardinality(pos) + 1),
               2 * Cardinality(pos) * Cardinality(neg)>>
  BY DEF AucRoc, Whole, Ranks
<1>3. \A i \in pos : p[i] \in Int
  BY <1>1
<1>4. \A i \in neg : p[i] \in Int
  BY <1>1
<1>5. more \in SUBSET (pos \X neg) /\ atLeast \in SUBSET (pos \X neg)
  OBVIOUS
<1>6. \A a \in neg, b \in pos : <<a, b>> \in Less(p, neg, pos) <=> <<b, a>> \in more
  BY <1>3, <1>4 DEF Less
<1>7. \A a \in neg, b \in pos : <<a, b>> \in AtMost(p, neg, pos) <=> <<b, a>> \in atLeast
  BY <1>3, <1>4 DEF AtMost
<1> HIDE DEF pos, neg, more, atLeast
<1>8. pos \X neg = {} <=> pos = {} \/ neg = {}
  <2>1. ASSUME NEW a \in pos, NEW b \in neg PROVE pos \X neg # {}
    BY <<a, b>> \in pos \X neg
  <2>2. pos = {} \/ neg = {} => pos \X neg = {}
    OBVIOUS
  <2> QED BY <2>1, <2>2
<1>9. /\ Cardinality(pos) \in Nat /\ Cardinality(neg) \in Nat
      /\ Cardinality(pos \X neg) = Cardinality(pos) * Cardinality(neg)
      /\ Less(p, neg, pos) \in SUBSET (neg \X pos) /\ IsFiniteSet(Less(p, neg, pos))
      /\ AtMost(p, neg, pos) \in SUBSET (neg \X pos) /\ IsFiniteSet(AtMost(p, neg, pos))
  <2>1. /\ Cardinality(pos) \in Nat /\ Cardinality(neg) \in Nat
        /\ Cardinality(pos \X neg) = Cardinality(pos) * Cardinality(neg)
    BY <1>1, ProductFinite
  <2>2. /\ Less(p, neg, pos) \in SUBSET (neg \X pos) /\ IsFiniteSet(Less(p, neg, pos))
        /\ AtMost(p, neg, pos) \in SUBSET (neg \X pos) /\ IsFiniteSet(AtMost(p, neg, pos))
    BY <1>1, PairsFinite
  <2> QED BY <2>1, <2>2
<1>10. Cardinality(more) = Cardinality(Less(p, neg, pos))
  <2>1. AreConverse(Less(p, neg, pos), more, neg, pos)
    BY <1>5, <1>6, <1>9 DEF AreConverse
  <2> QED BY <1>9, <2>1, Conversed
<1>11. Cardinality(atLeast) = Cardinality(AtMost(p, neg, pos))
  <2>1. AreConverse(AtMost(p, neg, pos), atLeast, neg, pos)
    BY <1>5, <1>7, <1>9 DEF AreConverse
  <2> QED BY <1>9, <2>1, Conversed
<1>12. Ranks(p, pos) - Cardinality(pos) * (Cardinality(pos) + 1)
         = Cardinality(more) + Cardinality(atLeast)
  BY <1>1, <1>10, <1>11, RanksOverLeast
<1>13. 2 * Cardinality(pos) * Cardinality(neg) = 2 * Cardinality(pos \X neg)
  BY <1>9
<1>14. AucRoc(p, y).aggregate =
         IF pos \X neg = {} THEN "nan"
         ELSE <<Cardinality(more) + Cardinality(atLeast), 2 * Cardinality(pos \X neg)>>
  BY <1>2, <1>8, <1>12, <1>13
<1> QED BY <1>14 DEF pos, neg, more, atLeast

----------------------------------------------------------------------------
(* Probabilities: bins.                                                    *)

\* The bins cut the range as the division does, its upper end being in the
\* last one.
LEMMA BinIsPart ==
  ASSUME NEW k \in 0 .. Scale, NEW i \in 0 .. Bins - 1
  PROVE  InBin(k, i, Bins, Scale) <=> PartOf(k) = i
<1>0. Scale \in Nat \ {0} /\ Bins \in Nat \ {0} /\ k \in Nat /\ i \in Nat
  BY ExecutionAssumption
<1>1. PICK K : K = k * Bins
  OBVIOUS
<1>2. K = Bins * k /\ K \in Nat
  BY <1>0, <1>1
<1>3. PICK q : q = K \div Scale
  OBVIOUS
<1>4. q \in Int /\ Scale * q <= K /\ K < Scale * q + Scale
  BY <1>0, <1>2, <1>3
<1>5. q \in Nat
  <2>1. SUFFICES ASSUME q <= -1 PROVE FALSE
    BY <1>4
  <2>2. PICK c \in Nat : q = -1 - c
    BY <2>1, <1>4, -1 - q \in Nat, q = -1 - (-1 - q)
  <2>3. Scale * q = - Scale - Scale * c /\ Scale * c \in Nat
    BY <1>0, <2>2
  <2> QED BY <1>0, <1>2, <1>4, <2>3
<1>6. q * Scale = Scale * q /\ (q + 1) * Scale = Scale * q + Scale
  BY <1>0, <1>5
<1>7. ASSUME NEW m \in Nat PROVE m * Scale <= K <=> m <= q
  <2>1. m <= q => m * Scale <= q * Scale
    BY <1>0, <1>5, TimesGrows
  <2>2. q + 1 <= m => (q + 1) * Scale <= m * Scale
    BY <1>0, <1>5, TimesGrows
  <2>3. PICK u, v : u = m * Scale /\ v = Scale * q
    OBVIOUS
  <2>4. u \in Nat /\ v \in Nat
    BY <1>0, <1>5, <2>3
  <2>5. m <= q => u <= v
    BY <1>6, <2>1, <2>3
  <2>6. q + 1 <= m => v + Scale <= u
    BY <1>6, <2>2, <2>3
  <2>7. v <= K /\ K < v + Scale
    BY <1>4, <2>3
  <2>8. u <= K <=> m <= q
    BY <1>0, <1>2, <1>5, <2>4, <2>5, <2>6, <2>7
  <2> QED BY <2>3, <2>8
<1>8. K <= Bins * Scale /\ Bins * Scale \in Nat
  <2>1. k * Bins <= Scale * Bins
    BY <1>0, TimesGrows
  <2> QED BY <1>0, <1>1, <2>1
<1>9. InBin(k, i, Bins, Scale) <=> i <= q /\ (i < Bins - 1 => ~ (i + 1 <= q))
  <2>1. i * Scale <= K <=> i <= q
    BY <1>0, <1>7
  <2>2. (i + 1) * Scale <= K <=> i + 1 <= q
    BY <1>0, <1>7
  <2>3. i * Scale \in Nat /\ (i + 1) * Scale \in Nat
    BY <1>0
  <2>4. CASE i < Bins - 1
    BY <1>2, <2>1, <2>2, <2>3, <2>4 DEF InBin
  <2>5. CASE ~ (i < Bins - 1)
    <3>1. i + 1 = Bins
      BY <1>0, <2>5
    <3> QED BY <1>2, <1>8, <2>1, <2>3, <2>5, <3>1 DEF InBin
  <2> QED BY <2>4, <2>5
<1>10. PartOf(k) = IF q <= Bins - 1 THEN q ELSE Bins - 1
  <2>1. PartOf(k) = Min({q, Bins - 1})
    BY <1>1, <1>3 DEF PartOf
  <2>2. Bins - 1 \in Int /\ q \in Int
    BY <1>0, <1>5
  <2> QED BY <2>1, <2>2, SmallerOfTwo
<1> QED BY <1>0, <1>5, <1>9, <1>10

\* The sum of some scores.
ScoreSum(p, S) == MapThenSumSet(LAMBDA e : p[e], S)
LEMMA ScoreSumTaken ==
  ASSUME NEW p, NEW S, NEW F, NEW g, IsFiniteSet(S),
         \A x \in S : F[x] = p[x], Sums(g, F, S)
  PROVE  ScoreSum(p, S) = g[S]
<1> DEFINE taken == CHOOSE f : f = [T \in SUBSET S |-> IF T = {} THEN 0
                      ELSE p[CHOOSE x \in T : TRUE] + f[T \ {CHOOSE x \in T : TRUE}]]
<1>1. ASSUME NEW T \in SUBSET S, T # {}
      PROVE  F[CHOOSE x \in T : TRUE] = p[CHOOSE x \in T : TRUE]
  <2>1. PICK x : x = CHOOSE z \in T : TRUE
    OBVIOUS
  <2>2. x \in T
    BY <1>1, <2>1
  <2>3. F[x] = p[x]
    BY <2>2
  <2> QED BY <2>1, <2>3
<1>2. ASSUME NEW f
      PROVE  Sums(f, F, S) <=>
               f = [T \in SUBSET S |-> IF T = {} THEN 0
                      ELSE p[CHOOSE x \in T : TRUE] + f[T \ {CHOOSE x \in T : TRUE}]]
  <2>1. [T \in SUBSET S |-> IF T = {} THEN 0
           ELSE F[CHOOSE x \in T : TRUE] + f[T \ {CHOOSE x \in T : TRUE}]]
          = [T \in SUBSET S |-> IF T = {} THEN 0
               ELSE p[CHOOSE x \in T : TRUE] + f[T \ {CHOOSE x \in T : TRUE}]]
    BY <1>1
  <2> QED BY <2>1, Zenon DEF Sums
<1>3. Sums(taken, F, S)
  <2>1. \E f : f = [T \in SUBSET S |-> IF T = {} THEN 0
                    ELSE p[CHOOSE x \in T : TRUE] + f[T \ {CHOOSE x \in T : TRUE}]]
    <3>1. g = [T \in SUBSET S |-> IF T = {} THEN 0
                 ELSE p[CHOOSE x \in T : TRUE] + g[T \ {CHOOSE x \in T : TRUE}]]
      BY <1>2
    <3> QED BY <3>1, Zenon
  <2>2. taken = [T \in SUBSET S |-> IF T = {} THEN 0
                    ELSE p[CHOOSE x \in T : TRUE] + taken[T \ {CHOOSE x \in T : TRUE}]]
    BY <2>1, Zenon
  <2> HIDE DEF taken
  <2> QED BY <1>2, <2>2
<1>4. ScoreSum(p, S) = taken[S]
  BY DEF ScoreSum, MapThenSumSet, MapThenFoldSet
<1> HIDE DEF taken
<1> QED BY <1>3, <1>4, OneSum

\* The sum of the differences of score and label.
GapSum(p, y, S) == MapThenSumSet(LAMBDA e : p[e] - Scale * y[e], S)
LEMMA GapSumTaken ==
  ASSUME NEW p, NEW y, NEW S, NEW F, NEW g, IsFiniteSet(S),
         \A x \in S : F[x] = (p[x] - Scale * y[x]), Sums(g, F, S)
  PROVE  GapSum(p, y, S) = g[S]
<1> DEFINE taken == CHOOSE f : f = [T \in SUBSET S |-> IF T = {} THEN 0
                      ELSE (p[CHOOSE x \in T : TRUE] - Scale * y[CHOOSE x \in T : TRUE]) + f[T \ {CHOOSE x \in T : TRUE}]]
<1>1. ASSUME NEW T \in SUBSET S, T # {}
      PROVE  F[CHOOSE x \in T : TRUE] = (p[CHOOSE x \in T : TRUE] - Scale * y[CHOOSE x \in T : TRUE])
  <2>1. PICK x : x = CHOOSE z \in T : TRUE
    OBVIOUS
  <2>2. x \in T
    BY <1>1, <2>1
  <2>3. F[x] = (p[x] - Scale * y[x])
    BY <2>2
  <2> QED BY <2>1, <2>3
<1>2. ASSUME NEW f
      PROVE  Sums(f, F, S) <=>
               f = [T \in SUBSET S |-> IF T = {} THEN 0
                      ELSE (p[CHOOSE x \in T : TRUE] - Scale * y[CHOOSE x \in T : TRUE]) + f[T \ {CHOOSE x \in T : TRUE}]]
  <2>1. [T \in SUBSET S |-> IF T = {} THEN 0
           ELSE F[CHOOSE x \in T : TRUE] + f[T \ {CHOOSE x \in T : TRUE}]]
          = [T \in SUBSET S |-> IF T = {} THEN 0
               ELSE (p[CHOOSE x \in T : TRUE] - Scale * y[CHOOSE x \in T : TRUE]) + f[T \ {CHOOSE x \in T : TRUE}]]
    BY <1>1
  <2> QED BY <2>1, Zenon DEF Sums
<1>3. Sums(taken, F, S)
  <2>1. \E f : f = [T \in SUBSET S |-> IF T = {} THEN 0
                    ELSE (p[CHOOSE x \in T : TRUE] - Scale * y[CHOOSE x \in T : TRUE]) + f[T \ {CHOOSE x \in T : TRUE}]]
    <3>1. g = [T \in SUBSET S |-> IF T = {} THEN 0
                 ELSE (p[CHOOSE x \in T : TRUE] - Scale * y[CHOOSE x \in T : TRUE]) + g[T \ {CHOOSE x \in T : TRUE}]]
      BY <1>2
    <3> QED BY <3>1, Zenon
  <2>2. taken = [T \in SUBSET S |-> IF T = {} THEN 0
                    ELSE (p[CHOOSE x \in T : TRUE] - Scale * y[CHOOSE x \in T : TRUE]) + taken[T \ {CHOOSE x \in T : TRUE}]]
    BY <2>1, Zenon
  <2> HIDE DEF taken
  <2> QED BY <1>2, <2>2
<1>4. GapSum(p, y, S) = taken[S]
  BY DEF GapSum, MapThenSumSet, MapThenFoldSet
<1> HIDE DEF taken
<1> QED BY <1>3, <1>4, OneSum

\* The sum of the gaps that the code takes.
BinSum(p, y, S) == MapThenSumSet(LAMBDA i : BinGap(p, y, i, Bins, Scale), S)
LEMMA BinSumTaken ==
  ASSUME NEW p, NEW y, NEW S, NEW F, NEW g, IsFiniteSet(S),
         \A x \in S : F[x] = BinGap(p, y, x, Bins, Scale), Sums(g, F, S)
  PROVE  BinSum(p, y, S) = g[S]
<1> DEFINE taken == CHOOSE f : f = [T \in SUBSET S |-> IF T = {} THEN 0
                      ELSE BinGap(p, y, CHOOSE x \in T : TRUE, Bins, Scale) + f[T \ {CHOOSE x \in T : TRUE}]]
<1>1. ASSUME NEW T \in SUBSET S, T # {}
      PROVE  F[CHOOSE x \in T : TRUE] = BinGap(p, y, CHOOSE x \in T : TRUE, Bins, Scale)
  <2>1. PICK x : x = CHOOSE z \in T : TRUE
    OBVIOUS
  <2>2. x \in T
    BY <1>1, <2>1
  <2>3. F[x] = BinGap(p, y, x, Bins, Scale)
    BY <2>2
  <2> QED BY <2>1, <2>3
<1>2. ASSUME NEW f
      PROVE  Sums(f, F, S) <=>
               f = [T \in SUBSET S |-> IF T = {} THEN 0
                      ELSE BinGap(p, y, CHOOSE x \in T : TRUE, Bins, Scale) + f[T \ {CHOOSE x \in T : TRUE}]]
  <2>1. [T \in SUBSET S |-> IF T = {} THEN 0
           ELSE F[CHOOSE x \in T : TRUE] + f[T \ {CHOOSE x \in T : TRUE}]]
          = [T \in SUBSET S |-> IF T = {} THEN 0
               ELSE BinGap(p, y, CHOOSE x \in T : TRUE, Bins, Scale) + f[T \ {CHOOSE x \in T : TRUE}]]
    BY <1>1
  <2> QED BY <2>1, Zenon DEF Sums
<1>3. Sums(taken, F, S)
  <2>1. \E f : f = [T \in SUBSET S |-> IF T = {} THEN 0
                    ELSE BinGap(p, y, CHOOSE x \in T : TRUE, Bins, Scale) + f[T \ {CHOOSE x \in T : TRUE}]]
    <3>1. g = [T \in SUBSET S |-> IF T = {} THEN 0
                 ELSE BinGap(p, y, CHOOSE x \in T : TRUE, Bins, Scale) + g[T \ {CHOOSE x \in T : TRUE}]]
      BY <1>2
    <3> QED BY <3>1, Zenon
  <2>2. taken = [T \in SUBSET S |-> IF T = {} THEN 0
                    ELSE BinGap(p, y, CHOOSE x \in T : TRUE, Bins, Scale) + taken[T \ {CHOOSE x \in T : TRUE}]]
    BY <2>1, Zenon
  <2> HIDE DEF taken
  <2> QED BY <1>2, <2>2
<1>4. BinSum(p, y, S) = taken[S]
  BY DEF BinSum, MapThenSumSet, MapThenFoldSet
<1> HIDE DEF taken
<1> QED BY <1>3, <1>4, OneSum

\* The sum of the gaps that ErrorCountsAll takes.
Part(p, i) == {e \in DOMAIN p : PartOf(p[e]) = i}
AbsGap(p, y, i) == IF GapSum(p, y, Part(p, i)) < 0 THEN - GapSum(p, y, Part(p, i))
                   ELSE GapSum(p, y, Part(p, i))
PartSum(p, y, S) == MapThenSumSet(LAMBDA i : AbsGap(p, y, i), S)
LEMMA PartSumTaken ==
  ASSUME NEW p, NEW y, NEW S, NEW F, NEW g, IsFiniteSet(S),
         \A x \in S : F[x] = AbsGap(p, y, x), Sums(g, F, S)
  PROVE  PartSum(p, y, S) = g[S]
<1> DEFINE taken == CHOOSE f : f = [T \in SUBSET S |-> IF T = {} THEN 0
                      ELSE AbsGap(p, y, CHOOSE x \in T : TRUE) + f[T \ {CHOOSE x \in T : TRUE}]]
<1>1. ASSUME NEW T \in SUBSET S, T # {}
      PROVE  F[CHOOSE x \in T : TRUE] = AbsGap(p, y, CHOOSE x \in T : TRUE)
  <2>1. PICK x : x = CHOOSE z \in T : TRUE
    OBVIOUS
  <2>2. x \in T
    BY <1>1, <2>1
  <2>3. F[x] = AbsGap(p, y, x)
    BY <2>2
  <2> QED BY <2>1, <2>3
<1>2. ASSUME NEW f
      PROVE  Sums(f, F, S) <=>
               f = [T \in SUBSET S |-> IF T = {} THEN 0
                      ELSE AbsGap(p, y, CHOOSE x \in T : TRUE) + f[T \ {CHOOSE x \in T : TRUE}]]
  <2>1. [T \in SUBSET S |-> IF T = {} THEN 0
           ELSE F[CHOOSE x \in T : TRUE] + f[T \ {CHOOSE x \in T : TRUE}]]
          = [T \in SUBSET S |-> IF T = {} THEN 0
               ELSE AbsGap(p, y, CHOOSE x \in T : TRUE) + f[T \ {CHOOSE x \in T : TRUE}]]
    BY <1>1
  <2> QED BY <2>1, Zenon DEF Sums
<1>3. Sums(taken, F, S)
  <2>1. \E f : f = [T \in SUBSET S |-> IF T = {} THEN 0
                    ELSE AbsGap(p, y, CHOOSE x \in T : TRUE) + f[T \ {CHOOSE x \in T : TRUE}]]
    <3>1. g = [T \in SUBSET S |-> IF T = {} THEN 0
                 ELSE AbsGap(p, y, CHOOSE x \in T : TRUE) + g[T \ {CHOOSE x \in T : TRUE}]]
      BY <1>2
    <3> QED BY <3>1, Zenon
  <2>2. taken = [T \in SUBSET S |-> IF T = {} THEN 0
                    ELSE AbsGap(p, y, CHOOSE x \in T : TRUE) + taken[T \ {CHOOSE x \in T : TRUE}]]
    BY <2>1, Zenon
  <2> HIDE DEF taken
  <2> QED BY <1>2, <2>2
<1>4. PartSum(p, y, S) = taken[S]
  BY DEF PartSum, MapThenSumSet, MapThenFoldSet
<1> HIDE DEF taken
<1> QED BY <1>3, <1>4, OneSum

\* The ones among some examples.
Ones(y, T) == Cardinality({e \in T : y[e] = 1})
LEMMA OnesSplit ==
  ASSUME NEW y, NEW T, NEW x \in T, IsFiniteSet(T), y[x] \in {0, 1}
  PROVE  Ones(y, T) = y[x] + Ones(y, T \ {x}) /\ Ones(y, T) \in Nat /\ Ones(y, T \ {x}) \in Nat
<1> DEFINE A == {e \in T : y[e] = 1}
           B == {e \in T \ {x} : y[e] = 1}
<1>1. IsFiniteSet(A) /\ IsFiniteSet(B)
  BY FS_Subset, A \subseteq T, B \subseteq T
<1>2. Cardinality(A) \in Nat /\ Cardinality(B) \in Nat
  BY <1>1, FS_CardinalityType
<1>3. CASE y[x] = 0
  <2>1. A = B
    BY <1>3
  <2> QED BY <1>2, <1>3, <2>1 DEF Ones
<1>4. CASE y[x] = 1
  <2>1. B = A \ {x} /\ x \in A
    BY <1>4
  <2> HIDE DEF A, B
  <2>2. Cardinality(B) = Cardinality(A) - 1
    BY <1>1, <2>1, FS_RemoveElement
  <2> QED BY <1>2, <1>4, <2>2 DEF Ones, A, B
<1> QED BY <1>3, <1>4

\* The sum of the differences is the difference of the sums.
LEMMA GapSplits ==
  ASSUME NEW p, NEW y, NEW S, IsFiniteSet(S), \A e \in S : p[e] \in Int /\ y[e] \in {0, 1}
  PROVE  GapSum(p, y, S) = ScoreSum(p, S) - Scale * Ones(y, S) /\ GapSum(p, y, S) \in Int
<1> DEFINE F == [e \in S |-> p[e]]
           G == [e \in S |-> p[e] - Scale * y[e]]
<1>0. Scale \in Nat
  BY ExecutionAssumption
<1>1. F \in [S -> Int] /\ (\A e \in S : F[e] = p[e]) /\ \A e \in S : G[e] = p[e] - Scale * y[e]
  OBVIOUS
<1>2. G \in [S -> Int]
  BY <1>0
<1> HIDE DEF F, G
<1>3. PICK f \in [SUBSET S -> Int] : Sums(f, F, S)
  BY <1>1, SumExists
<1> DEFINE g == [T \in SUBSET S |-> f[T] - Scale * Ones(y, T)]
<1>4. \A T \in SUBSET S : IsFiniteSet(T) /\ Ones(y, T) \in Nat
  <2>1. ASSUME NEW T \in SUBSET S PROVE Ones(y, T) \in Nat
    <3>1. {e \in T : y[e] = 1} \in SUBSET S
      OBVIOUS
    <3> QED BY <3>1, FS_Subset, FS_CardinalityType DEF Ones
  <2> QED BY <2>1, FS_Subset
<1>5. ASSUME NEW T \in SUBSET S, T # {}, NEW x \in T, x = CHOOSE z \in T : TRUE
      PROVE  g[T] = G[x] + g[T \ {x}]
  <2>1. f[T] = F[x] + f[T \ {x}]
    BY <1>3, <1>5 DEF Sums
  <2>2. x \in S /\ T \ {x} \in SUBSET S
    OBVIOUS
  <2>3. Ones(y, T) = y[x] + Ones(y, T \ {x}) /\ Ones(y, T \ {x}) \in Nat
    <3>1. IsFiniteSet(T) /\ y[x] \in {0, 1}
      BY <1>4, <2>2
    <3> HIDE DEF g
    <3> QED BY <3>1, OnesSplit
  <2>4. PICK a, b, c, d : a = p[x] /\ b = f[T \ {x}] /\ c = y[x] /\ d = Ones(y, T \ {x})
    OBVIOUS
  <2>5. a \in Int /\ b \in Int /\ c \in {0, 1} /\ d \in Nat
    BY <2>2, <2>3, <2>4
  <2>6. g[T] = (a + b) - Scale * (c + d)
    BY <1>1, <2>1, <2>2, <2>3, <2>4
  <2>7. G[x] = a - Scale * c /\ g[T \ {x}] = b - Scale * d
    BY <1>1, <2>2, <2>4
  <2> HIDE DEF g
  <2>8. (a + b) - Scale * (c + d) = (a - Scale * c) + (b - Scale * d)
    BY <1>0, <2>5
  <2> QED BY <2>6, <2>7, <2>8
<1>6. g[{}] = 0
  <2>1. {e \in {} : y[e] = 1} = {}
    OBVIOUS
  <2>2. Ones(y, {}) = 0
    BY <2>1, FS_EmptySet DEF Ones
  <2>3. f[{}] = 0
    BY <1>3 DEF Sums
  <2> QED BY <1>0, <2>2, <2>3
<1>7. g = [T \in SUBSET S |-> g[T]]
  OBVIOUS
<1>8. g[S] = f[S] - Scale * Ones(y, S) /\ f[S] \in Int /\ Ones(y, S) \in Nat
  BY <1>4
<1> HIDE DEF g
<1>9. \A T \in SUBSET S : g[T] = IF T = {} THEN 0
                                 ELSE G[CHOOSE x \in T : TRUE] + g[T \ {CHOOSE x \in T : TRUE}]
  <2>1. ASSUME NEW T \in SUBSET S, T # {}
        PROVE  g[T] = G[CHOOSE x \in T : TRUE] + g[T \ {CHOOSE x \in T : TRUE}]
    <3>1. PICK x : x = CHOOSE z \in T : TRUE
      OBVIOUS
    <3>2. x \in T
      BY <2>1, <3>1
    <3>3. g[T] = G[x] + g[T \ {x}]
      BY <1>5, <2>1, <3>1, <3>2
    <3> QED BY <3>1, <3>3
  <2> QED BY <1>6, <2>1
<1>10. Sums(g, G, S)
  BY <1>7, <1>9 DEF Sums
<1>11. ScoreSum(p, S) = f[S]
  BY <1>1, <1>3, ScoreSumTaken
<1>12. GapSum(p, y, S) = g[S]
  BY <1>1, <1>10, GapSumTaken
<1> QED BY <1>0, <1>8, <1>11, <1>12

\* The calibration error, for labels 0 and 1 and scores in the range.
LEMMA EceCounts ==
  ASSUME NEW n \in Nat, NEW p, NEW y, Listed(p, n), Listed(y, n),
         \A e \in 1 .. n : p[e] \in 0 .. Scale /\ y[e] \in {0, 1}
  PROVE  Ece(p, y, Bins, Scale).aggregate = Ratio(PartSum(p, y, 0 .. Bins - 1), Scale * Len(p))
<1> DEFINE D == 0 .. Bins - 1
           F == [i \in D |-> AbsGap(p, y, i)]
<1>1. IsFiniteSet(D)
  BY FS_Interval, ExecutionAssumption
<1>2. ASSUME NEW i \in D
      PROVE  BinGap(p, y, i, Bins, Scale) = AbsGap(p, y, i) /\ AbsGap(p, y, i) \in Int
  <2> DEFINE mask == {e \in DOMAIN p : InBin(p[e], i, Bins, Scale)}
  <2>1. mask = Part(p, i)
    BY BinIsPart DEF Part, Listed
  <2>2. Part(p, i) \in SUBSET (1 .. n)
    BY DEF Part, Listed
  <2>3. IsFiniteSet(Part(p, i))
    BY <2>2, FS_Interval, FS_Subset
  <2>4. \A e \in Part(p, i) : p[e] \in Int /\ y[e] \in {0, 1}
    BY <2>2, ExecutionAssumption
  <2>5. /\ GapSum(p, y, Part(p, i)) = ScoreSum(p, Part(p, i)) - Scale * Ones(y, Part(p, i))
        /\ GapSum(p, y, Part(p, i)) \in Int
    BY <2>3, <2>4, GapSplits
  <2>6. BinGap(p, y, i, Bins, Scale)
          = IF ScoreSum(p, mask) - Scale * Ones(y, mask) < 0
            THEN - (ScoreSum(p, mask) - Scale * Ones(y, mask))
            ELSE ScoreSum(p, mask) - Scale * Ones(y, mask)
    BY DEF BinGap, ScoreSum, Ones
  <2> HIDE DEF mask
  <2> QED BY <2>1, <2>5, <2>6 DEF AbsGap
<1>3. F \in [D -> Int] /\ (\A i \in D : F[i] = AbsGap(p, y, i))
        /\ \A i \in D : F[i] = BinGap(p, y, i, Bins, Scale)
  BY <1>2
<1> HIDE DEF F, D
<1>4. PICK g \in [SUBSET D -> Int] : Sums(g, F, D)
  BY <1>1, <1>3, SumExists
<1>5. BinSum(p, y, D) = g[D]
  BY <1>1, <1>3, <1>4, BinSumTaken
<1>6. PartSum(p, y, D) = g[D]
  BY <1>1, <1>3, <1>4, PartSumTaken
<1>7. Ece(p, y, Bins, Scale).aggregate = Ratio(BinSum(p, y, D), Scale * Len(p))
  BY DEF Ece, Whole, BinSum, D
<1> QED BY <1>5, <1>6, <1>7 DEF D

----------------------------------------------------------------------------
(* Texts: the best alignment of two prefixes.  The error rates want the    *)
(* most pairs and matches together, ROUGE-L the most matches: one score    *)
(* with a weight w of 1 or 0 for a pair.                                   *)

Aligned(i, j) == {S \in SUBSET ((1 .. i) \X (1 .. j)) : InOrder(S)}
Score(w, S, a, b) == w * Cardinality(S) + Matches(S, a, b)
Scores(w, i, j, a, b) == {Score(w, S, a, b) : S \in Aligned(i, j)}
Best(w, i, j, a, b) == Max(Scores(w, i, j, a, b))
Equals(s, a, b) == IF a[s[1]] = b[s[2]] THEN 1 ELSE 0

LEMMA AlignedIsFinite ==
  ASSUME NEW i \in Nat, NEW j \in Nat, NEW S \in Aligned(i, j)
  PROVE  IsFiniteSet(S) /\ Cardinality(S) \in 0 .. i * j
<1>1. IsFiniteSet(1 .. i) /\ Cardinality(1 .. i) = i /\ IsFiniteSet(1 .. j) /\ Cardinality(1 .. j) = j
  BY FS_Interval
<1>2. IsFiniteSet((1 .. i) \X (1 .. j)) /\ Cardinality((1 .. i) \X (1 .. j)) = i * j
  BY <1>1, FS_Product, ZenonT(40)
<1>3. S \subseteq (1 .. i) \X (1 .. j)
  BY DEF Aligned
<1>4. IsFiniteSet(S) /\ Cardinality(S) <= i * j
  BY <1>2, <1>3, FS_Subset
<1>5. Cardinality(S) \in Nat /\ i * j \in Nat
  BY <1>4, FS_CardinalityType
<1> QED BY <1>4, <1>5

LEMMA ScoreIsNumber ==
  ASSUME NEW w \in {0, 1}, NEW S, NEW a, NEW b, IsFiniteSet(S)
  PROVE  Score(w, S, a, b) \in Nat /\ Score(w, S, a, b) <= 2 * Cardinality(S)
<1> DEFINE E == {s \in S : a[s[1]] = b[s[2]]}
<1>1. IsFiniteSet(E) /\ Cardinality(E) <= Cardinality(S)
  BY FS_Subset, E \subseteq S
<1>2. Cardinality(E) \in Nat /\ Cardinality(S) \in Nat
  BY <1>1, FS_CardinalityType
<1> QED BY <1>1, <1>2 DEF Score, Matches

\* What one pair is worth.
LEMMA PairCounts ==
  ASSUME NEW w \in {0, 1}, NEW S, NEW s \in S, NEW a, NEW b, IsFiniteSet(S)
  PROVE  Score(w, S, a, b) = Score(w, S \ {s}, a, b) + w + Equals(s, a, b)
<1> DEFINE E == {t \in S : a[t[1]] = b[t[2]]}
           D == {t \in S \ {s} : a[t[1]] = b[t[2]]}
<1>1. IsFiniteSet(E) /\ IsFiniteSet(D)
  BY FS_Subset, E \subseteq S, D \subseteq S
<1>2. Cardinality(E) \in Nat /\ Cardinality(D) \in Nat /\ Cardinality(S) \in Nat
  BY <1>1, FS_CardinalityType
<1>3. Cardinality(S \ {s}) = Cardinality(S) - 1
  BY FS_RemoveElement
<1>4. Cardinality(E) = Cardinality(D) + Equals(s, a, b)
  <2>1. CASE a[s[1]] = b[s[2]]
    <3>1. s \in E /\ D = E \ {s}
      BY <2>1
    <3> HIDE DEF E, D
    <3>2. Cardinality(D) = Cardinality(E) - 1
      BY <1>1, <3>1, FS_RemoveElement
    <3> QED BY <1>2, <2>1, <3>2 DEF Equals
  <2>2. CASE a[s[1]] # b[s[2]]
    <3>1. D = E
      BY <2>2
    <3> QED BY <1>2, <2>2, <3>1 DEF Equals
  <2> QED BY <2>1, <2>2
<1>5. Matches(S, a, b) = Cardinality(E) /\ Matches(S \ {s}, a, b) = Cardinality(D)
  BY DEF Matches
<1>6. Equals(s, a, b) \in {0, 1}
  BY DEF Equals
<1> HIDE DEF E, D
<1>7. PICK c, d, e : c = Cardinality(S \ {s}) /\ d = Cardinality(D) /\ e = Equals(s, a, b)
  OBVIOUS
<1>8. c \in Int /\ d \in Int /\ e \in {0, 1} /\ Cardinality(S) = c + 1
  BY <1>2, <1>3, <1>4, <1>6, <1>7
<1>9. w * (c + 1) = w * c + w /\ w * c \in Int
  BY <1>8
<1>10. Score(w, S, a, b) = w * (c + 1) + (d + e) /\ Score(w, S \ {s}, a, b) = w * c + d
  BY <1>4, <1>5, <1>7, <1>8 DEF Score
<1> QED BY <1>7, <1>8, <1>9, <1>10

\* There is a best alignment, and no other is better.
LEMMA BestIsReached ==
  ASSUME NEW w \in {0, 1}, NEW i \in Nat, NEW j \in Nat, NEW a, NEW b
  PROVE  /\ Best(w, i, j, a, b) \in Nat
         /\ \E S \in Aligned(i, j) : Score(w, S, a, b) = Best(w, i, j, a, b)
         /\ \A S \in Aligned(i, j) : Score(w, S, a, b) <= Best(w, i, j, a, b)
<1> DEFINE T == Scores(w, i, j, a, b)
<1>1. {} \in Aligned(i, j)
  BY DEF Aligned, InOrder
<1>2. ASSUME NEW S \in Aligned(i, j) PROVE Score(w, S, a, b) \in 0 .. 2 * (i * j)
  <2>1. IsFiniteSet(S) /\ Cardinality(S) \in 0 .. i * j
    BY AlignedIsFinite
  <2>2. Score(w, S, a, b) \in Nat /\ Score(w, S, a, b) <= 2 * Cardinality(S)
    BY <2>1, ScoreIsNumber
  <2>3. PICK k \in Nat : k = i * j
    OBVIOUS
  <2> QED BY <2>1, <2>2, <2>3
<1>3. T \subseteq 0 .. 2 * (i * j) /\ T # {}
  BY <1>1, <1>2 DEF Scores
<1>4. PICK k \in Nat : k = 2 * (i * j)
  OBVIOUS
<1> HIDE DEF T
<1>5. Max(T) \in T /\ \A x \in T : x <= Max(T)
  BY <1>3, <1>4, Greatest
<1>6. Best(w, i, j, a, b) = Max(T)
  BY DEF Best, T
<1>7. Max(T) \in Nat
  <2>1. \A x \in T : x \in Nat
    BY <1>3, <1>4
  <2> QED BY <1>5, <2>1
<1> QED BY <1>5, <1>6, <1>7 DEF T, Scores

\* The alignments of longer prefixes.
LEMMA AlignedGrows ==
  ASSUME NEW i \in Nat \ {0}, NEW j \in Nat \ {0}
  PROVE  /\ Aligned(i - 1, j) \subseteq Aligned(i, j) /\ Aligned(i, j - 1) \subseteq Aligned(i, j)
         /\ Aligned(i - 1, j - 1) \subseteq Aligned(i - 1, j)
         /\ \A S \in Aligned(i - 1, j - 1) :
              <<i, j>> \notin S /\ S \cup {<<i, j>>} \in Aligned(i, j)
<1>1. \A k \in Nat \ {0} : 1 .. k - 1 \subseteq 1 .. k
  OBVIOUS
<1>2. /\ (1 .. i - 1) \X (1 .. j) \subseteq (1 .. i) \X (1 .. j)
      /\ (1 .. i) \X (1 .. j - 1) \subseteq (1 .. i) \X (1 .. j)
      /\ (1 .. i - 1) \X (1 .. j - 1) \subseteq (1 .. i - 1) \X (1 .. j)
  BY <1>1
<1>3. ASSUME NEW S \in Aligned(i - 1, j - 1)
      PROVE  <<i, j>> \notin S /\ S \cup {<<i, j>>} \in Aligned(i, j)
  <2>1. \A s \in S : s \in (1 .. i - 1) \X (1 .. j - 1)
    BY DEF Aligned
  <2>2. \A s \in S : s[1] < i /\ s[2] < j /\ s[1] \in Int /\ s[2] \in Int /\ s \in (1 .. i) \X (1 .. j)
    BY <2>1
  <2>3. InOrder(S \cup {<<i, j>>})
    <3>1. InOrder(S)
      BY DEF Aligned
    <3>2. <<i, j>>[1] = i /\ <<i, j>>[2] = j
      OBVIOUS
    <3> QED BY <2>2, <3>1, <3>2 DEF InOrder
  <2>4. <<i, j>> \in (1 .. i) \X (1 .. j)
    OBVIOUS
  <2> QED BY <2>2, <2>3, <2>4 DEF Aligned
<1> QED BY <1>2, <1>3 DEF Aligned

\* An alignment has the last pair, or leaves one of the last two tokens out.
LEMMA AlignedShrinks ==
  ASSUME NEW i \in Nat \ {0}, NEW j \in Nat \ {0}, NEW S \in Aligned(i, j)
  PROVE  \/ <<i, j>> \in S /\ S \ {<<i, j>>} \in Aligned(i - 1, j - 1)
         \/ S \in Aligned(i - 1, j) \/ S \in Aligned(i, j - 1)
<1>1. InOrder(S) /\ \A s \in S : /\ s[1] \in 1 .. i /\ s[2] \in 1 .. j /\ s = <<s[1], s[2]>>
  BY DEF Aligned
<1>2. \A T \in SUBSET S : InOrder(T)
  BY <1>1 DEF InOrder
<1>3. CASE <<i, j>> \in S
  <2>1. PICK t \in S : t = <<i, j>>
    BY <1>3
  <2>2. t[1] = i /\ t[2] = j
    BY <2>1
  <2>3. \A s \in S \ {t} : s[1] \in 1 .. i - 1 /\ s[2] \in 1 .. j - 1
    BY <1>1, <2>2 DEF InOrder
  <2>4. \A s \in S \ {t} : s \in (1 .. i - 1) \X (1 .. j - 1)
    BY <1>1, <2>3
  <2> QED BY <1>2, <1>3, <2>1, <2>4 DEF Aligned
<1>4. CASE <<i, j>> \notin S /\ \E s \in S : s[1] = i
  <2>1. PICK s \in S : s[1] = i
    BY <1>4
  <2>2. s[2] < j
    BY <1>1, <1>4, <2>1
  <2>3. \A t \in S : t[2] \in 1 .. j - 1
    BY <1>1, <2>1, <2>2 DEF InOrder
  <2>4. \A t \in S : t \in (1 .. i) \X (1 .. j - 1)
    BY <1>1, <2>3
  <2> QED BY <1>1, <2>4 DEF Aligned
<1>5. CASE \A s \in S : s[1] # i
  <2>1. \A t \in S : t[1] \in 1 .. i - 1
    BY <1>1, <1>5
  <2>2. \A t \in S : t \in (1 .. i - 1) \X (1 .. j)
    BY <1>1, <2>1
  <2> QED BY <1>1, <2>2 DEF Aligned
<1> QED BY <1>3, <1>4, <1>5

\* Without a prefix's last token, an alignment has lost one pair at the most.
LEMMA AlignedLosesOne ==
  ASSUME NEW i \in Nat, NEW j \in Nat, NEW S
  PROVE  /\ i # 0 /\ S \in Aligned(i, j) =>
              S \in Aligned(i - 1, j) \/ \E s \in S : S \ {s} \in Aligned(i - 1, j)
         /\ j # 0 /\ S \in Aligned(i, j) =>
              S \in Aligned(i, j - 1) \/ \E s \in S : S \ {s} \in Aligned(i, j - 1)
<1>1. ASSUME S \in Aligned(i, j)
      PROVE  /\ InOrder(S) /\ \A T \in SUBSET S : InOrder(T)
             /\ \A s \in S : /\ s[1] \in 1 .. i /\ s[2] \in 1 .. j /\ s = <<s[1], s[2]>>
  BY <1>1 DEF Aligned, InOrder
<1>2. ASSUME i # 0, S \in Aligned(i, j)
      PROVE  S \in Aligned(i - 1, j) \/ \E s \in S : S \ {s} \in Aligned(i - 1, j)
  <2>1. CASE \E s \in S : s[1] = i
    <3>1. PICK s \in S : s[1] = i
      BY <2>1
    <3>2. \A t \in S \ {s} : t[1] \in 1 .. i - 1
      BY <1>1, <1>2, <3>1 DEF InOrder
    <3>3. \A t \in S \ {s} : t \in (1 .. i - 1) \X (1 .. j)
      BY <1>1, <1>2, <3>2
    <3>4. S \ {s} \in Aligned(i - 1, j)
      BY <1>1, <1>2, <3>3 DEF Aligned
    <3> QED BY <3>4
  <2>2. CASE \A s \in S : s[1] # i
    <3>1. \A t \in S : t[1] \in 1 .. i - 1
      BY <1>1, <1>2, <2>2
    <3>2. \A t \in S : t \in (1 .. i - 1) \X (1 .. j)
      BY <1>1, <1>2, <3>1
    <3> QED BY <1>1, <1>2, <3>2 DEF Aligned
  <2> QED BY <2>1, <2>2
<1>3. ASSUME j # 0, S \in Aligned(i, j)
      PROVE  S \in Aligned(i, j - 1) \/ \E s \in S : S \ {s} \in Aligned(i, j - 1)
  <2>1. CASE \E s \in S : s[2] = j
    <3>1. PICK s \in S : s[2] = j
      BY <2>1
    <3>2. \A t \in S \ {s} : t[2] \in 1 .. j - 1
      BY <1>1, <1>3, <3>1 DEF InOrder
    <3>3. \A t \in S \ {s} : t \in (1 .. i) \X (1 .. j - 1)
      BY <1>1, <1>3, <3>2
    <3>4. S \ {s} \in Aligned(i, j - 1)
      BY <1>1, <1>3, <3>3 DEF Aligned
    <3> QED BY <3>4
  <2>2. CASE \A s \in S : s[2] # j
    <3>1. \A t \in S : t[2] \in 1 .. j - 1
      BY <1>1, <1>3, <2>2
    <3>2. \A t \in S : t \in (1 .. i) \X (1 .. j - 1)
      BY <1>1, <1>3, <3>1
    <3> QED BY <1>1, <1>3, <3>2 DEF Aligned
  <2> QED BY <2>1, <2>2
<1> QED BY <1>2, <1>3

LEMMA BestOfNothing ==
  ASSUME NEW w \in {0, 1}, NEW i \in Nat, NEW j \in Nat, NEW a, NEW b, i = 0 \/ j = 0
  PROVE  Best(w, i, j, a, b) = 0
<1>1. \A S \in Aligned(i, j) : S = {}
  BY DEF Aligned
<1>2. Score(w, {}, a, b) = 0
  <2>1. {s \in {} : a[s[1]] = b[s[2]]} = {}
    OBVIOUS
  <2>2. Matches({}, a, b) = 0 /\ Cardinality({}) = 0
    BY <2>1, FS_EmptySet DEF Matches
  <2> QED BY <2>2 DEF Score
<1>3. PICK S \in Aligned(i, j) : Score(w, S, a, b) = Best(w, i, j, a, b)
  BY BestIsReached
<1> QED BY <1>1, <1>2, <1>3

\* Longer prefixes align no worse, and one token more is worth one pair.
LEMMA BestGrows ==
  ASSUME NEW w \in {0, 1}, NEW i \in Nat \ {0}, NEW j \in Nat \ {0}, NEW a, NEW b
  PROVE  /\ Best(w, i - 1, j, a, b) <= Best(w, i, j, a, b)
         /\ Best(w, i, j - 1, a, b) <= Best(w, i, j, a, b)
         /\ Best(w, i - 1, j - 1, a, b) <= Best(w, i - 1, j, a, b)
         /\ Best(w, i - 1, j - 1, a, b) + w + Equals(<<i, j>>, a, b) <= Best(w, i, j, a, b)
<1>0. i - 1 \in Nat /\ j - 1 \in Nat /\ i \in Nat /\ j \in Nat
  OBVIOUS
<1>1. Best(w, i - 1, j, a, b) <= Best(w, i, j, a, b)
  <2>1. PICK S \in Aligned(i - 1, j) : Score(w, S, a, b) = Best(w, i - 1, j, a, b)
    BY <1>0, BestIsReached
  <2>2. S \in Aligned(i, j)
    BY AlignedGrows
  <2> QED BY <1>0, <2>1, <2>2, BestIsReached
<1>2. Best(w, i, j - 1, a, b) <= Best(w, i, j, a, b)
  <2>1. PICK S \in Aligned(i, j - 1) : Score(w, S, a, b) = Best(w, i, j - 1, a, b)
    BY <1>0, BestIsReached
  <2>2. S \in Aligned(i, j)
    BY AlignedGrows
  <2> QED BY <1>0, <2>1, <2>2, BestIsReached
<1>3. PICK S \in Aligned(i - 1, j - 1) : Score(w, S, a, b) = Best(w, i - 1, j - 1, a, b)
  <2>1. PICK m : m = Best(w, i - 1, j - 1, a, b)
    OBVIOUS
  <2>2. \E S \in Aligned(i - 1, j - 1) : Score(w, S, a, b) = m
    BY <1>0, <2>1, BestIsReached
  <2> QED BY <2>1, <2>2
<1>4. Best(w, i - 1, j - 1, a, b) <= Best(w, i - 1, j, a, b)
  <2>1. S \in Aligned(i - 1, j)
    BY AlignedGrows
  <2> QED BY <1>0, <1>3, <2>1, BestIsReached
<1>5. Best(w, i - 1, j - 1, a, b) + w + Equals(<<i, j>>, a, b) <= Best(w, i, j, a, b)
  <2>1. PICK s : s = <<i, j>>
    OBVIOUS
  <2>2. PICK T : T = S \cup {s}
    OBVIOUS
  <2>3. s \notin S /\ T \in Aligned(i, j)
    BY <2>1, <2>2, AlignedGrows
  <2>4. T \ {s} = S /\ s \in T
    BY <2>2, <2>3
  <2>5. IsFiniteSet(T)
    BY <1>0, <2>3, AlignedIsFinite
  <2>6. Score(w, T, a, b) = Score(w, S, a, b) + w + Equals(s, a, b)
    BY <2>4, <2>5, PairCounts
  <2>7. Score(w, T, a, b) <= Best(w, i, j, a, b)
    BY <1>0, <2>3, BestIsReached
  <2> QED BY <1>3, <2>1, <2>6, <2>7
<1> QED BY <1>1, <1>2, <1>4, <1>5

LEMMA BestShrinks ==
  ASSUME NEW w \in {0, 1}, NEW i \in Nat \ {0}, NEW j \in Nat \ {0}, NEW a, NEW b
  PROVE  \/ Best(w, i, j, a, b) <= Best(w, i - 1, j - 1, a, b) + w + Equals(<<i, j>>, a, b)
         \/ Best(w, i, j, a, b) <= Best(w, i - 1, j, a, b)
         \/ Best(w, i, j, a, b) <= Best(w, i, j - 1, a, b)
<1>0. i - 1 \in Nat /\ j - 1 \in Nat /\ i \in Nat /\ j \in Nat
  OBVIOUS
<1>1. PICK S \in Aligned(i, j) : Score(w, S, a, b) = Best(w, i, j, a, b)
  BY <1>0, BestIsReached
<1>2. PICK s : s = <<i, j>>
  OBVIOUS
<1>3. \/ s \in S /\ S \ {s} \in Aligned(i - 1, j - 1)
      \/ S \in Aligned(i - 1, j) \/ S \in Aligned(i, j - 1)
  BY <1>2, AlignedShrinks
<1>4. CASE s \in S /\ S \ {s} \in Aligned(i - 1, j - 1)
  <2>1. IsFiniteSet(S)
    BY <1>0, AlignedIsFinite
  <2>2. Score(w, S, a, b) = Score(w, S \ {s}, a, b) + w + Equals(s, a, b)
    BY <1>4, <2>1, PairCounts
  <2>3. Score(w, S \ {s}, a, b) <= Best(w, i - 1, j - 1, a, b) /\ Best(w, i - 1, j - 1, a, b) \in Nat
    BY <1>0, <1>4, BestIsReached
  <2>4. Score(w, S \ {s}, a, b) \in Nat
    <3>1. IsFiniteSet(S \ {s})
      BY <1>0, <1>4, AlignedIsFinite
    <3> QED BY <3>1, ScoreIsNumber
  <2>5. Equals(s, a, b) \in {0, 1}
    BY DEF Equals
  <2>6. Score(w, S, a, b) <= Best(w, i - 1, j - 1, a, b) + w + Equals(s, a, b)
    BY <2>2, <2>3, <2>4, <2>5
  <2> QED BY <1>1, <1>2, <2>6
<1>5. CASE S \in Aligned(i - 1, j)
  BY <1>0, <1>1, <1>5, BestIsReached
<1>6. CASE S \in Aligned(i, j - 1)
  BY <1>0, <1>1, <1>6, BestIsReached
<1> QED BY <1>3, <1>4, <1>5, <1>6

LEMMA BestLosesOne ==
  ASSUME NEW w \in {0, 1}, NEW i \in Nat, NEW j \in Nat, NEW a, NEW b
  PROVE  /\ i # 0 => Best(w, i, j, a, b) <= Best(w, i - 1, j, a, b) + w + 1
         /\ j # 0 => Best(w, i, j, a, b) <= Best(w, i, j - 1, a, b) + w + 1
<1>1. PICK S \in Aligned(i, j) : Score(w, S, a, b) = Best(w, i, j, a, b)
  BY BestIsReached
<1>2. ASSUME NEW k \in Nat, NEW l \in Nat, S \in Aligned(k, l) \/ \E s \in S : S \ {s} \in Aligned(k, l)
      PROVE  Best(w, i, j, a, b) <= Best(w, k, l, a, b) + w + 1
  <2>1. Best(w, k, l, a, b) \in Nat
    BY BestIsReached
  <2>2. Best(w, i, j, a, b) \in Nat
    BY BestIsReached
  <2>3. CASE S \in Aligned(k, l)
    <3>1. Score(w, S, a, b) <= Best(w, k, l, a, b)
      BY <2>3, BestIsReached
    <3> QED BY <1>1, <2>1, <2>2, <3>1
  <2>4. CASE \E s \in S : S \ {s} \in Aligned(k, l)
    <3>1. PICK s \in S : S \ {s} \in Aligned(k, l)
      BY <2>4
    <3>2. IsFiniteSet(S)
      BY AlignedIsFinite
    <3>3. Score(w, S, a, b) = Score(w, S \ {s}, a, b) + w + Equals(s, a, b)
      BY <3>2, PairCounts
    <3>4. Score(w, S \ {s}, a, b) <= Best(w, k, l, a, b)
      BY <3>1, BestIsReached
    <3>5. Score(w, S \ {s}, a, b) \in Nat
      <4>1. IsFiniteSet(S \ {s})
        BY <3>1, AlignedIsFinite
      <4> QED BY <4>1, ScoreIsNumber
    <3>6. Equals(s, a, b) \in {0, 1}
      BY DEF Equals
    <3> QED BY <1>1, <2>1, <2>2, <3>3, <3>4, <3>5, <3>6
  <2> QED BY <1>2, <2>3, <2>4
<1>3. i # 0 => i - 1 \in Nat /\ (S \in Aligned(i - 1, j) \/ \E s \in S : S \ {s} \in Aligned(i - 1, j))
  BY AlignedLosesOne
<1>4. j # 0 => j - 1 \in Nat /\ (S \in Aligned(i, j - 1) \/ \E s \in S : S \ {s} \in Aligned(i, j - 1))
  BY AlignedLosesOne
<1> QED BY <1>2, <1>3, <1>4

\* What the tables go by.
LEMMA BestSteps ==
  ASSUME NEW w \in {0, 1}, NEW i \in Nat \ {0}, NEW j \in Nat \ {0}, NEW a, NEW b
  PROVE  LET last == Best(w, i - 1, j - 1, a, b)
             up == Best(w, i - 1, j, a, b)
             left == Best(w, i, j - 1, a, b)
             this == Best(w, i, j, a, b)
         IN  /\ last \in Nat /\ up \in Nat /\ left \in Nat /\ this \in Nat /\ last <= up
             /\ a[i] = b[j] => this = last + w + 1
             /\ a[i] # b[j] => /\ this >= last + w /\ this >= up /\ this >= left
                               /\ this \in {last + w, up, left}
<1> DEFINE last == Best(w, i - 1, j - 1, a, b)
           up == Best(w, i - 1, j, a, b)
           left == Best(w, i, j - 1, a, b)
           this == Best(w, i, j, a, b)
           e == Equals(<<i, j>>, a, b)
<1>0. i - 1 \in Nat /\ j - 1 \in Nat /\ i \in Nat /\ j \in Nat /\ i # 0 /\ j # 0
  OBVIOUS
<1>1. last \in Nat /\ up \in Nat /\ left \in Nat /\ this \in Nat
  BY <1>0, BestIsReached
<1>2. up <= this /\ left <= this /\ last <= up /\ last + w + e <= this
  BY BestGrows
<1>3. this <= last + w + e \/ this <= up \/ this <= left
  BY BestShrinks
<1>4. up <= last + w + 1
  BY <1>0, BestLosesOne
<1>5. left <= last + w + 1
  BY <1>0, BestLosesOne
<1>6. e = IF a[i] = b[j] THEN 1 ELSE 0
  <2>1. <<i, j>>[1] = i /\ <<i, j>>[2] = j
    OBVIOUS
  <2> QED BY <2>1 DEF Equals
<1> HIDE DEF last, up, left, this, e
<1>7. /\ a[i] = b[j] => this = last + w + 1
      /\ a[i] # b[j] => /\ this >= last + w /\ this >= up /\ this >= left
                        /\ this \in {last + w, up, left}
  BY <1>1, <1>2, <1>3, <1>4, <1>5, <1>6
<1> QED BY <1>1, <1>2, <1>7 DEF last, up, left, this

----------------------------------------------------------------------------
(* Texts: the table of the longest common subsequence.                     *)

\* The recursion of LcsLength.
LcsTable(f, a, b) ==
  f = [c \in (0 .. Len(a)) \X (0 .. Len(b)) |->
         IF c[1] = 0 \/ c[2] = 0 THEN 0
         ELSE IF a[c[1]] = b[c[2]] THEN f[<<c[1] - 1, c[2] - 1>>] + 1
         ELSE Max({f[<<c[1] - 1, c[2]>>], f[<<c[1], c[2] - 1>>]})]

LEMMA LcsTableIsBest ==
  ASSUME NEW a, NEW b, Len(a) \in Nat, Len(b) \in Nat
  PROVE  LcsTable([c \in (0 .. Len(a)) \X (0 .. Len(b)) |-> Best(0, c[1], c[2], a, b)], a, b)
<1> DEFINE D == (0 .. Len(a)) \X (0 .. Len(b))
           f == [c \in D |-> Best(0, c[1], c[2], a, b)]
<1>1. ASSUME NEW c \in D
      PROVE  Best(0, c[1], c[2], a, b)
               = IF c[1] = 0 \/ c[2] = 0 THEN 0
                 ELSE IF a[c[1]] = b[c[2]] THEN f[<<c[1] - 1, c[2] - 1>>] + 1
                 ELSE Max({f[<<c[1] - 1, c[2]>>], f[<<c[1], c[2] - 1>>]})
  <2>0. PICK i, j : i = c[1] /\ j = c[2]
    OBVIOUS
  <2>1. i \in 0 .. Len(a) /\ j \in 0 .. Len(b) /\ i \in Nat /\ j \in Nat
    BY <2>0
  <2>2. CASE i = 0 \/ j = 0
    BY <2>0, <2>1, <2>2, BestOfNothing
  <2>3. CASE i # 0 /\ j # 0
    <3>1. /\ f[<<i - 1, j - 1>>] = Best(0, i - 1, j - 1, a, b)
          /\ f[<<i - 1, j>>] = Best(0, i - 1, j, a, b) /\ f[<<i, j - 1>>] = Best(0, i, j - 1, a, b)
      <4>1. <<i - 1, j - 1>> \in D /\ <<i - 1, j>> \in D /\ <<i, j - 1>> \in D
        BY <2>1, <2>3
      <4> HIDE DEF D
      <4> QED BY <4>1
    <3> HIDE DEF f
    <3>2. PICK last, up, left, this :
            /\ last = Best(0, i - 1, j - 1, a, b) /\ up = Best(0, i - 1, j, a, b)
            /\ left = Best(0, i, j - 1, a, b) /\ this = Best(0, i, j, a, b)
      OBVIOUS
    <3>3. /\ last \in Nat /\ up \in Nat /\ left \in Nat /\ this \in Nat /\ last <= up
          /\ a[i] = b[j] => this = last + 0 + 1
          /\ a[i] # b[j] => /\ this >= last + 0 /\ this >= up /\ this >= left
                            /\ this \in {last + 0, up, left}
      <4>1. i \in Nat \ {0} /\ j \in Nat \ {0} /\ 0 \in {0, 1}
        BY <2>1, <2>3
      <4> QED BY <3>2, <4>1, BestSteps
    <3>4. Max({up, left}) = IF up <= left THEN left ELSE up
      <4>1. up \in Int /\ left \in Int
        BY <3>3
      <4> QED BY <4>1, SmallerOfTwo
    <3>5. this = IF a[i] = b[j] THEN last + 1 ELSE Max({up, left})
      BY <3>3, <3>4
    <3> QED BY <2>0, <2>3, <3>1, <3>2, <3>5
  <2> QED BY <2>2, <2>3
<1>2. f = [c \in D |-> f[c]] /\ \A c \in D : f[c] = Best(0, c[1], c[2], a, b)
  OBVIOUS
<1> HIDE DEF f, D
<1>3. f = [c \in D |-> IF c[1] = 0 \/ c[2] = 0 THEN 0
                       ELSE IF a[c[1]] = b[c[2]] THEN f[<<c[1] - 1, c[2] - 1>>] + 1
                       ELSE Max({f[<<c[1] - 1, c[2]>>], f[<<c[1], c[2] - 1>>]})]
  BY <1>1, <1>2
<1> QED BY <1>3 DEF LcsTable, f, D

\* Two tables that differ do so first where both are computed from what is
\* equal in them.
LEMMA OneLcsTable ==
  ASSUME NEW a, NEW b, NEW f, NEW g, Len(a) \in Nat, Len(b) \in Nat,
         LcsTable(f, a, b), LcsTable(g, a, b)
  PROVE  f = g
<1> DEFINE D == (0 .. Len(a)) \X (0 .. Len(b))
           Wrong == {c \in D : f[c] # g[c]}
           Sizes == {c[1] + c[2] : c \in Wrong}
<1>0. f = [c \in D |-> f[c]] /\ g = [c \in D |-> g[c]]
  BY DEF LcsTable
<1>1. SUFFICES ASSUME Wrong # {} PROVE FALSE
  BY <1>0, Zenon
<1>2. PICK c \in Wrong : \A d \in Wrong : c[1] + c[2] <= d[1] + d[2]
  <2>1. Sizes \subseteq Nat /\ Sizes # {}
    BY <1>1
  <2>2. PICK k \in Sizes : \A l \in Sizes : k <= l
    BY <2>1, Least
  <2> QED BY <2>2
<1>3. PICK i, j : i = c[1] /\ j = c[2]
  OBVIOUS
<1>4. i \in 0 .. Len(a) /\ j \in 0 .. Len(b) /\ c \in D /\ f[c] # g[c]
  BY <1>2, <1>3
<1>5. ASSUME NEW k \in 0 .. Len(a), NEW l \in 0 .. Len(b), k + l < i + j
      PROVE  f[<<k, l>>] = g[<<k, l>>]
  <2>1. SUFFICES ASSUME f[<<k, l>>] # g[<<k, l>>] PROVE FALSE
    OBVIOUS
  <2>2. <<k, l>> \in Wrong
    BY <2>1
  <2> HIDE DEF Wrong
  <2>3. i + j <= k + l
    BY <1>2, <1>3, <2>2
  <2> QED BY <1>4, <1>5, <2>3
<1>6. ASSUME NEW h, LcsTable(h, a, b)
      PROVE  h[c] = IF i = 0 \/ j = 0 THEN 0
                    ELSE IF a[i] = b[j] THEN h[<<i - 1, j - 1>>] + 1
                    ELSE Max({h[<<i - 1, j>>], h[<<i, j - 1>>]})
  BY <1>3, <1>4, <1>6 DEF LcsTable
<1>7. i # 0 /\ j # 0
  BY <1>4, <1>6
<1>8. /\ f[<<i - 1, j - 1>>] = g[<<i - 1, j - 1>>]
      /\ f[<<i - 1, j>>] = g[<<i - 1, j>>] /\ f[<<i, j - 1>>] = g[<<i, j - 1>>]
  BY <1>4, <1>5, <1>7
<1> QED BY <1>4, <1>6, <1>7, <1>8

LEMMA LcsIsBest ==
  ASSUME NEW a, NEW b, Len(a) \in Nat, Len(b) \in Nat
  PROVE  LcsLength(a, b) = Best(0, Len(a), Len(b), a, b)
<1> DEFINE D == (0 .. Len(a)) \X (0 .. Len(b))
           f == [c \in D |-> Best(0, c[1], c[2], a, b)]
           dp == CHOOSE g : g = [c \in D |->
                   IF c[1] = 0 \/ c[2] = 0 THEN 0
                   ELSE IF a[c[1]] = b[c[2]] THEN g[<<c[1] - 1, c[2] - 1>>] + 1
                   ELSE Max({g[<<c[1] - 1, c[2]>>], g[<<c[1], c[2] - 1>>]})]
<1>1. LcsTable(f, a, b)
  BY LcsTableIsBest
<1>2. f[<<Len(a), Len(b)>>] = Best(0, Len(a), Len(b), a, b)
  <2>1. <<Len(a), Len(b)>> \in D
    OBVIOUS
  <2> QED BY <2>1
<1> HIDE DEF f
<1>3. LcsTable(dp, a, b)
  <2>1. \E g : g = [c \in D |->
                   IF c[1] = 0 \/ c[2] = 0 THEN 0
                   ELSE IF a[c[1]] = b[c[2]] THEN g[<<c[1] - 1, c[2] - 1>>] + 1
                   ELSE Max({g[<<c[1] - 1, c[2]>>], g[<<c[1], c[2] - 1>>]})]
    BY <1>1, Zenon DEF LcsTable
  <2> QED BY <2>1, Zenon DEF LcsTable
<1>4. LcsLength(a, b) = dp[<<Len(a), Len(b)>>]
  BY DEF LcsLength
<1> HIDE DEF dp
<1>5. dp = f
  BY <1>1, <1>3, OneLcsTable
<1> QED BY <1>2, <1>4, <1>5

----------------------------------------------------------------------------
(* Texts: the rows of the edit distance.                                   *)

Distance(i, j, a, b) == i + j - Best(1, i, j, a, b)
DistanceRow(i, a, b) == [j \in 0 .. Len(b) |-> Distance(i, j, a, b)]

\* What a cell of the row becomes.
LEMMA DistanceSteps ==
  ASSUME NEW i \in Nat \ {0}, NEW j \in Nat \ {0}, NEW a, NEW b
  PROVE  Distance(i, j, a, b)
           = IF a[i] = b[j] THEN Distance(i - 1, j - 1, a, b)
             ELSE 1 + Min({Distance(i - 1, j - 1, a, b), Distance(i, j - 1, a, b),
                           Distance(i - 1, j, a, b)})
<1>1. PICK last, up, left, this :
        /\ last = Best(1, i - 1, j - 1, a, b) /\ up = Best(1, i - 1, j, a, b)
        /\ left = Best(1, i, j - 1, a, b) /\ this = Best(1, i, j, a, b)
  OBVIOUS
<1>2. /\ last \in Nat /\ up \in Nat /\ left \in Nat /\ this \in Nat /\ last <= up
      /\ a[i] = b[j] => this = last + 1 + 1
      /\ a[i] # b[j] => /\ this >= last + 1 /\ this >= up /\ this >= left
                        /\ this \in {last + 1, up, left}
  <2>1. 1 \in {0, 1}
    OBVIOUS
  <2> QED BY <1>1, <2>1, BestSteps
<1>3. PICK x, y, z, v : /\ x = (i - 1) + (j - 1) - last /\ y = i + (j - 1) - left
                        /\ z = (i - 1) + j - up /\ v = i + j - this
  OBVIOUS
<1>4. x \in Int /\ y \in Int /\ z \in Int /\ v \in Int
  BY <1>2, <1>3
<1>5. a[i] = b[j] => v = x
  BY <1>2, <1>3
<1>6. a[i] # b[j] => v - 1 \in {x, y, z} /\ v - 1 <= x /\ v - 1 <= y /\ v - 1 <= z
  BY <1>2, <1>3
<1>7. a[i] # b[j] => Min({x, y, z}) = v - 1
  BY <1>4, <1>6, SmallestOfThree
<1>8. v = IF a[i] = b[j] THEN x ELSE 1 + Min({x, y, z})
  BY <1>4, <1>5, <1>7
<1> QED BY <1>1, <1>3, <1>8 DEF Distance

\* The recursion of NextRow.
Overwrites(r, row, i, a, b) ==
  r = [j \in 0 .. Len(b) |->
         IF j = 0 THEN i
         ELSE IF a[i] = b[j] THEN row[j - 1]
         ELSE 1 + Min({row[j - 1], r[j - 1], row[j]})]

LEMMA OneRow ==
  ASSUME NEW r, NEW s, NEW row, NEW i, NEW a, NEW b, Len(b) \in Nat,
         Overwrites(r, row, i, a, b), Overwrites(s, row, i, a, b)
  PROVE  r = s
<1> DEFINE Wrong == {j \in 0 .. Len(b) : r[j] # s[j]}
<1>0. r = [j \in 0 .. Len(b) |-> r[j]] /\ s = [j \in 0 .. Len(b) |-> s[j]]
  BY DEF Overwrites
<1>1. SUFFICES ASSUME Wrong # {} PROVE FALSE
  BY <1>0, Zenon
<1>2. PICK m \in Wrong : \A j \in Wrong : m <= j
  BY <1>1, Least, Wrong \subseteq Nat
<1>3. m \in 0 .. Len(b) /\ r[m] # s[m]
  BY <1>2
<1>4. m # 0
  BY <1>3 DEF Overwrites
<1>5. m - 1 \in 0 .. Len(b) /\ m - 1 \notin Wrong
  BY <1>2, <1>3, <1>4
<1>6. r[m - 1] = s[m - 1]
  BY <1>5
<1>7. PICK v : v = r[m - 1]
  OBVIOUS
<1>8. /\ r[m] = IF a[i] = b[m] THEN row[m - 1] ELSE 1 + Min({row[m - 1], v, row[m]})
      /\ s[m] = IF a[i] = b[m] THEN row[m - 1] ELSE 1 + Min({row[m - 1], v, row[m]})
  <2>1. r[m] = IF a[i] = b[m] THEN row[m - 1] ELSE 1 + Min({row[m - 1], v, row[m]})
    BY <1>3, <1>4, <1>7 DEF Overwrites
  <2>2. s[m] = IF a[i] = b[m] THEN row[m - 1] ELSE 1 + Min({row[m - 1], v, row[m]})
    BY <1>3, <1>4, <1>6, <1>7 DEF Overwrites
  <2> QED BY <2>1, <2>2
<1> QED BY <1>3, <1>8

LEMMA NextRowIsDistance ==
  ASSUME NEW i \in Nat \ {0}, NEW a, NEW b, Len(b) \in Nat
  PROVE  NextRow(DistanceRow(i - 1, a, b), i, a, b) = DistanceRow(i, a, b)
<1> DEFINE row == DistanceRow(i - 1, a, b)
           s == DistanceRow(i, a, b)
           r == CHOOSE q : q = [j \in 0 .. Len(b) |->
                  IF j = 0 THEN i
                  ELSE IF a[i] = b[j] THEN row[j - 1]
                  ELSE 1 + Min({row[j - 1], q[j - 1], row[j]})]
<1>1. ASSUME NEW j \in 0 .. Len(b)
      PROVE  s[j] = IF j = 0 THEN i
                    ELSE IF a[i] = b[j] THEN row[j - 1]
                    ELSE 1 + Min({row[j - 1], s[j - 1], row[j]})
  <2>1. CASE j = 0
    <3>1. Best(1, i, 0, a, b) = 0
      BY BestOfNothing
    <3> QED BY <2>1, <3>1 DEF Distance, DistanceRow
  <2>2. CASE j # 0
    <3>1. /\ s[j] = Distance(i, j, a, b) /\ s[j - 1] = Distance(i, j - 1, a, b)
          /\ row[j] = Distance(i - 1, j, a, b) /\ row[j - 1] = Distance(i - 1, j - 1, a, b)
      BY <2>2 DEF DistanceRow
    <3>2. j \in Nat \ {0}
      BY <2>2
    <3> HIDE DEF row, s
    <3> QED BY <2>2, <3>1, <3>2, DistanceSteps
  <2> QED BY <2>1, <2>2
<1>2. s = [j \in 0 .. Len(b) |-> s[j]]
  BY DEF DistanceRow
<1> HIDE DEF row, s
<1>3. Overwrites(s, row, i, a, b)
  BY <1>1, <1>2 DEF Overwrites
<1>4. Overwrites(r, row, i, a, b)
  <2>1. \E q : q = [j \in 0 .. Len(b) |->
                  IF j = 0 THEN i
                  ELSE IF a[i] = b[j] THEN row[j - 1]
                  ELSE 1 + Min({row[j - 1], q[j - 1], row[j]})]
    BY <1>3, Zenon DEF Overwrites
  <2> QED BY <2>1, Zenon DEF Overwrites
<1>5. NextRow(row, i, a, b) = r
  BY DEF NextRow
<1> HIDE DEF r
<1>6. r = s
  BY <1>3, <1>4, OneRow
<1> QED BY <1>5, <1>6 DEF row, s

\* The recursion of EditDistance.
RowByRow(f, a, b) ==
  f = [i \in 0 .. Len(a) |->
         IF i = 0 THEN [j \in 0 .. Len(b) |-> j] ELSE NextRow(f[i - 1], i, a, b)]

LEMMA OneRowByRow ==
  ASSUME NEW f, NEW g, NEW a, NEW b, Len(a) \in Nat, RowByRow(f, a, b), RowByRow(g, a, b)
  PROVE  f = g
<1> DEFINE Wrong == {i \in 0 .. Len(a) : f[i] # g[i]}
<1>0. f = [i \in 0 .. Len(a) |-> f[i]] /\ g = [i \in 0 .. Len(a) |-> g[i]]
  BY DEF RowByRow
<1>1. SUFFICES ASSUME Wrong # {} PROVE FALSE
  BY <1>0, Zenon
<1>2. PICK m \in Wrong : \A i \in Wrong : m <= i
  BY <1>1, Least, Wrong \subseteq Nat
<1>3. m \in 0 .. Len(a) /\ f[m] # g[m]
  BY <1>2
<1>4. m # 0
  BY <1>3 DEF RowByRow
<1>5. m - 1 \in 0 .. Len(a) /\ m - 1 \notin Wrong
  BY <1>2, <1>3, <1>4
<1>6. f[m - 1] = g[m - 1]
  BY <1>5
<1>7. f[m] = NextRow(f[m - 1], m, a, b) /\ g[m] = NextRow(g[m - 1], m, a, b)
  BY <1>3, <1>4 DEF RowByRow
<1> QED BY <1>3, <1>6, <1>7

LEMMA EditIsDistance ==
  ASSUME NEW a, NEW b, Len(a) \in Nat, Len(b) \in Nat, a = << >> <=> Len(a) = 0, b = << >> <=> Len(b) = 0
  PROVE  EditDistance(a, b) = Distance(Len(a), Len(b), a, b)
<1> DEFINE g == [i \in 0 .. Len(a) |-> DistanceRow(i, a, b)]
           dp == CHOOSE f : f = [i \in 0 .. Len(a) |->
                   IF i = 0 THEN [j \in 0 .. Len(b) |-> j] ELSE NextRow(f[i - 1], i, a, b)]
<1>1. DistanceRow(0, a, b) = [j \in 0 .. Len(b) |-> j]
  <2>1. \A j \in 0 .. Len(b) : Distance(0, j, a, b) = j
    <3>1. ASSUME NEW j \in 0 .. Len(b) PROVE Best(1, 0, j, a, b) = 0
      BY BestOfNothing
    <3> QED BY <3>1 DEF Distance
  <2> QED BY <2>1 DEF DistanceRow
<1>2. ASSUME NEW i \in 0 .. Len(a)
      PROVE  g[i] = IF i = 0 THEN [j \in 0 .. Len(b) |-> j] ELSE NextRow(g[i - 1], i, a, b)
  <2>1. i # 0 => g[i - 1] = DistanceRow(i - 1, a, b) /\ i \in Nat \ {0}
    OBVIOUS
  <2>2. g[i] = DistanceRow(i, a, b)
    OBVIOUS
  <2> HIDE DEF g
  <2> QED BY <1>1, <2>1, <2>2, NextRowIsDistance
<1>3. g = [i \in 0 .. Len(a) |-> g[i]] /\ g[Len(a)][Len(b)] = Distance(Len(a), Len(b), a, b)
  BY DEF DistanceRow
<1> HIDE DEF g
<1>4. RowByRow(g, a, b)
  BY <1>2, <1>3, Zenon DEF RowByRow
<1>5. RowByRow(dp, a, b)
  <2>1. \E f : f = [i \in 0 .. Len(a) |->
                   IF i = 0 THEN [j \in 0 .. Len(b) |-> j] ELSE NextRow(f[i - 1], i, a, b)]
    BY <1>4, Zenon DEF RowByRow
  <2> QED BY <2>1, Zenon DEF RowByRow
<1>6. EditDistance(a, b) = IF a = << >> THEN Len(b) ELSE IF b = << >> THEN Len(a) ELSE dp[Len(a)][Len(b)]
  BY DEF EditDistance
<1> HIDE DEF dp
<1>7. dp = g
  BY <1>4, <1>5, OneRowByRow
<1>8. Len(a) = 0 \/ Len(b) = 0 => Best(1, Len(a), Len(b), a, b) = 0
  BY BestOfNothing
<1> QED BY <1>3, <1>6, <1>7, <1>8 DEF Distance

\* In the terms of the alignments: the fewest errors, the most matches.
LEMMA BestAlignments ==
  ASSUME NEW m \in Nat, NEW n \in Nat, NEW a, NEW b
  PROVE  /\ Min({m + n - Cardinality(S) - Matches(S, a, b) : S \in Aligned(m, n)}) = Distance(m, n, a, b)
         /\ Max({Matches(S, a, b) : S \in Aligned(m, n)}) = Best(0, m, n, a, b)
<1> DEFINE errors(S) == m + n - Cardinality(S) - Matches(S, a, b)
           E == {errors(S) : S \in Aligned(m, n)}
<1>1. ASSUME NEW S \in Aligned(m, n)
      PROVE  /\ Cardinality(S) \in Nat /\ Matches(S, a, b) \in Nat
             /\ Score(1, S, a, b) = Cardinality(S) + Matches(S, a, b)
             /\ Score(0, S, a, b) = Matches(S, a, b)
  <2>1. IsFiniteSet(S) /\ Cardinality(S) \in Nat
    BY AlignedIsFinite, FS_CardinalityType
  <2>2. Matches(S, a, b) \in Nat
    <3>1. {s \in S : a[s[1]] = b[s[2]]} \in SUBSET S
      OBVIOUS
    <3> QED BY <2>1, <3>1, FS_Subset, FS_CardinalityType DEF Matches
  <2> QED BY <2>1, <2>2 DEF Score
<1>2. Min(E) = Distance(m, n, a, b)
  <2>1. PICK S \in Aligned(m, n) : Score(1, S, a, b) = Best(1, m, n, a, b)
    BY BestIsReached
  <2>2. \A T \in Aligned(m, n) : Score(1, T, a, b) <= Best(1, m, n, a, b)
    BY BestIsReached
  <2>3. errors(S) = Distance(m, n, a, b)
    BY <1>1, <2>1 DEF Distance
  <2>4. \A T \in Aligned(m, n) : errors(S) <= errors(T) /\ errors(T) \in Int
    BY <1>1, <2>1, <2>2
  <2>5. PICK d : d = errors(S)
    OBVIOUS
  <2>6. d \in E /\ \A e \in E : d <= e /\ e \in Int
    BY <2>4, <2>5
  <2> HIDE DEF E
  <2>7. \A e \in E : (\A f \in E : e =< f) => e = d
    BY <2>6
  <2>8. Min(E) = d
    BY <2>6, <2>7 DEF Min
  <2> HIDE DEF errors
  <2> QED BY <2>3, <2>5, <2>8
<1>3. Max({Matches(S, a, b) : S \in Aligned(m, n)}) = Best(0, m, n, a, b)
  <2>1. {Matches(S, a, b) : S \in Aligned(m, n)} = Scores(0, m, n, a, b)
    BY <1>1 DEF Scores
  <2> QED BY <2>1 DEF Best
<1> QED BY <1>2, <1>3

=============================================================================
