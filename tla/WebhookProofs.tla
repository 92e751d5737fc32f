---------------------------- MODULE WebhookProofs ----------------------------
(***************************************************************************)
(* Theorems about WebhookDelivery, for every number of deliveries, loops,  *)
(* attempts and deaths: what the rows say of the sends, and that an        *)
(* outcome is final.                                                       *)
(***************************************************************************)
EXTENDS WebhookProperties, FiniteSetTheorems, SequenceTheorems, TLAPS

(* The types alone are not inductive: that a loop never counts beyond the  *)
(* last attempt is because a row with all its attempts is not PENDING, and *)
(* that is because the columns a batch writes belong together.             *)

\* What a loop may have noted for a row: an acceptance, or a count of sends
\* that were all made, given up when they are all it has.
Earned(d, columns) ==
  \/ columns = Delivered /\ d \in received
  \/ \E n \in 1 .. MaxAttempts : n <= unanswered[d] /\ columns = RetryOrGiveUp(n)

\* A batch holds a row once, still to be sent or noted.
HeldOnce(s) == \A i, j \in DOMAIN s : s[i].row = s[j].row => i = j
Apart(s, t) == \A i \in DOMAIN s : \A j \in DOMAIN t : s[i].row # t[j].row

BatchInv ==
  \A p \in Loops :
    /\ HeldOnce(loop[p].todo) /\ HeldOnce(loop[p].wrote) /\ Apart(loop[p].todo, loop[p].wrote)
    /\ \A i \in DOMAIN loop[p].todo : loop[p].todo[i].attempts <= unanswered[loop[p].todo[i].row]
    /\ \A i \in DOMAIN loop[p].wrote : Earned(loop[p].wrote[i].row, loop[p].wrote[i].columns)

\* An open row has an attempt left, a closed one was accepted or exhausted.
RowInv ==
  \A d \in Deliveries :
    /\ attempts[d] <= unanswered[d]
    /\ status[d] \notin Final => attempts[d] < MaxAttempts
    /\ status[d] = "DELIVERED" => d \in received
    /\ status[d] = "FAILED" => unanswered[d] = MaxAttempts

DeliveryInv == TypeOK /\ BatchInv /\ RowInv
----------------------------------------------------------------------------
\* What the two outcomes of a send assign, and what they leave alone.
LEMMA AcceptanceColumns ==
  /\ Delivered \in Columns /\ Delivered.status = "DELIVERED"
  /\ "status" \in DOMAIN Delivered /\ "attempts" \notin DOMAIN Delivered
  /\ "due" \notin DOMAIN Delivered
BY DEF Columns, Delivered

LEMMA CountColumns ==
  ASSUME NEW n \in 1 .. MaxAttempts
  PROVE  /\ RetryOrGiveUp(n) \in Columns
         /\ "attempts" \in DOMAIN RetryOrGiveUp(n) /\ RetryOrGiveUp(n).attempts = n
         /\ n = MaxAttempts => /\ "status" \in DOMAIN RetryOrGiveUp(n)
                               /\ RetryOrGiveUp(n).status = "FAILED"
                               /\ "due" \notin DOMAIN RetryOrGiveUp(n)
         /\ n # MaxAttempts => /\ "due" \in DOMAIN RetryOrGiveUp(n)
                               /\ RetryOrGiveUp(n).due = FALSE
                               /\ "status" \notin DOMAIN RetryOrGiveUp(n)
<1>1. CASE n = MaxAttempts
  <2>1. RetryOrGiveUp(n) = [attempts |-> n, status |-> "FAILED"]
    BY <1>1, DeliveryAssumption DEF RetryOrGiveUp
  <2> QED
    BY <1>1, <2>1 DEF Columns
<1>2. CASE n # MaxAttempts
  <2>1. RetryOrGiveUp(n) = [attempts |-> n, due |-> FALSE]
    BY <1>2, DeliveryAssumption DEF RetryOrGiveUp
  <2> QED
    BY <1>2, <2>1 DEF Columns
<1> QED
  BY <1>1, <1>2

\* A column of a row that is in the batch, and of one that is not.
LEMMA WrittenRow ==
  ASSUME NEW column, NEW name, NEW changes, HeldOnce(changes),
         NEW i \in DOMAIN changes, changes[i].row \in Deliveries
  PROVE  Written(column, name, changes)[changes[i].row]
           = IF name \in DOMAIN changes[i].columns THEN changes[i].columns[name]
             ELSE column[changes[i].row]
<1>1. \A j \in DOMAIN changes : changes[j].row = changes[i].row => j = i
  BY DEF HeldOnce
<1>2. (CHOOSE c \in {changes[j] : j \in DOMAIN changes} : c.row = changes[i].row) = changes[i]
  BY <1>1
<1> QED
  BY <1>1, <1>2 DEF Written

LEMMA WrittenElsewhere ==
  ASSUME NEW column, NEW name, NEW changes, NEW d \in Deliveries,
         \A i \in DOMAIN changes : changes[i].row # d
  PROVE  Written(column, name, changes)[d] = column[d]
BY DEF Written

\* What a commit makes of a row: nothing, an acceptance, or a later count.
LEMMA CommitRow ==
  ASSUME DeliveryInv, NEW p \in Loops, Commit(p), NEW d \in Deliveries
  PROVE  \/ status'[d] = status[d] /\ attempts'[d] = attempts[d] /\ due'[d] = due[d]
         \/ /\ d \in received /\ status'[d] = "DELIVERED"
            /\ attempts'[d] = attempts[d] /\ due'[d] = due[d]
         \/ \E n \in 1 .. MaxAttempts :
              /\ n <= unanswered[d] /\ attempts'[d] = n
              /\ n = MaxAttempts => status'[d] = "FAILED" /\ due'[d] = due[d]
              /\ n # MaxAttempts => status'[d] = status[d] /\ due'[d] = FALSE
<1> DEFINE wrote == loop[p].wrote
<1>1. /\ status' = Written(status, "status", wrote)
      /\ attempts' = Written(attempts, "attempts", wrote)
      /\ due' = Written(due, "due", wrote)
  BY DEF Commit
<1>2. HeldOnce(wrote) /\ \A i \in DOMAIN wrote : Earned(wrote[i].row, wrote[i].columns)
  BY DEF DeliveryInv, BatchInv
<1> HIDE DEF wrote
<1>3. CASE \A i \in DOMAIN wrote : wrote[i].row # d
  BY <1>1, <1>3, WrittenElsewhere
<1>4. ASSUME NEW i \in DOMAIN wrote, wrote[i].row = d
      PROVE  \/ d \in received /\ wrote[i].columns = Delivered
             \/ \E n \in 1 .. MaxAttempts :
                  n <= unanswered[d] /\ wrote[i].columns = RetryOrGiveUp(n)
  BY <1>2, <1>4 DEF Earned
<1>5. ASSUME NEW i \in DOMAIN wrote, wrote[i].row = d
      PROVE  \A column, name : Written(column, name, wrote)[d]
                = IF name \in DOMAIN wrote[i].columns THEN wrote[i].columns[name] ELSE column[d]
  BY <1>2, <1>5, WrittenRow
<1>6. ASSUME NEW i \in DOMAIN wrote, wrote[i].row = d, d \in received, wrote[i].columns = Delivered
      PROVE  status'[d] = "DELIVERED" /\ attempts'[d] = attempts[d] /\ due'[d] = due[d]
  BY <1>1, <1>5, <1>6, AcceptanceColumns
<1>7. ASSUME NEW i \in DOMAIN wrote, wrote[i].row = d,
             NEW n \in 1 .. MaxAttempts, wrote[i].columns = RetryOrGiveUp(n)
      PROVE  /\ attempts'[d] = n
             /\ n = MaxAttempts => status'[d] = "FAILED" /\ due'[d] = due[d]
             /\ n # MaxAttempts => status'[d] = status[d] /\ due'[d] = FALSE
  <2>1. \A column, name : Written(column, name, wrote)[d]
           = IF name \in DOMAIN RetryOrGiveUp(n) THEN RetryOrGiveUp(n)[name] ELSE column[d]
    BY <1>5, <1>7
  <2>2. attempts'[d] = n
    BY <1>1, <2>1, CountColumns
  <2>3. CASE n = MaxAttempts
    BY <1>1, <2>1, <2>2, <2>3, CountColumns
  <2>4. CASE n # MaxAttempts
    BY <1>1, <2>1, <2>2, <2>4, CountColumns
  <2> QED
    BY <2>2, <2>3, <2>4
<1> QED
  BY <1>3, <1>4, <1>6, <1>7
----------------------------------------------------------------------------
\* A batch read at the start of a transaction: due rows, each of them once.
LEMMA SelectedBatch ==
  ASSUME NEW S, S \subseteq Deliveries, NEW b \in Batches(S)
  PROVE  \E n \in Nat : b \in [1 .. n -> S] /\ \A i, j \in 1 .. n : b[i] = b[j] => i = j
<1>1. Cardinality(S) \in Nat
  BY DeliveryAssumption, FS_Subset, FS_CardinalityType
<1>2. (IF Cardinality(S) < MaxBatch THEN Cardinality(S) ELSE MaxBatch) \in Nat
  BY <1>1, DeliveryAssumption
<1> QED
  BY <1>2 DEF Batches

LEMMA SelectStep ==
  ASSUME DeliveryInv, NEW p \in Loops, Select(p)
  PROVE  loop' \in [Loops -> LoopState] /\ BatchInv'
<1> DEFINE Row == [row: Deliveries, attempts: 0 .. MaxAttempts - 1]
<1>1. PICK b \in Batches(Selectable) :
        loop' = [loop EXCEPT ![p] = [NoBatch EXCEPT !.pc = "send", !.todo =
                  [i \in DOMAIN b |-> [row |-> b[i], attempts |-> attempts[b[i]]]]]]
  BY DEF Select
<1>2. Selectable \subseteq {d \in Deliveries : status[d] = "PENDING"}
  BY DEF Selectable
<1>3. PICK n \in Nat : b \in [1 .. n -> Selectable] /\ \A i, j \in 1 .. n : b[i] = b[j] => i = j
  BY <1>2, SelectedBatch
<1> DEFINE todo == [i \in 1 .. n |-> [row |-> b[i], attempts |-> attempts[b[i]]]]
<1>4. \A i \in 1 .. n : /\ b[i] \in Deliveries /\ attempts[b[i]] \in 0 .. MaxAttempts - 1
                        /\ attempts[b[i]] <= unanswered[b[i]]
  <2> TAKE i \in 1 .. n
  <2>1. b[i] \in Deliveries /\ status[b[i]] = "PENDING"
    BY <1>2, <1>3
  <2>2. attempts[b[i]] \in 0 .. MaxAttempts
    BY <2>1 DEF DeliveryInv, TypeOK
  <2>3. attempts[b[i]] <= unanswered[b[i]] /\ attempts[b[i]] < MaxAttempts
    BY <2>1 DEF DeliveryInv, RowInv, Final
  <2> QED
    BY <2>1, <2>2, <2>3, DeliveryAssumption
<1>5. todo \in Seq(Row) /\ DOMAIN todo = 1 .. n
  BY <1>3, <1>4
<1>6. loop'[p] = [pc |-> "send", todo |-> todo, wrote |-> <<>>]
  BY <1>1, <1>3 DEF NoBatch, DeliveryInv, TypeOK
<1>7. \A q \in Loops : q # p => loop'[q] = loop[q]
  BY <1>1 DEF DeliveryInv, TypeOK
<1>8. loop'[p] \in LoopState
  BY <1>5, <1>6 DEF LoopState
<1>9. loop' \in [Loops -> LoopState]
  BY <1>1, <1>7, <1>8 DEF DeliveryInv, TypeOK
<1>10. unanswered' = unanswered /\ received' = received
  BY DEF Select, world
<1>11. HeldOnce(todo) /\ \A i \in DOMAIN todo : todo[i].attempts <= unanswered[todo[i].row]
  BY <1>3, <1>4 DEF HeldOnce
<1>12. loop'[p].todo = todo /\ loop'[p].wrote = <<>> /\ DOMAIN loop'[p].wrote = {}
  BY <1>6
<1> HIDE DEF todo
<1>13. BatchInv'
  <2> SUFFICES ASSUME NEW q \in Loops
               PROVE  /\ HeldOnce(loop'[q].todo) /\ HeldOnce(loop'[q].wrote)
                      /\ Apart(loop'[q].todo, loop'[q].wrote)
                      /\ \A i \in DOMAIN loop'[q].todo :
                           loop'[q].todo[i].attempts <= unanswered[loop'[q].todo[i].row]
                      /\ \A i \in DOMAIN loop'[q].wrote :
                           Earned(loop'[q].wrote[i].row, loop'[q].wrote[i].columns)
    BY <1>10 DEF BatchInv, HeldOnce, Apart, Earned
  <2>1. CASE q = p
    BY <2>1, <1>11, <1>12 DEF HeldOnce, Apart
  <2>2. CASE q # p
    BY <2>2, <1>7 DEF DeliveryInv, BatchInv
  <2> QED
    BY <2>1, <2>2
<1> QED
  BY <1>9, <1>13
----------------------------------------------------------------------------
\* A send moves the first row of the batch from those to send to those noted.
LEMMA NotedBatch ==
  ASSUME NEW S, NEW todo \in Seq(S), todo # <<>>, NEW T, NEW wrote \in Seq(T),
         HeldOnce(todo), HeldOnce(wrote), Apart(todo, wrote),
         NEW entry \in T, entry.row = Head(todo).row
  PROVE  /\ Tail(todo) \in Seq(S) /\ Append(wrote, entry) \in Seq(T)
         /\ HeldOnce(Tail(todo)) /\ HeldOnce(Append(wrote, entry))
         /\ Apart(Tail(todo), Append(wrote, entry))
         /\ \A i \in DOMAIN Tail(todo) : i + 1 \in DOMAIN todo /\ Tail(todo)[i] = todo[i + 1]
         /\ \A i \in DOMAIN Append(wrote, entry) :
              \/ i \in DOMAIN wrote /\ Append(wrote, entry)[i] = wrote[i]
              \/ Append(wrote, entry)[i] = entry
<1> DEFINE rest == Tail(todo)
<1> DEFINE noted == Append(wrote, entry)
<1>1. Len(todo) \in Nat \ {0} /\ DOMAIN todo = 1 .. Len(todo) /\ Head(todo) = todo[1]
  BY EmptySeq, LenProperties
<1>2. rest \in Seq(S) /\ DOMAIN rest = 1 .. Len(todo) - 1
  BY <1>1, HeadTailProperties, LenProperties
<1>3. \A i \in DOMAIN rest : i \in Nat /\ i # 0 /\ i + 1 \in DOMAIN todo /\ rest[i] = todo[i + 1]
  BY <1>1, <1>2, HeadTailProperties
<1>4. /\ noted \in Seq(T) /\ Len(wrote) \in Nat
      /\ DOMAIN noted = 1 .. Len(wrote) + 1 /\ DOMAIN wrote = 1 .. Len(wrote)
      /\ noted[Len(wrote) + 1] = entry /\ \A i \in 1 .. Len(wrote) : noted[i] = wrote[i]
  BY AppendProperties, LenProperties
<1> HIDE DEF rest, noted
<1>5. \A i \in DOMAIN noted : (i \in DOMAIN wrote /\ noted[i] = wrote[i]) \/
                              (i = Len(wrote) + 1 /\ noted[i] = entry)
  BY <1>4
<1>6. HeldOnce(rest)
  <2> SUFFICES ASSUME NEW i \in DOMAIN rest, NEW j \in DOMAIN rest, rest[i].row = rest[j].row
               PROVE  i = j
    BY DEF HeldOnce
  <2>1. i + 1 = j + 1
    BY <1>3 DEF HeldOnce
  <2> QED
    BY <2>1, <1>3
<1>7. \A i \in DOMAIN wrote : wrote[i].row # entry.row
  BY <1>1 DEF Apart
<1>8. HeldOnce(noted)
  BY <1>5, <1>7 DEF HeldOnce
<1>9. \A i \in DOMAIN rest : rest[i].row # entry.row
  <2> SUFFICES ASSUME NEW i \in DOMAIN rest, rest[i].row = entry.row PROVE FALSE
    OBVIOUS
  <2>1. i + 1 \in DOMAIN todo /\ 1 \in DOMAIN todo /\ todo[i + 1].row = todo[1].row
    BY <1>1, <1>3
  <2>2. i + 1 = 1
    BY <2>1 DEF HeldOnce
  <2> QED
    BY <2>2, <1>3
<1>10. Apart(rest, noted)
  BY <1>3, <1>5, <1>9 DEF Apart
<1> QED
  BY <1>2, <1>3, <1>4, <1>5, <1>6, <1>8, <1>10 DEF rest, noted

\* One send, whatever came of it: the columns noted for the row are earned.
LEMMA SendStep ==
  ASSUME DeliveryInv, NEW p \in Loops, Sending(p), NEW c \in Columns, Noted(p, c),
         received' \in SUBSET Deliveries, received \subseteq received',
         unanswered' \in [Deliveries -> 0 .. MaxAttempts],
         \A d \in Deliveries : unanswered[d] <= unanswered'[d],
         (c = Delivered /\ Current(p) \in received') \/
         \E n \in 1 .. MaxAttempts : n <= unanswered'[Current(p)] /\ c = RetryOrGiveUp(n)
  PROVE  loop' \in [Loops -> LoopState] /\ BatchInv'
<1> DEFINE todo == loop[p].todo
<1> DEFINE wrote == loop[p].wrote
<1> DEFINE entry == [row |-> Head(todo).row, columns |-> c]
<1> DEFINE noted == Append(wrote, entry)
<1>1. /\ loop[p] \in LoopState
      /\ todo \in Seq([row: Deliveries, attempts: 0 .. MaxAttempts - 1]) /\ todo # <<>>
      /\ wrote \in Seq([row: Deliveries, columns: Columns])
  BY DEF DeliveryInv, TypeOK, LoopState, Sending
<1>2. HeldOnce(todo) /\ HeldOnce(wrote) /\ Apart(todo, wrote)
  BY DEF DeliveryInv, BatchInv
<1>3. /\ Tail(todo) \in Seq([row: Deliveries, attempts: 0 .. MaxAttempts - 1])
      /\ noted \in Seq([row: Deliveries, columns: Columns])
      /\ HeldOnce(Tail(todo)) /\ HeldOnce(noted) /\ Apart(Tail(todo), noted)
      /\ \A i \in DOMAIN Tail(todo) : i + 1 \in DOMAIN todo /\ Tail(todo)[i] = todo[i + 1]
      /\ \A i \in DOMAIN noted : (i \in DOMAIN wrote /\ noted[i] = wrote[i]) \/ noted[i] = entry
  <2> DEFINE rest == Tail(todo)
  <2> DEFINE Row == [row: Deliveries, attempts: 0 .. MaxAttempts - 1]
  <2> DEFINE Entry == [row: Deliveries, columns: Columns]
  <2>1. /\ todo \in Seq(Row) /\ todo # <<>> /\ wrote \in Seq(Entry)
        /\ noted = Append(wrote, entry) /\ rest = Tail(todo) /\ entry.row = Head(todo).row
    BY <1>1
  <2>2. entry \in Entry
    <3> Head(todo) \in Row
      BY <1>1, HeadTailProperties
    <3> QED
      OBVIOUS
  <2> HIDE DEF todo, wrote, entry, Row, Entry
  <2>3. /\ rest \in Seq(Row) /\ noted \in Seq(Entry)
        /\ HeldOnce(rest) /\ HeldOnce(noted) /\ Apart(rest, noted)
        /\ \A i \in DOMAIN rest : i + 1 \in DOMAIN todo /\ rest[i] = todo[i + 1]
        /\ \A i \in DOMAIN noted : (i \in DOMAIN wrote /\ noted[i] = wrote[i]) \/ noted[i] = entry
    BY <1>2, <2>1, <2>2, NotedBatch
  <2> QED
    BY <2>1, <2>3 DEF Row, Entry
<1>4. loop' = [loop EXCEPT ![p] = [loop[p] EXCEPT !.todo = Tail(todo), !.wrote = noted]]
  BY DEF Noted, Current, DeliveryInv, TypeOK
<1>5. loop'[p] = [loop[p] EXCEPT !.todo = Tail(todo), !.wrote = noted]
  BY <1>4 DEF DeliveryInv, TypeOK
<1>6. \A q \in Loops : q # p => loop'[q] = loop[q]
  BY <1>4 DEF DeliveryInv, TypeOK
<1>7. loop'[p].todo = Tail(todo) /\ loop'[p].wrote = noted
  BY <1>1, <1>5 DEF LoopState
<1>8. loop'[p] \in LoopState
  BY <1>1, <1>3, <1>5 DEF LoopState
<1>9. loop' \in [Loops -> LoopState]
  BY <1>4, <1>6, <1>8 DEF DeliveryInv, TypeOK
<1> DEFINE EarnedNow(d, columns) ==
      (columns = Delivered /\ d \in received') \/
      \E n \in 1 .. MaxAttempts : n <= unanswered'[d] /\ columns = RetryOrGiveUp(n)
<1>10. \A d \in Deliveries : \A columns : Earned(d, columns) => EarnedNow(d, columns)
  <2> SUFFICES ASSUME NEW d \in Deliveries, NEW columns, Earned(d, columns)
               PROVE  EarnedNow(d, columns)
    OBVIOUS
  <2>1. unanswered[d] \in Nat /\ unanswered'[d] \in Nat /\ unanswered[d] <= unanswered'[d]
    BY DEF DeliveryInv, TypeOK
  <2> QED
    BY <2>1 DEF Earned
<1>11. EarnedNow(entry.row, entry.columns)
  BY DEF Current
<1>12. \A q \in Loops :
         /\ \A i \in DOMAIN loop[q].todo :
              /\ loop[q].todo[i].row \in Deliveries
              /\ loop[q].todo[i].attempts <= unanswered'[loop[q].todo[i].row]
         /\ \A i \in DOMAIN loop[q].wrote :
              EarnedNow(loop[q].wrote[i].row, loop[q].wrote[i].columns)
  <2> TAKE q \in Loops
  <2>1. /\ loop[q].todo \in Seq([row: Deliveries, attempts: 0 .. MaxAttempts - 1])
        /\ loop[q].wrote \in Seq([row: Deliveries, columns: Columns])
    BY DEF DeliveryInv, TypeOK, LoopState
  <2>2. ASSUME NEW i \in DOMAIN loop[q].todo
        PROVE  /\ loop[q].todo[i].row \in Deliveries
               /\ loop[q].todo[i].attempts <= unanswered'[loop[q].todo[i].row]
    <3>1. loop[q].todo[i] \in [row: Deliveries, attempts: 0 .. MaxAttempts - 1]
      BY <2>1, LenProperties, ElementOfSeq
    <3>2. loop[q].todo[i].attempts <= unanswered[loop[q].todo[i].row]
      BY DEF DeliveryInv, BatchInv
    <3>3. \A d \in Deliveries : unanswered[d] \in Int /\ unanswered'[d] \in Int
      BY DEF DeliveryInv, TypeOK
    <3> QED
      BY <3>1, <3>2, <3>3, DeliveryAssumption
  <2>3. ASSUME NEW i \in DOMAIN loop[q].wrote
        PROVE  EarnedNow(loop[q].wrote[i].row, loop[q].wrote[i].columns)
    <3>1. loop[q].wrote[i] \in [row: Deliveries, columns: Columns]
      BY <2>1, LenProperties, ElementOfSeq
    <3>2. Earned(loop[q].wrote[i].row, loop[q].wrote[i].columns)
      BY DEF DeliveryInv, BatchInv
    <3> QED
      BY <3>1, <3>2, <1>10
  <2> QED
    BY <2>2, <2>3
<1> HIDE DEF entry, noted, EarnedNow
<1>13. ASSUME NEW q \in Loops
       PROVE  /\ HeldOnce(loop'[q].todo) /\ HeldOnce(loop'[q].wrote)
              /\ Apart(loop'[q].todo, loop'[q].wrote)
              /\ \A i \in DOMAIN loop'[q].todo :
                   loop'[q].todo[i].attempts <= unanswered'[loop'[q].todo[i].row]
              /\ \A i \in DOMAIN loop'[q].wrote :
                   EarnedNow(loop'[q].wrote[i].row, loop'[q].wrote[i].columns)
  <2>1. CASE q # p
    BY <2>1, <1>6, <1>12 DEF DeliveryInv, BatchInv
  <2>2. CASE q = p
    <3>1. HeldOnce(loop'[p].todo) /\ HeldOnce(loop'[p].wrote) /\ Apart(loop'[p].todo, loop'[p].wrote)
      BY <1>3, <1>7
    <3>2. \A i \in DOMAIN Tail(todo) : Tail(todo)[i].attempts <= unanswered'[Tail(todo)[i].row]
      BY <1>3, <1>12
    <3>3. \A i \in DOMAIN noted : EarnedNow(noted[i].row, noted[i].columns)
      BY <1>3, <1>11, <1>12
    <3> QED
      BY <2>2, <3>1, <3>2, <3>3, <1>7
  <2> QED
    BY <2>1, <2>2
<1> QED
  BY <1>9, <1>13 DEF BatchInv, HeldOnce, Apart, Earned, EarnedNow
----------------------------------------------------------------------------
\* A loop drops its batch: it is written, or lost.
LEMMA BatchDropped ==
  ASSUME DeliveryInv, NEW p \in Loops, NEW place \in {"idle", "down"},
         loop' = [loop EXCEPT ![p] = [pc |-> place, todo |-> <<>>, wrote |-> <<>>]],
         UNCHANGED world
  PROVE  loop' \in [Loops -> LoopState] /\ BatchInv'
<1>1. loop'[p] = [pc |-> place, todo |-> <<>>, wrote |-> <<>>]
      /\ \A q \in Loops : q # p => loop'[q] = loop[q]
  BY DEF DeliveryInv, TypeOK
<1>2. [pc |-> place, todo |-> <<>>, wrote |-> <<>>] \in LoopState
  BY DEF LoopState
<1>3. loop' \in [Loops -> LoopState]
  BY <1>1, <1>2 DEF DeliveryInv, TypeOK
<1>4. received' = received /\ unanswered' = unanswered
  BY DEF world
<1>5. loop'[p].todo = <<>> /\ loop'[p].wrote = <<>> /\ DOMAIN <<>> = {}
  BY <1>1
<1>6. ASSUME NEW q \in Loops
      PROVE  /\ HeldOnce(loop'[q].todo) /\ HeldOnce(loop'[q].wrote)
             /\ Apart(loop'[q].todo, loop'[q].wrote)
             /\ \A i \in DOMAIN loop'[q].todo :
                  loop'[q].todo[i].attempts <= unanswered[loop'[q].todo[i].row]
             /\ \A i \in DOMAIN loop'[q].wrote :
                  Earned(loop'[q].wrote[i].row, loop'[q].wrote[i].columns)
  <2>1. CASE q = p
    BY <2>1, <1>5 DEF HeldOnce, Apart
  <2>2. CASE q # p
    BY <2>2, <1>1 DEF DeliveryInv, BatchInv
  <2> QED
    BY <2>1, <2>2
<1> QED
  BY <1>3, <1>4, <1>6 DEF BatchInv, HeldOnce, Apart, Earned

\* The rows after a commit, though they may have changed since they were read.
LEMMA CommitStep ==
  ASSUME DeliveryInv, NEW p \in Loops, Commit(p)
  PROVE  DeliveryInv'
<1>1. UNCHANGED world /\ deaths' = deaths /\ received' = received /\ unanswered' = unanswered
  BY DEF Commit, world
<1>2. loop' \in [Loops -> LoopState] /\ BatchInv'
  BY <1>1, BatchDropped DEF Commit, NoBatch
<1>3. /\ status' = [d \in Deliveries |-> status'[d]]
      /\ attempts' = [d \in Deliveries |-> attempts'[d]] /\ due' = [d \in Deliveries |-> due'[d]]
  BY DEF Commit, Written
<1> DEFINE RowHolds(d) ==
      /\ status'[d] \in {"NONE", "PENDING"} \cup Final
      /\ attempts'[d] \in 0 .. MaxAttempts /\ due'[d] \in BOOLEAN
      /\ attempts'[d] <= unanswered[d]
      /\ status'[d] \notin Final => attempts'[d] < MaxAttempts
      /\ status'[d] = "DELIVERED" => d \in received
      /\ status'[d] = "FAILED" => unanswered[d] = MaxAttempts
<1>4. ASSUME NEW d \in Deliveries PROVE RowHolds(d)
  <2>1. /\ status[d] \in {"NONE", "PENDING"} \cup Final /\ attempts[d] \in 0 .. MaxAttempts
        /\ due[d] \in BOOLEAN /\ unanswered[d] \in 0 .. MaxAttempts
    BY DEF DeliveryInv, TypeOK
  <2>2. /\ attempts[d] <= unanswered[d]
        /\ status[d] \notin Final => attempts[d] < MaxAttempts
        /\ status[d] = "DELIVERED" => d \in received
        /\ status[d] = "FAILED" => unanswered[d] = MaxAttempts
    BY DEF DeliveryInv, RowInv
  <2>3. CASE status'[d] = status[d] /\ attempts'[d] = attempts[d] /\ due'[d] = due[d]
    BY <2>1, <2>2, <2>3
  <2>4. CASE /\ d \in received /\ status'[d] = "DELIVERED"
             /\ attempts'[d] = attempts[d] /\ due'[d] = due[d]
    BY <2>1, <2>2, <2>4 DEF Final
  <2>5. ASSUME NEW n \in 1 .. MaxAttempts, n <= unanswered[d], attempts'[d] = n,
               n = MaxAttempts => status'[d] = "FAILED" /\ due'[d] = due[d],
               n # MaxAttempts => status'[d] = status[d] /\ due'[d] = FALSE
        PROVE  RowHolds(d)
    <3>1. CASE n = MaxAttempts
      <4>1. unanswered[d] = MaxAttempts /\ attempts'[d] = MaxAttempts
        BY <2>1, <2>5, <3>1, DeliveryAssumption
      <4>2. status'[d] = "FAILED" /\ due'[d] = due[d]
        BY <2>5, <3>1
      <4> QED
        BY <2>1, <4>1, <4>2, DeliveryAssumption DEF Final
    <3>2. CASE n # MaxAttempts
      <4>1. n < MaxAttempts /\ status'[d] = status[d] /\ due'[d] = FALSE
        BY <2>5, <3>2, DeliveryAssumption
      <4>2. due'[d] \in BOOLEAN
        BY <4>1
      <4>3. attempts'[d] \in 0 .. MaxAttempts /\ attempts'[d] <= unanswered[d]
            /\ attempts'[d] < MaxAttempts
        BY <2>5, <4>1, DeliveryAssumption
      <4> QED
        BY <2>1, <2>2, <4>1, <4>2, <4>3
    <3> QED
      BY <3>1, <3>2
  <2> QED
    BY <2>3, <2>4, <2>5, CommitRow
<1>5. TypeOK'
  BY <1>1, <1>2, <1>3, <1>4 DEF DeliveryInv, TypeOK
<1>6. RowInv'
  BY <1>1, <1>4 DEF RowInv
<1> QED
  BY <1>2, <1>5, <1>6 DEF DeliveryInv
----------------------------------------------------------------------------
\* What happens to a row outside of a batch.
LEMMA RowStep ==
  ASSUME DeliveryInv, NEW d \in Deliveries, Enqueue(d) \/ Elapse(d)
  PROVE  DeliveryInv'
<1>1. /\ UNCHANGED <<attempts, loop, received, unanswered, deaths>>
      /\ status' \in [Deliveries -> {"NONE", "PENDING"} \cup Final]
      /\ due' \in [Deliveries -> BOOLEAN]
  BY DEF DeliveryInv, TypeOK, Enqueue, Elapse, world
<1>2. \A e \in Deliveries : status'[e] # status[e] => status[e] = "NONE" /\ status'[e] = "PENDING"
  BY DEF DeliveryInv, TypeOK, Enqueue, Elapse
<1>3. RowInv'
  BY <1>1, <1>2 DEF DeliveryInv, RowInv, Final
<1>4. BatchInv'
  BY <1>1 DEF DeliveryInv, BatchInv, HeldOnce, Apart, Earned
<1> QED
  BY <1>1, <1>3, <1>4 DEF DeliveryInv, TypeOK

\* What a send adds to the world, and that it leaves the table alone.
LEMMA SendWorld ==
  ASSUME DeliveryInv, NEW p \in Loops, SendAccepted(p) \/ SendRefused(p) \/ SendError(p)
  PROVE  /\ UNCHANGED <<status, attempts, due, deaths>>
         /\ Current(p) \in Deliveries
         /\ received' \in SUBSET Deliveries /\ received \subseteq received'
         /\ unanswered' \in [Deliveries -> 0 .. MaxAttempts]
         /\ \A d \in Deliveries : unanswered[d] <= unanswered'[d]
<1>1. loop[p].todo \in Seq([row: Deliveries, attempts: 0 .. MaxAttempts - 1]) /\ loop[p].todo # <<>>
  BY DEF DeliveryInv, TypeOK, LoopState, SendAccepted, SendRefused, SendError, Sending
<1>2. Current(p) \in Deliveries
  <2> Head(loop[p].todo) \in [row: Deliveries, attempts: 0 .. MaxAttempts - 1]
    BY <1>1, HeadTailProperties
  <2> QED
    BY DEF Current
<1>3. unanswered' = unanswered \/ NotTaken(Current(p))
  BY DEF SendAccepted, SendRefused, SendError
<1>4. unanswered \in [Deliveries -> 0 .. MaxAttempts] /\ received \subseteq Deliveries
  BY DEF DeliveryInv, TypeOK
<1>5. /\ unanswered' \in [Deliveries -> 0 .. MaxAttempts]
      /\ \A d \in Deliveries : unanswered[d] <= unanswered'[d]
  BY <1>2, <1>3, <1>4, DeliveryAssumption DEF NotTaken
<1>6. received' \in SUBSET Deliveries /\ received \subseteq received'
  BY <1>2, <1>4 DEF SendAccepted, SendRefused, SendError
<1> QED
  BY <1>2, <1>5, <1>6 DEF SendAccepted, SendRefused, SendError, table

LEMMA SendKeeps ==
  ASSUME DeliveryInv, NEW p \in Loops, SendAccepted(p) \/ SendRefused(p) \/ SendError(p)
  PROVE  DeliveryInv'
<1> DEFINE Reported(c) ==
      (c = Delivered /\ Current(p) \in received') \/
      \E n \in 1 .. MaxAttempts : n <= unanswered'[Current(p)] /\ c = RetryOrGiveUp(n)
<1>1. Sending(p)
  BY DEF SendAccepted, SendRefused, SendError
<1>2. Attempt(p) \in 1 .. MaxAttempts /\ Attempt(p) - 1 <= unanswered[Current(p)]
  <2>1. loop[p].todo \in Seq([row: Deliveries, attempts: 0 .. MaxAttempts - 1]) /\ loop[p].todo # <<>>
    BY <1>1 DEF DeliveryInv, TypeOK, LoopState, Sending
  <2>2. Head(loop[p].todo) = loop[p].todo[1] /\ 1 \in DOMAIN loop[p].todo
    BY <2>1, EmptySeq, LenProperties
  <2>3. Head(loop[p].todo).attempts <= unanswered[Current(p)]
    BY <2>2 DEF DeliveryInv, BatchInv, Current
  <2>4. Head(loop[p].todo) \in [row: Deliveries, attempts: 0 .. MaxAttempts - 1]
    BY <2>1, HeadTailProperties
  <2>5. Head(loop[p].todo).attempts \in 0 .. MaxAttempts - 1
    BY <2>4
  <2> QED
    BY <2>3, <2>5, DeliveryAssumption DEF Attempt
<1>3. \E c \in Columns : Noted(p, c) /\ Reported(c)
  <2>1. CASE SendAccepted(p)
    BY <2>1, AcceptanceColumns DEF SendAccepted
  <2>2. CASE SendRefused(p) \/ SendError(p)
    <3>1. NotTaken(Current(p)) /\ Noted(p, RetryOrGiveUp(Attempt(p)))
      BY <2>2 DEF SendRefused, SendError, OnRefusal, OnError
    <3>2. Attempt(p) <= unanswered'[Current(p)]
      <4>1. unanswered'[Current(p)] = IF unanswered[Current(p)] < MaxAttempts
                                        THEN unanswered[Current(p)] + 1 ELSE unanswered[Current(p)]
        BY <3>1, SendWorld DEF NotTaken, DeliveryInv, TypeOK
      <4>2. unanswered[Current(p)] \in 0 .. MaxAttempts
        BY SendWorld DEF DeliveryInv, TypeOK
      <4> QED
        BY <1>2, <4>1, <4>2, DeliveryAssumption
    <3>3. Reported(RetryOrGiveUp(Attempt(p)))
      BY <1>2, <3>2
    <3>4. RetryOrGiveUp(Attempt(p)) \in Columns
      BY <1>2, CountColumns
    <3> QED
      BY <3>1, <3>3, <3>4
  <2> QED
    BY <2>1, <2>2
<1>4. loop' \in [Loops -> LoopState] /\ BatchInv'
  BY <1>1, <1>3, SendWorld, SendStep
<1>5. RowInv'
  <2> SUFFICES ASSUME NEW d \in Deliveries
               PROVE  /\ attempts[d] <= unanswered'[d]
                      /\ status[d] \notin Final => attempts[d] < MaxAttempts
                      /\ status[d] = "DELIVERED" => d \in received'
                      /\ status[d] = "FAILED" => unanswered'[d] = MaxAttempts
    BY SendWorld DEF RowInv
  <2>1. attempts[d] \in 0 .. MaxAttempts /\ unanswered[d] \in 0 .. MaxAttempts
        /\ unanswered'[d] \in 0 .. MaxAttempts /\ unanswered[d] <= unanswered'[d]
    BY SendWorld DEF DeliveryInv, TypeOK
  <2>2. /\ attempts[d] <= unanswered[d]
        /\ status[d] \notin Final => attempts[d] < MaxAttempts
        /\ status[d] = "DELIVERED" => d \in received
        /\ status[d] = "FAILED" => unanswered[d] = MaxAttempts
    BY DEF DeliveryInv, RowInv
  <2> QED
    BY <2>1, <2>2, SendWorld, DeliveryAssumption
<1> QED
  BY <1>4, <1>5, SendWorld DEF DeliveryInv, TypeOK
----------------------------------------------------------------------------
\* Before any event is enqueued.
LEMMA DeliveryInit == Init => DeliveryInv
<1> SUFFICES ASSUME Init PROVE DeliveryInv
  OBVIOUS
<1>1. NoBatch \in LoopState /\ NoBatch.todo = <<>> /\ NoBatch.wrote = <<>> /\ DOMAIN <<>> = {}
  BY DEF NoBatch, LoopState
<1>2. TypeOK
  BY <1>1, DeliveryAssumption DEF Init, TypeOK, Final
<1>3. BatchInv
  BY <1>1 DEF Init, BatchInv, HeldOnce, Apart
<1>4. RowInv
  BY DeliveryAssumption DEF Init, RowInv, Final
<1> QED
  BY <1>2, <1>3, <1>4 DEF DeliveryInv

LEMMA DeliveryStep == DeliveryInv /\ [Next]_vars => DeliveryInv'
<1> SUFFICES ASSUME DeliveryInv, [Next]_vars PROVE DeliveryInv'
  OBVIOUS
<1>1. ASSUME NEW d \in Deliveries, Enqueue(d) \/ Elapse(d) PROVE DeliveryInv'
  BY <1>1, RowStep
<1>2. ASSUME NEW p \in Loops, Select(p) PROVE DeliveryInv'
  BY <1>2, SelectStep DEF Select, table, world, DeliveryInv, TypeOK, RowInv
<1>3. ASSUME NEW p \in Loops, SendAccepted(p) \/ SendRefused(p) \/ SendError(p) PROVE DeliveryInv'
  BY <1>3, SendKeeps
<1>4. ASSUME NEW p \in Loops, Commit(p) PROVE DeliveryInv'
  BY <1>4, CommitStep
<1>5. ASSUME NEW p \in Loops, Die(p) \/ Restart(p) PROVE DeliveryInv'
  <2>1. /\ UNCHANGED <<status, attempts, due, received, unanswered>>
        /\ deaths' \in 0 .. MaxDeaths
    BY <1>5, DeliveryAssumption DEF Die, Restart, table, world, DeliveryInv, TypeOK
  <2>2. loop' \in [Loops -> LoopState] /\ BatchInv'
    BY <1>5, BatchDropped DEF Die, Restart, NoBatch
  <2> QED
    BY <2>1, <2>2 DEF DeliveryInv, TypeOK, RowInv
<1>6. CASE UNCHANGED vars
  BY <1>6 DEF vars, table, world, DeliveryInv, TypeOK, RowInv, BatchInv, HeldOnce, Apart, Earned
<1> QED
  BY <1>1, <1>2, <1>3, <1>4, <1>5, <1>6 DEF Next, Deliver

LEMMA DeliveryInvHolds == Spec => []DeliveryInv
  BY DeliveryInit, DeliveryStep, PTL DEF Spec

\* The rows, the batches and the counts of any number of loops have their
\* types: no row is counted beyond max_attempts, though two loops overwrite
\* one another's counts (deliver_pending).
THEOREM DeliveryTyped == Spec => []TypeOK
<1>1. DeliveryInv => TypeOK
  BY DEF DeliveryInv
<1> QED
  BY <1>1, DeliveryInvHolds, PTL

\* A row is DELIVERED only if a subscriber accepted it, whichever loop commits
\* last and whatever the loops that died had sent.
THEOREM DeliveredHonest == Spec => []DeliveredMeansReceived
<1>1. DeliveryInv => DeliveredMeansReceived
  BY DEF DeliveryInv, RowInv, DeliveredMeansReceived
<1> QED
  BY <1>1, DeliveryInvHolds, PTL

\* A row is given up only after max_attempts sends that nobody accepted.
THEOREM FailedHonest == Spec => []FailedMeansExhausted
<1>1. DeliveryInv => FailedMeansExhausted
  BY DEF DeliveryInv, RowInv, FailedMeansExhausted
<1> QED
  BY <1>1, DeliveryInvHolds, PTL

\* No loop, and no row, counts an attempt that was not made.
THEOREM CountsHonest == Spec => []AttemptsWereMade
<1>1. DeliveryInv => AttemptsWereMade
  BY DEF DeliveryInv, RowInv, BatchInv, AttemptsWereMade
<1> QED
  BY <1>1, DeliveryInvHolds, PTL

----------------------------------------------------------------------------
\* A row that no loop holds, and that is not PENDING, is not touched.
LEMMA FinalStep ==
  ASSUME DeliveryInv, [Next]_vars, NEW d \in Deliveries,
         status[d] \in Final, \A p \in Loops : ~InBatch(p, d)
  PROVE  status'[d] = status[d] /\ \A p \in Loops : ~InBatch(p, d)'
<1>1. CASE \E e \in Deliveries : Enqueue(e) \/ Elapse(e)
  BY <1>1 DEF Enqueue, Elapse, InBatch, world, Final, DeliveryInv, TypeOK
<1>2. ASSUME NEW p \in Loops, Select(p)
      PROVE  status'[d] = status[d] /\ \A q \in Loops : ~InBatch(q, d)'
  <2>1. PICK b \in Batches(Selectable) :
          loop' = [loop EXCEPT ![p] = [NoBatch EXCEPT !.pc = "send", !.todo =
                    [i \in DOMAIN b |-> [row |-> b[i], attempts |-> attempts[b[i]]]]]]
    BY <1>2 DEF Select
  <2>2. loop'[p].todo = [i \in DOMAIN b |-> [row |-> b[i], attempts |-> attempts[b[i]]]]
        /\ loop'[p].wrote = <<>>
    BY <2>1 DEF NoBatch, DeliveryInv, TypeOK
  <2>3. \A i \in DOMAIN b : b[i] \in Selectable
    <3>1. Selectable \subseteq Deliveries
      BY DEF Selectable
    <3> QED
      BY <3>1, SelectedBatch
  <2>4. d \notin Selectable
    BY DEF Selectable, Final
  <2>5. ~InBatch(p, d)'
    <3>1. \A i \in DOMAIN loop'[p].todo : loop'[p].todo[i].row # d
      BY <2>2, <2>3, <2>4
    <3>2. DOMAIN loop'[p].wrote = {}
      BY <2>2
    <3> QED
      BY <3>1, <3>2 DEF InBatch
  <2>6. \A q \in Loops : q # p => loop'[q] = loop[q]
    BY <2>1 DEF DeliveryInv, TypeOK
  <2> QED
    BY <1>2, <2>5, <2>6 DEF InBatch, Select, table
<1>3. ASSUME NEW p \in Loops, SendAccepted(p) \/ SendRefused(p) \/ SendError(p)
      PROVE  status'[d] = status[d] /\ \A q \in Loops : ~InBatch(q, d)'
  <2>1. PICK c : Noted(p, c)
    BY <1>3 DEF SendAccepted, SendRefused, SendError
  <2> DEFINE todo == loop[p].todo
  <2> DEFINE wrote == loop[p].wrote
  <2> DEFINE Row == [row: Deliveries, attempts: 0 .. MaxAttempts - 1]
  <2> DEFINE Entry == [row: Deliveries, columns: Columns]
  <2>2. todo \in Seq(Row) /\ todo # <<>> /\ wrote \in Seq(Entry)
    BY <1>3 DEF DeliveryInv, TypeOK, LoopState, SendAccepted, SendRefused, SendError, Sending
  <2> DEFINE entry == [row |-> Head(todo).row, columns |-> c]
  <2>3. loop'[p].todo = Tail(todo) /\ loop'[p].wrote = Append(wrote, entry)
        /\ \A q \in Loops : q # p => loop'[q] = loop[q]
    BY <2>1 DEF Noted, Current, DeliveryInv, TypeOK, LoopState
  <2>4. \A i \in DOMAIN todo : todo[i].row # d
    BY DEF InBatch
  <2>5. \A i \in DOMAIN wrote : wrote[i].row # d
    BY DEF InBatch
  <2> HIDE DEF todo, wrote, Row, Entry
  <2>6. Head(todo) = todo[1] /\ 1 \in DOMAIN todo
    BY <2>2, EmptySeq, LenProperties
  <2>7. entry.row # d
    BY <2>4, <2>6
  <2> HIDE DEF entry
  <2>8. \A i \in DOMAIN Tail(todo) : i + 1 \in DOMAIN todo /\ Tail(todo)[i] = todo[i + 1]
    <3>1. Len(todo) \in Nat \ {0} /\ DOMAIN todo = 1 .. Len(todo)
      BY <2>2, EmptySeq, LenProperties
    <3>2. Tail(todo) \in Seq(Row) /\ DOMAIN Tail(todo) = 1 .. Len(todo) - 1
      BY <2>2, <3>1, HeadTailProperties, LenProperties
    <3> QED
      BY <2>2, <3>1, <3>2, HeadTailProperties
  <2>9. \A i \in DOMAIN Append(wrote, entry) : Append(wrote, entry)[i].row # d
    BY <2>2, <2>5, <2>7
  <2>10. ~InBatch(p, d)'
    BY <2>3, <2>4, <2>8, <2>9 DEF InBatch
  <2> QED
    BY <1>3, <2>3, <2>10, SendWorld DEF InBatch
<1>4. ASSUME NEW p \in Loops, Commit(p)
      PROVE  status'[d] = status[d] /\ \A q \in Loops : ~InBatch(q, d)'
  <2>1. \A i \in DOMAIN loop[p].wrote : loop[p].wrote[i].row # d
    BY DEF InBatch
  <2>2. status'[d] = status[d]
    BY <1>4, <2>1, WrittenElsewhere DEF Commit
  <2>3. loop'[p].todo = <<>> /\ loop'[p].wrote = <<>> /\ DOMAIN <<>> = {}
        /\ \A q \in Loops : q # p => loop'[q] = loop[q]
    BY <1>4 DEF Commit, NoBatch, DeliveryInv, TypeOK
  <2> QED
    BY <2>2, <2>3 DEF InBatch
<1>5. ASSUME NEW p \in Loops, Die(p) \/ Restart(p)
      PROVE  status'[d] = status[d] /\ \A q \in Loops : ~InBatch(q, d)'
  <2>1. loop'[p].todo = <<>> /\ loop'[p].wrote = <<>> /\ DOMAIN <<>> = {}
        /\ \A q \in Loops : q # p => loop'[q] = loop[q]
    BY <1>5 DEF Die, Restart, NoBatch, DeliveryInv, TypeOK
  <2> QED
    BY <1>5, <2>1 DEF InBatch, Die, Restart, table
<1>6. CASE UNCHANGED vars
  BY <1>6 DEF vars, table, InBatch
<1> QED
  BY <1>1, <1>2, <1>3, <1>4, <1>5, <1>6 DEF Next, Deliver

\* An outcome is final once no loop has the row in a batch: neither a dead
\* loop's restart nor a late commit of another row's batch reopens it.
THEOREM OutcomesFinal == Spec => OutcomeIsFinal
<1> DEFINE Kept == \A d \in Deliveries :
      status[d] \in Final /\ (\A p \in Loops : ~InBatch(p, d))
      => status'[d] = status[d] /\ \A p \in Loops : ~InBatch(p, d)'
<1>1. DeliveryInv /\ [Next]_vars => [Kept]_vars
  BY FinalStep
<1>2. Spec => [][Kept]_vars
  BY <1>1, DeliveryInvHolds, PTL DEF Spec
<1> QED
  BY <1>2 DEF OutcomeIsFinal
=============================================================================
