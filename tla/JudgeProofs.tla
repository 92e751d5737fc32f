---------------------------- MODULE JudgeProofs ----------------------------
(***************************************************************************)
(* Theorems about JudgePlane for every number of processes, examples,      *)
(* prompts and replays, and every cost and budget.                         *)
(***************************************************************************)
EXTENDS JudgeProperties, TLAPS

Kinds == {"none", "run", "replay", "posted"}
Places == {"idle", "lookup", "gate", "call", "put", "store", "insert", "clear", "score"}

\* A process's state stays one whichever of its fields an action updates.
LEMMA JudgeFields ==
  /\ Idle \in JudgeState
  /\ \A kind \in Kinds, todo \in Seq(Examples) : Judging(kind, todo) \in JudgeState
  /\ \A s \in JudgeState :
       /\ s.todo \in Seq(Examples) /\ s.failed \in Seq(Examples) /\ s.hit \in BOOLEAN
       /\ s.attempts \in 0 .. MaxAttempts - 1
       /\ \A p \in Places :
            /\ [s EXCEPT !.pc = p] \in JudgeState
            /\ [s EXCEPT !.pc = p, !.attempts = 0] \in JudgeState
            /\ \A h \in BOOLEAN : [s EXCEPT !.pc = p, !.hit = h] \in JudgeState
            /\ \A t \in Seq(Examples) : [s EXCEPT !.pc = p, !.todo = t] \in JudgeState
            /\ \A t \in Seq(Examples), f \in Seq(Examples) :
                 [s EXCEPT !.pc = p, !.attempts = 0, !.failed = f, !.todo = t] \in JudgeState
       /\ \A n \in 0 .. MaxAttempts - 1 : [s EXCEPT !.attempts = n] \in JudgeState
<1>1. <<>> \in Seq(Examples) /\ 0 \in 0 .. MaxAttempts - 1
  BY JudgeAssumption
<1>2. Idle \in JudgeState
  BY <1>1 DEF Idle, JudgeState
<1>3. \A kind \in Kinds, todo \in Seq(Examples) : Judging(kind, todo) \in JudgeState
  BY <1>1 DEF JudgeState, Judging, Kinds, Idle
<1>4. ASSUME NEW s \in JudgeState
      PROVE  /\ s.todo \in Seq(Examples) /\ s.failed \in Seq(Examples) /\ s.hit \in BOOLEAN
             /\ s.attempts \in 0 .. MaxAttempts - 1
  BY DEF JudgeState
<1>5. ASSUME NEW s \in JudgeState, NEW p \in Places
      PROVE  /\ [s EXCEPT !.pc = p] \in JudgeState
             /\ [s EXCEPT !.pc = p, !.attempts = 0] \in JudgeState
             /\ \A h \in BOOLEAN : [s EXCEPT !.pc = p, !.hit = h] \in JudgeState
             /\ \A t \in Seq(Examples) : [s EXCEPT !.pc = p, !.todo = t] \in JudgeState
  BY <1>1 DEF JudgeState, Places
<1>6. ASSUME NEW s \in JudgeState, NEW p \in Places, NEW t \in Seq(Examples), NEW f \in Seq(Examples)
      PROVE  [s EXCEPT !.pc = p, !.attempts = 0, !.failed = f, !.todo = t] \in JudgeState
  BY <1>1 DEF JudgeState, Places
<1>7. ASSUME NEW s \in JudgeState, NEW n \in 0 .. MaxAttempts - 1
      PROVE  [s EXCEPT !.attempts = n] \in JudgeState
  BY DEF JudgeState
<1> QED
  BY <1>2, <1>3, <1>4, <1>5, <1>6, <1>7

LEMMA IdleType == Idle \in JudgeState /\ <<>> \in Seq(Examples)
<1>1. <<>> \in Seq(Examples)
  OBVIOUS
<1> QED
  BY <1>1, JudgeFields

\* The example a process is at is one of the run's, and what is left is a list.
LEMMA HeadAndTail ==
  ASSUME TypeOK, NEW j \in Judges, judge[j].todo # <<>>
  PROVE  Example(j) \in Examples /\ Tail(judge[j].todo) \in Seq(Examples)
<1>1. judge[j].todo \in Seq(Examples)
  BY JudgeFields DEF TypeOK
<1> QED
  BY <1>1 DEF Example

LEMMA UpdateType ==
  ASSUME TypeOK, NEW j \in Judges, NEW s \in JudgeState
  PROVE  [judge EXCEPT ![j] = s] \in [Judges -> JudgeState]
BY DEF TypeOK

LEMMA GotoType ==
  ASSUME TypeOK, NEW j \in Judges, NEW p \in Places, Goto(j, p)
  PROVE  judge' \in [Judges -> JudgeState]
<1>1. [judge[j] EXCEPT !.pc = p] \in JudgeState
  BY JudgeFields DEF TypeOK
<1> QED
  BY <1>1, UpdateType DEF Goto, TypeOK

LEMMA GiveUpType ==
  ASSUME TypeOK, NEW j \in Judges, judge[j].todo # <<>>, GiveUp(j)
  PROVE  judge' \in [Judges -> JudgeState]
<1>1. Append(judge[j].failed, Example(j)) \in Seq(Examples)
  <2>1. judge[j].failed \in Seq(Examples)
    BY JudgeFields DEF TypeOK
  <2> QED
    BY <2>1, HeadAndTail
<1>2. [judge[j] EXCEPT !.pc = "lookup", !.attempts = 0,
         !.failed = Append(judge[j].failed, Example(j)), !.todo = Tail(judge[j].todo)]
       \in JudgeState
  BY <1>1, HeadAndTail, JudgeFields DEF TypeOK, Places
<1> QED
  BY <1>2 DEF GiveUp, TypeOK

----------------------------------------------------------------------------
(* Type correctness                                                        *)

LEMMA TypeStep == TypeOK /\ [Next]_vars => TypeOK'
<1> SUFFICES ASSUME TypeOK, [Next]_vars PROVE TypeOK'
  OBVIOUS
<1>1. ASSUME NEW j \in Judges, RunBegins(j) PROVE TypeOK'
  <2>1. Judging("run", Predictions) \in JudgeState
    BY JudgeFields, JudgeAssumption DEF Kinds
  <2> QED
    BY <1>1, <2>1, UpdateType DEF RunBegins, TypeOK, stores, counts
<1>2. ASSUME NEW j \in Judges, ReplayBegins(j) PROVE TypeOK'
  <2>1. Judging("replay", dlq) \in JudgeState
    BY JudgeFields DEF Kinds, TypeOK
  <2>2. replays' \in 0 .. MaxReplays
    BY <1>2, JudgeAssumption DEF ReplayBegins, TypeOK
  <2> QED
    BY <1>2, <2>1, <2>2, UpdateType DEF ReplayBegins, TypeOK, stores
<1>3. ASSUME NEW j \in Judges, PostBegins(j) PROVE TypeOK'
  <2>1. PICK e \in Examples : judge' = [judge EXCEPT ![j] = Judging("posted", <<e>>)]
    BY <1>3 DEF PostBegins
  <2>2. Judging("posted", <<e>>) \in JudgeState
    <3>1. <<e>> \in Seq(Examples)
      OBVIOUS
    <3> QED
      BY <3>1, JudgeFields DEF Kinds
  <2>3. troubles' \in 0 .. MaxTroubles
    BY <1>3, JudgeAssumption DEF PostBegins, TypeOK
  <2> QED
    BY <1>3, <2>1, <2>2, <2>3, UpdateType DEF PostBegins, TypeOK, stores
<1>4. ASSUME NEW j \in Judges, Lookup(j) PROVE TypeOK'
  <2>1. \A p \in Places, h \in BOOLEAN : [judge[j] EXCEPT !.pc = p, !.hit = h] \in JudgeState
    BY JudgeFields DEF TypeOK
  <2>2. judge' \in [Judges -> JudgeState]
    BY <1>4, <2>1, UpdateType DEF Lookup, Places, TypeOK
  <2> QED
    BY <1>4, <2>2 DEF Lookup, TypeOK, stores, counts, Rest
<1>5. ASSUME NEW j \in Judges, Gate(j) PROVE TypeOK'
  <2>1. Cost[Example(j)] \in Nat
    BY <1>5, HeadAndTail, JudgeAssumption DEF Gate, At
  <2>2. judge' \in [Judges -> JudgeState]
    BY <1>5, GotoType, GiveUpType DEF Gate, At, Places
  <2>3. spent' \in Nat /\ admitted' \in Nat
    BY <1>5, <2>1 DEF Gate, TypeOK
  <2> QED
    BY <1>5, <2>2, <2>3 DEF Gate, TypeOK, counts, Rest
<1>6. ASSUME NEW j \in Judges, Answered(j) PROVE TypeOK'
  BY <1>6, GotoType DEF Answered, Places, TypeOK, stores, counts, Rest
<1>7. ASSUME NEW j \in Judges, CallFails(j) PROVE TypeOK'
  <2>1. judge' \in [Judges -> JudgeState]
    <3>1. CASE judge[j].attempts + 1 < MaxAttempts
      <4>1. judge[j].attempts \in 0 .. MaxAttempts - 1
        BY JudgeFields DEF TypeOK
      <4>2. judge[j].attempts + 1 \in 0 .. MaxAttempts - 1
        BY <3>1, <4>1, JudgeAssumption
      <4>3. [judge[j] EXCEPT !.attempts = judge[j].attempts + 1] \in JudgeState
        BY <4>2, JudgeFields DEF TypeOK
      <4> QED
        BY <1>7, <3>1, <4>3, UpdateType DEF CallFails, TypeOK
    <3>2. CASE ~(judge[j].attempts + 1 < MaxAttempts)
      BY <1>7, <3>2, GiveUpType DEF CallFails, At
    <3> QED
      BY <3>1, <3>2
  <2> QED
    BY <1>7, <2>1 DEF CallFails, TypeOK, stores, counts, Rest
<1>8. ASSUME NEW j \in Judges, JudgeOneRaises(j) PROVE TypeOK'
  BY <1>8, GiveUpType DEF JudgeOneRaises, At, TypeOK, stores, counts, Rest
<1>9. ASSUME NEW j \in Judges, Put(j) PROVE TypeOK'
  <2>1. [judge[j] EXCEPT !.pc = "store", !.attempts = 0] \in JudgeState
    BY JudgeFields DEF TypeOK, Places
  <2> QED
    BY <1>9, <2>1, UpdateType, HeadAndTail DEF Put, At, TypeOK, counts, Rest
<1>10. ASSUME NEW j \in Judges, Store(j) PROVE TypeOK'
  BY <1>10, GotoType, HeadAndTail DEF Store, At, Places, TypeOK, counts, Rest
<1>11. ASSUME NEW j \in Judges, Insert(j) PROVE TypeOK'
  <2>1. [judge[j] EXCEPT !.pc = "lookup", !.todo = Tail(judge[j].todo)] \in JudgeState
    BY <1>11, JudgeFields, HeadAndTail DEF Insert, At, TypeOK, Places
  <2>2. judge' \in [Judges -> JudgeState]
    BY <1>11, <2>1, UpdateType DEF Insert, TypeOK
  <2>3. judgments' \subseteq [example: Examples, hit: BOOLEAN]
    <3>1. Example(j) \in Examples /\ judge[j].hit \in BOOLEAN
      BY <1>11, HeadAndTail, JudgeFields DEF Insert, At, TypeOK
    <3> QED
      BY <1>11, <3>1 DEF Insert, TypeOK
  <2> QED
    BY <1>11, <2>2, <2>3 DEF Insert, TypeOK, counts, Rest
<1>12. ASSUME NEW j \in Judges, Finish(j) PROVE TypeOK'
  <2>1. Goto(j, "score") \/ Goto(j, "clear") \/ judge' = [judge EXCEPT ![j] = Idle]
    BY <1>12, Zenon DEF Finish
  <2>2. judge' \in [Judges -> JudgeState]
    <3>1. CASE Goto(j, "score")
      BY <3>1, GotoType DEF Places
    <3>2. CASE Goto(j, "clear")
      BY <3>2, GotoType DEF Places
    <3>3. CASE judge' = [judge EXCEPT ![j] = Idle]
      BY <3>3, UpdateType, IdleType
    <3> QED
      BY <2>1, <3>1, <3>2, <3>3
  <2>3. judge[j].failed \in Seq(Examples)
    BY JudgeFields DEF TypeOK
  <2>4. dlq' \in Seq(Examples)
    BY <1>12, <2>3 DEF Finish, TypeOK
  <2>5. returned' \in BOOLEAN
    BY <1>12 DEF Finish, TypeOK
  <2> QED
    BY <1>12, <2>2, <2>4, <2>5 DEF Finish, TypeOK, counts
<1>13. ASSUME NEW j \in Judges, Clear(j) PROVE TypeOK'
  <2>1. judge' \in [Judges -> JudgeState] /\ dlq' \in Seq(Examples)
    BY <1>13, UpdateType, IdleType DEF Clear
  <2> QED
    BY <1>13, <2>1 DEF Clear, TypeOK, counts, Rest
<1>14. ASSUME NEW j \in Judges, ReadScores(j) PROVE TypeOK'
  BY <1>14, UpdateType, IdleType DEF ReadScores, TypeOK, stores, counts, Rest
<1>15. ASSUME NEW j \in Judges, Dies(j) PROVE TypeOK'
  <2>1. judge' \in [Judges -> JudgeState]
    BY <1>15, UpdateType, IdleType DEF Dies
  <2>2. troubles' \in 0 .. MaxTroubles
    BY <1>15, JudgeAssumption DEF Dies, TypeOK
  <2> QED
    BY <1>15, <2>1, <2>2 DEF Dies, TypeOK, stores
<1>16. CASE Expire
  BY <1>16, JudgeAssumption DEF Expire, TypeOK
<1>17. CASE Tick
  BY <1>17, JudgeAssumption DEF Tick, TypeOK, counts, Rest
<1>18. CASE UNCHANGED vars
  BY <1>18 DEF vars, stores, counts, TypeOK
<1> QED
  BY <1>1, <1>2, <1>3, <1>4, <1>5, <1>6, <1>7, <1>8, <1>9, <1>10, <1>11, <1>12, <1>13, <1>14,
     <1>15, <1>16, <1>17, <1>18 DEF Next, Judge

\* Every variable of the judge plane always has its type.
THEOREM TypeCorrect == Spec => []TypeOK
<1>1. ASSUME Init PROVE TypeOK
  <2>1. judge \in [Judges -> JudgeState] /\ dlq \in Seq(Examples)
    BY <1>1, IdleType DEF Init
  <2>2. minute \in 0 .. MaxMinute /\ replays \in 0 .. MaxReplays /\ troubles \in 0 .. MaxTroubles
    BY <1>1, JudgeAssumption DEF Init
  <2> QED
    BY <1>1, <2>1, <2>2 DEF Init, TypeOK
<1>2. TypeOK /\ [Next]_vars => TypeOK'
  BY TypeStep
<1> QED
  BY <1>1, <1>2, PTL DEF Spec

----------------------------------------------------------------------------
(* The budget.  It holds because nothing is admitted that the counter did  *)
(* not count first.                                                        *)

BudgetInv == BudgetHolds /\ admitted <= spent

LEMMA BudgetStep == TypeOK /\ BudgetInv /\ [Next]_vars => BudgetInv'
<1> SUFFICES ASSUME TypeOK, BudgetInv, [Next]_vars PROVE BudgetInv'
  OBVIOUS
<1> Budget \in Nat /\ spent \in Nat /\ admitted \in Nat
  BY JudgeAssumption DEF TypeOK
<1>1. ASSUME NEW j \in Judges, Gate(j) PROVE BudgetInv'
  <2>1. Cost[Example(j)] \in Nat
    BY <1>1, HeadAndTail, JudgeAssumption DEF Gate, At
  <2>2. CASE spent + Cost[Example(j)] <= Budget
    BY <1>1, <2>1, <2>2 DEF Gate, BudgetInv, BudgetHolds
  <2>3. CASE ~(spent + Cost[Example(j)] <= Budget)
    BY <1>1, <2>1, <2>3 DEF Gate, BudgetInv, BudgetHolds
  <2> QED
    BY <2>2, <2>3
<1>2. CASE Tick
  BY <1>2 DEF Tick, BudgetInv, BudgetHolds
<1>3. CASE UNCHANGED <<spent, admitted>>
  BY <1>3 DEF BudgetInv, BudgetHolds
<1>4. ASSUME NEW j \in Judges,
             RunBegins(j) \/ ReplayBegins(j) \/ PostBegins(j) \/ JudgeOneRaises(j) \/ Dies(j)
      PROVE  UNCHANGED <<spent, admitted>>
  BY <1>4 DEF RunBegins, ReplayBegins, PostBegins, JudgeOneRaises, Dies, stores
<1>5. ASSUME NEW j \in Judges,
             Lookup(j) \/ Answered(j) \/ CallFails(j) \/ Put(j) \/ Store(j) \/ Insert(j)
             \/ Finish(j) \/ Clear(j) \/ ReadScores(j)
      PROVE  UNCHANGED <<spent, admitted>>
  BY <1>5 DEF Lookup, Answered, CallFails, Put, Store, Insert, Finish, Clear, ReadScores, stores
<1>6. Expire \/ UNCHANGED vars => UNCHANGED <<spent, admitted>>
  BY DEF Expire, vars, stores
<1> QED
  BY <1>1, <1>2, <1>3, <1>4, <1>5, <1>6 DEF Next, Judge

\* However many processes consume one minute's counter, what passes the gate
\* stays within the budget (_budget_check_and_consume).
THEOREM BudgetKept == Spec => []BudgetHolds
<1>1. Init => BudgetInv
  BY JudgeAssumption DEF Init, BudgetInv, BudgetHolds
<1>2. BudgetInv => BudgetHolds
  BY DEF BudgetInv
<1> QED
  BY <1>1, <1>2, BudgetStep, TypeCorrect, PTL DEF Spec

----------------------------------------------------------------------------
(* Raw responses.  A process about to insert a judgment of its own has     *)
(* stored the response, and responses are never removed.                   *)

HasStored(k) == judge[k].pc = "insert" /\ ~judge[k].hit => Example(k) \in raw
RawInv == RawIsKept /\ \A k \in Judges : HasStored(k)

\* A step of j that takes it anywhere but to an insertion, and no response away.
LEMMA RawFrame ==
  ASSUME TypeOK, RawInv, NEW j \in Judges, judge'[j].pc # "insert",
         \A k \in Judges \ {j} : judge'[k] = judge[k],
         raw \subseteq raw', judgments' = judgments
  PROVE  RawInv'
BY DEF RawInv, RawIsKept, HasStored, Example

LEMMA RawStep == TypeOK /\ RawInv /\ [Next]_vars => RawInv'
<1> SUFFICES ASSUME TypeOK, RawInv, [Next]_vars PROVE RawInv'
  OBVIOUS
<1> judge \in [Judges -> JudgeState]
  BY DEF TypeOK
<1>0. \A k \in Judges : judge[k] \in JudgeState
  OBVIOUS
<1>1. ASSUME NEW j \in Judges,
             RunBegins(j) \/ ReplayBegins(j) \/ PostBegins(j) \/ Finish(j) \/ Clear(j)
             \/ ReadScores(j) \/ Dies(j)
      PROVE  RawInv'
  <2>1. judge'[j].pc # "insert" /\ \A k \in Judges \ {j} : judge'[k] = judge[k]
    <3>1. CASE RunBegins(j) \/ ReplayBegins(j) \/ PostBegins(j)
      BY <3>1 DEF RunBegins, ReplayBegins, PostBegins, Judging, Idle
    <3>2. CASE Finish(j)
      <4>1. Goto(j, "score") \/ Goto(j, "clear") \/ judge' = [judge EXCEPT ![j] = Idle]
        BY <3>2, Zenon DEF Finish
      <4> QED
        BY <4>1, <1>0 DEF Goto, Idle, JudgeState
    <3>3. CASE Clear(j) \/ ReadScores(j) \/ Dies(j)
      BY <3>3 DEF Clear, ReadScores, Dies, Idle
    <3> QED
      BY <1>1, <3>1, <3>2, <3>3
  <2>2. raw' = raw /\ judgments' = judgments
    BY <1>1 DEF RunBegins, ReplayBegins, PostBegins, Finish, Clear, ReadScores, Dies, stores
  <2> QED
    BY <2>1, <2>2, RawFrame
<1>2. ASSUME NEW j \in Judges,
             Gate(j) \/ Answered(j) \/ CallFails(j) \/ JudgeOneRaises(j) \/ Put(j)
      PROVE  RawInv'
  <2>1. judge'[j].pc # "insert" /\ \A k \in Judges \ {j} : judge'[k] = judge[k]
    <3>1. GiveUp(j) => judge'[j].pc # "insert" /\ \A k \in Judges \ {j} : judge'[k] = judge[k]
      BY <1>0 DEF GiveUp, JudgeState
    <3>2. CASE Gate(j)
      BY <3>1, <3>2, <1>0 DEF Gate, Goto, JudgeState
    <3>3. CASE Answered(j)
      BY <3>3, <1>0 DEF Answered, Goto, JudgeState
    <3>4. CASE CallFails(j)
      BY <3>1, <3>4, <1>0 DEF CallFails, At, JudgeState
    <3>5. CASE JudgeOneRaises(j)
      BY <3>1, <3>5 DEF JudgeOneRaises
    <3>6. CASE Put(j)
      BY <3>6, <1>0 DEF Put, JudgeState
    <3> QED
      BY <1>2, <3>2, <3>3, <3>4, <3>5, <3>6
  <2>2. raw' = raw /\ judgments' = judgments
    BY <1>2 DEF Gate, Answered, CallFails, JudgeOneRaises, Put, stores
  <2> QED
    BY <2>1, <2>2, RawFrame
<1>3. ASSUME NEW j \in Judges, Lookup(j) PROVE RawInv'
  <2>1. judge'[j].pc # "insert" \/ judge'[j].hit
    BY <1>3, <1>0 DEF Lookup, JudgeState
  <2>2. \A k \in Judges \ {j} : judge'[k] = judge[k]
    BY <1>3 DEF Lookup
  <2> QED
    BY <1>3, <2>1, <2>2 DEF Lookup, stores, RawInv, RawIsKept, HasStored, Example
<1>4. ASSUME NEW j \in Judges, Store(j) PROVE RawInv'
  <2>1. judge'[j].todo = judge[j].todo /\ \A k \in Judges \ {j} : judge'[k] = judge[k]
    BY <1>4, <1>0 DEF Store, Goto, JudgeState
  <2>2. HasStored(j)' /\ RawIsKept'
    BY <1>4, <2>1 DEF Store, HasStored, Example, RawInv, RawIsKept
  <2>3. \A k \in Judges \ {j} : HasStored(k)'
    BY <1>4, <2>1 DEF Store, RawInv, HasStored, Example
  <2> QED
    BY <2>2, <2>3 DEF RawInv
<1>5. ASSUME NEW j \in Judges, Insert(j) PROVE RawInv'
  <2>1. judge'[j].pc = "lookup" /\ \A k \in Judges \ {j} : judge'[k] = judge[k]
    BY <1>5, <1>0 DEF Insert, JudgeState
  <2>2. raw' = raw /\ judgments' = judgments \cup {[example |-> Example(j), hit |-> judge[j].hit]}
    BY <1>5 DEF Insert
  <2>3. ~judge[j].hit => Example(j) \in raw
    BY <1>5 DEF Insert, At, RawInv, HasStored
  <2>4. RawIsKept'
    BY <2>2, <2>3 DEF RawInv, RawIsKept
  <2>5. \A k \in Judges : HasStored(k)'
    BY <2>1, <2>2 DEF RawInv, HasStored, Example
  <2> QED
    BY <2>4, <2>5 DEF RawInv
<1>6. CASE Expire \/ Tick \/ UNCHANGED vars
  <2>1. judge' = judge /\ raw' = raw /\ judgments' = judgments
    BY <1>6 DEF Expire, Tick, vars, stores
  <2> QED
    BY <2>1 DEF RawInv, RawIsKept, HasStored, Example
<1> QED
  BY <1>1, <1>2, <1>3, <1>4, <1>5, <1>6 DEF Next, Judge

\* A judgment that is not from the cache has its raw response in the store,
\* whatever dies between the two writes (judge_run 138-156).
THEOREM RawKept == Spec => []RawIsKept
<1>1. Init => RawInv
  BY DEF Init, RawInv, RawIsKept, HasStored, Idle
<1>2. RawInv => RawIsKept
  BY DEF RawInv
<1> QED
  BY <1>1, <1>2, RawStep, TypeCorrect, PTL DEF Spec

----------------------------------------------------------------------------
(* Nothing is forgotten.  While nothing is posted, only replays clear the  *)
(* list, and a replay that is judging carries everything that was not yet  *)
(* judged when it read the list: it clears it when it has judged all that. *)

Holds(s, e) == \E i \in DOMAIN s : s[i] = e
Carries(k, e) == Holds(judge[k].todo, e) \/ Holds(judge[k].failed, e)

\* What a process that is judging the run, or a replay of it, is good for.
IsOnTheRun(k) ==
  judge[k].pc # "idle" =>
    /\ judge[k].kind \in {"run", "replay"}
    /\ judge[k].kind = "replay" => returned
    /\ judge[k].pc # "score" => \A e \in ToSet(Predictions) : Judged(e) \/ Carries(k, e)
    /\ judge[k].pc = "clear" => judge[k].todo = <<>> /\ judge[k].failed = <<>>

ForgetInv ==
  ~posted =>
    /\ returned => \A e \in ToSet(Predictions) : Judged(e) \/ Dead(e)
    /\ ~returned => dlq = <<>>
    /\ \A k \in Judges : IsOnTheRun(k)

LEMMA HoldsEmpty == \A e : ~Holds(<<>>, e)
BY DEF Holds

LEMMA HoldsAppend ==
  ASSUME NEW s \in Seq(Examples), NEW x \in Examples
  PROVE  Holds(Append(s, x), x) /\ \A e : Holds(s, e) => Holds(Append(s, x), e)
<1>1. Len(Append(s, x)) = Len(s) + 1 /\ Append(s, x)[Len(s) + 1] = x
      /\ \A i \in 1 .. Len(s) : Append(s, x)[i] = s[i]
  OBVIOUS
<1>2. DOMAIN s = 1 .. Len(s) /\ DOMAIN Append(s, x) = 1 .. Len(s) + 1 /\ Len(s) \in Nat
  OBVIOUS
<1> QED
  BY <1>1, <1>2 DEF Holds

LEMMA HoldsTail ==
  ASSUME NEW s \in Seq(Examples), s # <<>>, NEW e, Holds(s, e)
  PROVE  e = Head(s) \/ Holds(Tail(s), e)
<1>1. PICK i \in DOMAIN s : s[i] = e
  BY DEF Holds
<1>2. DOMAIN s = 1 .. Len(s) /\ Len(s) \in Nat /\ Head(s) = s[1]
  OBVIOUS
<1>3. CASE i = 1
  BY <1>1, <1>2, <1>3
<1>4. CASE i # 1
  <2>1. i - 1 \in DOMAIN Tail(s) /\ Tail(s)[i - 1] = s[i]
    BY <1>1, <1>2, <1>4
  <2> QED
    BY <1>1, <2>1 DEF Holds
<1> QED
  BY <1>3, <1>4

LEMMA HoldsConcat ==
  ASSUME NEW s \in Seq(Examples), NEW t \in Seq(Examples), NEW e, Holds(s, e) \/ Holds(t, e)
  PROVE  Holds(s \o t, e)
<1>1. DOMAIN s = 1 .. Len(s) /\ DOMAIN t = 1 .. Len(t) /\ DOMAIN (s \o t) = 1 .. Len(s) + Len(t)
      /\ Len(s) \in Nat /\ Len(t) \in Nat
  OBVIOUS
<1>2. CASE Holds(s, e)
  <2>1. PICK i \in DOMAIN s : s[i] = e
    BY <1>2 DEF Holds
  <2>2. (s \o t)[i] = s[i] /\ i \in DOMAIN (s \o t)
    BY <1>1
  <2> QED
    BY <2>1, <2>2 DEF Holds
<1>3. CASE Holds(t, e)
  <2>1. PICK i \in DOMAIN t : t[i] = e
    BY <1>3 DEF Holds
  <2>2. (s \o t)[Len(s) + i] = t[i] /\ Len(s) + i \in DOMAIN (s \o t)
    BY <1>1
  <2> QED
    BY <2>1, <2>2 DEF Holds
<1> QED
  BY <1>2, <1>3

LEMMA PredictionsAreHeld == \A e \in ToSet(Predictions) : Holds(Predictions, e)
BY DEF ToSet, Holds

LEMMA DeadIsHeld == \A e : Dead(e) <=> Holds(dlq, e)
BY DEF Dead, Holds

\* A step of j that leaves the list and the outcome of the worker's call alone
\* only has to keep what j itself carries.
LEMMA ForgetFrame ==
  ASSUME ForgetInv, NEW j \in Judges, posted' = posted, returned' = returned, dlq' = dlq,
         \A k \in Judges \ {j} : judge'[k] = judge[k],
         judgments \subseteq judgments',
         ~posted => IsOnTheRun(j)'
  PROVE  ForgetInv'
<1> SUFFICES ASSUME ~posted PROVE ForgetInv'
  BY DEF ForgetInv
<1>1. \A e : Judged(e) => Judged(e)'
  BY DEF Judged
<1>2. returned' => \A e \in ToSet(Predictions) : Judged(e)' \/ Dead(e)'
  BY <1>1 DEF ForgetInv, Dead
<1>3. \A k \in Judges \ {j} : IsOnTheRun(k)'
  BY <1>1 DEF ForgetInv, IsOnTheRun, Carries
<1> QED
  BY <1>2, <1>3 DEF ForgetInv

\* j keeps carrying what it carried if it only changes its place.
LEMMA PlaceFrame ==
  ASSUME ForgetInv, NEW j \in Judges, posted' = posted, returned' = returned, dlq' = dlq,
         \A k \in Judges \ {j} : judge'[k] = judge[k],
         judgments' = judgments,
         judge[j].pc \notin {"idle", "score"}, judge'[j].pc \notin {"clear", "score"},
         judge'[j].kind = judge[j].kind,
         judge'[j].todo = judge[j].todo, judge'[j].failed = judge[j].failed
  PROVE  ForgetInv'
<1>1. ~posted => IsOnTheRun(j)'
  BY DEF ForgetInv, IsOnTheRun, Carries, Judged
<1> QED
  BY <1>1, ForgetFrame

LEMMA GiveUpKeeps ==
  ASSUME TypeOK, ForgetInv, NEW j \in Judges, judge[j].todo # <<>>,
         judge[j].pc \notin {"idle", "score"}, GiveUp(j),
         UNCHANGED <<posted, returned, dlq, judgments>>
  PROVE  ForgetInv'
<1> DEFINE s == judge[j]
<1>1. s \in JudgeState /\ s.todo \in Seq(Examples) /\ s.failed \in Seq(Examples)
  BY JudgeFields DEF TypeOK
<1>2. /\ judge'[j].pc = "lookup" /\ judge'[j].kind = s.kind
      /\ judge'[j].failed = Append(s.failed, Example(j)) /\ judge'[j].todo = Tail(s.todo)
      /\ \A k \in Judges \ {j} : judge'[k] = judge[k]
  BY <1>1 DEF GiveUp, JudgeState, TypeOK
<1>3. \A e \in ToSet(Predictions) : Carries(j, e) => Carries(j, e)'
  BY <1>1, <1>2, HoldsAppend, HoldsTail, HeadAndTail DEF Carries, Example
<1>4. ~posted => IsOnTheRun(j)'
  BY <1>2, <1>3 DEF ForgetInv, IsOnTheRun, Judged
<1> QED
  BY <1>2, <1>4, ForgetFrame

LEMMA ForgetStep == TypeOK /\ ForgetInv /\ [Next]_vars => ForgetInv'
<1> SUFFICES ASSUME TypeOK, ForgetInv, [Next]_vars PROVE ForgetInv'
  OBVIOUS
<1>0. /\ judge \in [Judges -> JudgeState] /\ \A k \in Judges : judge[k] \in JudgeState
      /\ posted \in BOOLEAN /\ returned \in BOOLEAN
  BY DEF TypeOK
<1>1. ASSUME NEW j \in Judges, RunBegins(j) PROVE ForgetInv'
  <2>1. judge'[j] = Judging("run", Predictions) /\ \A k \in Judges \ {j} : judge'[k] = judge[k]
    BY <1>0, <1>1 DEF RunBegins
  <2>2. judge'[j].pc = "lookup" /\ judge'[j].kind = "run" /\ judge'[j].todo = Predictions
    BY <2>1 DEF Judging, Idle
  <2>3. UNCHANGED <<posted, returned, dlq, judgments>>
    BY <1>1 DEF RunBegins, stores, counts
  <2>4. IsOnTheRun(j)'
    BY <2>2, PredictionsAreHeld DEF IsOnTheRun, Carries
  <2> QED
    BY <2>1, <2>3, <2>4, ForgetFrame
<1>2. ASSUME NEW j \in Judges, ReplayBegins(j) PROVE ForgetInv'
  <2>1. judge'[j] = Judging("replay", dlq) /\ \A k \in Judges \ {j} : judge'[k] = judge[k]
    BY <1>0, <1>2 DEF ReplayBegins
  <2>2. judge'[j].pc = "lookup" /\ judge'[j].kind = "replay" /\ judge'[j].todo = dlq
    BY <2>1 DEF Judging, Idle
  <2>3. UNCHANGED <<posted, returned, dlq, judgments>>
    BY <1>2 DEF ReplayBegins, stores
  <2>4. ~posted => IsOnTheRun(j)'
    <3> SUFFICES ASSUME ~posted PROVE IsOnTheRun(j)'
      OBVIOUS
    <3>1. returned
      BY <1>2 DEF ReplayBegins, ForgetInv
    <3>2. \A e \in ToSet(Predictions) : Judged(e) \/ Holds(dlq, e)
      BY <3>1, DeadIsHeld DEF ForgetInv
    <3> QED
      BY <2>2, <2>3, <3>1, <3>2 DEF IsOnTheRun, Carries, Judged
  <2> QED
    BY <2>1, <2>3, <2>4, ForgetFrame
<1>3. ASSUME NEW j \in Judges, PostBegins(j) PROVE ForgetInv'
  BY <1>3 DEF PostBegins, ForgetInv
<1>4. ASSUME NEW j \in Judges, Lookup(j) PROVE ForgetInv'
  <2>1. UNCHANGED <<posted, returned, dlq, judgments>> /\ judge[j].pc = "lookup"
    BY <1>4 DEF Lookup, At, stores, counts, Rest
  <2>2. judge'[j].pc \in {"insert", "gate"} /\ judge'[j].kind = judge[j].kind
        /\ judge'[j].todo = judge[j].todo /\ judge'[j].failed = judge[j].failed
        /\ \A k \in Judges \ {j} : judge'[k] = judge[k]
    BY <1>0, <1>4 DEF Lookup, JudgeState
  <2> QED
    BY <2>1, <2>2, PlaceFrame
<1>5. ASSUME NEW j \in Judges, Gate(j) PROVE ForgetInv'
  <2>1. UNCHANGED <<posted, returned, dlq, judgments>> /\ judge[j].pc = "gate" /\ judge[j].todo # <<>>
    BY <1>5 DEF Gate, At, counts, Rest
  <2>2. CASE Goto(j, "call")
    <3>1. judge'[j].pc = "call" /\ judge'[j].kind = judge[j].kind
          /\ judge'[j].todo = judge[j].todo /\ judge'[j].failed = judge[j].failed
          /\ \A k \in Judges \ {j} : judge'[k] = judge[k]
      BY <1>0, <2>2 DEF Goto, JudgeState
    <3> QED
      BY <2>1, <3>1, PlaceFrame
  <2>3. CASE GiveUp(j)
    BY <2>1, <2>3, GiveUpKeeps
  <2> QED
    BY <1>5, <2>2, <2>3 DEF Gate
<1>6. ASSUME NEW j \in Judges, Answered(j) \/ Store(j) PROVE ForgetInv'
  <2>1. UNCHANGED <<posted, returned, dlq, judgments>> /\ judge[j].pc \in {"call", "store"}
    BY <1>6 DEF Answered, Store, At, stores, counts, Rest
  <2>2. judge'[j].pc \in {"put", "insert"} /\ judge'[j].kind = judge[j].kind
        /\ judge'[j].todo = judge[j].todo /\ judge'[j].failed = judge[j].failed
        /\ \A k \in Judges \ {j} : judge'[k] = judge[k]
    BY <1>0, <1>6 DEF Answered, Store, Goto, JudgeState
  <2> QED
    BY <2>1, <2>2, PlaceFrame
<1>7. ASSUME NEW j \in Judges, CallFails(j) PROVE ForgetInv'
  <2>1. UNCHANGED <<posted, returned, dlq, judgments>> /\ judge[j].pc = "call" /\ judge[j].todo # <<>>
    BY <1>7 DEF CallFails, At, stores, counts, Rest
  <2>2. CASE judge' = [judge EXCEPT ![j].attempts = judge[j].attempts + 1]
    <3>1. judge'[j].pc = "call" /\ judge'[j].kind = judge[j].kind
          /\ judge'[j].todo = judge[j].todo /\ judge'[j].failed = judge[j].failed
          /\ \A k \in Judges \ {j} : judge'[k] = judge[k]
      BY <1>0, <2>1, <2>2 DEF JudgeState
    <3> QED
      BY <2>1, <3>1, PlaceFrame
  <2>3. CASE GiveUp(j)
    BY <2>1, <2>3, GiveUpKeeps
  <2> QED
    BY <1>7, <2>2, <2>3 DEF CallFails
<1>8. ASSUME NEW j \in Judges, JudgeOneRaises(j) PROVE ForgetInv'
  <2>1. UNCHANGED <<posted, returned, dlq, judgments>> /\ judge[j].todo # <<>>
        /\ judge[j].pc \notin {"idle", "score"} /\ GiveUp(j)
    BY <1>8 DEF JudgeOneRaises, At, stores, counts, Rest
  <2> QED
    BY <2>1, GiveUpKeeps
<1>9. ASSUME NEW j \in Judges, Put(j) PROVE ForgetInv'
  <2>1. UNCHANGED <<posted, returned, dlq, judgments>> /\ judge[j].pc = "put"
    BY <1>9 DEF Put, At, counts, Rest
  <2>2. judge'[j].pc = "store" /\ judge'[j].kind = judge[j].kind
        /\ judge'[j].todo = judge[j].todo /\ judge'[j].failed = judge[j].failed
        /\ \A k \in Judges \ {j} : judge'[k] = judge[k]
    BY <1>0, <1>9 DEF Put, JudgeState
  <2> QED
    BY <2>1, <2>2, PlaceFrame
<1>10. ASSUME NEW j \in Judges, Insert(j) PROVE ForgetInv'
  <2>1. UNCHANGED <<posted, returned, dlq>> /\ judge[j].pc = "insert" /\ judge[j].todo # <<>>
        /\ judgments' = judgments \cup {[example |-> Example(j), hit |-> judge[j].hit]}
    BY <1>10 DEF Insert, At, counts, Rest
  <2>2. judge'[j].pc = "lookup" /\ judge'[j].kind = judge[j].kind
        /\ judge'[j].todo = Tail(judge[j].todo) /\ judge'[j].failed = judge[j].failed
        /\ \A k \in Judges \ {j} : judge'[k] = judge[k]
    BY <1>0, <1>10 DEF Insert, JudgeState
  <2>3. \A e : Judged(e) => Judged(e)'
    BY <2>1 DEF Judged
  <2>4. \A e : e = Example(j) => Judged(e)'
    <3>1. [example |-> Example(j), hit |-> judge[j].hit] \in judgments'
      BY <2>1
    <3>2. [example |-> Example(j), hit |-> judge[j].hit].example = Example(j)
      OBVIOUS
    <3>3. \E row \in judgments' : row.example = Example(j)
      BY <3>1, <3>2
    <3> QED
      BY <3>3 DEF Judged
  <2>5. \A e : Carries(j, e) => Judged(e)' \/ Carries(j, e)'
    <3>1. judge[j].todo \in Seq(Examples)
      BY <1>0, JudgeFields
    <3> QED
      BY <2>1, <2>2, <2>4, <3>1, HoldsTail DEF Carries, Example
  <2>6. ~posted => IsOnTheRun(j)'
    BY <2>1, <2>2, <2>3, <2>5 DEF ForgetInv, IsOnTheRun
  <2> QED
    BY <2>1, <2>2, <2>6, ForgetFrame
<1>11. ASSUME NEW j \in Judges, Finish(j) PROVE ForgetInv'
  <2> SUFFICES ASSUME ~posted PROVE ForgetInv'
    BY <1>11 DEF Finish, counts, ForgetInv
  <2>1. /\ UNCHANGED <<posted, judgments>> /\ judge[j].pc = "lookup" /\ judge[j].todo = <<>>
        /\ dlq' = dlq \o judge[j].failed
        /\ returned' = (returned \/ judge[j].kind = "run")
    BY <1>11 DEF Finish, counts
  <2>2. \A k \in Judges \ {j} : judge'[k] = judge[k]
    <3>1. Goto(j, "score") \/ Goto(j, "clear") \/ judge' = [judge EXCEPT ![j] = Idle]
      BY <1>11, Zenon DEF Finish
    <3> QED
      BY <1>0, <3>1 DEF Goto
  <2>3. returned'
    BY <2>1 DEF ForgetInv, IsOnTheRun
  <2>4. \A e \in ToSet(Predictions) : Judged(e) \/ Holds(judge[j].failed, e)
    BY <2>1, HoldsEmpty DEF ForgetInv, IsOnTheRun, Carries
  <2>5. \A e \in ToSet(Predictions) : Judged(e)' \/ Dead(e)'
    <3>1. dlq \in Seq(Examples) /\ judge[j].failed \in Seq(Examples)
      BY <1>0, JudgeFields DEF TypeOK
    <3>2. \A e : Dead(e)' <=> Holds(dlq', e)
      BY DEF Dead, Holds
    <3> QED
      BY <2>1, <2>4, <3>1, <3>2, HoldsConcat DEF Judged
  <2>6. \A k \in Judges \ {j} : IsOnTheRun(k)'
    BY <2>1, <2>2, <2>3 DEF ForgetInv, IsOnTheRun, Carries, Judged
  <2>7. IsOnTheRun(j)'
    <3>1. CASE judge[j].kind = "run"
      <4>1. Goto(j, "score")
        BY <1>11, <3>1 DEF Finish
      <4>2. judge'[j].pc = "score" /\ judge'[j].kind = "run"
        BY <1>0, <3>1, <4>1 DEF Goto, JudgeState
      <4> QED
        BY <4>2 DEF IsOnTheRun
    <3>2. CASE judge[j].kind = "replay" /\ judge[j].failed = <<>>
      <4>1. Goto(j, "clear")
        BY <1>11, <3>2 DEF Finish
      <4>2. judge'[j].pc = "clear" /\ judge'[j].kind = "replay"
            /\ judge'[j].todo = <<>> /\ judge'[j].failed = <<>>
        BY <1>0, <2>1, <3>2, <4>1 DEF Goto, JudgeState
      <4> QED
        BY <2>1, <2>3, <2>4, <3>2, <4>2, HoldsEmpty DEF IsOnTheRun, Judged
    <3>3. CASE judge[j].kind # "run" /\ ~(judge[j].kind = "replay" /\ judge[j].failed = <<>>)
      <4>1. judge' = [judge EXCEPT ![j] = Idle]
        BY <1>11, <3>3 DEF Finish
      <4> QED
        BY <1>0, <4>1 DEF IsOnTheRun, Idle
    <3> QED
      BY <3>1, <3>2, <3>3
  <2> QED
    BY <2>3, <2>5, <2>6, <2>7 DEF ForgetInv
<1>12. ASSUME NEW j \in Judges, Clear(j) PROVE ForgetInv'
  <2> SUFFICES ASSUME ~posted PROVE ForgetInv'
    BY <1>12 DEF Clear, Rest, counts, ForgetInv
  <2>1. UNCHANGED <<posted, returned, judgments>> /\ judge[j].pc = "clear" /\ dlq' = <<>>
        /\ judge' = [judge EXCEPT ![j] = Idle]
    BY <1>12 DEF Clear, Rest, counts
  <2>2. \A e \in ToSet(Predictions) : Judged(e)
    BY <2>1, HoldsEmpty DEF ForgetInv, IsOnTheRun, Carries
  <2>3. \A k \in Judges : IsOnTheRun(k)'
    BY <1>0, <2>1, <2>2 DEF ForgetInv, IsOnTheRun, Carries, Judged, Idle
  <2> QED
    BY <2>1, <2>2, <2>3 DEF ForgetInv, Judged
<1>13. ASSUME NEW j \in Judges, ReadScores(j) \/ Dies(j) PROVE ForgetInv'
  <2>1. UNCHANGED <<posted, returned, dlq, judgments>> /\ judge' = [judge EXCEPT ![j] = Idle]
    BY <1>13 DEF ReadScores, Dies, stores, Rest, counts
  <2>2. IsOnTheRun(j)'
    BY <1>0, <2>1 DEF IsOnTheRun, Idle
  <2> QED
    BY <1>0, <2>1, <2>2, ForgetFrame
<1>14. CASE Expire \/ Tick \/ UNCHANGED vars
  <2>1. UNCHANGED <<posted, returned, dlq, judgments, judge>>
    BY <1>14 DEF Expire, Tick, vars, stores, counts, Rest
  <2> QED
    BY <2>1 DEF ForgetInv, IsOnTheRun, Carries, Judged, Dead
<1> QED
  BY <1>1, <1>2, <1>3, <1>4, <1>5, <1>6, <1>7, <1>8, <1>9, <1>10, <1>11, <1>12, <1>13, <1>14
  DEF Next, Judge

\* When judge_run has returned, each example is judged or in the dead-letter
\* list, with any number of replays at once, failing in part and dying.
THEOREM NoneForgotten == Spec => []NothingForgotten
<1>1. Init => ForgetInv
  BY DEF Init, ForgetInv, IsOnTheRun, Idle
<1>2. ForgetInv => NothingForgotten
  BY DEF ForgetInv, NothingForgotten
<1> QED
  BY <1>1, <1>2, ForgetStep, TypeCorrect, PTL DEF Spec
=============================================================================
