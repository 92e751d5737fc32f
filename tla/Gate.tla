-------------------------------- MODULE Gate --------------------------------
(***************************************************************************)
(* The release gate: POST /runs/{run_id}/decide evaluates a policy, rule   *)
(* by rule, over the results of one run and of its baseline, while the     *)
(* aggregator commits those results.                                       *)
(*                                                                         *)
(* Every rule queries run_result anew, at READ COMMITTED.  What a pass of  *)
(* the aggregator inserts is fixed by the run's artifacts and seed, so the *)
(* table is the number of passes committed for each run.  A run asks for   *)
(* one version of a metric, as _result_for presumes.                       *)
(***************************************************************************)
EXTENDS Integers, Sequences, FiniteSets

CONSTANTS
  Metrics, Slices,  \* names that rules use
  Overall,          \* the slice of the rows whose slice_def_id is NULL
  Points, NoPoint,  \* values of point_estimate, and a row that is not inserted
  Policies,         \* the policies that are submitted: sequences of rules
  Deciders,         \* requests being served at one time
  MaxDecisions,     \* bound: decisions requested
  MaxPasses         \* bound: aggregations of each run

Runs == {"run", "baseline"}   \* the run decided on, and its baseline_run_id
AllSlices == Slices \cup {Overall}
Numeric == {">=", "<=", ">", "<"}
Relative == {">= baseline", "<= baseline"}

\* The fields of a rule; operators and severities are unchecked strings.
Rules == [metric: Metrics, slice: AllSlices, operator: STRING, threshold: Int \cup {NoPoint},
          margin: Int, severity: STRING, require_significant: BOOLEAN]

ASSUME GateAssumption ==
  /\ Points \subseteq Nat /\ NoPoint \notin Points /\ Overall \notin Slices
  /\ Policies \subseteq Seq(Rules) /\ IsFiniteSet(Deciders)
  /\ {MaxDecisions, MaxPasses} \subseteq Nat

VARIABLES
  linked,    \* the run has a baseline_run_id
  point,     \* what a pass over each run inserts, by metric and slice
  pvalue,    \* the p-value of the run's overall rows: "none", "low" (< 0.05) or "high"
  passes,    \* aggregations of each run that have committed
  decider,   \* the policy each request evaluates and the outcomes so far
  decisions, \* what was answered, in order
  asked
data == <<linked, point, pvalue>>
vars == <<data, passes, decider, decisions, asked>>

IdleDecider == [pc |-> "idle", policy |-> <<>>, outcomes |-> <<>>, after |-> 0]

\* Per-slice rows come with an overall row; only overall rows get a p-value, and
\* only where there is a baseline.
Init ==
  /\ linked \in BOOLEAN
  /\ point \in {f \in [Runs -> [Metrics \X AllSlices -> Points \cup {NoPoint}]] :
        \A r \in Runs, m \in Metrics, s \in Slices :
          f[r][m, Overall] = NoPoint => f[r][m, s] = NoPoint}
  /\ pvalue \in {f \in [Metrics -> {"none", "low", "high"}] :
        linked \/ \A m \in Metrics : f[m] = "none"}
  /\ passes = [r \in Runs |-> 0]
  /\ decider = [d \in Deciders |-> IdleDecider]
  /\ decisions = <<>> /\ asked = 0

\* aggregate_run commits.  A second pass repeats the overall rows and collides
\* on a slice row.
Aggregate(r) ==
  /\ passes[r] < MaxPasses
  /\ passes[r] > 0 => \A m \in Metrics, s \in Slices : point[r][m, s] = NoPoint
  /\ passes' = [passes EXCEPT ![r] = @ + 1]
  /\ UNCHANGED <<data, decider, decisions, asked>>

----------------------------------------------------------------------------
Begin(d, policy) ==
  /\ decider[d].pc = "idle" /\ asked < MaxDecisions
  /\ decider' = [decider EXCEPT ![d] =
       [pc |-> "result", policy |-> policy, outcomes |-> <<>>, after |-> Len(decisions)]]
  /\ asked' = asked + 1
  /\ UNCHANGED <<data, passes, decisions>>

At(d, pc) == decider[d].pc = pc /\ Len(decider[d].outcomes) < Len(decider[d].policy)
Rule(d) == decider[d].policy[Len(decider[d].outcomes) + 1]

Outcome(passed, reason) == [passed |-> passed, reason |-> reason]
Note(d, outcome) ==
  decider' = [decider EXCEPT ![d].pc = "result", ![d].outcomes = Append(@, outcome)]

\* The rows that _result_for finds; more than one is an exception, and a 500.
Found(r, rule) ==
  IF point[r][rule.metric, rule.slice] = NoPoint THEN 0 ELSE passes[r]
PointOf(r, rule) == point[r][rule.metric, rule.slice]
P(rule) == IF rule.slice = Overall THEN pvalue[rule.metric] ELSE "none"

CompareLoose(operator, x, t) ==   \* mutant: > taken for >=
  \/ operator \in {">=", ">"} /\ x >= t
  \/ operator \in {"<=", "<"} /\ x <= t
Compare(operator, x, t) ==
  \/ operator = ">=" /\ x >= t
  \/ operator = "<=" /\ x <= t
  \/ operator = ">" /\ x > t
  \/ operator = "<" /\ x < t

MissingPasses == Outcome(TRUE, "missing")   \* mutant: no result, nothing to object to
MissingUnnamed == Outcome(FALSE, "")        \* mutant: it fails and gives no reason
Missing == Outcome(FALSE, "missing")

\* The first query of _eval_rule, and what can be told without a baseline.
ReadResult(d) ==
  LET rule == Rule(d)  n == Found("run", rule) IN
  /\ At(d, "result")
  /\ \/ n > 1 /\ decider' = [decider EXCEPT ![d] = IdleDecider]
     \/ n = 0 /\ Note(d, Missing)
     \/ /\ n = 1 /\ rule.operator \in Numeric
        /\ Note(d, IF rule.threshold = NoPoint THEN Outcome(FALSE, "no threshold")
                   ELSE Outcome(Compare(rule.operator, PointOf("run", rule), rule.threshold),
                                "compared"))
     \/ /\ n = 1 /\ rule.operator \in Relative
        /\ IF linked THEN decider' = [decider EXCEPT ![d].pc = "baseline"]
           ELSE Note(d, Outcome(FALSE, "no baseline"))
     \/ n = 1 /\ rule.operator \notin Numeric \cup Relative /\ Note(d, Outcome(FALSE, "unknown"))
  /\ UNCHANGED <<data, passes, decisions, asked>>

WithinStrict(rule, diff) ==   \* mutant: the margin has to be gained, not kept
  \/ rule.operator = ">= baseline" /\ diff >= rule.margin
  \/ rule.operator = "<= baseline" /\ diff <= rule.margin
Within(rule, diff) ==
  \/ rule.operator = ">= baseline" /\ diff >= -rule.margin
  \/ rule.operator = "<= baseline" /\ diff <= rule.margin

\* A difference that is not significant is no regression; one without a p-value
\* is treated like a significant one.
Excused(rule) == rule.require_significant /\ P(rule) = "high"

ReadBaseline(d) ==
  LET rule == Rule(d)  n == Found("baseline", rule) IN
  /\ At(d, "baseline")
  /\ \/ n > 1 /\ decider' = [decider EXCEPT ![d] = IdleDecider]
     \/ n = 0 /\ Note(d, Missing)
     \/ /\ n = 1
        /\ Note(d, Outcome(\/ Within(rule, PointOf("run", rule) - PointOf("baseline", rule))
                           \/ Excused(rule), "compared"))
  /\ UNCHANGED <<data, passes, decisions, asked>>

Failed(policy, outcomes, severity) ==
  {i \in DOMAIN policy : policy[i].severity = severity /\ ~outcomes[i].passed}

\* evaluate_policy's verdict, told by an event and by the answer.
Answer(d) ==
  LET policy == decider[d].policy  outcomes == decider[d].outcomes IN
  /\ decider[d].pc = "result" /\ Len(outcomes) = Len(policy)
  /\ decisions' = Append(decisions,
       [policy |-> policy, outcomes |-> outcomes, after |-> decider[d].after,
        passed |-> Failed(policy, outcomes, "blocking") = {}])
  /\ decider' = [decider EXCEPT ![d] = IdleDecider]
  /\ UNCHANGED <<data, passes, asked>>

Decide(d) == (\E policy \in Policies : Begin(d, policy))
             \/ ReadResult(d) \/ ReadBaseline(d) \/ Answer(d)

Next == (\E r \in Runs : Aggregate(r)) \/ (\E d \in Deciders : Decide(d))
Spec == Init /\ [][Next]_vars
=============================================================================
