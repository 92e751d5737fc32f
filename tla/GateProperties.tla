--------------------------- MODULE GateProperties ---------------------------
(***************************************************************************)
(* What a decision of the gate is worth.                                   *)
(***************************************************************************)
EXTENDS Gate

OutcomeType == [passed: BOOLEAN, reason: {"missing", "compared", "no threshold",
                                          "no baseline", "unknown"}]
DeciderType == [pc: {"idle", "result", "baseline"}, policy: Policies \cup {<<>>},
                outcomes: Seq(OutcomeType), after: 0 .. MaxDecisions]

\* Every variable has its type, and no request has more outcomes than rules.
TypeOK ==
  /\ linked \in BOOLEAN
  /\ point \in [Runs -> [Metrics \X AllSlices -> Points \cup {NoPoint}]]
  /\ pvalue \in [Metrics -> {"none", "low", "high"}]
  /\ passes \in [Runs -> 0 .. MaxPasses]
  /\ decider \in [Deciders -> DeciderType]
  /\ \A d \in Deciders : Len(decider[d].outcomes) <= Len(decider[d].policy)
  /\ decisions \in Seq([policy: Policies, outcomes: Seq(OutcomeType),
                        after: 0 .. MaxDecisions, passed: BOOLEAN])
  /\ asked \in 0 .. MaxDecisions

----------------------------------------------------------------------------
(* The reference: what the rules mean once all results are there.          *)

Has(r, rule) == PointOf(r, rule) # NoPoint
Lead(rule) == PointOf("run", rule) - PointOf("baseline", rule)

Met(rule) ==
  /\ Has("run", rule)
  /\ CASE rule.operator \in Numeric ->
            /\ rule.threshold # NoPoint
            /\ rule.operator \in {">", "<"} => PointOf("run", rule) # rule.threshold
            /\ rule.operator \in {">", ">="} => PointOf("run", rule) >= rule.threshold
            /\ rule.operator \in {"<", "<="} => PointOf("run", rule) <= rule.threshold
       [] rule.operator \in Relative ->
            /\ linked /\ Has("baseline", rule)
            /\ \/ rule.require_significant /\ rule.slice = Overall /\ pvalue[rule.metric] = "high"
               \/ rule.operator = ">= baseline" /\ Lead(rule) + rule.margin >= 0
               \/ rule.operator = "<= baseline" /\ Lead(rule) - rule.margin <= 0
       [] OTHER -> FALSE

\* A gate that passed was right to: every blocking rule is met by the results,
\* though aggregations committed between its queries (evaluate_policy).
PassedIsEarned ==
  \A k \in DOMAIN decisions : decisions[k].passed =>
    \A i \in DOMAIN decisions[k].policy :
      decisions[k].policy[i].severity = "blocking" => Met(decisions[k].policy[i])

\* A rule that failed on the results it found fails for good; only a missing
\* result can turn up later (_eval_rule).
FailureIsFinal ==
  \A k \in DOMAIN decisions : \A i \in DOMAIN decisions[k].policy :
    ~decisions[k].outcomes[i].passed /\ decisions[k].outcomes[i].reason # "missing"
    => ~Met(decisions[k].policy[i])

\* A gate that has passed does not fail when it is asked again, whatever has
\* been aggregated since: results are only added, and duplicates are refused.
PassedStaysPassed ==
  \A j, k \in DOMAIN decisions :
    decisions[j].passed /\ decisions[k].after >= j /\ decisions[k].policy = decisions[j].policy
    => decisions[k].passed
=============================================================================
