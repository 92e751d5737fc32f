------------------------------- MODULE MCGate -------------------------------
(* Instances of Gate for TLC: the policies a CI job might submit.           *)
EXTENDS GateProperties, TLC

CONSTANTS bleu, long, q1, q2

OneMetric == {bleu}
OneSlice == {long}
LowHigh == {0, 1}
TwoDeciders == {q1, q2}
Symmetric == Permutations(TwoDeciders)   \* no state tells one request from the other

Threshold(slice, operator, threshold, severity) ==
  [metric |-> bleu, slice |-> slice, operator |-> operator, threshold |-> threshold,
   margin |-> 0, severity |-> severity, require_significant |-> FALSE]
Against(slice, operator, margin, significant) ==
  [metric |-> bleu, slice |-> slice, operator |-> operator, threshold |-> NoPoint,
   margin |-> margin, severity |-> "blocking", require_significant |-> significant]

Submitted ==
  { <<Threshold(Overall, ">=", 1, "blocking"), Against(long, ">= baseline", 0, FALSE)>>,
    <<Against(Overall, ">= baseline", 0, TRUE), Threshold(long, ">", 0, "warning")>>,
    <<Threshold(Overall, ">", 0, "blocking"), Threshold(long, "<=", 0, "blocking")>>,
    <<Against(Overall, "<= baseline", 1, FALSE), Threshold(Overall, "<", 1, "blocking")>>,
    <<Against(long, ">= baseline", 1, TRUE), Threshold(Overall, ">=", NoPoint, "warning")>>,
    <<Threshold(long, "==", 1, "blocking")>> }
=============================================================================
