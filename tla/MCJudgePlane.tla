---------------------------- MODULE MCJudgePlane ----------------------------
(* Instances of JudgePlane for TLC: the cfg files give the sizes.           *)
EXTENDS JudgeProperties

CONSTANTS e1, e2, j1, j2

TwoExamples == {e1, e2}
InOrder == <<e1, e2>>
OneEach == [e \in TwoExamples |-> 1]
TwoJudges == {j1, j2}
=============================================================================
