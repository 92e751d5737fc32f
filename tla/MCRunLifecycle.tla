--------------------------- MODULE MCRunLifecycle ---------------------------
(* Instances of RunLifecycle for TLC: the cfg files give the sizes.         *)
EXTENDS RunProperties, TLC

CONSTANTS c1, c2, w1, k1, m1

TwoClients == {c1, c2}
OneClient == {c1}
OneWorker == {w1}
OneKey == {k1}
OneMetric == {m1}
SecondIsSliced == {2}
FirstIsSingleValued == {1} \X OneMetric
Symmetry == Permutations(TwoClients)
=============================================================================
