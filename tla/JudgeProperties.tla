--------------------------- MODULE JudgeProperties ---------------------------
(***************************************************************************)
(* What must hold of JudgePlane.                                           *)
(***************************************************************************)
EXTENDS JudgePlane, SequencesExt

JudgeState ==
  [kind: {"none", "run", "replay", "posted"},
   pc: {"idle", "lookup", "gate", "call", "put", "store", "insert", "clear", "score"},
   todo: Seq(Examples), failed: Seq(Examples), attempts: 0 .. MaxAttempts - 1, hit: BOOLEAN]

\* Every variable has its type.
TypeOK ==
  /\ cached \in SUBSET Examples /\ raw \in SUBSET Examples
  /\ minute \in 0 .. MaxMinute /\ spent \in Nat /\ admitted \in Nat
  /\ judgments \subseteq [example: Examples, hit: BOOLEAN]
  /\ dlq \in Seq(Examples)
  /\ judge \in [Judges -> JudgeState]
  /\ started \in BOOLEAN /\ returned \in BOOLEAN
  /\ replays \in 0 .. MaxReplays /\ troubles \in 0 .. MaxTroubles /\ posted \in BOOLEAN

\* However many processes judge at once, the prompts let through in one minute
\* stay within the budget: the INCRBY both takes and tells.
BudgetHolds == admitted <= Budget

Judged(e) == \E row \in judgments : row.example = e
Dead(e) == \E i \in DOMAIN dlq : dlq[i] = e

\* Once judge_run has returned to the worker, every example of the run has a
\* judgment or an entry in the dead-letter list that a replay will read, while
\* replays run side by side, fail in part, and die (as long as nothing was
\* posted to the service).
NothingForgotten ==
  returned /\ ~posted => \A e \in ToSet(Predictions) : Judged(e) \/ Dead(e)

\* A judgment that did not come from the cache points at a raw response that
\* exists, whatever died between the two writes.
RawIsKept == \A row \in judgments : ~row.hit => row.example \in raw

\* Judging ends: an outage of the gateway costs a bounded number of attempts.
JudgingEnds == \A j \in Judges : judge[j].pc # "idle" ~> judge[j].pc = "idle"
=============================================================================
