----------------------------- MODULE RunContract -----------------------------
(***************************************************************************)
(* What the run pipeline promises, without requests, workers or            *)
(* transactions: a key names at most one run for ever, and a run goes from *)
(* accepted to started to published results, and never back.               *)
(***************************************************************************)
EXTENDS Naturals

CONSTANTS RunIds, Keys, NoKey, NoRun

VARIABLES
  owner,   \* the run each key names, NoRun while the key is free
  stage    \* how far each run has come

Stages == {"absent", "accepted", "started", "published"}

Init == owner = [k \in Keys |-> NoRun] /\ stage = [r \in RunIds |-> "absent"]

Accept(r, k) ==
  /\ stage[r] = "absent"
  /\ stage' = [stage EXCEPT ![r] = "accepted"]
  /\ \/ k = NoKey /\ owner' = owner
     \/ k \in Keys /\ owner[k] = NoRun /\ owner' = [owner EXCEPT ![k] = r]

Start(r) ==
  /\ stage[r] = "accepted"
  /\ stage' = [stage EXCEPT ![r] = "started"]
  /\ owner' = owner

Publish(r) ==
  /\ stage[r] = "started"
  /\ stage' = [stage EXCEPT ![r] = "published"]
  /\ owner' = owner

Next == \E r \in RunIds : \/ \E k \in Keys \cup {NoKey} : Accept(r, k)
                          \/ Start(r) \/ Publish(r)

Spec == Init /\ [][Next]_<<owner, stage>>
=============================================================================
