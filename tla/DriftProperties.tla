--------------------------- MODULE DriftProperties ---------------------------
(* What the watchers are meant to guarantee.                               *)
EXTENDS DriftWatch

Causes == {d[1] : d \in BagToSet(outbox)}
Copies(delivery) == IF BagIn(delivery, outbox) THEN outbox[delivery] ELSE 0

\* Who is to be told of a cause, and whether there is one.
Audience(cause) ==
  CASE cause[1] = "calibration" -> Wanting(Project, "judge.calibration.drift")
    [] cause[1] = "repro" -> Wanting(Project, "run.reproducibility.drift")
    [] cause[1] = "rollback" -> {s \in Subs : "platform.rollback.requested" \in s.events}
Justified(cause) ==
  CASE cause[1] = "calibration" -> \E r \in rows : r.id = cause[2] /\ r.notes = "drift"
    [] cause[1] = "repro" -> runs[cause[3]].parent = cause[2]
    [] cause[1] = "rollback" -> "breach" \in {cause[3], cause[4]}

\* An alarm reaches everyone who subscribed to it, once, or nobody; it is
\* never raised for what was not stored or measured; and a calibration that
\* is recorded as a drift has raised its alarm, whatever transactions fail
\* (calibration.py:87-111, rollback_watcher/app.py:72-88).
AlarmsAreWhole ==
  /\ \A cause \in Causes :
       /\ Justified(cause)
       /\ \A s \in Subs : Copies(<<cause, s.name>>) = IF s \in Audience(cause) THEN 1 ELSE 0
  /\ \A r \in rows : r.notes = "drift" /\ Audience(<<"calibration", r.id>>) # {} =>
                       <<"calibration", r.id>> \in Causes

\* A breach that lasts is announced, unless a failure of the database has
\* ended the loop (rollback_watcher/app.py:106-109; the service then still
\* answers requests).
Breaching == "breach" \in {slo.err, slo.p99}
BreachIsAnnounced ==
  <>[]Breaching => <>(spent.alerts > 0 \/ watch.phase = "dead")

\* A judge that agrees with the humans on every example raises no alarm
\* (calibration.py:5, it alerts "when agreement drops below floor").
PerfectAgreementIsQuiet ==
  \A r \in rows : r.n > 0 /\ r.alpha[1] = r.alpha[2] => r.notes = "ok"
=============================================================================
