------------------------------ MODULE DriftWatch ------------------------------
(***************************************************************************)
(* The three watchers of the platform, which raise alarms through the      *)
(* webhook outbox: the calibration of a judge against human scores, the    *)
(* nightly repetition of completed runs, and the rollback watcher's loop   *)
(* over the error rate and the latency in Prometheus.                      *)
(***************************************************************************)
EXTENDS MetricKernels, Bags

CONSTANTS
  Calibrators,   \* calls of run_calibration, each made once
  Golden,        \* human scores of the calibration set, in hundredths
  JudgeScores,   \* what the judge may answer, in hundredths; NoScore: no "score"
  Floor,         \* kappa_floor, in tenths
  Subs,          \* the active subscriptions, [name, project, events]
  Project,       \* the project of the judge configuration and of the runs
  Values,        \* bound: point estimates a run can end with
  Sample, MaxPasses,                   \* --sample, and a bound on the nights
  MaxAlerts, MaxChanges, MaxFailures,  \* bounds: rollback requests, changes in
                                       \* Prometheus, transactions that fail
  NoScore, Nothing

ASSUME DriftAssumption ==
  /\ Sample \in Nat /\ MaxPasses \in Nat /\ MaxAlerts \in Nat
  /\ MaxChanges \in Nat /\ MaxFailures \in Nat
  /\ IsFiniteSet(Subs) /\ \A s, t \in Subs : s.name = t.name => s = t

VARIABLES
  rows,      \* calibration_run
  outbox,    \* webhook_delivery: a bag of <<cause, subscription>>
  cal,       \* each calibration: how far it is and the scores it has paired
  answers,   \* Redis, the judge's answer to an example: <<example, score>>
  runs,      \* run and run_result: [status, parent, value], by order of creation
  ended,     \* the completed runs, by completed_at
  job,       \* the nightly job
  slo,       \* what Prometheus answers: "fine", "breach" or "gone"
  watch,     \* the loop's evaluation at hand
  spent      \* what the bounds have used up

calVars == <<rows, cal, answers>>
reproVars == <<runs, ended, job>>
watchVars == <<slo, watch>>
vars == <<rows, outbox, cal, answers, runs, ended, job, slo, watch, spent>>

\* enqueue_event: a delivery for each subscription that wants the event.
Wanting(project, event) == {s \in Subs : s.project = project /\ event \in s.events}
Deliveries(project, event, cause) ==
  SetToBag({<<cause, s.name>> : s \in Wanting(project, event)})

RollBackRows(events) ==   \* mutant: the deliveries were inserted by a session of their own
  spent.failures < MaxFailures /\ outbox' = outbox (+) events
    /\ spent' = [spent EXCEPT !.failures = @ + 1]

\* session_scope: when the database fails, nothing of the session is kept.
RollBack(events) ==
  /\ spent.failures < MaxFailures /\ UNCHANGED outbox
  /\ spent' = [spent EXCEPT !.failures = @ + 1]

----------------------------------------------------------------------------
(* Calibration.                                                            *)

Bin(score) == IF score < 33 THEN 0 ELSE IF score < 66 THEN 1 ELSE 2
Binned(scores) == [i \in DOMAIN scores |-> Bin(scores[i])]

\* kappa < floor, on the code's (po - pe) / (1 - pe + 1e-12): the summand makes
\* the quotient of equal fractions smaller, and 0 of 0 / 0.
Below(kappa) == 10 * kappa[1] <= Floor * kappa[2]

Calibrating(c) == cal[c].phase = "judging" /\ cal[c].at <= Len(Golden)

\* Without a golden set run_calibration raises at once.
CalibrateBegin(c) ==
  /\ cal[c].phase = "idle"
  /\ cal' = [cal EXCEPT ![c].phase = IF Golden = <<>> THEN "raised" ELSE "judging"]
  /\ UNCHANGED <<rows, outbox, answers, spent>> /\ UNCHANGED reproVars /\ UNCHANGED watchVars

\* One example: judge_one answers from the cache or asks the gateway and fills
\* it; an example that raises, or has no score, is left out.
CalibrateExample(c) ==
  LET i == cal[c].at
      cached == {a \in answers : a[1] = i}
      Take(score) ==
        cal' = [cal EXCEPT ![c].at = @ + 1,
                  ![c].human = IF score = NoScore THEN @ ELSE Append(@, Golden[i]),
                  ![c].judge = IF score = NoScore THEN @ ELSE Append(@, score)]
  IN
  /\ Calibrating(c)
  /\ \/ \E a \in cached : Take(a[2]) /\ UNCHANGED answers
     \/ /\ cached = {}
        /\ \/ \E s \in JudgeScores \cup {NoScore} :
                Take(s) /\ answers' = answers \cup {<<i, s>>}
           \/ Take(NoScore) /\ UNCHANGED answers
  /\ UNCHANGED <<rows, outbox, spent>> /\ UNCHANGED reproVars /\ UNCHANGED watchVars

\* The agreement, its row and the alarm, in one transaction.
CalibrateEnd(c) ==
  LET human == cal[c].human  judge == cal[c].judge
      kappa == CohenKappa(Binned(human), Binned(judge))
      drift == human # <<>> /\ Below(kappa)
      row == [id |-> c, kappa |-> IF human = <<>> THEN Nothing ELSE kappa,
              alpha |-> IF human = <<>> THEN Nothing ELSE KrippendorffAlpha(human, judge),
              n |-> Len(human), notes |-> IF drift THEN "drift" ELSE "ok"]
      events == IF drift THEN Deliveries(Project, "judge.calibration.drift", <<"calibration", c>>)
                ELSE EmptyBag
  IN
  /\ cal[c].phase = "judging" /\ ~Calibrating(c)
  /\ \/ /\ rows' = rows \cup {row} /\ outbox' = outbox (+) events /\ UNCHANGED spent
        /\ cal' = [cal EXCEPT ![c].phase = "done"]
     \/ /\ RollBack(events) /\ UNCHANGED rows
        /\ cal' = [cal EXCEPT ![c].phase = "raised"]
  /\ UNCHANGED answers /\ UNCHANGED reproVars /\ UNCHANGED watchVars

----------------------------------------------------------------------------
(* The reproducibility job, and the worker that executes what it submits.  *)

NoJob == [phase |-> "idle", todo |-> <<>>, child |-> Nothing]

\* The latest completed runs of the week, of which some are repetitions.
Pick ==
  /\ job.phase = "idle" /\ spent.passes < MaxPasses
  /\ LET n == Len(ended)  k == Min({Sample, n}) IN
     job' = [NoJob EXCEPT !.phase = IF k = 0 THEN "idle" ELSE "replay",
                          !.todo = [i \in 1 .. k |-> ended[n + 1 - i]]]
  /\ spent' = [spent EXCEPT !.passes = @ + 1]
  /\ UNCHANGED <<outbox, runs, ended>> /\ UNCHANGED calVars /\ UNCHANGED watchVars

\* A child run, without quota, audit row or event; a failure ends the job.
Replay ==
  /\ job.phase = "replay"
  /\ \/ /\ runs' = Append(runs, [status |-> "QUEUED", parent |-> Head(job.todo), value |-> Nothing])
        /\ job' = [job EXCEPT !.phase = "diff", !.child = Len(runs) + 1]
        /\ UNCHANGED <<outbox, spent>>
     \/ RollBack(EmptyBag) /\ job' = NoJob /\ UNCHANGED runs
  /\ UNCHANGED ended /\ UNCHANGED calVars /\ UNCHANGED watchVars

Differs(original, repro) ==
  runs[original].value # Nothing /\ runs[repro].value # runs[original].value
Onward == IF Len(job.todo) = 1 THEN NoJob
          ELSE [NoJob EXCEPT !.phase = "replay", !.todo = Tail(job.todo)]

Diff ==
  /\ job.phase = "diff"
  /\ job' = IF Differs(Head(job.todo), job.child) THEN [job EXCEPT !.phase = "report"] ELSE Onward
  /\ UNCHANGED <<outbox, runs, ended, spent>> /\ UNCHANGED calVars /\ UNCHANGED watchVars

Report ==
  LET events == Deliveries(Project, "run.reproducibility.drift",
                           <<"repro", Head(job.todo), job.child>>) IN
  /\ job.phase = "report"
  /\ \/ outbox' = outbox (+) events /\ job' = Onward /\ UNCHANGED spent
     \/ RollBack(events) /\ job' = NoJob
  /\ UNCHANGED <<runs, ended>> /\ UNCHANGED calVars /\ UNCHANGED watchVars

\* The worker completes a queued run, or fails it (RunLifecycle has its life).
Execute(r) ==
  /\ runs[r].status = "QUEUED"
  /\ \/ \E v \in Values :
          /\ runs' = [runs EXCEPT ![r].status = "COMPLETED", ![r].value = v]
          /\ ended' = Append(ended, r)
     \/ runs' = [runs EXCEPT ![r].status = "FAILED"] /\ UNCHANGED ended
  /\ UNCHANGED <<outbox, job, spent>> /\ UNCHANGED calVars /\ UNCHANGED watchVars

----------------------------------------------------------------------------
(* The rollback watcher.                                                   *)

Sleeping == [phase |-> "sleep", err |-> "gone", p99 |-> "gone"]

\* The requests of the last window get better or worse, or Prometheus goes.
Prometheus ==
  /\ spent.changes < MaxChanges
  /\ \E s \in [err : {"fine", "breach", "gone"}, p99 : {"fine", "breach", "gone"}] :
       s # slo /\ slo' = s
  /\ spent' = [spent EXCEPT !.changes = @ + 1]
  /\ UNCHANGED <<outbox, watch>> /\ UNCHANGED calVars /\ UNCHANGED reproVars

\* Two queries, one after the other; one that fails answers None.
QueryErrors ==
  /\ watch.phase = "sleep" /\ spent.alerts < MaxAlerts
  /\ watch' = [watch EXCEPT !.phase = "latency", !.err = slo.err]
  /\ UNCHANGED <<outbox, slo, spent>> /\ UNCHANGED calVars /\ UNCHANGED reproVars

QueryLatency ==
  /\ watch.phase = "latency"
  /\ watch' = [watch EXCEPT !.phase = "decide", !.p99 = slo.p99]
  /\ UNCHANGED <<outbox, slo, spent>> /\ UNCHANGED calVars /\ UNCHANGED reproVars

BothBreached(w) == w.err = "breach" /\ w.p99 = "breach"   \* mutant: one is not enough
Breached(w) == w.err = "breach" \/ w.p99 = "breach"

\* Every project is told, in one transaction; an exception of the database is
\* not caught and ends the loop's thread.
Decide ==
  LET cause == <<"rollback", spent.alerts + 1, watch.err, watch.p99>>
      events == FoldSet(LAMBDA p, b : b (+) Deliveries(p, "platform.rollback.requested", cause),
                        EmptyBag, {s.project : s \in Subs})
  IN
  /\ watch.phase = "decide"
  /\ IF ~Breached(watch) THEN watch' = Sleeping /\ UNCHANGED <<outbox, spent>>
     ELSE \/ /\ outbox' = outbox (+) events /\ watch' = Sleeping
             /\ spent' = [spent EXCEPT !.alerts = @ + 1]
          \/ RollBack(events) /\ watch' = [Sleeping EXCEPT !.phase = "dead"]
  /\ UNCHANGED slo /\ UNCHANGED calVars /\ UNCHANGED reproVars

----------------------------------------------------------------------------
Init ==
  /\ rows = {} /\ outbox = EmptyBag /\ answers = {}
  /\ cal = [c \in Calibrators |-> [phase |-> "idle", at |-> 1, human |-> <<>>, judge |-> <<>>]]
  /\ \E v \in Values : runs = <<[status |-> "COMPLETED", parent |-> Nothing, value |-> v]>>
  /\ ended = <<1>> /\ job = NoJob
  /\ slo = [err |-> "fine", p99 |-> "fine"] /\ watch = Sleeping
  /\ spent = [failures |-> 0, passes |-> 0, changes |-> 0, alerts |-> 0]

Calibrate(c) == CalibrateBegin(c) \/ CalibrateExample(c) \/ CalibrateEnd(c)
Reproduce == Pick \/ Replay \/ Diff \/ Report
Watch == QueryErrors \/ QueryLatency \/ Decide

Next ==
  \/ \E c \in Calibrators : Calibrate(c)
  \/ Reproduce \/ \E r \in DOMAIN runs : Execute(r)
  \/ Prometheus \/ Watch

Spec == Init /\ [][Next]_vars

\* The watcher's loop goes on for ever; nobody has to calibrate, repeat runs or
\* execute them.
FairSpec == Spec /\ WF_vars(Watch)
=============================================================================
