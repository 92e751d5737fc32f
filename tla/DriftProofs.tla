----------------------------- MODULE DriftProofs -----------------------------
(***************************************************************************)
(* A theorem about DriftWatch, for any subscriptions, calibrations and     *)
(* nights: alarms are whole.  The deliveries of a rollback are added one   *)
(* project after the other; that this is one delivery for each subscriber  *)
(* is proved by the smallest set of projects for which it is not.          *)
(***************************************************************************)
EXTENDS DriftProperties, WellFoundedInduction, FiniteSetTheorems, SequenceTheorems, TLAPS

\* The deliveries of a cause, to everyone who is to be told.
Raise(cause) == {<<cause, s.name>> : s \in Audience(cause)}

\* An outbox with exactly these causes, each told to all.
Tells(bag, causes) ==
  /\ bag = SetToBag(UNION {Raise(c) : c \in causes})
  /\ \A c \in causes : Raise(c) # {}

IsCalibration(s) ==
  s = [phase |-> s.phase, at |-> s.at, human |-> s.human, judge |-> s.judge]
CalInv ==
  /\ cal = [c \in Calibrators |-> cal[c]]
  /\ \A c \in Calibrators : IsCalibration(cal[c])

JobPhases == {"idle", "replay", "diff", "report"}
RunRows == [status : {"QUEUED", "COMPLETED", "FAILED"}, parent : Nat \cup {Nothing},
            value : Values \cup {Nothing}]
JobInv ==
  /\ runs \in Seq(RunRows) /\ ended \in Seq(Nat)
  /\ job \in [phase : JobPhases, todo : Seq(Nat), child : Nat \cup {Nothing}]
  /\ job.phase # "idle" => job.todo # << >>
  /\ job.phase \in {"diff", "report"} =>
       job.child \in DOMAIN runs /\ runs[job.child].parent = Head(job.todo)

Answers3 == {"fine", "breach", "gone"}
WatchInv ==
  /\ watch \in [phase : {"sleep", "latency", "decide", "dead"}, err : Answers3, p99 : Answers3]
  /\ slo \in [err : Answers3, p99 : Answers3]
  /\ spent \in [failures : Nat, passes : Nat, changes : Nat, alerts : Nat]

\* What a cause that was raised is about, and that it will not be raised again.
Reported(k) == k \in DOMAIN runs /\ ~(job.phase \in {"diff", "report"} /\ job.child = k)
OfCalibration(cause) ==
  \E c \in Calibrators : cause = <<"calibration", c>> /\ cal[c].phase = "done"
OfRepetition(cause) ==
  \E o, k \in Nat : cause = <<"repro", o, k>> /\ Reported(k)
OfRollback(cause) ==
  \E n \in Nat, e, p \in Answers3 : cause = <<"rollback", n, e, p>> /\ n <= spent.alerts
Past(cause) == OfCalibration(cause) \/ OfRepetition(cause) \/ OfRollback(cause)

CauseInv ==
  /\ Tells(outbox, Causes)
  /\ \A cause \in Causes : Past(cause) /\ Justified(cause)
RowInv ==
  \A r \in rows :
    /\ r.id \in Calibrators /\ cal[r.id].phase = "done"
    /\ r.notes = "drift" /\ Raise(<<"calibration", r.id>>) # {} => <<"calibration", r.id>> \in Causes

DriftInv == CalInv /\ JobInv /\ WatchInv /\ CauseInv /\ RowInv

----------------------------------------------------------------------------
(* Deliveries.                                                             *)

LEMMA Least ==
  ASSUME NEW T, T \subseteq Nat, T # {}
  PROVE  \E m \in T : \A n \in T : m <= n
<1> DEFINE Smaller == {ss \in Nat \X Nat : ss[1] < ss[2]}
<1>1. IsWellFoundedOn(Smaller, Nat)
  BY NatLessThanWellFounded DEF OpToRel
<1> HIDE DEF Smaller
<1>2. PICK m \in T : \A n \in T : ~ (<<n, m>> \in Smaller)
  BY <1>1, WFMin
<1>3. \A n \in T : ~ (n < m)
  BY <1>2 DEF Smaller
<1> QED BY <1>3

LEMMA BagOfBoth ==
  ASSUME NEW A, NEW B, A \cap B = {}
  PROVE  SetToBag(A) (+) SetToBag(B) = SetToBag(A \cup B)
<1>1. DOMAIN SetToBag(A) = A /\ DOMAIN SetToBag(B) = B
  BY DEF SetToBag
<1>2. \A e \in A \cup B : (IF e \in A THEN SetToBag(A)[e] ELSE 0)
                            + (IF e \in B THEN SetToBag(B)[e] ELSE 0) = 1
  BY DEF SetToBag
<1> QED BY <1>1, <1>2 DEF (+), SetToBag

\* One fold over all projects, told of a rollback.
Requested == "platform.rollback.requested"
Projects == {s.project : s \in Subs}
Rolled(cause, P) ==
  FoldSet(LAMBDA p, b : b (+) Deliveries(p, Requested, cause), EmptyBag, P)
Rolling(f, P, cause) ==
  f = [s \in SUBSET P |->
         IF s = {} THEN EmptyBag
         ELSE f[s \ {CHOOSE x \in s : TRUE}]
                (+) Deliveries(CHOOSE x \in s : TRUE, Requested, cause)]

LEMMA RolledUp ==
  ASSUME NEW P, NEW cause, NEW g, Rolling(g, P, cause)
  PROVE  \E f : Rolling(f, P, cause) /\ Rolled(cause, P) = f[P]
<1> DEFINE roll == CHOOSE f : f = [s \in SUBSET P |->
                     IF s = {} THEN EmptyBag
                     ELSE f[s \ {CHOOSE x \in s : TRUE}]
                            (+) Deliveries(CHOOSE x \in s : TRUE, Requested, cause)]
<1>1. Rolling(roll, P, cause)
  BY DEF Rolling
<1>2. Rolled(cause, P) = roll[P]
  BY DEF Rolled, FoldSet, MapThenFoldSet
<1> QED BY <1>1, <1>2

\* Two functions that satisfy the recursion are equal: a smallest set on which
\* they differ has a project to take away.
LEMMA OneRolling ==
  ASSUME NEW P, IsFiniteSet(P), NEW cause, NEW f, NEW g,
         Rolling(f, P, cause), Rolling(g, P, cause)
  PROVE  f[P] = g[P]
<1> DEFINE Wrong == {s \in SUBSET P : f[s] # g[s]}
<1>1. SUFFICES ASSUME Wrong # {} PROVE FALSE
  OBVIOUS
<1>2. \A s \in SUBSET P : IsFiniteSet(s) /\ Cardinality(s) \in Nat
  BY FS_Subset, FS_CardinalityType
<1>3. PICK s \in Wrong : \A t \in Wrong : Cardinality(s) <= Cardinality(t)
  <2> DEFINE Sizes == {Cardinality(s) : s \in Wrong}
  <2>1. Sizes \subseteq Nat /\ Sizes # {}
    BY <1>1, <1>2
  <2>2. PICK m \in Sizes : \A n \in Sizes : m <= n
    BY <2>1, Least
  <2> QED BY <2>2
<1>4. s \in SUBSET P /\ f[s] # g[s]
  BY <1>3
<1>5. CASE s = {}
  BY <1>4, <1>5 DEF Rolling
<1>6. CASE s # {}
  <2>1. PICK x : x = CHOOSE y \in s : TRUE
    OBVIOUS
  <2>2. x \in s
    BY <1>6, <2>1
  <2>3. s \ {x} \in SUBSET P
    BY <1>4
  <2>4. Cardinality(s \ {x}) = Cardinality(s) - 1
    BY <1>2, <1>4, <2>2, FS_RemoveElement
  <2>5. s \ {x} \notin Wrong
    BY <1>2, <1>3, <1>4, <2>4
  <2>6. f[s \ {x}] = g[s \ {x}]
    BY <2>3, <2>5
  <2>7. f[s] = f[s \ {x}] (+) Deliveries(x, Requested, cause)
    BY <1>4, <1>6, <2>1 DEF Rolling
  <2>8. g[s] = g[s \ {x}] (+) Deliveries(x, Requested, cause)
    BY <1>4, <1>6, <2>1 DEF Rolling
  <2> QED BY <1>4, <2>6, <2>7, <2>8
<1> QED BY <1>5, <1>6

\* Every subscriber of any project gets one delivery.
LEMMA RollbackRaised ==
  ASSUME NEW n, NEW e, NEW p
  PROVE  Rolled(<<"rollback", n, e, p>>, Projects) = SetToBag(Raise(<<"rollback", n, e, p>>))
<1>1. PICK cause : cause = <<"rollback", n, e, p>>
  OBVIOUS
<1> DEFINE Told(s) == {<<cause, t.name>> : t \in {u \in Subs : u.project \in s /\ Requested \in u.events}}
           g == [s \in SUBSET Projects |-> SetToBag(Told(s))]
<1>2. IsFiniteSet(Projects)
  <2>1. PICK f : f = [s \in Subs |-> s.project]
    OBVIOUS
  <2>2. f \in Surjection(Subs, Projects)
    BY <2>1 DEF Surjection, Projects
  <2> QED BY <2>2, DriftAssumption, FS_Surjection
<1>3. Rolling(g, Projects, cause)
  <2>1. ASSUME NEW s \in SUBSET Projects
        PROVE  g[s] = IF s = {} THEN EmptyBag
                      ELSE g[s \ {CHOOSE x \in s : TRUE}]
                             (+) Deliveries(CHOOSE x \in s : TRUE, Requested, cause)
    <3>1. CASE s = {}
      BY <3>1 DEF EmptyBag
    <3>2. CASE s # {}
      <4>1. PICK x : x = CHOOSE y \in s : TRUE
        OBVIOUS
      <4>2. x \in s
        BY <3>2, <4>1
      <4>3. g[s \ {x}] = SetToBag(Told(s \ {x}))
        OBVIOUS
      <4>4. Deliveries(x, Requested, cause) = SetToBag(Told({x}))
        <5>1. {<<cause, t.name>> : t \in Wanting(x, Requested)} = Told({x})
          BY DEF Wanting
        <5> QED BY <5>1 DEF Deliveries
      <4>5. Told(s \ {x}) \cap Told({x}) = {}
        BY DriftAssumption
      <4>6. Told(s \ {x}) \cup Told({x}) = Told(s)
        BY <4>2
      <4>7. g[s] = SetToBag(Told(s))
        OBVIOUS
      <4> HIDE DEF Told, g
      <4>8. g[s] = g[s \ {x}] (+) Deliveries(x, Requested, cause)
        BY <4>3, <4>4, <4>5, <4>6, <4>7, BagOfBoth
      <4> QED BY <3>2, <4>1, <4>8
    <3> QED BY <3>1, <3>2
  <2>2. g = [s \in SUBSET Projects |-> g[s]]
    OBVIOUS
  <2> HIDE DEF g
  <2> QED BY <2>1, <2>2, Zenon DEF Rolling
<1>4. g[Projects] = SetToBag(Told(Projects))
  OBVIOUS
<1> HIDE DEF g
<1>5. PICK f : Rolling(f, Projects, cause) /\ Rolled(cause, Projects) = f[Projects]
  BY <1>3, RolledUp
<1>6. f[Projects] = g[Projects]
  BY <1>2, <1>3, <1>5, OneRolling
<1>7. Told(Projects) = Raise(cause)
  <2>1. Audience(cause) = {s \in Subs : Requested \in s.events}
    BY <1>1 DEF Audience, Requested
  <2>2. {u \in Subs : u.project \in Projects /\ Requested \in u.events} = Audience(cause)
    BY <2>1 DEF Projects
  <2> QED BY <2>2 DEF Raise
<1> HIDE DEF Told
<1> QED BY <1>1, <1>4, <1>5, <1>6, <1>7

LEMMA CalibrationRaised ==
  ASSUME NEW c
  PROVE  Deliveries(Project, "judge.calibration.drift", <<"calibration", c>>)
           = SetToBag(Raise(<<"calibration", c>>))
BY DEF Deliveries, Raise, Audience

LEMMA RepetitionRaised ==
  ASSUME NEW o, NEW k
  PROVE  Deliveries(Project, "run.reproducibility.drift", <<"repro", o, k>>)
           = SetToBag(Raise(<<"repro", o, k>>))
BY DEF Deliveries, Raise, Audience

----------------------------------------------------------------------------
(* The outbox.                                                             *)

LEMMA CausesTold ==
  ASSUME NEW bag, NEW C, Tells(bag, C)
  PROVE  /\ {d[1] : d \in BagToSet(bag)} = C
         /\ DOMAIN bag = UNION {Raise(c) : c \in C}
<1>1. DOMAIN bag = UNION {Raise(c) : c \in C}
  BY DEF Tells, SetToBag
<1>2. \A c : \A d \in Raise(c) : d[1] = c
  BY DEF Raise
<1>3. \A c \in C : Raise(c) # {}
  BY DEF Tells
<1> QED BY <1>1, <1>2, <1>3 DEF BagToSet

\* A cause of its own adds its deliveries and disturbs no other.
LEMMA OneMoreTold ==
  ASSUME NEW bag, NEW C, Tells(bag, C), NEW x, x \notin C
  PROVE  Tells(bag (+) SetToBag(Raise(x)), IF Raise(x) = {} THEN C ELSE C \cup {x})
<1> DEFINE D == UNION {Raise(c) : c \in C}
           C1 == IF Raise(x) = {} THEN C ELSE C \cup {x}
<1>1. \A c : \A d \in Raise(c) : d[1] = c
  BY DEF Raise
<1>2. D \cap Raise(x) = {}
  BY <1>1
<1>3. D \cup Raise(x) = UNION {Raise(c) : c \in C1}
  OBVIOUS
<1>4. bag = SetToBag(D) /\ \A c \in C1 : Raise(c) # {}
  BY DEF Tells
<1> HIDE DEF D, C1
<1>5. bag (+) SetToBag(Raise(x)) = SetToBag(D \cup Raise(x))
  BY <1>2, <1>4, BagOfBoth
<1> QED BY <1>3, <1>4, <1>5 DEF Tells, C1

LEMMA NothingAdded ==
  ASSUME NEW bag, NEW C, Tells(bag, C)
  PROVE  bag (+) EmptyBag = bag
<1>1. PICK D : bag = SetToBag(D)
  BY DEF Tells
<1> QED BY <1>1, BagOfBoth DEF EmptyBag

----------------------------------------------------------------------------
(* What a step may change without touching what was raised before.         *)

Progress ==
  /\ \A c \in Calibrators : cal[c].phase = "done" => cal'[c].phase = "done"
  /\ \A k \in Nat : Reported(k) => Reported(k)'
  /\ spent.alerts <= spent.alerts'
  /\ rows \subseteq rows'
  /\ \A k \in DOMAIN runs : runs'[k].parent = runs[k].parent

LEMMA PastStays ==
  ASSUME DriftInv, Progress, spent'.alerts \in Nat, NEW cause, Past(cause), Justified(cause)
  PROVE  Past(cause)' /\ Justified(cause)'
<1>1. CASE OfCalibration(cause)
  <2>1. PICK c \in Calibrators : cause = <<"calibration", c>> /\ cal[c].phase = "done"
    BY <1>1 DEF OfCalibration
  <2>2. OfCalibration(cause)'
    BY <2>1 DEF OfCalibration, Progress
  <2>3. cause[1] = "calibration" /\ cause[2] = c
    BY <2>1
  <2>4. \E r \in rows : r.id = cause[2] /\ r.notes = "drift"
    BY <2>3 DEF Justified
  <2>5. \E r \in rows' : r.id = cause[2] /\ r.notes = "drift"
    BY <2>4 DEF Progress
  <2> QED BY <2>2, <2>3, <2>5 DEF Past, Justified
<1>2. CASE OfRepetition(cause)
  <2>1. PICK o \in Nat, k \in Nat : cause = <<"repro", o, k>> /\ Reported(k)
    BY <1>2 DEF OfRepetition
  <2>2. Reported(k)'
    BY <2>1 DEF Progress
  <2>3. OfRepetition(cause)'
    BY <2>1, <2>2 DEF OfRepetition
  <2>4. cause[1] = "repro" /\ cause[3] = k /\ k \in DOMAIN runs
    BY <2>1 DEF Reported
  <2>5. runs[k].parent = cause[2]
    BY <2>4 DEF Justified
  <2>6. runs'[k].parent = cause[2]
    BY <2>4, <2>5 DEF Progress
  <2> QED BY <2>3, <2>4, <2>6 DEF Past, Justified
<1>3. CASE OfRollback(cause)
  <2>1. PICK n \in Nat, e \in Answers3, p \in Answers3 :
          cause = <<"rollback", n, e, p>> /\ n <= spent.alerts
    BY <1>3 DEF OfRollback
  <2>2. n <= spent'.alerts
    BY <2>1 DEF Progress, DriftInv, WatchInv
  <2>3. OfRollback(cause)'
    BY <2>1, <2>2 DEF OfRollback
  <2>4. cause[1] = "rollback"
    BY <2>1
  <2> QED BY <2>3, <2>4 DEF Past, Justified
<1> QED BY <1>1, <1>2, <1>3 DEF Past

LEMMA QuietKeeps ==
  ASSUME DriftInv, Progress, outbox' = outbox, rows' = rows, CalInv', JobInv', WatchInv'
  PROVE  DriftInv'
<1>1. Causes' = Causes
  BY DEF Causes
<1>2. CauseInv'
  <2>1. spent'.alerts \in Nat
    BY DEF WatchInv
  <2>2. \A cause \in Causes : Past(cause)' /\ Justified(cause)'
    BY <2>1, PastStays DEF DriftInv, CauseInv
  <2> QED BY <1>1, <2>2 DEF DriftInv, CauseInv
<1>3. RowInv'
  <2>1. ASSUME NEW r \in rows
        PROVE  /\ r.id \in Calibrators /\ cal'[r.id].phase = "done"
               /\ r.notes = "drift" /\ Raise(<<"calibration", r.id>>) # {}
                    => <<"calibration", r.id>> \in Causes
    BY DEF DriftInv, RowInv, Progress
  <2> QED BY <1>1, <2>1 DEF RowInv
<1> QED BY <1>2, <1>3 DEF DriftInv

\* A new alarm is about something no alarm was about.
LEMMA AlarmKeeps ==
  ASSUME DriftInv, Progress, CalInv', JobInv', WatchInv', NEW x, ~Past(x), Past(x)', Justified(x)',
         outbox' = outbox (+) SetToBag(Raise(x))
  PROVE  /\ CauseInv' /\ Causes \subseteq Causes'
         /\ Raise(x) # {} => x \in Causes'
         /\ rows' = rows => DriftInv'
<1> DEFINE C1 == IF Raise(x) = {} THEN Causes ELSE Causes \cup {x}
<1>1. x \notin Causes /\ Tells(outbox, Causes)
  BY DEF DriftInv, CauseInv
<1>2. Tells(outbox', C1)
  BY <1>1, OneMoreTold
<1> HIDE DEF C1
<1>3. Causes' = C1
  BY <1>2, CausesTold DEF Causes
<1>4. \A cause \in Causes : Past(cause)' /\ Justified(cause)'
  <2>1. spent'.alerts \in Nat
    BY DEF WatchInv
  <2> QED BY <2>1, PastStays DEF DriftInv, CauseInv
<1>5. \A cause \in C1 : Past(cause)' /\ Justified(cause)'
  BY <1>4 DEF C1
<1>6. CauseInv'
  BY <1>2, <1>3, <1>5 DEF CauseInv
<1>7. Causes \subseteq C1 /\ (Raise(x) # {} => x \in C1)
  BY DEF C1
<1>8. ASSUME rows' = rows PROVE RowInv'
  <2>1. ASSUME NEW r \in rows
        PROVE  /\ r.id \in Calibrators /\ cal'[r.id].phase = "done"
               /\ r.notes = "drift" /\ Raise(<<"calibration", r.id>>) # {}
                    => <<"calibration", r.id>> \in Causes
    BY DEF DriftInv, RowInv, Progress
  <2> QED BY <1>3, <1>7, <1>8, <2>1 DEF RowInv
<1> QED BY <1>3, <1>6, <1>7, <1>8 DEF DriftInv

----------------------------------------------------------------------------
(* The steps.                                                              *)

LEMMA DriftStarts == ASSUME Init PROVE DriftInv
<1>1. CalInv
  BY DEF Init, CalInv, IsCalibration
<1>2. JobInv
  <2>1. PICK v \in Values : runs = <<[status |-> "COMPLETED", parent |-> Nothing, value |-> v]>>
    BY DEF Init
  <2>2. runs \in Seq(RunRows)
    BY <2>1 DEF RunRows
  <2>3. ended = <<1>> /\ job = NoJob
    BY DEF Init
  <2> QED BY <2>2, <2>3 DEF JobInv, NoJob, JobPhases
<1>3. WatchInv
  BY DEF Init, WatchInv, Sleeping, Answers3
<1>4. outbox = SetToBag({}) /\ rows = {}
  BY DEF Init, EmptyBag
<1>5. Causes = {}
  BY <1>4 DEF Causes, BagToSet, SetToBag
<1>6. CauseInv
  BY <1>4, <1>5 DEF CauseInv, Tells
<1>7. RowInv
  BY <1>4 DEF RowInv
<1> QED BY <1>1, <1>2, <1>3, <1>6, <1>7 DEF DriftInv

\* A calibration's record when one of its fields is set.
LEMMA CalibrationSet ==
  ASSUME CalInv, NEW c \in Calibrators, NEW s, IsCalibration(s),
         cal' = [cal EXCEPT ![c] = s]
  PROVE  /\ CalInv' /\ cal'[c] = s
         /\ \A d \in Calibrators : d # c => cal'[d] = cal[d]
BY DEF CalInv

LEMMA CalibrateKeeps ==
  ASSUME DriftInv, NEW c \in Calibrators, Calibrate(c)
  PROVE  DriftInv'
<1> DEFINE s == cal[c]
<1>0. CalInv /\ JobInv /\ WatchInv /\ IsCalibration(s)
  BY DEF DriftInv, CalInv
<1>a. s \in [phase : {s.phase}, at : {s.at}, human : {s.human}, judge : {s.judge}]
  BY <1>0 DEF IsCalibration
<1>1. CASE CalibrateBegin(c)
  <2>1. /\ UNCHANGED <<rows, outbox, answers, spent, runs, ended, job, slo, watch>>
        /\ s.phase = "idle"
    BY <1>1 DEF CalibrateBegin, reproVars, watchVars
  <2>2. PICK phase : cal' = [cal EXCEPT ![c].phase = phase]
    BY <1>1 DEF CalibrateBegin
  <2>3. PICK t : t = [s EXCEPT !.phase = phase]
    OBVIOUS
  <2>4. cal' = [cal EXCEPT ![c] = t] /\ IsCalibration(t)
    BY <1>a, <2>2, <2>3 DEF IsCalibration
  <2>5. CalInv' /\ \A d \in Calibrators : d # c => cal'[d] = cal[d]
    BY <1>0, <2>4, CalibrationSet
  <2>6. JobInv' /\ WatchInv'
    BY <1>0, <2>1 DEF JobInv, WatchInv
  <2>7. Progress
    BY <1>0, <2>1, <2>5 DEF Progress, Reported, WatchInv
  <2> QED BY <2>1, <2>5, <2>6, <2>7, QuietKeeps
<1>2. CASE CalibrateExample(c)
  <2>1. /\ UNCHANGED <<rows, outbox, spent, runs, ended, job, slo, watch>>
        /\ s.phase = "judging"
    BY <1>2 DEF CalibrateExample, reproVars, watchVars, Calibrating
  <2>2. PICK score :
          cal' = [cal EXCEPT ![c].at = @ + 1,
                    ![c].human = IF score = NoScore THEN @ ELSE Append(@, Golden[s.at]),
                    ![c].judge = IF score = NoScore THEN @ ELSE Append(@, score)]
    BY <1>2 DEF CalibrateExample
  <2>3. PICK t : t = [s EXCEPT !.at = @ + 1,
                        !.human = IF score = NoScore THEN @ ELSE Append(@, Golden[s.at]),
                        !.judge = IF score = NoScore THEN @ ELSE Append(@, score)]
    OBVIOUS
  <2>4. cal' = [cal EXCEPT ![c] = t] /\ IsCalibration(t)
    BY <1>0, <1>a, <2>2, <2>3 DEF IsCalibration, CalInv
  <2>5. CalInv' /\ \A d \in Calibrators : d # c => cal'[d] = cal[d]
    BY <1>0, <2>4, CalibrationSet
  <2>6. JobInv' /\ WatchInv'
    BY <1>0, <2>1 DEF JobInv, WatchInv
  <2>7. Progress
    BY <1>0, <2>1, <2>5 DEF Progress, Reported, WatchInv
  <2> QED BY <2>1, <2>5, <2>6, <2>7, QuietKeeps
<1>3. CASE CalibrateEnd(c)
  <2>1. UNCHANGED <<answers, runs, ended, job, slo, watch>> /\ s.phase = "judging"
    BY <1>3 DEF CalibrateEnd, reproVars, watchVars
  <2>2. JobInv'
    BY <1>0, <2>1 DEF JobInv
  <2>3. \A phase : cal' = [cal EXCEPT ![c].phase = phase] =>
          CalInv' /\ cal'[c].phase = phase /\ \A d \in Calibrators : d # c => cal'[d] = cal[d]
    <3> SUFFICES ASSUME NEW phase, cal' = [cal EXCEPT ![c].phase = phase]
                 PROVE  CalInv' /\ cal'[c].phase = phase /\ \A d \in Calibrators : d # c => cal'[d] = cal[d]
      OBVIOUS
    <3>1. PICK t : t = [s EXCEPT !.phase = phase]
      OBVIOUS
    <3>2. cal' = [cal EXCEPT ![c] = t] /\ IsCalibration(t) /\ t.phase = phase
      BY <1>a, <3>1 DEF IsCalibration
    <3> QED BY <1>0, <3>2, CalibrationSet
  <2>4. PICK x : x = <<"calibration", c>>
    OBVIOUS
  <2>5. PICK row, events :
          /\ row.id = c
          /\ \/ row.notes = "drift" /\ events = SetToBag(Raise(x))
             \/ row.notes = "ok" /\ events = EmptyBag
          /\ \/ /\ rows' = rows \cup {row} /\ outbox' = outbox (+) events /\ UNCHANGED spent
                /\ cal' = [cal EXCEPT ![c].phase = "done"]
             \/ /\ RollBack(events) /\ UNCHANGED rows
                /\ cal' = [cal EXCEPT ![c].phase = "raised"]
    <3> DEFINE human == cal[c].human
               judge == cal[c].judge
               kappa == CohenKappa(Binned(human), Binned(judge))
               drift == human # << >> /\ Below(kappa)
               theRow == [id |-> c, kappa |-> IF human = << >> THEN Nothing ELSE kappa,
                          alpha |-> IF human = << >> THEN Nothing ELSE KrippendorffAlpha(human, judge),
                          n |-> Len(human), notes |-> IF drift THEN "drift" ELSE "ok"]
               theEvents == IF drift
                            THEN Deliveries(Project, "judge.calibration.drift", <<"calibration", c>>)
                            ELSE EmptyBag
    <3>1. \/ /\ rows' = rows \cup {theRow} /\ outbox' = outbox (+) theEvents /\ UNCHANGED spent
             /\ cal' = [cal EXCEPT ![c].phase = "done"]
          \/ /\ RollBack(theEvents) /\ UNCHANGED rows
             /\ cal' = [cal EXCEPT ![c].phase = "raised"]
      BY <1>3, Zenon DEF CalibrateEnd
    <3> HIDE DEF kappa
    <3>2. theRow.id = c /\ theRow.notes = IF drift THEN "drift" ELSE "ok"
      OBVIOUS
    <3> HIDE DEF drift
    <3>3. theEvents = IF drift THEN SetToBag(Raise(x)) ELSE EmptyBag
      BY <2>4, CalibrationRaised
    <3> HIDE DEF theRow, theEvents
    <3> QED BY <3>1, <3>2, <3>3
  <2>6. CASE RollBack(events) /\ UNCHANGED rows /\ cal' = [cal EXCEPT ![c].phase = "raised"]
    <3>1. /\ outbox' = outbox /\ spent' = [spent EXCEPT !.failures = @ + 1] /\ CalInv'
          /\ \A d \in Calibrators : d # c => cal'[d] = cal[d]
      BY <2>3, <2>6 DEF RollBack
    <3>2. WatchInv' /\ spent'.alerts = spent.alerts
      BY <1>0, <2>1, <3>1 DEF WatchInv
    <3>3. Progress
      BY <1>0, <2>1, <2>6, <3>1, <3>2 DEF Progress, Reported, WatchInv
    <3> QED BY <2>2, <2>6, <3>1, <3>2, <3>3, QuietKeeps
  <2>7. CASE /\ rows' = rows \cup {row} /\ outbox' = outbox (+) events /\ UNCHANGED spent
             /\ cal' = [cal EXCEPT ![c].phase = "done"]
    <3>1. /\ CalInv' /\ cal'[c].phase = "done"
          /\ \A d \in Calibrators : d # c => cal'[d] = cal[d]
      BY <2>3, <2>7
    <3>2. WatchInv'
      BY <1>0, <2>1, <2>7 DEF WatchInv
    <3>3. Progress
      BY <1>0, <2>1, <2>7, <3>1 DEF Progress, Reported, WatchInv
    <3>4. CauseInv' /\ Causes \subseteq Causes'
            /\ (row.notes = "drift" /\ Raise(x) # {} => x \in Causes')
      <4>1. CASE row.notes = "drift" /\ events = SetToBag(Raise(x))
        <5>1. ~Past(x)
          BY <2>1, <2>4 DEF Past, OfCalibration, OfRepetition, OfRollback
        <5>2. Past(x)'
          BY <2>4, <3>1 DEF Past, OfCalibration
        <5>3. Justified(x)'
          <6>1. x[1] = "calibration" /\ x[2] = c
            BY <2>4
          <6>2. row \in rows' /\ row.id = x[2] /\ row.notes = "drift"
            BY <2>5, <2>7, <4>1, <6>1
          <6> QED BY <6>1, <6>2 DEF Justified
        <5> QED BY <2>2, <2>7, <3>1, <3>2, <3>3, <4>1, <5>1, <5>2, <5>3, AlarmKeeps
      <4>2. CASE row.notes = "ok" /\ events = EmptyBag
        <5>1. outbox' = outbox
          BY <2>7, <4>2, NothingAdded DEF DriftInv, CauseInv
        <5>2. Causes' = Causes
          BY <5>1 DEF Causes
        <5>3. spent'.alerts \in Nat
          BY <3>2 DEF WatchInv
        <5>4. \A cause \in Causes : Past(cause)' /\ Justified(cause)'
          BY <3>3, <5>3, PastStays DEF DriftInv, CauseInv
        <5> QED BY <4>2, <5>1, <5>2, <5>4 DEF DriftInv, CauseInv
      <4> QED BY <2>5, <4>1, <4>2
    <3>5. RowInv'
      <4>1. ASSUME NEW r \in rows
            PROVE  /\ r.id \in Calibrators /\ cal'[r.id].phase = "done"
                   /\ r.notes = "drift" /\ Raise(<<"calibration", r.id>>) # {}
                        => <<"calibration", r.id>> \in Causes
        BY <3>3 DEF DriftInv, RowInv, Progress
      <4>2. /\ row.id \in Calibrators /\ cal'[row.id].phase = "done"
            /\ row.notes = "drift" /\ Raise(<<"calibration", row.id>>) # {}
                 => <<"calibration", row.id>> \in Causes'
        BY <2>4, <2>5, <3>1, <3>4
      <4> QED BY <2>7, <3>4, <4>1, <4>2 DEF RowInv
    <3> QED BY <2>2, <3>1, <3>2, <3>4, <3>5 DEF DriftInv
  <2> QED BY <2>5, <2>6, <2>7
<1> QED BY <1>1, <1>2, <1>3 DEF Calibrate

LEMMA PickKeeps == ASSUME DriftInv, Pick PROVE DriftInv'
<1>0. CalInv /\ JobInv /\ WatchInv
  BY DEF DriftInv
<1> DEFINE n == Len(ended)
           k == Min({Sample, n})
           todo == [i \in 1 .. k |-> ended[n + 1 - i]]
<1>1. /\ UNCHANGED <<outbox, runs, ended, rows, cal, answers, slo, watch>>
      /\ job' = [NoJob EXCEPT !.phase = IF k = 0 THEN "idle" ELSE "replay", !.todo = todo]
      /\ spent' = [spent EXCEPT !.passes = @ + 1] /\ job.phase = "idle"
  BY DEF Pick, calVars, watchVars
<1>2. n \in Nat /\ k \in Nat /\ k <= n
  <2>1. n \in Nat /\ Sample \in Nat
    BY <1>0, DriftAssumption DEF JobInv
  <2>2. \A x \in {Sample, n} : (\A y \in {Sample, n} : x =< y) => x <= n
    OBVIOUS
  <2>3. \E x \in {Sample, n} : \A y \in {Sample, n} : x =< y
    BY <2>1
  <2> HIDE DEF n
  <2>4. k \in {Sample, n} /\ k <= n
    BY <2>2, <2>3 DEF Min
  <2> QED BY <2>1, <2>4
<1> HIDE DEF k
<1>3. todo \in Seq(Nat) /\ Len(todo) = k
  <2>1. \A i \in 1 .. k : ended[n + 1 - i] \in Nat
    BY <1>0, <1>2 DEF JobInv
  <2>2. todo \in [1 .. k -> Nat]
    BY <2>1
  <2> HIDE DEF todo, n
  <2> QED BY <1>2, <2>2
<1>4. k # 0 => todo # << >>
  BY <1>3
<1> HIDE DEF todo, n
<1>5. JobInv'
  BY <1>0, <1>1, <1>3, <1>4 DEF JobInv, NoJob, JobPhases
<1>6. CalInv' /\ WatchInv'
  BY <1>0, <1>1 DEF CalInv, WatchInv
<1>7. Progress
  <2>1. spent'.alerts = spent.alerts /\ job'.phase \notin {"diff", "report"}
    BY <1>0, <1>1 DEF WatchInv, NoJob
  <2> QED BY <1>0, <1>1, <2>1 DEF Progress, Reported, WatchInv
<1> QED BY <1>1, <1>5, <1>6, <1>7, QuietKeeps

LEMMA JobFields ==
  ASSUME JobInv
  PROVE  /\ job \in [phase : {job.phase}, todo : {job.todo}, child : {job.child}]
         /\ job.todo \in Seq(Nat) /\ job.phase \in JobPhases /\ job.child \in Nat \cup {Nothing}
         /\ DOMAIN runs = 1 .. Len(runs) /\ Len(runs) \in Nat
BY DEF JobInv

\* The next repetition, or the end of the night.
LEMMA OnwardGoes ==
  ASSUME JobInv, job.phase # "idle"
  PROVE  /\ Onward \in [phase : {"idle", "replay"}, todo : Seq(Nat), child : {Nothing}]
         /\ Onward.phase # "idle" => Onward.todo # << >>
<1>1. job.todo \in Seq(Nat) /\ job.todo # << >>
  BY DEF JobInv
<1>2. CASE Len(job.todo) = 1
  BY <1>2 DEF Onward, NoJob
<1>3. CASE Len(job.todo) # 1
  <2>1. Tail(job.todo) \in Seq(Nat) /\ Tail(job.todo) # << >>
    <3>1. Len(job.todo) \in Nat /\ Len(job.todo) # 0
      BY <1>1
    <3>2. Tail(job.todo) \in Seq(Nat) /\ Len(Tail(job.todo)) = Len(job.todo) - 1
      BY <1>1, HeadTailProperties
    <3>3. PICK rest : rest = Tail(job.todo)
      OBVIOUS
    <3>4. rest \in Seq(Nat) /\ Len(rest) # 0
      BY <1>3, <3>1, <3>2, <3>3
    <3>5. rest # << >>
      BY <3>4
    <3> QED BY <3>3, <3>4, <3>5
  <2> QED BY <1>3, <2>1 DEF Onward, NoJob
<1> QED BY <1>2, <1>3

\* A rollback of the database leaves everything but its count.
LEMMA RolledBack ==
  ASSUME WatchInv, NEW events, RollBack(events), UNCHANGED <<slo, watch>>
  PROVE  /\ outbox' = outbox /\ WatchInv' /\ spent'.alerts = spent.alerts
<1>1. outbox' = outbox /\ spent' = [spent EXCEPT !.failures = @ + 1]
  BY DEF RollBack
<1> QED BY <1>1 DEF WatchInv

LEMMA ReplayKeeps == ASSUME DriftInv, Replay PROVE DriftInv'
<1>0. CalInv /\ JobInv /\ WatchInv
  BY DEF DriftInv
<1>1. job.phase = "replay" /\ UNCHANGED <<ended, rows, cal, answers, slo, watch>>
  BY DEF Replay, calVars, watchVars
<1>2. CalInv'
  BY <1>0, <1>1 DEF CalInv
<1>3. CASE RollBack(EmptyBag) /\ job' = NoJob /\ UNCHANGED runs
  <2>1. outbox' = outbox /\ WatchInv' /\ spent'.alerts = spent.alerts
    BY <1>0, <1>1, <1>3, RolledBack
  <2>2. JobInv'
    BY <1>0, <1>1, <1>3 DEF JobInv, NoJob, JobPhases
  <2>3. Progress
    BY <1>0, <1>1, <1>3, <2>1 DEF Progress, Reported, WatchInv, NoJob
  <2> QED BY <1>1, <1>2, <2>1, <2>2, <2>3, QuietKeeps
<1>4. CASE /\ runs' = Append(runs, [status |-> "QUEUED", parent |-> Head(job.todo), value |-> Nothing])
           /\ job' = [job EXCEPT !.phase = "diff", !.child = Len(runs) + 1]
           /\ UNCHANGED <<outbox, spent>>
  <2>1. PICK row : row = [status |-> "QUEUED", parent |-> Head(job.todo), value |-> Nothing]
    OBVIOUS
  <2>2. Head(job.todo) \in Nat
    <3>1. job.todo \in Seq(Nat) /\ job.todo # << >>
      BY <1>0, <1>1 DEF JobInv
    <3> QED BY <3>1
  <2>3. row \in RunRows /\ row.parent = Head(job.todo)
    BY <2>1, <2>2 DEF RunRows
  <2>4. runs \in Seq(RunRows) /\ Len(runs) \in Nat /\ DOMAIN runs = 1 .. Len(runs)
    BY <1>0, JobFields DEF JobInv
  <2>5. /\ runs' \in Seq(RunRows) /\ DOMAIN runs' = 1 .. Len(runs) + 1
        /\ runs'[Len(runs) + 1] = row /\ \A k \in 1 .. Len(runs) : runs'[k] = runs[k]
    <3>1. runs' = Append(runs, row)
      BY <1>4, <2>1
    <3> QED BY <2>3, <2>4, <3>1
  <2>6. /\ job'.phase = "diff" /\ job'.child = Len(runs) + 1 /\ job'.todo = job.todo
        /\ job' \in [phase : JobPhases, todo : Seq(Nat), child : Nat \cup {Nothing}]
    <3>1. PICK n \in Nat : n = Len(runs) + 1
      BY <2>4
    <3>2. job' = [job EXCEPT !.phase = "diff", !.child = n]
      BY <1>4, <3>1
    <3>3. job' \in [phase : {"diff"}, todo : {job.todo}, child : {n}]
      BY <1>0, <3>2, JobFields
    <3>4. job.todo \in Seq(Nat)
      BY <1>0, JobFields
    <3> QED BY <3>1, <3>3, <3>4 DEF JobPhases
  <2>7. JobInv'
    BY <1>0, <1>1, <2>3, <2>4, <2>5, <2>6 DEF JobInv
  <2>8. WatchInv'
    BY <1>0, <1>1, <1>4 DEF WatchInv
  <2>9. Progress
    <3>1. \A k \in Nat : Reported(k) => Reported(k)'
      BY <2>4, <2>5, <2>6 DEF Reported
    <3>2. \A k \in DOMAIN runs : runs'[k].parent = runs[k].parent
      BY <2>4, <2>5
    <3> QED BY <1>0, <1>1, <1>4, <3>1, <3>2 DEF Progress, WatchInv
  <2> QED BY <1>1, <1>2, <1>4, <2>7, <2>8, <2>9, QuietKeeps
<1> QED BY <1>3, <1>4 DEF Replay

LEMMA DiffKeeps == ASSUME DriftInv, Diff PROVE DriftInv'
<1>0. CalInv /\ JobInv /\ WatchInv
  BY DEF DriftInv
<1>1. /\ job.phase = "diff" /\ UNCHANGED <<outbox, runs, ended, spent, rows, cal, answers, slo, watch>>
      /\ job' = [job EXCEPT !.phase = "report"] \/ job' = Onward
  BY DEF Diff, calVars, watchVars
<1>2. CalInv' /\ WatchInv'
  BY <1>0, <1>1 DEF CalInv, WatchInv
<1>3. CASE job' = [job EXCEPT !.phase = "report"]
  <2>1. /\ job'.phase = "report" /\ job'.child = job.child /\ job'.todo = job.todo
        /\ job' \in [phase : JobPhases, todo : Seq(Nat), child : Nat \cup {Nothing}]
    BY <1>0, <1>3, JobFields DEF JobPhases
  <2>2. JobInv'
    BY <1>0, <1>1, <2>1 DEF JobInv
  <2>3. Progress
    BY <1>0, <1>1, <2>1 DEF Progress, Reported, WatchInv
  <2> QED BY <1>1, <1>2, <2>2, <2>3, QuietKeeps
<1>4. CASE job' = Onward
  <2>1. /\ Onward \in [phase : {"idle", "replay"}, todo : Seq(Nat), child : {Nothing}]
        /\ Onward.phase # "idle" => Onward.todo # << >>
    BY <1>0, <1>1, OnwardGoes
  <2>2. JobInv'
    BY <1>0, <1>1, <1>4, <2>1 DEF JobInv, JobPhases
  <2>3. Progress
    BY <1>0, <1>1, <1>4, <2>1 DEF Progress, Reported, WatchInv
  <2> QED BY <1>1, <1>2, <2>2, <2>3, QuietKeeps
<1> QED BY <1>1, <1>3, <1>4

LEMMA ReportKeeps == ASSUME DriftInv, Report PROVE DriftInv'
<1>0. CalInv /\ JobInv /\ WatchInv
  BY DEF DriftInv
<1>1. PICK o, k : o = Head(job.todo) /\ k = job.child
  OBVIOUS
<1>2. PICK x : x = <<"repro", o, k>>
  OBVIOUS
<1>3. job.phase = "report" /\ UNCHANGED <<runs, ended, rows, cal, answers, slo, watch>>
  BY DEF Report, calVars, watchVars
<1>4. \/ outbox' = outbox (+) SetToBag(Raise(x)) /\ job' = Onward /\ UNCHANGED spent
      \/ RollBack(SetToBag(Raise(x))) /\ job' = NoJob
  <2>1. Deliveries(Project, "run.reproducibility.drift", <<"repro", Head(job.todo), job.child>>)
          = SetToBag(Raise(x))
    BY <1>1, <1>2, RepetitionRaised
  <2> QED BY <2>1 DEF Report
<1>5. CalInv'
  BY <1>0, <1>3 DEF CalInv
<1>6. CASE RollBack(SetToBag(Raise(x))) /\ job' = NoJob
  <2>1. outbox' = outbox /\ WatchInv' /\ spent'.alerts = spent.alerts
    BY <1>0, <1>3, <1>6, RolledBack
  <2>2. JobInv'
    BY <1>0, <1>3, <1>6 DEF JobInv, NoJob, JobPhases
  <2>3. Progress
    BY <1>0, <1>3, <1>6, <2>1 DEF Progress, Reported, WatchInv, NoJob
  <2> QED BY <1>3, <1>5, <2>1, <2>2, <2>3, QuietKeeps
<1>7. CASE outbox' = outbox (+) SetToBag(Raise(x)) /\ job' = Onward /\ UNCHANGED spent
  <2>1. /\ Onward \in [phase : {"idle", "replay"}, todo : Seq(Nat), child : {Nothing}]
        /\ Onward.phase # "idle" => Onward.todo # << >>
    BY <1>0, <1>3, OnwardGoes
  <2>2. JobInv'
    BY <1>0, <1>3, <1>7, <2>1 DEF JobInv, JobPhases
  <2>3. WatchInv'
    BY <1>0, <1>3, <1>7 DEF WatchInv
  <2>4. Progress
    BY <1>0, <1>3, <1>7, <2>1 DEF Progress, Reported, WatchInv
  <2>5. o \in Nat /\ k \in Nat /\ k \in DOMAIN runs /\ runs[k].parent = o
    <3>1. job.todo \in Seq(Nat) /\ job.todo # << >> /\ k \in DOMAIN runs /\ runs[k].parent = o
      BY <1>0, <1>1, <1>3 DEF JobInv
    <3>2. o \in Nat
      BY <1>1, <3>1
    <3> QED BY <1>0, <3>1, <3>2, JobFields
  <2>6. ~Past(x)
    BY <1>1, <1>2, <1>3 DEF Past, OfCalibration, OfRepetition, OfRollback, Reported
  <2>7. Past(x)'
    BY <1>2, <1>3, <1>7, <2>1, <2>5 DEF Past, OfRepetition, Reported
  <2>8. Justified(x)'
    <3>1. x[1] = "repro" /\ x[2] = o /\ x[3] = k
      BY <1>2
    <3> QED BY <1>3, <2>5, <3>1 DEF Justified
  <2> QED BY <1>3, <1>5, <1>7, <2>2, <2>3, <2>4, <2>6, <2>7, <2>8, AlarmKeeps
<1> QED BY <1>4, <1>6, <1>7

LEMMA ExecuteKeeps ==
  ASSUME DriftInv, NEW r \in DOMAIN runs, Execute(r)
  PROVE  DriftInv'
<1>0. CalInv /\ JobInv /\ WatchInv
  BY DEF DriftInv
<1>1. UNCHANGED <<outbox, job, spent, rows, cal, answers, slo, watch>>
  BY DEF Execute, calVars, watchVars
<1>2. runs \in Seq(RunRows) /\ DOMAIN runs = 1 .. Len(runs) /\ Len(runs) \in Nat /\ r \in Nat
  BY <1>0, JobFields DEF JobInv
<1>3. PICK row \in RunRows :
        /\ runs' = [runs EXCEPT ![r] = row] /\ row.parent = runs[r].parent
        /\ ended' \in Seq(Nat)
  <2>1. runs[r] \in RunRows /\ ended \in Seq(Nat)
    BY <1>0, <1>2 DEF JobInv
  <2>2. runs[r] \in [status : {runs[r].status}, parent : {runs[r].parent}, value : {runs[r].value}]
    BY <2>1 DEF RunRows
  <2>3. CASE \E v \in Values : /\ runs' = [runs EXCEPT ![r].status = "COMPLETED", ![r].value = v]
                               /\ ended' = Append(ended, r)
    <3>1. PICK v \in Values : /\ runs' = [runs EXCEPT ![r].status = "COMPLETED", ![r].value = v]
                              /\ ended' = Append(ended, r)
      BY <2>3
    <3>2. PICK row : row = [runs[r] EXCEPT !.status = "COMPLETED", !.value = v]
      OBVIOUS
    <3>3. row \in RunRows /\ row.parent = runs[r].parent
      BY <2>1, <2>2, <3>2 DEF RunRows
    <3>4. runs' = [runs EXCEPT ![r] = row]
      BY <1>2, <3>1, <3>2
    <3>5. ended' \in Seq(Nat)
      BY <1>2, <2>1, <3>1
    <3> QED BY <3>3, <3>4, <3>5
  <2>4. CASE runs' = [runs EXCEPT ![r].status = "FAILED"] /\ UNCHANGED ended
    <3>1. PICK row : row = [runs[r] EXCEPT !.status = "FAILED"]
      OBVIOUS
    <3>2. row \in RunRows /\ row.parent = runs[r].parent
      BY <2>1, <2>2, <3>1 DEF RunRows
    <3>3. runs' = [runs EXCEPT ![r] = row]
      BY <2>4, <3>1
    <3> QED BY <2>1, <2>4, <3>2, <3>3
  <2> QED BY <2>3, <2>4 DEF Execute
<1>4. runs' \in Seq(RunRows) /\ DOMAIN runs' = DOMAIN runs
        /\ \A k \in DOMAIN runs : runs'[k].parent = runs[k].parent
  BY <1>2, <1>3
<1>5. JobInv'
  BY <1>0, <1>1, <1>3, <1>4 DEF JobInv
<1>6. CalInv' /\ WatchInv'
  BY <1>0, <1>1 DEF CalInv, WatchInv
<1>7. Progress
  BY <1>0, <1>1, <1>4 DEF Progress, Reported, WatchInv
<1> QED BY <1>1, <1>5, <1>6, <1>7, QuietKeeps

\* Nothing but Prometheus and the watcher moves.
LEMMA WatchFrame ==
  ASSUME DriftInv, UNCHANGED <<rows, cal, answers, runs, ended, job>>
  PROVE  CalInv' /\ JobInv' /\ (spent.alerts <= spent'.alerts => Progress)
<1>1. CalInv /\ JobInv
  BY DEF DriftInv
<1>2. CalInv' /\ JobInv'
  BY <1>1 DEF CalInv, JobInv
<1> QED BY <1>2 DEF Progress, Reported

LEMMA PrometheusKeeps == ASSUME DriftInv, Prometheus PROVE DriftInv'
<1>1. /\ UNCHANGED <<outbox, watch, rows, cal, answers, runs, ended, job>>
      /\ slo' \in [err : Answers3, p99 : Answers3] /\ spent' = [spent EXCEPT !.changes = @ + 1]
  BY DEF Prometheus, calVars, reproVars, Answers3
<1>2. WatchInv' /\ spent.alerts <= spent'.alerts
  BY <1>1 DEF DriftInv, WatchInv
<1> QED BY <1>1, <1>2, WatchFrame, QuietKeeps

LEMMA QueriesKeep == ASSUME DriftInv, QueryErrors \/ QueryLatency PROVE DriftInv'
<1>0. WatchInv
  BY DEF DriftInv
<1>1. UNCHANGED <<outbox, slo, spent, rows, cal, answers, runs, ended, job>>
  BY DEF QueryErrors, QueryLatency, calVars, reproVars
<1>2. WatchInv' /\ spent.alerts <= spent'.alerts
  <2>1. watch \in [phase : {watch.phase}, err : {watch.err}, p99 : {watch.p99}]
          /\ watch.err \in Answers3 /\ watch.p99 \in Answers3
    BY <1>0 DEF WatchInv
  <2>2. slo.err \in Answers3 /\ slo.p99 \in Answers3
    BY <1>0 DEF WatchInv
  <2>3. CASE QueryErrors
    <3>1. watch' \in [phase : {"latency"}, err : {slo.err}, p99 : {watch.p99}]
      BY <2>1, <2>3 DEF QueryErrors
    <3> QED BY <1>0, <1>1, <2>1, <2>2, <3>1 DEF WatchInv
  <2>4. CASE QueryLatency
    <3>1. watch' \in [phase : {"decide"}, err : {watch.err}, p99 : {slo.p99}]
      BY <2>1, <2>4 DEF QueryLatency
    <3> QED BY <1>0, <1>1, <2>1, <2>2, <3>1 DEF WatchInv
  <2> QED BY <2>3, <2>4
<1> QED BY <1>1, <1>2, WatchFrame, QuietKeeps

LEMMA DecideKeeps == ASSUME DriftInv, Decide PROVE DriftInv'
<1>0. WatchInv
  BY DEF DriftInv
<1>1. UNCHANGED <<slo, rows, cal, answers, runs, ended, job>> /\ watch.phase = "decide"
  BY DEF Decide, calVars, reproVars
<1>2. PICK n, e, p : n = spent.alerts + 1 /\ e = watch.err /\ p = watch.p99
  OBVIOUS
<1>3. PICK x : x = <<"rollback", n, e, p>>
  OBVIOUS
<1>4. Rolled(<<"rollback", spent.alerts + 1, watch.err, watch.p99>>, Projects) = SetToBag(Raise(x))
  BY <1>2, <1>3, RollbackRaised
<1>5. IF ~Breached(watch) THEN watch' = Sleeping /\ UNCHANGED <<outbox, spent>>
      ELSE \/ /\ outbox' = outbox (+) SetToBag(Raise(x)) /\ watch' = Sleeping
              /\ spent' = [spent EXCEPT !.alerts = @ + 1]
           \/ RollBack(SetToBag(Raise(x))) /\ watch' = [Sleeping EXCEPT !.phase = "dead"]
  <2> DEFINE events == Rolled(<<"rollback", spent.alerts + 1, watch.err, watch.p99>>, Projects)
  <2>1. IF ~Breached(watch) THEN watch' = Sleeping /\ UNCHANGED <<outbox, spent>>
        ELSE \/ /\ outbox' = outbox (+) events /\ watch' = Sleeping
                /\ spent' = [spent EXCEPT !.alerts = @ + 1]
             \/ RollBack(events) /\ watch' = [Sleeping EXCEPT !.phase = "dead"]
    BY Zenon DEF Decide, Rolled, Projects, Requested
  <2> QED BY <1>4, <2>1
<1>6. CASE ~Breached(watch)
  <2>1. WatchInv' /\ spent.alerts <= spent'.alerts /\ outbox' = outbox
    BY <1>0, <1>1, <1>5, <1>6 DEF WatchInv, Sleeping, Answers3
  <2> QED BY <1>1, <2>1, WatchFrame, QuietKeeps
<1>7. CASE RollBack(SetToBag(Raise(x))) /\ watch' = [Sleeping EXCEPT !.phase = "dead"]
  <2>1. outbox' = outbox /\ spent' = [spent EXCEPT !.failures = @ + 1]
    BY <1>7 DEF RollBack
  <2>2. WatchInv' /\ spent.alerts <= spent'.alerts
    BY <1>0, <1>1, <1>7, <2>1 DEF WatchInv, Sleeping, Answers3
  <2> QED BY <1>1, <2>1, <2>2, WatchFrame, QuietKeeps
<1>8. CASE /\ Breached(watch) /\ outbox' = outbox (+) SetToBag(Raise(x)) /\ watch' = Sleeping
           /\ spent' = [spent EXCEPT !.alerts = @ + 1]
  <2>1. WatchInv' /\ spent'.alerts = spent.alerts + 1 /\ spent.alerts \in Nat
    BY <1>0, <1>1, <1>8 DEF WatchInv, Sleeping, Answers3
  <2>2. CalInv' /\ JobInv' /\ Progress
    BY <1>1, <2>1, WatchFrame
  <2>3. n \in Nat /\ e \in Answers3 /\ p \in Answers3 /\ "breach" \in {e, p}
    BY <1>0, <1>2, <1>8, <2>1 DEF WatchInv, Breached
  <2>4. ~Past(x)
    BY <1>2, <1>3, <2>1 DEF Past, OfCalibration, OfRepetition, OfRollback
  <2>5. Past(x)'
    BY <1>2, <1>3, <2>1, <2>3 DEF Past, OfRollback
  <2>6. Justified(x)'
    <3>1. x[1] = "rollback" /\ x[3] = e /\ x[4] = p
      BY <1>3
    <3> QED BY <2>3, <3>1 DEF Justified
  <2> QED BY <1>1, <1>8, <2>1, <2>2, <2>4, <2>5, <2>6, AlarmKeeps
<1> QED BY <1>5, <1>6, <1>7, <1>8

LEMMA DriftStep == ASSUME DriftInv, [Next]_vars PROVE DriftInv'
<1>1. CASE UNCHANGED vars
  <2>1. UNCHANGED <<outbox, rows, cal, answers, runs, ended, job, slo, watch, spent>>
    BY <1>1 DEF vars
  <2>2. WatchInv' /\ spent.alerts <= spent'.alerts
    BY <2>1 DEF DriftInv, WatchInv
  <2> QED BY <2>1, <2>2, WatchFrame, QuietKeeps
<1>2. CASE \E c \in Calibrators : Calibrate(c)
  BY <1>2, CalibrateKeeps
<1>3. CASE Reproduce
  BY <1>3, PickKeeps, ReplayKeeps, DiffKeeps, ReportKeeps DEF Reproduce
<1>4. CASE \E r \in DOMAIN runs : Execute(r)
  BY <1>4, ExecuteKeeps
<1>5. CASE Prometheus \/ Watch
  BY <1>5, PrometheusKeeps, QueriesKeep, DecideKeeps DEF Watch
<1> QED BY <1>1, <1>2, <1>3, <1>4, <1>5 DEF Next

LEMMA DriftInvHolds == Spec => []DriftInv
BY DriftStarts, DriftStep, PTL DEF Spec

LEMMA WholeFromInv == ASSUME DriftInv PROVE AlarmsAreWhole
<1>1. outbox = SetToBag(UNION {Raise(c) : c \in Causes}) /\ DOMAIN outbox = UNION {Raise(c) : c \in Causes}
  BY CausesTold DEF DriftInv, CauseInv, Tells
<1>2. ASSUME NEW cause \in Causes, NEW s \in Subs
      PROVE  Copies(<<cause, s.name>>) = IF s \in Audience(cause) THEN 1 ELSE 0
  <2>1. <<cause, s.name>> \in DOMAIN outbox <=> <<cause, s.name>> \in Raise(cause)
    BY <1>1, <1>2 DEF Raise
  <2>2. Audience(cause) \subseteq Subs
    <3>1. cause[1] \in {"calibration", "repro", "rollback"}
      BY <1>2 DEF DriftInv, CauseInv, Past, OfCalibration, OfRepetition, OfRollback
    <3> QED BY <3>1 DEF Audience, Wanting
  <2>3. <<cause, s.name>> \in Raise(cause) <=> s \in Audience(cause)
    BY <2>2, DriftAssumption DEF Raise
  <2>4. \A d \in DOMAIN outbox : outbox[d] = 1
    BY <1>1 DEF SetToBag
  <2> QED BY <2>1, <2>3, <2>4 DEF Copies, BagIn, BagToSet
<1>3. \A r \in rows : r.notes = "drift" /\ Audience(<<"calibration", r.id>>) # {} =>
                        <<"calibration", r.id>> \in Causes
  BY DEF DriftInv, RowInv, Raise
<1>4. \A cause \in Causes : Justified(cause)
  BY DEF DriftInv, CauseInv
<1> QED BY <1>2, <1>3, <1>4 DEF AlarmsAreWhole

\* Alarms are whole, whatever calibrations, nights and evaluations come one
\* between the others' transactions and whichever transactions fail: they are
\* raised once, for what was stored or measured, to everyone who subscribed
\* (calibration.py:87-111, reproducibility_check.py, rollback_watcher/app.py:72-88).
THEOREM AlarmsWhole == Spec => []AlarmsAreWhole
BY DriftInvHolds, WholeFromInv, PTL
=============================================================================
