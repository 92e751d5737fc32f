----------------------------- MODULE RunProofs -----------------------------
(***************************************************************************)
(* Theorems about RunLifecycle for every number of clients, workers, keys  *)
(* and runs: its types, its invariants, how often a run is executed,       *)
(* counted and published, and that it implements RunContract.              *)
(***************************************************************************)
EXTENDS RunProperties, FiniteSetTheorems, TLAPS

\* The statuses and events the actions write are declared, and so are the steps.
LEMMA Literals ==
  /\ {"NONE", "PENDING_SUBMISSION", "QUEUED", "RUNNING", "AGGREGATING",
      "COMPLETED", "FAILED", "CANCELLED"} \subseteq Status
  /\ {"run.queued", "run.started", "run.completed", "run.failed", "run.cancelled"} \subseteq Event
  /\ {"load", "start", "starting", "infer", "record", "evaluate", "aggregate", "publish",
      "commit", "complete", "completing", "fail", "failing"} \subseteq Busy
  /\ Step \subseteq Busy
BY DEF Status, Terminal, Event, Step, Busy

\* The fields of the states of clients, and what the updates keep.
LEMMA ClientFields ==
  /\ IdleClient \in ClientState
  /\ \A s \in ClientState :
       /\ s.run \in RunIds \cup {NoRun} /\ s.key \in Keys \cup {NoKey}
       /\ s.seen \in Status /\ s.rows \in SUBSET Metrics
       /\ s.op # "idle" => s.run \in RunIds /\ [s EXCEPT !.op = "commit"] \in ClientState
BY Literals DEF ClientState, IdleClient

\* The fields of a new request, which has seen nothing.
LEMMA RequestFields ==
  ASSUME NEW o \in {"create", "repeat", "cancel", "publish"}, NEW r \in RunIds,
         NEW k \in Keys \cup {NoKey}
  PROVE  Request(o, r, k) \in ClientState
BY Literals DEF ClientState, Request

\* The fields of a pass of the endpoint.
LEMMA PassFields ==
  ASSUME TypeOK, NEW r \in RunIds
  PROVE  Pass(r) \in ClientState
<1>1. status[r] \in Status /\ measured[r] \in SUBSET Metrics
  BY DEF TypeOK
<1> QED
  BY <1>1 DEF ClientState, Pass

\* The same for workers.
LEMMA WorkerFields ==
  /\ IdleWorker \in WorkerState /\ [IdleWorker EXCEPT !.pc = "down"] \in WorkerState
  /\ \A s \in WorkerState : s.pc \in Busy =>
       /\ s.run \in RunIds /\ s.seen \in Status /\ s.rows \in SUBSET Metrics
       /\ \A p \in Busy : [s EXCEPT !.pc = p] \in WorkerState
       /\ \A p \in Busy, q \in Status : [s EXCEPT !.pc = p, !.seen = q] \in WorkerState
       /\ \A p \in Busy, q \in Status, m \in SUBSET Metrics :
            [s EXCEPT !.pc = p, !.seen = q, !.rows = m] \in WorkerState
  /\ \A s \in WorkerState : s.pc = "down" => [s EXCEPT !.pc = "idle"] \in WorkerState
BY Literals DEF WorkerState, IdleWorker, Busy, Step

\* The fields of a worker that has just taken a run.
LEMMA TakenFields ==
  ASSUME NEW r \in RunIds
  PROVE  Taken(r) \in WorkerState
BY Literals DEF WorkerState, Taken

\* A request in progress and a worker at work have a run.
LEMMA BusyRuns ==
  ASSUME TypeOK
  PROVE  /\ \A c \in Clients : client[c].op # "idle" => client[c].run \in RunIds
         /\ \A c \in Clients : client[c].rows \in SUBSET Metrics
         /\ \A w \in Workers : worker[w].pc \in Busy =>
              worker[w].run \in RunIds /\ worker[w].rows \in SUBSET Metrics
BY ClientFields, WorkerFields DEF TypeOK

LEMMA OutboxType ==
  ASSUME NEW f \in [RunIds -> Seq(Event)], NEW r, NEW e \in Event
  PROVE  [f EXCEPT ![r] = Append(@, e)] \in [RunIds -> Seq(Event)]
<1>1. r \in RunIds => Append(f[r], e) \in Seq(Event)
  OBVIOUS
<1>2. CASE r \in RunIds
  BY <1>1, <1>2
<1>3. CASE r \notin RunIds
  BY <1>3
<1> QED
  BY <1>2, <1>3

LEMMA ClientType ==
  ASSUME TypeOK, NEW c, NEW s \in ClientState
  PROVE  [client EXCEPT ![c] = s] \in [Clients -> ClientState]
BY DEF TypeOK

LEMMA WorkerType ==
  ASSUME TypeOK, NEW w, NEW s \in WorkerState
  PROVE  [worker EXCEPT ![w] = s] \in [Workers -> WorkerState]
BY DEF TypeOK

LEMMA GotoType ==
  ASSUME TypeOK, NEW w \in Workers, worker[w].pc \in Busy, NEW p \in Busy, Goto(w, p)
  PROVE  worker' \in [Workers -> WorkerState]
<1>1. [worker[w] EXCEPT !.pc = p] \in WorkerState
  BY WorkerFields DEF TypeOK
<1> QED
  BY <1>1 DEF TypeOK, Goto

LEMMA ReadsType ==
  ASSUME TypeOK, NEW w \in Workers, worker[w].pc \in Busy, NEW p \in Busy, Reads(w, p)
  PROVE  worker' \in [Workers -> WorkerState]
<1>1. worker[w] \in WorkerState
  BY DEF TypeOK
<1>2. status[worker[w].run] \in Status
  BY <1>1, WorkerFields DEF TypeOK
<1>3. [worker[w] EXCEPT !.pc = p, !.seen = status[worker[w].run]] \in WorkerState
  BY <1>1, <1>2, WorkerFields
<1> QED
  BY <1>3 DEF TypeOK, Reads

LEMMA PersistType ==
  ASSUME TypeOK, NEW r \in RunIds, NEW m \in SUBSET Metrics, PersistHistory(r, m)
  PROVE  history' \in [RunIds -> SUBSET Metrics] /\ blob' \in [RunIds -> SUBSET Metrics]
<1>1. Listed(r, m) \subseteq Metrics
  BY DEF Listed
<1>2. history[r] \cup Listed(r, m) \in SUBSET Metrics /\ Listed(r, m) \in SUBSET Metrics
  BY <1>1 DEF TypeOK
<1>3. CASE history' = [history EXCEPT ![r] = @ \cup Listed(r, m)] /\ blob' = blob
  BY <1>2, <1>3 DEF TypeOK
<1>4. CASE blob' = [blob EXCEPT ![r] = Listed(r, m)] /\ history' = history
  BY <1>2, <1>4 DEF TypeOK
<1> QED
  BY <1>3, <1>4 DEF PersistHistory

\* The rows' columns after CommitRows and after SetStatus.
LEMMA CommitRowsType ==
  ASSUME TypeOK, NEW r \in RunIds, NEW s, NEW m \in SUBSET Metrics, CommitRows(r, s, m)
  PROVE  status' \in [RunIds -> Status] /\ results' \in [RunIds -> Seq(SUBSET Metrics)]
<1>1. status' \in [RunIds -> Status]
  BY Literals DEF TypeOK, CommitRows
<1>2. results' \in [RunIds -> Seq(SUBSET Metrics)]
  <2>1. Append(results[r], m) \in Seq(SUBSET Metrics)
    BY DEF TypeOK
  <2> QED
    BY <2>1 DEF TypeOK, CommitRows
<1> QED
  BY <1>1, <1>2

LEMMA SetStatusType ==
  ASSUME TypeOK, NEW r, NEW p, NEW s \in Status, NEW e \in Event, SetStatus(r, p, s, e)
  PROVE  status' \in [RunIds -> Status] /\ outbox' \in [RunIds -> Seq(Event)]
<1>1. status' \in [RunIds -> Status]
  BY DEF TypeOK, SetStatus
<1>2. outbox' \in [RunIds -> Seq(Event)]
  BY OutboxType DEF TypeOK, SetStatus
<1> QED
  BY <1>1, <1>2

LEMMA TypeStep == TypeOK /\ [Next]_vars => TypeOK'
<1> SUFFICES ASSUME TypeOK, [Next]_vars PROVE TypeOK'
  OBVIOUS
<1>1. ASSUME NEW c \in Clients, NEW k \in Keys, CreateReplay(c, k) PROVE TypeOK'
  <2>1. replies' \subseteq Keys \X (RunIds \cup {NoRun})
    BY <1>1 DEF CreateReplay, TypeOK
  <2> QED
    BY <1>1, <2>1 DEF CreateReplay, TypeOK, db, store
<1>2. ASSUME NEW c \in Clients, NEW k \in Keys \cup {NoKey}, CreateBegin(c, k) PROVE TypeOK'
  <2>1. Request("create", nextRun, k) \in ClientState
    BY <1>2, ConstantsAssumption, RequestFields DEF CreateBegin, TypeOK, RunIds
  <2>2. nextRun' \in 1 .. MaxRuns + 1
    BY <1>2, ConstantsAssumption DEF CreateBegin, TypeOK
  <2>3. client' \in [Clients -> ClientState]
    BY <1>2, <2>1, ClientType DEF CreateBegin
  <2> QED
    BY <1>2, <2>1, <2>2, <2>3 DEF CreateBegin, TypeOK, db, store
<1>3. ASSUME NEW c \in Clients, CreateCommit(c) PROVE TypeOK'
  <2>1. client' \in [Clients -> ClientState]
    BY <1>3, ClientFields, ClientType DEF CreateCommit
  <2>2. status' \in [RunIds -> Status]
    BY <1>3, Literals DEF CreateCommit, Dispatched, TypeOK
  <2>3. key' \in [RunIds -> Keys \cup {NoKey}]
    BY <1>3, ClientFields DEF CreateCommit, TypeOK
  <2>4. outbox' \in [RunIds -> Seq(Event)]
    BY <1>3, OutboxType, Literals DEF CreateCommit, TypeOK
  <2>5. audit' \in [RunIds -> SUBSET {"run.create", "run.cancel"}]
    BY <1>3 DEF CreateCommit, TypeOK
  <2>6. replies' \subseteq Keys \X (RunIds \cup {NoRun})
    <3>1. client[c].run \in RunIds /\ client[c].key \in Keys \cup {NoKey}
      BY <1>3, BusyRuns, ClientFields DEF CreateCommit, TypeOK
    <3>2. CASE client[c].key = NoKey
      BY <1>3, <3>2 DEF CreateCommit, TypeOK
    <3>3. CASE client[c].key \in Keys
      BY <1>3, <3>1, <3>3, ConstantsAssumption DEF CreateCommit, TypeOK
    <3> QED
      BY <3>1, <3>2, <3>3
  <2> QED
    BY <1>3, <2>1, <2>2, <2>3, <2>4, <2>5, <2>6 DEF CreateCommit, TypeOK, db, store
<1>4. ASSUME NEW c \in Clients, CreateConflict(c) PROVE TypeOK'
  <2>1. client' \in [Clients -> ClientState]
    BY <1>4, ClientFields, ClientType DEF CreateConflict
  <2>2. replies' \subseteq Keys \X (RunIds \cup {NoRun})
    BY <1>4, ClientFields DEF CreateConflict, KeyTaken, HasKey, TypeOK
  <2> QED
    BY <1>4, <2>1, <2>2 DEF CreateConflict, TypeOK, db, store
<1>5. ASSUME NEW c \in Clients, NEW r \in RunIds, CancelBegin(c, r) PROVE TypeOK'
  <2>1. client' \in [Clients -> ClientState]
    BY <1>5, RequestFields, ClientType DEF CancelBegin
  <2>2. requests' \in 0 .. MaxRequests
    BY <1>5, ConstantsAssumption DEF CancelBegin, TypeOK
  <2> QED
    BY <1>5, <2>1, <2>2 DEF CancelBegin, TypeOK, db, store
<1>6. ASSUME NEW c \in Clients, CancelCommit(c) PROVE TypeOK'
  <2>1. client' \in [Clients -> ClientState]
    BY <1>6, ClientFields, ClientType DEF CancelCommit
  <2>2. status' \in [RunIds -> Status]
    BY <1>6, Literals DEF CancelCommit, TypeOK
  <2>3. outbox' \in [RunIds -> Seq(Event)]
    BY <1>6, OutboxType, Literals DEF CancelCommit, TypeOK
  <2>4. audit' \in [RunIds -> SUBSET {"run.create", "run.cancel"}]
    BY <1>6 DEF CancelCommit, TypeOK
  <2> QED
    BY <1>6, <2>1, <2>2, <2>3, <2>4 DEF CancelCommit, TypeOK, db, store
<1>7. ASSUME NEW c \in Clients, NEW r \in RunIds, AggregateBegin(c, r) PROVE TypeOK'
  <2>1. client' \in [Clients -> ClientState]
    BY <1>7, PassFields, ClientType DEF AggregateBegin
  <2>2. requests' \in 0 .. MaxRequests
    BY <1>7, ConstantsAssumption DEF AggregateBegin, TypeOK
  <2> QED
    BY <1>7, <2>1, <2>2 DEF AggregateBegin, TypeOK, db, store
<1>8. ASSUME NEW c \in Clients, AggregatePublish(c) PROVE TypeOK'
  <2>1. client[c] \in ClientState /\ client[c].op # "idle"
    BY <1>8 DEF TypeOK, AggregatePublish
  <2>2. client[c].run \in RunIds /\ client[c].rows \in SUBSET Metrics
        /\ [client[c] EXCEPT !.op = "commit"] \in ClientState
    BY <2>1, ClientFields
  <2>3. client' \in [Clients -> ClientState]
    BY <1>8, <2>2 DEF AggregatePublish, TypeOK
  <2>4. history' \in [RunIds -> SUBSET Metrics] /\ blob' \in [RunIds -> SUBSET Metrics]
    BY <1>8, <2>2, PersistType DEF AggregatePublish
  <2> QED
    BY <1>8, <2>3, <2>4 DEF AggregatePublish, TypeOK, db
<1>9. ASSUME NEW c \in Clients, AggregateCommit(c) PROVE TypeOK'
  <2>1. client' \in [Clients -> ClientState]
    BY <1>9, ClientFields, ClientType DEF AggregateCommit
  <2>2. client[c] \in ClientState /\ client[c].op # "idle"
    BY <1>9 DEF TypeOK, AggregateCommit
  <2>3. client[c].run \in RunIds /\ client[c].rows \in SUBSET Metrics
    BY <2>2, ClientFields
  <2>4. status' \in [RunIds -> Status] /\ results' \in [RunIds -> Seq(SUBSET Metrics)]
    BY <1>9, <2>3, CommitRowsType DEF AggregateCommit
  <2> QED
    BY <1>9, <2>1, <2>4 DEF AggregateCommit, TypeOK, db, store
<1>10. ASSUME NEW c \in Clients, ClientAbort(c) PROVE TypeOK'
  <2>1. client' \in [Clients -> ClientState]
    BY <1>10, ClientFields, ClientType DEF ClientAbort
  <2> QED
    BY <1>10, <2>1 DEF ClientAbort, TypeOK, db, store
<1>11. ASSUME NEW w \in Workers, Poll(w) PROVE TypeOK'
  <2>1. PICK r \in RunIds : worker' = [worker EXCEPT ![w] = Taken(r)]
    BY <1>11 DEF Poll
  <2>2. worker' \in [Workers -> WorkerState]
    BY <2>1, TakenFields, WorkerType
  <2> QED
    BY <1>11, <2>2 DEF Poll, TypeOK, db, store, WorkerOnly
<1>12. ASSUME NEW w \in Workers, Load(w) PROVE TypeOK'
  <2>1. worker' \in [Workers -> WorkerState]
    BY <1>12, GotoType, Literals DEF Load
  <2>2. progress' \in [RunIds -> {"none", "loaded", "done"}]
    BY <1>12 DEF Load, TypeOK
  <2> QED
    BY <1>12, <2>1, <2>2 DEF Load, TypeOK, db, store, WorkerOnly
<1>13. ASSUME NEW w \in Workers, StartCommit(w) PROVE TypeOK'
  <2>1. worker' \in [Workers -> WorkerState]
    BY <1>13, GotoType, Literals DEF StartCommit
  <2>2. status' \in [RunIds -> Status] /\ outbox' \in [RunIds -> Seq(Event)]
    BY <1>13, SetStatusType, Literals DEF StartCommit
  <2> QED
    BY <1>13, <2>1, <2>2 DEF StartCommit, TypeOK, db, store, SetStatus, WorkerOnly
<1>14. ASSUME NEW w \in Workers, Infer(w) PROVE TypeOK'
  <2>1. worker' \in [Workers -> WorkerState]
    BY <1>14, GotoType, Literals DEF Infer
  <2>2. artifacts' \in [RunIds -> SUBSET {"predictions", "metric_results"}]
    BY <1>14 DEF Infer, TypeOK
  <2> QED
    BY <1>14, <2>1, <2>2 DEF Infer, TypeOK, db, store, WorkerOnly
<1>15. ASSUME NEW w \in Workers, Record(w) PROVE TypeOK'
  <2>1. worker' \in [Workers -> WorkerState]
    BY <1>15, GotoType, Literals DEF Record
  <2>2. progress' \in [RunIds -> {"none", "loaded", "done"}]
    BY <1>15 DEF Record, TypeOK
  <2> QED
    BY <1>15, <2>1, <2>2 DEF Record, TypeOK, db, store, WorkerOnly
<1>16. ASSUME NEW w \in Workers, Evaluate(w) PROVE TypeOK'
  <2>1. worker' \in [Workers -> WorkerState]
    BY <1>16, GotoType, Literals DEF Evaluate
  <2>2. artifacts' \in [RunIds -> SUBSET {"predictions", "metric_results"}]
    BY <1>16 DEF Evaluate, TypeOK
  <2> QED
    BY <1>16, <2>1, <2>2 DEF Evaluate, TypeOK, db, store, WorkerOnly
<1>17. ASSUME NEW w \in Workers, Aggregate(w) PROVE TypeOK'
  <2>1. worker[w] \in WorkerState /\ worker[w].pc \in Busy
    BY <1>17, Literals DEF Aggregate, TypeOK
  <2>2. status[worker[w].run] \in Status /\ measured[worker[w].run] \in SUBSET Metrics
    BY <2>1, WorkerFields DEF TypeOK
  <2>3. [worker[w] EXCEPT !.pc = "publish", !.seen = status[worker[w].run],
                          !.rows = measured[worker[w].run]] \in WorkerState
    BY <2>1, <2>2, WorkerFields, Literals
  <2>4. worker' \in [Workers -> WorkerState]
    BY <1>17, <2>3 DEF Aggregate, TypeOK
  <2> QED
    BY <1>17, <2>4 DEF Aggregate, TypeOK, db, store, WorkerOnly
<1>18. ASSUME NEW w \in Workers, Publish(w) PROVE TypeOK'
  <2>1. worker' \in [Workers -> WorkerState]
    BY <1>18, GotoType, Literals DEF Publish
  <2>2. worker[w] \in WorkerState /\ worker[w].pc \in Busy
    BY <1>18, Literals DEF Publish, TypeOK
  <2>3. worker[w].run \in RunIds /\ worker[w].rows \in SUBSET Metrics
    BY <2>2, WorkerFields
  <2>4. history' \in [RunIds -> SUBSET Metrics] /\ blob' \in [RunIds -> SUBSET Metrics]
    BY <1>18, <2>3, PersistType DEF Publish
  <2> QED
    BY <1>18, <2>1, <2>4 DEF Publish, TypeOK, db, WorkerOnly
<1>19. ASSUME NEW w \in Workers, Commit(w) PROVE TypeOK'
  <2>1. worker' \in [Workers -> WorkerState]
    BY <1>19, GotoType, Literals DEF Commit
  <2>2. worker[w] \in WorkerState /\ worker[w].pc \in Busy
    BY <1>19, Literals DEF Commit, TypeOK
  <2>3. worker[w].run \in RunIds /\ worker[w].rows \in SUBSET Metrics
    BY <2>2, WorkerFields
  <2>4. status' \in [RunIds -> Status] /\ results' \in [RunIds -> Seq(SUBSET Metrics)]
    BY <1>19, <2>3, CommitRowsType DEF Commit
  <2> QED
    BY <1>19, <2>1, <2>4 DEF Commit, TypeOK, db, store, WorkerOnly
<1>20. ASSUME NEW w \in Workers, CompleteCommit(w) PROVE TypeOK'
  <2>1. worker' \in [Workers -> WorkerState]
    BY <1>20, WorkerFields, WorkerType, Literals DEF CompleteCommit
  <2>2. status' \in [RunIds -> Status] /\ outbox' \in [RunIds -> Seq(Event)]
    BY <1>20, SetStatusType, Literals DEF CompleteCommit
  <2> QED
    BY <1>20, <2>1, <2>2 DEF CompleteCommit, TypeOK, db, store, SetStatus, WorkerOnly
<1>21. ASSUME NEW w \in Workers, FailCommit(w) PROVE TypeOK'
  <2>1. worker' \in [Workers -> WorkerState]
    BY <1>21, WorkerFields, WorkerType, Literals DEF FailCommit
  <2>2. status' \in [RunIds -> Status] /\ outbox' \in [RunIds -> Seq(Event)]
    BY <1>21, SetStatusType, Literals DEF FailCommit
  <2> QED
    BY <1>21, <2>1, <2>2 DEF FailCommit, TypeOK, db, store, SetStatus, WorkerOnly
<1>22. ASSUME NEW w \in Workers, StepFails(w) PROVE TypeOK'
  <2>1. worker' \in [Workers -> WorkerState]
    BY <1>22, GotoType, Literals DEF StepFails
  <2> QED
    BY <1>22, <2>1 DEF StepFails, TypeOK, db, store, WorkerOnly
<1>23. ASSUME NEW w \in Workers, Crash(w) PROVE TypeOK'
  <2>1. [IdleWorker EXCEPT !.pc = "down"] \in WorkerState
    BY WorkerFields, Literals
  <2>2. worker' \in [Workers -> WorkerState]
    BY <1>23, <2>1, WorkerType DEF Crash
  <2>3. crashes' \in 0 .. MaxCrashes
    BY <1>23, ConstantsAssumption DEF Crash, TypeOK
  <2> QED
    BY <1>23, <2>1, <2>2, <2>3 DEF Crash, TypeOK, db, store
<1>24. ASSUME NEW w \in Workers, Restart(w) PROVE TypeOK'
  <2>1. [worker[w] EXCEPT !.pc = "idle"] \in WorkerState
    BY <1>24, WorkerFields DEF Restart, TypeOK
  <2>2. worker' \in [Workers -> WorkerState]
    BY <1>24, <2>1 DEF Restart, Goto, TypeOK
  <2> QED
    BY <1>24, <2>1, <2>2 DEF Restart, TypeOK, db, store, WorkerOnly
<1>25. ASSUME NEW w \in Workers, StartBegin(w) PROVE TypeOK'
  <2>1. worker' \in [Workers -> WorkerState]
    BY <1>25, ReadsType, Literals DEF StartBegin
  <2> QED
    BY <1>25, <2>1 DEF StartBegin, TypeOK, db, store, WorkerOnly
<1>26. ASSUME NEW w \in Workers, CompleteBegin(w) PROVE TypeOK'
  <2>1. worker' \in [Workers -> WorkerState]
    BY <1>26, ReadsType, Literals DEF CompleteBegin
  <2> QED
    BY <1>26, <2>1 DEF CompleteBegin, TypeOK, db, store, WorkerOnly
<1>27. ASSUME NEW w \in Workers, FailBegin(w) PROVE TypeOK'
  <2>1. worker' \in [Workers -> WorkerState]
    BY <1>27, ReadsType, Literals DEF FailBegin
  <2> QED
    BY <1>27, <2>1 DEF FailBegin, TypeOK, db, store, WorkerOnly
<1>28. ASSUME NEW c \in Clients, RepeatBegin(c) PROVE TypeOK'
  <2>1. Request("repeat", nextRun, NoKey) \in ClientState
    BY <1>28, ConstantsAssumption, RequestFields DEF RepeatBegin, TypeOK, RunIds
  <2>2. nextRun' \in 1 .. MaxRuns + 1
    BY <1>28, ConstantsAssumption DEF RepeatBegin, TypeOK
  <2>3. client' \in [Clients -> ClientState]
    BY <1>28, <2>1, ClientType DEF RepeatBegin
  <2> QED
    BY <1>28, <2>2, <2>3 DEF RepeatBegin, TypeOK, db, store
<1>29. ASSUME NEW c \in Clients, RepeatCommit(c) PROVE TypeOK'
  <2>1. client' \in [Clients -> ClientState]
    BY <1>29, ClientFields, ClientType DEF RepeatCommit
  <2>2. status' \in [RunIds -> Status]
    BY <1>29, Literals DEF RepeatCommit, TypeOK
  <2>3. key' \in [RunIds -> Keys \cup {NoKey}]
    BY <1>29 DEF RepeatCommit, TypeOK
  <2>4. repeats' \subseteq RunIds
    BY <1>29, BusyRuns DEF RepeatCommit, TypeOK
  <2> QED
    BY <1>29, <2>1, <2>2, <2>3, <2>4 DEF RepeatCommit, TypeOK, store
<1>30. CASE UNCHANGED vars
  BY <1>30 DEF TypeOK, vars, db, store
<1> QED
  BY <1>1, <1>2, <1>3, <1>4, <1>5, <1>6, <1>7, <1>8, <1>9, <1>10, <1>11, <1>12, <1>13, <1>14,
     <1>15, <1>16, <1>17, <1>18, <1>19, <1>20, <1>21, <1>22, <1>23, <1>24, <1>25, <1>26, <1>27,
     <1>28, <1>29, <1>30
  DEF Next, ClientStep, CreateStep, RepeatStep, CancelStep, AggregateStep, WorkerStep, Work

(* Every variable of the run pipeline always has its type.                 *)
THEOREM TypeCorrect == Spec => []TypeOK
<1>1. ASSUME Init PROVE TypeOK
  <2>1. <<>> \in Seq(Event)
    OBVIOUS
  <2>2. nextRun \in 1 .. MaxRuns + 1 /\ crashes \in 0 .. MaxCrashes /\ requests \in 0 .. MaxRequests
    BY <1>1, ConstantsAssumption DEF Init
  <2>3. client \in [Clients -> ClientState] /\ worker \in [Workers -> WorkerState]
    BY <1>1, ClientFields, WorkerFields DEF Init
  <2>4. status \in [RunIds -> Status]
    BY <1>1, Literals DEF Init
  <2> QED
    BY <1>1, <2>1, <2>2, <2>3, <2>4 DEF Init, TypeOK
<1>2. TypeOK /\ [Next]_vars => TypeOK'
  BY TypeStep
<1> QED
  BY <1>1, <1>2, PTL DEF Spec

----------------------------------------------------------------------------
(* COMPLETED runs are visible.  The invariant has to say what each step of *)
(* a worker has already left behind: artifacts once inference and metrics  *)
(* are done, committed results once only the status is left to write.      *)

Stored == {"predictions", "metric_results"}

\* What worker w takes as done, at the step it has come to.
Relies(w) ==
  /\ worker[w].pc \in {"record", "evaluate"} => "predictions" \in artifacts[worker[w].run]
  /\ worker[w].pc \in {"aggregate", "publish", "commit", "complete", "completing"} =>
       artifacts[worker[w].run] = Stored
  /\ worker[w].pc \in {"complete", "completing"} => results[worker[w].run] # <<>>

VisibleInv == CompletedIsVisible /\ \A w \in Workers : Relies(w)

\* A committed pass is a row, and no other run's rows change.
LEMMA CommitRowsFills ==
  ASSUME TypeOK, NEW r \in RunIds, NEW s, NEW m \in SUBSET Metrics, CommitRows(r, s, m)
  PROVE  results'[r] # <<>> /\ \A q \in RunIds : results[q] # <<>> => results'[q] # <<>>
<1>1. results[r] \in Seq(SUBSET Metrics)
  BY DEF TypeOK
<1>2. Append(results[r], m) # <<>>
  <2>1. \A t \in Seq(SUBSET Metrics), e \in SUBSET Metrics : Len(Append(t, e)) # 0
    OBVIOUS
  <2>2. Len(<<>>) = 0
    OBVIOUS
  <2> QED
    BY <1>1, <2>1, <2>2
<1>3. results'[r] = Append(results[r], m)
  BY DEF CommitRows, TypeOK
<1>4. \A q \in RunIds : q # r => results'[q] = results[q]
  BY DEF CommitRows, TypeOK
<1> QED
  BY <1>2, <1>3, <1>4

\* No step removes an artifact or a committed result.
LEMMA NothingIsRemoved ==
  ASSUME TypeOK, [Next]_vars, NEW r \in RunIds
  PROVE  artifacts[r] \subseteq artifacts'[r] /\ (results[r] # <<>> => results'[r] # <<>>)
<1>1. CASE artifacts' = artifacts /\ results' = results
  BY <1>1 DEF TypeOK
<1>2. ASSUME NEW q \in RunIds, NEW s, NEW m \in SUBSET Metrics, CommitRows(q, s, m),
             artifacts' = artifacts
      PROVE  artifacts[r] \subseteq artifacts'[r] /\ (results[r] # <<>> => results'[r] # <<>>)
  BY <1>2, CommitRowsFills DEF TypeOK
<1>3. ASSUME NEW q \in RunIds, NEW a, results' = results,
             artifacts' = [artifacts EXCEPT ![q] = @ \cup {a}]
      PROVE  artifacts[r] \subseteq artifacts'[r] /\ (results[r] # <<>> => results'[r] # <<>>)
  BY <1>3 DEF TypeOK
<1>4. ASSUME NEW c \in Clients, AggregateCommit(c)
      PROVE  artifacts[r] \subseteq artifacts'[r] /\ (results[r] # <<>> => results'[r] # <<>>)
  BY <1>2, <1>4, BusyRuns DEF AggregateCommit, store
<1>5. ASSUME NEW w \in Workers, Commit(w) \/ Infer(w) \/ Evaluate(w)
      PROVE  artifacts[r] \subseteq artifacts'[r] /\ (results[r] # <<>> => results'[r] # <<>>)
  BY <1>2, <1>3, <1>5, BusyRuns, Literals DEF Commit, Infer, Evaluate, db, store
<1> QED
  BY <1>1, <1>4, <1>5
  DEF Next, ClientStep, CreateStep, CancelStep, AggregateStep, WorkerStep, Work, vars, db, store,
      CreateReplay, CreateBegin, CreateCommit, CreateConflict, CancelBegin, CancelCommit,
      RepeatStep, RepeatBegin, RepeatCommit, AggregateBegin, AggregatePublish, ClientAbort,
      PersistHistory, SetStatus, Poll, Load, StartBegin, StartCommit, Record, Aggregate, Publish,
      CompleteBegin, CompleteCommit, FailBegin, FailCommit, StepFails, Crash, Restart

\* A request completes no run and moves no worker.
LEMMA RequestsCompleteNothing ==
  ASSUME TypeOK, NEW c \in Clients, ClientStep(c), NEW r \in RunIds
  PROVE  worker' = worker /\ (status'[r] = "COMPLETED" => status[r] = "COMPLETED")
BY DEF TypeOK, ClientStep, CreateStep, RepeatStep, CancelStep, AggregateStep, CreateReplay,
       CreateBegin, CreateCommit, CreateConflict, RepeatBegin, RepeatCommit, CancelBegin,
       CancelCommit, AggregateBegin, AggregatePublish, AggregateCommit, ClientAbort, CommitRows,
       Dispatched, db

\* What a worker that does not move relies on stays true.
LEMMA ReliesStable ==
  ASSUME TypeOK, [Next]_vars, NEW w \in Workers, Relies(w), worker'[w] = worker[w], TypeOK'
  PROVE  Relies(w)'
<1>1. CASE worker[w].pc \in Busy
  <2> DEFINE r == worker[w].run
  <2>1. r \in RunIds
    BY <1>1, BusyRuns
  <2>2. artifacts[r] \subseteq artifacts'[r] /\ (results[r] # <<>> => results'[r] # <<>>)
    BY <2>1, NothingIsRemoved
  <2>3. artifacts'[r] \subseteq Stored
    BY <2>1 DEF TypeOK, Stored
  <2>4. worker'[w].pc = worker[w].pc /\ worker'[w].run = r
    OBVIOUS
  <2>5. "predictions" \in artifacts[r] => "predictions" \in artifacts'[r]
    BY <2>2
  <2>6. artifacts[r] = Stored => artifacts'[r] = Stored
    BY <2>2, <2>3
  <2> QED
    BY <2>2, <2>4, <2>5, <2>6 DEF Relies
<1>2. CASE worker[w].pc \notin Busy
  BY <1>2 DEF Relies, Busy, Step
<1> QED
  BY <1>1, <1>2

\* A run that stays COMPLETED stays visible.
LEMMA VisibleStable ==
  ASSUME TypeOK, TypeOK', [Next]_vars, CompletedIsVisible, NEW r \in RunIds, status[r] = "COMPLETED"
  PROVE  results'[r] # <<>> /\ artifacts'[r] = Stored
<1>1. artifacts[r] \subseteq artifacts'[r] /\ (results[r] # <<>> => results'[r] # <<>>)
  BY NothingIsRemoved
<1>2. artifacts'[r] \subseteq Stored
  BY DEF TypeOK, Stored
<1> QED
  BY <1>1, <1>2 DEF CompletedIsVisible, Stored

\* Each step of a worker establishes what the worker then relies on.
LEMMA WorkerRelies ==
  ASSUME TypeOK, TypeOK', NEW w \in Workers, Relies(w), WorkerStep(w)
  PROVE  Relies(w)'
<1> DEFINE r == worker[w].run
<1>a. worker \in [Workers -> WorkerState]
  BY DEF TypeOK
<1>b. worker[w].pc \in Busy =>
        worker[w] \in [pc: Busy, run: RunIds, seen: Status, rows: SUBSET Metrics]
  BY <1>a DEF WorkerState, Busy, Step
<1>1. CASE Infer(w)
  <2>1. worker'[w].pc = "record" /\ worker'[w].run = r
    BY <1>1 DEF Infer, Goto, TypeOK
  <2>2. "predictions" \in artifacts'[r]
    BY <1>1, BusyRuns, Literals DEF Infer, TypeOK
  <2> QED
    BY <2>1, <2>2 DEF Relies
<1>2. CASE Record(w)
  <2>1. worker'[w].pc = "evaluate" /\ worker'[w].run = r
    BY <1>2 DEF Record, Goto, TypeOK
  <2>2. "predictions" \in artifacts'[r]
    BY <1>2 DEF Record, store, Relies
  <2> QED
    BY <2>1, <2>2 DEF Relies
<1>3. CASE Evaluate(w)
  <2>1. worker'[w].pc = "aggregate" /\ worker'[w].run = r
    BY <1>3 DEF Evaluate, Goto, TypeOK
  <2>2. r \in RunIds /\ "predictions" \in artifacts[r]
    BY <1>3, BusyRuns, Literals DEF Evaluate, Relies
  <2>3. artifacts'[r] = artifacts[r] \cup {"metric_results"}
    BY <1>3, <2>2 DEF Evaluate, TypeOK
  <2>4. artifacts'[r] = Stored
    BY <2>2, <2>3 DEF Stored, TypeOK
  <2> QED
    BY <2>1, <2>4 DEF Relies
<1>4. CASE Aggregate(w) \/ Publish(w)
  <2>1. worker'[w].pc \in {"publish", "commit"} /\ worker'[w].run = r
    <3>1. CASE Aggregate(w)
      BY <3>1, <1>a, <1>b DEF Aggregate
    <3>2. CASE Publish(w)
      BY <3>2, <1>a, <1>b DEF Publish, Goto
    <3> QED
      BY <1>4, <3>1, <3>2
  <2>2. artifacts'[r] = Stored
    BY <1>4 DEF Aggregate, Publish, store, Relies
  <2> QED
    BY <2>1, <2>2 DEF Relies
<1>5. CASE Commit(w)
  <2>1. worker'[w].pc = "complete" /\ worker'[w].run = r
    BY <1>5 DEF Commit, Goto, TypeOK
  <2>2. artifacts'[r] = Stored
    BY <1>5 DEF Commit, store, Relies
  <2>3. results'[r] # <<>>
    BY <1>5, BusyRuns, Literals, CommitRowsFills DEF Commit
  <2> QED
    BY <2>1, <2>2, <2>3 DEF Relies
<1>6. CASE CompleteBegin(w)
  <2>1. worker'[w].pc = "completing" /\ worker'[w].run = r
    BY <1>6, <1>a, <1>b DEF CompleteBegin, Reads
  <2>2. artifacts'[r] = Stored /\ results'[r] # <<>>
    BY <1>6 DEF CompleteBegin, db, store, Relies
  <2> QED
    BY <2>1, <2>2 DEF Relies
<1>7. CASE \/ Poll(w) \/ Load(w) \/ StartBegin(w) \/ StartCommit(w) \/ CompleteCommit(w)
          \/ FailBegin(w) \/ FailCommit(w) \/ StepFails(w) \/ Crash(w) \/ Restart(w)
  <2> DEFINE early == {"idle", "down", "load", "start", "starting", "infer", "fail", "failing"}
  <2>1. CASE Poll(w)
    BY <2>1 DEF Poll, Taken, TypeOK, Relies
  <2>2. CASE Load(w) \/ StartCommit(w) \/ StepFails(w) \/ Restart(w)
    <3>1. worker'[w].pc \in early
      BY <2>2 DEF Load, StartCommit, StepFails, Restart, Goto, TypeOK, WorkerState
    <3> QED
      BY <3>1 DEF Relies
  <2>3. CASE StartBegin(w) \/ FailBegin(w)
    <3>1. worker'[w].pc \in early
      BY <2>3, <1>a, <1>b, Literals DEF StartBegin, FailBegin, Reads
    <3> QED
      BY <3>1 DEF Relies
  <2>4. CASE CompleteCommit(w) \/ FailCommit(w) \/ Crash(w)
    <3>1. worker'[w].pc \in early
      BY <2>4 DEF CompleteCommit, FailCommit, Crash, IdleWorker, TypeOK
    <3> QED
      BY <3>1 DEF Relies
  <2> QED
    BY <1>7, <2>1, <2>2, <2>3, <2>4
<1> QED
  BY <1>1, <1>2, <1>3, <1>4, <1>5, <1>6, <1>7 DEF WorkerStep, Work

\* A worker's step moves no other worker, and completes no run but its own.
LEMMA WorkerMovesItself ==
  ASSUME TypeOK, NEW w \in Workers, WorkerStep(w)
  PROVE  /\ \A v \in Workers : v # w => worker'[v] = worker[v]
         /\ \A r \in RunIds : status'[r] = "COMPLETED" /\ status[r] # "COMPLETED" =>
              r = worker[w].run /\ worker[w].pc = "completing"
<1>1. \A v \in Workers : v # w => worker'[v] = worker[v]
  BY DEF TypeOK, WorkerStep, Work, Goto, Reads, Poll, Load, StartBegin, StartCommit, Infer, Record,
         Evaluate, Aggregate, Publish, Commit, CompleteBegin, CompleteCommit, FailBegin,
         FailCommit, StepFails, Crash, Restart
<1>2. ASSUME NEW r \in RunIds, status'[r] = "COMPLETED", status[r] # "COMPLETED"
      PROVE  r = worker[w].run /\ worker[w].pc = "completing"
  BY <1>2 DEF TypeOK, WorkerStep, Work, SetStatus, CommitRows, db, Poll, Load, StartBegin,
     StartCommit, Infer, Record, Evaluate, Aggregate, Publish, Commit, CompleteBegin,
     CompleteCommit, FailBegin, FailCommit, StepFails, Crash, Restart
<1> QED
  BY <1>1, <1>2

LEMMA VisibleCorrect == Spec => []VisibleInv
<1>1. Init => VisibleInv
  BY DEF Init, VisibleInv, Relies, CompletedIsVisible, IdleWorker
<1>2. TypeOK /\ TypeOK' /\ VisibleInv /\ [Next]_vars => VisibleInv'
  <2> SUFFICES ASSUME TypeOK, TypeOK', VisibleInv, [Next]_vars PROVE VisibleInv'
    OBVIOUS
  <2>1. ASSUME NEW w \in Workers, WorkerStep(w) PROVE VisibleInv'
    <3>1. \A v \in Workers : Relies(v)'
      BY <2>1, WorkerRelies, WorkerMovesItself, ReliesStable DEF VisibleInv
    <3>2. ASSUME NEW r \in RunIds, status'[r] = "COMPLETED"
          PROVE  results'[r] # <<>> /\ artifacts'[r] = Stored
      <4>1. CASE status[r] = "COMPLETED"
        BY <4>1, VisibleStable DEF VisibleInv
      <4>2. CASE status[r] # "COMPLETED"
        <5>1. r = worker[w].run /\ worker[w].pc = "completing"
          BY <2>1, <3>2, <4>2, WorkerMovesItself
        <5>2. CompleteCommit(w)
          BY <2>1, <3>2, <4>2, <5>1 DEF WorkerStep, Work, Poll, Load, StartBegin, StartCommit,
             Infer, Record, Evaluate, Aggregate, Publish, Commit, CompleteBegin, FailBegin,
             FailCommit, StepFails, Crash, Restart, db
        <5> QED
          BY <5>1, <5>2 DEF VisibleInv, Relies, CompleteCommit, SetStatus, store
      <4> QED
        BY <4>1, <4>2
    <3> QED
      BY <3>1, <3>2 DEF VisibleInv, CompletedIsVisible, Stored
  <2>2. ASSUME NEW c \in Clients, ClientStep(c) PROVE VisibleInv'
    <3>1. \A r \in RunIds : status'[r] = "COMPLETED" => status[r] = "COMPLETED"
      BY <2>2, RequestsCompleteNothing
    <3>2. worker' = worker
      BY <2>2 DEF ClientStep, CreateStep, RepeatStep, CancelStep, AggregateStep, CreateReplay,
                  CreateBegin, CreateCommit, CreateConflict, RepeatBegin, RepeatCommit, CancelBegin,
                  CancelCommit, AggregateBegin, AggregatePublish, AggregateCommit, ClientAbort
    <3>3. \A w \in Workers : Relies(w)'
      BY <3>2, ReliesStable DEF VisibleInv
    <3> QED
      BY <3>1, <3>3, VisibleStable DEF VisibleInv, CompletedIsVisible, Stored
  <2>3. CASE UNCHANGED vars
    BY <2>3 DEF vars, db, store, VisibleInv, Relies, CompletedIsVisible
  <2> QED
    BY <2>1, <2>2, <2>3 DEF Next
<1> QED
  BY <1>1, <1>2, TypeCorrect, PTL DEF Spec

\* A COMPLETED run's results are committed and its artifacts stored, however
\* many workers, cancellations and aggregations interleave.
THEOREM CompletedVisible == Spec => []CompletedIsVisible
<1>1. VisibleInv => CompletedIsVisible
  BY DEF VisibleInv
<1> QED
  BY <1>1, VisibleCorrect, PTL

----------------------------------------------------------------------------
(* One run per key.  The check of create_run alone would not do it: the    *)
(* invariant needs what uq_run_idempotency adds at the commit, that ids    *)
(* are handed out once, and that only existing rows are ever updated.      *)

KeysUnique ==
  \A r, q \in RunIds : Exists(r) /\ Exists(q) /\ key[r] = key[q] /\ key[r] # NoKey => r = q
RepliesHold == \A x \in replies : x[2] # NoRun => Exists(x[2]) /\ key[x[2]] = x[1]
FreshIds == \A r \in RunIds : r >= nextRun => ~Exists(r)
Inserting(c) == client[c].op \in {"create", "repeat"}
CreatorsApart ==
  \A c \in Clients : Inserting(c) =>
    /\ ~Exists(client[c].run) /\ client[c].run < nextRun
    /\ \A d \in Clients : Inserting(d) /\ client[d].run = client[c].run => d = c
HoldersExist ==
  /\ \A c \in Clients : client[c].op \in {"cancel", "publish", "commit"} => Exists(client[c].run)
  /\ \A w \in Workers : worker[w].pc \in Busy => Exists(worker[w].run)

KeyInv == KeysUnique /\ RepliesHold /\ FreshIds /\ CreatorsApart /\ HoldersExist

LEMMA KeyInvImplies == TypeOK /\ KeyInv => SameKeySameRun
<1> SUFFICES ASSUME TypeOK, KeyInv PROVE SameKeySameRun
  OBVIOUS
<1>1. ASSUME NEW x \in replies, NEW y \in replies, x[1] = y[1], NoRun \notin {x[2], y[2]}
      PROVE  x[2] = y[2]
  <2>1. x[1] \in Keys /\ x[2] \in RunIds /\ y[2] \in RunIds
    BY <1>1 DEF TypeOK
  <2>2. Exists(x[2]) /\ Exists(y[2]) /\ key[x[2]] = x[1] /\ key[y[2]] = x[1]
    BY <1>1 DEF KeyInv, RepliesHold
  <2>3. x[1] # NoKey
    BY <2>1, ConstantsAssumption
  <2> QED
    BY <2>1, <2>2, <2>3 DEF KeyInv, KeysUnique
<1> QED
  BY <1>1 DEF SameKeySameRun, KeyInv, RepliesHold

\* A step that inserts no row, hands out no id and replies to no keyed create.
LEMMA KeyFrame ==
  ASSUME TypeOK, KeyInv, key' = key, nextRun' = nextRun, replies' = replies,
         \A r \in RunIds : Exists(r)' <=> Exists(r),
         \A c \in Clients : \/ client'[c] = client[c]
                            \/ client'[c].op = "idle"
                            \/ /\ client'[c].op \in {"cancel", "publish", "commit"}
                               /\ client'[c].run \in RunIds /\ Exists(client'[c].run),
         \A w \in Workers : worker'[w].pc \in Busy =>
                              worker'[w].run \in RunIds /\ Exists(worker'[w].run)
  PROVE  KeyInv'
<1>1. KeysUnique'
  BY DEF KeyInv, KeysUnique
<1>2. RepliesHold'
  <2> SUFFICES ASSUME NEW x \in replies, x[2] # NoRun PROVE Exists(x[2])' /\ key[x[2]] = x[1]
    BY DEF RepliesHold
  <2>1. x[2] \in RunIds
    BY DEF TypeOK
  <2> QED
    BY <2>1 DEF KeyInv, RepliesHold
<1>3. FreshIds'
  BY DEF KeyInv, FreshIds
<1>4. CreatorsApart'
  <2> SUFFICES ASSUME NEW c \in Clients, Inserting(c)'
               PROVE  /\ status'[client'[c].run] = "NONE" /\ client'[c].run < nextRun'
                      /\ \A d \in Clients : Inserting(d)' /\ client'[d].run = client'[c].run => d = c
    BY DEF CreatorsApart, Exists
  <2>1. \A d \in Clients : Inserting(d)' => client'[d] = client[d] /\ Inserting(d)
    BY DEF Inserting
  <2>2. client'[c].run \in RunIds
    BY <2>1, BusyRuns DEF Inserting
  <2> QED
    BY <2>1, <2>2 DEF KeyInv, CreatorsApart, Exists
<1>5. HoldersExist'
  <2>1. ASSUME NEW c \in Clients, client'[c].op \in {"cancel", "publish", "commit"}
        PROVE  status'[client'[c].run] # "NONE"
    <3>1. client'[c].run \in RunIds /\ Exists(client'[c].run)
      BY <2>1, BusyRuns DEF KeyInv, HoldersExist
    <3> QED
      BY <3>1 DEF Exists
  <2>2. ASSUME NEW w \in Workers, worker'[w].pc \in Busy PROVE status'[worker'[w].run] # "NONE"
    BY <2>2 DEF Exists
  <2> QED
    BY <2>1, <2>2 DEF HoldersExist, Exists
<1> QED
  BY <1>1, <1>2, <1>3, <1>4, <1>5 DEF KeyInv

\* Workers update rows and insert none.
LEMMA WorkersInsertNothing ==
  ASSUME TypeOK, KeyInv, NEW w \in Workers, WorkerStep(w)
  PROVE  \A r \in RunIds : Exists(r)' <=> Exists(r)
<1>1. worker[w].pc \in Busy => worker[w].run \in RunIds /\ Exists(worker[w].run)
  BY BusyRuns DEF KeyInv, HoldersExist
<1>2. CASE status' = status
  BY <1>2 DEF Exists
<1>3. CASE Commit(w)
  BY <1>1, <1>3, Literals DEF Commit, CommitRows, Exists, TypeOK
<1>4. CASE StartCommit(w) \/ CompleteCommit(w) \/ FailCommit(w)
  BY <1>1, <1>4, Literals DEF StartCommit, CompleteCommit, FailCommit, SetStatus, Exists, TypeOK
<1> QED
  BY <1>2, <1>3, <1>4 DEF WorkerStep, Work, db, Poll, Load, StartBegin, Infer, Record, Evaluate,
     Aggregate, Publish, CompleteBegin, FailBegin, StepFails, Crash, Restart

\* A worker's step touches existing rows only, and takes existing runs only.
LEMMA WorkerKeepsKeys ==
  ASSUME TypeOK, KeyInv, NEW w \in Workers, WorkerStep(w)
  PROVE  KeyInv'
<1>1. key' = key /\ nextRun' = nextRun /\ replies' = replies /\ client' = client
  BY DEF WorkerStep, Work, WorkerOnly, db, SetStatus, Poll, Load, StartBegin, StartCommit, Infer,
         Record, Evaluate, Aggregate, Publish, Commit, CompleteBegin, CompleteCommit, FailBegin,
         FailCommit, StepFails, Crash, Restart
<1>2. \A r \in RunIds : Exists(r)' <=> Exists(r)
  BY WorkersInsertNothing
<1>3. \A v \in Workers : v # w => worker'[v] = worker[v]
  BY WorkerMovesItself
<1>4. worker'[w].pc \in Busy => worker'[w].run \in RunIds /\ Exists(worker'[w].run)
  <2>1. CASE Poll(w)
    <3>1. PICK r \in RunIds : Pollable(status[r]) /\ worker' = [worker EXCEPT ![w] = Taken(r)]
      BY <2>1 DEF Poll
    <3> QED
      BY <3>1 DEF Pollable, Exists, Taken, TypeOK
  <2>2. CASE CompleteCommit(w) \/ FailCommit(w) \/ Crash(w) \/ Restart(w)
    <3>1. worker \in [Workers -> WorkerState]
      BY DEF TypeOK
    <3>2. CASE Restart(w)
      BY <3>1, <3>2 DEF Restart, Goto, WorkerState, Busy, Step
    <3>3. CASE CompleteCommit(w) \/ FailCommit(w) \/ Crash(w)
      BY <3>1, <3>3 DEF CompleteCommit, FailCommit, Crash, IdleWorker, Busy, Step
    <3> QED
      BY <2>2, <3>2, <3>3
  <2>3. CASE worker[w].pc \in Busy /\ worker'[w].run = worker[w].run
    BY <2>3, BusyRuns DEF KeyInv, HoldersExist
  <2>4. ASSUME worker[w].pc \in Busy, (\E p : Goto(w, p) \/ Reads(w, p)) \/ Aggregate(w)
        PROVE  worker'[w].run = worker[w].run
    <3>1. worker[w] \in [pc: Busy, run: RunIds, seen: Status, rows: SUBSET Metrics]
      BY <2>4 DEF TypeOK, WorkerState, Busy, Step
    <3>2. ASSUME NEW p, Goto(w, p) \/ Reads(w, p) PROVE worker'[w].run = worker[w].run
      BY <3>1, <3>2 DEF Goto, Reads, TypeOK
    <3>3. CASE Aggregate(w)
      BY <3>1, <3>3 DEF Aggregate, TypeOK
    <3> QED
      BY <2>4, <3>2, <3>3
  <2> QED
    BY <2>1, <2>2, <2>3, <2>4, Literals DEF WorkerStep, Work, Load, StartBegin, StartCommit, Infer,
       Record, Evaluate, Aggregate, Publish, Commit, CompleteBegin, FailBegin, StepFails
<1>5. \A v \in Workers : worker'[v].pc \in Busy => worker'[v].run \in RunIds /\ Exists(worker'[v].run)
  BY <1>3, <1>4, BusyRuns DEF KeyInv, HoldersExist
<1> QED
  BY <1>1, <1>2, <1>5, KeyFrame

\* create_run and replay hand out the next id.
LEMMA BeginKeepsKeys ==
  ASSUME TypeOK, KeyInv, NEW c \in Clients,
         (\E k \in Keys \cup {NoKey} : CreateBegin(c, k)) \/ RepeatBegin(c)
  PROVE  KeyInv'
<1>1. /\ status' = status /\ key' = key /\ replies' = replies /\ worker' = worker
      /\ nextRun \in RunIds /\ nextRun' = nextRun + 1
      /\ Inserting(c)' /\ client'[c].run = nextRun
      /\ \A d \in Clients : d # c => client'[d] = client[d]
  BY ConstantsAssumption DEF CreateBegin, RepeatBegin, Request, Inserting, db, TypeOK, RunIds
<1>2. KeysUnique' /\ RepliesHold'
  BY <1>1 DEF KeyInv, KeysUnique, RepliesHold, Exists
<1>3. FreshIds'
  BY <1>1 DEF KeyInv, FreshIds, Exists, RunIds
<1>4. CreatorsApart'
  <2>1. ~Exists(nextRun)
    BY <1>1 DEF KeyInv, FreshIds, RunIds
  <2>2. \A d \in Clients : d # c /\ Inserting(d) =>
          client[d].run \in RunIds /\ client[d].run < nextRun /\ ~Exists(client[d].run)
    BY BusyRuns DEF KeyInv, CreatorsApart, Inserting
  <2>3. \A d \in Clients : d # c => (Inserting(d)' <=> Inserting(d))
    BY <1>1 DEF Inserting
  <2> QED
    BY <1>1, <2>1, <2>2, <2>3 DEF KeyInv, CreatorsApart, Exists, RunIds
<1>5. HoldersExist'
  BY <1>1 DEF KeyInv, HoldersExist, Exists, Inserting
<1> QED
  BY <1>2, <1>3, <1>4, <1>5 DEF KeyInv

\* The insert of create_run, where the constraint keeps the key unique, and the
\* one of replay, which has no key.
LEMMA CommitKeepsKeys ==
  ASSUME TypeOK, KeyInv, NEW c \in Clients, CreateCommit(c) \/ RepeatCommit(c)
  PROVE  KeyInv'
<1> DEFINE r == client[c].run
           k == key'[r]
<1>1. Inserting(c) /\ r \in RunIds /\ ~Exists(r) /\ r < nextRun
  <2>1. Inserting(c)
    BY DEF CreateCommit, RepeatCommit, Inserting
  <2> QED
    BY <2>1, BusyRuns DEF KeyInv, CreatorsApart, Inserting
<1>2. /\ nextRun' = nextRun /\ worker' = worker
      /\ status'[r] # "NONE" /\ ~KeyTaken(k)
      /\ \A q \in RunIds : q # r => status'[q] = status[q] /\ key'[q] = key[q]
      /\ client'[c].op = "idle"
      /\ \A d \in Clients : d # c => client'[d] = client[d]
  BY <1>1 DEF CreateCommit, RepeatCommit, Dispatched, KeyTaken, HasKey, TypeOK, IdleClient
<1>3. replies' \subseteq replies \cup {<<k, r>>}
  BY <1>1 DEF CreateCommit, RepeatCommit, TypeOK
<1>4. KeysUnique'
  BY <1>1, <1>2 DEF KeyInv, KeysUnique, KeyTaken, HasKey, Exists
<1>5. RepliesHold'
  <2> SUFFICES ASSUME NEW x \in replies', x[2] # NoRun
               PROVE  status'[x[2]] # "NONE" /\ key'[x[2]] = x[1]
    BY DEF RepliesHold, Exists
  <2>1. CASE x \in replies
    <3>1. x[2] \in RunIds /\ Exists(x[2]) /\ key[x[2]] = x[1]
      BY <2>1 DEF KeyInv, RepliesHold, TypeOK
    <3> QED
      BY <1>1, <1>2, <3>1 DEF Exists
  <2>2. CASE x = <<k, r>>
    BY <1>2, <2>2
  <2> QED
    BY <1>3, <2>1, <2>2
<1>6. FreshIds'
  BY <1>1, <1>2 DEF KeyInv, FreshIds, Exists, TypeOK, RunIds
<1>7. CreatorsApart'
  <2>1. \A d \in Clients : Inserting(d)' => d # c /\ client'[d] = client[d] /\ Inserting(d)
    BY <1>2 DEF Inserting
  <2>2. \A d \in Clients : Inserting(d)' => client[d].run \in RunIds /\ client[d].run # r
    BY <1>1, <2>1, BusyRuns DEF KeyInv, CreatorsApart, Inserting
  <2> QED
    BY <1>2, <2>1, <2>2 DEF KeyInv, CreatorsApart, Exists
<1>8. HoldersExist'
  <2>1. \A d \in Clients : client'[d].op \in {"cancel", "publish", "commit"} =>
          client'[d] = client[d] /\ client[d].run \in RunIds /\ Exists(client[d].run)
    BY <1>2, BusyRuns DEF KeyInv, HoldersExist
  <2>2. \A w \in Workers : worker[w].pc \in Busy => worker[w].run \in RunIds /\ Exists(worker[w].run)
    BY BusyRuns DEF KeyInv, HoldersExist
  <2> QED
    BY <1>1, <1>2, <2>1, <2>2 DEF HoldersExist, Exists
<1> QED
  BY <1>4, <1>5, <1>6, <1>7, <1>8 DEF KeyInv

\* A replay answers with a row that has the key, a conflict with an error.
LEMMA ReplyKeepsKeys ==
  ASSUME TypeOK, KeyInv, NEW c \in Clients,
         (\E k \in Keys : CreateReplay(c, k)) \/ CreateConflict(c)
  PROVE  KeyInv'
<1>1. /\ status' = status /\ key' = key /\ nextRun' = nextRun /\ worker' = worker
      /\ \A d \in Clients : client'[d] = client[d] \/ client'[d].op = "idle"
  BY DEF CreateReplay, CreateConflict, db, TypeOK, IdleClient
<1>2. RepliesHold'
  <2>1. CASE CreateConflict(c)
    BY <2>1 DEF CreateConflict, db, KeyInv, RepliesHold, Exists
  <2>2. CASE \E k \in Keys : CreateReplay(c, k)
    BY <2>2 DEF CreateReplay, HasKey, db, KeyInv, RepliesHold, Exists
  <2> QED
    BY <2>1, <2>2
<1>3. KeysUnique' /\ FreshIds' /\ CreatorsApart' /\ HoldersExist'
  BY <1>1 DEF KeyInv, KeysUnique, FreshIds, CreatorsApart, HoldersExist, Exists,
              Inserting
<1> QED
  BY <1>2, <1>3 DEF KeyInv

\* Cancellations and aggregations update rows that exist.
LEMMA UpdatesKeepKeys ==
  ASSUME TypeOK, KeyInv, NEW c \in Clients, CancelStep(c) \/ AggregateStep(c) \/ ClientAbort(c)
  PROVE  KeyInv'
<1>1. key' = key /\ nextRun' = nextRun /\ replies' = replies /\ worker' = worker
  BY DEF CancelStep, AggregateStep, CancelBegin, CancelCommit, AggregateBegin, AggregatePublish,
         AggregateCommit, ClientAbort, db
<1>2. client[c].op \in {"cancel", "publish", "commit"} => client[c].run \in RunIds /\ Exists(client[c].run)
  BY BusyRuns DEF KeyInv, HoldersExist
<1>3. \A r \in RunIds : Exists(r)' <=> Exists(r)
  <2>1. CASE CancelCommit(c)
    BY <1>2, <2>1 DEF CancelCommit, Exists, TypeOK
  <2>2. CASE AggregateCommit(c)
    BY <1>2, <2>2 DEF AggregateCommit, CommitRows, Exists, TypeOK
  <2>3. CASE status' = status
    BY <2>3 DEF Exists
  <2> QED
    BY <2>1, <2>2, <2>3 DEF CancelStep, AggregateStep, CancelBegin, AggregateBegin,
       AggregatePublish, ClientAbort, db
<1>4. /\ \A d \in Clients : d # c => client'[d] = client[d]
      /\ \/ client'[c].op = "idle"
         \/ /\ client'[c].op \in {"cancel", "publish", "commit"}
            /\ client'[c].run \in RunIds /\ Exists(client'[c].run)
  <2>1. CASE (\E r \in RunIds : CancelBegin(c, r)) \/ (\E r \in RunIds : AggregateBegin(c, r))
    BY <2>1 DEF CancelBegin, AggregateBegin, Request, Pass, Cancellable, Exists, TypeOK
  <2>2. CASE AggregatePublish(c)
    <3>1. client[c] \in ClientState \ {IdleClient}
      BY <2>2 DEF AggregatePublish, TypeOK, IdleClient
    <3>2. client'[c].op = "commit" /\ client'[c].run = client[c].run
      BY <2>2, <3>1 DEF AggregatePublish, TypeOK, ClientState
    <3>3. \A d \in Clients : d # c => client'[d] = client[d]
      BY <2>2 DEF AggregatePublish, TypeOK
    <3> QED
      BY <1>2, <2>2, <3>2, <3>3 DEF AggregatePublish
  <2>3. CASE CancelCommit(c) \/ AggregateCommit(c) \/ ClientAbort(c)
    BY <2>3 DEF CancelCommit, AggregateCommit, ClientAbort, IdleClient, TypeOK
  <2> QED
    BY <2>1, <2>2, <2>3 DEF CancelStep, AggregateStep
<1>5. \A w \in Workers : worker'[w].pc \in Busy => worker'[w].run \in RunIds /\ Exists(worker'[w].run)
  BY <1>1, BusyRuns DEF KeyInv, HoldersExist
<1> QED
  BY <1>1, <1>3, <1>4, <1>5, KeyFrame

\* No request and no worker breaks the invariant.
LEMMA KeyStep == TypeOK /\ KeyInv /\ [Next]_vars => KeyInv'
<1> SUFFICES ASSUME TypeOK, KeyInv, [Next]_vars PROVE KeyInv'
  OBVIOUS
<1>1. ASSUME NEW w \in Workers, WorkerStep(w) PROVE KeyInv'
  BY <1>1, WorkerKeepsKeys
<1>2. ASSUME NEW c \in Clients, ClientStep(c) PROVE KeyInv'
  BY <1>2, BeginKeepsKeys, CommitKeepsKeys, ReplyKeepsKeys, UpdatesKeepKeys
  DEF ClientStep, CreateStep, RepeatStep
<1>3. CASE UNCHANGED vars
  BY <1>3 DEF vars, db, KeyInv, KeysUnique, RepliesHold, FreshIds, CreatorsApart, HoldersExist,
              Inserting, Exists
<1> QED
  BY <1>1, <1>2, <1>3 DEF Next

LEMMA KeysCorrect == Spec => []KeyInv
<1>1. Init => KeyInv
  BY DEF Init, KeyInv, KeysUnique, RepliesHold, FreshIds, CreatorsApart, HoldersExist, Exists,
         Inserting, IdleClient, IdleWorker, Busy, Step
<1> QED
  BY <1>1, KeyStep, TypeCorrect, PTL DEF Spec

\* Whatever requests race under one Idempotency-Key, all that succeed name one
\* run, and that run carries the key.
THEOREM OneRunPerKey == Spec => []SameKeySameRun
BY KeyInvImplies, KeysCorrect, TypeCorrect, PTL

----------------------------------------------------------------------------
(* What is recorded of a run: its creation, its cancellation and an event   *)
(* for its status.  Every writer enqueues and records in the transaction    *)
(* that writes, and nothing is removed, so any number of them may race.     *)

Recorded(r) ==
  status[r] \notin {"NONE", "AGGREGATING"} =>
    /\ status[r] = "CANCELLED" => "run.cancel" \in audit[r]
    /\ (r \in repeats /\ status[r] = "QUEUED") \/ Sent(r, Explains(status[r]))

AccountInv ==
  /\ \A r \in repeats : Exists(r)
  /\ \A r \in RunIds : Exists(r) => r \in repeats \/ "run.create" \in audit[r]
  /\ \A r \in RunIds : Recorded(r)

\* An event enqueued for one run.
LEMMA AppendedEvent ==
  ASSUME TypeOK, NEW r \in RunIds, NEW e \in Event,
         outbox' = [outbox EXCEPT ![r] = Append(@, e)]
  PROVE  /\ \A q \in RunIds : q # r => outbox'[q] = outbox[q]
         /\ Len(outbox[r]) \in Nat /\ DOMAIN outbox[r] = 1 .. Len(outbox[r])
         /\ DOMAIN outbox'[r] = 1 .. Len(outbox[r]) + 1
         /\ \A i \in 1 .. Len(outbox[r]) : outbox'[r][i] = outbox[r][i]
         /\ outbox'[r][Len(outbox[r]) + 1] = e
<1>1. outbox[r] \in Seq(Event) /\ outbox'[r] = Append(outbox[r], e)
  BY DEF TypeOK
<1>2. \A q \in RunIds : q # r => outbox'[q] = outbox[q]
  BY DEF TypeOK
<1> QED
  BY <1>1, <1>2

LEMMA SentAppended ==
  ASSUME TypeOK, NEW r \in RunIds, NEW e \in Event,
         outbox' = [outbox EXCEPT ![r] = Append(@, e)]
  PROVE  Sent(r, e)' /\ \A q \in RunIds, f \in Event : Sent(q, f) => Sent(q, f)'
<1>1. Len(outbox[r]) + 1 \in DOMAIN outbox'[r] /\ DOMAIN outbox[r] \subseteq DOMAIN outbox'[r]
  <2>1. /\ Len(outbox[r]) \in Nat /\ DOMAIN outbox[r] = 1 .. Len(outbox[r])
        /\ DOMAIN outbox'[r] = 1 .. Len(outbox[r]) + 1
    BY AppendedEvent
  <2> QED
    BY <2>1
<1>2. Sent(r, e)'
  BY <1>1, AppendedEvent DEF Sent
<1>3. ASSUME NEW q \in RunIds, NEW f \in Event, Sent(q, f) PROVE Sent(q, f)'
  <2>1. CASE q = r
    BY <1>1, <1>3, <2>1, AppendedEvent DEF Sent
  <2>2. CASE q # r
    BY <1>3, <2>2, AppendedEvent DEF Sent
  <2> QED
    BY <2>1, <2>2
<1> QED
  BY <1>2, <1>3

LEMMA ExplainsEvent ==
  \A s \in Status : s \notin {"NONE", "AGGREGATING"} => Explains(s) \in Event
BY Literals DEF Explains, Status, Terminal

\* A transaction that enqueues the event of status s, and writes s unless the
\* row had it when it was read.
LEMMA WriteIsAccounted ==
  ASSUME TypeOK, AccountInv, NEW r \in RunIds, NEW s \in Status \ {"NONE", "AGGREGATING"},
         \/ status' = [status EXCEPT ![r] = s]
         \/ status' = status /\ Exists(r),
         outbox' = [outbox EXCEPT ![r] = Append(@, Explains(s))], repeats' = repeats,
         r \in repeats \/ "run.create" \in audit'[r],
         s = "CANCELLED" => "run.cancel" \in audit'[r],
         \A q \in RunIds : audit[q] \subseteq audit'[q]
  PROVE  AccountInv'
<1>1. \A q \in RunIds : status'[q] = status[q] \/ (q = r /\ status'[q] = s)
  BY DEF TypeOK
<1>2. status'[r] # "NONE"
  BY DEF TypeOK, Exists
<1>3. \A q \in repeats' : Exists(q)'
  BY <1>1, <1>2 DEF AccountInv, Exists, TypeOK
<1>4. \A q \in RunIds : Exists(q)' => q \in repeats' \/ "run.create" \in audit'[q]
  BY <1>1 DEF AccountInv, Exists
<1>5. /\ Sent(r, Explains(s))'
      /\ \A q \in RunIds, f \in Event : Sent(q, f) => Sent(q, f)'
  BY ExplainsEvent, SentAppended
<1>6. ASSUME NEW q \in RunIds, status'[q] \notin {"NONE", "AGGREGATING"}
      PROVE  /\ status'[q] = "CANCELLED" => "run.cancel" \in audit'[q]
             /\ \/ q \in repeats' /\ status'[q] = "QUEUED"
                \/ \E i \in DOMAIN outbox'[q] : outbox'[q][i] = Explains(status'[q])
  <2>1. CASE status'[q] = status[q]
    <3>1. Recorded(q) /\ status[q] \in Status
      BY DEF AccountInv, TypeOK
    <3>2. Explains(status[q]) \in Event
      BY <1>6, <2>1, <3>1, ExplainsEvent
    <3>3. Sent(q, Explains(status[q])) =>
            \E i \in DOMAIN outbox'[q] : outbox'[q][i] = Explains(status[q])
      <4>1. PICK f \in Event : f = Explains(status[q])
        BY <3>2
      <4>2. Sent(q, f) => Sent(q, f)'
        BY <1>5
      <4> QED
        BY <4>1, <4>2 DEF Sent
    <3>4. audit[q] \subseteq audit'[q]
      OBVIOUS
    <3> QED
      BY <1>6, <2>1, <3>1, <3>3, <3>4 DEF Recorded
  <2>2. CASE q = r /\ status'[q] = s
    BY <1>5, <2>2 DEF Sent
  <2> QED
    BY <1>1, <2>1, <2>2
<1> QED
  BY <1>3, <1>4, <1>6 DEF AccountInv, Recorded, Sent

\* The aggregation writes a status that has no event.
LEMMA AggregationIsAccounted ==
  ASSUME TypeOK, AccountInv, NEW r \in RunIds, Exists(r), NEW s, NEW m, CommitRows(r, s, m),
         outbox' = outbox, audit' = audit, repeats' = repeats
  PROVE  AccountInv'
<1>1. \A q \in RunIds : status'[q] = status[q] \/ (q = r /\ status'[q] = "AGGREGATING")
  BY DEF CommitRows, TypeOK
<1> QED
  BY <1>1 DEF AccountInv, Recorded, Sent, Exists, TypeOK

LEMMA AccountStep == TypeOK /\ KeyInv /\ AccountInv /\ [Next]_vars => AccountInv'
<1> SUFFICES ASSUME TypeOK, KeyInv, AccountInv, [Next]_vars PROVE AccountInv'
  OBVIOUS
<1>1. CASE status' = status /\ outbox' = outbox /\ audit' = audit /\ repeats' = repeats
  BY <1>1 DEF AccountInv, Recorded, Sent, Exists
<1>2. ASSUME NEW c \in Clients, CreateCommit(c) PROVE AccountInv'
  <2>1. client[c].run \in RunIds
    BY <1>2, BusyRuns DEF CreateCommit
  <2>2. Dispatched \in {"QUEUED", "PENDING_SUBMISSION"} /\ Explains(Dispatched) = "run.queued"
    BY DEF Dispatched, Explains
  <2>3. "run.create" \in audit'[client[c].run] /\ \A q \in RunIds : audit[q] \subseteq audit'[q]
    BY <1>2, <2>1 DEF CreateCommit, TypeOK
  <2> QED
    BY <1>2, <2>1, <2>2, <2>3, WriteIsAccounted, Literals DEF CreateCommit
<1>3. ASSUME NEW c \in Clients, CancelCommit(c) PROVE AccountInv'
  <2>1. client[c].run \in RunIds /\ Exists(client[c].run)
    BY <1>3, BusyRuns DEF CancelCommit, KeyInv, HoldersExist
  <2>2. Explains("CANCELLED") = "run.cancelled"
    BY DEF Explains
  <2>3. /\ "run.cancel" \in audit'[client[c].run]
        /\ \A q \in RunIds : audit[q] \subseteq audit'[q]
    BY <1>3, <2>1 DEF CancelCommit, TypeOK
  <2>4. client[c].run \in repeats \/ "run.create" \in audit'[client[c].run]
    BY <2>1, <2>3 DEF AccountInv
  <2>5. /\ status' = [status EXCEPT ![client[c].run] = "CANCELLED"]
        /\ outbox' = [outbox EXCEPT ![client[c].run] = Append(@, Explains("CANCELLED"))]
        /\ repeats' = repeats
    BY <1>3, <2>2 DEF CancelCommit
  <2>6. "CANCELLED" \in Status \ {"NONE", "AGGREGATING"}
    BY Literals
  <2> HIDE DEF Explains
  <2> QED
    BY <2>1, <2>3, <2>4, <2>5, <2>6, WriteIsAccounted
<1>4. ASSUME NEW w \in Workers, StartCommit(w) \/ CompleteCommit(w) \/ FailCommit(w)
      PROVE  AccountInv'
  <2>1. worker[w].run \in RunIds /\ Exists(worker[w].run)
    BY <1>4, BusyRuns, Literals DEF StartCommit, CompleteCommit, FailCommit, KeyInv, HoldersExist
  <2>2. PICK s \in {"RUNNING", "COMPLETED", "FAILED"} :
          SetStatus(worker[w].run, worker[w].seen, s, Explains(s))
    BY <1>4 DEF StartCommit, CompleteCommit, FailCommit, Explains
  <2>3. worker[w].run \in repeats \/ "run.create" \in audit[worker[w].run]
    BY <2>1 DEF AccountInv
  <2> QED
    BY <2>1, <2>2, <2>3, WriteIsAccounted, Literals DEF SetStatus
<1>5. ASSUME NEW c \in Clients, AggregateCommit(c) PROVE AccountInv'
  BY <1>5, AggregationIsAccounted, BusyRuns DEF AggregateCommit, KeyInv, HoldersExist
<1>6. ASSUME NEW w \in Workers, Commit(w) PROVE AccountInv'
  BY <1>6, AggregationIsAccounted, BusyRuns, Literals DEF Commit, KeyInv, HoldersExist
<1>7. ASSUME NEW c \in Clients, RepeatCommit(c) PROVE AccountInv'
  <2>1. client[c].run \in RunIds
    BY <1>7, BusyRuns DEF RepeatCommit
  <2>2. /\ \A q \in RunIds : q # client[c].run => status'[q] = status[q]
        /\ status'[client[c].run] = "QUEUED" /\ repeats' = repeats \cup {client[c].run}
        /\ audit' = audit /\ outbox' = outbox
    BY <1>7, <2>1 DEF RepeatCommit, TypeOK
  <2> QED
    BY <2>1, <2>2 DEF AccountInv, Recorded, Sent, Exists, TypeOK
<1> QED
  BY <1>1, <1>2, <1>3, <1>4, <1>5, <1>6, <1>7
  DEF Next, ClientStep, CreateStep, RepeatStep, CancelStep, AggregateStep, WorkerStep, Work, vars,
      db, CreateReplay, CreateBegin, CreateConflict, RepeatBegin, CancelBegin, AggregateBegin,
      AggregatePublish, ClientAbort, Poll, Load, StartBegin, Infer, Record, Evaluate, Aggregate,
      Publish, CompleteBegin, FailBegin, StepFails, Crash, Restart

LEMMA AccountsCorrect == Spec => []AccountInv
<1>1. Init => AccountInv
  BY DEF Init, AccountInv, Recorded, Exists
<1> QED
  BY <1>1, AccountStep, KeysCorrect, TypeCorrect, PTL DEF Spec

----------------------------------------------------------------------------
(* A single worker executes a run once.  The invariant has to say that a   *)
(* run the poll can still find has no execution behind it, and that the    *)
(* worker holds no run that has ended, nor starts one that has started.    *)

Ends == {"run.completed", "run.failed"}
Without(r, events) == \A i \in DOMAIN outbox[r] : outbox[r][i] \notin events

FreshIsUntouched ==
  \A r \in RunIds : status[r] \in {"NONE", "QUEUED"} => Without(r, Ends \cup {"run.started"})
Unstarted == {"load", "start", "starting"}
HeldIsOpen ==
  \A w \in Workers :
    /\ worker[w].pc \in Busy => Without(worker[w].run, Ends)
    /\ worker[w].pc \in Unstarted => Without(worker[w].run, {"run.started"})

ExecutedInv == AtMostOneExecution /\ FreshIsUntouched /\ HeldIsOpen

SeesOther(w) ==
  /\ worker[w].pc = "starting" => worker[w].seen # "RUNNING"
  /\ worker[w].pc = "completing" => worker[w].seen # "COMPLETED"
  /\ worker[w].pc = "failing" => worker[w].seen # "FAILED"
SeenIsOther == \A w \in Workers : SeesOther(w)

SoloInv == ExecutedInv /\ SeenIsOther

LEMMA WithoutAppended ==
  ASSUME TypeOK, NEW r \in RunIds, NEW e \in Event,
         outbox' = [outbox EXCEPT ![r] = Append(@, e)],
         NEW q \in RunIds, NEW events, Without(q, events), q = r => e \notin events
  PROVE  \A i \in DOMAIN outbox'[q] : outbox'[q][i] \notin events
<1>1. CASE q # r
  BY <1>1, AppendedEvent DEF Without
<1>2. CASE q = r
  <2> SUFFICES ASSUME NEW i \in 1 .. Len(outbox[r]) + 1 PROVE outbox'[r][i] \notin events
    BY <1>2, AppendedEvent
  <2>1. CASE i = Len(outbox[r]) + 1
    BY <1>2, <2>1, AppendedEvent
  <2>2. CASE i \in 1 .. Len(outbox[r])
    BY <1>2, <2>2, AppendedEvent DEF Without
  <2> QED
    BY <2>1, <2>2, AppendedEvent
<1> QED
  BY <1>1, <1>2

\* A start is appended only to a run without one, an end to one without an end.
LEMMA EventKeepsOnce ==
  ASSUME TypeOK, AtMostOneExecution, NEW r \in RunIds, NEW e \in Event,
         outbox' = [outbox EXCEPT ![r] = Append(@, e)],
         e = "run.started" => Without(r, {"run.started"}), e \in Ends => Without(r, Ends)
  PROVE  AtMostOneExecution'
<1> SUFFICES ASSUME NEW q \in RunIds, NEW i \in DOMAIN outbox'[q], NEW j \in DOMAIN outbox'[q], i < j
             PROVE  /\ ~(outbox'[q][i] = "run.started" /\ outbox'[q][j] = "run.started")
                    /\ ~({outbox'[q][i], outbox'[q][j]} \subseteq Ends)
  BY DEF AtMostOneExecution, Ends
<1>a. /\ Len(outbox[r]) \in Nat /\ DOMAIN outbox[r] = 1 .. Len(outbox[r])
      /\ q = r => i \in 1 .. Len(outbox[r]) + 1 /\ j \in 1 .. Len(outbox[r]) + 1
  BY AppendedEvent
<1>1. CASE q # r
  BY <1>1, AppendedEvent DEF AtMostOneExecution, Ends
<1>2. CASE q = r /\ j \in 1 .. Len(outbox[r])
  BY <1>2, AppendedEvent DEF AtMostOneExecution, Ends
<1>3. CASE q = r /\ j = Len(outbox[r]) + 1
  <2>1. i \in DOMAIN outbox[r] /\ outbox'[r][i] = outbox[r][i] /\ outbox'[r][j] = e
    BY <1>3, <1>a, AppendedEvent
  <2> QED
    BY <1>3, <2>1 DEF Without
<1> QED
  BY <1>1, <1>2, <1>3, <1>a

\* A worker at work keeps its run when it goes to another step.
LEMMA GotoFields ==
  ASSUME TypeOK, NEW w \in Workers, worker[w].pc \in Busy, NEW p, Goto(w, p)
  PROVE  /\ worker'[w].pc = p /\ worker'[w].run = worker[w].run
         /\ worker'[w].seen = worker[w].seen /\ worker'[w].rows = worker[w].rows
<1>1. worker[w] \in [pc: Busy, run: RunIds, seen: Status, rows: SUBSET Metrics]
  BY DEF TypeOK, WorkerState, Busy, Step
<1> QED
  BY <1>1 DEF Goto, TypeOK

LEMMA ReadsFields ==
  ASSUME TypeOK, NEW w \in Workers, worker[w].pc \in Busy, NEW p, Reads(w, p)
  PROVE  /\ worker'[w].pc = p /\ worker'[w].run = worker[w].run
         /\ worker'[w].seen = status[worker[w].run] /\ worker'[w].rows = worker[w].rows
<1>1. worker[w] \in [pc: Busy, run: RunIds, seen: Status, rows: SUBSET Metrics]
  BY DEF TypeOK, WorkerState, Busy, Step
<1> QED
  BY <1>1 DEF Reads, TypeOK

\* A step that enqueues nothing, makes no run fresh, and moves workers on, or to
\* a run that is queued.
LEMMA ExecutedFrame ==
  ASSUME TypeOK, ExecutedInv, outbox' = outbox,
         \A r \in RunIds : status'[r] \in {"NONE", "QUEUED"} => status[r] \in {"NONE", "QUEUED"},
         \A w \in Workers : worker'[w].pc \in Busy =>
           \/ worker'[w].run \in RunIds /\ status[worker'[w].run] = "QUEUED"
           \/ /\ worker[w].pc \in Busy /\ worker'[w].run = worker[w].run
              /\ worker'[w].pc \in Unstarted => worker[w].pc \in Unstarted
  PROVE  ExecutedInv'
<1>1. AtMostOneExecution'
  BY DEF ExecutedInv, AtMostOneExecution
<1>2. FreshIsUntouched'
  BY DEF ExecutedInv, FreshIsUntouched, Without
<1>3. HeldIsOpen'
  <2> SUFFICES ASSUME NEW w \in Workers, worker'[w].pc \in Busy
               PROVE  /\ Without(worker'[w].run, Ends)
                      /\ worker'[w].pc \in Unstarted =>
                           Without(worker'[w].run, {"run.started"})
    BY Literals DEF HeldIsOpen, Unstarted, Without
  <2>1. CASE worker'[w].run \in RunIds /\ status[worker'[w].run] = "QUEUED"
    BY <2>1 DEF ExecutedInv, FreshIsUntouched, Without
  <2>2. CASE worker[w].pc \in Busy /\ worker'[w].run = worker[w].run
             /\ (worker'[w].pc \in Unstarted => worker[w].pc \in Unstarted)
    BY <2>2 DEF ExecutedInv, HeldIsOpen
  <2> QED
    BY <2>1, <2>2
<1> QED
  BY <1>1, <1>2, <1>3 DEF ExecutedInv

\* Requests leave the workers alone.
LEMMA RequestsMoveNoWorker ==
  ASSUME NEW c \in Clients, ClientStep(c)
  PROVE  worker' = worker
BY DEF ClientStep, CreateStep, RepeatStep, CancelStep, AggregateStep, CreateReplay, CreateBegin,
       CreateCommit, CreateConflict, RepeatBegin, RepeatCommit, CancelBegin, CancelCommit,
       AggregateBegin, AggregatePublish, AggregateCommit, ClientAbort

\* And workers leave the requests alone.
LEMMA WorkersLeaveRequests ==
  ASSUME NEW w \in Workers, WorkerStep(w)
  PROVE  client' = client
BY DEF WorkerStep, Work, WorkerOnly, Poll, Load, StartBegin, StartCommit, Infer, Record, Evaluate,
       Aggregate, Publish, Commit, CompleteBegin, CompleteCommit, FailBegin, FailCommit, StepFails,
       Crash, Restart

\* A request's event starts and ends nothing.
LEMMA RequestKeepsExecuted ==
  ASSUME TypeOK, KeyInv, ExecutedInv, NEW c \in Clients, ClientStep(c)
  PROVE  ExecutedInv'
<1>1. worker' = worker
  BY RequestsMoveNoWorker
<1>2. CASE CreateCommit(c) \/ CancelCommit(c)
  <2> DEFINE r == client[c].run
  <2>1. r \in RunIds /\ (CreateCommit(c) => status[r] = "NONE")
    BY <1>2, BusyRuns DEF CreateCommit, CancelCommit, KeyInv, CreatorsApart, Inserting, Exists
  <2>2. PICK e \in {"run.queued", "run.cancelled"} : outbox' = [outbox EXCEPT ![r] = Append(@, e)]
    BY <1>2 DEF CreateCommit, CancelCommit
  <2>3. e \in Event /\ e \notin Ends \cup {"run.started"}
    BY <2>2, Literals DEF Ends
  <2>4. AtMostOneExecution'
    BY <2>1, <2>2, <2>3, EventKeepsOnce DEF ExecutedInv
  <2>5. FreshIsUntouched'
    <3>1. \A q \in RunIds : status'[q] \in {"NONE", "QUEUED"} => status[q] \in {"NONE", "QUEUED"}
      BY <1>2, <2>1 DEF CreateCommit, CancelCommit, TypeOK
    <3> QED
      BY <2>1, <2>2, <2>3, <3>1, WithoutAppended DEF ExecutedInv, FreshIsUntouched, Without
  <2>6. HeldIsOpen'
    <3> SUFFICES ASSUME NEW w \in Workers, worker[w].pc \in Busy
                 PROVE  LET q == worker[w].run IN
                        /\ \A i \in DOMAIN outbox'[q] : outbox'[q][i] \notin Ends
                        /\ worker[w].pc \in Unstarted =>
                             \A i \in DOMAIN outbox'[q] : outbox'[q][i] \notin {"run.started"}
      BY <1>1, Literals DEF HeldIsOpen, Unstarted, Without
    <3>1. worker[w].run \in RunIds
      BY BusyRuns
    <3>2. /\ Without(worker[w].run, Ends)
          /\ worker[w].pc \in Unstarted => Without(worker[w].run, {"run.started"})
      BY DEF ExecutedInv, HeldIsOpen
    <3> QED
      BY <2>1, <2>2, <2>3, <3>1, <3>2, WithoutAppended
  <2> QED
    BY <2>4, <2>5, <2>6 DEF ExecutedInv
<1>3. CASE ~CreateCommit(c) /\ ~CancelCommit(c)
  <2>1. outbox' = outbox
    BY <1>3 DEF ClientStep, CreateStep, RepeatStep, CancelStep, AggregateStep, CreateReplay,
       CreateBegin, CreateConflict, RepeatBegin, RepeatCommit, CancelBegin, AggregateBegin,
       AggregatePublish, AggregateCommit, ClientAbort, db
  <2>2. RepeatCommit(c) => client[c].run \in RunIds /\ status[client[c].run] = "NONE"
    BY BusyRuns DEF RepeatCommit, KeyInv, CreatorsApart, Inserting, Exists
  <2>3. \A r \in RunIds : status'[r] \in {"NONE", "QUEUED"} => status[r] \in {"NONE", "QUEUED"}
    BY <1>3, <2>2 DEF TypeOK, ClientStep, CreateStep, RepeatStep, CancelStep, AggregateStep,
       CreateReplay, CreateBegin, CreateConflict, RepeatBegin, RepeatCommit, CancelBegin,
       AggregateBegin, AggregatePublish, AggregateCommit, ClientAbort, CommitRows, db
  <2> QED
    BY <1>1, <2>1, <2>3, ExecutedFrame
<1> QED
  BY <1>2, <1>3

\* A worker at work has the run it had before, or has polled one that is queued.
LEMMA WorkerRuns ==
  ASSUME TypeOK, NEW w \in Workers, WorkerStep(w)
  PROVE  worker'[w].pc \in Busy =>
           \/ Poll(w) /\ worker'[w].run \in RunIds /\ status[worker'[w].run] = "QUEUED"
           \/ /\ worker[w].pc \in Busy /\ worker'[w].run = worker[w].run
              /\ worker'[w].pc \in Unstarted => worker[w].pc \in Unstarted
<1>1. CASE Poll(w)
  <2>1. PICK r \in RunIds : status[r] = "QUEUED" /\ worker' = [worker EXCEPT ![w] = Taken(r)]
    BY <1>1 DEF Poll, Pollable
  <2> QED
    BY <1>1, <2>1 DEF TypeOK, Taken
<1>2. ASSUME worker[w].pc \in Busy, NEW p, Goto(w, p) \/ Reads(w, p),
             p \in Unstarted => worker[w].pc \in Unstarted
      PROVE  /\ worker'[w].run = worker[w].run
             /\ worker'[w].pc \in Unstarted => worker[w].pc \in Unstarted
  BY <1>2, GotoFields, ReadsFields
<1>3. CASE Aggregate(w)
  <2>1. worker[w] \in [pc: Busy, run: RunIds, seen: Status, rows: SUBSET Metrics]
    BY <1>3, Literals DEF Aggregate, TypeOK, WorkerState, Busy, Step
  <2> QED
    BY <1>3, <2>1, Literals DEF Aggregate, TypeOK, Unstarted
<1>4. CASE Crash(w)
  BY <1>4 DEF Crash, IdleWorker, TypeOK, Busy, Step
<1>5. CASE Restart(w)
  <2>1. worker \in [Workers -> WorkerState]
    BY DEF TypeOK
  <2> QED
    BY <1>5, <2>1 DEF Restart, Goto, WorkerState, Busy, Step
<1>6. CASE \/ Load(w) \/ StartBegin(w) \/ Infer(w) \/ Record(w) \/ Evaluate(w) \/ Publish(w)
           \/ Commit(w) \/ CompleteBegin(w) \/ FailBegin(w) \/ StepFails(w)
  <2>1. worker[w].pc \in Busy
    BY <1>6, Literals DEF Load, StartBegin, Infer, Record, Evaluate, Publish, Commit, CompleteBegin,
       FailBegin, StepFails
  <2>2. PICK p : (Goto(w, p) \/ Reads(w, p)) /\ (p \in Unstarted => worker[w].pc \in Unstarted)
    BY <1>6 DEF Load, StartBegin, Infer, Record, Evaluate, Publish, Commit, CompleteBegin,
       FailBegin, StepFails, Unstarted
  <2> QED
    BY <1>2, <2>1, <2>2
<1>7. CASE StartCommit(w) \/ CompleteCommit(w) \/ FailCommit(w)
  <2>1. worker[w].pc \in Busy
    BY <1>7, Literals DEF StartCommit, CompleteCommit, FailCommit
  <2> QED
    BY <1>2, <1>7, <2>1 DEF StartCommit, CompleteCommit, FailCommit, IdleWorker, TypeOK, Busy, Step,
       Unstarted
<1>8. \/ Poll(w) \/ Aggregate(w) \/ Crash(w) \/ Restart(w)
      \/ Load(w) \/ StartBegin(w) \/ Infer(w) \/ Record(w) \/ Evaluate(w) \/ Publish(w)
      \/ Commit(w) \/ CompleteBegin(w) \/ FailBegin(w) \/ StepFails(w)
      \/ StartCommit(w) \/ CompleteCommit(w) \/ FailCommit(w)
  BY DEF WorkerStep, Work
<1> QED
  BY <1>1, <1>3, <1>4, <1>5, <1>6, <1>7, <1>8

\* What a worker has read is not the status it will write: the event of that
\* status would have been enqueued, and its run has not been started, or ended.
LEMMA SeenStep ==
  ASSUME TypeOK, AccountInv, HeldIsOpen, SeenIsOther, [Next]_vars
  PROVE  SeenIsOther'
<1>1. ASSUME NEW w \in Workers, worker'[w] = worker[w] PROVE SeesOther(w)'
  BY <1>1 DEF SeenIsOther, SeesOther
<1>2. ASSUME NEW w \in Workers, worker'[w].pc \notin {"starting", "completing", "failing"}
      PROVE  SeesOther(w)'
  BY <1>2 DEF SeesOther
<1>3. ASSUME NEW w \in Workers, StartBegin(w) \/ CompleteBegin(w) \/ FailBegin(w)
      PROVE  SeesOther(w)'
  <2> DEFINE r == worker[w].run
  <2>1. worker[w].pc \in Busy
    BY <1>3, Literals DEF StartBegin, CompleteBegin, FailBegin
  <2>2. r \in RunIds /\ Recorded(r)
    BY <2>1, BusyRuns DEF AccountInv
  <2>3. Without(r, Ends) /\ (worker[w].pc = "start" => Without(r, {"run.started"}))
    BY <2>1 DEF HeldIsOpen, Unstarted
  <2>4. /\ status[r] \notin {"COMPLETED", "FAILED"}
        /\ worker[w].pc = "start" => status[r] # "RUNNING"
    BY <2>2, <2>3 DEF Recorded, Without, Sent, Explains, Ends
  <2>5. CASE StartBegin(w)
    <3>1. worker'[w].pc = "starting" /\ worker'[w].seen = status[r]
      BY <2>1, <2>5, ReadsFields DEF StartBegin
    <3> QED
      BY <2>4, <2>5, <3>1 DEF SeesOther, StartBegin
  <2>6. CASE CompleteBegin(w)
    <3>1. worker'[w].pc = "completing" /\ worker'[w].seen = status[r]
      BY <2>1, <2>6, ReadsFields DEF CompleteBegin
    <3> QED
      BY <2>4, <3>1 DEF SeesOther
  <2>7. CASE FailBegin(w)
    <3>1. worker'[w].pc = "failing" /\ worker'[w].seen = status[r]
      BY <2>1, <2>7, ReadsFields DEF FailBegin
    <3> QED
      BY <2>4, <3>1 DEF SeesOther
  <2> QED
    BY <1>3, <2>5, <2>6, <2>7
<1>4. ASSUME NEW w \in Workers, WorkerStep(w), ~StartBegin(w), ~CompleteBegin(w), ~FailBegin(w)
      PROVE  SeesOther(w)'
  <2>1. worker \in [Workers -> WorkerState]
    BY DEF TypeOK
  <2>2. CASE Poll(w) \/ Aggregate(w)
    BY <1>2, <2>1, <2>2 DEF Poll, Taken, Aggregate, WorkerState
  <2>3. CASE CompleteCommit(w) \/ FailCommit(w) \/ Crash(w)
    BY <1>2, <2>1, <2>3 DEF CompleteCommit, FailCommit, Crash, IdleWorker
  <2>4. ASSUME NEW p, Goto(w, p), p \notin {"starting", "completing", "failing"}
        PROVE  SeesOther(w)'
    BY <1>2, <2>1, <2>4 DEF Goto, WorkerState
  <2> QED
    BY <1>4, <2>2, <2>3, <2>4 DEF WorkerStep, Work, Load, StartCommit, Infer, Record, Evaluate,
       Publish, Commit, StepFails, Restart
<1>5. ASSUME NEW w \in Workers, WorkerStep(w) PROVE SeenIsOther'
  BY <1>1, <1>3, <1>4, <1>5, WorkerMovesItself DEF SeenIsOther
<1>6. CASE worker' = worker
  BY <1>1, <1>6 DEF SeenIsOther
<1> QED
  BY <1>5, <1>6, RequestsMoveNoWorker DEF Next, vars

\* The steps of the worker that enqueue: the run it starts has not been started,
\* and the run it ends has not ended.
LEMMA WritingKeepsExecuted ==
  ASSUME SingleWorker, TypeOK, KeyInv, ExecutedInv, SeenIsOther,
         NEW w \in Workers, StartCommit(w) \/ CompleteCommit(w) \/ FailCommit(w)
  PROVE  ExecutedInv'
<1> DEFINE r == worker[w].run
<1>1. worker[w].pc \in Busy /\ r \in RunIds
  BY BusyRuns, Literals DEF StartCommit, CompleteCommit, FailCommit
<1>2. PICK e \in {"run.started", "run.completed", "run.failed"} :
        /\ outbox' = [outbox EXCEPT ![r] = Append(@, e)]
        /\ e = "run.started" <=> StartCommit(w)
  BY DEF StartCommit, CompleteCommit, FailCommit, SetStatus
<1>3. e \in Event /\ (e \in Ends <=> e # "run.started")
  BY <1>2, Literals DEF Ends
<1>4. Without(r, Ends) /\ (e = "run.started" => Without(r, {"run.started"}))
  BY <1>1, <1>2 DEF ExecutedInv, HeldIsOpen, StartCommit, Unstarted
<1>5. AtMostOneExecution'
  BY <1>1, <1>2, <1>3, <1>4, EventKeepsOnce DEF ExecutedInv
<1>6. FreshIsUntouched'
  <2>1. \A q \in RunIds : status'[q] \in {"NONE", "QUEUED"} => q # r /\ status'[q] = status[q]
    <3>1. worker[w].seen # "RUNNING" \/ ~StartCommit(w)
      BY DEF SeenIsOther, SeesOther, StartCommit
    <3>2. worker[w].seen # "COMPLETED" \/ ~CompleteCommit(w)
      BY DEF SeenIsOther, SeesOther, CompleteCommit
    <3>3. worker[w].seen # "FAILED" \/ ~FailCommit(w)
      BY DEF SeenIsOther, SeesOther, FailCommit
    <3> QED
      BY <1>1, <3>1, <3>2, <3>3 DEF StartCommit, CompleteCommit, FailCommit, SetStatus, TypeOK
  <2> QED
    BY <1>1, <1>2, <1>3, <2>1, WithoutAppended DEF ExecutedInv, FreshIsUntouched, Without
<1>7. HeldIsOpen'
  <2>a. \A v \in Workers : v = w
    BY DEF SingleWorker
  <2>1. CASE StartCommit(w)
    <3>1. worker'[w].pc = "infer" /\ worker'[w].run = r
      BY <1>1, <2>1, GotoFields DEF StartCommit
    <3>2. \A i \in DOMAIN outbox'[r] : outbox'[r][i] \notin Ends
      BY <1>1, <1>2, <1>3, <1>4, <2>1, WithoutAppended
    <3> QED
      BY <2>a, <3>1, <3>2 DEF HeldIsOpen, Without, Unstarted
  <2>2. CASE CompleteCommit(w) \/ FailCommit(w)
    <3>1. worker'[w].pc = "idle"
      BY <2>2 DEF CompleteCommit, FailCommit, IdleWorker, TypeOK
    <3> QED
      BY <2>a, <3>1 DEF HeldIsOpen, Busy, Step, Unstarted
  <2> QED
    BY <2>1, <2>2
<1> QED
  BY <1>5, <1>6, <1>7 DEF ExecutedInv

\* The steps of the worker that enqueue nothing.
LEMMA MovingKeepsExecuted ==
  ASSUME SingleWorker, TypeOK, KeyInv, ExecutedInv,
         NEW w \in Workers, WorkerStep(w), ~StartCommit(w), ~CompleteCommit(w), ~FailCommit(w)
  PROVE  ExecutedInv'
<1>1. outbox' = outbox
  BY DEF WorkerStep, Work, db, Poll, Load, StartBegin, Infer, Record, Evaluate, Aggregate, Publish,
         Commit, CompleteBegin, FailBegin, StepFails, Crash, Restart
<1>2. \A r \in RunIds : status'[r] \in {"NONE", "QUEUED"} => status[r] \in {"NONE", "QUEUED"}
  BY DEF TypeOK, WorkerStep, Work, db, CommitRows, Poll, Load, StartBegin, Infer, Record, Evaluate,
         Aggregate, Publish, Commit, CompleteBegin, FailBegin, StepFails, Crash, Restart
<1>3. worker'[w].pc \in Busy =>
        \/ worker'[w].run \in RunIds /\ status[worker'[w].run] = "QUEUED"
        \/ /\ worker[w].pc \in Busy /\ worker'[w].run = worker[w].run
           /\ worker'[w].pc \in Unstarted => worker[w].pc \in Unstarted
  BY WorkerRuns
<1>4. \A v \in Workers : v = w
  BY DEF SingleWorker
<1> QED
  BY <1>1, <1>2, <1>3, <1>4, ExecutedFrame

\* With one worker, the invariant of its executions.
LEMMA ExecutionsCorrect ==
  ASSUME SingleWorker
  PROVE  Spec => []SoloInv
<1>1. Init => SoloInv
  BY DEF Init, ExecutedInv, AtMostOneExecution, FreshIsUntouched, HeldIsOpen, Without, IdleWorker,
         Busy, Step, Unstarted, SeenIsOther, SeesOther, SoloInv
<1>2. TypeOK /\ KeyInv /\ AccountInv /\ SoloInv /\ [Next]_vars => SoloInv'
  <2> SUFFICES ASSUME TypeOK, KeyInv, AccountInv, ExecutedInv, SeenIsOther, [Next]_vars
               PROVE  ExecutedInv' /\ SeenIsOther'
    BY DEF SoloInv
  <2>1. ASSUME NEW w \in Workers, WorkerStep(w) PROVE ExecutedInv'
    BY <2>1, WritingKeepsExecuted, MovingKeepsExecuted
  <2>2. ASSUME NEW c \in Clients, ClientStep(c) PROVE ExecutedInv'
    BY <2>2, RequestKeepsExecuted
  <2>3. ASSUME UNCHANGED vars PROVE ExecutedInv'
    BY <2>3 DEF vars, db, ExecutedInv, AtMostOneExecution, FreshIsUntouched, HeldIsOpen, Without
  <2>4. SeenIsOther'
    BY SeenStep DEF ExecutedInv
  <2>5. ExecutedInv'
    BY <2>1, <2>2, <2>3 DEF Next
  <2> QED
    BY <2>4, <2>5
<1> QED
  BY <1>1, <1>2, TypeCorrect, KeysCorrect, AccountsCorrect, PTL DEF Spec

\* With one worker, no run is started or ended twice, across crashes, restarts,
\* cancellations and aggregations.
THEOREM ExecutedOnce ==
  ASSUME SingleWorker
  PROVE  Spec => []AtMostOneExecution
<1>1. SoloInv => AtMostOneExecution
  BY DEF SoloInv, ExecutedInv
<1> QED
  BY <1>1, ExecutionsCorrect, PTL

----------------------------------------------------------------------------
(* The status and the last event agree when a worker has never read the    *)
(* status it writes, and nothing is enqueued for a run before its row, or    *)
(* while it waits as replay inserted it.                                     *)

Tells(r) == status[r] \notin {"NONE", "AGGREGATING"} /\ outbox[r] # <<>> =>
              LastEvent(r) = Explains(status[r])
Quiet(r) == ~Exists(r) \/ (r \in repeats /\ status[r] = "QUEUED") => outbox[r] = <<>>

LastInv == \A r \in RunIds : Tells(r) /\ Quiet(r)

LEMMA LastOfAppend ==
  ASSUME NEW u \in Seq(Event), NEW e \in Event
  PROVE  Append(u, e) # <<>> /\ Append(u, e)[Len(Append(u, e))] = e
<1>1. Len(Append(u, e)) = Len(u) + 1 /\ Len(Append(u, e)) # 0 /\ Append(u, e)[Len(u) + 1] = e
  OBVIOUS
<1>2. Len(<<>>) = 0
  OBVIOUS
<1> QED
  BY <1>1, <1>2

\* A transaction that writes status s of run r and enqueues its event.
LEMMA WriteIsLast ==
  ASSUME TypeOK, LastInv, NEW r \in RunIds, NEW s \in Status \ {"NONE", "AGGREGATING"},
         status' = [status EXCEPT ![r] = s],
         outbox' = [outbox EXCEPT ![r] = Append(@, Explains(s))],
         repeats' = repeats, r \in repeats => s # "QUEUED"
  PROVE  LastInv'
<1>1. Explains(s) \in Event
  BY ExplainsEvent
<1>2. outbox'[r] = Append(outbox[r], Explains(s)) /\ status'[r] = s
  BY DEF TypeOK
<1>3. outbox'[r] # <<>> /\ outbox'[r][Len(outbox'[r])] = Explains(s)
  BY <1>1, <1>2, LastOfAppend DEF TypeOK
<1>4. \A q \in RunIds : q # r => status'[q] = status[q] /\ outbox'[q] = outbox[q]
  BY DEF TypeOK
<1> QED
  BY <1>2, <1>3, <1>4 DEF LastInv, Tells, Quiet, LastEvent, Exists

LEMMA LastStep ==
  TypeOK /\ KeyInv /\ AccountInv /\ SeenIsOther /\ LastInv /\ [Next]_vars => LastInv'
<1> SUFFICES ASSUME TypeOK, KeyInv, AccountInv, SeenIsOther, LastInv, [Next]_vars PROVE LastInv'
  OBVIOUS
<1>1. CASE status' = status /\ outbox' = outbox /\ repeats' = repeats
  BY <1>1 DEF LastInv, Tells, Quiet, LastEvent, Exists
<1>2. ASSUME NEW c \in Clients, CreateCommit(c) PROVE LastInv'
  <2>1. client[c].run \in RunIds /\ client[c].run \notin repeats
    BY <1>2, BusyRuns DEF CreateCommit, AccountInv, KeyInv, CreatorsApart, Inserting
  <2>2. Dispatched \in Status \ {"NONE", "AGGREGATING"} /\ Explains(Dispatched) = "run.queued"
    BY Literals DEF Dispatched, Explains
  <2>3. /\ status' = [status EXCEPT ![client[c].run] = Dispatched]
        /\ outbox' = [outbox EXCEPT ![client[c].run] = Append(@, Explains(Dispatched))]
        /\ repeats' = repeats
    BY <1>2, <2>2 DEF CreateCommit
  <2> HIDE DEF Explains, Dispatched
  <2> QED
    BY <2>1, <2>2, <2>3, WriteIsLast
<1>3. ASSUME NEW c \in Clients, CancelCommit(c) PROVE LastInv'
  <2>1. client[c].run \in RunIds
    BY <1>3, BusyRuns DEF CancelCommit
  <2>2. "CANCELLED" \in Status \ {"NONE", "AGGREGATING"} /\ Explains("CANCELLED") = "run.cancelled"
    BY Literals DEF Explains
  <2>3. /\ status' = [status EXCEPT ![client[c].run] = "CANCELLED"]
        /\ outbox' = [outbox EXCEPT ![client[c].run] = Append(@, Explains("CANCELLED"))]
        /\ repeats' = repeats
    BY <1>3, <2>2 DEF CancelCommit
  <2> HIDE DEF Explains
  <2> QED
    BY <2>1, <2>2, <2>3, WriteIsLast
<1>4. ASSUME NEW w \in Workers, StartCommit(w) \/ CompleteCommit(w) \/ FailCommit(w)
      PROVE  LastInv'
  <2>1. worker[w].run \in RunIds
    BY <1>4, BusyRuns, Literals DEF StartCommit, CompleteCommit, FailCommit
  <2>2. PICK s \in {"RUNNING", "COMPLETED", "FAILED"} :
          worker[w].seen # s /\ SetStatus(worker[w].run, worker[w].seen, s, Explains(s))
    BY <1>4 DEF StartCommit, CompleteCommit, FailCommit, Explains, SeenIsOther, SeesOther
  <2>3. /\ status' = [status EXCEPT ![worker[w].run] = s]
        /\ outbox' = [outbox EXCEPT ![worker[w].run] = Append(@, Explains(s))]
        /\ repeats' = repeats
    BY <2>2 DEF SetStatus
  <2>4. s \in Status \ {"NONE", "AGGREGATING"} /\ s # "QUEUED"
    BY Literals
  <2> HIDE DEF Explains
  <2> QED
    BY <2>1, <2>3, <2>4, WriteIsLast
<1>5. ASSUME NEW r \in RunIds, Exists(r), NEW s, NEW m, CommitRows(r, s, m),
             outbox' = outbox, repeats' = repeats
      PROVE  LastInv'
  <2>1. \A q \in RunIds : status'[q] = status[q] \/ (q = r /\ status'[q] = "AGGREGATING")
    BY <1>5 DEF CommitRows, TypeOK
  <2> QED
    BY <1>5, <2>1 DEF LastInv, Tells, Quiet, LastEvent, Exists
<1>6. ASSUME NEW c \in Clients, AggregateCommit(c) PROVE LastInv'
  BY <1>5, <1>6, BusyRuns DEF AggregateCommit, KeyInv, HoldersExist
<1>7. ASSUME NEW w \in Workers, Commit(w) PROVE LastInv'
  BY <1>5, <1>7, BusyRuns, Literals DEF Commit, KeyInv, HoldersExist
<1>8. ASSUME NEW c \in Clients, RepeatCommit(c) PROVE LastInv'
  <2> DEFINE r == client[c].run
  <2>1. r \in RunIds /\ ~Exists(r)
    BY <1>8, BusyRuns DEF RepeatCommit, KeyInv, CreatorsApart, Inserting
  <2>2. outbox'[r] = <<>> /\ outbox' = outbox
    BY <1>8, <2>1 DEF RepeatCommit, LastInv, Quiet
  <2>3. \A q \in RunIds : q # r => status'[q] = status[q] /\ (q \in repeats' <=> q \in repeats)
    BY <1>8, <2>1 DEF RepeatCommit, TypeOK
  <2> QED
    BY <2>1, <2>2, <2>3 DEF LastInv, Tells, Quiet, LastEvent, Exists
<1> QED
  BY <1>1, <1>2, <1>3, <1>4, <1>6, <1>7, <1>8
  DEF Next, ClientStep, CreateStep, RepeatStep, CancelStep, AggregateStep, WorkerStep, Work, vars,
      db, CreateReplay, CreateBegin, CreateConflict, RepeatBegin, CancelBegin, AggregateBegin,
      AggregatePublish, ClientAbort, Poll, Load, StartBegin, Infer, Record, Evaluate, Aggregate,
      Publish, CompleteBegin, FailBegin, StepFails, Crash, Restart

\* A status is accounted for: by audit rows and an event enqueued with it for any
\* number of writers, and by the last event when one worker executes runs.
THEOREM StatusAccounted == Spec => []StatusIsAccountedFor
<1>1. CASE SingleWorker
  <2>1. Init => LastInv
    BY DEF Init, LastInv, Tells, Quiet
  <2>2. SoloInv => SeenIsOther
    BY DEF SoloInv
  <2>3. Spec => []LastInv
    BY <1>1, <2>1, <2>2, LastStep, KeysCorrect, TypeCorrect, AccountsCorrect, ExecutionsCorrect, PTL
    DEF Spec
  <2>4. AccountInv /\ LastInv => StatusIsAccountedFor
    BY DEF AccountInv, LastInv, StatusIsAccountedFor, Recorded, Tells, Exists
  <2> QED
    BY <2>3, <2>4, AccountsCorrect, PTL
<1>2. CASE ~SingleWorker
  <2>1. AccountInv => StatusIsAccountedFor
    BY <1>2 DEF AccountInv, StatusIsAccountedFor, Recorded, Exists
  <2> QED
    BY <2>1, AccountsCorrect, PTL
<1> QED
  BY <1>1, <1>2

----------------------------------------------------------------------------
\* Nothing is known of a run that has no row, and whoever may publish results
\* of a run comes after its start.
Running == Step \ Unstarted

StageInv ==
  /\ \A r \in RunIds : ~Exists(r) => ~Started(r) /\ results[r] = <<>>
  /\ \A r \in RunIds : artifacts[r] # {} => Started(r)
  /\ \A w \in Workers, r \in RunIds :
       worker[w].pc \in Running /\ worker[w].run = r => Started(r)
  /\ \A c \in Clients, r \in RunIds :
       client[c].op \in {"publish", "commit"} /\ client[c].run = r => Started(r)

\* An event starts its own run only, and only if it is that event.
LEMMA StartedAppended ==
  ASSUME TypeOK, NEW r \in RunIds, NEW e \in Event,
         outbox' = [outbox EXCEPT ![r] = Append(@, e)], NEW q \in RunIds
  PROVE  Started(q)' <=> Started(q) \/ (q = r /\ e = "run.started")
<1>1. CASE q # r
  BY <1>1, AppendedEvent DEF Started, Sent
<1>2. CASE q = r
  <2> DEFINE n == Len(outbox[r])
  <2>a. n \in Nat /\ DOMAIN outbox[r] = 1 .. n /\ DOMAIN outbox'[r] = 1 .. n + 1
    BY AppendedEvent
  <2>b. outbox'[r][n + 1] = e /\ \A i \in 1 .. n : outbox'[r][i] = outbox[r][i]
    BY AppendedEvent
  <2> HIDE DEF n
  <2>1. Started(r) => Started(r)'
    BY <2>a, <2>b DEF Started, Sent
  <2>2. e = "run.started" => Started(r)'
    BY <2>a, <2>b DEF Started, Sent
  <2>3. Started(r)' => Started(r) \/ e = "run.started"
    <3> SUFFICES ASSUME NEW i \in 1 .. n + 1, outbox'[r][i] = "run.started", e # "run.started"
                 PROVE  Started(r)
      BY <2>a DEF Started, Sent
    <3>1. i \in 1 .. n
      BY <2>a, <2>b
    <3> QED
      BY <2>a, <2>b, <3>1 DEF Started, Sent
  <2> QED
    BY <1>2, <2>1, <2>2, <2>3
<1> QED
  BY <1>1, <1>2

\* Only a worker's start starts a run, and no step undoes it.
LEMMA StartStarts ==
  ASSUME TypeOK, NEW w \in Workers, StartCommit(w), NEW q \in RunIds
  PROVE  Started(q)' <=> Started(q) \/ q = worker[w].run
BY BusyRuns, Literals, StartedAppended DEF StartCommit, SetStatus

LEMMA OthersStartNothing ==
  ASSUME TypeOK, NEW q \in RunIds,
         \/ \E w \in Workers : WorkerStep(w) /\ ~StartCommit(w)
         \/ \E c \in Clients : ClientStep(c)
         \/ UNCHANGED vars
  PROVE  Started(q)' <=> Started(q)
<1>1. ASSUME NEW w \in Workers, CompleteCommit(w) \/ FailCommit(w) PROVE Started(q)' <=> Started(q)
  <2>1. worker[w].run \in RunIds
    BY <1>1, BusyRuns, Literals DEF CompleteCommit, FailCommit
  <2> QED
    BY <1>1, <2>1, Literals, StartedAppended DEF CompleteCommit, FailCommit, SetStatus
<1>2. ASSUME NEW c \in Clients, CreateCommit(c) \/ CancelCommit(c) PROVE Started(q)' <=> Started(q)
  <2>1. client[c].run \in RunIds
    BY <1>2, BusyRuns DEF CreateCommit, CancelCommit
  <2> QED
    BY <1>2, <2>1, Literals, StartedAppended DEF CreateCommit, CancelCommit
<1>3. CASE outbox' = outbox
  BY <1>3 DEF Started, Sent
<1> QED
  BY <1>1, <1>2, <1>3
  DEF ClientStep, CreateStep, RepeatStep, CancelStep, AggregateStep, WorkerStep, Work, vars, db,
      CreateReplay, CreateBegin, CreateConflict, RepeatBegin, RepeatCommit, CancelBegin,
      AggregateBegin, AggregatePublish, AggregateCommit, ClientAbort, Poll, Load, StartBegin,
      Infer, Record, Evaluate, Aggregate, Publish, Commit, CompleteBegin, FailBegin, StepFails,
      Crash, Restart

LEMMA StartsLast ==
  ASSUME TypeOK, [Next]_vars, NEW q \in RunIds, Started(q)
  PROVE  Started(q)'
BY StartStarts, OthersStartNothing DEF Next

\* Rows of results appear only where a worker or a request commits them, and
\* artifacts where a worker that runs has stored them.
LEMMA WorkerKeepsStages ==
  ASSUME TypeOK, KeyInv, StageInv, NEW w \in Workers, WorkerStep(w), [Next]_vars
  PROVE  StageInv'
<1>1. \A r \in RunIds : Started(r) => Started(r)'
  BY StartsLast
<1>2. worker[w].pc \in Busy => worker[w].run \in RunIds /\ Exists(worker[w].run)
  BY BusyRuns DEF KeyInv, HoldersExist
<1>3. \A r \in RunIds : Exists(r) => Exists(r)'
  BY WorkersInsertNothing
<1>4. ASSUME NEW r \in RunIds, ~Exists(r)' PROVE ~Started(r)' /\ results'[r] = <<>>
  <2>1. ~Exists(r) /\ (worker[w].pc \in Busy => r # worker[w].run)
    BY <1>2, <1>3, <1>4
  <2>2. results'[r] = results[r]
    BY <2>1, Literals DEF TypeOK, WorkerStep, Work, SetStatus, CommitRows, db, Poll, Load,
       StartBegin, StartCommit, Infer, Record, Evaluate, Aggregate, Publish, Commit,
       CompleteBegin, CompleteCommit, FailBegin, FailCommit, StepFails, Crash, Restart
  <2>3. ~Started(r)'
    <3>1. CASE StartCommit(w)
      BY <2>1, <3>1, StartStarts, Literals DEF StageInv, StartCommit
    <3>2. CASE ~StartCommit(w)
      BY <2>1, <3>2, OthersStartNothing DEF StageInv
    <3> QED
      BY <3>1, <3>2
  <2> QED
    BY <2>1, <2>2, <2>3 DEF StageInv
<1>5. ASSUME NEW r \in RunIds, artifacts'[r] # {} PROVE Started(r)'
  <2>1. CASE artifacts'[r] = artifacts[r]
    BY <1>1, <1>5, <2>1 DEF StageInv
  <2>2. CASE artifacts'[r] # artifacts[r]
    <3>1. worker[w].pc \in Running /\ r = worker[w].run
      BY <2>2 DEF TypeOK, Running, Unstarted, Step, WorkerStep, Work, SetStatus, store, Poll,
         Load, StartBegin, StartCommit, Infer, Record, Evaluate, Aggregate, Publish, Commit,
         CompleteBegin, CompleteCommit, FailBegin, FailCommit, StepFails, Crash, Restart
    <3> QED
      BY <1>1, <3>1 DEF StageInv
  <2> QED
    BY <2>1, <2>2
<1>6. worker'[w].pc \in Running =>
        \/ worker[w].pc \in Running /\ worker'[w].run = worker[w].run
        \/ StartCommit(w) /\ worker'[w].run = worker[w].run
  <2>1. worker'[w].pc \in Running /\ worker[w].pc \notin Running => StartCommit(w)
    <3>1. worker[w] \in WorkerState
      BY DEF TypeOK
    <3> QED
      BY <3>1 DEF TypeOK, WorkerState, Running, Unstarted, Busy, Step, WorkerStep, Work, Goto,
         Reads, Taken, IdleWorker, Poll, Load, StartBegin, StartCommit, Infer, Record, Evaluate,
         Aggregate, Publish, Commit, CompleteBegin, CompleteCommit, FailBegin, FailCommit,
         StepFails, Crash, Restart
  <2>2. worker'[w].pc \in Running => worker'[w].run = worker[w].run
    <3>1. worker'[w].pc \in Running => ~Poll(w) /\ worker'[w].pc \in Busy
      BY DEF Poll, Taken, TypeOK, Running, Unstarted, Busy, Step
    <3> QED
      BY <3>1, WorkerRuns
  <2> QED
    BY <2>1, <2>2
<1>7. ASSUME NEW v \in Workers, NEW r \in RunIds, worker'[v].pc \in Running, worker'[v].run = r
      PROVE  Started(r)'
  <2>1. CASE v # w
    <3>1. worker'[v] = worker[v]
      BY <2>1, WorkerMovesItself
    <3> QED
      BY <1>1, <1>7, <3>1 DEF StageInv
  <2>2. CASE v = w
    BY <1>1, <1>6, <1>7, <2>2, StartStarts DEF StageInv
  <2> QED
    BY <2>1, <2>2
<1>8. client' = client
  BY WorkersLeaveRequests
<1> QED
  BY <1>1, <1>4, <1>5, <1>7, <1>8 DEF StageInv

\* Requests insert rows that have not started, and aggregate runs that have.
LEMMA RequestKeepsStages ==
  ASSUME TypeOK, KeyInv, StageInv, NEW c \in Clients, ClientStep(c)
  PROVE  StageInv'
<1>1. \A r \in RunIds : Started(r)' <=> Started(r)
  BY OthersStartNothing
<1>2. worker' = worker
  BY RequestsMoveNoWorker
<1>3. \A r \in RunIds : artifacts'[r] = artifacts[r]
  BY DEF ClientStep, CreateStep, RepeatStep, CancelStep, AggregateStep, CreateReplay, CreateBegin,
     CreateCommit, CreateConflict, RepeatBegin, RepeatCommit, CancelBegin, CancelCommit,
     AggregateBegin, AggregatePublish, AggregateCommit, ClientAbort, store
<1>4. ASSUME NEW r \in RunIds, ~Exists(r)' PROVE ~Exists(r) /\ results'[r] = results[r]
  <2>1. AggregateCommit(c) => client[c].run \in RunIds /\ Exists(client[c].run)
    BY BusyRuns DEF AggregateCommit, KeyInv, HoldersExist
  <2>2. CreateCommit(c) \/ CancelCommit(c) => client[c].run \in RunIds
    BY BusyRuns DEF CreateCommit, CancelCommit
  <2> QED
    BY <1>4, <2>1, <2>2 DEF TypeOK, Exists, Dispatched, CommitRows, db, ClientStep, CreateStep,
       RepeatStep, CancelStep, AggregateStep, CreateReplay, CreateBegin, CreateCommit,
       CreateConflict, RepeatBegin, RepeatCommit, CancelBegin, CancelCommit, AggregateBegin,
       AggregatePublish, AggregateCommit, ClientAbort
<1>5. ASSUME NEW d \in Clients, NEW r \in RunIds,
             client'[d].op \in {"publish", "commit"}, client'[d].run = r
      PROVE  Started(r)
  <2>1. CASE client'[d] = client[d]
    BY <1>5, <2>1 DEF StageInv
  <2>2. CASE AggregateBegin(c, r)
    BY <2>2 DEF AggregateBegin, StageInv, Pass
  <2>3. CASE AggregatePublish(c) /\ d = c
    <3>1. client[c] \in ClientState \ {IdleClient}
      BY <2>3 DEF AggregatePublish, TypeOK, IdleClient
    <3>2. client'[c].run = client[c].run
      BY <2>3, <3>1 DEF AggregatePublish, TypeOK, ClientState
    <3> QED
      BY <1>5, <2>3, <3>2 DEF AggregatePublish, StageInv
  <2> QED
    BY <1>5, <2>1, <2>2, <2>3 DEF TypeOK, IdleClient, Request, Pass, ClientStep, CreateStep,
       RepeatStep, CancelStep, AggregateStep, CreateReplay, CreateBegin, CreateCommit,
       CreateConflict, RepeatBegin, RepeatCommit, CancelBegin, CancelCommit, AggregateBegin,
       AggregatePublish, AggregateCommit, ClientAbort
<1> QED
  BY <1>1, <1>2, <1>3, <1>4, <1>5 DEF StageInv

LEMMA StagesCorrect == Spec => []StageInv
<1>1. Init => StageInv
  BY DEF Init, StageInv, Exists, Started, Sent, IdleClient, IdleWorker, Running, Step
<1>2. TypeOK /\ KeyInv /\ StageInv /\ [Next]_vars => StageInv'
  <2> SUFFICES ASSUME TypeOK, KeyInv, StageInv, [Next]_vars PROVE StageInv'
    OBVIOUS
  <2>1. CASE UNCHANGED vars
    BY <2>1 DEF vars, db, store, StageInv, Exists, Started, Sent
  <2> QED
    BY <2>1, WorkerKeepsStages, RequestKeepsStages DEF Next
<1> QED
  BY <1>1, <1>2, TypeCorrect, KeysCorrect, PTL DEF Spec

----------------------------------------------------------------------------
(* With one worker, the history is ahead of the rows.  A pass publishes    *)
(* before it commits, and all passes over a run carry the same rows: the   *)
(* worker evaluates a run before anything has been loaded of it.           *)

Passing == {"publish", "commit"}

\* Where metrics are not evaluated yet nothing is loaded or inserted, and these
\* are the runs that the worker takes as far as the evaluation.
UnmeasuredInv ==
  /\ \A r \in RunIds : "metric_results" \notin artifacts[r] =>
       results[r] = <<>> /\ \A c \in Clients : client[c].op \in Passing => client[c].run # r
  /\ \A w \in Workers : worker[w].pc \in {"infer", "record", "evaluate"} =>
       "metric_results" \notin artifacts[worker[w].run]

\* What has been loaded and what has been inserted is what was evaluated.
LoadedInv ==
  /\ \A c \in Clients : client[c].op \in Passing => client[c].rows = measured[client[c].run]
  /\ \A w \in Workers : worker[w].pc \in Passing => worker[w].rows = measured[worker[w].run]
  /\ \A r \in RunIds : \A i \in DOMAIN results[r] : results[r][i] = measured[r]

\* Rows that are inserted, or are about to be, have been published.
Covered(r) == Listed(r, measured[r]) \subseteq history[r] \cup blob[r]
CoveredInv ==
  /\ \A c \in Clients : client[c].op = "commit" => Covered(client[c].run)
  /\ \A w \in Workers : worker[w].pc = "commit" => Covered(worker[w].run)
  /\ \A r \in RunIds : results[r] # <<>> => Covered(r)

HistoryInv == UnmeasuredInv /\ LoadedInv /\ CoveredInv

\* What a pass that is committed adds to the rows.
LEMMA CommittedPass ==
  ASSUME TypeOK, NEW r \in RunIds, NEW s, NEW m \in SUBSET Metrics, CommitRows(r, s, m)
  PROVE  /\ \A i \in DOMAIN results'[r] :
              \/ i \in DOMAIN results[r] /\ results'[r][i] = results[r][i]
              \/ results'[r][i] = m
         /\ \A q \in RunIds : q # r => results'[q] = results[q]
<1>1. results[r] \in Seq(SUBSET Metrics)
  BY DEF TypeOK
<1>2. results'[r] = Append(results[r], m)
  BY DEF CommitRows, TypeOK
<1>3. \A i \in DOMAIN Append(results[r], m) :
        \/ i \in DOMAIN results[r] /\ Append(results[r], m)[i] = results[r][i]
        \/ Append(results[r], m)[i] = m
  BY <1>1
<1> QED
  BY <1>2, <1>3 DEF CommitRows, TypeOK

\* A pass that is published: its run is covered by it, and no other is uncovered.
LEMMA PublishCovers ==
  ASSUME TypeOK, NEW r \in RunIds, PersistHistory(r, measured[r]), measured' = measured
  PROVE  Covered(r)' /\ \A q \in RunIds : Covered(q) => Covered(q)'
<1>1. /\ Listed(r, measured[r]) \subseteq history'[r] \cup blob'[r]
      /\ \A q \in RunIds : q # r => history'[q] = history[q] /\ blob'[q] = blob[q]
  BY DEF PersistHistory, TypeOK
<1> QED
  BY <1>1 DEF Covered, Listed

\* Where a worker, and where a request, comes to hold rows.
LEMMA WorkerLoads ==
  ASSUME TypeOK, NEW w \in Workers, WorkerStep(w), ~Publish(w), worker'[w].pc \in Passing
  PROVE  Aggregate(w) /\ worker'[w].pc = "publish" /\ worker'[w].rows = measured[worker'[w].run]
<1>1. worker[w] \in WorkerState
  BY DEF TypeOK
<1>2. Aggregate(w)
  BY <1>1 DEF TypeOK, WorkerState, Passing, Busy, Step, WorkerStep, Work, Goto, Reads, Taken,
     IdleWorker, Poll, Load, StartBegin, StartCommit, Infer, Record, Evaluate, Commit,
     CompleteBegin, CompleteCommit, FailBegin, FailCommit, StepFails, Crash, Restart
<1>3. worker[w] \in [pc: Busy, run: RunIds, seen: Status, rows: SUBSET Metrics]
  BY <1>2, Literals DEF Aggregate, TypeOK, WorkerState, Busy, Step
<1> QED
  BY <1>2, <1>3 DEF Aggregate, TypeOK

LEMMA RequestLoads ==
  ASSUME TypeOK, NEW c \in Clients, ClientStep(c), ~AggregatePublish(c), NEW d \in Clients,
         client'[d].op \in Passing
  PROVE  \/ client'[d] = client[d]
         \/ /\ client'[d].op = "publish" /\ client'[d].rows = measured[client'[d].run]
            /\ client'[d].run \in RunIds /\ "metric_results" \in artifacts[client'[d].run]
BY DEF TypeOK, Passing, IdleClient, Request, Pass, ClientStep, CreateStep, RepeatStep, CancelStep,
   AggregateStep, CreateReplay, CreateBegin, CreateCommit, CreateConflict, RepeatBegin,
   RepeatCommit, CancelBegin, CancelCommit, AggregateBegin, AggregateCommit, ClientAbort

LEMMA PublishFields ==
  ASSUME TypeOK, NEW c \in Clients, AggregatePublish(c)
  PROVE  /\ client'[c].op = "commit" /\ client'[c].run = client[c].run
         /\ client'[c].rows = client[c].rows
         /\ \A d \in Clients : d # c => client'[d] = client[d]
<1>1. client[c] \in [op: {"create", "repeat", "cancel", "publish", "commit"}, run: RunIds,
                     key: Keys \cup {NoKey}, seen: Status, rows: SUBSET Metrics]
  BY DEF AggregatePublish, TypeOK, ClientState, IdleClient
<1> QED
  BY <1>1 DEF AggregatePublish, TypeOK

\* The worker that starts a run finds nothing stored of it.
LEMMA StartFindsNothing ==
  ASSUME TypeOK, StageInv, ExecutedInv, NEW w \in Workers, StartCommit(w)
  PROVE  artifacts[worker[w].run] = {}
<1>1. worker[w].run \in RunIds
  BY BusyRuns, Literals DEF StartCommit
<1>2. Without(worker[w].run, {"run.started"})
  BY Literals DEF StartCommit, ExecutedInv, HeldIsOpen, Unstarted
<1> QED
  BY <1>1, <1>2 DEF StageInv, Started, Sent, Without

LEMMA WorkerKeepsUnmeasured ==
  ASSUME SingleWorker, TypeOK, VisibleInv, StageInv, ExecutedInv, UnmeasuredInv,
         NEW w \in Workers, WorkerStep(w), [Next]_vars
  PROVE  UnmeasuredInv'
<1>1. client' = client /\ \A r \in RunIds : artifacts[r] \subseteq artifacts'[r]
  BY WorkersLeaveRequests, NothingIsRemoved
<1>2. ASSUME NEW r \in RunIds, "metric_results" \notin artifacts'[r]
      PROVE  results'[r] = results[r]
  <2>1. CASE Commit(w)
    <3>1. artifacts[worker[w].run] = Stored
      BY <2>1 DEF VisibleInv, Relies, Commit
    <3>2. worker[w].run \in RunIds /\ r # worker[w].run
      BY <1>1, <1>2, <2>1, <3>1, BusyRuns, Literals DEF Commit, Stored
    <3> QED
      BY <2>1, <3>2 DEF Commit, CommitRows, TypeOK
  <2>2. CASE ~Commit(w)
    BY <2>2 DEF WorkerStep, Work, SetStatus, db, Poll, Load, StartBegin, StartCommit, Infer,
       Record, Evaluate, Aggregate, Publish, CompleteBegin, CompleteCommit, FailBegin, FailCommit,
       StepFails, Crash, Restart
  <2> QED
    BY <2>1, <2>2
<1>3. ASSUME worker'[w].pc \in {"infer", "record", "evaluate"}
      PROVE  "metric_results" \notin artifacts'[worker'[w].run]
  <2>1. StartCommit(w) \/ Infer(w) \/ Record(w)
    <3>1. worker[w] \in WorkerState
      BY DEF TypeOK
    <3> QED
      BY <1>3, <3>1 DEF TypeOK, WorkerState, Busy, Step, WorkerStep, Work, Goto, Reads, Taken,
         IdleWorker, Poll, Load, StartBegin, Evaluate, Aggregate, Publish, Commit, CompleteBegin,
         CompleteCommit, FailBegin, FailCommit, StepFails, Crash, Restart
  <2>2. worker'[w].run = worker[w].run /\ worker[w].run \in RunIds
    BY <2>1, GotoFields, BusyRuns, Literals DEF StartCommit, Infer, Record
  <2>3. "metric_results" \notin artifacts[worker[w].run]
    BY <2>1, StartFindsNothing DEF UnmeasuredInv, Infer, Record
  <2> QED
    BY <2>1, <2>2, <2>3 DEF StartCommit, Infer, Record, store, TypeOK
<1> QED
  BY <1>1, <1>2, <1>3 DEF UnmeasuredInv, SingleWorker

LEMMA RequestKeepsUnmeasured ==
  ASSUME TypeOK, UnmeasuredInv, NEW c \in Clients, ClientStep(c)
  PROVE  UnmeasuredInv'
<1>1. worker' = worker /\ artifacts' = artifacts
  BY RequestsMoveNoWorker DEF ClientStep, CreateStep, RepeatStep, CancelStep, AggregateStep,
     CreateReplay, CreateBegin, CreateCommit, CreateConflict, RepeatBegin, RepeatCommit,
     CancelBegin, CancelCommit, AggregateBegin, AggregatePublish, AggregateCommit, ClientAbort,
     store
<1>2. ASSUME NEW r \in RunIds, "metric_results" \notin artifacts[r]
      PROVE  results'[r] = results[r]
  <2>1. AggregateCommit(c) => r # client[c].run
    BY <1>2 DEF UnmeasuredInv, AggregateCommit, Passing
  <2> QED
    BY <2>1 DEF TypeOK, ClientStep, CreateStep, RepeatStep, CancelStep, AggregateStep,
       CreateReplay, CreateBegin, CreateCommit, CreateConflict, RepeatBegin, RepeatCommit,
       CancelBegin, CancelCommit, AggregateBegin, AggregatePublish, AggregateCommit, ClientAbort,
       CommitRows, db
<1>3. ASSUME NEW r \in RunIds, "metric_results" \notin artifacts[r], NEW d \in Clients,
             client'[d].op \in Passing
      PROVE  client'[d].run # r
  <2>1. CASE AggregatePublish(c)
    BY <1>3, <2>1, PublishFields DEF UnmeasuredInv, AggregatePublish, Passing
  <2>2. CASE ~AggregatePublish(c)
    BY <1>3, <2>2, RequestLoads DEF UnmeasuredInv
  <2> QED
    BY <2>1, <2>2
<1> QED
  BY <1>1, <1>2, <1>3 DEF UnmeasuredInv

\* The evaluation of a run of which nothing is loaded or inserted.
LEMMA EvaluateKeepsHistory ==
  ASSUME SingleWorker, TypeOK, HistoryInv, NEW w \in Workers, Evaluate(w)
  PROVE  LoadedInv' /\ CoveredInv'
<1> DEFINE r == worker[w].run
<1>1. r \in RunIds /\ results[r] = <<>> /\ worker'[w].pc = "aggregate"
      /\ \A c \in Clients : client[c].op \in Passing => client[c].run # r
  BY BusyRuns, GotoFields, Literals DEF Evaluate, HistoryInv, UnmeasuredInv
<1>2. /\ client' = client /\ results' = results /\ history' = history /\ blob' = blob
      /\ \A q \in RunIds : q # r => measured'[q] = measured[q]
  BY DEF Evaluate, WorkerOnly, db, TypeOK
<1>3. \A c \in Clients :
        client[c].op \in Passing => measured'[client[c].run] = measured[client[c].run]
  BY <1>1, <1>2, BusyRuns DEF Passing
<1>4. LoadedInv'
  BY <1>1, <1>2, <1>3 DEF HistoryInv, LoadedInv, Passing, SingleWorker
<1>5. CoveredInv'
  BY <1>1, <1>2, <1>3 DEF HistoryInv, CoveredInv, Covered, Listed, Passing, SingleWorker
<1> QED
  BY <1>4, <1>5

\* The run's pass is published by a request or by the worker.
LEMMA WorkerPublishes ==
  ASSUME SingleWorker, TypeOK, HistoryInv, NEW w \in Workers, Publish(w)
  PROVE  LoadedInv' /\ CoveredInv'
<1>1. /\ worker[w].run \in RunIds /\ worker[w].rows = measured[worker[w].run]
      /\ worker'[w].run = worker[w].run /\ worker'[w].rows = worker[w].rows
  BY BusyRuns, GotoFields, Literals DEF Publish, HistoryInv, LoadedInv, Passing
<1>2. client' = client /\ results' = results /\ measured' = measured
  BY DEF Publish, WorkerOnly, db
<1>3. Covered(worker[w].run)' /\ \A q \in RunIds : Covered(q) => Covered(q)'
  BY <1>1, <1>2, PublishCovers DEF Publish
<1>4. LoadedInv'
  BY <1>1, <1>2 DEF HistoryInv, LoadedInv, SingleWorker
<1>5. \A c \in Clients : client[c].op = "commit" => client[c].run \in RunIds
  BY BusyRuns
<1>6. CoveredInv'
  BY <1>1, <1>2, <1>3, <1>5 DEF HistoryInv, CoveredInv, SingleWorker
<1> QED
  BY <1>4, <1>6

LEMMA RequestPublishes ==
  ASSUME TypeOK, HistoryInv, NEW c \in Clients, AggregatePublish(c)
  PROVE  LoadedInv' /\ CoveredInv'
<1>1. /\ client[c].run \in RunIds /\ client[c].rows = measured[client[c].run]
      /\ client'[c].run = client[c].run /\ client'[c].rows = client[c].rows
      /\ \A d \in Clients : d # c => client'[d] = client[d]
  BY BusyRuns, PublishFields DEF AggregatePublish, HistoryInv, LoadedInv, Passing
<1>2. worker' = worker /\ results' = results /\ measured' = measured
  BY DEF AggregatePublish, db
<1>3. Covered(client[c].run)' /\ \A q \in RunIds : Covered(q) => Covered(q)'
  BY <1>1, <1>2, PublishCovers DEF AggregatePublish
<1>4. LoadedInv'
  BY <1>1, <1>2 DEF HistoryInv, LoadedInv
<1>5. /\ \A d \in Clients : client[d].op = "commit" => client[d].run \in RunIds
      /\ \A w \in Workers : worker[w].pc = "commit" => worker[w].run \in RunIds
  BY BusyRuns, Literals
<1>6. CoveredInv'
  BY <1>1, <1>2, <1>3, <1>5 DEF HistoryInv, CoveredInv
<1> QED
  BY <1>4, <1>6

\* A published pass is committed.
LEMMA RowsAreCovered ==
  ASSUME TypeOK, HistoryInv, NEW r \in RunIds, NEW s, CommitRows(r, s, measured[r]), Covered(r),
         store' = store,
         \A c \in Clients : client'[c].op \in Passing => client'[c] = client[c],
         \A w \in Workers : worker'[w].pc \in Passing => worker'[w] = worker[w]
  PROVE  LoadedInv' /\ CoveredInv'
<1>1. measured[r] \in SUBSET Metrics /\ measured' = measured /\ history' = history /\ blob' = blob
  BY DEF TypeOK, store
<1>2. /\ \A i \in DOMAIN results'[r] :
           \/ i \in DOMAIN results[r] /\ results'[r][i] = results[r][i]
           \/ results'[r][i] = measured[r]
      /\ \A q \in RunIds : q # r => results'[q] = results[q]
  BY <1>1, CommittedPass
<1>3. LoadedInv'
  BY <1>1, <1>2 DEF HistoryInv, LoadedInv
<1>4. CoveredInv'
  BY <1>1, <1>2 DEF HistoryInv, CoveredInv, Covered, Passing
<1> QED
  BY <1>3, <1>4

\* The other steps load what was evaluated, or nothing.
LEMMA OthersKeepHistory ==
  ASSUME HistoryInv, results' = results, measured' = measured, history' = history, blob' = blob,
         \A c \in Clients : client'[c].op \in Passing =>
           \/ client'[c] = client[c]
           \/ client'[c].op = "publish" /\ client'[c].rows = measured[client'[c].run],
         \A w \in Workers : worker'[w].pc \in Passing =>
           \/ worker'[w] = worker[w]
           \/ worker'[w].pc = "publish" /\ worker'[w].rows = measured[worker'[w].run]
  PROVE  LoadedInv' /\ CoveredInv'
<1>1. LoadedInv'
  BY DEF HistoryInv, LoadedInv
<1>2. CoveredInv'
  BY DEF HistoryInv, CoveredInv, Covered, Passing
<1> QED
  BY <1>1, <1>2

LEMMA WorkerKeepsHistory ==
  ASSUME SingleWorker, TypeOK, HistoryInv, NEW w \in Workers, WorkerStep(w)
  PROVE  LoadedInv' /\ CoveredInv'
<1>1. client' = client
  BY WorkersLeaveRequests
<1>2. \A v \in Workers : v = w
  BY DEF SingleWorker
<1>3. CASE Evaluate(w)
  BY <1>3, EvaluateKeepsHistory
<1>4. CASE Publish(w)
  BY <1>4, WorkerPublishes
<1>5. CASE Commit(w)
  <2>1. worker[w].run \in RunIds /\ worker'[w].pc = "complete"
    BY <1>5, BusyRuns, GotoFields, Literals DEF Commit
  <2>2. worker[w].rows = measured[worker[w].run] /\ Covered(worker[w].run)
    BY <1>5 DEF Commit, HistoryInv, LoadedInv, CoveredInv, Passing
  <2>3. CommitRows(worker[w].run, worker[w].seen, measured[worker[w].run]) /\ store' = store
    BY <1>5, <2>2 DEF Commit
  <2>4. \A v \in Workers : worker'[v].pc \in Passing => worker'[v] = worker[v]
    BY <1>2, <2>1 DEF Passing
  <2> QED
    BY <1>1, <2>1, <2>2, <2>3, <2>4, RowsAreCovered
<1>6. CASE ~Evaluate(w) /\ ~Publish(w) /\ ~Commit(w)
  <2>1. results' = results /\ measured' = measured /\ history' = history /\ blob' = blob
    BY <1>6 DEF WorkerStep, Work, SetStatus, db, store, Poll, Load, StartBegin, StartCommit, Infer,
       Record, Aggregate, CompleteBegin, CompleteCommit, FailBegin, FailCommit, StepFails, Crash,
       Restart
  <2>2. worker'[w].pc \in Passing =>
          worker'[w].pc = "publish" /\ worker'[w].rows = measured[worker'[w].run]
    BY <1>6, WorkerLoads
  <2> QED
    BY <1>1, <1>2, <2>1, <2>2, OthersKeepHistory
<1> QED
  BY <1>3, <1>4, <1>5, <1>6

LEMMA RequestKeepsHistory ==
  ASSUME TypeOK, HistoryInv, NEW c \in Clients, ClientStep(c)
  PROVE  LoadedInv' /\ CoveredInv'
<1>1. worker' = worker
  BY RequestsMoveNoWorker
<1>2. CASE AggregatePublish(c)
  BY <1>2, RequestPublishes
<1>3. CASE AggregateCommit(c)
  <2>1. client[c].run \in RunIds
    BY <1>3, BusyRuns DEF AggregateCommit
  <2>2. client[c].rows = measured[client[c].run] /\ Covered(client[c].run)
    BY <1>3 DEF AggregateCommit, HistoryInv, LoadedInv, CoveredInv, Passing
  <2>3. CommitRows(client[c].run, client[c].seen, measured[client[c].run]) /\ store' = store
    BY <1>3, <2>2 DEF AggregateCommit
  <2>4. \A d \in Clients : client'[d].op \in Passing => client'[d] = client[d]
    BY <1>3 DEF AggregateCommit, TypeOK, IdleClient, Passing
  <2> QED
    BY <1>1, <2>1, <2>2, <2>3, <2>4, RowsAreCovered
<1>4. CASE ~AggregatePublish(c) /\ ~AggregateCommit(c)
  <2>1. results' = results /\ measured' = measured /\ history' = history /\ blob' = blob
    BY <1>4 DEF ClientStep, CreateStep, RepeatStep, CancelStep, AggregateStep, CreateReplay,
       CreateBegin, CreateCommit, CreateConflict, RepeatBegin, RepeatCommit, CancelBegin,
       CancelCommit, AggregateBegin, ClientAbort, db, store
  <2>2. \A d \in Clients : client'[d].op \in Passing =>
          \/ client'[d] = client[d]
          \/ client'[d].op = "publish" /\ client'[d].rows = measured[client'[d].run]
    BY <1>4, RequestLoads
  <2> QED
    BY <1>1, <2>1, <2>2, OthersKeepHistory
<1> QED
  BY <1>2, <1>3, <1>4

LEMMA HistoryStep ==
  ASSUME SingleWorker, TypeOK, VisibleInv, StageInv, ExecutedInv, HistoryInv, [Next]_vars
  PROVE  HistoryInv'
<1>1. ASSUME NEW w \in Workers, WorkerStep(w) PROVE HistoryInv'
  BY <1>1, WorkerKeepsUnmeasured, WorkerKeepsHistory DEF HistoryInv
<1>2. ASSUME NEW c \in Clients, ClientStep(c) PROVE HistoryInv'
  BY <1>2, RequestKeepsUnmeasured, RequestKeepsHistory DEF HistoryInv
<1>3. CASE UNCHANGED vars
  <2>1. UnmeasuredInv'
    BY <1>3 DEF vars, db, store, HistoryInv, UnmeasuredInv
  <2>2. LoadedInv' /\ CoveredInv'
    BY <1>3 DEF vars, db, store, HistoryInv, LoadedInv, CoveredInv, Covered, Listed
  <2> QED
    BY <2>1, <2>2 DEF HistoryInv
<1> QED
  BY <1>1, <1>2, <1>3 DEF Next

\* With one worker, rows with per-example scores are in Postgres only when the
\* history or the object in its place has them, whatever passes of the endpoint
\* come in between.
THEOREM HistoryIsAhead == Spec => []ResultsHaveHistory
<1>1. CASE ~SingleWorker
  <2>1. ResultsHaveHistory
    BY <1>1 DEF ResultsHaveHistory
  <2> QED
    BY <2>1, PTL
<1>2. CASE SingleWorker
  <2>1. Init => HistoryInv
    BY DEF Init, HistoryInv, UnmeasuredInv, LoadedInv, CoveredInv, Passing, IdleClient, IdleWorker
  <2>2. TypeOK /\ VisibleInv /\ StageInv /\ SoloInv /\ HistoryInv /\ [Next]_vars => HistoryInv'
    BY <1>2, HistoryStep DEF SoloInv
  <2>3. HistoryInv => ResultsHaveHistory
    BY DEF HistoryInv, LoadedInv, CoveredInv, Covered, ResultsHaveHistory
  <2> QED
    BY <1>2, <2>1, <2>2, <2>3, TypeCorrect, VisibleCorrect, StagesCorrect, ExecutionsCorrect, PTL
    DEF Spec
<1> QED
  BY <1>1, <1>2

----------------------------------------------------------------------------
(* The quota.  Next to the runs the check counts there are those which a   *)
(* request has admitted and not inserted, and those which a worker has     *)
(* taken and may revive.  Only an admission adds to them, apart from what  *)
(* replay inserts.  A single worker revives only what was cancelled, so    *)
(* the other runs are counted, or admitted.                                *)

Admitted == {client[c].run : c \in {d \in Clients : client[d].op = "create"}}
Held == {worker[w].run : w \in {v \in Workers : worker[v].pc \in Busy}}
Places == Counted \cup Admitted \cup Held

QuotaInv ==
  /\ \A c \in Clients : client[c].op \notin {"publish", "commit"}
  /\ \A r \in RunIds : status[r] # "PENDING_SUBMISSION"
  /\ Cardinality(Places \ repeats) <= Quota - 1 + Cardinality(Clients) + Cardinality(Workers)

Raced == ((Counted \cap Uncancelled) \cup Admitted) \ repeats
RaceInv == Cardinality(Raced) <= Quota - 1 + Cardinality(Clients)

\* Cardinalities of a subset and of a union.
LEMMA Smaller ==
  ASSUME NEW S, IsFiniteSet(S), NEW T \in SUBSET S
  PROVE  Cardinality(T) \in Nat /\ Cardinality(S) \in Nat /\ Cardinality(T) <= Cardinality(S)
BY FS_Subset, FS_CardinalityType

LEMMA UnionSize ==
  ASSUME NEW S, IsFiniteSet(S), NEW T, IsFiniteSet(T)
  PROVE  IsFiniteSet(S \cup T) /\ Cardinality(S \cup T) <= Cardinality(S) + Cardinality(T)
<1>1. /\ IsFiniteSet(S \cup T)
      /\ Cardinality(S \cup T) = Cardinality(S) + Cardinality(T) - Cardinality(S \cap T)
  BY FS_Union, Zenon
<1>2. Cardinality(S) \in Nat /\ Cardinality(T) \in Nat /\ Cardinality(S \cap T) \in Nat
  BY Smaller
<1> QED
  BY <1>1, <1>2

\* There are no more admitted runs than clients, and no more taken runs than workers.
LEMMA AdmittedSize ==
  ASSUME IsFiniteSet(Clients)
  PROVE  IsFiniteSet(Admitted) /\ Cardinality(Admitted) <= Cardinality(Clients)
<1> DEFINE D == {d \in Clients : client[d].op = "create"}
<1>1. IsFiniteSet(D) /\ Cardinality(D) <= Cardinality(Clients)
  BY FS_Subset
<1>2. [c \in D |-> client[c].run] \in Surjection(D, Admitted)
  BY DEF Surjection, Admitted
<1>3. IsFiniteSet(Admitted) /\ Cardinality(Admitted) <= Cardinality(D)
  BY <1>1, <1>2, FS_Surjection
<1> HIDE DEF D
<1> QED
  BY <1>1, <1>3, FS_CardinalityType

LEMMA HeldSize ==
  ASSUME IsFiniteSet(Workers)
  PROVE  IsFiniteSet(Held) /\ Cardinality(Held) <= Cardinality(Workers)
<1> DEFINE D == {v \in Workers : worker[v].pc \in Busy}
<1>1. IsFiniteSet(D) /\ Cardinality(D) <= Cardinality(Workers)
  BY FS_Subset
<1>2. [w \in D |-> worker[w].run] \in Surjection(D, Held)
  BY DEF Surjection, Held
<1>3. IsFiniteSet(Held) /\ Cardinality(Held) <= Cardinality(D)
  BY <1>1, <1>2, FS_Surjection
<1> HIDE DEF D
<1> QED
  BY <1>1, <1>3, FS_CardinalityType

LEMMA CountedIsFinite == IsFiniteSet(Counted)
<1>1. IsFiniteSet(RunIds)
  BY FS_Interval, ConstantsAssumption DEF RunIds
<1> QED
  BY <1>1, FS_Subset DEF Counted

LEMMA PlacesAreFinite ==
  ASSUME IsFiniteSet(Clients), IsFiniteSet(Workers)
  PROVE  IsFiniteSet(Places)
<1>1. IsFiniteSet(Counted \cup Admitted)
  BY CountedIsFinite, AdmittedSize, UnionSize
<1> QED
  BY <1>1, HeldSize, UnionSize DEF Places

\* An admission finds the counted runs below the quota; with the admitted ones,
\* its own among them, they exceed it by less than one for each request.
LEMMA AdmissionRaces ==
  ASSUME IsFiniteSet(Clients), NEW c \in Clients, NEW k, CreateBegin(c, k)
  PROVE  /\ Counted' = Counted /\ Held' = Held /\ IsFiniteSet(Counted \cup Admitted')
         /\ Cardinality(Counted \cup Admitted') \in Nat
         /\ Cardinality(Counted \cup Admitted') <= Quota - 1 + Cardinality(Clients)
<1>1. Counted' = Counted /\ Held' = Held
  BY DEF CreateBegin, Counted, Held, db
<1>2. IsFiniteSet(Admitted') /\ Cardinality(Admitted') <= Cardinality(Clients)
  <2> DEFINE D == {d \in Clients : client'[d].op = "create"}
  <2>1. IsFiniteSet(D) /\ Cardinality(D) <= Cardinality(Clients)
    BY FS_Subset
  <2>2. [d \in D |-> client'[d].run] \in Surjection(D, Admitted')
    BY DEF Surjection, Admitted
  <2>3. IsFiniteSet(Admitted') /\ Cardinality(Admitted') <= Cardinality(D)
    BY <2>1, <2>2, FS_Surjection
  <2> HIDE DEF D
  <2> QED
    BY <2>1, <2>3, FS_CardinalityType
<1>3. Cardinality(Counted) \in Nat /\ Cardinality(Counted) < Quota
  BY CountedIsFinite, FS_CardinalityType DEF CreateBegin
<1>4. /\ IsFiniteSet(Counted \cup Admitted')
      /\ Cardinality(Counted \cup Admitted') <= Cardinality(Counted) + Cardinality(Admitted')
  BY <1>2, CountedIsFinite, UnionSize
<1>5. /\ Cardinality(Counted \cup Admitted') \in Nat /\ Cardinality(Admitted') \in Nat
      /\ Cardinality(Clients) \in Nat /\ Quota \in Nat
  BY <1>2, <1>4, FS_CardinalityType, ConstantsAssumption
<1> QED
  BY <1>1, <1>2, <1>3, <1>4, <1>5

LEMMA AdmissionKeepsQuota ==
  ASSUME IsFiniteSet(Clients), IsFiniteSet(Workers), TypeOK, QuotaInv,
         NEW c \in Clients, NEW k, CreateBegin(c, k)
  PROVE  QuotaInv' /\ RaceInv'
<1>1. Cardinality((Places \ repeats)') <= Quota - 1 + Cardinality(Clients) + Cardinality(Workers)
  <2>1. /\ IsFiniteSet(Places')
        /\ Cardinality(Places') <= Cardinality(Counted \cup Admitted') + Cardinality(Held)
    BY AdmissionRaces, HeldSize, UnionSize DEF Places
  <2>2. /\ Cardinality(Counted \cup Admitted') \in Nat /\ Cardinality(Held) \in Nat
        /\ Cardinality(Counted \cup Admitted') <= Quota - 1 + Cardinality(Clients)
        /\ Cardinality(Clients) \in Nat /\ Cardinality(Workers) \in Nat /\ Quota \in Nat
    BY AdmissionRaces, HeldSize, FS_CardinalityType, ConstantsAssumption
  <2>3. /\ Cardinality((Places \ repeats)') \in Nat /\ Cardinality(Places') \in Nat
        /\ Cardinality((Places \ repeats)') <= Cardinality(Places')
    BY <2>1, Smaller
  <2> QED
    BY <2>1, <2>2, <2>3, HeldSize
<1>2. RaceInv'
  <2>1. Raced' \subseteq Counted \cup Admitted'
    BY AdmissionRaces DEF Raced
  <2>2. /\ Cardinality(Raced') \in Nat
        /\ Cardinality(Raced') <= Cardinality(Counted \cup Admitted')
    BY <2>1, AdmissionRaces, Smaller
  <2>3. Cardinality(Clients) \in Nat /\ Quota \in Nat
    BY FS_CardinalityType, ConstantsAssumption
  <2>4. /\ Cardinality(Counted \cup Admitted') \in Nat
        /\ Cardinality(Counted \cup Admitted') <= Quota - 1 + Cardinality(Clients)
    BY AdmissionRaces
  <2>5. Cardinality(Raced') <= Quota - 1 + Cardinality(Clients)
    BY <2>2, <2>3, <2>4
  <2> QED
    BY <2>5 DEF RaceInv
<1>3. \A d \in Clients : client'[d].op \notin {"publish", "commit"}
  BY DEF CreateBegin, QuotaInv, TypeOK, Request
<1>4. \A r \in RunIds : status'[r] # "PENDING_SUBMISSION"
  BY DEF CreateBegin, QuotaInv, db
<1> QED
  BY <1>1, <1>2, <1>3, <1>4 DEF QuotaInv

\* A step that takes no further place.
LEMMA QuotaFrame ==
  ASSUME IsFiniteSet(Clients), IsFiniteSet(Workers), QuotaInv,
         (Places \ repeats)' \subseteq Places \ repeats,
         \A c \in Clients : client'[c].op \notin {"publish", "commit"},
         \A r \in RunIds : status'[r] # "PENDING_SUBMISSION"
  PROVE  QuotaInv'
<1>1. /\ Cardinality((Places \ repeats)') \in Nat /\ Cardinality(Places \ repeats) \in Nat
      /\ Cardinality((Places \ repeats)') <= Cardinality(Places \ repeats)
  <2>1. IsFiniteSet(Places \ repeats)
    BY PlacesAreFinite, FS_Subset
  <2> QED
    BY <2>1, Smaller
<1>2. Cardinality(Clients) \in Nat /\ Cardinality(Workers) \in Nat /\ Quota \in Nat
  BY FS_CardinalityType, ConstantsAssumption
<1>3. Cardinality((Places \ repeats)') <= Quota - 1 + Cardinality(Clients) + Cardinality(Workers)
  BY <1>1, <1>2 DEF QuotaInv
<1> QED
  BY <1>3 DEF QuotaInv

LEMMA RacedIsFinite ==
  ASSUME IsFiniteSet(Clients)
  PROVE  IsFiniteSet(Raced)
<1>1. IsFiniteSet(Counted \cup Admitted)
  BY CountedIsFinite, AdmittedSize, UnionSize
<1> QED
  BY <1>1, FS_Subset DEF Raced

LEMMA RaceFrame ==
  ASSUME IsFiniteSet(Clients), RaceInv, Raced' \subseteq Raced
  PROVE  RaceInv'
<1>1. IsFiniteSet(Raced)
  BY RacedIsFinite
<1>2. /\ Cardinality(Raced') \in Nat /\ Cardinality(Raced) \in Nat
      /\ Cardinality(Raced') <= Cardinality(Raced)
  BY <1>1, Smaller
<1>3. Cardinality(Clients) \in Nat /\ Quota \in Nat
  BY FS_CardinalityType, ConstantsAssumption
<1> QED
  BY <1>2, <1>3 DEF RaceInv

\* No event is taken back.
LEMMA CancelledIsKept ==
  ASSUME TypeOK, [Next]_vars
  PROVE  Uncancelled' \subseteq Uncancelled
<1>1. ASSUME NEW q \in RunIds, NEW e \in Event, outbox' = [outbox EXCEPT ![q] = Append(@, e)]
      PROVE  Uncancelled' \subseteq Uncancelled
  BY <1>1, SentAppended, Literals DEF Uncancelled
<1>2. CASE outbox' = outbox
  BY <1>2 DEF Uncancelled, Sent
<1>3. ASSUME NEW c \in Clients, CreateCommit(c) \/ CancelCommit(c)
      PROVE  Uncancelled' \subseteq Uncancelled
  <2>1. client[c].run \in RunIds
    BY <1>3, BusyRuns DEF CreateCommit, CancelCommit
  <2>2. PICK e \in Event : outbox' = [outbox EXCEPT ![client[c].run] = Append(@, e)]
    BY <1>3, Literals DEF CreateCommit, CancelCommit
  <2> QED
    BY <1>1, <2>1, <2>2
<1>4. ASSUME NEW w \in Workers, StartCommit(w) \/ CompleteCommit(w) \/ FailCommit(w)
      PROVE  Uncancelled' \subseteq Uncancelled
  <2>1. worker[w].run \in RunIds
    BY <1>4, BusyRuns, Literals DEF StartCommit, CompleteCommit, FailCommit
  <2>2. PICK e \in Event : outbox' = [outbox EXCEPT ![worker[w].run] = Append(@, e)]
    BY <1>4, Literals DEF StartCommit, CompleteCommit, FailCommit, SetStatus
  <2> QED
    BY <1>1, <2>1, <2>2
<1> QED
  BY <1>2, <1>3, <1>4
  DEF Next, ClientStep, CreateStep, RepeatStep, CancelStep, AggregateStep, WorkerStep, Work, vars,
      db, CreateReplay, CreateBegin, CreateConflict, RepeatBegin, RepeatCommit, CancelBegin,
      AggregateBegin, AggregatePublish, AggregateCommit, ClientAbort, Poll, Load, StartBegin,
      Infer, Record, Evaluate, Aggregate, Publish, Commit, CompleteBegin, FailBegin, StepFails,
      Crash, Restart

\* Of the other requests only the inserts change what is counted: the run of
\* create_run was admitted, that of replay is a repetition.
LEMMA RequestCounts ==
  ASSUME ~AggregatorServed, ~UseTemporal, TypeOK, QuotaInv, NEW c \in Clients, ClientStep(c),
         ~(\E k \in Keys \cup {NoKey} : CreateBegin(c, k))
  PROVE  /\ Counted' \subseteq Counted \cup Admitted \cup repeats'
         /\ Admitted' \subseteq Admitted /\ repeats \subseteq repeats'
         /\ \A d \in Clients : client'[d].op \notin {"publish", "commit"}
         /\ \A r \in RunIds : status'[r] # "PENDING_SUBMISSION"
<1>1. \A d \in Clients : d # c => client'[d] = client[d]
  BY DEF TypeOK, ClientStep, CreateStep, RepeatStep, CancelStep, AggregateStep, CreateReplay,
     CreateBegin, CreateCommit, CreateConflict, RepeatBegin, RepeatCommit, CancelBegin,
     CancelCommit, AggregateBegin, AggregatePublish, AggregateCommit, ClientAbort
<1>2. ~AggregatePublish(c) /\ ~AggregateCommit(c) /\ ~(\E r \in RunIds : AggregateBegin(c, r))
  BY DEF QuotaInv, AggregatePublish, AggregateCommit, AggregateBegin
<1>3. /\ client'[c] = client[c] \/ client'[c].op \in {"idle", "repeat", "cancel"}
      /\ CreateCommit(c) => client[c].op = "create"
  BY <1>2 DEF TypeOK, ClientStep, CreateStep, RepeatStep, CancelStep, AggregateStep,
     CreateReplay, CreateCommit, CreateConflict, RepeatBegin, RepeatCommit, CancelBegin,
     CancelCommit, ClientAbort, IdleClient, Request
<1>4. Admitted' \subseteq Admitted
  BY <1>1, <1>3 DEF Admitted
<1>5. \A r \in RunIds : \/ status'[r] = status[r] \/ status'[r] = "CANCELLED"
                        \/ CreateCommit(c) /\ r = client[c].run /\ status'[r] = "QUEUED"
                        \/ RepeatCommit(c) /\ r \in repeats' /\ status'[r] = "QUEUED"
  BY <1>2 DEF TypeOK, ClientStep, CreateStep, RepeatStep, CancelStep, AggregateStep,
     CreateReplay, CreateCommit, CreateConflict, RepeatBegin, RepeatCommit, CancelBegin,
     CancelCommit, ClientAbort, Dispatched, db
<1>6. Counted' \subseteq Counted \cup Admitted \cup repeats'
  BY <1>3, <1>5 DEF Counted, Admitted
<1>7. repeats \subseteq repeats'
  BY DEF ClientStep, CreateStep, RepeatStep, CancelStep, AggregateStep, CreateReplay, CreateBegin,
     CreateCommit, CreateConflict, RepeatBegin, RepeatCommit, CancelBegin, CancelCommit,
     AggregateBegin, AggregatePublish, AggregateCommit, ClientAbort, db
<1> QED
  BY <1>1, <1>3, <1>4, <1>5, <1>6, <1>7 DEF QuotaInv

LEMMA RequestKeepsQuota ==
  ASSUME IsFiniteSet(Clients), IsFiniteSet(Workers), ~AggregatorServed, ~UseTemporal,
         TypeOK, QuotaInv, NEW c \in Clients, ClientStep(c)
  PROVE  QuotaInv' /\ (RaceInv => RaceInv')
<1>1. ASSUME NEW k, CreateBegin(c, k) PROVE QuotaInv' /\ (RaceInv => RaceInv')
  BY <1>1, AdmissionKeepsQuota
<1>2. CASE ~(\E k \in Keys \cup {NoKey} : CreateBegin(c, k))
  <2>1. Held' = Held
    BY RequestsMoveNoWorker DEF Held
  <2>2. (Places \ repeats)' \subseteq Places \ repeats
    BY <1>2, <2>1, RequestCounts DEF Places
  <2>3. QuotaInv'
    BY <1>2, <2>2, RequestCounts, QuotaFrame
  <2>4. Uncancelled' \subseteq Uncancelled
    BY CancelledIsKept DEF Next
  <2>5. Raced' \subseteq Raced
    BY <1>2, <2>4, RequestCounts DEF Raced, Counted, Uncancelled
  <2> QED
    BY <2>3, <2>5, RaceFrame
<1> QED
  BY <1>1, <1>2

\* A worker writes the status of the run it holds, and inserts nothing.
LEMMA WorkerWrites ==
  ASSUME TypeOK, NEW w \in Workers, WorkerStep(w)
  PROVE  /\ repeats' = repeats
         /\ \A r \in RunIds : \/ status'[r] = status[r]
                              \/ /\ worker[w].pc \in Busy /\ r = worker[w].run
                                 /\ status'[r] # "PENDING_SUBMISSION"
<1>1. \A r \in RunIds : \/ status'[r] = status[r]
                        \/ /\ worker[w].pc \in Busy /\ r = worker[w].run
                           /\ status'[r] # "PENDING_SUBMISSION"
  BY Literals DEF TypeOK, WorkerStep, Work, SetStatus, CommitRows, db, Poll, Load, StartBegin,
     StartCommit, Infer, Record, Evaluate, Aggregate, Publish, Commit, CompleteBegin,
     CompleteCommit, FailBegin, FailCommit, StepFails, Crash, Restart
<1>2. repeats' = repeats
  BY DEF WorkerStep, Work, db, SetStatus, Poll, Load, StartBegin, StartCommit, Infer, Record,
     Evaluate, Aggregate, Publish, Commit, CompleteBegin, CompleteCommit, FailBegin, FailCommit,
     StepFails, Crash, Restart
<1> QED
  BY <1>1, <1>2

\* A worker takes runs that are counted, and revives no run but its own.
LEMMA WorkerKeepsQuota ==
  ASSUME IsFiniteSet(Clients), IsFiniteSet(Workers), TypeOK, QuotaInv,
         NEW w \in Workers, WorkerStep(w)
  PROVE  QuotaInv'
<1>1. client' = client
  BY WorkersLeaveRequests
<1>2. \A v \in Workers : v # w => worker'[v] = worker[v]
  BY WorkerMovesItself
<1>3. \A r \in RunIds : \/ status'[r] = status[r]
                        \/ /\ worker[w].pc \in Busy /\ r = worker[w].run
                           /\ status'[r] # "PENDING_SUBMISSION"
  BY WorkerWrites
<1>4. worker'[w].pc \in Busy =>
        \/ worker'[w].run \in Counted
        \/ worker[w].pc \in Busy /\ worker'[w].run = worker[w].run
  BY WorkerRuns DEF Counted
<1>5. Counted' \subseteq Counted \cup Held
  BY <1>3 DEF Counted, Held
<1>6. Held' \subseteq Counted \cup Held
  BY <1>2, <1>4 DEF Held
<1>7. Admitted' = Admitted
  BY <1>1 DEF Admitted
<1>8. repeats' = repeats
  BY WorkerWrites
<1>9. (Places \ repeats)' \subseteq Places \ repeats
  BY <1>5, <1>6, <1>7, <1>8 DEF Places
<1> QED
  BY <1>1, <1>3, <1>9, QuotaFrame DEF QuotaInv

\* The run a single worker holds has not ended: it is counted, or was cancelled.
LEMMA HeldIsCounted ==
  ASSUME TypeOK, KeyInv, AccountInv, HeldIsOpen, QuotaInv,
         NEW w \in Workers, worker[w].pc \in Busy
  PROVE  worker[w].run \in Counted \/ worker[w].run \notin Uncancelled
<1> PICK r \in RunIds : r = worker[w].run
  BY BusyRuns
<1>1. status[r] \in Status /\ status[r] \notin {"NONE", "PENDING_SUBMISSION"}
  BY DEF TypeOK, KeyInv, HoldersExist, Exists, QuotaInv
<1>2. ~Sent(r, "run.completed") /\ ~Sent(r, "run.failed")
  BY DEF HeldIsOpen, Without, Ends, Sent
<1>3. status[r] \in Terminal => Sent(r, Explains(status[r]))
  BY DEF AccountInv, Recorded, Terminal
<1>4. status[r] \notin {"COMPLETED", "FAILED"}
  BY <1>2, <1>3 DEF Explains, Terminal
<1>5. status[r] = "CANCELLED" => r \notin Uncancelled
  BY <1>3 DEF Explains, Terminal, Uncancelled
<1> QED
  BY <1>1, <1>4, <1>5 DEF Status, Terminal, Counted

LEMMA WorkerKeepsRace ==
  ASSUME IsFiniteSet(Clients), TypeOK, KeyInv, AccountInv, HeldIsOpen, QuotaInv, RaceInv,
         NEW w \in Workers, WorkerStep(w)
  PROVE  RaceInv'
<1>1. Counted' \subseteq Counted \cup {worker[w].run}
  BY WorkerWrites DEF Counted
<1>2. worker[w].pc \notin Busy => Counted' \subseteq Counted
  BY WorkerWrites DEF Counted
<1>3. Counted' \cap Uncancelled \subseteq Counted
  BY <1>1, <1>2, HeldIsCounted
<1>4. Uncancelled' \subseteq Uncancelled
  BY CancelledIsKept DEF Next
<1>5. Admitted' = Admitted
  BY WorkersLeaveRequests DEF Admitted
<1>6. Raced' \subseteq Raced
  BY <1>3, <1>4, <1>5, WorkerWrites DEF Raced
<1> QED
  BY <1>6, RaceFrame

\* Without the aggregation endpoint and Temporal, the active runs of a project
\* that replay has not inserted never exceed the quota by as much as one for each
\* request and each worker; with one worker those that nobody cancelled, not by as
\* much as one for each request.
THEOREM ExcessBounded ==
  ASSUME IsFiniteSet(Clients), Clients # {}, IsFiniteSet(Workers)
  PROVE  Spec => []ExcessIsBounded
<1> DEFINE Few == Cardinality(Active \ repeats)
                    <= Quota - 1 + Cardinality(Clients) + Cardinality(Workers)
           FewRaced == Cardinality((Active \cap Uncancelled) \ repeats)
                         <= Quota - 1 + Cardinality(Clients)
<1>1. CASE AggregatorServed \/ UseTemporal
  <2>1. ExcessIsBounded
    BY <1>1 DEF ExcessIsBounded
  <2> QED
    BY <2>1, PTL
<1>2. CASE ~AggregatorServed /\ ~UseTemporal
  <2>1. Init => QuotaInv /\ RaceInv
    <3> SUFFICES ASSUME Init PROVE QuotaInv /\ RaceInv
      OBVIOUS
    <3>1. Places \ repeats = {} /\ Raced = {}
      BY DEF Init, Places, Counted, Admitted, Held, Raced, IdleClient, IdleWorker, Busy, Step
    <3>2. /\ Cardinality(Clients) \in Nat /\ Cardinality(Clients) # 0
          /\ Cardinality(Workers) \in Nat /\ Cardinality({}) = 0
      BY FS_CardinalityType, FS_EmptySet
    <3>3. Cardinality(Places \ repeats) = 0 /\ Cardinality(Raced) = 0
      BY <3>1, <3>2
    <3>4. /\ Cardinality(Places \ repeats) <= Quota - 1 + Cardinality(Clients) + Cardinality(Workers)
          /\ Cardinality(Raced) <= Quota - 1 + Cardinality(Clients)
      BY <3>2, <3>3, ConstantsAssumption
    <3> QED
      BY <3>4 DEF QuotaInv, RaceInv, Init, IdleClient
  <2>2. TypeOK /\ QuotaInv /\ [Next]_vars => QuotaInv'
    <3> SUFFICES ASSUME TypeOK, QuotaInv, [Next]_vars PROVE QuotaInv'
      OBVIOUS
    <3>1. CASE UNCHANGED vars
      BY <3>1 DEF vars, db, QuotaInv, Places, Counted, Admitted, Held
    <3> QED
      BY <1>2, <3>1, RequestKeepsQuota, WorkerKeepsQuota DEF Next
  <2>3. TypeOK /\ KeyInv /\ AccountInv /\ SoloInv /\ QuotaInv /\ RaceInv /\ [Next]_vars => RaceInv'
    <3> SUFFICES ASSUME TypeOK, KeyInv, AccountInv, HeldIsOpen, QuotaInv, RaceInv, [Next]_vars
                 PROVE  RaceInv'
      BY DEF SoloInv, ExecutedInv
    <3>1. CASE UNCHANGED vars
      BY <3>1 DEF vars, db, RaceInv, Raced, Counted, Admitted, Uncancelled, Sent
    <3> QED
      BY <1>2, <3>1, RequestKeepsQuota, WorkerKeepsRace DEF Next
  <2>4. TypeOK /\ QuotaInv => Active = Counted
    BY DEF Active, Exists, QuotaInv, Counted, TypeOK, Status, Terminal
  <2>5. Cardinality(Clients) \in Nat /\ Cardinality(Workers) \in Nat /\ Quota \in Nat
    BY FS_CardinalityType, ConstantsAssumption
  <2>6. TypeOK /\ QuotaInv => Few
    <3> SUFFICES ASSUME TypeOK, QuotaInv PROVE Few
      OBVIOUS
    <3>1. Active \ repeats \subseteq Places \ repeats
      BY <2>4 DEF Places
    <3>2. IsFiniteSet(Places \ repeats)
      BY PlacesAreFinite, FS_Subset
    <3>3. /\ Cardinality(Active \ repeats) \in Nat /\ Cardinality(Places \ repeats) \in Nat
          /\ Cardinality(Active \ repeats) <= Cardinality(Places \ repeats)
      BY <3>1, <3>2, Smaller
    <3> QED
      BY <2>5, <3>3 DEF QuotaInv
  <2>7. TypeOK /\ QuotaInv /\ RaceInv => FewRaced
    <3> SUFFICES ASSUME TypeOK, QuotaInv, RaceInv PROVE FewRaced
      OBVIOUS
    <3>1. (Active \cap Uncancelled) \ repeats \subseteq Raced
      BY <2>4 DEF Raced
    <3>2. IsFiniteSet(Raced)
      BY RacedIsFinite
    <3>3. /\ Cardinality((Active \cap Uncancelled) \ repeats) \in Nat /\ Cardinality(Raced) \in Nat
          /\ Cardinality((Active \cap Uncancelled) \ repeats) <= Cardinality(Raced)
      BY <3>1, <3>2, Smaller
    <3> QED
      BY <2>5, <3>3 DEF RaceInv
  <2>8. Spec => [](TypeOK /\ QuotaInv)
    BY <2>1, <2>2, TypeCorrect, PTL DEF Spec
  <2>9. CASE ~SingleWorker
    <3>1. TypeOK /\ QuotaInv => ExcessIsBounded
      BY <2>6, <2>9 DEF ExcessIsBounded
    <3> QED
      BY <2>8, <3>1, PTL
  <2>10. CASE SingleWorker
    <3>1. TypeOK /\ QuotaInv /\ RaceInv => ExcessIsBounded
      BY <2>6, <2>7 DEF ExcessIsBounded
    <3> QED
      BY <2>1, <2>3, <2>8, <2>10, <3>1, KeysCorrect, AccountsCorrect, ExecutionsCorrect, PTL
      DEF Spec
  <2> QED
    BY <2>9, <2>10
<1> QED
  BY <1>1, <1>2

----------------------------------------------------------------------------
(* A cancelled run that nobody holds: creators hold only runs that do not  *)
(* exist yet, and the poll takes only queued ones.                         *)

LEMMA CancelledUntouched ==
  ASSUME TypeOK, KeyInv, [Next]_vars, NEW r \in RunIds, status[r] = "CANCELLED",
         ~HeldByWorker(r), ~HeldByAggregation(r)
  PROVE  status'[r] = "CANCELLED" /\ \A w \in Workers : worker'[w].run # r
<1>1. r # NoRun
  BY ConstantsAssumption DEF RunIds, NoRun
<1>2. ASSUME NEW w \in Workers, WorkerStep(w)
      PROVE  status'[r] = "CANCELLED" /\ \A v \in Workers : worker'[v].run # r
  <2>1. r # worker[w].run
    BY DEF HeldByWorker
  <2>2. status'[r] = "CANCELLED"
    BY <1>2, <2>1 DEF TypeOK, WorkerStep, Work, SetStatus, CommitRows, db, Poll, Load, StartBegin,
       StartCommit, Infer, Record, Evaluate, Aggregate, Publish, Commit, CompleteBegin,
       CompleteCommit, FailBegin, FailCommit, StepFails, Crash, Restart
  <2>3. worker'[w].run # r
    <3>1. CASE worker'[w].pc \in Busy
      BY <1>2, <2>1, <3>1, WorkerRuns
    <3>2. CASE worker'[w].pc \notin Busy
      <4>1. worker' \in [Workers -> WorkerState]
        BY TypeStep DEF TypeOK
      <4> QED
        BY <1>1, <3>2, <4>1 DEF WorkerState
    <3> QED
      BY <3>1, <3>2
  <2> QED
    BY <1>2, <2>2, <2>3, WorkerMovesItself DEF HeldByWorker
<1>3. ASSUME NEW c \in Clients, ClientStep(c)
      PROVE  status'[r] = "CANCELLED" /\ \A v \in Workers : worker'[v].run # r
  <2>1. CreateCommit(c) \/ RepeatCommit(c) => r # client[c].run
    BY DEF CreateCommit, RepeatCommit, KeyInv, CreatorsApart, Inserting, Exists
  <2>2. AggregateCommit(c) => r # client[c].run
    BY DEF AggregateCommit, HeldByAggregation
  <2>3. status'[r] = "CANCELLED"
    BY <1>3, <2>1, <2>2 DEF TypeOK, ClientStep, CreateStep, RepeatStep, CancelStep, AggregateStep,
       CreateReplay, CreateBegin, CreateCommit, CreateConflict, RepeatBegin, RepeatCommit,
       CancelBegin, CancelCommit, AggregateBegin, AggregatePublish, AggregateCommit, ClientAbort,
       CommitRows, db
  <2> QED
    BY <1>3, <2>3, RequestsMoveNoWorker DEF HeldByWorker
<1>4. CASE UNCHANGED vars
  BY <1>4 DEF vars, db, HeldByWorker
<1> QED
  BY <1>2, <1>3, <1>4 DEF Next

\* A run cancelled while no worker and no aggregation holds it stays cancelled
\* and is not picked up, for any number of workers.
THEOREM CancelledLeftAlone == Spec => CancelledIsNotPickedUp
<1>1. TypeOK /\ KeyInv /\ [Next]_vars =>
        [\A r \in RunIds :
           status[r] = "CANCELLED" /\ ~HeldByWorker(r) /\ ~HeldByAggregation(r)
           => status'[r] = "CANCELLED" /\ ~HeldByWorker(r)']_vars
  BY CancelledUntouched DEF HeldByWorker
<1> QED
  BY <1>1, TypeCorrect, KeysCorrect, PTL DEF Spec, CancelledIsNotPickedUp

----------------------------------------------------------------------------
(***************************************************************************)
(* RunLifecycle implements RunContract: the run pipeline, with its racing  *)
(* requests, workers and aggregations, binds a key once and takes a run    *)
(* from accepted to started to published results without a way back.       *)
(***************************************************************************)

Owners == [k \in Keys |-> OwnerOf(k)]
StagesOfRuns == [r \in RunIds |-> StageOf(r)]

\* A key's owner is the one run that has it, before and after a step.
LEMMA OwnerIsHolder ==
  ASSUME TypeOK, KeyInv, NEW k \in Keys
  PROVE  /\ \A r \in RunIds : HasKey(r, k) => OwnerOf(k) = r
         /\ (\A r \in RunIds : ~HasKey(r, k)) => OwnerOf(k) = NoRun
<1>1. \A r, q \in RunIds : HasKey(r, k) /\ HasKey(q, k) => r = q
  BY DEF KeyInv, KeysUnique, HasKey
<1> QED
  BY <1>1 DEF OwnerOf

LEMMA OwnerIsHolderNext ==
  ASSUME TypeOK', KeyInv', NEW k \in Keys
  PROVE  /\ \A r \in RunIds : HasKey(r, k)' => OwnerOf(k)' = r
         /\ (\A r \in RunIds : ~HasKey(r, k)') => OwnerOf(k)' = NoRun
<1>1. \A r, q \in RunIds : HasKey(r, k)' /\ HasKey(q, k)' => r = q
  BY DEF KeyInv, KeysUnique, HasKey, Exists
<1> QED
  BY <1>1 DEF OwnerOf

\* A step that inserts no row leaves the owners alone.
LEMMA OwnersStay ==
  ASSUME TypeOK, KeyInv, TypeOK', KeyInv', key' = key,
         \A r \in RunIds : Exists(r)' <=> Exists(r)
  PROVE  Owners' = Owners
<1> SUFFICES ASSUME NEW k \in Keys PROVE OwnerOf(k)' = OwnerOf(k)
  BY DEF Owners
<1>1. \A r \in RunIds : HasKey(r, k)' <=> HasKey(r, k)
  BY DEF HasKey
<1> QED
  BY <1>1, OwnerIsHolder, OwnerIsHolderNext

\* What decides the stage of a run.
LEMMA StageStays ==
  ASSUME NEW r \in RunIds, Exists(r)' <=> Exists(r), Started(r)' <=> Started(r),
         results'[r] = <<>> <=> results[r] = <<>>
  PROVE  StageOf(r)' = StageOf(r)
<1>1. CASE ~Exists(r)
  BY <1>1 DEF StageOf
<1>2. CASE Exists(r) /\ results[r] # <<>>
  BY <1>2 DEF StageOf
<1>3. CASE Exists(r) /\ results[r] = <<>> /\ Started(r)
  BY <1>3 DEF StageOf
<1>4. CASE Exists(r) /\ results[r] = <<>> /\ ~Started(r)
  BY <1>4 DEF StageOf
<1> QED
  BY <1>1, <1>2, <1>3, <1>4

\* An insert accepts a run: of create_run under a key that was free or under
\* none, of replay under none.
LEMMA InsertAccepts ==
  ASSUME TypeOK, KeyInv, StageInv, TypeOK', KeyInv', NEW c \in Clients,
         CreateCommit(c) \/ RepeatCommit(c)
  PROVE  Contract!Next
<1> PICK r \in RunIds : r = client[c].run
  BY BusyRuns DEF CreateCommit, RepeatCommit
<1> PICK k \in Keys \cup {NoKey} : k = IF CreateCommit(c) THEN client[c].key ELSE NoKey
  BY ClientFields DEF TypeOK
<1>1. ~Exists(r) /\ ~Started(r) /\ results[r] = <<>> /\ ~KeyTaken(k)
  <2>1. ~Exists(r)
    BY DEF CreateCommit, RepeatCommit, KeyInv, CreatorsApart, Inserting
  <2>2. ~KeyTaken(k)
    BY DEF CreateCommit, KeyTaken, HasKey
  <2> QED
    BY <2>1, <2>2 DEF StageInv
<1>2. /\ Exists(r)' /\ key'[r] = k
      /\ \A q \in RunIds : q # r => key'[q] = key[q] /\ (Exists(q)' <=> Exists(q))
  BY DEF CreateCommit, RepeatCommit, Dispatched, Exists, TypeOK
<1>3. results' = results /\ \A q \in RunIds : Started(q)' <=> Started(q)
  BY OthersStartNothing DEF CreateCommit, RepeatCommit, ClientStep, CreateStep, RepeatStep
<1>4. StagesOfRuns[r] = "absent" /\ StagesOfRuns' = [StagesOfRuns EXCEPT ![r] = "accepted"]
  <2>1. StageOf(r) = "absent"
    BY <1>1 DEF StageOf
  <2>2. StageOf(r)' = "accepted"
    BY <1>1, <1>2, <1>3 DEF StageOf
  <2>3. \A q \in RunIds : q # r => StageOf(q)' = StageOf(q)
    BY <1>2, <1>3, StageStays
  <2> QED
    BY <2>1, <2>2, <2>3 DEF StagesOfRuns
<1>5. \A q \in RunIds, j \in Keys : HasKey(q, j)' <=> HasKey(q, j) \/ (q = r /\ j = k)
  BY <1>1, <1>2, ConstantsAssumption DEF HasKey
<1>6. CASE k = NoKey
  <2>1. \A j \in Keys : OwnerOf(j)' = OwnerOf(j)
    BY <1>5, <1>6, ConstantsAssumption, OwnerIsHolder, OwnerIsHolderNext
  <2>2. Owners' = Owners
    BY <2>1 DEF Owners
  <2> QED
    BY <1>4, <1>6, <2>2 DEF Contract!Next, Contract!Accept, Owners, StagesOfRuns
<1>7. CASE k \in Keys
  <2>1. OwnerOf(k) = NoRun /\ OwnerOf(k)' = r
    BY <1>1, <1>5, <1>7, OwnerIsHolder, OwnerIsHolderNext DEF KeyTaken
  <2>2. \A j \in Keys : j # k => OwnerOf(j)' = OwnerOf(j)
    BY <1>5, OwnerIsHolder, OwnerIsHolderNext
  <2>3. Owners[k] = NoRun /\ Owners' = [Owners EXCEPT ![k] = r]
    BY <1>7, <2>1, <2>2 DEF Owners
  <2> QED
    BY <1>4, <1>7, <2>3 DEF Contract!Next, Contract!Accept, Owners, StagesOfRuns
<1> QED
  BY <1>6, <1>7

\* A worker's start starts the run, unless it was started before.
LEMMA StartRefines ==
  ASSUME TypeOK, KeyInv, StageInv, TypeOK', KeyInv', NEW w \in Workers, StartCommit(w)
  PROVE  Owners' = Owners /\ (StagesOfRuns' = StagesOfRuns \/ Contract!Next)
<1> PICK r \in RunIds : r = worker[w].run
  BY BusyRuns, Literals DEF StartCommit
<1>1. Exists(r)
  BY Literals DEF StartCommit, KeyInv, HoldersExist
<1>2. results' = results /\ key' = key /\ \A q \in RunIds : Exists(q)' <=> Exists(q)
  BY <1>1 DEF StartCommit, SetStatus, Exists, TypeOK
<1>3. Started(r)' /\ \A q \in RunIds : q # r => (Started(q)' <=> Started(q))
  BY StartStarts
<1>4. Owners' = Owners
  BY <1>2, OwnersStay
<1>5. \A q \in RunIds : q # r => StageOf(q)' = StageOf(q)
  BY <1>2, <1>3, StageStays
<1>6. CASE Started(r)
  <2>1. StageOf(r)' = StageOf(r)
    BY <1>2, <1>3, <1>6, StageStays
  <2> QED
    BY <1>4, <1>5, <2>1 DEF StagesOfRuns
<1>7. CASE results[r] # <<>>
  <2>1. StageOf(r) = "published" /\ StageOf(r)' = "published"
    BY <1>1, <1>2, <1>7 DEF StageOf
  <2> QED
    BY <1>4, <1>5, <2>1 DEF StagesOfRuns
<1>8. CASE ~Started(r) /\ results[r] = <<>>
  <2>1. StageOf(r) = "accepted"
    BY <1>1, <1>8 DEF StageOf
  <2>2. StageOf(r)' = "started"
    BY <1>1, <1>2, <1>3, <1>8 DEF StageOf
  <2>3. StagesOfRuns[r] = "accepted" /\ StagesOfRuns' = [StagesOfRuns EXCEPT ![r] = "started"]
    BY <1>5, <2>1, <2>2 DEF StagesOfRuns
  <2> QED
    BY <1>4, <2>3 DEF Contract!Next, Contract!Start, Owners, StagesOfRuns
<1> QED
  BY <1>6, <1>7, <1>8

\* The commit of an aggregation publishes results, unless there were some.
LEMMA RowsRefine ==
  ASSUME TypeOK, KeyInv, StageInv, TypeOK', KeyInv', NEW r \in RunIds, NEW s,
         NEW m \in SUBSET Metrics, CommitRows(r, s, m), Exists(r), Started(r),
         key' = key, outbox' = outbox
  PROVE  Owners' = Owners /\ (StagesOfRuns' = StagesOfRuns \/ Contract!Next)
<1>1. \A q \in RunIds : (Exists(q)' <=> Exists(q)) /\ (Started(q)' <=> Started(q))
  BY DEF CommitRows, Exists, Started, Sent, TypeOK
<1>2. results'[r] # <<>> /\ \A q \in RunIds : q # r => results'[q] = results[q]
  BY CommitRowsFills, CommittedPass
<1>3. Owners' = Owners
  BY <1>1, OwnersStay
<1>4. \A q \in RunIds : q # r => StageOf(q)' = StageOf(q)
  BY <1>1, <1>2, StageStays
<1>5. StageOf(r)' = "published"
  BY <1>1, <1>2 DEF StageOf
<1>6. CASE results[r] # <<>>
  <2>1. StageOf(r) = "published"
    BY <1>6 DEF StageOf
  <2> QED
    BY <1>3, <1>4, <1>5, <2>1 DEF StagesOfRuns
<1>7. CASE results[r] = <<>>
  <2>1. StageOf(r) = "started"
    BY <1>7 DEF StageOf
  <2>2. StagesOfRuns[r] = "started" /\ StagesOfRuns' = [StagesOfRuns EXCEPT ![r] = "published"]
    BY <1>4, <1>5, <2>1 DEF StagesOfRuns
  <2> QED
    BY <1>3, <2>2 DEF Contract!Next, Contract!Publish, Owners, StagesOfRuns
<1> QED
  BY <1>6, <1>7

\* Every other step stutters.
LEMMA OthersStutter ==
  ASSUME TypeOK, KeyInv, TypeOK', KeyInv', key' = key, results' = results,
         \A r \in RunIds : (Exists(r)' <=> Exists(r)) /\ (Started(r)' <=> Started(r))
  PROVE  Owners' = Owners /\ StagesOfRuns' = StagesOfRuns
BY OwnersStay, StageStays DEF StagesOfRuns

LEMMA WorkerRefines ==
  ASSUME TypeOK, KeyInv, StageInv, TypeOK', KeyInv', NEW w \in Workers, WorkerStep(w)
  PROVE  Owners' = Owners /\ (StagesOfRuns' = StagesOfRuns \/ Contract!Next)
<1>1. CASE StartCommit(w)
  BY <1>1, StartRefines
<1>2. CASE Commit(w)
  <2>1. worker[w].run \in RunIds /\ Exists(worker[w].run) /\ Started(worker[w].run)
    BY <1>2, BusyRuns, Literals DEF Commit, KeyInv, HoldersExist, StageInv, Running, Unstarted,
       Step
  <2>2. worker[w].rows \in SUBSET Metrics
    BY <1>2, BusyRuns, Literals DEF Commit
  <2> QED
    BY <1>2, <2>1, <2>2, RowsRefine DEF Commit
<1>3. CASE ~StartCommit(w) /\ ~Commit(w)
  <2>1. key' = key /\ results' = results
    BY <1>3 DEF WorkerStep, Work, db, SetStatus, Poll, Load, StartBegin, Infer, Record, Evaluate,
       Aggregate, Publish, CompleteBegin, CompleteCommit, FailBegin, FailCommit, StepFails, Crash,
       Restart
  <2>2. \A r \in RunIds : Exists(r)' <=> Exists(r)
    BY WorkersInsertNothing
  <2> QED
    BY <1>3, <2>1, <2>2, OthersStutter, OthersStartNothing
<1> QED
  BY <1>1, <1>2, <1>3

LEMMA RequestRefines ==
  ASSUME TypeOK, KeyInv, StageInv, TypeOK', KeyInv', NEW c \in Clients, ClientStep(c)
  PROVE  (Owners' = Owners /\ StagesOfRuns' = StagesOfRuns) \/ Contract!Next
<1>1. CASE CreateCommit(c) \/ RepeatCommit(c)
  BY <1>1, InsertAccepts
<1>2. CASE AggregateCommit(c)
  <2>1. client[c].run \in RunIds /\ Exists(client[c].run) /\ Started(client[c].run)
    BY <1>2, BusyRuns DEF AggregateCommit, KeyInv, HoldersExist, StageInv
  <2>2. client[c].rows \in SUBSET Metrics
    BY BusyRuns
  <2> QED
    BY <1>2, <2>1, <2>2, RowsRefine DEF AggregateCommit
<1>3. CASE ~CreateCommit(c) /\ ~RepeatCommit(c) /\ ~AggregateCommit(c)
  <2>1. key' = key /\ results' = results
    BY <1>3 DEF ClientStep, CreateStep, RepeatStep, CancelStep, AggregateStep, CreateReplay,
       CreateBegin, CreateConflict, RepeatBegin, CancelBegin, CancelCommit, AggregateBegin,
       AggregatePublish, ClientAbort, db
  <2>2. CancelCommit(c) => client[c].run \in RunIds /\ Exists(client[c].run)
    BY BusyRuns DEF CancelCommit, KeyInv, HoldersExist
  <2>3. \A r \in RunIds : Exists(r)' <=> Exists(r)
    BY <1>3, <2>2 DEF TypeOK, Exists, ClientStep, CreateStep, RepeatStep, CancelStep,
       AggregateStep, CreateReplay, CreateBegin, CreateConflict, RepeatBegin, CancelBegin,
       CancelCommit, AggregateBegin, AggregatePublish, ClientAbort, db
  <2> QED
    BY <2>1, <2>3, OthersStutter, OthersStartNothing
<1> QED
  BY <1>1, <1>2, <1>3

LEMMA InitRefines == Init => Contract!Init
<1> SUFFICES ASSUME Init PROVE Contract!Init
  OBVIOUS
<1>1. \A r \in RunIds : ~Exists(r) /\ StageOf(r) = "absent"
  BY DEF Init, Exists, StageOf
<1>2. \A k \in Keys : OwnerOf(k) = NoRun
  BY <1>1 DEF OwnerOf, HasKey
<1> QED
  BY <1>1, <1>2 DEF Contract!Init

LEMMA StepRefines ==
  ASSUME TypeOK, KeyInv, StageInv, TypeOK', KeyInv', [Next]_vars
  PROVE  [Contract!Next]_<<Owners, StagesOfRuns>>
<1>1. CASE UNCHANGED vars
  <2>1. \A r \in RunIds : Started(r)' <=> Started(r)
    BY <1>1, OthersStartNothing
  <2> QED
    BY <1>1, <2>1, OthersStutter DEF vars, db, Exists
<1> QED
  BY <1>1, WorkerRefines, RequestRefines DEF Next

\* The pipeline implements the contract, for any number of clients, workers,
\* keys, runs, crashes and aggregations: a key is bound once and for all, and
\* results are published only of started runs.
THEOREM ContractImplemented == Spec => ImplementsContract
<1>1. TypeOK /\ KeyInv /\ StageInv /\ TypeOK' /\ KeyInv' /\ [Next]_vars
        => [Contract!Next]_<<Owners, StagesOfRuns>>
  BY StepRefines
<1>2. Spec => Contract!Init /\ [][Contract!Next]_<<Owners, StagesOfRuns>>
  BY <1>1, InitRefines, TypeCorrect, KeysCorrect, StagesCorrect, PTL DEF Spec
<1> QED
  BY <1>2, PTL DEF ImplementsContract, Contract!Spec, Owners, StagesOfRuns
=============================================================================
