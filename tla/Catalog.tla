------------------------------- MODULE Catalog -------------------------------
(***************************************************************************)
(* The metadata services behind the gateway: projects and members,         *)
(* datasets, models, metrics, prompts, judge configurations, webhooks and  *)
(* the references of a new run, with the role check most handlers start    *)
(* with.                                                                   *)
(*                                                                         *)
(* The handlers have one shape: ask AuthZ for the caller's role, read what *)
(* is committed, refuse or build rows, sometimes flush some of them early, *)
(* and leave the commit to the dependency get_db.  An async handler runs   *)
(* in the one event loop of the server process and calls the database      *)
(* synchronously; the commit runs in a thread that the loop has to start.  *)
(* A flush or a commit that meets a key another open transaction inserted  *)
(* waits for that transaction to end, and holds up whatever runs it.       *)
(***************************************************************************)
EXTENDS Naturals, Sequences, FiniteSets

CONSTANTS
  Requests,    \* HTTP requests, each made once
  Seed,        \* the rows committed before the first of the requests
  Names, Versions, Emails, Granted, Keys,  \* what the bodies may say
  Calls,       \* bound: who may make each request, <<caller, handler>>, where a
               \* caller is [sub, email, admin, approver]
  Nothing,     \* an absent column, project or key
  MaxCrashes   \* bound: deaths of the server process

ASSUME CatalogAssumption == MaxCrashes \in Nat /\ Nothing \notin Requests

VARIABLES
  rows,       \* the committed rows of all tables
  audit,      \* the committed rows of audit_log
  roleCache,  \* Redis, authz:role:{user}:{project}: <<user, project, role>>
  req,        \* how far each request is, and what its session holds
  loop,       \* the request whose handler has the event loop, or Nothing
  crashes

vars == <<rows, audit, roleCache, req, loop, crashes>>

ROLES == <<"viewer", "contributor", "maintainer", "owner">>
RoleAtLeast(actual, required) ==
  \E i, j \in DOMAIN ROLES : ROLES[i] = actual /\ ROLES[j] = required /\ i >= j

----------------------------------------------------------------------------
(* The tables.  A row has its unique key, the rows its foreign keys name,  *)
(* and the columns that are read again: role or classification, whether    *)
(* the assets are encrypted, status and published_by.                      *)

Row(t, id, key, refs) ==
  [t |-> t, id |-> id, key |-> <<t>> \o key, refs |-> refs, kind |-> Nothing,
   encrypted |-> FALSE, status |-> Nothing, by |-> Nothing]

User(id, email) == Row("user", id, <<email>>, {})
Project(id, name, owner) == Row("project", id, <<name>>, {owner})
Membership(id, p, u, role) ==
  [Row("membership", id, <<p, u>>, {p, u}) EXCEPT !.kind = role]
Dataset(id, p, name, class) ==
  [Row("dataset", id, <<p, name>>, {p}) EXCEPT !.kind = class]
DatasetVersion(id, d, v, class, encrypted) ==
  [Row("dataset_version", id, <<d, v>>, {d}) EXCEPT
     !.kind = class, !.encrypted = encrypted, !.status = "DRAFT"]
Model(id, p, name) == Row("model", id, <<p, name>>, {p})
ModelVersion(id, m, v) == Row("model_version", id, <<m, v>>, {m})
Metric(id, name) == Row("metric", id, <<name>>, {})
MetricVersion(id, m, v) == Row("metric_version", id, <<m, v>>, {m})
Prompt(id, p, name) == Row("prompt", id, <<p, name>>, {p})
PromptVersion(id, pr, v) == Row("prompt_version", id, <<pr, v>>, {pr})
JudgeConfig(id, p, name) == Row("judge_config", id, <<p, name>>, {p})
JudgeConfigVersion(id, jc, v, pv) ==
  Row("judge_config_version", id, <<jc, v>>, {jc, pv})
WebhookSubscription(id, p) == Row("webhook_subscription", id, <<id>>, {p})
Run(id, p, key, refs, user) ==   \* a NULL request_id is equal to no other
  Row("run", id, <<p, IF key = Nothing THEN id[2] ELSE key>>, refs \cup {p, user})

Tables == {"user", "project", "membership", "dataset", "dataset_version", "model",
           "model_version", "metric", "metric_version", "prompt", "prompt_version",
           "judge_config", "judge_config_version", "webhook_subscription", "run"}

\* A record with the fields of a row, under its table's name.
IsRow(r) ==
  /\ r = [t |-> r.t, id |-> r.id, key |-> r.key, refs |-> r.refs, kind |-> r.kind,
          encrypted |-> r.encrypted, status |-> r.status, by |-> r.by]
  /\ r.t \in Tables /\ r.key[1] = r.t /\ r.id[1] = r.t
  /\ r.encrypted \in BOOLEAN /\ r.status \in {Nothing, "DRAFT", "PUBLISHED"}

\* A database that keeps the tables' constraints, whose runs were let in by
\* CreateRun; the ids the requests generate are not in it, nor any caller's.
ASSUME SeedAssumption ==
  /\ \A r \in Seed : /\ IsRow(r) /\ r.id[2] \notin Requests
                     /\ r.refs \subseteq {s.id : s \in Seed}
  /\ \A r, s \in Seed : (r.id = s.id => r = s) /\ (r.key = s.key => r.id = s.id)
  /\ \A r, d \in Seed : r.t = "run" /\ d.t = "dataset_version" /\ d.id \in r.refs
                         => d.status = "PUBLISHED"
  /\ \A q \in Requests : \A call \in Calls[q] : call[1].sub \notin Requests

In(t) == {r \in rows : r.t = t}
Ids(t) == {r.id : r \in In(t)}
Keyed(t, key) == {r \in In(t) : r.key = <<t>> \o key}
Taken(t, key) == Keyed(t, key) # {}

----------------------------------------------------------------------------
(* A request and its session.                                              *)

Idle == [phase |-> "idle", do |-> Nothing, project |-> Nothing, who |-> Nothing,
         early |-> {}, writes |-> {}, entry |-> Nothing, fails |-> FALSE]

Open(q) == req[q].phase \in {"allowed", "flushing", "staged", "committing"}
UserId(q) == <<"user", req[q].who.sub>>

\* An answer ends the request; its session is closed and its locks are gone.
Answer(q, code) == req' = [req EXCEPT ![q] = [Idle EXCEPT !.phase = code]]

\* The handler's checks have passed: "early" is what it flushes itself and
\* "late" what the commit will flush, with the audit row of write_audit.
Write(q, early, late, action, resource, fails) ==
  /\ req' = [req EXCEPT
       ![q].phase = IF early = {} THEN "staged" ELSE "flushing",
       ![q].early = early, ![q].writes = early \cup late,
       ![q].entry = <<q, action, resource, UserId(q)>>, ![q].fails = fails]

Handling(q, do) == req[q].phase = "allowed" /\ req[q].do = do
Stored == UNCHANGED <<rows, audit, roleCache, crashes>>

Sync == {"create_project", "create_metric", "create_metric_version"}
ScheduledForGood(q) ==   \* mutant: the handler never yields the loop
  IF req[q].do \in Sync THEN loop' = loop ELSE loop = Nothing /\ loop' = q

\* A sync handler has a thread of its own, an async one needs the loop and
\* keeps it until its flush has returned.
Scheduled(q) ==
  IF req[q].do \in Sync THEN loop' = loop
  ELSE /\ loop = Nothing
       /\ loop' = IF req'[q].phase = "flushing" THEN q ELSE Nothing

----------------------------------------------------------------------------
(* Authorization: authenticate, require_role and AuthZ's check_role.       *)

Required ==
  [add_member |-> "owner", create_dataset |-> "contributor",
   create_dataset_version |-> "contributor", publish |-> "maintainer",
   create_model |-> "contributor", create_model_version |-> "contributor",
   create_prompt_version |-> "maintainer", create_judge_config |-> "maintainer",
   create_judge_config_version |-> "maintainer", create_run |-> "contributor",
   create_webhook |-> "maintainer"]

StoredRole(u, p) ==
  IF Taken("membership", <<p, u>>)
  THEN (CHOOSE m \in Keyed("membership", <<p, u>>) : TRUE).kind ELSE Nothing
Cached(u, p) == {e \in roleCache : e[1] = u /\ e[2] = p}

RememberedNegative(u, p, role) == {<<u, p, role>>}   \* mutant: None is cached too

\* What check_role leaves in the cache: a role that was found, for 300 s.
Remembered(u, p, role) == IF role = Nothing THEN {} ELSE {<<u, p, role>>}

CheckedRole(u, p) ==
  IF Cached(u, p) # {} THEN (CHOOSE e \in Cached(u, p) : TRUE)[3]
  ELSE StoredRole(u, p)

Authorize(q) ==
  \E call \in Calls[q], p \in Ids("project") \cup {Nothing} :
    LET w == call[1]  do == call[2]
        u == <<"user", w.sub>>
        role == CheckedRole(u, p)
        asks == do \in DOMAIN Required /\ ~w.admin IN
    /\ req[q].phase = "idle" /\ loop = Nothing
    /\ (p = Nothing) <=> (do \in Sync)
    /\ \/ /\ \/ do = "create_project" \/ w.admin
             \/ asks /\ role # Nothing /\ RoleAtLeast(role, Required[do])
          /\ req' = [req EXCEPT ![q] = [Idle EXCEPT
               !.phase = "allowed", !.do = do, !.project = p, !.who = w]]
       \/ /\ do # "create_project" /\ ~w.admin
          /\ asks => role = Nothing \/ ~RoleAtLeast(role, Required[do])
          /\ Answer(q, "forbidden")
       \/ asks /\ Answer(q, "error")   \* AuthZ is down, or not in 5 s
    /\ roleCache' = IF asks THEN roleCache \cup Remembered(u, p, role) ELSE roleCache
    /\ UNCHANGED <<rows, audit, loop, crashes>>

\* The 300 s are over, or DELETE /v1/cache/{user}/{project} was called.
EvictRole(e) ==
  /\ roleCache' = roleCache \ {e}
  /\ UNCHANGED <<rows, audit, req, loop, crashes>>

----------------------------------------------------------------------------
(* Projects and members.                                                   *)

CreateProject(q) ==
  LET w == req[q].who
      known == UserId(q) \in Ids("user")
      pid == <<"project", q>> IN
  /\ Handling(q, "create_project")
  /\ \E name \in Names :
       IF Taken("project", <<name>>) THEN Answer(q, "refused")
       ELSE Write(q, IF known THEN {} ELSE {User(UserId(q), w.email)},
                  {Project(pid, name, UserId(q)),
                   Membership(<<"membership", q>>, pid, UserId(q), "owner")},
                  "project.create", pid, FALSE)

\* The user is found by e-mail; an unknown one gets a row with a fresh id.
AddMember(q) ==
  LET p == req[q].project  mid == <<"membership", q>> IN
  /\ Handling(q, "add_member")
  /\ \E email \in Emails, role \in Granted :
       IF Taken("user", <<email>>)
       THEN \E u \in Keyed("user", <<email>>) :
              IF Taken("membership", <<p, u.id>>) THEN Answer(q, "refused")
              ELSE Write(q, {}, {Membership(mid, p, u.id, role)},
                         "member.add", mid, FALSE)
       ELSE LET u == <<"user", q>> IN
            Write(q, {User(u, email)}, {Membership(mid, p, u, role)},
                  "member.add", mid, FALSE)

----------------------------------------------------------------------------
(* Datasets.                                                               *)

CreateDataset(q) ==
  LET p == req[q].project  id == <<"dataset", q>> IN
  /\ Handling(q, "create_dataset")
  /\ \E name \in Names, class \in {"internal", "export-controlled"} :
       IF Taken("dataset", <<p, name>>) THEN Answer(q, "refused")
       ELSE Write(q, {}, {Dataset(id, p, name, class)}, "dataset.create", id, FALSE)

\* The version row is flushed, then the slices are added: two of one name
\* make the commit fail.  The classification is the dataset's unless given.
CreateDatasetVersion(q) ==
  LET id == <<"dataset_version", q>> IN
  /\ Handling(q, "create_dataset_version")
  /\ \E d \in In("dataset"), v \in Versions, encrypted, twins \in BOOLEAN :
     \E class \in {d.kind, "secret"} :
       IF d.key[2] # req[q].project \/ Taken("dataset_version", <<d.id, v>>)
       THEN Answer(q, "refused")
       ELSE Write(q, {DatasetVersion(id, d.id, v, class, encrypted)}, {},
                  "dataset_version.create", id, twins)

\* The classification policy, and the quota, which is what the object store
\* happens to hold at this moment.
Publishable(q, dv) ==
  /\ dv.status = "DRAFT"
  /\ dv.kind \in {"secret", "export-controlled"} => dv.encrypted
  /\ dv.kind = "export-controlled" => req[q].who.approver

Publish(q) ==
  /\ Handling(q, "publish")
  /\ \E dv \in In("dataset_version"), underQuota \in BOOLEAN :
       IF ~Publishable(q, dv) \/ ~underQuota THEN Answer(q, "refused")
       ELSE Write(q, {}, {[dv EXCEPT !.status = "PUBLISHED", !.by = UserId(q),
                                     !.refs = @ \cup {UserId(q)}]},
                  "dataset_version.publish", dv.id, FALSE)

----------------------------------------------------------------------------
(* Models, metrics, prompts, judge configurations and webhooks.            *)

CreateModel(q) ==
  LET p == req[q].project  id == <<"model", q>> IN
  /\ Handling(q, "create_model")
  /\ \E name \in Names :
       IF Taken("model", <<p, name>>) THEN Answer(q, "refused")
       ELSE Write(q, {}, {Model(id, p, name)}, "model.create", id, FALSE)

CreateModelVersion(q) ==
  LET id == <<"model_version", q>> IN
  /\ Handling(q, "create_model_version")
  /\ \E m \in In("model"), v \in Versions :
       IF m.key[2] # req[q].project \/ Taken("model_version", <<m.id, v>>)
       THEN Answer(q, "refused")
       ELSE Write(q, {}, {ModelVersion(id, m.id, v)}, "model_version.create", id, FALSE)

CreateMetric(q) ==
  LET id == <<"metric", q>> IN
  /\ Handling(q, "create_metric")
  /\ \E name \in Names :
       IF Taken("metric", <<name>>) THEN Answer(q, "refused")
       ELSE Write(q, {}, {Metric(id, name)}, "metric.create", id, FALSE)

\* load_metric imports the package_uri before anything is written.
CreateMetricVersion(q) ==
  LET id == <<"metric_version", q>> IN
  /\ Handling(q, "create_metric_version")
  /\ \E m \in In("metric"), v \in Versions, loads \in BOOLEAN :
       IF Taken("metric_version", <<m.id, v>>) \/ ~loads THEN Answer(q, "refused")
       ELSE Write(q, {}, {MetricVersion(id, m.id, v)}, "metric_version.create", id, FALSE)

\* The prompt is made on first use, and flushed so that its id can be used.
CreatePromptVersion(q) ==
  LET p == req[q].project  id == <<"prompt_version", q>>  pr == <<"prompt", q>> IN
  /\ Handling(q, "create_prompt_version")
  /\ \E name \in Names, v \in Versions :
       IF Taken("prompt", <<p, name>>)
       THEN \E x \in Keyed("prompt", <<p, name>>) :
              IF Taken("prompt_version", <<x.id, v>>) THEN Answer(q, "refused")
              ELSE Write(q, {}, {PromptVersion(id, x.id, v)},
                         "prompt_version.create", id, FALSE)
       ELSE Write(q, {Prompt(pr, p, name)}, {PromptVersion(id, pr, v)},
                  "prompt_version.create", id, FALSE)

CreateJudgeConfig(q) ==
  LET p == req[q].project  id == <<"judge_config", q>> IN
  /\ Handling(q, "create_judge_config")
  /\ \E name \in Names :
       IF Taken("judge_config", <<p, name>>) THEN Answer(q, "refused")
       ELSE Write(q, {}, {JudgeConfig(id, p, name)}, "judge_config.create", id, FALSE)

\* The prompt version may be one of any project.
CreateJudgeConfigVersion(q) ==
  LET id == <<"judge_config_version", q>> IN
  /\ Handling(q, "create_judge_config_version")
  /\ \E jc \in In("judge_config"), pv \in Ids("prompt_version"), v \in Versions :
       IF \/ jc.key[2] # req[q].project
          \/ Taken("judge_config_version", <<jc.id, v>>)
       THEN Answer(q, "refused")
       ELSE Write(q, {}, {JudgeConfigVersion(id, jc.id, v, pv)},
                  "judge_config_version.create", id, FALSE)

CreateWebhook(q) ==
  LET id == <<"webhook_subscription", q>> IN
  /\ Handling(q, "create_webhook")
  /\ Write(q, {}, {WebhookSubscription(id, req[q].project)}, "webhook.create", id, FALSE)

----------------------------------------------------------------------------
(* A run's references (its life is the module RunLifecycle's).             *)

UsableUnpublished(dv) == TRUE   \* mutant: any version of a dataset will do

Usable(dv) == dv.status = "PUBLISHED"

CreateRun(q) ==
  LET p == req[q].project  id == <<"run", q>> IN
  /\ Handling(q, "create_run")
  /\ \E key \in Keys \cup {Nothing}, m \in Ids("model_version"),
        dv \in In("dataset_version"), mv \in Ids("metric_version"),
        jc \in Ids("judge_config_version") \cup {Nothing} :
       IF key # Nothing /\ Taken("run", <<p, key>>) THEN Answer(q, "done")
       ELSE IF ~Usable(dv) THEN Answer(q, "refused")
       ELSE Write(q, {Run(id, p, key, {m, dv.id, mv, jc} \ {Nothing}, UserId(q))}, {},
                  "run.create", id, FALSE)

\* An id in the path or the body that no row has: 404 or 400.
UnknownId(q) ==
  /\ req[q].phase = "allowed"
  /\ req[q].do \in {"create_dataset_version", "publish", "create_model_version",
                    "create_metric_version", "create_judge_config_version", "create_run"}
  /\ Answer(q, "refused")

----------------------------------------------------------------------------
(* Sessions: flush, commit, rollback.                                      *)

Handle(q) ==
  /\ \/ CreateProject(q) \/ AddMember(q) \/ CreateDataset(q)
     \/ CreateDatasetVersion(q) \/ Publish(q) \/ CreateModel(q)
     \/ CreateModelVersion(q) \/ CreateMetric(q) \/ CreateMetricVersion(q)
     \/ CreatePromptVersion(q) \/ CreateJudgeConfig(q)
     \/ CreateJudgeConfigVersion(q) \/ CreateWebhook(q) \/ CreateRun(q)
     \/ UnknownId(q)
  /\ Scheduled(q)
  /\ Stored

\* Two rows that cannot both be inserted.  The one id that is not generated is
\* that of a user who makes a project; other rows of one id are an update.
SameKey(r, s) == IF r.id = s.id THEN r.t = "user" ELSE r.key = s.key
ViolatesNothing(new) == FALSE   \* mutant: the tables have no constraints

\* The UNIQUE and FOREIGN KEY constraints, against what is committed.
Violates(new) ==
  \/ \E r \in new, s \in rows : SameKey(r, s)
  \/ \E r \in new : ~(r.refs \subseteq {s.id : s \in rows \cup new})

\* An uncommitted row of another session has the key: the insert waits.
Waits(q, new) ==
  \E o \in Requests \ {q} : /\ req[o].phase \in {"staged", "committing"}
                           /\ \E r \in req[o].early, s \in new : SameKey(r, s)

Flush(q) ==
  LET early == req[q].early IN
  /\ req[q].phase = "flushing" /\ ~Waits(q, early)
  /\ IF Violates(early) THEN Answer(q, "error")
     ELSE req' = [req EXCEPT ![q].phase = "staged"]
  /\ loop' = IF loop = q THEN Nothing ELSE loop
  /\ Stored

\* The loop leaves the dependency: it starts a thread to run the commit.
Leave(q) ==
  /\ req[q].phase = "staged" /\ loop = Nothing
  /\ req' = [req EXCEPT ![q].phase = "committing"]
  /\ Stored /\ UNCHANGED loop

RollBackRows(q) ==   \* mutant: the audit row was committed on its own
  Answer(q, "error") /\ audit' = audit \cup {req[q].entry} /\ UNCHANGED rows
RollBackLater(q) == UNCHANGED <<rows, audit, req>>   \* mutant: the session stays open

\* session_scope: whatever fails in the session takes all of it back.
RollBack(q) == Answer(q, "error") /\ UNCHANGED <<rows, audit>>

Commit(q) ==
  LET new == req[q].writes IN
  /\ req[q].phase = "committing" /\ ~Waits(q, new)
  /\ IF Violates(new) \/ req[q].fails THEN RollBack(q)
     ELSE /\ rows' = {r \in rows : r.id \notin {n.id : n \in new}} \cup new
          /\ audit' = audit \cup {req[q].entry}
          /\ Answer(q, "done")
  /\ UNCHANGED <<roleCache, loop, crashes>>

\* The server process dies; Postgres rolls its open transactions back.
Crash ==
  /\ crashes < MaxCrashes /\ \E q \in Requests : Open(q)
  /\ req' = [q \in Requests |-> IF Open(q) THEN [Idle EXCEPT !.phase = "error"]
                               ELSE req[q]]
  /\ loop' = Nothing
  /\ crashes' = crashes + 1
  /\ UNCHANGED <<rows, audit, roleCache>>

Init ==
  /\ rows = Seed /\ audit = {} /\ roleCache = {}
  /\ req = [q \in Requests |-> Idle]
  /\ loop = Nothing /\ crashes = 0

Next ==
  \/ \E q \in Requests :
       Authorize(q) \/ Handle(q) \/ Flush(q) \/ Leave(q) \/ Commit(q)
  \/ \E e \in roleCache : EvictRole(e)
  \/ Crash

Spec == Init /\ [][Next]_vars

\* The loop resumes every coroutine and every thread runs on; clients need
\* not call and cached roles need not expire.
Fairness ==
  \A q \in Requests : WF_vars(Handle(q) \/ Flush(q) \/ Leave(q) \/ Commit(q))
FairSpec == Spec /\ Fairness
=============================================================================
