---------------------------- MODULE CatalogProofs ----------------------------
(***************************************************************************)
(* Theorems about the metadata services, for any rows to begin with, any   *)
(* number of requests by any callers, and any bodies they may carry.       *)
(***************************************************************************)
EXTENDS CatalogProperties, SequenceTheorems, TLAPS

----------------------------------------------------------------------------
(* What a session may hold.  The properties are about committed rows; the  *)
(* invariant has to say of each uncommitted one that committing it, after  *)
(* whatever the other requests have committed meanwhile, is as good as it  *)
(* was when the handler made its checks.  Of the committed rows it says so *)
(* by two sets that only grow: the versions, and those that are published. *)

Publishing == "dataset_version.publish"
VersionIds == {d.id : d \in In("dataset_version")}
PublishedIds == {d.id : d \in {r \in In("dataset_version") : r.status = "PUBLISHED"}}
NamesOnly(r, published) == \A i \in r.refs : i[1] = "dataset_version" => i \in published

\* A row under an id this request has generated, and one for its caller.
Fresh(q, w) == /\ w.id = <<w.t, q>> /\ w.by = Nothing
               /\ w.status = IF w.t = "dataset_version" THEN "DRAFT" ELSE Nothing
Newcomer(q, w) == /\ w.t = "user" /\ w.id[2] \notin Requests
                  /\ w.by = Nothing /\ w.status = Nothing
\* A committed version with the columns that publish sets.
Publication(w, entry, versions) ==
  /\ w.t = "dataset_version" /\ w.status = "PUBLISHED" /\ w.id \in versions
  /\ entry[2] = Publishing /\ entry[3] = w.id /\ entry[4] = w.by

\* One row of a table at most, and one that is audited.
Writable(q, new, entry, published, versions) ==
  /\ \A w, x \in new : w.t = x.t => w = x
  /\ \E w \in new : w.id = entry[3]
  /\ entry[1] = q /\ entry[4][1] = "user"
  /\ \A w \in new : /\ IsRow(w)
                    /\ Fresh(q, w) \/ Newcomer(q, w) \/ Publication(w, entry, versions)
                    /\ w.t = "run" => NamesOnly(w, published)
                    /\ w.t \in Audited => w.id = entry[3]

IsSession(s) ==
  s = [phase |-> s.phase, do |-> s.do, project |-> s.project, who |-> s.who, early |-> s.early,
       writes |-> s.writes, entry |-> s.entry, fails |-> s.fails]
Holding == {"flushing", "staged", "committing"}

GoodSession(q, s, published, versions) ==
  /\ IsSession(s)
  /\ s.phase \in Endings \cup {"idle", "allowed"} \cup Holding
  /\ s.writes # {} => s.phase \in Holding
  /\ s.early \subseteq s.writes
  /\ s.phase = "allowed" => s.who.sub \notin Requests
  /\ s.phase = "allowed" /\ s.do \notin Sync => s.project[1] = "project"
  /\ s.phase \in Holding => Writable(q, s.writes, s.entry, published, versions)

SessionInv ==
  /\ req = [q \in Requests |-> req[q]]
  /\ \A q \in Requests : GoodSession(q, req[q], PublishedIds, VersionIds)

LoopInv == loop = Nothing \/ (loop \in Requests /\ req[loop].phase = "flushing")

\* A generated id is that of a request that is done.
IdInv ==
  /\ \A r, s \in rows : r.id = s.id => r = s
  /\ \A r \in rows : r.id[2] \in Requests => req[r.id[2]].phase = "done"

RowInv ==
  \A r \in rows : /\ IsRow(r) /\ r.refs \subseteq {s.id : s \in rows}
                  /\ r.t = "run" => NamesOnly(r, PublishedIds)

CacheInv == CacheIsCurrent /\ \A e \in roleCache : e[3] # Nothing

AuditInv == AuditTellsTheTruth /\ \A a \in audit : a[1] \in Requests /\ a[4][1] = "user"

CatalogInv ==
  /\ SessionInv /\ LoopInv /\ crashes \in 0 .. MaxCrashes
  /\ IdInv /\ RowInv /\ NoTwins /\ CacheInv /\ AuditInv

----------------------------------------------------------------------------
(* Rows.                                                                   *)

\* The key of a row begins with its table's name.
LEMMA KeyOfOne == ASSUME NEW t, NEW a PROVE (<<t>> \o <<a>>)[1] = t
  OBVIOUS

LEMMA KeyOfTwo == ASSUME NEW t, NEW a, NEW b PROVE (<<t>> \o <<a, b>>)[1] = t
  OBVIOUS

\* What the constructors build, from a generated id.
Made(q, w, t, refs) ==
  /\ w \in [t : {t}, id : {<<t, q>>}, key : {w.key}, refs : {refs}, kind : {w.kind},
            encrypted : {FALSE}, status : {Nothing}, by : {Nothing}]
  /\ w.key[1] = t

LEMMA Built ==
  ASSUME NEW q, NEW w, NEW t, NEW refs,
         Made(q, w, t, refs), t \in Tables \ {"dataset_version"}
  PROVE  IsRow(w) /\ Fresh(q, w) /\ w.t = t /\ w.id = <<t, q>> /\ w.refs = refs
<1>1. /\ w.t = t /\ w.id = <<t, q>> /\ w.status = Nothing /\ w.by = Nothing
      /\ w.encrypted = FALSE /\ w.key[1] = t /\ w.refs = refs
  BY DEF Made
<1>2. w = [t |-> w.t, id |-> w.id, key |-> w.key, refs |-> w.refs, kind |-> w.kind,
           encrypted |-> w.encrypted, status |-> w.status, by |-> w.by]
  BY DEF Made
<1>3. w.t \in Tables /\ w.id[1] = w.t
  BY <1>1
<1>4. w.encrypted \in BOOLEAN
  BY <1>1
<1>5. IsRow(w)
  BY <1>1, <1>2, <1>3, <1>4 DEF IsRow
<1>6. Fresh(q, w)
  BY <1>1 DEF Fresh
<1> QED
  BY <1>1, <1>5, <1>6

\* Under a name alone, and under an owner and a name.
LEMMA MadeOne ==
  ASSUME NEW q, NEW t, NEW a, NEW refs
  PROVE  Made(q, Row(t, <<t, q>>, <<a>>, refs), t, refs)
  BY KeyOfOne DEF Row, Made

LEMMA MadeTwo ==
  ASSUME NEW q, NEW t, NEW a, NEW b, NEW refs, NEW kind
  PROVE  /\ Made(q, Row(t, <<t, q>>, <<a, b>>, refs), t, refs)
         /\ Made(q, [Row(t, <<t, q>>, <<a, b>>, refs) EXCEPT !.kind = kind], t, refs)
  BY KeyOfTwo DEF Row, Made

LEMMA BuiltVersion ==
  ASSUME NEW q, NEW d, NEW v, NEW class, NEW encrypted \in BOOLEAN
  PROVE  LET w == DatasetVersion(<<"dataset_version", q>>, d, v, class, encrypted) IN
         IsRow(w) /\ Fresh(q, w) /\ w.t = "dataset_version" /\ w.id = <<"dataset_version", q>>
<1> DEFINE w == DatasetVersion(<<"dataset_version", q>>, d, v, class, encrypted)
<1>1. w \in [t : {"dataset_version"}, id : {<<"dataset_version", q>>},
            key : {<<"dataset_version">> \o <<d, v>>}, refs : {{d}}, kind : {class},
            encrypted : {encrypted}, status : {"DRAFT"}, by : {Nothing}]
  BY DEF DatasetVersion, Row
<1> HIDE DEF w
<1>2. /\ IsRow(w) /\ Fresh(q, w)
      /\ w.t = "dataset_version" /\ w.id = <<"dataset_version", q>>
  BY <1>1, KeyOfTwo DEF IsRow, Fresh, Tables
<1> QED
  BY <1>2 DEF w

LEMMA BuiltUser ==
  ASSUME NEW q, NEW sub, NEW email
  PROVE  LET w == User(<<"user", sub>>, email) IN
         /\ IsRow(w) /\ w.t = "user" /\ w.id = <<"user", sub>>
         /\ sub = q => Fresh(q, w)
         /\ sub \notin Requests => Newcomer(q, w)
  BY KeyOfOne DEF User, Row, IsRow, Fresh, Newcomer, Tables

\* New rows of different tables, one of them audited, are good to write.
LEMMA NewRowsWritable ==
  ASSUME NEW q, NEW new, NEW action, NEW resource, NEW user, NEW published, NEW versions,
         user[1] = "user",
         \A w, x \in new : w.t = x.t => w = x,
         \E w \in new : w.id = resource,
         \A w \in new : /\ IsRow(w) /\ (Fresh(q, w) \/ Newcomer(q, w))
                        /\ w.t = "run" => NamesOnly(w, published)
                        /\ w.t \in Audited => w.id = resource
  PROVE  Writable(q, new, <<q, action, resource, user>>, published, versions)
<1> DEFINE entry == <<q, action, resource, user>>
<1>1. entry[1] = q /\ entry[3] = resource /\ entry[4] = user
  OBVIOUS
<1> HIDE DEF entry
<1>2. Writable(q, new, entry, published, versions)
  BY <1>1 DEF Writable
<1> QED
  BY <1>2 DEF entry

\* What any handler does: it answers, or it holds rows that are good to write.
Handled(q) ==
  \/ \E code \in {"refused", "done"} : Answer(q, code)
  \/ \E early, late, action, resource, fails :
       /\ Write(q, early, late, action, resource, fails)
       /\ Writable(q, early \cup late, <<q, action, resource, UserId(q)>>,
                   PublishedIds, VersionIds)

\* A handler that writes the one row it has made, now or at the commit.
LEMMA WritesOne ==
  ASSUME NEW q, NEW w, NEW action, NEW fails, IsRow(w), Fresh(q, w),
         w.t = "run" => NamesOnly(w, PublishedIds),
         \/ Write(q, {}, {w}, action, w.id, fails)
         \/ Write(q, {w}, {}, action, w.id, fails)
  PROVE  Handled(q)
<1>1. UserId(q)[1] = "user"
  BY DEF UserId
<1>2. /\ {} \cup {w} = {w}
      /\ {w} \cup {} = {w}
  OBVIOUS
<1>3. Writable(q, {w}, <<q, action, w.id, UserId(q)>>, PublishedIds, VersionIds)
  BY <1>1, NewRowsWritable
<1>4. /\ Writable(q, {} \cup {w}, <<q, action, w.id, UserId(q)>>, PublishedIds, VersionIds)
      /\ Writable(q, {w} \cup {}, <<q, action, w.id, UserId(q)>>, PublishedIds, VersionIds)
  BY <1>2, <1>3
<1>5. CASE Write(q, {}, {w}, action, w.id, fails)
  BY <1>4, <1>5 DEF Handled
<1>6. CASE Write(q, {w}, {}, action, w.id, fails)
  BY <1>4, <1>6 DEF Handled
<1> QED
  BY <1>5, <1>6

----------------------------------------------------------------------------
(* The handlers.                                                           *)

LEMMA CreateDatasetHandled ==
  ASSUME NEW q, CreateDataset(q)
  PROVE  Handled(q)
<1> DEFINE p == req[q].project
<1>a. PICK name \in Names, class \in {"internal", "export-controlled"} : \E w :
        /\ w = Dataset(<<"dataset", q>>, p, name, class)
        /\ \/ Answer(q, "refused")
           \/ Write(q, {}, {w}, "dataset.create", <<"dataset", q>>, FALSE)
  BY DEF CreateDataset
<1>1. PICK w :
        /\ w = Dataset(<<"dataset", q>>, p, name, class)
        /\ \/ Answer(q, "refused")
           \/ Write(q, {}, {w}, "dataset.create", <<"dataset", q>>, FALSE)
  BY <1>a
<1>2. Made(q, w, "dataset", {p})
  BY <1>1, MadeTwo DEF Dataset
<1>3. IsRow(w) /\ Fresh(q, w) /\ w.t = "dataset" /\ w.id = <<"dataset", q>>
  BY <1>2, Built DEF Tables
<1> QED
  BY <1>1, <1>3, WritesOne DEF Handled

LEMMA CreateModelHandled ==
  ASSUME NEW q, CreateModel(q)
  PROVE  Handled(q)
<1> DEFINE p == req[q].project
<1>a. PICK name \in Names : \E w :
        /\ w = Model(<<"model", q>>, p, name)
        /\ \/ Answer(q, "refused")
           \/ Write(q, {}, {w}, "model.create", <<"model", q>>, FALSE)
  BY DEF CreateModel
<1>1. PICK w :
        /\ w = Model(<<"model", q>>, p, name)
        /\ \/ Answer(q, "refused")
           \/ Write(q, {}, {w}, "model.create", <<"model", q>>, FALSE)
  BY <1>a
<1>2. Made(q, w, "model", {p})
  BY <1>1, MadeTwo DEF Model
<1>3. IsRow(w) /\ Fresh(q, w) /\ w.t = "model" /\ w.id = <<"model", q>>
  BY <1>2, Built DEF Tables
<1> QED
  BY <1>1, <1>3, WritesOne DEF Handled

LEMMA CreateModelVersionHandled ==
  ASSUME NEW q, CreateModelVersion(q)
  PROVE  Handled(q)
<1>a. PICK m \in In("model"), v \in Versions : \E w :
        /\ w = ModelVersion(<<"model_version", q>>, m.id, v)
        /\ \/ Answer(q, "refused")
           \/ Write(q, {}, {w}, "model_version.create", <<"model_version", q>>, FALSE)
  BY DEF CreateModelVersion
<1>1. PICK w :
        /\ w = ModelVersion(<<"model_version", q>>, m.id, v)
        /\ \/ Answer(q, "refused")
           \/ Write(q, {}, {w}, "model_version.create", <<"model_version", q>>, FALSE)
  BY <1>a
<1>2. Made(q, w, "model_version", {m.id})
  BY <1>1, MadeTwo DEF ModelVersion
<1>3. IsRow(w) /\ Fresh(q, w) /\ w.t = "model_version" /\ w.id = <<"model_version", q>>
  BY <1>2, Built DEF Tables
<1> QED
  BY <1>1, <1>3, WritesOne DEF Handled

LEMMA CreateMetricHandled ==
  ASSUME NEW q, CreateMetric(q)
  PROVE  Handled(q)
<1>a. PICK name \in Names : \E w :
        /\ w = Metric(<<"metric", q>>, name)
        /\ \/ Answer(q, "refused")
           \/ Write(q, {}, {w}, "metric.create", <<"metric", q>>, FALSE)
  BY DEF CreateMetric
<1>1. PICK w :
        /\ w = Metric(<<"metric", q>>, name)
        /\ \/ Answer(q, "refused")
           \/ Write(q, {}, {w}, "metric.create", <<"metric", q>>, FALSE)
  BY <1>a
<1>2. Made(q, w, "metric", {})
  BY <1>1, MadeOne DEF Metric
<1>3. IsRow(w) /\ Fresh(q, w) /\ w.t = "metric" /\ w.id = <<"metric", q>>
  BY <1>2, Built DEF Tables
<1> QED
  BY <1>1, <1>3, WritesOne DEF Handled

LEMMA CreateMetricVersionHandled ==
  ASSUME NEW q, CreateMetricVersion(q)
  PROVE  Handled(q)
<1>a. PICK m \in In("metric"), v \in Versions : \E w :
        /\ w = MetricVersion(<<"metric_version", q>>, m.id, v)
        /\ \/ Answer(q, "refused")
           \/ Write(q, {}, {w}, "metric_version.create", <<"metric_version", q>>, FALSE)
  BY DEF CreateMetricVersion
<1>1. PICK w :
        /\ w = MetricVersion(<<"metric_version", q>>, m.id, v)
        /\ \/ Answer(q, "refused")
           \/ Write(q, {}, {w}, "metric_version.create", <<"metric_version", q>>, FALSE)
  BY <1>a
<1>2. Made(q, w, "metric_version", {m.id})
  BY <1>1, MadeTwo DEF MetricVersion
<1>3. IsRow(w) /\ Fresh(q, w) /\ w.t = "metric_version" /\ w.id = <<"metric_version", q>>
  BY <1>2, Built DEF Tables
<1> QED
  BY <1>1, <1>3, WritesOne DEF Handled

LEMMA CreateJudgeConfigHandled ==
  ASSUME NEW q, CreateJudgeConfig(q)
  PROVE  Handled(q)
<1>0. PICK p : p = req[q].project
  OBVIOUS
<1>a. PICK name \in Names : \E w :
        /\ w = JudgeConfig(<<"judge_config", q>>, p, name)
        /\ \/ Answer(q, "refused")
           \/ Write(q, {}, {w}, "judge_config.create", <<"judge_config", q>>, FALSE)
  BY <1>0 DEF CreateJudgeConfig
<1>1. PICK w :
        /\ w = JudgeConfig(<<"judge_config", q>>, p, name)
        /\ \/ Answer(q, "refused")
           \/ Write(q, {}, {w}, "judge_config.create", <<"judge_config", q>>, FALSE)
  BY <1>a
<1>2. Made(q, w, "judge_config", {p})
  BY <1>1, MadeTwo DEF JudgeConfig
<1>3. IsRow(w) /\ Fresh(q, w) /\ w.t = "judge_config" /\ w.id = <<"judge_config", q>>
  <2>1. "judge_config" \in Tables \ {"dataset_version"}
    BY DEF Tables
  <2> QED
    BY <1>2, <2>1, Built
<1> QED
  BY <1>1, <1>3, WritesOne DEF Handled

LEMMA CreateJudgeConfigVersionHandled ==
  ASSUME NEW q, CreateJudgeConfigVersion(q)
  PROVE  Handled(q)
<1>a. PICK jc \in In("judge_config"), pv \in Ids("prompt_version"), v \in Versions : \E w :
        /\ w = JudgeConfigVersion(<<"judge_config_version", q>>, jc.id, v, pv)
        /\ \/ Answer(q, "refused")
           \/ Write(q, {}, {w}, "judge_config_version.create", <<"judge_config_version", q>>, FALSE)
  BY DEF CreateJudgeConfigVersion
<1>1. PICK w :
        /\ w = JudgeConfigVersion(<<"judge_config_version", q>>, jc.id, v, pv)
        /\ \/ Answer(q, "refused")
           \/ Write(q, {}, {w}, "judge_config_version.create", <<"judge_config_version", q>>, FALSE)
  BY <1>a
<1>2. Made(q, w, "judge_config_version", {jc.id, pv})
  BY <1>1, MadeTwo DEF JudgeConfigVersion
<1>3. IsRow(w) /\ Fresh(q, w) /\ w.t = "judge_config_version" /\ w.id = <<"judge_config_version", q>>
  BY <1>2, Built DEF Tables
<1> QED
  BY <1>1, <1>3, WritesOne DEF Handled

LEMMA CreateWebhookHandled ==
  ASSUME NEW q, CreateWebhook(q)
  PROVE  Handled(q)
<1> DEFINE p == req[q].project
<1>1. PICK w : /\ w = WebhookSubscription(<<"webhook_subscription", q>>, p)
               /\ Write(q, {}, {w}, "webhook.create", <<"webhook_subscription", q>>, FALSE)
  BY DEF CreateWebhook
<1>2. Made(q, w, "webhook_subscription", {p})
  BY <1>1, MadeOne DEF WebhookSubscription
<1>3. /\ IsRow(w) /\ Fresh(q, w) /\ w.t = "webhook_subscription"
      /\ w.id = <<"webhook_subscription", q>>
  <2>1. "webhook_subscription" \in Tables \ {"dataset_version"}
    BY DEF Tables
  <2> QED
    BY <1>2, <2>1, Built
<1> QED
  BY <1>1, <1>3, WritesOne

\* The version row is a draft, and flushed before its slices are added.
LEMMA CreateDatasetVersionHandled ==
  ASSUME NEW q, CreateDatasetVersion(q)
  PROVE  Handled(q)
<1>a. PICK d \in In("dataset"), v \in Versions, encrypted, twins \in BOOLEAN : \E class, w :
        /\ w = DatasetVersion(<<"dataset_version", q>>, d.id, v, class, encrypted)
        /\ \/ Answer(q, "refused")
           \/ Write(q, {w}, {}, "dataset_version.create", <<"dataset_version", q>>, twins)
  BY DEF CreateDatasetVersion
<1>1. PICK class, w :
        /\ w = DatasetVersion(<<"dataset_version", q>>, d.id, v, class, encrypted)
        /\ \/ Answer(q, "refused")
           \/ Write(q, {w}, {}, "dataset_version.create", <<"dataset_version", q>>, twins)
  BY <1>a
<1>2. /\ IsRow(w) /\ Fresh(q, w) /\ w.t = "dataset_version"
      /\ w.id = <<"dataset_version", q>>
  BY <1>1, BuiltVersion
<1> QED
  BY <1>1, <1>2, WritesOne DEF Handled

\* Publishing holds a committed version with other columns.
LEMMA PublishHandled ==
  ASSUME RowInv, NEW q, Publish(q)
  PROVE  Handled(q)
<1>a. PICK dv \in In("dataset_version") : \E w :
        /\ w = [dv EXCEPT !.status = "PUBLISHED", !.by = UserId(q),
                          !.refs = @ \cup {UserId(q)}]
        /\ \/ Answer(q, "refused")
           \/ Write(q, {}, {w}, "dataset_version.publish", dv.id, FALSE)
  BY DEF Publish
<1>1. PICK w :
        /\ w = [dv EXCEPT !.status = "PUBLISHED", !.by = UserId(q),
                          !.refs = @ \cup {UserId(q)}]
        /\ \/ Answer(q, "refused")
           \/ Write(q, {}, {w}, "dataset_version.publish", dv.id, FALSE)
  BY <1>a
<1>2. dv \in rows /\ dv.t = "dataset_version" /\ IsRow(dv)
  BY DEF In, RowInv
<1>3. dv \in [t : {dv.t}, id : {dv.id}, key : {dv.key}, refs : {dv.refs}, kind : {dv.kind},
              encrypted : {dv.encrypted}, status : {dv.status}, by : {dv.by}]
  BY <1>2 DEF IsRow
<1>4. w \in [t : {dv.t}, id : {dv.id}, key : {dv.key}, refs : {dv.refs \cup {UserId(q)}},
             kind : {dv.kind}, encrypted : {dv.encrypted}, status : {"PUBLISHED"},
             by : {UserId(q)}]
  BY <1>1, <1>3
<1>5. /\ w.t = "dataset_version" /\ w.id = dv.id /\ w.status = "PUBLISHED"
      /\ w.by = UserId(q) /\ w.key = dv.key /\ w.encrypted = dv.encrypted
  BY <1>2, <1>4
<1>6. IsRow(w)
  BY <1>2, <1>4, <1>5 DEF IsRow
<1> DEFINE entry == <<q, "dataset_version.publish", dv.id, UserId(q)>>
<1>7. /\ entry[1] = q /\ entry[2] = Publishing /\ entry[3] = dv.id /\ entry[4] = UserId(q)
      /\ UserId(q)[1] = "user"
  BY DEF Publishing, UserId
<1>8. dv.id \in VersionIds
  BY DEF VersionIds
<1> HIDE DEF entry
<1>9. Writable(q, {w}, entry, PublishedIds, VersionIds)
  BY <1>5, <1>6, <1>7, <1>8 DEF Writable, Publication
<1>10. {w} = {} \cup {w}
  OBVIOUS
<1>11. Writable(q, {} \cup {w}, entry, PublishedIds, VersionIds)
  BY <1>9, <1>10
<1> QED
  BY <1>1, <1>11 DEF Handled, entry

\* The prompt is new too, or it is a committed one.
LEMMA CreatePromptVersionHandled ==
  ASSUME NEW q, CreatePromptVersion(q)
  PROVE  Handled(q)
<1> DEFINE p == req[q].project
           id == <<"prompt_version", q>>
           pr == <<"prompt", q>>
<1>1. PICK name \in Names, v \in Versions :
        \/ Answer(q, "refused")
        \/ \E x : Write(q, {}, {PromptVersion(id, x.id, v)}, "prompt_version.create", id, FALSE)
        \/ Write(q, {Prompt(pr, p, name)}, {PromptVersion(id, pr, v)},
                 "prompt_version.create", id, FALSE)
  BY DEF CreatePromptVersion
<1>2. ASSUME NEW x PROVE LET w == PromptVersion(id, x, v) IN
             IsRow(w) /\ Fresh(q, w) /\ w.t = "prompt_version" /\ w.id = id
  <2>1. PICK w : w = PromptVersion(id, x, v)
    OBVIOUS
  <2>2. Made(q, w, "prompt_version", {x})
    BY <2>1, MadeTwo DEF PromptVersion
  <2> QED
    BY <2>1, <2>2, Built DEF Tables
<1>3. CASE \E x : Write(q, {}, {PromptVersion(id, x.id, v)}, "prompt_version.create", id, FALSE)
  <2>1. PICK x, w : /\ w = PromptVersion(id, x.id, v)
                    /\ Write(q, {}, {w}, "prompt_version.create", id, FALSE)
    BY <1>3
  <2>2. IsRow(w) /\ Fresh(q, w) /\ w.t = "prompt_version" /\ w.id = id
    BY <1>2, <2>1
  <2> QED
    BY <2>1, <2>2, WritesOne
<1>4. CASE Write(q, {Prompt(pr, p, name)}, {PromptVersion(id, pr, v)},
                 "prompt_version.create", id, FALSE)
  <2>1. PICK u, w : /\ u = Prompt(pr, p, name) /\ w = PromptVersion(id, pr, v)
                    /\ Write(q, {u}, {w}, "prompt_version.create", id, FALSE)
    BY <1>4
  <2>2. IsRow(w) /\ Fresh(q, w) /\ w.t = "prompt_version" /\ w.id = id
    BY <1>2, <2>1
  <2>3. Made(q, u, "prompt", {p})
    BY <2>1, MadeTwo DEF Prompt
  <2>4. IsRow(u) /\ Fresh(q, u) /\ u.t = "prompt"
    BY <2>3, Built DEF Tables
  <2>5. UserId(q)[1] = "user" /\ "prompt" \notin Audited
    BY DEF UserId, Audited
  <2>6. PICK new : new = {u} \cup {w}
    OBVIOUS
  <2>7. Writable(q, new, <<q, "prompt_version.create", id, UserId(q)>>, PublishedIds, VersionIds)
    BY <2>2, <2>4, <2>5, <2>6, NewRowsWritable
  <2>8. Writable(q, {u} \cup {w}, <<q, "prompt_version.create", id, UserId(q)>>,
                 PublishedIds, VersionIds)
    BY <2>6, <2>7
  <2> QED
    BY <2>1, <2>8 DEF Handled
<1> QED
  BY <1>1, <1>3, <1>4 DEF Handled

\* The references of a run: one of a dataset version, which is published.
LEMMA CreateRunHandled ==
  ASSUME RowInv, NEW q, req[q].project[1] = "project", CreateRun(q)
  PROVE  Handled(q)
<1> DEFINE p == req[q].project
           id == <<"run", q>>
<1>0. PICK key \in Keys \cup {Nothing}, m \in Ids("model_version"),
           dv \in In("dataset_version"), mv \in Ids("metric_version"),
           jc \in Ids("judge_config_version") \cup {Nothing} :
        IF key # Nothing /\ Taken("run", <<p, key>>) THEN Answer(q, "done")
        ELSE IF ~Usable(dv) THEN Answer(q, "refused")
        ELSE Write(q, {Run(id, p, key, {m, dv.id, mv, jc} \ {Nothing}, UserId(q))}, {},
                   "run.create", id, FALSE)
  BY DEF CreateRun
<1>1. PICK w :
        /\ w = Run(id, p, key, {m, dv.id, mv, jc} \ {Nothing}, UserId(q))
        /\ \/ \E code \in {"refused", "done"} : Answer(q, code)
           \/ Usable(dv) /\ Write(q, {w}, {}, "run.create", id, FALSE)
  BY <1>0
<1> DEFINE refs == ({m, dv.id, mv, jc} \ {Nothing}) \cup {p, UserId(q)}
<1>2. Made(q, w, "run", refs)
  BY <1>1, MadeTwo DEF Run
<1> HIDE DEF refs
<1>3. IsRow(w) /\ Fresh(q, w) /\ w.t = "run" /\ w.id = id /\ w.refs = refs
  <2>1. "run" \in Tables \ {"dataset_version"}
    BY DEF Tables
  <2> QED
    BY <1>2, <2>1, Built
<1>4. \A i \in refs : i[1] = "dataset_version" => i = dv.id
  <2>1. /\ m[1] = "model_version" /\ mv[1] = "metric_version"
        /\ jc # Nothing => jc[1] = "judge_config_version"
    BY DEF RowInv, Ids, In, IsRow
  <2>2. UserId(q)[1] = "user"
    BY DEF UserId
  <2> QED
    BY <2>1, <2>2 DEF refs
<1>5. ASSUME Usable(dv) PROVE NamesOnly(w, PublishedIds)
  <2>1. dv.id \in PublishedIds
    BY <1>5 DEF Usable, PublishedIds
  <2> QED
    BY <1>3, <1>4, <2>1 DEF NamesOnly
<1>6. CASE Usable(dv) /\ Write(q, {w}, {}, "run.create", id, FALSE)
  BY <1>3, <1>5, <1>6, WritesOne
<1> QED
  BY <1>1, <1>6 DEF Handled

\* A project comes with its owner's membership, and with the owner's own row
\* when the database has none.
LEMMA CreateProjectHandled ==
  ASSUME NEW q, req[q].who.sub \notin Requests, CreateProject(q)
  PROVE  Handled(q)
<1>0. PICK owner : owner = UserId(q)
  OBVIOUS
<1> DEFINE id == <<"project", q>>
           mid == <<"membership", q>>
           entry == <<q, "project.create", id, owner>>
<1>1. PICK name, u, w, x :
        /\ u = User(owner, req[q].who.email)
        /\ w = Project(id, name, owner) /\ x = Membership(mid, id, owner, "owner")
        /\ \/ Answer(q, "refused")
           \/ Write(q, {}, {w, x}, "project.create", id, FALSE)
           \/ Write(q, {u}, {w, x}, "project.create", id, FALSE)
  BY <1>0 DEF CreateProject
<1>2. /\ IsRow(u) /\ Newcomer(q, u) /\ u.t = "user" /\ owner[1] = "user"
  BY <1>0, <1>1, BuiltUser DEF UserId
<1>3. IsRow(w) /\ Fresh(q, w) /\ w.t = "project" /\ w.id = id
  <2>1. Made(q, w, "project", {owner})
    BY <1>1, MadeOne DEF Project
  <2>2. "project" \in Tables \ {"dataset_version"}
    BY DEF Tables
  <2> QED
    BY <2>1, <2>2, Built
<1>4. IsRow(x) /\ Fresh(q, x) /\ x.t = "membership"
  <2>1. Made(q, x, "membership", {id, owner})
    BY <1>1, MadeTwo DEF Membership
  <2>2. "membership" \in Tables \ {"dataset_version"}
    BY DEF Tables
  <2> QED
    BY <2>1, <2>2, Built
<1>5. "user" \notin Audited /\ "membership" \notin Audited
  BY DEF Audited
<1>6. ASSUME NEW new, new = {w, x} \/ new = {u, w, x}
      PROVE  Writable(q, new, entry, PublishedIds, VersionIds)
  <2>1. w \in new /\ \A y \in new : y = u \/ y = w \/ y = x
    BY <1>6
  <2>2. \A y, z \in new : y.t = z.t => y = z
    BY <1>2, <1>3, <1>4, <2>1
  <2>3. \E y \in new : y.id = id
    BY <1>3, <2>1
  <2>4. \A y \in new : /\ IsRow(y) /\ (Fresh(q, y) \/ Newcomer(q, y))
                       /\ y.t = "run" => NamesOnly(y, PublishedIds)
                       /\ y.t \in Audited => y.id = id
    BY <1>2, <1>3, <1>4, <1>5, <2>1
  <2> QED
    BY <1>2, <2>2, <2>3, <2>4, NewRowsWritable
<1>7. /\ Writable(q, {} \cup {w, x}, entry, PublishedIds, VersionIds)
      /\ Writable(q, {u} \cup {w, x}, entry, PublishedIds, VersionIds)
  <2>1. {} \cup {w, x} = {w, x} /\ {u} \cup {w, x} = {u, w, x}
    OBVIOUS
  <2> HIDE DEF entry
  <2> QED
    BY <1>6, <2>1
<1>8. CASE Write(q, {}, {w, x}, "project.create", id, FALSE)
  BY <1>0, <1>7, <1>8 DEF Handled
<1>9. CASE Write(q, {u}, {w, x}, "project.create", id, FALSE)
  BY <1>0, <1>7, <1>9 DEF Handled
<1> QED
  BY <1>1, <1>8, <1>9 DEF Handled

\* A member is found by e-mail, or gets a row of a fresh id.
LEMMA AddMemberHandled ==
  ASSUME NEW q, AddMember(q)
  PROVE  Handled(q)
<1>0. PICK p : p = req[q].project
  OBVIOUS
<1> DEFINE id == <<"membership", q>>
           entry == <<q, "member.add", id, UserId(q)>>
<1>1. PICK email, role, known, u, w :
        /\ u = User(<<"user", q>>, email)
        /\ w = Membership(id, p, known, role)
        /\ \/ Answer(q, "refused")
           \/ Write(q, {}, {w}, "member.add", id, FALSE)
           \/ Write(q, {u}, {w}, "member.add", id, FALSE)
  <2>1. PICK email \in Emails, role \in Granted :
          IF Taken("user", <<email>>)
          THEN \E x \in Keyed("user", <<email>>) :
                 IF Taken("membership", <<p, x.id>>) THEN Answer(q, "refused")
                 ELSE Write(q, {}, {Membership(id, p, x.id, role)}, "member.add", id, FALSE)
          ELSE Write(q, {User(<<"user", q>>, email)}, {Membership(id, p, <<"user", q>>, role)},
                     "member.add", id, FALSE)
    BY <1>0 DEF AddMember
  <2>2. CASE Taken("user", <<email>>)
    BY <2>1, <2>2
  <2>3. CASE ~Taken("user", <<email>>)
    BY <2>1, <2>3
  <2> QED
    BY <2>2, <2>3
<1>2. IsRow(u) /\ Fresh(q, u) /\ u.t = "user" /\ UserId(q)[1] = "user"
  BY <1>1, BuiltUser DEF UserId
<1>3. IsRow(w) /\ Fresh(q, w) /\ w.t = "membership" /\ w.id = id
  <2>1. Made(q, w, "membership", {p, known})
    BY <1>1, MadeTwo DEF Membership
  <2>2. "membership" \in Tables \ {"dataset_version"}
    BY DEF Tables
  <2> QED
    BY <2>1, <2>2, Built
<1>4. "user" \notin Audited
  BY DEF Audited
<1>5. Writable(q, {u} \cup {w}, entry, PublishedIds, VersionIds)
  <2>1. PICK new : new = {u} \cup {w}
    OBVIOUS
  <2>2. Writable(q, new, entry, PublishedIds, VersionIds)
    BY <1>2, <1>3, <1>4, <2>1, NewRowsWritable
  <2> QED
    BY <2>1, <2>2
<1>6. CASE Write(q, {}, {w}, "member.add", id, FALSE)
  BY <1>3, <1>6, WritesOne
<1>7. CASE Write(q, {u}, {w}, "member.add", id, FALSE)
  BY <1>5, <1>7 DEF Handled
<1> QED
  BY <1>1, <1>6, <1>7 DEF Handled

\* Whatever the handler.
LEMMA HandleIsHandled ==
  ASSUME SessionInv, RowInv, NEW q \in Requests, Handle(q)
  PROVE  Handled(q) /\ req[q].phase = "allowed"
<1>1. /\ req[q].phase = "allowed"
      /\ req[q].who.sub \notin Requests
      /\ req[q].do \notin Sync => req[q].project[1] = "project"
  <2>1. req[q].phase = "allowed"
    BY DEF Handle, Handling, CreateProject, AddMember, CreateDataset, CreateDatasetVersion,
           Publish, CreateModel, CreateModelVersion, CreateMetric, CreateMetricVersion,
           CreatePromptVersion, CreateJudgeConfig, CreateJudgeConfigVersion, CreateWebhook,
           CreateRun, UnknownId
  <2> QED
    BY <2>1 DEF SessionInv, GoodSession
<1>2. CASE CreateRun(q)
  <2>1. req[q].do \notin Sync
    BY <1>2 DEF CreateRun, Handling, Sync
  <2> QED
    BY <1>1, <1>2, <2>1, CreateRunHandled
<1>3. CASE UnknownId(q)
  BY <1>1, <1>3 DEF UnknownId, Handled
<1>4. CASE Publish(q)
  BY <1>1, <1>4, PublishHandled
<1>5. CASE CreateProject(q)
  BY <1>1, <1>5, CreateProjectHandled
<1> QED
  BY <1>1, <1>2, <1>3, <1>4, <1>5, AddMemberHandled, CreateDatasetHandled,
     CreateDatasetVersionHandled, CreateModelHandled, CreateModelVersionHandled,
     CreateMetricHandled, CreateMetricVersionHandled, CreatePromptVersionHandled,
     CreateJudgeConfigHandled, CreateJudgeConfigVersionHandled, CreateWebhookHandled
     DEF Handle

----------------------------------------------------------------------------
(* Sessions.  The steps of one request change its session and no other.    *)

OnlyMoves(q) == /\ req' = [x \in Requests |-> req'[x]]
                /\ \A x \in Requests \ {q} : req'[x] = req[x]

LEMMA AfterAnswer ==
  ASSUME SessionInv, NEW q \in Requests, NEW code \in Endings, Answer(q, code)
  PROVE  /\ OnlyMoves(q) /\ req'[q].phase = code
         /\ \A published, versions : GoodSession(q, req'[q], published, versions)
<1>1. PICK s : s = [Idle EXCEPT !.phase = code]
  OBVIOUS
<1>2. s \in [phase : {code}, do : {Nothing}, project : {Nothing}, who : {Nothing}, early : {{}},
             writes : {{}}, entry : {Nothing}, fails : {FALSE}]
  BY <1>1 DEF Idle
<1>3. req'[q] = s /\ OnlyMoves(q)
  BY <1>1 DEF Answer, SessionInv, OnlyMoves
<1>4. /\ s.phase = code /\ s.early = {} /\ s.writes = {} /\ IsSession(s)
      /\ code \notin {"allowed"} \cup Holding
  BY <1>2 DEF IsSession, Endings, Holding
<1> QED
  BY <1>3, <1>4 DEF GoodSession

LEMMA AfterWrite ==
  ASSUME SessionInv, NEW q \in Requests,
         NEW early, NEW late, NEW action, NEW resource, NEW fails,
         Write(q, early, late, action, resource, fails),
         Writable(q, early \cup late, <<q, action, resource, UserId(q)>>, PublishedIds, VersionIds)
  PROVE  /\ OnlyMoves(q) /\ req'[q].phase \in {"staged", "flushing"}
         /\ GoodSession(q, req'[q], PublishedIds, VersionIds)
<1>1. PICK entry : entry = <<q, action, resource, UserId(q)>>
  OBVIOUS
<1>2. PICK phase : phase = IF early = {} THEN "staged" ELSE "flushing"
  OBVIOUS
<1>3. PICK r : r = req[q]
  OBVIOUS
<1>4. r \in [phase : {r.phase}, do : {r.do}, project : {r.project}, who : {r.who},
             early : {r.early}, writes : {r.writes}, entry : {r.entry}, fails : {r.fails}]
  BY <1>3 DEF SessionInv, GoodSession, IsSession
<1>5. req' = [req EXCEPT ![q].phase = phase, ![q].early = early,
                         ![q].writes = early \cup late, ![q].entry = entry, ![q].fails = fails]
  BY <1>1, <1>2 DEF Write
<1>6. PICK new : new = early \cup late
  OBVIOUS
<1>7. req'[q] = [phase |-> phase, do |-> r.do, project |-> r.project, who |-> r.who,
                 early |-> early, writes |-> new, entry |-> entry, fails |-> fails]
  BY <1>3, <1>4, <1>5, <1>6 DEF SessionInv
<1>8. OnlyMoves(q)
  BY <1>5 DEF SessionInv, OnlyMoves
<1>9. PICK s : s = req'[q]
  OBVIOUS
<1>10. /\ s.phase = phase /\ s.early = early /\ s.writes = new /\ s.entry = entry
       /\ IsSession(s)
  BY <1>7, <1>9 DEF IsSession
<1>11. phase \in Holding /\ phase \in {"staged", "flushing"} /\ phase # "allowed"
  BY <1>2 DEF Holding
<1>12. Writable(q, new, entry, PublishedIds, VersionIds)
  BY <1>1, <1>6
<1>13. GoodSession(q, s, PublishedIds, VersionIds)
  BY <1>6, <1>10, <1>11, <1>12 DEF GoodSession
<1> QED
  BY <1>8, <1>9, <1>10, <1>11, <1>13

\* A session that goes on with what it holds.
LEMMA AfterPhase ==
  ASSUME SessionInv, NEW q \in Requests, req[q].phase \in Holding,
         NEW phase \in Holding, req' = [req EXCEPT ![q].phase = phase]
  PROVE  /\ OnlyMoves(q) /\ req'[q].phase = phase
         /\ GoodSession(q, req'[q], PublishedIds, VersionIds)
<1>1. PICK r : r = req[q]
  OBVIOUS
<1>2. /\ GoodSession(q, r, PublishedIds, VersionIds)
      /\ r \in [phase : {r.phase}, do : {r.do}, project : {r.project}, who : {r.who},
                early : {r.early}, writes : {r.writes}, entry : {r.entry}, fails : {r.fails}]
  BY <1>1 DEF SessionInv, GoodSession, IsSession
<1>3. PICK s : s = req'[q]
  OBVIOUS
<1>4. s = [phase |-> phase, do |-> r.do, project |-> r.project, who |-> r.who,
           early |-> r.early, writes |-> r.writes, entry |-> r.entry, fails |-> r.fails]
  BY <1>1, <1>2, <1>3 DEF SessionInv
<1>5. OnlyMoves(q)
  BY DEF SessionInv, OnlyMoves
<1>6. /\ s.phase = phase /\ s.early = r.early /\ s.writes = r.writes /\ s.entry = r.entry
      /\ IsSession(s)
  BY <1>4 DEF IsSession
<1>7. phase # "allowed" /\ r.phase \in Holding
  BY <1>1 DEF Holding
<1>8. GoodSession(q, s, PublishedIds, VersionIds)
  BY <1>2, <1>6, <1>7 DEF GoodSession
<1> QED
  BY <1>3, <1>5, <1>6, <1>8

LEMMA AfterHandle ==
  ASSUME SessionInv, RowInv, NEW q \in Requests, Handle(q)
  PROVE  /\ OnlyMoves(q) /\ req[q].phase = "allowed"
         /\ GoodSession(q, req'[q], PublishedIds, VersionIds)
<1>1. Handled(q) /\ req[q].phase = "allowed"
  BY HandleIsHandled
<1>2. CASE \E code \in {"refused", "done"} : Answer(q, code)
  <2>1. PICK code \in {"refused", "done"} : Answer(q, code)
    BY <1>2
  <2>2. code \in Endings
    BY DEF Endings
  <2> QED
    BY <1>1, <2>1, <2>2, AfterAnswer
<1>3. CASE \E early, late, action, resource, fails :
             /\ Write(q, early, late, action, resource, fails)
             /\ Writable(q, early \cup late, <<q, action, resource, UserId(q)>>,
                         PublishedIds, VersionIds)
  BY <1>1, <1>3, AfterWrite
<1> QED
  BY <1>1, <1>2, <1>3 DEF Handled

----------------------------------------------------------------------------
(* Steps that commit nothing.                                              *)

LEMMA CacheFrame ==
  ASSUME CacheInv, UNCHANGED rows, roleCache' \subseteq roleCache
  PROVE  CacheInv'
  BY DEF CacheInv, CacheIsCurrent, StoredRole, Taken, Keyed, In

LEMMA NothingCommitted ==
  ASSUME CatalogInv, UNCHANGED <<rows, audit>>, NEW q \in Requests, OnlyMoves(q),
         req[q].phase # "done", GoodSession(q, req'[q], PublishedIds, VersionIds),
         LoopInv', CacheInv', crashes' \in 0 .. MaxCrashes
  PROVE  CatalogInv'
<1>1. PublishedIds' = PublishedIds /\ VersionIds' = VersionIds
  BY DEF PublishedIds, VersionIds, In
<1>2. SessionInv'
  <2>1. ASSUME NEW x \in Requests PROVE GoodSession(x, req'[x], PublishedIds, VersionIds)
    BY DEF CatalogInv, SessionInv, OnlyMoves
  <2>2. ASSUME NEW x \in Requests PROVE GoodSession(x, req'[x], PublishedIds', VersionIds')
    BY <1>1, <2>1
  <2>3. req' = [x \in Requests |-> req'[x]]
    BY DEF OnlyMoves
  <2> QED
    BY <2>2, <2>3 DEF SessionInv
<1>3. IdInv'
  <2>1. ASSUME NEW r \in rows, r.id[2] \in Requests PROVE req'[r.id[2]].phase = "done"
    BY <2>1 DEF CatalogInv, IdInv, OnlyMoves
  <2> QED
    BY <2>1 DEF CatalogInv, IdInv
<1>4. RowInv'
  BY <1>1 DEF CatalogInv, RowInv
<1>5. NoTwins' /\ AuditInv'
  BY DEF CatalogInv, NoTwins, AuditInv, AuditTellsTheTruth, EntriesOf
<1> QED
  BY <1>2, <1>3, <1>4, <1>5 DEF CatalogInv

LEMMA HandleStep ==
  ASSUME CatalogInv, NEW q \in Requests, Handle(q)
  PROVE  CatalogInv'
<1>1. /\ OnlyMoves(q) /\ req[q].phase = "allowed"
      /\ GoodSession(q, req'[q], PublishedIds, VersionIds)
  BY AfterHandle DEF CatalogInv
<1>2. UNCHANGED <<rows, audit, roleCache, crashes>> /\ Scheduled(q)
  BY DEF Handle, Stored
<1>3. LoopInv'
  <2>1. CASE loop' = loop
    BY <1>1, <2>1 DEF CatalogInv, LoopInv, OnlyMoves
  <2>2. CASE loop' = IF req'[q].phase = "flushing" THEN q ELSE Nothing
    BY <2>2 DEF LoopInv
  <2> QED
    BY <1>2, <2>1, <2>2 DEF Scheduled
<1>4. CacheInv'
  BY <1>2, CacheFrame DEF CatalogInv
<1> QED
  BY <1>1, <1>2, <1>3, <1>4, NothingCommitted DEF CatalogInv

LEMMA FlushStep ==
  ASSUME CatalogInv, NEW q \in Requests, Flush(q)
  PROVE  CatalogInv'
<1>1. /\ req[q].phase = "flushing" /\ UNCHANGED <<rows, audit, roleCache, crashes>>
      /\ loop' = IF loop = q THEN Nothing ELSE loop
      /\ \/ Answer(q, "error")
         \/ req' = [req EXCEPT ![q].phase = "staged"]
  BY DEF Flush, Stored
<1>2. "error" \in Endings /\ "staged" \in Holding /\ "flushing" \in Holding
  BY DEF Endings, Holding
<1>3. OnlyMoves(q) /\ GoodSession(q, req'[q], PublishedIds, VersionIds)
  <2>1. CASE Answer(q, "error")
    BY <1>2, <2>1, AfterAnswer DEF CatalogInv
  <2>2. CASE req' = [req EXCEPT ![q].phase = "staged"]
    BY <1>1, <1>2, <2>2, AfterPhase DEF CatalogInv
  <2> QED
    BY <1>1, <2>1, <2>2
<1>4. LoopInv'
  BY <1>1, <1>3 DEF CatalogInv, LoopInv, OnlyMoves
<1>5. CacheInv'
  BY <1>1, CacheFrame DEF CatalogInv
<1> QED
  BY <1>1, <1>3, <1>4, <1>5, NothingCommitted DEF CatalogInv

LEMMA LeaveStep ==
  ASSUME CatalogInv, NEW q \in Requests, Leave(q)
  PROVE  CatalogInv'
<1>1. /\ req[q].phase = "staged" /\ UNCHANGED <<rows, audit, roleCache, crashes>>
      /\ loop = Nothing /\ loop' = loop /\ req' = [req EXCEPT ![q].phase = "committing"]
  BY DEF Leave, Stored
<1>2. "staged" \in Holding /\ "committing" \in Holding
  BY DEF Holding
<1>3. OnlyMoves(q) /\ GoodSession(q, req'[q], PublishedIds, VersionIds)
  BY <1>1, <1>2, AfterPhase DEF CatalogInv
<1>4. LoopInv' /\ CacheInv'
  BY <1>1, CacheFrame DEF CatalogInv, LoopInv
<1> QED
  BY <1>1, <1>3, <1>4, NothingCommitted DEF CatalogInv

LEMMA RollBackStep ==
  ASSUME CatalogInv, NEW q \in Requests, req[q].phase = "committing", RollBack(q),
         UNCHANGED <<roleCache, loop, crashes>>
  PROVE  CatalogInv'
<1>1. Answer(q, "error") /\ UNCHANGED <<rows, audit>> /\ "error" \in Endings
  BY DEF RollBack, Endings
<1>2. OnlyMoves(q) /\ GoodSession(q, req'[q], PublishedIds, VersionIds)
  BY <1>1, AfterAnswer DEF CatalogInv
<1>3. LoopInv'
  BY <1>2 DEF CatalogInv, LoopInv, OnlyMoves
<1>4. CacheInv'
  BY <1>1, CacheFrame DEF CatalogInv
<1> QED
  BY <1>1, <1>2, <1>3, <1>4, NothingCommitted DEF CatalogInv

LEMMA EvictStep ==
  ASSUME CatalogInv, NEW e, EvictRole(e)
  PROVE  CatalogInv'
<1>1. UNCHANGED <<rows, audit, req, loop, crashes>> /\ roleCache' \subseteq roleCache
  BY DEF EvictRole
<1>2. CacheInv'
  BY <1>1, CacheFrame DEF CatalogInv
<1>3. PublishedIds' = PublishedIds /\ VersionIds' = VersionIds
  BY <1>1 DEF PublishedIds, VersionIds, In
<1> QED
  BY <1>1, <1>2, <1>3 DEF CatalogInv, SessionInv, LoopInv, IdInv, RowInv, NoTwins, AuditInv,
     AuditTellsTheTruth, EntriesOf

LEMMA CrashStep ==
  ASSUME CatalogInv, Crash
  PROVE  CatalogInv'
<1>1. /\ UNCHANGED <<rows, audit, roleCache>> /\ loop' = Nothing
      /\ crashes < MaxCrashes /\ crashes' = crashes + 1
      /\ req' = [q \in Requests |-> IF Open(q) THEN [Idle EXCEPT !.phase = "error"] ELSE req[q]]
  BY DEF Crash
<1>2. PICK s : s = [Idle EXCEPT !.phase = "error"]
  OBVIOUS
<1>3. s \in [phase : {"error"}, do : {Nothing}, project : {Nothing}, who : {Nothing},
             early : {{}}, writes : {{}}, entry : {Nothing}, fails : {FALSE}]
  BY <1>2 DEF Idle
<1>4. /\ s.phase = "error" /\ s.early = {} /\ s.writes = {} /\ IsSession(s)
      /\ "error" \in Endings /\ "error" \notin {"allowed"} \cup Holding
  BY <1>3 DEF IsSession, Endings, Holding
<1>5. \A q \in Requests : GoodSession(q, s, PublishedIds, VersionIds)
  BY <1>4 DEF GoodSession
<1>6. \A q \in Requests : IF Open(q) THEN req'[q] = s ELSE req'[q] = req[q]
  BY <1>1, <1>2
<1>7. PublishedIds' = PublishedIds /\ VersionIds' = VersionIds
  BY <1>1 DEF PublishedIds, VersionIds, In
<1>8. SessionInv'
  <2>1. ASSUME NEW x \in Requests PROVE GoodSession(x, req'[x], PublishedIds, VersionIds)
    BY <1>5, <1>6 DEF CatalogInv, SessionInv
  <2>2. ASSUME NEW x \in Requests PROVE GoodSession(x, req'[x], PublishedIds', VersionIds')
    BY <1>7, <2>1
  <2>3. req' = [x \in Requests |-> req'[x]]
    BY <1>1
  <2> QED
    BY <2>2, <2>3 DEF SessionInv
<1>9. IdInv'
  <2>1. ASSUME NEW r \in rows, r.id[2] \in Requests PROVE req'[r.id[2]].phase = "done"
    BY <1>6, <2>1 DEF CatalogInv, IdInv, Open
  <2> QED
    BY <1>1, <2>1 DEF CatalogInv, IdInv
<1>10. RowInv' /\ NoTwins' /\ AuditInv'
  BY <1>1, <1>7 DEF CatalogInv, RowInv, NoTwins, AuditInv, AuditTellsTheTruth, EntriesOf
<1>11. LoopInv' /\ CacheInv'
  BY <1>1, CacheFrame DEF CatalogInv, LoopInv
<1>12. crashes' \in 0 .. MaxCrashes
  BY <1>1, CatalogAssumption DEF CatalogInv
<1> QED
  BY <1>8, <1>9, <1>10, <1>11, <1>12 DEF CatalogInv

\* What a check finds, in the cache or in the table, is the role in the table.
LEMMA CheckedIsStored ==
  ASSUME CacheInv, NEW u, NEW p
  PROVE  CheckedRole(u, p) = StoredRole(u, p)
<1>1. CASE Cached(u, p) # {}
  <2> DEFINE e == CHOOSE e \in Cached(u, p) : TRUE
  <2>1. e \in Cached(u, p)
    BY <1>1
  <2> HIDE DEF e
  <2>2. e \in roleCache /\ e[1] = u /\ e[2] = p
    BY <2>1 DEF Cached
  <2>3. e[3] = StoredRole(u, p)
    BY <2>2 DEF CacheInv, CacheIsCurrent
  <2> QED
    BY <1>1, <2>3 DEF CheckedRole, e
<1>2. CASE Cached(u, p) = {}
  BY <1>2 DEF CheckedRole
<1> QED
  BY <1>1, <1>2

LEMMA AuthorizeStep ==
  ASSUME CatalogInv, NEW q \in Requests, Authorize(q)
  PROVE  CatalogInv'
<1>1. PICK call \in Calls[q], p \in Ids("project") \cup {Nothing}, asked \in BOOLEAN :
        /\ req[q].phase = "idle" /\ loop = Nothing
        /\ (p = Nothing) <=> (call[2] \in Sync)
        /\ \/ req' = [req EXCEPT ![q] = [Idle EXCEPT
                !.phase = "allowed", !.do = call[2], !.project = p, !.who = call[1]]]
           \/ \E code \in Endings : Answer(q, code)
        /\ LET u == <<"user", call[1].sub>>  role == CheckedRole(u, p) IN
           roleCache' = IF asked THEN roleCache \cup Remembered(u, p, role) ELSE roleCache
        /\ UNCHANGED <<rows, audit, loop, crashes>>
  BY DEF Authorize, Endings
<1>2. OnlyMoves(q) /\ GoodSession(q, req'[q], PublishedIds, VersionIds)
  <2>1. CASE \E code \in Endings : Answer(q, code)
    BY <2>1, AfterAnswer DEF CatalogInv
  <2>2. CASE req' = [req EXCEPT ![q] = [Idle EXCEPT
               !.phase = "allowed", !.do = call[2], !.project = p, !.who = call[1]]]
    <3>1. PICK do, who : do = call[2] /\ who = call[1]
      OBVIOUS
    <3>2. PICK s : s = [Idle EXCEPT !.phase = "allowed", !.do = do, !.project = p, !.who = who]
      OBVIOUS
    <3>3. s \in [phase : {"allowed"}, do : {do}, project : {p}, who : {who}, early : {{}},
                 writes : {{}}, entry : {Nothing}, fails : {FALSE}]
      BY <3>2 DEF Idle
    <3>4. req' = [req EXCEPT ![q] = s]
      BY <2>2, <3>1, <3>2
    <3>5. req'[q] = s /\ OnlyMoves(q)
      BY <3>4 DEF CatalogInv, SessionInv, OnlyMoves
    <3>6. /\ s.phase = "allowed" /\ s.do = do /\ s.project = p /\ s.who = who
          /\ s.early = {} /\ s.writes = {} /\ IsSession(s) /\ "allowed" \notin Holding
      BY <3>3 DEF IsSession, Holding
    <3>7. who.sub \notin Requests
      BY <3>1, SeedAssumption
    <3>8. do \notin Sync => p[1] = "project"
      BY <1>1, <3>1 DEF CatalogInv, RowInv, Ids, In, IsRow
    <3>9. GoodSession(q, s, PublishedIds, VersionIds)
      BY <3>6, <3>7, <3>8 DEF GoodSession
    <3> QED
      BY <3>5, <3>9
  <2> QED
    BY <1>1, <2>1, <2>2
<1>3. CacheInv'
  <2>1. PICK u : u = <<"user", call[1].sub>>
    OBVIOUS
  <2>2. PICK role : role = StoredRole(u, p)
    OBVIOUS
  <2>3. CheckedRole(u, p) = role
    BY <2>2, CheckedIsStored DEF CatalogInv
  <2>4. roleCache' \subseteq roleCache \cup Remembered(u, p, role)
    BY <1>1, <2>1, <2>3
  <2>5. ASSUME NEW e \in roleCache' PROVE e[3] = StoredRole(e[1], e[2]) /\ e[3] # Nothing
    <3>1. CASE e \in roleCache
      BY <3>1 DEF CatalogInv, CacheInv, CacheIsCurrent
    <3>2. CASE e \in Remembered(u, p, role)
      <4>1. e = <<u, p, role>> /\ role # Nothing
        BY <3>2 DEF Remembered
      <4>2. e[1] = u /\ e[2] = p /\ e[3] = role
        BY <4>1
      <4> QED
        BY <2>2, <4>1, <4>2
    <3> QED
      BY <2>4, <3>1, <3>2
  <2>6. ASSUME NEW a, NEW b PROVE StoredRole(a, b)' = StoredRole(a, b)
    BY <1>1 DEF StoredRole, Taken, Keyed, In
  <2>7. ASSUME NEW e \in roleCache' PROVE e[3] = StoredRole(e[1], e[2])' /\ e[3] # Nothing
    BY <2>5, <2>6
  <2> QED
    BY <2>7 DEF CacheInv, CacheIsCurrent
<1>4. LoopInv' /\ crashes' \in 0 .. MaxCrashes
  BY <1>1 DEF CatalogInv, LoopInv
<1> QED
  BY <1>1, <1>2, <1>3, <1>4, NothingCommitted

----------------------------------------------------------------------------
(* A commit.  The new rows stand beside the committed ones, or in the place *)
(* of the version they publish.                                            *)

\* What ~Violates and Writable say of the rows that a commit writes.
CommitOf(q, new, entry) ==
  /\ Writable(q, new, entry, PublishedIds, VersionIds)
  /\ \A w \in new, r \in rows : ~SameKey(w, r)
  /\ \A w \in new : w.refs \subseteq {r.id : r \in rows \cup new}
  /\ rows' = {r \in rows : r.id \notin {w.id : w \in new}} \cup new
  /\ audit' = audit \cup {entry}

\* A new row has a new id, unless it is a publication.
LEMMA NewIds ==
  ASSUME IdInv, NEW q \in Requests, req[q].phase # "done", NEW new, NEW entry,
         CommitOf(q, new, entry), NEW w \in new
  PROVE  \/ w.by = Nothing /\ \A r \in rows : r.id # w.id
         \/ Publication(w, entry, VersionIds)
<1>1. CASE Fresh(q, w)
  <2>1. w.id[2] = q /\ w.by = Nothing
    BY <1>1 DEF Fresh
  <2> QED
    BY <2>1 DEF IdInv
<1>2. CASE Newcomer(q, w)
  BY <1>2 DEF Newcomer, CommitOf, SameKey
<1> QED
  BY <1>1, <1>2 DEF CommitOf, Writable

\* Ids are never taken away, and versions never published no longer.
LEMMA CommitGrows ==
  ASSUME IdInv, NEW q \in Requests, req[q].phase # "done", NEW new, NEW entry,
         CommitOf(q, new, entry)
  PROVE  /\ {r.id : r \in rows} \subseteq {r.id : r \in rows'}
         /\ {w.id : w \in new} \subseteq {r.id : r \in rows'}
         /\ VersionIds \subseteq VersionIds' /\ PublishedIds \subseteq PublishedIds'
<1>1. rows' = {r \in rows : r.id \notin {w.id : w \in new}} \cup new
  BY DEF CommitOf
<1>2. ASSUME NEW r \in rows PROVE \E s \in rows' : s.id = r.id
  BY <1>1
<1>3. ASSUME NEW r \in rows, r.t = "dataset_version"
      PROVE  \E s \in rows' : /\ s.id = r.id /\ s.t = "dataset_version"
                              /\ r.status = "PUBLISHED" => s.status = "PUBLISHED"
  <2>1. CASE r \in rows'
    BY <1>3, <2>1
  <2>2. CASE r \notin rows'
    <3>1. PICK w \in new : w.id = r.id
      BY <1>1, <2>2
    <3>2. Publication(w, entry, VersionIds)
      BY <3>1, NewIds
    <3> QED
      BY <1>1, <3>1, <3>2 DEF Publication
  <2> QED
    BY <2>1, <2>2
<1>4. VersionIds \subseteq VersionIds'
  BY <1>3 DEF VersionIds, In
<1>5. PublishedIds \subseteq PublishedIds'
  BY <1>3 DEF PublishedIds, In
<1> QED
  BY <1>1, <1>2, <1>4, <1>5

LEMMA CommitKeepsIds ==
  ASSUME IdInv, NEW q \in Requests, req[q].phase # "done", NEW new, NEW entry,
         CommitOf(q, new, entry), OnlyMoves(q), req'[q].phase = "done"
  PROVE  IdInv'
<1>1. rows' = {r \in rows : r.id \notin {w.id : w \in new}} \cup new
  BY DEF CommitOf
<1>2. ASSUME NEW r \in new, NEW s \in new, r.id = s.id PROVE r = s
  <2>1. r.t = s.t
    BY <1>2 DEF CommitOf, Writable, IsRow
  <2> QED
    BY <2>1 DEF CommitOf, Writable
<1>3. ASSUME NEW r \in rows', NEW s \in rows', r.id = s.id PROVE r = s
  BY <1>1, <1>2, <1>3 DEF IdInv
<1>4. ASSUME NEW r \in rows, r.id[2] \in Requests PROVE req'[r.id[2]].phase = "done"
  BY <1>4 DEF IdInv, OnlyMoves
<1>5. ASSUME NEW w \in new, w.id[2] \in Requests PROVE req'[w.id[2]].phase = "done"
  <2>1. CASE Fresh(q, w)
    <3>1. w.id[2] = q
      BY <2>1 DEF Fresh
    <3> QED
      BY <3>1
  <2>2. CASE Newcomer(q, w)
    BY <1>5, <2>2 DEF Newcomer
  <2>3. CASE Publication(w, entry, VersionIds)
    <3>1. PICK r \in rows : r.id = w.id
      BY <2>3 DEF Publication, VersionIds, In
    <3> QED
      BY <1>4, <1>5, <3>1
  <2> QED
    BY <2>1, <2>2, <2>3 DEF CommitOf, Writable
<1> QED
  BY <1>1, <1>3, <1>4, <1>5 DEF IdInv

LEMMA CommitKeepsRows ==
  ASSUME IdInv, RowInv, NoTwins, NEW q \in Requests, req[q].phase # "done", NEW new, NEW entry,
         CommitOf(q, new, entry)
  PROVE  RowInv' /\ NoTwins'
<1>1. rows' = {r \in rows : r.id \notin {w.id : w \in new}} \cup new
  BY DEF CommitOf
<1>2. /\ {r.id : r \in rows} \subseteq {r.id : r \in rows'}
      /\ {w.id : w \in new} \subseteq {r.id : r \in rows'}
      /\ PublishedIds \subseteq PublishedIds'
  BY CommitGrows
<1>3. ASSUME NEW r \in rows, r \in rows'
      PROVE  /\ IsRow(r) /\ r.refs \subseteq {s.id : s \in rows'}
             /\ r.t = "run" => NamesOnly(r, PublishedIds')
  BY <1>2 DEF RowInv, NamesOnly
<1>4. ASSUME NEW w \in new
      PROVE  /\ IsRow(w) /\ w.refs \subseteq {s.id : s \in rows'}
             /\ w.t = "run" => NamesOnly(w, PublishedIds')
  <2>1. w.refs \subseteq {s.id : s \in rows'}
    BY <1>2 DEF CommitOf
  <2>2. IsRow(w) /\ (w.t = "run" => NamesOnly(w, PublishedIds))
    BY DEF CommitOf, Writable
  <2> QED
    BY <1>2, <2>1, <2>2 DEF NamesOnly
<1>5. RowInv'
  BY <1>1, <1>3, <1>4 DEF RowInv
<1>6. ASSUME NEW w \in new, NEW r \in rows, r \in rows', w.key = r.key PROVE w.id = r.id
  BY <1>6 DEF CommitOf, SameKey
<1>7. ASSUME NEW w \in new, NEW x \in new, w.key = x.key PROVE w.id = x.id
  <2>1. w.t = x.t
    BY <1>7 DEF CommitOf, Writable, IsRow
  <2> QED
    BY <2>1 DEF CommitOf, Writable
<1>8. NoTwins'
  BY <1>1, <1>6, <1>7 DEF NoTwins
<1> QED
  BY <1>5, <1>8

\* A membership that exists is neither changed nor doubled.
LEMMA CommitKeepsRoles ==
  ASSUME IdInv, RowInv, CacheInv, NEW q \in Requests, req[q].phase # "done",
         NEW new, NEW entry, CommitOf(q, new, entry), roleCache' = roleCache
  PROVE  CacheInv'
<1>1. rows' = {r \in rows : r.id \notin {w.id : w \in new}} \cup new
  BY DEF CommitOf
<1>2. ASSUME NEW u, NEW p, Taken("membership", <<p, u>>)
      PROVE  Keyed("membership", <<p, u>>)' = Keyed("membership", <<p, u>>)
  <2>1. PICK key : key = <<"membership">> \o <<p, u>>
    OBVIOUS
  <2>2. PICK m \in rows : m.t = "membership" /\ m.key = key
    BY <1>2, <2>1 DEF Taken, Keyed, In
  <2>3. ASSUME NEW r \in rows, r.t = "membership" PROVE r \in rows'
    <3>1. ASSUME NEW w \in new, w.id = r.id PROVE FALSE
      <4>1. Publication(w, entry, VersionIds)
        BY <3>1, NewIds
      <4>2. w.t = w.id[1] /\ r.t = r.id[1]
        BY DEF CommitOf, Writable, RowInv, IsRow
      <4> QED
        BY <2>3, <3>1, <4>1, <4>2 DEF Publication
    <3> QED
      BY <1>1, <3>1
  <2>4. ASSUME NEW w \in new, w.t = "membership" PROVE w.key # key
    <3>1. w.id # m.id
      <4>1. ~Publication(w, entry, VersionIds)
        BY <2>4 DEF Publication
      <4> QED
        BY <4>1, NewIds
    <3> QED
      BY <2>2, <3>1 DEF CommitOf, SameKey
  <2>5. \A r : r \in rows' /\ r.t = "membership" /\ r.key = key
               <=> r \in rows /\ r.t = "membership" /\ r.key = key
    BY <1>1, <2>3, <2>4
  <2>6. {r \in {s \in rows' : s.t = "membership"} : r.key = key}
          = {r \in {s \in rows : s.t = "membership"} : r.key = key}
    BY <2>5
  <2> QED
    BY <2>1, <2>6 DEF Keyed, In
<1>3. ASSUME NEW e \in roleCache PROVE e[3] = StoredRole(e[1], e[2])' /\ e[3] # Nothing
  <2>1. PICK u, p : u = e[1] /\ p = e[2]
    OBVIOUS
  <2>2. e[3] = StoredRole(u, p) /\ e[3] # Nothing
    BY <2>1 DEF CacheInv, CacheIsCurrent
  <2>3. Taken("membership", <<p, u>>)
    BY <2>2 DEF StoredRole
  <2>4. Keyed("membership", <<p, u>>)' = Keyed("membership", <<p, u>>)
    BY <1>2, <2>3
  <2>5. StoredRole(u, p)' = StoredRole(u, p)
    <3>1. \A k, l : k = l => (CHOOSE m \in k : TRUE) = (CHOOSE m \in l : TRUE)
      BY Zenon
    <3>2. (CHOOSE m \in Keyed("membership", <<p, u>>) : TRUE)'
            = (CHOOSE m \in Keyed("membership", <<p, u>>) : TRUE)
      BY <2>4, <3>1
    <3> QED
      BY <2>4, <3>2 DEF StoredRole, Taken
  <2> QED
    BY <2>1, <2>2, <2>5
<1> QED
  BY <1>3 DEF CacheInv, CacheIsCurrent

\* The entry tells of the one audited row, which is committed with it.
LEMMA CommitIsAudited ==
  ASSUME IdInv, AuditInv, NEW q \in Requests, req[q].phase # "done", NEW new, NEW entry,
         CommitOf(q, new, entry)
  PROVE  AuditInv'
<1>1. /\ rows' = {r \in rows : r.id \notin {w.id : w \in new}} \cup new
      /\ audit' = audit \cup {entry}
  BY DEF CommitOf
<1>2. {r.id : r \in rows} \subseteq {r.id : r \in rows'}
  BY CommitGrows
<1>3. ASSUME NEW a \in audit' PROVE \E r \in rows' : r.id = a[3]
  <2>1. CASE a \in audit
    BY <1>2, <2>1 DEF AuditInv, AuditTellsTheTruth
  <2>2. CASE a = entry
    BY <1>1, <2>2 DEF CommitOf, Writable
  <2> QED
    BY <1>1, <2>1, <2>2
<1>4. ASSUME NEW a \in audit' PROVE a[1] \in Requests /\ a[4][1] = "user"
  BY <1>1 DEF AuditInv, CommitOf, Writable
<1>5. \A i : EntriesOf(i) \subseteq EntriesOf(i)'
  BY <1>1 DEF EntriesOf
<1>6. ASSUME NEW r \in rows' \ Seed
      PROVE  /\ r.t \in Audited => EntriesOf(r.id)' # {}
             /\ r.by # Nothing =>
                  \E a \in EntriesOf(r.id)' : a[2] = Publishing /\ a[4] = r.by
  <2>1. PICK i : i = r.id
    OBVIOUS
  <2>2. CASE r \in rows
    <3>1. /\ r.t \in Audited => EntriesOf(i) # {}
          /\ r.by # Nothing => \E a \in EntriesOf(i) : a[2] = Publishing /\ a[4] = r.by
      BY <1>6, <2>1, <2>2 DEF AuditInv, AuditTellsTheTruth, Publishing
    <3> QED
      BY <1>5, <2>1, <3>1
  <2>3. CASE r \in new
    <3>1. r.t \in Audited => entry \in EntriesOf(i)'
      BY <1>1, <2>1, <2>3 DEF CommitOf, Writable, EntriesOf
    <3>2. CASE Publication(r, entry, VersionIds)
      <4>1. entry \in EntriesOf(i)' /\ entry[2] = Publishing /\ entry[4] = r.by
        BY <1>1, <2>1, <3>2 DEF Publication, EntriesOf
      <4> QED
        BY <2>1, <4>1
    <3>3. CASE r.by = Nothing
      BY <2>1, <3>1, <3>3
    <3> QED
      BY <2>3, <3>2, <3>3, NewIds
  <2> QED
    BY <1>1, <2>2, <2>3
<1>7. AuditTellsTheTruth'
  BY <1>3, <1>6 DEF AuditTellsTheTruth, Publishing
<1> QED
  BY <1>4, <1>7 DEF AuditInv

LEMMA CommitStep ==
  ASSUME CatalogInv, NEW q \in Requests, Commit(q)
  PROVE  CatalogInv'
<1>1. PICK new, entry : new = req[q].writes /\ entry = req[q].entry
  OBVIOUS
<1>2. req[q].phase = "committing" /\ UNCHANGED <<roleCache, loop, crashes>>
  BY DEF Commit
<1>3. CASE RollBack(q)
  BY <1>2, <1>3, RollBackStep
<1>4. CASE /\ ~Violates(new) /\ Answer(q, "done")
           /\ rows' = {r \in rows : r.id \notin {w.id : w \in new}} \cup new
           /\ audit' = audit \cup {entry}
  <2>1. Writable(q, new, entry, PublishedIds, VersionIds)
    BY <1>1, <1>2 DEF CatalogInv, SessionInv, GoodSession, Holding
  <2>2. CommitOf(q, new, entry)
    BY <1>4, <2>1 DEF CommitOf, Violates
  <2>3. "done" \in Endings
    BY DEF Endings
  <2>4. /\ OnlyMoves(q) /\ req'[q].phase = "done"
        /\ \A published, versions : GoodSession(q, req'[q], published, versions)
    BY <1>4, <2>3, AfterAnswer DEF CatalogInv
  <2>5. IdInv' /\ RowInv' /\ NoTwins'
    BY <1>2, <2>2, <2>4, CommitKeepsIds, CommitKeepsRows DEF CatalogInv
  <2>6. CacheInv' /\ AuditInv'
    BY <1>2, <2>2, CommitKeepsRoles, CommitIsAudited DEF CatalogInv
  <2>7. VersionIds \subseteq VersionIds' /\ PublishedIds \subseteq PublishedIds'
    BY <1>2, <2>2, CommitGrows DEF CatalogInv
  <2>8. \A x \in Requests : GoodSession(x, req'[x], PublishedIds', VersionIds')
    <3>1. \A x, s, p1, p2, v1, v2 : p1 \subseteq p2 /\ v1 \subseteq v2 /\ GoodSession(x, s, p1, v1)
                                    => GoodSession(x, s, p2, v2)
      BY DEF GoodSession, Writable, Publication, NamesOnly
    <3>2. ASSUME NEW x \in Requests \ {q} PROVE GoodSession(x, req'[x], PublishedIds', VersionIds')
      <4>1. GoodSession(x, req'[x], PublishedIds, VersionIds)
        BY <2>4 DEF OnlyMoves, CatalogInv, SessionInv
      <4> QED
        BY <2>7, <3>1, <4>1
    <3> QED
      BY <2>4, <3>2
  <2>9. SessionInv'
    BY <2>4, <2>8 DEF SessionInv, OnlyMoves
  <2>10. LoopInv' /\ crashes' \in 0 .. MaxCrashes
    BY <1>2, <2>4 DEF CatalogInv, LoopInv, OnlyMoves
  <2> QED
    BY <2>5, <2>6, <2>9, <2>10 DEF CatalogInv
<1> QED
  BY <1>1, <1>3, <1>4 DEF Commit

----------------------------------------------------------------------------
(* The invariant, and what follows from it.                                *)

LEMMA CatalogStarts == Init => CatalogInv
<1> SUFFICES ASSUME Init PROVE CatalogInv
  OBVIOUS
<1>1. /\ rows = Seed /\ audit = {} /\ roleCache = {} /\ loop = Nothing /\ crashes = 0
      /\ req = [q \in Requests |-> Idle]
  BY DEF Init
<1>2. SessionInv
  <2>1. PICK s : s = Idle
    OBVIOUS
  <2>2. s \in [phase : {"idle"}, do : {Nothing}, project : {Nothing}, who : {Nothing},
               early : {{}}, writes : {{}}, entry : {Nothing}, fails : {FALSE}]
    BY <2>1 DEF Idle
  <2>3. /\ s.phase = "idle" /\ s.early = {} /\ s.writes = {} /\ IsSession(s)
        /\ "idle" \notin {"allowed"} \cup Holding
    BY <2>2 DEF IsSession, Holding
  <2>4. \A q \in Requests : GoodSession(q, s, PublishedIds, VersionIds)
    BY <2>3 DEF GoodSession
  <2> QED
    BY <1>1, <2>1, <2>4 DEF SessionInv
<1>3. IdInv /\ NoTwins
  BY <1>1, SeedAssumption DEF IdInv, NoTwins
<1>4. RowInv
  <2>1. ASSUME NEW r \in rows, r.t = "run", NEW i \in r.refs, i[1] = "dataset_version"
        PROVE  i \in PublishedIds
    <3>1. PICK d \in Seed : d.id = i
      BY <1>1, SeedAssumption
    <3>2. d.t = "dataset_version"
      BY <2>1, <3>1, SeedAssumption DEF IsRow
    <3>3. d.status = "PUBLISHED"
      BY <1>1, <2>1, <3>1, <3>2, SeedAssumption
    <3> QED
      BY <1>1, <3>1, <3>2, <3>3 DEF PublishedIds, In
  <2>2. ASSUME NEW r \in rows PROVE IsRow(r) /\ r.refs \subseteq {s.id : s \in rows}
    BY <1>1, SeedAssumption
  <2> QED
    BY <2>1, <2>2 DEF RowInv, NamesOnly
<1>5. LoopInv /\ CacheInv /\ AuditInv /\ crashes \in 0 .. MaxCrashes
  BY <1>1, CatalogAssumption DEF LoopInv, CacheInv, CacheIsCurrent, AuditInv, AuditTellsTheTruth
<1> QED
  BY <1>2, <1>3, <1>4, <1>5 DEF CatalogInv

LEMMA CatalogStep == CatalogInv /\ [Next]_vars => CatalogInv'
<1> SUFFICES ASSUME CatalogInv, [Next]_vars PROVE CatalogInv'
  OBVIOUS
<1>1. CASE UNCHANGED vars
  <2>1. UNCHANGED <<rows, audit, req, loop, crashes>> /\ roleCache' = roleCache
    BY <1>1 DEF vars
  <2>2. PublishedIds' = PublishedIds /\ VersionIds' = VersionIds
    BY <2>1 DEF PublishedIds, VersionIds, In
  <2>3. CacheInv'
    BY <2>1, CacheFrame DEF CatalogInv
  <2> QED
    BY <2>1, <2>2, <2>3 DEF CatalogInv, SessionInv, LoopInv, IdInv, RowInv, NoTwins, AuditInv,
       AuditTellsTheTruth, EntriesOf
<1>2. ASSUME NEW q \in Requests,
             Authorize(q) \/ Handle(q) \/ Flush(q) \/ Leave(q) \/ Commit(q)
      PROVE  CatalogInv'
  BY <1>2, AuthorizeStep, HandleStep, FlushStep, LeaveStep, CommitStep
<1>3. CASE \E e \in roleCache : EvictRole(e)
  BY <1>3, EvictStep
<1>4. CASE Crash
  BY <1>4, CrashStep
<1> QED
  BY <1>1, <1>2, <1>3, <1>4 DEF Next

LEMMA CatalogInvHolds == Spec => []CatalogInv
  BY CatalogStarts, CatalogStep, PTL DEF Spec

\* Rows, sessions and audit entries have their types: a request that is not
\* open holds nothing, and only a request that flushes has the loop.
THEOREM CatalogTyped == Spec => []TypeOK
<1>1. CatalogInv => TypeOK
  <2> SUFFICES ASSUME CatalogInv PROVE TypeOK
    OBVIOUS
  <2>1. \A r \in rows : IsRow(r)
    BY DEF CatalogInv, RowInv
  <2>2. \A q \in Requests :
          /\ req[q].phase \in Endings \cup
               {"idle", "allowed", "flushing", "staged", "committing"}
          /\ req[q].writes # {} => req[q].phase \in {"flushing", "staged", "committing"}
          /\ req[q].early \subseteq req[q].writes
    BY DEF CatalogInv, SessionInv, GoodSession, Holding
  <2>3. /\ \A a \in audit : a[1] \in Requests /\ a[4][1] = "user"
        /\ loop = Nothing \/ (loop \in Requests /\ req[loop].phase = "flushing")
        /\ crashes \in 0 .. MaxCrashes
    BY DEF CatalogInv, AuditInv, LoopInv
  <2> QED
    BY <2>1, <2>2, <2>3 DEF TypeOK, IsRow
<1> QED
  BY <1>1, CatalogInvHolds, PTL

\* One row for each name, version, e-mail, membership and idempotency key,
\* however many requests pass their look-ups before any of them commits.
THEOREM TwinsNever == Spec => []NoTwins
<1>1. CatalogInv => NoTwins
  BY DEF CatalogInv
<1> QED
  BY <1>1, CatalogInvHolds, PTL

\* The audit log tells what was committed and nothing else (write_audit in the
\* session of the handler, session_scope): through conflicts, failures of the
\* commit and crashes.
THEOREM AuditIsTrue == Spec => []AuditTellsTheTruth
<1>1. CatalogInv => AuditTellsTheTruth
  BY DEF CatalogInv, AuditInv
<1> QED
  BY <1>1, CatalogInvHolds, PTL

\* A run names existing rows and published data for good: what _validate_refs
\* read is still so when the run is committed, and ever after.
THEOREM RunsOnPublishedData == Spec => []RunsNamePublishedData
<1>1. CatalogInv => RunsNamePublishedData
  <2> SUFFICES ASSUME CatalogInv, NEW r \in In("run")
               PROVE  /\ r.refs \subseteq {s.id : s \in rows}
                      /\ \A d \in In("dataset_version") : d.id \in r.refs => d.status = "PUBLISHED"
    BY DEF RunsNamePublishedData
  <2>1. r \in rows /\ r.t = "run"
    BY DEF In
  <2>2. r.refs \subseteq {s.id : s \in rows} /\ NamesOnly(r, PublishedIds)
    BY <2>1 DEF CatalogInv, RowInv
  <2>3. ASSUME NEW d \in In("dataset_version"), d.id \in r.refs PROVE d.status = "PUBLISHED"
    <3>1. d \in rows /\ d.id[1] = "dataset_version"
      BY DEF In, CatalogInv, RowInv, IsRow
    <3>2. PICK x \in rows : x.id = d.id /\ x.status = "PUBLISHED"
      BY <2>2, <2>3, <3>1 DEF NamesOnly, PublishedIds, In
    <3> QED
      BY <3>1, <3>2 DEF CatalogInv, IdInv
  <2> QED
    BY <2>2, <2>3
<1> QED
  BY <1>1, CatalogInvHolds, PTL

\* A cached role is the caller's role now, whoever is added meanwhile: only
\* roles that were found are cached, and no handler changes one.
THEOREM CachedRolesCurrent == Spec => []CacheIsCurrent
<1>1. CatalogInv => CacheIsCurrent
  BY DEF CatalogInv, CacheInv
<1> QED
  BY <1>1, CatalogInvHolds, PTL
=============================================================================
