------------------------------ MODULE MCCatalog ------------------------------
(* One seeded project, as scripts/seed_dev.py leaves it, with a draft beside *)
(* its published dataset version, and a second user with a project.          *)
EXTENDS CatalogProperties, TLC

Alice == [sub |-> "alice", email |-> "alice@", admin |-> FALSE, approver |-> FALSE]
Bob == [sub |-> "bob", email |-> "bob@", admin |-> FALSE, approver |-> TRUE]
Root == [sub |-> "root", email |-> "root@", admin |-> TRUE, approver |-> FALSE]
Carol == [sub |-> "carol", email |-> "carol@", admin |-> FALSE, approver |-> FALSE]

AliceId == <<"user", "alice">>
BobId == <<"user", "bob">>
P == <<"project", "pilot">>
D == <<"dataset", "toy">>
Draft == DatasetVersion(<<"dataset_version", "draft">>, D, "0.2", "internal", FALSE)
Toy == [DatasetVersion(<<"dataset_version", "toy">>, D, "0.1", "internal", FALSE)
          EXCEPT !.status = "PUBLISHED", !.by = AliceId]

MCSeed ==
  {User(AliceId, "alice@"), User(BobId, "bob@"), Project(P, "pilot", AliceId),
   Membership(<<"membership", "alice">>, P, AliceId, "owner"),
   Dataset(D, P, "toy", "internal"), Draft, Toy,
   Model(<<"model", "m">>, P, "captioner"),
   ModelVersion(<<"model_version", "m">>, <<"model", "m">>, "0.1"),
   Metric(<<"metric", "f1">>, "f1"),
   MetricVersion(<<"metric_version", "f1">>, <<"metric", "f1">>, "0.1")}

CONSTANTS q1, q2, q3
Anything == DOMAIN Required \cup Sync
RootOnly == {"create_metric", "create_metric_version", "publish"}
MCCalls ==
  [q \in Requests |->
     CASE q = q1 -> ({Alice} \X Anything) \cup ({Root} \X RootOnly) \cup {<<Carol, "create_project">>}
       [] q = q2 -> ({Alice, Bob} \X {"create_dataset_version", "create_prompt_version", "publish"})
                    \cup {<<Carol, "create_project">>}
       [] q = q3 -> {Alice} \X {"create_run"}]
KeyedCalls == [q \in Requests |-> {Alice} \X {"create_run"}]
=============================================================================
