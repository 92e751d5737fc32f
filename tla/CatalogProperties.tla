-------------------------- MODULE CatalogProperties --------------------------
(* What the metadata services are meant to guarantee.                      *)
EXTENDS Catalog

Endings == {"forbidden", "refused", "error", "done"}

\* Every row is of a known table, every session holds rows only while its
\* request is open, and only an open request can hold the event loop.
TypeOK ==
  /\ \A r \in rows : /\ r.t \in Tables /\ r.key[1] = r.t /\ r.id[1] = r.t
                     /\ r.status \in {Nothing, "DRAFT", "PUBLISHED"}
                     /\ r.encrypted \in BOOLEAN
  /\ \A a \in audit : a[1] \in Requests /\ a[4][1] = "user"
  /\ \A q \in Requests :
       /\ req[q].phase \in Endings \cup
            {"idle", "allowed", "flushing", "staged", "committing"}
       /\ req[q].writes # {} => req[q].phase \in {"flushing", "staged", "committing"}
       /\ req[q].early \subseteq req[q].writes
  /\ loop = Nothing \/ (loop \in Requests /\ req[loop].phase = "flushing")
  /\ crashes \in 0 .. MaxCrashes

\* No two committed rows have the same name, version, e-mail, membership or
\* idempotency key, however the checks of concurrent handlers overlap
\* (models.py: the UniqueConstraints; the handlers only read beforehand).
NoTwins == \A r, s \in rows : r.key = s.key => r.id = s.id

Audited == Tables \ {"user", "prompt", "membership"}
EntriesOf(id) == {a \in audit : a[3] = id}

\* The audit log tells what happened and nothing else: an entry names a row
\* that is committed, every row that a handler made has its entry, and whoever
\* is recorded as having published a version has an entry for it
\* (common/audit.py: every mutating action is recorded, in its transaction).
AuditTellsTheTruth ==
  /\ \A a \in audit : \E r \in rows : r.id = a[3]
  /\ \A r \in rows \ Seed :
       /\ r.t \in Audited => EntriesOf(r.id) # {}
       /\ r.by # Nothing =>
            \E a \in EntriesOf(r.id) : a[2] = "dataset_version.publish" /\ a[4] = r.by

\* A committed run keeps naming rows that exist, and a dataset version that
\* is published, although most of its references have no foreign key
\* (services/run/routes.py: _validate_refs).
RunsNamePublishedData ==
  \A r \in In("run") :
    /\ r.refs \subseteq {s.id : s \in rows}
    /\ \A d \in In("dataset_version") : d.id \in r.refs => d.status = "PUBLISHED"

\* A cached role is the role the caller has now: caching never changes who
\* is let in, although nothing invalidates an entry when a member is added
\* (services/authz/app.py: check_role).
CacheIsCurrent == \A e \in roleCache : e[3] = StoredRole(e[1], e[2])

\* The loop waits in a flush for a session that only the loop could commit.
Jammed ==
  /\ loop # Nothing
  /\ \E o \in Requests \ {loop} :
       /\ req[o].phase = "staged"
       /\ \E r \in req[o].early, s \in req[loop].early : SameKey(r, s)

\* Every request that passed the role check is answered, unless the server is
\* jammed: no session is left open by a refusal, a conflict or a rollback
\* (common/db.py: session_scope; SubmissionIsAnswered is about the exception).
AnsweredOrJammed ==
  \A q \in Requests : Open(q) ~> (req[q].phase \in Endings \/ Jammed)

\* A submission that was let in is answered, with the run its key names
\* (services/run/routes.py:10, "the same key within a project returns the
\* original run").
SubmissionIsAnswered ==
  \A q \in Requests : req[q].do = "create_run" ~> req[q].phase \in {"refused", "done"}
=============================================================================
