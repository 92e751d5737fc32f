----------------------------- MODULE JudgePlane -----------------------------
(***************************************************************************)
(* The judge plane at work on one run: the judge_run of the worker, the    *)
(* dead-letter replays an operator starts, and the judge_run calls posted  *)
(* to the orchestrator service, over one response cache, one token budget, *)
(* one dead-letter list and one table of judgments.                        *)
(*                                                                         *)
(* Redis commands are atomic one at a time; nothing spans two of them.     *)
(* A response is abstracted to the example it answers, and the table of    *)
(* judgments to the set of its rows without their ids.                     *)
(***************************************************************************)
EXTENDS Integers, Sequences

CONSTANTS
  Judges,         \* processes that can be judging at one time
  Examples,       \* examples of the run, each with an id of its own
  Predictions,    \* their order in predictions.jsonl
  Cost,           \* est_tokens_in of the rendered prompt of each example
  Budget,         \* judge_token_budget_per_min
  MaxAttempts,    \* stop_after_attempt of _call_llm
  EndpointServed, \* the judge_orch service (POST /v1/judge/run) is deployed
  MaxMinute,      \* bound: minutes that pass
  MaxReplays,     \* bound: dlq_replay commands started
  MaxTroubles     \* bound: requests to the endpoint, deaths of judging
                  \* processes and expirations of cache entries, together

ASSUME JudgeAssumption ==
  /\ Predictions \in Seq(Examples)
  /\ Cost \in [Examples -> Nat \ {0}]
  /\ {Budget, MaxMinute, MaxReplays, MaxTroubles} \subseteq Nat
  /\ MaxAttempts \in Nat \ {0}
  /\ EndpointServed \in BOOLEAN

VARIABLES
  cached,     \* examples with an entry in the response cache
  minute,     \* int(time.time()) // 60
  spent,      \* the counter budget:{project}:{minute}
  admitted,   \* what it let through to the LLM gateway
  raw,        \* examples whose raw response is stored in the artifacts bucket
  judgments,  \* rows of judgment: the example, and whether from the cache
  dlq,        \* melp:judge:dlq:{run_id}
  judge,      \* what each process is doing
  started, returned,   \* the worker's judge_run was called, and has returned
  posted,              \* something was posted to the endpoint
  replays, troubles

stores == <<cached, spent, admitted, raw, judgments, dlq>>
counts == <<posted, replays, troubles>>
vars == <<stores, minute, judge, started, returned, counts>>

Idle == [kind |-> "none", pc |-> "idle", todo |-> <<>>, failed |-> <<>>,
         attempts |-> 0, hit |-> FALSE]
Judging(kind, todo) == [Idle EXCEPT !.kind = kind, !.pc = "lookup", !.todo = todo]

Init ==
  /\ cached \in SUBSET Examples     \* left by earlier runs over the same outputs
  /\ minute = 0 /\ spent = 0 /\ admitted = 0
  /\ raw = {} /\ judgments = {} /\ dlq = <<>>
  /\ judge = [j \in Judges |-> Idle]
  /\ started = FALSE /\ returned = FALSE
  /\ posted = FALSE /\ replays = 0 /\ troubles = 0

----------------------------------------------------------------------------
(* Who calls judge_run.                                                    *)

RunBegins(j) ==
  /\ judge[j].pc = "idle" /\ ~started
  /\ judge' = [judge EXCEPT ![j] = Judging("run", Predictions)]
  /\ started' = TRUE
  /\ UNCHANGED <<stores, minute, returned, counts>>

ReplayPops(j) ==   \* mutant: the replay takes the entries off the list as it reads them
  /\ judge[j].pc = "idle" /\ started
  /\ dlq # <<>> /\ replays < MaxReplays
  /\ judge' = [judge EXCEPT ![j] = Judging("replay", dlq)]
  /\ dlq' = <<>>
  /\ replays' = replays + 1
  /\ UNCHANGED <<cached, spent, admitted, raw, judgments, minute, started, returned, posted, troubles>>

\* dlq_replay reads the list and looks each entry up in predictions.jsonl.
ReplayBegins(j) ==
  /\ judge[j].pc = "idle" /\ started
  /\ dlq # <<>> /\ replays < MaxReplays
  /\ judge' = [judge EXCEPT ![j] = Judging("replay", dlq)]
  /\ replays' = replays + 1
  /\ UNCHANGED <<stores, minute, started, returned, posted, troubles>>

PostBegins(j) ==
  /\ judge[j].pc = "idle" /\ EndpointServed /\ troubles < MaxTroubles
  /\ \E e \in Examples : judge' = [judge EXCEPT ![j] = Judging("posted", <<e>>)]
  /\ posted' = TRUE /\ troubles' = troubles + 1
  /\ UNCHANGED <<stores, minute, started, returned, replays>>

----------------------------------------------------------------------------
(* judge_one, for the example at the head of the list.                     *)

At(j, pc) == judge[j].pc = pc /\ judge[j].todo # <<>>
Example(j) == Head(judge[j].todo)
Goto(j, pc) == judge' = [judge EXCEPT ![j].pc = pc]
Rest == <<started, returned, counts>>

\* judge_run's handler of any exception of judge_one: remember the example.
GiveUp(j) ==
  judge' = [judge EXCEPT
              ![j].pc = "lookup", ![j].attempts = 0,
              ![j].failed = Append(@, Example(j)), ![j].todo = Tail(@)]

Lookup(j) ==
  /\ At(j, "lookup")
  /\ IF Example(j) \in cached
     THEN judge' = [judge EXCEPT ![j].pc = "insert", ![j].hit = TRUE]
     ELSE judge' = [judge EXCEPT ![j].pc = "gate", ![j].hit = FALSE]
  /\ UNCHANGED <<stores, minute, Rest>>

GateReadsFirst(j) ==   \* mutant: the counter is compared before it is raised
  LET cost == Cost[Example(j)]  used == spent IN
  /\ At(j, "gate")
  /\ spent' = spent + cost
  /\ IF used <= Budget
     THEN Goto(j, "call") /\ admitted' = admitted + cost
     ELSE GiveUp(j) /\ admitted' = admitted
  /\ UNCHANGED <<cached, raw, judgments, dlq, minute, Rest>>

\* _budget_check_and_consume: one INCRBY, whose result decides; what is refused
\* stays counted.
Gate(j) ==
  LET cost == Cost[Example(j)]  used == spent + cost IN
  /\ At(j, "gate")
  /\ spent' = used
  /\ IF used <= Budget
     THEN Goto(j, "call") /\ admitted' = admitted + cost
     ELSE GiveUp(j) /\ admitted' = admitted
  /\ UNCHANGED <<cached, raw, judgments, dlq, minute, Rest>>

Answered(j) == At(j, "call") /\ Goto(j, "put") /\ UNCHANGED <<stores, minute, Rest>>

CallFailsForever(j) ==   \* mutant: the last attempt starts the count again
  /\ At(j, "call")
  /\ judge' = [judge EXCEPT ![j].attempts = (@ + 1) % MaxAttempts]
  /\ UNCHANGED <<stores, minute, Rest>>

CallFailsOnceMore(j) ==   \* mutant: one attempt more than stop_after_attempt
  /\ At(j, "call")
  /\ IF judge[j].attempts < MaxAttempts
     THEN judge' = [judge EXCEPT ![j].attempts = @ + 1]
     ELSE GiveUp(j)
  /\ UNCHANGED <<stores, minute, Rest>>

\* _call_llm: an HTTP error is retried, without passing the gate again.
CallFails(j) ==
  /\ At(j, "call")
  /\ IF judge[j].attempts + 1 < MaxAttempts
     THEN judge' = [judge EXCEPT ![j].attempts = @ + 1]
     ELSE GiveUp(j)
  /\ UNCHANGED <<stores, minute, Rest>>

\* Any other exception: Redis away, a placeholder the example lacks, a response
\* that parse_response rejects.
JudgeOneRaises(j) ==
  /\ \E pc \in {"lookup", "gate", "call", "put"} : At(j, pc)
  /\ GiveUp(j)
  /\ UNCHANGED <<stores, minute, Rest>>

Put(j) ==
  /\ At(j, "put")
  /\ cached' = cached \cup {Example(j)}
  /\ judge' = [judge EXCEPT ![j].pc = "store", ![j].attempts = 0]
  /\ UNCHANGED <<spent, admitted, raw, judgments, dlq, minute, Rest>>

----------------------------------------------------------------------------
(* The rest of judge_run.                                                  *)

StoreHit(j) ==   \* mutant: the condition on cache_hit the wrong way round
  /\ At(j, "store")
  /\ raw' = IF judge[j].hit THEN raw \cup {Example(j)} ELSE raw
  /\ Goto(j, "insert")
  /\ UNCHANGED <<cached, spent, admitted, judgments, dlq, minute, Rest>>

Store(j) ==
  /\ At(j, "store")
  /\ raw' = raw \cup {Example(j)}
  /\ Goto(j, "insert")
  /\ UNCHANGED <<cached, spent, admitted, judgments, dlq, minute, Rest>>

Insert(j) ==
  /\ At(j, "insert")
  /\ judgments' = judgments \cup {[example |-> Example(j), hit |-> judge[j].hit]}
  /\ judge' = [judge EXCEPT ![j].pc = "lookup", ![j].todo = Tail(@)]
  /\ UNCHANGED <<cached, spent, admitted, raw, dlq, minute, Rest>>

\* After the last example: one RPUSH of all that failed.  Then the worker goes
\* on to read the scores, and a replay without failures to delete the list.
Finish(j) ==
  /\ judge[j].pc = "lookup" /\ judge[j].todo = <<>>
  /\ dlq' = dlq \o judge[j].failed
  /\ returned' = (returned \/ judge[j].kind = "run")
  /\ CASE judge[j].kind = "run" -> Goto(j, "score")
       [] judge[j].kind = "replay" /\ judge[j].failed = <<>> -> Goto(j, "clear")
       [] OTHER -> judge' = [judge EXCEPT ![j] = Idle]
  /\ UNCHANGED <<cached, spent, admitted, raw, judgments, minute, started, counts>>

\* dlq_replay's DEL, whatever the list holds by now.
Clear(j) ==
  /\ judge[j].pc = "clear"
  /\ dlq' = <<>>
  /\ judge' = [judge EXCEPT ![j] = Idle]
  /\ UNCHANGED <<cached, spent, admitted, raw, judgments, minute, Rest>>

\* judge_scores_for_run, called by compute_metrics_for_run once judging is over:
\* a score for each judgment there is.
Scored == {row.example : row \in judgments}

ReadScores(j) ==
  /\ judge[j].pc = "score"
  /\ judge' = [judge EXCEPT ![j] = Idle]
  /\ UNCHANGED <<stores, minute, Rest>>

\* The process dies, or an exception leaves judge_run: the object store, the
\* insert and the RPUSH are outside of its handler.
Dies(j) ==
  /\ judge[j].pc # "idle" /\ troubles < MaxTroubles
  /\ judge' = [judge EXCEPT ![j] = Idle]
  /\ troubles' = troubles + 1
  /\ UNCHANGED <<stores, minute, started, returned, posted, replays>>

\* Cache entries live for thirty days.
Expire ==
  /\ troubles < MaxTroubles
  /\ troubles' = troubles + 1
  /\ \E e \in cached : cached' = cached \ {e}
  /\ UNCHANGED <<spent, admitted, raw, judgments, dlq, minute, judge, started, returned,
                 posted, replays>>

\* The next minute has a counter of its own.
Tick ==
  /\ minute < MaxMinute
  /\ minute' = minute + 1 /\ spent' = 0 /\ admitted' = 0
  /\ UNCHANGED <<cached, raw, judgments, dlq, judge, Rest>>

----------------------------------------------------------------------------
Judge(j) == \/ Lookup(j) \/ Gate(j) \/ Answered(j) \/ CallFails(j) \/ Put(j)
            \/ Store(j) \/ Insert(j) \/ Finish(j) \/ Clear(j) \/ ReadScores(j)

Next == \/ \E j \in Judges : \/ RunBegins(j) \/ ReplayBegins(j) \/ PostBegins(j)
                             \/ Judge(j) \/ JudgeOneRaises(j) \/ Dies(j)
        \/ Expire \/ Tick

Spec == Init /\ [][Next]_vars

\* A process that is judging goes on; nothing makes anyone start to, or makes
\* the gateway answer.
FairSpec == Spec /\ \A j \in Judges : WF_vars(Judge(j))
=============================================================================
