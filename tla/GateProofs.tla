----------------------------- MODULE GateProofs -----------------------------
(***************************************************************************)
(* Theorems about the release gate, for any policies, any results, any     *)
(* number of requests and of aggregations between their queries.           *)
(***************************************************************************)
EXTENDS GateProperties, FiniteSetTheorems, SequenceTheorems, TLAPS

(* An outcome is honest: a rule passed is met, on rows that were there and *)
(* stay; a rule that failed on the rows it found is not met.               *)

MetRules == {rule \in Rules : Met(rule)}
AvailableRules ==
  {rule \in Rules : passes["run"] > 0 /\ (rule.operator \in Relative => passes["baseline"] > 0)}
\* The rules whose second query is worth making, by what the first one found.
HalfRules ==
  {rule \in Rules :
     rule.operator \in Relative /\ linked /\ Has("run", rule) /\ passes["run"] > 0}

Honest(rule, outcome) ==
  /\ outcome.passed => rule \in MetRules /\ rule \in AvailableRules
  /\ ~outcome.passed /\ outcome.reason # "missing" => rule \notin MetRules

\* The first n decisions, where they passed this policy, agree with the outcomes.
Repeats(n, policy, outcomes) ==
  \A j \in 1 .. n : decisions[j].passed /\ decisions[j].policy = policy =>
    \A i \in DOMAIN outcomes : policy[i].severity = "blocking" => outcomes[i].passed

DeciderInv ==
  \A d \in Deciders :
    LET policy == decider[d].policy  outcomes == decider[d].outcomes IN
    /\ decider[d].pc # "idle" => policy \in Policies
    /\ \A i \in DOMAIN outcomes : Honest(policy[i], outcomes[i])
    /\ decider[d].pc = "baseline" => At(d, "baseline") /\ Rule(d) \in HalfRules
    /\ decider[d].after <= Len(decisions)
    /\ Repeats(decider[d].after, policy, outcomes)

Verdict(policy, outcomes) ==
  \A i \in DOMAIN policy : policy[i].severity = "blocking" => outcomes[i].passed

DecisionInv ==
  \A k \in DOMAIN decisions :
    /\ Len(decisions[k].outcomes) = Len(decisions[k].policy)
    /\ \A i \in DOMAIN decisions[k].outcomes :
         Honest(decisions[k].policy[i], decisions[k].outcomes[i])
    /\ decisions[k].passed <=> Verdict(decisions[k].policy, decisions[k].outcomes)
    /\ decisions[k].after < k

\* A decision or a request in progress is one that was asked for.
Serving == {d \in Deciders : decider[d].pc # "idle"}
AskedInv == Cardinality(Serving) + Len(decisions) <= asked

GateInv == TypeOK /\ DeciderInv /\ DecisionInv /\ AskedInv /\ PassedStaysPassed
----------------------------------------------------------------------------
(* The outcomes of a rule.                                                 *)

LEMMA RuleFields ==
  ASSUME NEW rule \in Rules
  PROVE  /\ rule.metric \in Metrics /\ rule.slice \in AllSlices
         /\ rule.threshold # NoPoint => rule.threshold \in Int
         /\ rule.margin \in Int /\ rule.require_significant \in BOOLEAN
BY DEF Rules

LEMMA PointType ==
  ASSUME TypeOK, NEW r \in Runs, NEW rule \in Rules
  PROVE  Has(r, rule) => PointOf(r, rule) \in Nat
BY RuleFields, GateAssumption DEF TypeOK, Has, PointOf

LEMMA NumericMet ==
  ASSUME TypeOK, NEW rule \in Rules, Has("run", rule), rule.operator \in Numeric,
         rule.threshold # NoPoint
  PROVE  Met(rule) <=> Compare(rule.operator, PointOf("run", rule), rule.threshold)
<1>1. PointOf("run", rule) \in Int /\ rule.threshold \in Int
  BY RuleFields, PointType DEF Runs
<1>2. rule.operator \notin Relative
  BY DEF Relative, Numeric
<1>3. Met(rule) <=>
        /\ rule.operator \in {">", "<"} => PointOf("run", rule) # rule.threshold
        /\ rule.operator \in {">", ">="} => PointOf("run", rule) >= rule.threshold
        /\ rule.operator \in {"<", "<="} => PointOf("run", rule) <= rule.threshold
  BY <1>2 DEF Met
<1> QED
  BY <1>1, <1>3 DEF Compare, Numeric

LEMMA RelativeMet ==
  ASSUME TypeOK, NEW rule \in Rules, Has("run", rule), Has("baseline", rule), linked,
         rule.operator \in Relative
  PROVE  Met(rule) <=> \/ Within(rule, PointOf("run", rule) - PointOf("baseline", rule))
                       \/ Excused(rule)
<1>1. Lead(rule) \in Int /\ rule.margin \in Int
  BY RuleFields, PointType DEF Runs, Lead
<1>2. rule.operator \notin Numeric
  BY DEF Relative, Numeric
<1>3. Met(rule) <=>
        \/ rule.require_significant /\ rule.slice = Overall /\ pvalue[rule.metric] = "high"
        \/ rule.operator = ">= baseline" /\ Lead(rule) + rule.margin >= 0
        \/ rule.operator = "<= baseline" /\ Lead(rule) - rule.margin <= 0
  BY <1>2 DEF Met
<1>4. Excused(rule) <=>
        rule.require_significant /\ rule.slice = Overall /\ pvalue[rule.metric] = "high"
  BY DEF Excused, P
<1>5. Within(rule, Lead(rule)) <=> \/ rule.operator = ">= baseline" /\ Lead(rule) + rule.margin >= 0
                                   \/ rule.operator = "<= baseline" /\ Lead(rule) - rule.margin <= 0
  <2>1. \A x, m \in Int : (x >= -m <=> x + m >= 0) /\ (x <= m <=> x - m <= 0)
    OBVIOUS
  <2> QED
    BY <1>1, <2>1 DEF Within
<1> QED
  BY <1>3, <1>4, <1>5 DEF Lead

\* The rows found, by what there is to find.
LEMMA FoundRows ==
  ASSUME TypeOK, NEW r \in Runs, NEW rule
  PROVE  /\ Found(r, rule) = 0 => ~Has(r, rule) \/ passes[r] = 0
         /\ Found(r, rule) = 1 => Has(r, rule) /\ passes[r] > 0
<1>1. Found(r, rule) = IF Has(r, rule) THEN passes[r] ELSE 0
  BY Zenon DEF Found, Has, PointOf
<1>2. passes[r] \in Nat
  BY DEF TypeOK
<1> QED
  BY <1>1, <1>2

\* What is not met whatever the points are.
LEMMA NeverMet ==
  ASSUME NEW rule,
         \/ ~Has("run", rule)
         \/ rule.operator \in Numeric /\ rule.threshold = NoPoint
         \/ rule.operator \in Relative /\ (~linked \/ ~Has("baseline", rule))
         \/ rule.operator \notin Numeric \cup Relative
  PROVE  ~Met(rule)
<1>1. rule.operator \in Relative => rule.operator \notin Numeric
  BY DEF Relative, Numeric
<1> QED
  BY <1>1 DEF Met

\* Results are only added: what was met, or found, stays so.
LEMMA WorldStep ==
  ASSUME TypeOK, [Next]_vars
  PROVE  /\ UNCHANGED data
         /\ MetRules' = MetRules
         /\ AvailableRules \subseteq AvailableRules' /\ HalfRules \subseteq HalfRules'
<1>1. UNCHANGED data /\ passes' \in [Runs -> Int] /\ \A r \in Runs : passes[r] <= passes'[r]
  <2>1. CASE \E r \in Runs : Aggregate(r)
    <3> PICK r \in Runs : Aggregate(r)
      BY <2>1
    <3>1. passes \in [Runs -> Int]
      BY DEF TypeOK
    <3>2. UNCHANGED data /\ passes' = [passes EXCEPT ![r] = @ + 1]
      BY DEF Aggregate
    <3> QED
      BY <3>1, <3>2
  <2>2. CASE ~\E r \in Runs : Aggregate(r)
    <3> UNCHANGED <<data, passes>>
      BY <2>2 DEF Next, vars, Decide, Begin, ReadResult, ReadBaseline, Answer
    <3> QED
      BY DEF TypeOK
  <2> QED
    BY <2>1, <2>2
<1>2. passes \in [Runs -> Int] /\ {"run", "baseline"} = Runs
  BY DEF TypeOK, Runs
<1>3. MetRules' = MetRules
  BY <1>1 DEF data, MetRules, Met, Has, Lead, PointOf
<1>4. AvailableRules \subseteq AvailableRules'
  BY <1>1, <1>2 DEF AvailableRules
<1>5. HalfRules \subseteq HalfRules'
  <2> SUFFICES ASSUME NEW rule \in HalfRules PROVE rule \in HalfRules'
    OBVIOUS
  <2>1. rule \in Rules /\ rule.operator \in Relative /\ linked /\ Has("run", rule)
        /\ passes["run"] > 0
    BY DEF HalfRules
  <2>2. linked' /\ point' = point /\ passes'["run"] > 0
    BY <1>1, <1>2, <2>1 DEF data
  <2> QED
    BY <2>1, <2>2 DEF HalfRules, Has, PointOf
<1> QED
  BY <1>1, <1>3, <1>4, <1>5
----------------------------------------------------------------------------
(* One request's step.                                                     *)

\* What DeciderInv says of one request's state.
Sound(s) ==
  /\ s.pc # "idle" => s.policy \in Policies
  /\ \A i \in DOMAIN s.outcomes : Honest(s.policy[i], s.outcomes[i])
  /\ s.pc = "baseline" => /\ Len(s.outcomes) < Len(s.policy)
                          /\ s.policy[Len(s.outcomes) + 1] \in HalfRules
  /\ s.after <= Len(decisions)
  /\ Repeats(s.after, s.policy, s.outcomes)

LEMMA AllSound == DeciderInv <=> \A d \in Deciders : Sound(decider[d])
BY DEF DeciderInv, Sound, At, Rule

\* A sound state stays sound while results and decisions are added.
LEMMA SoundStays ==
  ASSUME TypeOK, NEW s \in DeciderType, Sound(s), MetRules' = MetRules,
         AvailableRules \subseteq AvailableRules', HalfRules \subseteq HalfRules',
         Len(decisions') \in Nat, Len(decisions) <= Len(decisions'),
         \A j \in 1 .. Len(decisions) : decisions'[j] = decisions[j]
  PROVE  Sound(s)'
<1>1. Len(decisions) \in Nat /\ s.after \in Nat
  BY DEF TypeOK, DeciderType
<1>2. \A j \in 1 .. s.after : decisions'[j] = decisions[j]
  BY <1>1 DEF Sound
<1>3. \A i \in DOMAIN s.outcomes : Honest(s.policy[i], s.outcomes[i])'
  BY DEF Sound, Honest
<1>4. Repeats(s.after, s.policy, s.outcomes)'
  BY <1>2 DEF Sound, Repeats
<1> QED
  BY <1>1, <1>3, <1>4 DEF Sound

\* All requests' states sound after a step, as DeciderInv has it.
LEMMA SoundMeans ==
  ASSUME \A e \in Deciders : \E t \in DeciderType : t = decider'[e] /\ Sound(t)'
  PROVE  DeciderInv'
<1> SUFFICES ASSUME NEW e \in Deciders
             PROVE  /\ decider'[e].pc # "idle" => decider'[e].policy \in Policies
                    /\ \A i \in DOMAIN decider'[e].outcomes :
                         Honest(decider[e].policy[i], decider[e].outcomes[i])'
                    /\ decider'[e].pc = "baseline" => At(e, "baseline")' /\ Rule(e)' \in HalfRules'
                    /\ decider'[e].after <= Len(decisions')
                    /\ Repeats(decider[e].after, decider[e].policy, decider[e].outcomes)'
  BY DEF DeciderInv
<1>1. PICK t \in DeciderType : t = decider'[e] /\ Sound(t)'
  OBVIOUS
<1>2. \A i \in DOMAIN t.outcomes : Honest(t.policy[i], t.outcomes[i])'
  BY <1>1 DEF Sound
<1>3. Repeats(t.after, t.policy, t.outcomes)'
  BY <1>1 DEF Sound
<1> QED
  BY <1>1, <1>2, <1>3 DEF Sound, At, Rule, Honest, Repeats

\* The requests but one are where they were, and that one is sound.
LEMMA DeciderStep ==
  ASSUME GateInv, NEW d \in Deciders, NEW s \in DeciderType, Sound(s),
         Len(s.outcomes) <= Len(s.policy), decider' = [decider EXCEPT ![d] = s],
         MetRules' = MetRules,
         AvailableRules \subseteq AvailableRules', HalfRules \subseteq HalfRules',
         Len(decisions') \in Nat, Len(decisions) <= Len(decisions'),
         \A j \in 1 .. Len(decisions) : decisions'[j] = decisions[j]
  PROVE  /\ decider' \in [Deciders -> DeciderType]
         /\ \A e \in Deciders : Len(decider'[e].outcomes) <= Len(decider'[e].policy)
         /\ DeciderInv'
<1>1. decider \in [Deciders -> DeciderType]
  BY DEF GateInv, TypeOK
<1>2. decider' \in [Deciders -> DeciderType] /\ decider'[d] = s
      /\ \A e \in Deciders : e # d => decider'[e] = decider[e]
  BY <1>1
<1>3. \A e \in Deciders : Len(decider'[e].outcomes) <= Len(decider'[e].policy)
  BY <1>2 DEF GateInv, TypeOK
<1>4. ASSUME NEW e \in Deciders PROVE \E t \in DeciderType : t = decider'[e] /\ Sound(t)
  <2>1. CASE e = d
    BY <1>2, <2>1
  <2>2. CASE e # d
    BY <1>1, <1>2, <2>2, AllSound DEF GateInv
  <2> QED
    BY <2>1, <2>2
<1>5. ASSUME NEW e \in Deciders PROVE \E t \in DeciderType : t = decider'[e] /\ Sound(t)'
  BY <1>4, SoundStays DEF GateInv
<1>6. DeciderInv'
  BY <1>5, SoundMeans
<1> QED
  BY <1>2, <1>3, <1>6

LEMMA IdleSound ==
  ASSUME GateInv
  PROVE  IdleDecider \in DeciderType /\ Sound(IdleDecider)
         /\ Len(IdleDecider.outcomes) <= Len(IdleDecider.policy)
<1>1. Len(<<>>) = 0 /\ DOMAIN <<>> = {} /\ <<>> \in Seq(OutcomeType)
  BY EmptySeq
<1>2. 0 \in 0 .. MaxDecisions /\ Len(decisions) \in Nat
  BY GateAssumption DEF GateInv, TypeOK
<1> QED
  BY <1>1, <1>2 DEF IdleDecider, DeciderType, Sound, Repeats

\* The rule a request is at is one of its policy's.
LEMMA CurrentRule ==
  ASSUME GateInv, NEW d \in Deciders, NEW pc \in {"result", "baseline"}, At(d, pc)
  PROVE  /\ decider[d].policy \in Policies /\ decider[d].policy \in Seq(Rules)
         /\ decider[d].outcomes \in Seq(OutcomeType)
         /\ Len(decider[d].outcomes) + 1 \in DOMAIN decider[d].policy
         /\ Rule(d) \in Rules
<1>1. decider[d] \in DeciderType /\ decider[d].pc = pc
      /\ Len(decider[d].outcomes) < Len(decider[d].policy)
  BY DEF GateInv, TypeOK, At
<1>2. decider[d].outcomes \in Seq(OutcomeType) /\ Len(decider[d].outcomes) \in Nat
  BY <1>1 DEF DeciderType
<1>3. decider[d].policy \in Policies
  BY <1>1 DEF GateInv, DeciderInv
<1>4. decider[d].policy \in Seq(Rules)
  BY <1>3, GateAssumption
<1>5. Len(decider[d].outcomes) + 1 \in DOMAIN decider[d].policy
  BY <1>1, <1>2, <1>4, LenProperties
<1>6. Rule(d) \in Rules
  BY <1>4, <1>5, LenProperties, ElementOfSeq DEF Rule
<1> QED
  BY <1>2, <1>3, <1>4, <1>5, <1>6

\* An honest outcome, missing only where a row is, is as good as the decisions
\* that passed the policy before.
LEMMA NoteSound ==
  ASSUME GateInv, NEW d \in Deciders, NEW pc \in {"result", "baseline"}, At(d, pc),
         NEW outcome \in OutcomeType, Honest(Rule(d), outcome),
         outcome.reason = "missing" =>
           ~outcome.passed /\ (Rule(d) \notin MetRules \/ Rule(d) \notin AvailableRules)
  PROVE  \E s \in DeciderType :
           /\ s = [decider[d] EXCEPT !.pc = "result", !.outcomes = Append(@, outcome)]
           /\ s.pc = "result" /\ Sound(s) /\ Len(s.outcomes) <= Len(s.policy)
<1> DEFINE policy == decider[d].policy
<1> DEFINE outcomes == decider[d].outcomes
<1> DEFINE after == decider[d].after
<1> DEFINE longer == Append(outcomes, outcome)
<1> DEFINE s == [decider[d] EXCEPT !.pc = "result", !.outcomes = longer]
<1>1. /\ policy \in Policies /\ policy \in Seq(Rules) /\ outcomes \in Seq(OutcomeType)
      /\ Len(outcomes) + 1 \in DOMAIN policy /\ Rule(d) = policy[Len(outcomes) + 1]
      /\ decider[d] \in DeciderType
  BY CurrentRule DEF Rule, GateInv, TypeOK
<1>2. /\ longer \in Seq(OutcomeType) /\ Len(outcomes) \in Nat /\ Len(longer) = Len(outcomes) + 1
      /\ DOMAIN longer = 1 .. Len(outcomes) + 1 /\ DOMAIN outcomes = 1 .. Len(outcomes)
      /\ longer[Len(outcomes) + 1] = outcome
      /\ \A i \in DOMAIN outcomes : longer[i] = outcomes[i]
  BY <1>1, AppendProperties, LenProperties
<1>3. s \in DeciderType /\ s.pc = "result" /\ s.policy = policy /\ s.outcomes = longer
      /\ s.after = after
  BY <1>1, <1>2 DEF DeciderType
<1>4. /\ \A i \in DOMAIN outcomes : Honest(policy[i], outcomes[i])
      /\ after <= Len(decisions) /\ Repeats(after, policy, outcomes)
  BY DEF GateInv, DeciderInv
<1>5. after \in Nat /\ Len(decisions) \in Nat /\ DOMAIN decisions = 1 .. Len(decisions)
  BY <1>1 DEF DeciderType, GateInv, TypeOK
<1> HIDE DEF longer, policy, outcomes, after
<1>6. \A i \in DOMAIN longer : (i \in DOMAIN outcomes /\ longer[i] = outcomes[i]) \/
                               (i = Len(outcomes) + 1 /\ longer[i] = outcome)
  BY <1>2
<1>7. \A i \in DOMAIN longer : Honest(policy[i], longer[i])
  BY <1>1, <1>4, <1>6
<1>8. ASSUME NEW j \in 1 .. after, decisions[j].passed, decisions[j].policy = policy,
             NEW i \in DOMAIN longer, policy[i].severity = "blocking"
      PROVE  longer[i].passed
  <2>1. CASE i \in DOMAIN outcomes
    BY <1>4, <1>6, <1>8, <2>1, <1>2 DEF Repeats
  <2>2. CASE i = Len(outcomes) + 1
    <3>1. j \in DOMAIN decisions
      BY <1>4, <1>5
    <3>2. /\ Verdict(decisions[j].policy, decisions[j].outcomes)
          /\ Len(decisions[j].outcomes) = Len(decisions[j].policy)
          /\ \A k \in DOMAIN decisions[j].outcomes :
               Honest(decisions[j].policy[k], decisions[j].outcomes[k])
      BY <3>1, <1>8 DEF GateInv, DecisionInv
    <3>3. decisions[j].outcomes \in Seq(OutcomeType)
      <4> decisions[j] \in [policy: Policies, outcomes: Seq(OutcomeType),
                             after: 0 .. MaxDecisions, passed: BOOLEAN]
        BY <3>1, <1>5, ElementOfSeq DEF GateInv, TypeOK
      <4> QED
        OBVIOUS
    <3>4. i \in DOMAIN policy /\ i \in DOMAIN decisions[j].outcomes
      BY <1>1, <1>8, <2>2, <3>2, <3>3, LenProperties
    <3>5. decisions[j].outcomes[i].passed /\ Honest(policy[i], decisions[j].outcomes[i])
      BY <1>8, <3>2, <3>4 DEF Verdict
    <3>6. policy[i] \in MetRules /\ policy[i] \in AvailableRules
      BY <3>5 DEF Honest
    <3>7. longer[i] = outcome /\ policy[i] = Rule(d)
      BY <1>1, <1>2, <2>2
    <3>8. outcome.reason # "missing" /\ outcome.passed \in BOOLEAN
      BY <3>6, <3>7 DEF OutcomeType
    <3> QED
      BY <3>6, <3>7, <3>8 DEF Honest
  <2> QED
    BY <2>1, <2>2, <1>6
<1>9. Sound(s)
  BY <1>1, <1>3, <1>4, <1>7, <1>8 DEF Sound, Repeats
<1>10. Len(s.outcomes) <= Len(s.policy)
  BY <1>1, <1>2, <1>3, LenProperties
<1>11. s = [decider[d] EXCEPT !.pc = "result", !.outcomes = Append(@, outcome)]
  BY DEF longer, outcomes
<1> HIDE DEF s
<1> QED
  BY <1>3, <1>9, <1>10, <1>11

LEMMA NoteStep ==
  ASSUME GateInv, NEW d \in Deciders, NEW pc \in {"result", "baseline"}, At(d, pc),
         NEW outcome \in OutcomeType, Note(d, outcome), Honest(Rule(d), outcome),
         outcome.reason = "missing" =>
           ~outcome.passed /\ (Rule(d) \notin MetRules \/ Rule(d) \notin AvailableRules)
  PROVE  \E s \in DeciderType : /\ decider' = [decider EXCEPT ![d] = s]
                                /\ s.pc = "result" /\ Sound(s) /\ Len(s.outcomes) <= Len(s.policy)
<1>1. decider' = [decider EXCEPT ![d] =
                    [decider[d] EXCEPT !.pc = "result", !.outcomes = Append(@, outcome)]]
  BY DEF Note, GateInv, TypeOK, DeciderType
<1> QED
  BY <1>1, NoteSound

\* The outcomes of the first query, by what it found.
LEMMA ReadResultStep ==
  ASSUME GateInv, NEW d \in Deciders, ReadResult(d)
  PROVE  \E s \in DeciderType : /\ decider' = [decider EXCEPT ![d] = s]
                                /\ Sound(s) /\ Len(s.outcomes) <= Len(s.policy)
<1> DEFINE rule == Rule(d)
<1> DEFINE n == Found("run", rule)
<1>1. At(d, "result") /\ rule \in Rules /\ TypeOK
  BY CurrentRule DEF ReadResult, GateInv
<1>2. /\ n = 0 => ~Has("run", rule) \/ passes["run"] = 0
      /\ n = 1 => Has("run", rule) /\ passes["run"] > 0
  BY <1>1, FoundRows DEF Runs
<1>3. CASE n > 1 /\ decider' = [decider EXCEPT ![d] = IdleDecider]
  BY <1>3, IdleSound
<1>4. CASE n = 0 /\ Note(d, Missing)
  <2>1. rule \notin MetRules \/ rule \notin AvailableRules
    BY <1>2, <1>4, NeverMet DEF MetRules, AvailableRules
  <2>2. Missing \in OutcomeType /\ Honest(rule, Missing) /\ ~Missing.passed
    BY DEF Missing, Outcome, OutcomeType, Honest
  <2> QED
    BY <1>1, <1>4, <2>1, <2>2, NoteStep
<1>5. CASE /\ n = 1 /\ rule.operator \in Numeric
           /\ Note(d, IF rule.threshold = NoPoint THEN Outcome(FALSE, "no threshold")
                      ELSE Outcome(Compare(rule.operator, PointOf("run", rule), rule.threshold),
                                   "compared"))
  <2>1. CASE rule.threshold = NoPoint
    <3> DEFINE o == Outcome(FALSE, "no threshold")
    <3>1. o \in OutcomeType /\ o.reason # "missing" /\ ~o.passed
      BY DEF Outcome, OutcomeType
    <3>2. Honest(rule, o)
      BY <1>5, <2>1, <3>1, NeverMet DEF Honest, MetRules
    <3> QED
      BY <1>1, <1>5, <2>1, <3>1, <3>2, NoteStep
  <2>2. CASE rule.threshold # NoPoint
    <3> DEFINE ok == Compare(rule.operator, PointOf("run", rule), rule.threshold)
    <3> DEFINE o == Outcome(ok, "compared")
    <3>1. ok \in BOOLEAN
      BY DEF Compare
    <3>2. o \in OutcomeType /\ o.reason # "missing" /\ o.passed = ok
      BY <3>1 DEF Outcome, OutcomeType
    <3>3. Met(rule) <=> ok
      BY <1>1, <1>2, <1>5, <2>2, NumericMet
    <3>4. rule \in AvailableRules
      BY <1>1, <1>2, <1>5 DEF AvailableRules, Numeric, Relative
    <3>5. Honest(rule, o)
      BY <1>1, <3>2, <3>3, <3>4 DEF Honest, MetRules
    <3> QED
      BY <1>1, <1>5, <2>2, <3>2, <3>5, NoteStep
  <2> QED
    BY <2>1, <2>2
<1>6. CASE /\ n = 1 /\ rule.operator \in Relative
           /\ IF linked THEN decider' = [decider EXCEPT ![d].pc = "baseline"]
              ELSE Note(d, Outcome(FALSE, "no baseline"))
  <2>1. CASE linked
    <3> DEFINE s == [decider[d] EXCEPT !.pc = "baseline"]
    <3>1. decider[d] \in DeciderType /\ decider[d].pc = "result" /\ Sound(decider[d])
      BY <1>1, AllSound DEF GateInv, TypeOK, At
    <3>2. /\ s \in DeciderType /\ decider' = [decider EXCEPT ![d] = s] /\ s.pc = "baseline"
          /\ s.policy = decider[d].policy /\ s.outcomes = decider[d].outcomes
          /\ s.after = decider[d].after
      BY <1>6, <2>1, <3>1 DEF DeciderType, GateInv, TypeOK
    <3>3. rule \in HalfRules
      BY <1>1, <1>2, <1>6, <2>1 DEF HalfRules
    <3>4. Len(decider[d].outcomes) < Len(decider[d].policy)
      BY <1>1 DEF At
    <3>5. Sound(s)
      BY <3>1, <3>2, <3>3, <3>4 DEF Sound, Rule
    <3>6. Len(s.outcomes) <= Len(s.policy)
      BY <3>2 DEF GateInv, TypeOK
    <3> QED
      BY <3>2, <3>5, <3>6
  <2>2. CASE ~linked
    <3> DEFINE o == Outcome(FALSE, "no baseline")
    <3>1. o \in OutcomeType /\ o.reason # "missing" /\ ~o.passed
      BY DEF Outcome, OutcomeType
    <3>2. Honest(rule, o)
      BY <1>6, <2>2, <3>1, NeverMet DEF Honest, MetRules
    <3> QED
      BY <1>1, <1>6, <2>2, <3>1, <3>2, NoteStep
  <2> QED
    BY <2>1, <2>2
<1>7. CASE /\ n = 1 /\ rule.operator \notin Numeric \cup Relative
           /\ Note(d, Outcome(FALSE, "unknown"))
  <2> DEFINE o == Outcome(FALSE, "unknown")
  <2>1. o \in OutcomeType /\ o.reason # "missing" /\ ~o.passed
    BY DEF Outcome, OutcomeType
  <2>2. Honest(rule, o)
    BY <1>7, <2>1, NeverMet DEF Honest, MetRules
  <2> QED
    BY <1>1, <1>7, <2>1, <2>2, NoteStep
<1> QED
  BY <1>3, <1>4, <1>5, <1>6, <1>7 DEF ReadResult

\* The outcomes of the second query; the first one's row has not gone.
LEMMA ReadBaselineStep ==
  ASSUME GateInv, NEW d \in Deciders, ReadBaseline(d)
  PROVE  \E s \in DeciderType : /\ decider' = [decider EXCEPT ![d] = s]
                                /\ Sound(s) /\ Len(s.outcomes) <= Len(s.policy)
<1> DEFINE rule == Rule(d)
<1> DEFINE n == Found("baseline", rule)
<1>1. At(d, "baseline") /\ rule \in Rules /\ TypeOK
  BY CurrentRule DEF ReadBaseline, GateInv
<1>2. rule \in HalfRules
  BY <1>1 DEF GateInv, DeciderInv, At
<1>3. CASE n > 1 /\ decider' = [decider EXCEPT ![d] = IdleDecider]
  BY <1>3, IdleSound
<1>4. CASE n = 0 /\ Note(d, Missing)
  <2>1. rule \notin MetRules \/ rule \notin AvailableRules
    BY <1>1, <1>2, <1>4, FoundRows, NeverMet DEF Runs, MetRules, AvailableRules, HalfRules
  <2>2. Missing \in OutcomeType /\ Honest(rule, Missing) /\ ~Missing.passed
    BY DEF Missing, Outcome, OutcomeType, Honest
  <2> QED
    BY <1>1, <1>4, <2>1, <2>2, NoteStep
<1>5. CASE /\ n = 1
           /\ Note(d, Outcome(\/ Within(rule, PointOf("run", rule) - PointOf("baseline", rule))
                              \/ Excused(rule), "compared"))
  <2> DEFINE ok == \/ Within(rule, PointOf("run", rule) - PointOf("baseline", rule))
                   \/ Excused(rule)
  <2> DEFINE o == Outcome(ok, "compared")
  <2>1. ok \in BOOLEAN
    OBVIOUS
  <2>2. o \in OutcomeType /\ o.reason # "missing" /\ o.passed = ok
    BY <2>1 DEF Outcome, OutcomeType
  <2>3. Has("baseline", rule) /\ passes["baseline"] > 0
    BY <1>1, <1>5, FoundRows DEF Runs
  <2>4. Met(rule) <=> ok
    BY <1>1, <1>2, <2>3, RelativeMet DEF HalfRules
  <2>5. rule \in AvailableRules
    BY <1>1, <1>2, <2>3 DEF HalfRules, AvailableRules
  <2>6. Honest(rule, o)
    BY <1>1, <2>2, <2>4, <2>5 DEF Honest, MetRules
  <2> QED
    BY <1>1, <1>5, <2>2, <2>6, NoteStep
<1> QED
  BY <1>3, <1>4, <1>5 DEF ReadBaseline

LEMMA BeginStep ==
  ASSUME GateInv, Len(decisions) <= MaxDecisions,
         NEW d \in Deciders, NEW policy \in Policies, Begin(d, policy)
  PROVE  \E s \in DeciderType : /\ decider' = [decider EXCEPT ![d] = s]
                                /\ Sound(s) /\ Len(s.outcomes) <= Len(s.policy)
<1> DEFINE s == [pc |-> "result", policy |-> policy, outcomes |-> <<>>, after |-> Len(decisions)]
<1>1. Len(<<>>) = 0 /\ DOMAIN <<>> = {} /\ <<>> \in Seq(OutcomeType)
  BY EmptySeq
<1>2. Len(decisions) \in Nat /\ Len(decisions) \in 0 .. MaxDecisions
  BY GateAssumption DEF GateInv, TypeOK
<1>3. Len(policy) \in Nat
  BY GateAssumption, LenProperties
<1>4. s \in DeciderType /\ Len(s.outcomes) <= Len(s.policy)
  BY <1>1, <1>2, <1>3 DEF DeciderType
<1>5. Sound(s)
  BY <1>1, <1>2 DEF Sound, Repeats
<1> QED
  BY <1>4, <1>5 DEF Begin

----------------------------------------------------------------------------
(* Counting the decisions, and the steps that make them.                   *)

LEMMA ServingFinite == IsFiniteSet(Serving) /\ Cardinality(Serving) \in Nat
<1>1. Serving \subseteq Deciders
  BY DEF Serving
<1> QED
  BY <1>1, GateAssumption, FS_Subset, FS_CardinalityType

LEMMA AskedStep ==
  ASSUME GateInv, [Next]_vars
  PROVE  AskedInv' /\ asked' \in 0 .. MaxDecisions
<1> asked \in 0 .. MaxDecisions /\ Len(decisions) \in Nat /\ MaxDecisions \in Nat
  BY GateAssumption DEF GateInv, TypeOK
<1> Cardinality(Serving) + Len(decisions) <= asked
  BY DEF GateInv, AskedInv
<1> decider \in [Deciders -> DeciderType]
  BY DEF GateInv, TypeOK
<1>1. ASSUME NEW d \in Deciders, NEW policy \in Policies, Begin(d, policy)
      PROVE  AskedInv' /\ asked' \in 0 .. MaxDecisions
  <2>1. Serving' = Serving \cup {d} /\ d \notin Serving
    BY <1>1 DEF Begin, Serving
  <2>2. Cardinality(Serving') = Cardinality(Serving) + 1
    BY <2>1, ServingFinite, FS_AddElement
  <2>3. asked' = asked + 1 /\ asked < MaxDecisions /\ decisions' = decisions
    BY <1>1 DEF Begin
  <2>4. Cardinality(Serving') + Len(decisions') <= asked'
    BY <2>2, <2>3, ServingFinite
  <2> QED
    BY <2>3, <2>4 DEF AskedInv
<1>2. ASSUME NEW d \in Deciders, ReadResult(d) \/ ReadBaseline(d)
      PROVE  AskedInv' /\ asked' \in 0 .. MaxDecisions
  <2>1. asked' = asked /\ decisions' = decisions
    BY <1>2 DEF ReadResult, ReadBaseline
  <2>2. decider[d].pc # "idle" /\ \A e \in Deciders : e # d => decider'[e] = decider[e]
    BY <1>2, ReadResultStep, ReadBaselineStep DEF ReadResult, ReadBaseline, At
  <2>3. Serving' \subseteq Serving
    BY <2>2 DEF Serving
  <2>4. Cardinality(Serving') \in Nat /\ Cardinality(Serving') <= Cardinality(Serving)
    BY <2>3, ServingFinite, FS_Subset, FS_CardinalityType
  <2>5. Cardinality(Serving') + Len(decisions') <= asked'
    BY <2>1, <2>4, ServingFinite
  <2> QED
    BY <2>1, <2>5 DEF AskedInv
<1>3. ASSUME NEW d \in Deciders, Answer(d)
      PROVE  AskedInv' /\ asked' \in 0 .. MaxDecisions
  <2>1. Serving' = Serving \ {d} /\ d \in Serving
    BY <1>3 DEF Answer, Serving, IdleDecider
  <2>2. Cardinality(Serving') = Cardinality(Serving) - 1
    BY <2>1, ServingFinite, FS_RemoveElement
  <2>3. asked' = asked
    BY <1>3 DEF Answer
  <2>4. Len(decisions') = Len(decisions) + 1
    BY <1>3 DEF Answer, GateInv, TypeOK
  <2>5. Cardinality(Serving') + Len(decisions') <= asked'
    BY <2>2, <2>3, <2>4, ServingFinite
  <2> QED
    BY <2>3, <2>5 DEF AskedInv
<1>4. CASE UNCHANGED <<decider, decisions, asked>>
  BY <1>4 DEF AskedInv, Serving
<1> QED
  BY <1>1, <1>2, <1>3, <1>4 DEF Next, Decide, Aggregate, vars

\* An answer: the verdict is that of the outcomes, and of the earlier verdicts
\* that it repeats.
LEMMA AnswerStep ==
  ASSUME GateInv, NEW d \in Deciders, Answer(d)
  PROVE  /\ decisions' \in Seq([policy: Policies, outcomes: Seq(OutcomeType),
                                after: 0 .. MaxDecisions, passed: BOOLEAN])
         /\ Len(decisions') = Len(decisions) + 1
         /\ \A k \in DOMAIN decisions : decisions'[k] = decisions[k]
         /\ DecisionInv' /\ PassedStaysPassed'
<1> DEFINE Decision == [policy: Policies, outcomes: Seq(OutcomeType),
                        after: 0 .. MaxDecisions, passed: BOOLEAN]
<1> DEFINE policy == decider[d].policy
<1> DEFINE outcomes == decider[d].outcomes
<1> DEFINE after == decider[d].after
<1> DEFINE passed == Failed(policy, outcomes, "blocking") = {}
<1> DEFINE made == [policy |-> policy, outcomes |-> outcomes, after |-> after, passed |-> passed]
<1>1. /\ policy \in Policies /\ outcomes \in Seq(OutcomeType) /\ after \in 0 .. MaxDecisions
      /\ decisions' = Append(decisions, made) /\ Len(outcomes) = Len(policy)
  BY DEF Answer, GateInv, TypeOK, DeciderInv, DeciderType
<1>2. /\ \A i \in DOMAIN outcomes : Honest(policy[i], outcomes[i])
      /\ after <= Len(decisions) /\ Repeats(after, policy, outcomes)
  BY DEF GateInv, DeciderInv
<1>3. passed <=> Verdict(policy, outcomes)
  BY DEF Failed, Verdict
<1>4. policy \in Seq(Rules) /\ DOMAIN outcomes = DOMAIN policy
  BY <1>1, GateAssumption, LenProperties
<1>5. decisions \in Seq(Decision) /\ Len(decisions) \in Nat /\ DOMAIN decisions = 1 .. Len(decisions)
  BY DEF GateInv, TypeOK
<1>6. /\ made \in Decision /\ made.policy = policy /\ made.outcomes = outcomes
      /\ made.after = after /\ (made.passed <=> passed)
  BY <1>1
<1> HIDE DEF policy, outcomes, after, passed, made, Decision
<1>7. /\ decisions' \in Seq(Decision) /\ Len(decisions') = Len(decisions) + 1
      /\ DOMAIN decisions' = 1 .. Len(decisions) + 1
      /\ \A k \in 1 .. Len(decisions) : decisions'[k] = decisions[k]
      /\ decisions'[Len(decisions) + 1] = made
  BY <1>1, <1>5, <1>6, AppendProperties, LenProperties
<1>8. \A k \in DOMAIN decisions' : \/ k \in DOMAIN decisions /\ decisions'[k] = decisions[k]
                                   \/ k = Len(decisions) + 1 /\ decisions'[k] = made
  BY <1>5, <1>7
<1>9. MetRules' = MetRules /\ AvailableRules' = AvailableRules
  BY DEF Answer, data, MetRules, AvailableRules, Met, Has, Lead, PointOf
<1>10. DecisionInv'
  <2> SUFFICES ASSUME NEW k \in DOMAIN decisions'
               PROVE  \E v : /\ v = decisions'[k] /\ Len(v.outcomes) = Len(v.policy)
                             /\ \A i \in DOMAIN v.outcomes : Honest(v.policy[i], v.outcomes[i])
                             /\ v.passed <=> Verdict(v.policy, v.outcomes)
                             /\ v.after < k
    BY <1>9 DEF DecisionInv, Honest, Verdict
  <2>1. CASE k \in DOMAIN decisions /\ decisions'[k] = decisions[k]
    BY <2>1 DEF GateInv, DecisionInv
  <2>2. CASE k = Len(decisions) + 1 /\ decisions'[k] = made
    <3>1. after < k
      BY <1>1, <1>2, <1>5, <2>2, GateAssumption DEF after
    <3> QED
      BY <1>1, <1>2, <1>3, <1>6, <2>2, <3>1
  <2> QED
    BY <1>8, <2>1, <2>2
<1>11. PassedStaysPassed'
  <2> SUFFICES ASSUME NEW j \in DOMAIN decisions', NEW k \in DOMAIN decisions',
                      decisions'[j].passed, decisions'[k].after >= j,
                      decisions'[k].policy = decisions'[j].policy
               PROVE  decisions'[k].passed
    BY DEF PassedStaysPassed
  <2>1. decisions'[k].after < k /\ decisions'[k].after \in Nat
    <3>1. decisions'[k].after < k
      BY <1>10 DEF DecisionInv
    <3>2. decisions'[k] \in Decision
      BY <1>7, ElementOfSeq
    <3> QED
      BY <3>1, <3>2 DEF Decision
  <2>2. j < k /\ j \in DOMAIN decisions /\ decisions'[j] = decisions[j]
    BY <1>5, <1>7, <2>1
  <2>3. CASE k \in DOMAIN decisions /\ decisions'[k] = decisions[k]
    BY <2>2, <2>3 DEF GateInv, PassedStaysPassed
  <2>4. CASE k = Len(decisions) + 1 /\ decisions'[k] = made
    <3>1. j \in 1 .. after /\ decisions[j].passed /\ decisions[j].policy = policy
      BY <1>5, <1>6, <2>1, <2>2, <2>4
    <3>2. \A i \in DOMAIN outcomes : policy[i].severity = "blocking" => outcomes[i].passed
      BY <1>2, <3>1 DEF Repeats
    <3>3. passed
      BY <1>3, <1>4, <3>2 DEF Verdict
    <3> QED
      BY <1>6, <2>4, <3>3
  <2> QED
    BY <1>8, <2>3, <2>4
<1> QED
  BY <1>5, <1>7, <1>10, <1>11 DEF Decision

----------------------------------------------------------------------------
LEMMA GateInit == Init => GateInv
<1> SUFFICES ASSUME Init PROVE GateInv
  OBVIOUS
<1>1. /\ decisions = <<>> /\ Len(<<>>) = 0 /\ DOMAIN <<>> = {} /\ asked = 0
      /\ decider = [d \in Deciders |-> IdleDecider]
  <2>1. decisions = <<>> /\ asked = 0 /\ decider = [d \in Deciders |-> IdleDecider]
    BY Zenon DEF Init
  <2> QED
    BY <2>1, EmptySeq
<1>2. IdleDecider \in DeciderType /\ Len(IdleDecider.outcomes) <= Len(IdleDecider.policy)
  BY <1>1, GateAssumption DEF IdleDecider, DeciderType
<1>3. /\ linked \in BOOLEAN /\ point \in [Runs -> [Metrics \X AllSlices -> Points \cup {NoPoint}]]
      /\ pvalue \in [Metrics -> {"none", "low", "high"}]
      /\ passes \in [Runs -> 0 .. MaxPasses]
  <2>1. /\ linked \in BOOLEAN /\ point \in [Runs -> [Metrics \X AllSlices -> Points \cup {NoPoint}]]
        /\ pvalue \in [Metrics -> {"none", "low", "high"}]
    BY Zenon DEF Init
  <2>2. passes = [r \in Runs |-> 0]
    BY Zenon DEF Init
  <2>3. 0 \in 0 .. MaxPasses
    BY GateAssumption
  <2> QED
    BY <2>1, <2>2, <2>3
<1>4. decisions \in Seq([policy: Policies, outcomes: Seq(OutcomeType),
                         after: 0 .. MaxDecisions, passed: BOOLEAN])
  BY <1>1
<1>5. TypeOK
  <2>1. decider \in [Deciders -> DeciderType]
    BY <1>1, <1>2
  <2>2. \A d \in Deciders : Len(decider[d].outcomes) <= Len(decider[d].policy)
    BY <1>1, <1>2
  <2>3. asked \in 0 .. MaxDecisions
    BY <1>1, GateAssumption
  <2> QED
    BY <1>3, <1>4, <2>1, <2>2, <2>3 DEF TypeOK
<1>6. DeciderInv
  BY <1>1 DEF DeciderInv, IdleDecider, Repeats
<1>7. DecisionInv /\ PassedStaysPassed
  BY <1>1 DEF DecisionInv, PassedStaysPassed
<1>8. AskedInv
  <2>1. Serving = {}
    BY <1>1 DEF Serving, IdleDecider
  <2> QED
    BY <1>1, <2>1, FS_EmptySet DEF AskedInv
<1> QED
  BY <1>5, <1>6, <1>7, <1>8 DEF GateInv

LEMMA GateStep == GateInv /\ [Next]_vars => GateInv'
<1> SUFFICES ASSUME GateInv, [Next]_vars PROVE GateInv'
  OBVIOUS
<1>1. /\ UNCHANGED data /\ MetRules' = MetRules
      /\ AvailableRules \subseteq AvailableRules' /\ HalfRules \subseteq HalfRules'
  BY WorldStep DEF GateInv
<1>2. AskedInv' /\ asked' \in 0 .. MaxDecisions
  BY AskedStep
<1>3. Len(decisions) \in Nat /\ DOMAIN decisions = 1 .. Len(decisions) /\ Len(decisions) <= MaxDecisions
  BY ServingFinite, GateAssumption DEF GateInv, TypeOK, AskedInv
<1> DEFINE DecidersKept ==
      /\ decider' \in [Deciders -> DeciderType]
      /\ \A e \in Deciders : Len(decider'[e].outcomes) <= Len(decider'[e].policy)
      /\ DeciderInv'
<1> DEFINE DecisionsKept ==
      /\ decisions' \in Seq([policy: Policies, outcomes: Seq(OutcomeType),
                             after: 0 .. MaxDecisions, passed: BOOLEAN])
      /\ DecisionInv' /\ PassedStaysPassed'
<1>4. ASSUME decisions' = decisions PROVE DecisionsKept
  <2>1. DecisionInv'
    <3> SUFFICES ASSUME NEW k \in DOMAIN decisions
                 PROVE  \E v : /\ v = decisions'[k] /\ Len(v.outcomes) = Len(v.policy)
                               /\ \A i \in DOMAIN v.outcomes : Honest(v.policy[i], v.outcomes[i])
                               /\ v.passed <=> Verdict(v.policy, v.outcomes)
                               /\ v.after < k
      BY <1>1, <1>4 DEF DecisionInv, Honest, Verdict
    <3> QED
      BY <1>4 DEF GateInv, DecisionInv
  <2> QED
    BY <1>4, <2>1 DEF GateInv, TypeOK, PassedStaysPassed
<1>5. ASSUME decider' = decider, decisions' = decisions PROVE DecidersKept
  <2>1. ASSUME NEW e \in Deciders PROVE \E t \in DeciderType : t = decider'[e] /\ Sound(t)'
    <3>1. decider[e] \in DeciderType /\ Sound(decider[e])
      BY AllSound DEF GateInv, TypeOK
    <3>2. PICK t \in DeciderType : t = decider[e] /\ Sound(t)
      BY <3>1
    <3>3. Sound(t)'
      BY <1>1, <1>3, <1>5, <3>2, SoundStays DEF GateInv
    <3> QED
      BY <1>5, <3>2, <3>3
  <2>2. DeciderInv'
    BY <2>1, SoundMeans
  <2> QED
    BY <1>5, <2>2 DEF GateInv, TypeOK
<1>6. ASSUME NEW r \in Runs, Aggregate(r) PROVE GateInv'
  <2>1. passes' \in [Runs -> 0 .. MaxPasses]
    <3>1. passes[r] < MaxPasses /\ passes' = [passes EXCEPT ![r] = @ + 1]
      BY <1>6, Zenon DEF Aggregate
    <3>2. passes \in [Runs -> 0 .. MaxPasses] /\ MaxPasses \in Nat
      BY GateAssumption DEF GateInv, TypeOK
    <3> QED
      BY <3>1, <3>2
  <2> QED
    BY <1>1, <1>2, <1>4, <1>5, <1>6, <2>1 DEF Aggregate, GateInv, TypeOK, data
<1>7. ASSUME NEW d \in Deciders,
             (\E policy \in Policies : Begin(d, policy)) \/ ReadResult(d) \/ ReadBaseline(d)
      PROVE  GateInv'
  <2>1. UNCHANGED <<passes, decisions>>
    BY <1>7 DEF Begin, ReadResult, ReadBaseline
  <2>2. \E s \in DeciderType : /\ decider' = [decider EXCEPT ![d] = s]
                               /\ Sound(s) /\ Len(s.outcomes) <= Len(s.policy)
    BY <1>3, <1>7, BeginStep, ReadResultStep, ReadBaselineStep
  <2>3. DecidersKept
    <3>1. /\ Len(decisions') \in Nat /\ Len(decisions) <= Len(decisions')
          /\ \A j \in 1 .. Len(decisions) : decisions'[j] = decisions[j]
      BY <1>3, <2>1
    <3>2. PICK s \in DeciderType : /\ decider' = [decider EXCEPT ![d] = s]
                                   /\ Sound(s) /\ Len(s.outcomes) <= Len(s.policy)
      BY <2>2
    <3> QED
      BY <1>1, <3>1, <3>2, DeciderStep
  <2> QED
    BY <1>1, <1>2, <1>4, <2>1, <2>3 DEF GateInv, TypeOK, data
<1>8. ASSUME NEW d \in Deciders, Answer(d) PROVE GateInv'
  <2>1. passes' = passes /\ decider' = [decider EXCEPT ![d] = IdleDecider]
    BY <1>8 DEF Answer
  <2>2. DecisionsKept /\ Len(decisions') = Len(decisions) + 1
        /\ \A k \in DOMAIN decisions : decisions'[k] = decisions[k]
    BY <1>8, AnswerStep
  <2>3. DecidersKept
    <3>1. /\ Len(decisions') \in Nat /\ Len(decisions) <= Len(decisions')
          /\ \A j \in 1 .. Len(decisions) : decisions'[j] = decisions[j]
      <4> HIDE DEF DecisionsKept
      <4> QED
        BY <1>3, <2>2
    <3>2. PICK s \in DeciderType : /\ decider' = [decider EXCEPT ![d] = s]
                                   /\ Sound(s) /\ Len(s.outcomes) <= Len(s.policy)
      BY <2>1, IdleSound
    <3> QED
      BY <1>1, <3>1, <3>2, DeciderStep
  <2> QED
    BY <1>1, <1>2, <2>1, <2>2, <2>3 DEF GateInv, TypeOK, data
<1>9. CASE UNCHANGED vars
  BY <1>1, <1>2, <1>4, <1>5, <1>9 DEF vars, GateInv, TypeOK, data
<1> QED
  BY <1>6, <1>7, <1>8, <1>9 DEF Next, Decide

LEMMA GateInvHolds == Spec => []GateInv
  BY GateInit, GateStep, PTL DEF Spec

\* Requests, outcomes and decisions have their types: no request has more
\* outcomes than its policy has rules, and no answer comes without a request.
THEOREM GateTyped == Spec => []TypeOK
<1>1. GateInv => TypeOK
  BY DEF GateInv
<1> QED
  BY <1>1, GateInvHolds, PTL

\* A decision has an outcome for each rule of its policy.
LEMMA DecisionDomains ==
  ASSUME GateInv, NEW k \in DOMAIN decisions, NEW i \in DOMAIN decisions[k].policy
  PROVE  i \in DOMAIN decisions[k].outcomes /\ decisions[k].policy[i] \in Rules
<1>1. decisions[k] \in [policy: Policies, outcomes: Seq(OutcomeType),
                        after: 0 .. MaxDecisions, passed: BOOLEAN]
  <2> decisions \in Seq([policy: Policies, outcomes: Seq(OutcomeType),
                         after: 0 .. MaxDecisions, passed: BOOLEAN])
    BY DEF GateInv, TypeOK
  <2> k \in 1 .. Len(decisions)
    BY LenProperties
  <2> QED
    BY ElementOfSeq
<1>2. decisions[k].policy \in Seq(Rules) /\ decisions[k].outcomes \in Seq(OutcomeType)
  BY <1>1, GateAssumption
<1>3. Len(decisions[k].outcomes) = Len(decisions[k].policy)
  BY DEF GateInv, DecisionInv
<1> QED
  BY <1>2, <1>3, LenProperties, ElementOfSeq

\* A gate that passed was right to, for any policy and whatever aggregations
\* committed between its queries (evaluate_policy).
THEOREM PassEarned == Spec => []PassedIsEarned
<1>1. GateInv => PassedIsEarned
  <2> SUFFICES ASSUME GateInv, NEW k \in DOMAIN decisions, decisions[k].passed,
                      NEW i \in DOMAIN decisions[k].policy,
                      decisions[k].policy[i].severity = "blocking"
               PROVE  Met(decisions[k].policy[i])
    BY DEF PassedIsEarned
  <2>1. decisions[k].outcomes[i].passed
    BY DEF GateInv, DecisionInv, Verdict
  <2>2. i \in DOMAIN decisions[k].outcomes
    BY DecisionDomains
  <2>3. decisions[k].policy[i] \in MetRules
    BY <2>1, <2>2 DEF GateInv, DecisionInv, Honest
  <2> QED
    BY <2>3 DEF MetRules
<1> QED
  BY <1>1, GateInvHolds, PTL

\* A rule that failed on results it found is not met by them, now or later.
THEOREM FailureFinal == Spec => []FailureIsFinal
<1>1. GateInv => FailureIsFinal
  <2> SUFFICES ASSUME GateInv, NEW k \in DOMAIN decisions, NEW i \in DOMAIN decisions[k].policy,
                      ~decisions[k].outcomes[i].passed,
                      decisions[k].outcomes[i].reason # "missing"
               PROVE  ~Met(decisions[k].policy[i])
    BY DEF FailureIsFinal
  <2>1. i \in DOMAIN decisions[k].outcomes /\ decisions[k].policy[i] \in Rules
    BY DecisionDomains
  <2>2. decisions[k].policy[i] \notin MetRules
    BY <2>1 DEF GateInv, DecisionInv, Honest
  <2> QED
    BY <2>1, <2>2 DEF MetRules
<1> QED
  BY <1>1, GateInvHolds, PTL

\* A gate that passed passes again, whatever has been aggregated since, and
\* whoever else asks meanwhile.
THEOREM PassedStays == Spec => []PassedStaysPassed
<1>1. GateInv => PassedStaysPassed
  BY DEF GateInv
<1> QED
  BY <1>1, GateInvHolds, PTL
=============================================================================
