----------------------------- MODULE AlertRules -----------------------------
(***************************************************************************)
(* The two predicates of an alert rule (nimon-core, alert/rules.rs):       *)
(* `evaluate` - should the alert fire or stay firing - and `is_cleared` -  *)
(* may an active alert be resolved automatically.  They are deliberately   *)
(* not complements: hysteresis leaves a band where neither holds.          *)
(*                                                                         *)
(* Metric values and thresholds are integers: every comparison of the code *)
(* except its 1e-9 equality tolerance is the same on them.  A reading is a *)
(* number, a boolean (as 0 or 1) or unknown, which stands for a metric     *)
(* that is missing, NaN, infinite or text.                                 *)
(***************************************************************************)
EXTENDS Integers

Operators == {"gt", "lt", "eq", "ne", "ge", "le"}

\* HealthStatus as far as conditions tell statuses apart.
Healthy == "healthy"
Offline == "offline"
ErrorState == "error"
Statuses == {Healthy, ErrorState, Offline}

\* `previous_status: None`: the device was not known before this report.
NoStatus == "none"

\* `from: None` of a HealthStatusChange rule: any status.
AnyStatus == "any"

\* `max_eta_minutes: None` of a rule and `eta_minutes: None` of a prediction.
NoEta == -1

Number(v) == [kind |-> "number", val |-> v]
Bool(b) == [kind |-> "bool", val |-> IF b THEN 1 ELSE 0]
Unknown == [kind |-> "unknown", val |-> 0]
Readings == [kind : {"number"}, val : Int] \cup {Bool(TRUE), Bool(FALSE), Unknown}

-----------------------------------------------------------------------------
(* ComparisonOp *)

Compare(op, v, t) ==
  \/ op = "gt" /\ v > t
  \/ op = "lt" /\ v < t
  \/ op = "eq" /\ v = t
  \/ op = "ne" /\ v # t
  \/ op = "ge" /\ v >= t
  \/ op = "le" /\ v <= t

Margin(h) == IF h > 0 THEN h ELSE 0

Distance(v, t) == IF v >= t THEN v - t ELSE t - v

\* The value is back past the threshold by the margin.  Equality clears only
\* outside the margin, inequality only on an exact return.
BackPast(op, v, t, h) ==
  \/ op = "gt" /\ v <= t - Margin(h)
  \/ op = "ge" /\ v < t - Margin(h)
  \/ op = "lt" /\ v >= t + Margin(h)
  \/ op = "le" /\ v > t + Margin(h)
  \/ op = "eq" /\ v # t /\ Distance(v, t) > Margin(h)
  \/ op = "ne" /\ v = t

-----------------------------------------------------------------------------
(* RuleCondition: a condition is a record with a `type` and its fields; a  *)
(* context is [status, previous, reading, pollAge, predictions].           *)

BooleanOps == {"eq", "ne"}

MetricFires(c, r) ==
  /\ r.kind = "bool" => c.op \in BooleanOps
  /\ r.kind # "unknown"
  /\ Compare(c.op, r.val, c.threshold)

MetricClears(c, r) ==
  \/ r.kind = "number" /\ BackPast(c.op, r.val, c.threshold, c.hysteresis)
  \/ r.kind = "bool" /\ ~ MetricFires(c, r)

HealthChangeFires(c, x) ==
  /\ x.previous # NoStatus
  /\ x.status = c.to
  /\ x.previous # c.to
  /\ c.from \in {AnyStatus, x.previous}

\* One prediction [type, prob, eta] matches a prediction condition.
Matches(c, p) ==
  /\ p.type = c.ptype
  /\ p.prob >= c.minProb
  /\ c.maxEta # NoEta => p.eta # NoEta /\ p.eta <= c.maxEta

MatchingPrediction(c, x) == \E p \in x.predictions : Matches(c, p)

DeviceGone(c, x) == x.status = Offline \/ x.pollAge > c.maxPollAge

SimpleFires(c, x) ==
  \/ c.type = "metric" /\ MetricFires(c, x.reading)
  \/ c.type = "health" /\ HealthChangeFires(c, x)
  \/ c.type = "prediction" /\ MatchingPrediction(c, x)
  \/ c.type = "offline" /\ DeviceGone(c, x)

SimpleClears(c, x) ==
  \/ c.type = "metric" /\ MetricClears(c, x.reading)
  \/ c.type = "health" /\ x.status # c.to
  \/ c.type = "prediction" /\ ~ MatchingPrediction(c, x)
  \/ c.type = "offline" /\ ~ DeviceGone(c, x)

\* A composite [type |-> "composite", op, parts] over simple conditions.
CompositeFires(c, x) ==
  /\ c.parts # {}
  /\ \/ c.op = "and" /\ \A p \in c.parts : SimpleFires(p, x)
     \/ c.op = "or" /\ \E p \in c.parts : SimpleFires(p, x)

CompositeClears(c, x) ==
  \/ c.parts = {}
  \/ c.op = "and" /\ \E p \in c.parts : SimpleClears(p, x)
  \/ c.op = "or" /\ \A p \in c.parts : SimpleClears(p, x)

Evaluate(c, x) ==
  IF c.type = "composite" THEN CompositeFires(c, x) ELSE SimpleFires(c, x)

IsCleared(c, x) ==
  IF c.type = "composite" THEN CompositeClears(c, x) ELSE SimpleClears(c, x)

\* Conditions whose truth changes with time alone: the ones a sweep may fire.
SimpleTimeBased(c) == c.type \in {"offline", "prediction"}

IsTimeBased(c) ==
  \/ SimpleTimeBased(c)
  \/ c.type = "composite" /\ \E p \in c.parts : SimpleTimeBased(p)

-----------------------------------------------------------------------------
(* The types of conditions and contexts, for the runs and the theorems. *)

MetricConditions ==
  [type : {"metric"}, op : Operators, threshold : Int, hysteresis : Int, window : Int]
HealthConditions ==
  [type : {"health"}, from : Statuses \cup {AnyStatus}, to : Statuses]
OfflineConditions == [type : {"offline"}, maxPollAge : Int]
PredictionConditions(PredTypes) ==
  [type : {"prediction"}, ptype : PredTypes, minProb : Int, maxEta : Int]

SimpleConditions(PredTypes) ==
  MetricConditions \cup HealthConditions \cup OfflineConditions
    \cup PredictionConditions(PredTypes)

CompositeConditions(PredTypes) ==
  [type : {"composite"}, op : {"and", "or"}, parts : SUBSET SimpleConditions(PredTypes)]

Conditions(PredTypes) == SimpleConditions(PredTypes) \cup CompositeConditions(PredTypes)

Predictions(PredTypes) == [type : PredTypes, prob : Int, eta : Int]

Contexts(PredTypes) ==
  [status : Statuses, previous : Statuses \cup {NoStatus}, reading : Readings,
   pollAge : Int, predictions : SUBSET Predictions(PredTypes)]
=============================================================================
