------------------------ MODULE AlertManager_proofs ------------------------
(***************************************************************************)
(* Proofs about the alert manager for every set of edges, devices and      *)
(* rules, every cooldown and every limit: type correctness, the alerts of  *)
(* rules stay evaluable, and manual resolutions hold; and about the rules: *)
(* firing and clearing exclude each other, and without hysteresis a        *)
(* numeric comparison clears exactly when it stops holding.                *)
(*                                                                         *)
(* The second half relates the manager's memory to the alerts table and to *)
(* the operations that wait in the database writer, and shows that alerts  *)
(* of restored devices stay and a rule never has more than its cap.  What  *)
(* the table holds once the waiting operations ran is a fold over the      *)
(* queue: Result(s, base, q) says that s is such a fold without naming it, *)
(* its lemmas say how it changes when operations are appended (a handler), *)
(* applied (the writer) or dropped (a crash), and the rest of the proof    *)
(* argues about one row at a time.                                         *)
(***************************************************************************)
EXTENDS AlertManager, FiniteSetTheorems, TLAPS

-----------------------------------------------------------------------------
(* Rules *)

\* A value that has come back past the threshold no longer compares true,
\* whatever the margin, a negative one (treated as 0) included.
LEMMA BackPastStopsComparison ==
  ASSUME NEW op \in Operators, NEW v \in Int, NEW t \in Int, NEW h \in Int,
         BackPast(op, v, t, h)
  PROVE  ~ Compare(op, v, t)
BY DEF Operators, BackPast, Compare, Margin, Distance

\* The fire and clear predicates of one metric comparison never overlap.
LEMMA MetricExclusive ==
  ASSUME NEW c \in MetricConditions, NEW r \in Readings,
         MetricFires(c, r), MetricClears(c, r)
  PROVE  FALSE
<1>1. c.op \in Operators /\ c.threshold \in Int /\ c.hysteresis \in Int
  BY DEF MetricConditions
<1>2. r.val \in Int
  BY DEF Readings, Bool, Unknown
<1>3. CASE r.kind = "number" /\ BackPast(c.op, r.val, c.threshold, c.hysteresis)
  BY <1>1, <1>2, <1>3, BackPastStopsComparison DEF MetricFires
<1>4. CASE r.kind = "bool" /\ ~ MetricFires(c, r)
  BY <1>4
<1>5. QED
  BY <1>3, <1>4 DEF MetricClears

\* The same for every condition that is not a composite.
LEMMA SimpleExclusive ==
  ASSUME NEW c \in SimpleConditions(PredTypes),
         NEW x \in Contexts(PredTypes)
  PROVE  ~ (SimpleFires(c, x) /\ SimpleClears(c, x))
<1> SUFFICES ASSUME SimpleFires(c, x), SimpleClears(c, x) PROVE FALSE
  OBVIOUS
<1>1. CASE c \in MetricConditions
  <2>1. c.type = "metric"
    BY <1>1 DEF MetricConditions
  <2>2. MetricFires(c, x.reading) /\ MetricClears(c, x.reading)
    BY <2>1 DEF SimpleFires, SimpleClears
  <2>3. x.reading \in Readings
    BY DEF Contexts
  <2>4. QED
    BY <1>1, <2>2, <2>3, MetricExclusive
<1>2. CASE c \in HealthConditions
  BY <1>2 DEF HealthConditions, SimpleFires, SimpleClears, HealthChangeFires
<1>3. CASE c \in OfflineConditions
  BY <1>3 DEF OfflineConditions, SimpleFires, SimpleClears
<1>4. CASE c \in PredictionConditions(PredTypes)
  BY <1>4 DEF PredictionConditions, SimpleFires, SimpleClears
<1>5. QED
  BY <1>1, <1>2, <1>3, <1>4 DEF SimpleConditions

\* An alert cannot be fired and resolved by the same evaluation: for every
\* condition, And/Or composites included, evaluate and is_cleared exclude
\* each other (rules.rs, "a margin here would make fire and clear overlap").
THEOREM FireExcludesClear ==
  ASSUME NEW c \in Conditions(PredTypes), NEW x \in Contexts(PredTypes)
  PROVE  ~ (Evaluate(c, x) /\ IsCleared(c, x))
<1>1. CASE c \in CompositeConditions(PredTypes)
  <2>1. c.type = "composite" /\ c.op \in {"and", "or"}
        /\ c.parts \subseteq SimpleConditions(PredTypes)
    BY <1>1 DEF CompositeConditions
  <2>2. \A p \in c.parts : ~ (SimpleFires(p, x) /\ SimpleClears(p, x))
    BY <2>1, SimpleExclusive
  <2>3. ~ (CompositeFires(c, x) /\ CompositeClears(c, x))
    BY <2>1, <2>2 DEF CompositeFires, CompositeClears
  <2>4. QED
    BY <2>1, <2>3 DEF Evaluate, IsCleared
<1>2. CASE c \in SimpleConditions(PredTypes)
  <2>1. c.type # "composite"
    BY <1>2 DEF SimpleConditions, MetricConditions, HealthConditions,
                OfflineConditions, PredictionConditions
  <2>2. QED
    BY <1>2, <2>1, SimpleExclusive DEF Evaluate, IsCleared
<1>3. QED
  BY <1>1, <1>2 DEF Conditions

\* "With margin 0 this is exactly 'the comparison is false'": without
\* hysteresis (none, or a non-positive one) clearing is the complement of
\* firing, so no reading leaves an alert stuck in between.
THEOREM NoMarginNoBand ==
  ASSUME NEW op \in Operators, NEW v \in Int, NEW t \in Int, NEW h \in Int, h <= 0
  PROVE  BackPast(op, v, t, h) <=> ~ Compare(op, v, t)
BY DEF Operators, BackPast, Compare, Margin, Distance

-----------------------------------------------------------------------------
(* Constants and ages *)

LEMMA Ages ==
  /\ Horizon \in Nat /\ 0 \in Age /\ 0 \in MaybeAge /\ Horizon \in Age /\ NoTime \in MaybeAge
  /\ NoTime \notin Age /\ Age \subseteq MaybeAge /\ MaybeAge \subseteq Nat
  /\ \A a \in MaybeAge : a = NoTime \/ a \in Age
  /\ \A a \in Age : a \in Nat /\ a <= Horizon
  BY ConstantsAssumption DEF Age, MaybeAge, NoTime

LEMMA Aging ==
  /\ \A a \in MaybeAge : Older(a) \in MaybeAge
  /\ \A a \in Age : Older(a) \in Age
  BY ConstantsAssumption DEF Age, MaybeAge, NoTime, Older

LEMMA Counting == 1 \in Fired /\ 0 \in Fired /\ \A n \in Fired : Bump(n) \in Fired
  BY ConstantsAssumption DEF Fired, Bump

LEMMA KeySets ==
  /\ RuleKeys \subseteq DeviceKeys /\ EdgeKeys \subseteq TtlKeys /\ PredKeys \subseteq TtlKeys
  /\ TtlKeys \subseteq DeviceKeys /\ DeviceKeys \subseteq Keys /\ OfflineKeys \subseteq Keys
  /\ \A k \in DeviceKeys : k[1] \in Sources /\ k[2] \in Devices /\ k \notin OfflineKeys
  /\ \A e \in Edges : OfflineKey(e) \in OfflineKeys
  /\ \A k \in OfflineKeys : k[2] \in Edges /\ k = OfflineKey(k[2])
  /\ \A k \in Keys : k \in DeviceKeys \/ k \in OfflineKeys
  BY SourcesAssumption DEF RuleKeys, EdgeKeys, PredKeys, TtlKeys, DeviceKeys, Keys, OfflineKeys,
     OfflineKey, Sources

LEMMA FiniteKeys == IsFiniteSet(Keys)
<1>1. IsFiniteSet(RuleKeys)
  BY FiniteAssumption, FS_Product DEF RuleKeys
<1>2. IsFiniteSet(EdgeKeys)
  BY FiniteAssumption, FS_Product DEF EdgeKeys
<1>3. IsFiniteSet(PredKeys)
  BY FiniteAssumption, FS_Product DEF PredKeys
<1>4. IsFiniteSet(OfflineKeys)
  BY FiniteAssumption, FS_Singleton, FS_Product DEF OfflineKeys
<1> QED BY <1>1, <1>2, <1>3, <1>4, FS_Union DEF Keys, DeviceKeys

-----------------------------------------------------------------------------
(* The writes submitted by one handler *)

LEMMA Submitted ==
  ASSUME StoreTyped, NEW s \in Seq(Operations), Submit(s)
  PROVE  queue' \in Seq(Operations) /\ Len(queue') <= MaxQueue
<1>1. CASE HasDb
  <2>1. queue' = queue \o s /\ Len(queue) + Len(s) <= MaxQueue
    BY <1>1 DEF Submit
  <2> QED BY <2>1 DEF StoreTyped
<1>2. CASE ~ HasDb
  BY <1>2 DEF Submit, StoreTyped
<1> QED BY <1>1, <1>2

LEMMA AllSubmitted ==
  ASSUME StoreTyped, NEW S \in SUBSET Operations, IsFiniteSet(S), SubmitAll(S)
  PROVE  queue' \in Seq(Operations) /\ Len(queue') <= MaxQueue
<1>1. CASE HasDb
  <2>1. PICK s \in Orderings(S) : Submit(s)
    BY <1>1 DEF SubmitAll
  <2>2. Cardinality(S) \in Nat
    BY FS_CardinalityType
  <2>3. s \in [1 .. Cardinality(S) -> S]
    BY DEF Orderings
  <2>4. s \in Seq(Operations)
    BY <2>2, <2>3
  <2> QED BY <2>1, <2>4, Submitted
<1>2. CASE ~ HasDb
  BY <1>2 DEF SubmitAll, StoreTyped
<1> QED BY <1>1, <1>2

LEMMA NextIds ==
  ASSUME AlertsTyped, NEW k \in Keys, HasNextId(k)
  PROVE  NextId(k) \in Ids
  BY ConstantsAssumption DEF AlertsTyped, HasNextId, NextId, Ids

LEMMA ActiveIds ==
  ASSUME AlertsTyped, NEW k \in Keys, IsActive(k)
  PROVE  active[k].n \in Ids
  BY ConstantsAssumption DEF AlertsTyped, Alerts, IsActive, Ids

LEMMA WritesTyped ==
  ASSUME AlertsTyped, NEW k \in Keys
  PROVE  /\ HasNextId(k) => InsertOp(k) \in Operations
         /\ IsActive(k) => RefireOp(k) \in Operations
         /\ \A n \in Ids : ResolveOp(k, n) \in Operations
         /\ \A n \in Ids, b \in BOOLEAN : Op("ack", k, n, "acknowledged", 0, b) \in Operations
<1>1. HasNextId(k) => InsertOp(k) \in Operations
  BY Ages, Counting, NextIds DEF InsertOp, Op, Operations, RowStatuses, AlertStatuses
<1>2. ASSUME IsActive(k) PROVE RefireOp(k) \in Operations
  <2>1. active[k].n \in Ids /\ active[k].status \in RowStatuses /\ Bump(active[k].fired) \in Fired
    BY <1>2, ActiveIds, Counting DEF AlertsTyped, Alerts, RowStatuses
  <2> QED BY <2>1, Ages DEF RefireOp, Op, Operations
<1>3. \A n \in Ids : ResolveOp(k, n) \in Operations
  BY Ages, Counting DEF ResolveOp, Op, Operations, RowStatuses, AlertStatuses
<1>4. \A n \in Ids, b \in BOOLEAN : Op("ack", k, n, "acknowledged", 0, b) \in Operations
  BY Ages, Counting DEF Op, Operations, RowStatuses, AlertStatuses
<1> QED BY <1>1, <1>2, <1>3, <1>4

LEMMA ChangeWrites ==
  ASSUME AlertsTyped, StoreTyped, NEW open \in SUBSET Keys, NEW refire \in SUBSET Keys,
         NEW resolve \in SUBSET Keys, \A k \in open : HasNextId(k),
         \A k \in refire \cup resolve : IsActive(k),
         SubmitAll({InsertOp(k) : k \in open} \cup {RefireOp(k) : k \in refire}
                     \cup {ResolveOp(k, active[k].n) : k \in resolve})
  PROVE  queue' \in Seq(Operations) /\ Len(queue') <= MaxQueue
<1> DEFINE Inserts == {InsertOp(k) : k \in open}
           Refires == {RefireOp(k) : k \in refire}
           Resolves == {ResolveOp(k, active[k].n) : k \in resolve}
<1>1. IsFiniteSet(open) /\ IsFiniteSet(refire) /\ IsFiniteSet(resolve)
  BY FiniteKeys, FS_Subset
<1>2. IsFiniteSet(Inserts) /\ Inserts \subseteq Operations
  <2>1. [k \in open |-> InsertOp(k)] \in Surjection(open, Inserts)
    BY DEF Surjection
  <2> QED BY <1>1, <2>1, FS_Surjection, WritesTyped
<1>3. IsFiniteSet(Refires) /\ Refires \subseteq Operations
  <2>1. [k \in refire |-> RefireOp(k)] \in Surjection(refire, Refires)
    BY DEF Surjection
  <2> QED BY <1>1, <2>1, FS_Surjection, WritesTyped
<1>4. IsFiniteSet(Resolves) /\ Resolves \subseteq Operations
  <2>1. [k \in resolve |-> ResolveOp(k, active[k].n)] \in Surjection(resolve, Resolves)
    BY DEF Surjection
  <2> QED BY <1>1, <2>1, FS_Surjection, ActiveIds, WritesTyped
<1>5. IsFiniteSet(Inserts \cup Refires \cup Resolves)
  BY <1>2, <1>3, <1>4, FS_Union
<1> QED BY <1>2, <1>3, <1>4, <1>5, AllSubmitted

LEMMA Changed ==
  ASSUME TypeOK, NEW open \in SUBSET Keys, NEW refire \in SUBSET Keys,
         NEW resolve \in SUBSET Keys, NEW touch, NEW excused, NEW lost \in SUBSET Keys,
         \A k \in refire \cup resolve : IsActive(k),
         Change(open, refire, resolve, touch, excused, lost)
  PROVE  AlertsTyped' /\ HistoryTyped' /\ queue' \in Seq(Operations) /\ Len(queue') <= MaxQueue
<1> USE DEF TypeOK
<1>1. queue' \in Seq(Operations) /\ Len(queue') <= MaxQueue
  BY ChangeWrites DEF Change
<1>2. \A k \in open : Opened(k) \in Alerts /\ NextId(k) \in Ids
  BY NextIds, Ages, Counting DEF Change, Opened, Alerts, Ids, AlertStatuses
<1>3. \A k \in Keys : Refired(active[k]) \in Alerts /\ NoAlert \in Alerts /\ active[k] \in Alerts
  <2>1. NoAlert \in Alerts
    BY ConstantsAssumption, Ages, Counting DEF NoAlert, Alerts, AlertStatuses
  <2>2. \A x \in Alerts : Refired(x) \in Alerts
    BY Ages, Counting DEF Refired, Alerts
  <2> QED BY <2>1, <2>2 DEF AlertsTyped
<1>4. active' \in [Keys -> Alerts]
  BY <1>2, <1>3 DEF Change
<1>5. reported' \in [TtlKeys -> MaybeAge] /\ opened' \in [Keys -> 0 .. MaxAlerts]
  BY <1>2, Ages DEF Change, AlertsTyped, Ids
<1>6. ackOk' \subseteq Keys \X Ids /\ nagged' \subseteq Keys \X Ids
  BY DEF Change, HistoryTyped
<1>7. byHand' \in [Keys -> MaybeAge] /\ lapsed' \subseteq Keys
  BY Ages DEF Change, HistoryTyped
<1> QED BY <1>1, <1>4, <1>5, <1>6, <1>7 DEF AlertsTyped, HistoryTyped

\* The same when nothing changes.
LEMMA Unchanged ==
  ASSUME TypeOK, NoChange
  PROVE  AlertsTyped' /\ HistoryTyped' /\ queue' \in Seq(Operations) /\ Len(queue') <= MaxQueue
  BY DEF TypeOK, NoChange, history, AlertsTyped, HistoryTyped, StoreTyped

-----------------------------------------------------------------------------
(* Parts of the handlers *)

LEMMA RuleSets ==
  ASSUME ProcessTyped, NEW d \in Devices, NEW x, NEW sweep
  PROVE  /\ KeysOf(Holding(x, sweep), d) \subseteq RuleKeys
         /\ KeysOf(NotHolding(x, sweep), d) \subseteq RuleKeys
         /\ KeysOf(Cleared(x), d) \subseteq RuleKeys
         /\ \A R : \A k \in KeysOf(R, d) : k[1] \in R /\ k[2] = d
         /\ Holding(x, sweep) \subseteq configured /\ Cleared(x) \subseteq configured
<1>1. configured \subseteq Rules
  BY ConstantsAssumption DEF ProcessTyped
<1>2. /\ Holding(x, sweep) \subseteq configured /\ NotHolding(x, sweep) \subseteq configured
      /\ Cleared(x) \subseteq configured
  BY DEF Holding, NotHolding, Evaluated, Cleared
<1>3. \A R \in SUBSET Rules : KeysOf(R, d) \subseteq RuleKeys
  BY DEF KeysOf, RuleKeys
<1>4. \A R : \A k \in KeysOf(R, d) : k[1] \in R /\ k[2] = d
  BY DEF KeysOf
<1> QED BY <1>1, <1>2, <1>3, <1>4

LEMMA Candidates ==
  ASSUME NEW K
  PROVE  /\ Unheld(K) \subseteq K /\ \A k \in Unheld(K) : ~ IsActive(k) /\ ~ Held(k)
         /\ RuleRefires(K) \subseteq K /\ \A k \in RuleRefires(K) : IsActive(k)
         /\ Active(K) \subseteq K /\ \A k \in Active(K) : IsActive(k)
  BY DEF Unheld, RuleRefires, Active

LEMMA SeenTyped ==
  ASSUME KnownTyped, NEW e \in Edges, SeenEdge(e)
  PROVE  edges' \in [Edges -> MaybeAge] /\ latched' \subseteq Edges
  BY Ages DEF KnownTyped, SeenEdge

LEMMA TouchTyped ==
  ASSUME KnownTyped, NEW e \in Edges, TouchSession(e)
  PROVE  heard' \in [Edges -> MaybeAge]
<1>1. (IF heard[e] = NoTime THEN heard[e] ELSE 0) \in MaybeAge
  BY Ages DEF KnownTyped
<1> QED BY <1>1 DEF KnownTyped, TouchSession

LEMMA EdgeRowTyped ==
  ASSUME StoreTyped, NEW e \in Edges, WriteEdgeRow(e)
  PROVE  dbEdges' \in [Edges -> MaybeAge]
  BY Ages DEF StoreTyped, WriteEdgeRow

LEMMA HoldTyped ==
  ASSUME KnownTyped, NEW K, Unhold(K)
  PROVE  hold' \in [DeviceKeys -> Age]
  BY Ages DEF KnownTyped, Unhold

LEMMA BreachTyped ==
  ASSUME KnownTyped, NEW holding, NEW ended
  PROVE  Breaches(holding, ended) \in [RuleKeys -> MaybeAge]
<1>1. \A k \in RuleKeys : BreachAge(k) \in MaybeAge /\ breach[k] \in MaybeAge
  BY Ages DEF KnownTyped, BreachAge
<1> QED BY <1>1, Ages DEF Breaches

LEMMA Raised ==
  ASSUME TypeOK, NEW k \in TtlKeys, RaiseReported(k)
  PROVE  /\ AlertsTyped' /\ HistoryTyped' /\ hold' \in [DeviceKeys -> Age]
         /\ queue' \in Seq(Operations) /\ Len(queue') <= MaxQueue
<1> USE DEF TypeOK
<1>0. k \in Keys
  BY KeySets
<1>1. CASE IsActive(k)
  <2>1. PICK refire \in SUBSET {k} : Change({}, refire, {}, {k}, {}, {})
    BY <1>1 DEF RaiseReported
  <2>2. hold' = hold
    BY <1>1 DEF RaiseReported
  <2> QED BY <1>0, <1>1, <2>1, <2>2, Changed DEF KnownTyped
<1>2. CASE ~ IsActive(k) /\ Held(k)
  BY <1>2, Unchanged DEF RaiseReported, KnownTyped
<1>3. CASE ~ IsActive(k) /\ ~ Held(k)
  BY <1>0, <1>3, Changed, HoldTyped DEF RaiseReported
<1> QED BY <1>1, <1>2, <1>3

LEMMA NothingKnown ==
  /\ NoDevice \in DeviceStates /\ NoPrediction \in PredictionStates
  /\ [t \in PredTypes |-> NoPrediction] \in [PredTypes -> PredictionStates]
<1>1. NoDevice \in DeviceStates
  BY Ages DEF NoDevice, DeviceStates, Unknown, Readings
<1>2. NoPrediction \in PredictionStates
  BY Ages DEF NoPrediction, PredictionStates, NoEta
<1> QED BY <1>1, <1>2

LEMMA Forgotten ==
  ASSUME KnownTyped, NEW D, NEW cached \in [Devices -> [PredTypes -> PredictionStates]],
         Forget(D, cached)
  PROVE  /\ devices' \in [Devices -> DeviceStates]
         /\ preds' \in [Devices -> [PredTypes -> PredictionStates]]
  BY NothingKnown DEF KnownTyped, Forget

-----------------------------------------------------------------------------
(* Each action keeps the types *)

LEMMA StatusUpdateTyped ==
  ASSUME TypeOK, NEW d \in Devices, NEW report \in Reports, DeviceStatusUpdate(d, report)
  PROVE  TypeOK'
<1> USE DEF TypeOK
<1> DEFINE known == devices[d]
           x == Context(d, report.status, IF known.known THEN known.status ELSE NoStatus,
                        report.reading, 0)
           holding == KeysOf(Holding(x, FALSE), d)
           healed == IF report.status = Healthy THEN EdgeMetrics \X {d} ELSE {}
           ended == KeysOf(NotHolding(x, FALSE), d)
           resolve == Active(KeysOf(Cleared(x), d) \cup healed \cup {OfflineKey(EdgeOf[d])})
           open == {k \in Unheld(holding) : BelowCap(k)}
<1>0. EdgeOf[d] \in Edges /\ report.status \in Statuses /\ report.reading \in Readings
  BY ConstantsAssumption
<1>1. holding \subseteq RuleKeys /\ healed \subseteq EdgeKeys /\ KeysOf(Cleared(x), d) \subseteq RuleKeys
  <2>1. \A y : /\ KeysOf(Holding(y, FALSE), d) \subseteq RuleKeys
               /\ KeysOf(Cleared(y), d) \subseteq RuleKeys
    BY RuleSets
  <2>2. healed \subseteq EdgeKeys
    BY DEF EdgeKeys
  <2> QED BY <2>1, <2>2
<1>2. SeenEdge(EdgeOf[d]) /\ TouchSession(EdgeOf[d])
  BY DEF DeviceStatusUpdate
<1>3. devices' = [devices EXCEPT ![d] =
        [known |-> TRUE, status |-> report.status, reading |-> report.reading,
         seen |-> 0, restored |-> FALSE]]
  BY DEF DeviceStatusUpdate
<1>4. breach' = Breaches(holding, ended) /\ Unhold(Unheld(holding))
  BY DEF DeviceStatusUpdate
<1>5. Change(open, RuleRefires(holding), resolve, {}, {OfflineKey(EdgeOf[d])}, {})
  BY DEF DeviceStatusUpdate
<1>6. \/ dbDevices' = [dbDevices EXCEPT ![d] =
               [status |-> report.status, reading |-> report.reading, at |-> 0]]
      \/ UNCHANGED dbDevices
  BY DEF DeviceStatusUpdate
<1>7. UNCHANGED <<preds, rows, dbEdges, configured, up, restarts, failures>>
  BY DEF DeviceStatusUpdate
<1> HIDE DEF x, holding, ended, healed
<1>8. open \subseteq Keys /\ RuleRefires(holding) \subseteq Keys /\ resolve \subseteq Keys
  BY <1>0, <1>1, Candidates, KeySets
<1>9. \A k \in RuleRefires(holding) \cup resolve : IsActive(k)
  BY Candidates
<1> HIDE DEF open, resolve
<1>10. AlertsTyped' /\ HistoryTyped' /\ queue' \in Seq(Operations) /\ Len(queue') <= MaxQueue
  BY <1>5, <1>8, <1>9, Changed
<1>11. devices' \in [Devices -> DeviceStates]
  <2>1. [known |-> TRUE, status |-> report.status, reading |-> report.reading,
         seen |-> 0, restored |-> FALSE] \in DeviceStates
    BY <1>0, Ages DEF DeviceStates
  <2> QED BY <1>3, <2>1 DEF KnownTyped
<1>12. dbDevices' \in [Devices -> StatusRows]
  <2>1. [status |-> report.status, reading |-> report.reading, at |-> 0] \in StatusRows
    BY <1>0, Ages DEF StatusRows
  <2> QED BY <1>6, <2>1 DEF StoreTyped
<1>13. KnownTyped'
  BY <1>0, <1>2, <1>4, <1>7, <1>11, SeenTyped, TouchTyped, BreachTyped, HoldTyped DEF KnownTyped
<1>14. StoreTyped'
  BY <1>7, <1>10, <1>12 DEF StoreTyped
<1> QED BY <1>7, <1>10, <1>13, <1>14 DEF ProcessTyped

LEMMA IngestTyped ==
  ASSUME TypeOK, NEW m \in EdgeMetrics, NEW d \in Devices, IngestDeviceAlert(m, d)
  PROVE  TypeOK'
<1> USE DEF TypeOK
<1>0. EdgeOf[d] \in Edges /\ <<m, d>> \in TtlKeys
  BY ConstantsAssumption DEF TtlKeys, EdgeKeys
<1>1. /\ RaiseReported(<<m, d>>) /\ TouchSession(EdgeOf[d])
      /\ UNCHANGED <<breach, latched, devices, preds, edges, configured, up, rows, dbDevices,
                      dbEdges, restarts, failures>>
  BY DEF IngestDeviceAlert
<1>2. KnownTyped'
  BY <1>0, <1>1, Raised, TouchTyped DEF KnownTyped
<1>3. StoreTyped'
  BY <1>0, <1>1, Raised DEF StoreTyped
<1> QED BY <1>0, <1>1, <1>2, <1>3, Raised DEF ProcessTyped

LEMMA PredictionTyped ==
  ASSUME TypeOK, NEW t \in PredTypes, NEW d \in Devices, NEW f \in Forecasts,
         PredictionResult(t, d, f)
  PROVE  TypeOK'
<1> USE DEF TypeOK
<1>0. EdgeOf[d] \in Edges /\ <<t, d>> \in TtlKeys
  BY ConstantsAssumption DEF TtlKeys, PredKeys
<1>1. /\ TouchSession(EdgeOf[d])
      /\ UNCHANGED <<breach, latched, devices, edges, configured, up, rows, dbDevices,
                      dbEdges, restarts, failures>>
  BY DEF PredictionResult
<1>2. preds' \in [Devices -> [PredTypes -> PredictionStates]]
  <2>1. [prob |-> f.prob, eta |-> f.eta, at |-> 0] \in PredictionStates
    BY ConstantsAssumption, Ages DEF PredictionStates
  <2> QED BY <2>1 DEF PredictionResult, KnownTyped
<1>3. /\ AlertsTyped' /\ HistoryTyped' /\ hold' \in [DeviceKeys -> Age]
      /\ queue' \in Seq(Operations) /\ Len(queue') <= MaxQueue
  <2>1. CASE f.prob >= AlertProb
    BY <1>0, <2>1, Raised DEF PredictionResult
  <2>2. CASE ~ (f.prob >= AlertProb)
    BY <2>2, Unchanged DEF PredictionResult, KnownTyped
  <2> QED BY <2>1, <2>2
<1>4. KnownTyped'
  BY <1>0, <1>1, <1>2, <1>3, TouchTyped DEF KnownTyped
<1>5. StoreTyped'
  BY <1>1, <1>3 DEF StoreTyped
<1> QED BY <1>1, <1>3, <1>4, <1>5 DEF ProcessTyped

LEMMA RemovedTyped ==
  ASSUME TypeOK, NEW d \in Devices, DeviceRemoved(d)
  PROVE  TypeOK'
<1> USE DEF TypeOK
<1> DEFINE mine == KeysOfDevice(d)
<1>0. EdgeOf[d] \in Edges /\ mine \subseteq Keys
  BY ConstantsAssumption, KeySets DEF KeysOfDevice
<1>1. /\ Forget({d}, preds) /\ Unhold(mine) /\ TouchSession(EdgeOf[d])
      /\ breach' = [k \in RuleKeys |-> IF k[2] = d THEN NoTime ELSE breach[k]]
      /\ Change({}, {}, Active(mine), {}, mine, {})
      /\ UNCHANGED <<latched, edges, configured, up, rows, dbDevices, dbEdges, restarts, failures>>
  BY DEF DeviceRemoved
<1> HIDE DEF mine
<1>2. /\ AlertsTyped' /\ HistoryTyped'
      /\ queue' \in Seq(Operations) /\ Len(queue') <= MaxQueue
  BY <1>0, <1>1, Candidates, Changed
<1>3. breach' \in [RuleKeys -> MaybeAge]
  BY <1>1, Ages DEF KnownTyped
<1>4. KnownTyped'
  BY <1>0, <1>1, <1>3, Forgotten, HoldTyped, TouchTyped DEF KnownTyped
<1>5. StoreTyped'
  BY <1>1, <1>2 DEF StoreTyped
<1> QED BY <1>1, <1>2, <1>4, <1>5 DEF ProcessTyped

LEMMA EdgeSeenTyped ==
  ASSUME TypeOK, NEW e \in Edges, EdgeSeen(e)
  PROVE  TypeOK'
<1> USE DEF TypeOK
<1>1. /\ heard' = [heard EXCEPT ![e] = 0] /\ SeenEdge(e)
      /\ Change({}, {}, Active({OfflineKey(e)}), {}, {OfflineKey(e)}, {})
      /\ WriteEdgeRow(e)
      /\ UNCHANGED <<breach, hold, devices, preds, configured, up, rows, dbDevices,
                     restarts, failures>>
  BY DEF EdgeSeen
<1>2. /\ AlertsTyped' /\ HistoryTyped'
      /\ queue' \in Seq(Operations) /\ Len(queue') <= MaxQueue
  BY <1>1, Candidates, KeySets, Changed
<1>3. KnownTyped'
  BY <1>1, Ages, SeenTyped DEF KnownTyped
<1>4. StoreTyped'
  BY <1>1, <1>2, EdgeRowTyped DEF StoreTyped
<1> QED BY <1>1, <1>2, <1>3, <1>4 DEF ProcessTyped

LEMMA DisconnectedTyped ==
  ASSUME TypeOK, NEW e \in Edges, EdgeDisconnected(e)
  PROVE  TypeOK'
<1> USE DEF TypeOK
<1>1. /\ heard' = [heard EXCEPT ![e] = NoTime]
      /\ edges' = [edges EXCEPT ![e] = IF @ = NoTime THEN 0 ELSE @]
      /\ NoChange /\ WriteEdgeRow(e)
      /\ UNCHANGED <<breach, hold, latched, devices, preds, configured, up, rows, dbDevices,
                     restarts, failures>>
  BY DEF EdgeDisconnected
<1>2. KnownTyped'
  BY <1>1, Ages DEF KnownTyped
<1>3. StoreTyped'
  BY <1>1, Unchanged, EdgeRowTyped DEF StoreTyped
<1> QED BY <1>1, <1>2, <1>3, Unchanged DEF ProcessTyped

LEMMA AcknowledgeTyped ==
  ASSUME TypeOK, NEW k \in Keys, NEW n \in Ids, AcknowledgeAlert(k, n)
  PROVE  TypeOK'
<1> USE DEF TypeOK
<1>1. active' \in [Keys -> Alerts]
  <2>1. [active[k] EXCEPT !.status = "acknowledged"] \in Alerts
    BY DEF AlertsTyped, Alerts, AlertStatuses
  <2>2. active' = [active EXCEPT ![k] = [active[k] EXCEPT !.status = "acknowledged"]]
        \/ active' = active
    BY DEF AcknowledgeAlert
  <2> QED BY <2>1, <2>2 DEF AlertsTyped
<1>2. queue' \in Seq(Operations) /\ Len(queue') <= MaxQueue
  <2>1. PICK b \in BOOLEAN : Submit(<<Op("ack", k, n, "acknowledged", 0, b)>>)
    BY DEF AcknowledgeAlert
  <2>2. <<Op("ack", k, n, "acknowledged", 0, b)>> \in Seq(Operations)
    BY WritesTyped
  <2> QED BY <2>1, <2>2, Submitted
<1>3. ackOk' \subseteq Keys \X Ids
  BY DEF AcknowledgeAlert, HistoryTyped
<1>4. UNCHANGED <<reported, opened, breach, hold, latched, devices, preds, edges, heard,
                  configured, up, rows, dbDevices, dbEdges, byHand, nagged, lapsed, restarts,
                  failures>>
  BY DEF AcknowledgeAlert
<1> QED
  BY <1>1, <1>2, <1>3, <1>4 DEF AlertsTyped, KnownTyped, StoreTyped, ProcessTyped, HistoryTyped

LEMMA ResolveTyped ==
  ASSUME TypeOK, NEW k \in Keys, NEW n \in Ids, ResolveAlert(k, n)
  PROVE  TypeOK'
<1> USE DEF TypeOK
<1>0. /\ <<ResolveOp(k, n)>> \in Seq(Operations)
      /\ <<ResolveOp(k, n)>> \o <<ResolveOp(k, n)>> \in Seq(Operations)
  BY WritesTyped
<1>1. UNCHANGED <<opened, breach, devices, preds, edges, heard, configured, up, rows,
                  dbDevices, dbEdges, ackOk, nagged, restarts, failures>>
  BY DEF ResolveAlert
<1>2. CASE active[k].n = n
  <2>1. /\ active' = [active EXCEPT ![k] = NoAlert]
        /\ reported' = [j \in TtlKeys |-> IF j = k THEN NoTime ELSE reported[j]]
        /\ latched' = IF k \in OfflineKeys THEN latched \cup {k[2]} ELSE latched
        /\ hold' = [j \in DeviceKeys |-> IF j = k THEN 0 ELSE hold[j]]
        /\ byHand' = [byHand EXCEPT ![k] = 0]
        /\ lapsed' = lapsed \ {k}
        /\ Submit(<<ResolveOp(k, n)>> \o <<ResolveOp(k, n)>>)
    BY <1>2 DEF ResolveAlert
  <2>2. NoAlert \in Alerts
    BY ConstantsAssumption, Ages, Counting DEF NoAlert, Alerts, AlertStatuses
  <2>3. AlertsTyped'
    BY <1>1, <2>1, <2>2, Ages DEF AlertsTyped
  <2>4. KnownTyped'
    BY <1>1, <2>1, Ages, KeySets DEF KnownTyped
  <2>5. StoreTyped'
    BY <1>0, <1>1, <2>1, Submitted DEF StoreTyped
  <2>6. HistoryTyped'
    BY <1>1, <2>1, Ages DEF HistoryTyped
  <2> QED BY <1>1, <2>3, <2>4, <2>5, <2>6 DEF ProcessTyped
<1>3. CASE active[k].n # n
  <2>1. /\ Submit(<<ResolveOp(k, n)>>)
        /\ UNCHANGED <<active, reported, latched, hold, byHand, lapsed>>
    BY <1>3 DEF ResolveAlert
  <2>2. StoreTyped'
    BY <1>0, <1>1, <2>1, Submitted DEF StoreTyped
  <2> QED BY <1>1, <2>1, <2>2 DEF AlertsTyped, KnownTyped, ProcessTyped, HistoryTyped
<1> QED BY <1>2, <1>3

-----------------------------------------------------------------------------
(* The writer *)

LEMMA AppliedTyped ==
  ASSUME NEW row \in RowStates, NEW o \in Operations
  PROVE  Applied(row, o) \in RowStates
<1> USE DEF RowStates, Operations
<1>1. Greater(row.fired, o.fired) \in Fired
  BY ConstantsAssumption DEF Greater, Fired
<1>2. Upserted(row, o) \in RowStates
  BY <1>1, Ages DEF Upserted
<1>3. RefireRecorded(row, o) \in RowStates
  BY <1>1, <1>2, Ages DEF RefireRecorded
<1>4. \A status \in RowStatuses : StatusSet(row, status) \in RowStates
  BY DEF StatusSet
<1>5. "resolved" \in RowStatuses /\ "acknowledged" \in RowStatuses
  BY DEF RowStatuses, AlertStatuses
<1> QED BY <1>2, <1>3, <1>4, <1>5 DEF Applied

LEMMA HeadTyped ==
  ASSUME StoreTyped, queue # <<>>
  PROVE  /\ Head(queue) \in Operations /\ Tail(queue) \in Seq(Operations)
         /\ Len(Tail(queue)) <= MaxQueue
  BY ConstantsAssumption DEF StoreTyped

LEMMA ApplyTyped ==
  ASSUME StoreTyped, NEW o \in Operations, Apply(o)
  PROVE  rows' \in [RowIds -> RowStates]
<1>1. CASE RowOf(o) \in RowIds
  BY <1>1, AppliedTyped DEF StoreTyped, Apply
<1>2. CASE RowOf(o) \notin RowIds
  BY <1>2 DEF StoreTyped, Apply
<1> QED BY <1>1, <1>2

LEMMA WriterTyped ==
  ASSUME TypeOK, WriterStep \/ WriterFails
  PROVE  TypeOK'
<1> USE DEF TypeOK
<1>1. CASE WriterStep
  <2>1. /\ queue # <<>> /\ queue' = Tail(queue) /\ Apply(Head(queue))
        /\ UNCHANGED <<memory, dbDevices, dbEdges, byHand, nagged, lapsed, configured, up,
                       restarts, failures>>
    BY <1>1 DEF WriterStep
  <2>2. ackOk' \subseteq Keys \X Ids
    <3>1. RowOf(Head(queue)) \in Keys \X Ids
      BY <2>1, HeadTyped DEF RowOf, Operations
    <3>2. ackOk' = ackOk \/ ackOk' = ackOk \cup {RowOf(Head(queue))}
      BY <1>1 DEF WriterStep
    <3> QED BY <3>1, <3>2 DEF HistoryTyped
  <2>3. StoreTyped'
    BY <2>1, HeadTyped, ApplyTyped DEF StoreTyped
  <2> QED
    BY <2>1, <2>2, <2>3 DEF memory, AlertsTyped, KnownTyped, ProcessTyped, HistoryTyped
<1>2. CASE WriterFails
  <2>1. /\ queue # <<>> /\ queue' = Tail(queue)
        /\ Apply(Head(queue)) \/ UNCHANGED rows
        /\ UNCHANGED <<memory, dbDevices, dbEdges, history, configured, up, restarts>>
        /\ failures' = failures + 1 /\ failures < MaxFailedWrites
    BY <1>2 DEF WriterFails
  <2>2. StoreTyped'
    BY <2>1, HeadTyped, ApplyTyped DEF StoreTyped
  <2>3. failures' \in 0 .. MaxFailedWrites
    BY <2>1, ConstantsAssumption DEF ProcessTyped
  <2> QED
    BY <2>1, <2>2, <2>3 DEF memory, history, AlertsTyped, KnownTyped, ProcessTyped, HistoryTyped
<1> QED BY <1>1, <1>2

-----------------------------------------------------------------------------
(* Time and the life of the process *)

LEMMA TickTyped ==
  ASSUME TypeOK, Tick
  PROVE  TypeOK'
<1> USE DEF TypeOK
<1>1. UNCHANGED <<opened, latched, configured, up, ackOk, nagged, lapsed, restarts, failures>>
  BY DEF Tick
<1>2. AlertsTyped'
  <2>1. \A x \in Alerts : [x EXCEPT !.lastFired = Older(@)] \in Alerts
    BY Aging DEF Alerts
  <2>2. active' \in [Keys -> Alerts]
    BY <2>1 DEF Tick, AlertsTyped
  <2>3. reported' \in [TtlKeys -> MaybeAge]
    BY Aging DEF Tick, AlertsTyped
  <2> QED BY <1>1, <2>2, <2>3 DEF AlertsTyped
<1>3. KnownTyped'
  <2>1. breach' \in [RuleKeys -> MaybeAge]
    BY Aging DEF Tick, KnownTyped
  <2>2. hold' \in [DeviceKeys -> Age]
    BY Aging DEF Tick, KnownTyped
  <2>3. devices' \in [Devices -> DeviceStates]
    <3>1. \A x \in DeviceStates : [x EXCEPT !.seen = Older(@)] \in DeviceStates
      BY Aging DEF DeviceStates
    <3> QED BY <3>1 DEF Tick, KnownTyped
  <2>4. preds' \in [Devices -> [PredTypes -> PredictionStates]]
    <3>1. \A x \in PredictionStates : [x EXCEPT !.at = Older(@)] \in PredictionStates
      BY Aging DEF PredictionStates
    <3>2. preds' = [d \in Devices |-> [t \in PredTypes |-> [preds[d][t] EXCEPT !.at = Older(@)]]]
      BY DEF Tick
    <3> QED BY <3>1, <3>2 DEF KnownTyped
  <2>5. edges' \in [Edges -> MaybeAge] /\ heard' \in [Edges -> MaybeAge]
    BY Aging DEF Tick, KnownTyped
  <2> QED BY <1>1, <2>1, <2>2, <2>3, <2>4, <2>5 DEF KnownTyped
<1>4. StoreTyped'
  <2>1. queue' \in Seq(Operations) /\ Len(queue') <= MaxQueue
    <3>1. \A o \in Operations : [o EXCEPT !.at = Older(@)] \in Operations
      BY Aging DEF Operations
    <3>2. queue' = [i \in 1 .. Len(queue) |-> [queue[i] EXCEPT !.at = Older(@)]]
      BY DEF Tick, StoreTyped
    <3>3. \A i \in 1 .. Len(queue) : [queue[i] EXCEPT !.at = Older(@)] \in Operations
      BY <3>1 DEF StoreTyped
    <3>4. Len(queue) \in Nat
      BY DEF StoreTyped
    <3>5. queue' \in Seq(Operations) /\ Len(queue') = Len(queue)
      BY <3>2, <3>3, <3>4
    <3> QED BY <3>5 DEF StoreTyped
  <2>2. rows' \in [RowIds -> RowStates]
    <3>1. \A x \in RowStates : [x EXCEPT !.lastFired = Older(@)] \in RowStates
      BY Aging DEF RowStates
    <3> QED BY <3>1 DEF Tick, StoreTyped
  <2>3. dbDevices' \in [Devices -> StatusRows]
    <3>1. \A x \in StatusRows : [x EXCEPT !.at = Older(@)] \in StatusRows
      BY Aging DEF StatusRows
    <3> QED BY <3>1 DEF Tick, StoreTyped
  <2>4. dbEdges' \in [Edges -> MaybeAge]
    BY Aging DEF Tick, StoreTyped
  <2> QED BY <2>1, <2>2, <2>3, <2>4 DEF StoreTyped
<1>5. byHand' \in [Keys -> MaybeAge]
  BY Aging DEF Tick, HistoryTyped
<1> QED BY <1>1, <1>2, <1>3, <1>4, <1>5 DEF ProcessTyped, HistoryTyped

LEMMA EmptyTyped ==
  /\ EmptyMemory.active \in [Keys -> Alerts] /\ EmptyMemory.reported \in [TtlKeys -> MaybeAge]
  /\ EmptyMemory.breach \in [RuleKeys -> MaybeAge] /\ EmptyMemory.hold \in [DeviceKeys -> Age]
  /\ EmptyMemory.devices \in [Devices -> DeviceStates]
  /\ EmptyMemory.preds \in [Devices -> [PredTypes -> PredictionStates]]
  /\ EmptyMemory.edges \in [Edges -> MaybeAge]
  /\ \A k \in Keys : EmptyMemory.active[k].n = 0
  /\ \A k \in DeviceKeys : EmptyMemory.hold[k] = Horizon
<1>1. NoAlert \in Alerts /\ NoAlert.n = 0
  BY ConstantsAssumption, Ages, Counting DEF NoAlert, Alerts, AlertStatuses
<1> QED BY <1>1, NothingKnown, Ages DEF EmptyMemory

LEMMA CrashTyped ==
  ASSUME TypeOK, Crash
  PROVE  TypeOK'
<1> USE DEF TypeOK
<1>1. AlertsTyped' BY EmptyTyped DEF Crash, AlertsTyped
<1>2. KnownTyped' BY EmptyTyped DEF Crash, KnownTyped
<1>3. StoreTyped'
  <2>1. queue' = <<>> /\ UNCHANGED <<rows, dbDevices, dbEdges>>
    BY DEF Crash
  <2>2. <<>> \in Seq(Operations) /\ Len(<<>>) <= MaxQueue
    BY ConstantsAssumption
  <2> QED BY <2>1, <2>2 DEF StoreTyped
<1>4. ProcessTyped'
  <2>1. restarts' \in 0 .. MaxRestarts
    BY ConstantsAssumption DEF Crash, ProcessTyped
  <2> QED BY <2>1 DEF Crash, ProcessTyped
<1>5. HistoryTyped' BY DEF Crash, HistoryTyped
<1> QED BY <1>1, <1>2, <1>3, <1>4, <1>5

LEMMA KeptRows ==
  ASSUME StoreTyped, NEW config
  PROVE  /\ Kept(config) \subseteq Keys \X Ids
         /\ Discarded(config) \subseteq Keys \X Ids /\ IsFiniteSet(Discarded(config))
         /\ \A k \in {a[1] : a \in Kept(config)} : \E n \in Ids : <<k, n>> \in Kept(config)
         /\ \A a \in Kept(config) : /\ rows[a].status \in {"firing", "acknowledged"}
                                  /\ rows[a].fired \in Fired /\ rows[a].lastFired \in MaybeAge
                                  /\ IsKnownRule(a[1][1], config)
<1>1. OpenRows \subseteq RowIds /\ RowIds \subseteq Keys \X Ids
  BY DEF OpenRows, StoreTyped, RowIds, Ids
<1>2. IsFiniteSet(Ids)
  BY FS_Interval, ConstantsAssumption DEF Ids
<1>3. IsFiniteSet(Keys \X Ids)
  BY <1>2, FiniteKeys, FS_Product
<1>4. Kept(config) \subseteq OpenRows /\ Discarded(config) \subseteq OpenRows
  BY DEF Kept, Discarded
<1>5. IsFiniteSet(Discarded(config))
  BY <1>1, <1>3, <1>4, FS_Subset
<1>6. \A a \in OpenRows : /\ rows[a].status \in {"firing", "acknowledged"}
                          /\ rows[a].fired \in Fired /\ rows[a].lastFired \in MaybeAge
  BY <1>1 DEF OpenRows, IsOpenRow, StoreTyped, RowStates
<1>7. \A a \in Kept(config) : IsKnownRule(a[1][1], config)
  BY DEF Kept
<1>8. \A k \in {a[1] : a \in Kept(config)} : \E n \in Ids : <<k, n>> \in Kept(config)
  BY <1>1, <1>4
<1> QED BY <1>1, <1>4, <1>5, <1>6, <1>7, <1>8

LEMMA StartTyped ==
  ASSUME TypeOK, NEW config \in Configs, Start(config)
  PROVE  TypeOK'
<1> USE DEF TypeOK
<1> DEFINE kept == Kept(config)
           restoredKeys == {a[1] : a \in kept}
           IdOf(k) == CHOOSE n \in 1 .. MaxAlerts : <<k, n>> \in kept
           Restored(k) == [n |-> IdOf(k), status |-> rows[<<k, IdOf(k)>>].status,
                           fired |-> rows[<<k, IdOf(k)>>].fired,
                           lastFired |-> rows[<<k, IdOf(k)>>].lastFired]
           writes == {ResolveOp(a[1], a[2]) : a \in Discarded(config)}
<1>1. active' = [k \in Keys |-> IF k \in restoredKeys THEN Restored(k) ELSE NoAlert]
  BY DEF Start
<1>2. reported' = [k \in TtlKeys |-> IF k \in restoredKeys THEN 0 ELSE NoTime]
  BY DEF Start
<1>3. \A d \in Devices : \/ devices'[d] = [known |-> TRUE, status |-> RowStatus(d),
                                          reading |-> dbDevices[d].reading,
                                          seen |-> 0, restored |-> TRUE]
                         \/ devices'[d] = NoDevice
  BY DEF Start
<1>4. edges' = [e \in Edges |-> IF dbEdges[e] <= Retention THEN 0 ELSE NoTime]
  BY DEF Start
<1>5. SubmitAll(writes) /\ configured' = config /\ up' = TRUE
  BY DEF Start
<1>6. UNCHANGED <<opened, breach, hold, latched, preds, heard, rows, dbDevices, dbEdges,
                  history, restarts, failures>>
  BY DEF Start
<1>7. AlertsTyped'
  <2>1. \A k \in restoredKeys : IdOf(k) \in Ids /\ <<k, IdOf(k)>> \in kept
    BY KeptRows DEF Ids
  <2>2. NoAlert \in Alerts
    BY ConstantsAssumption, Ages, Counting DEF NoAlert, Alerts, AlertStatuses
  <2> HIDE DEF IdOf
  <2>3. \A k \in restoredKeys : Restored(k) \in Alerts
    BY <2>1, KeptRows DEF Alerts, AlertStatuses, Ids
  <2> HIDE DEF restoredKeys, Restored
  <2>4. active' \in [Keys -> Alerts]
    BY <1>1, <2>2, <2>3
  <2> QED BY <1>2, <1>6, <2>4, Ages DEF AlertsTyped
<1>8. KnownTyped'
  <2>1. \A d \in Devices : devices'[d] \in DeviceStates
    <3>1. \A d \in Devices : RowStatus(d) \in Statuses \cup {NoStatus}
      BY DEF RowStatus, StoreTyped, StatusRows, Statuses
    <3>2. \A d \in Devices : dbDevices[d].reading \in Readings
      BY DEF StoreTyped, StatusRows
    <3>3. \A d \in Devices : [known |-> TRUE, status |-> RowStatus(d),
                               reading |-> dbDevices[d].reading,
                               seen |-> 0, restored |-> TRUE] \in DeviceStates
      BY <3>1, <3>2, Ages DEF DeviceStates
    <3> QED BY <1>3, <3>3, NothingKnown
  <2>2. devices' \in [Devices -> DeviceStates]
    BY <2>1 DEF Start
  <2> QED BY <1>4, <1>6, <2>2, Ages DEF KnownTyped
<1>9. StoreTyped'
  <2>1. writes \subseteq Operations
    BY KeptRows, WritesTyped
  <2>2. IsFiniteSet(writes)
    <3>1. [a \in Discarded(config) |-> ResolveOp(a[1], a[2])] \in Surjection(Discarded(config), writes)
      BY DEF Surjection
    <3> QED BY <3>1, KeptRows, FS_Surjection
  <2> HIDE DEF writes
  <2> QED BY <1>5, <1>6, <2>1, <2>2, AllSubmitted DEF StoreTyped
<1> QED BY <1>5, <1>6, <1>7, <1>8, <1>9 DEF ProcessTyped, HistoryTyped, history

LEMMA HoldingKeys ==
  ASSUME ProcessTyped, NEW d \in Devices, NEW x
  PROVE  /\ KeysOf(Holding(x, TRUE), d) \subseteq RuleKeys
         /\ \A k \in KeysOf(Holding(x, TRUE), d) : k[1] \in configured /\ k[2] = d
<1>1. Holding(x, TRUE) \subseteq configured /\ KeysOf(Holding(x, TRUE), d) \subseteq RuleKeys
  BY RuleSets
<1>2. \A k \in KeysOf(Holding(x, TRUE), d) : k[1] \in Holding(x, TRUE) /\ k[2] = d
  BY RuleSets
<1> QED BY <1>1, <1>2

LEMMA ClearedKeys ==
  ASSUME ProcessTyped, NEW d \in Devices, NEW x, NEW j, j \in KeysOf(Cleared(x), d)
  PROVE  j[2] = d /\ j \notin KeysOf(Holding(x, TRUE), d)
<1>1. j[2] = d /\ j[1] \in Cleared(x)
  BY RuleSets
<1>2. \A r \in Holding(x, TRUE) : r \notin Cleared(x)
  BY DEF Holding, Evaluated
<1>3. \A k \in KeysOf(Holding(x, TRUE), d) : k[1] \in Holding(x, TRUE)
  BY RuleSets
<1> QED BY <1>1, <1>2, <1>3

LEMMA SweepParts ==
  ASSUME TypeOK, Sweep
  PROVE  /\ up
         /\ UNCHANGED <<heard, configured, up, rows, dbDevices, dbEdges, restarts, failures>>
         /\ \E holding, ended, cleared, fresh, clock : \E opening \in SUBSET Unheld(holding) :
              /\ holding \subseteq RuleKeys
              /\ \A k \in holding : k[1] \in configured /\ devices[k[2]].known
              /\ cleared \subseteq RuleKeys
              /\ \A k \in cleared : IsActive(k) /\ ~ devices[k[2]].restored
              /\ holding \cap cleared = {}
              /\ fresh \subseteq Edges /\ clock \in [Edges -> MaybeAge]
              /\ \A e \in fresh : OfflineLimit > 0 /\ clock[e] <= OfflineLimit
              /\ \E order \in Orderings(Devices) :
                   OpenedInOrder(opening, Unheld(holding), cleared, order)
              /\ Swept(holding, ended, cleared, fresh, clock, opening)
<1> USE DEF TypeOK
<1> DEFINE clock(readable) ==
             [e \in Edges |-> IF e \in readable THEN Younger(edges[e], heard[e]) ELSE edges[e]]
           known == {d \in Devices : devices[d].known}
           x == [d \in known |-> Context(d, devices[d].status, devices[d].status,
                                         devices[d].reading, devices[d].seen)]
           holding == UNION {KeysOf(Holding(x[d], TRUE), d) : d \in known}
           ended == UNION {KeysOf(NotHolding(x[d], TRUE), d) : d \in known}
           ending == UNION {KeysOf(Cleared(x[d]), d) : d \in ReportedLive}
           cleared == Active(ending)
<1>1. PICK readable \in SUBSET {e \in Edges : heard[e] # NoTime}, order \in Orderings(Devices) :
         /\ up
         /\ \E opening \in SUBSET Unheld(holding) :
              /\ OpenedInOrder(opening, Unheld(holding), cleared, order)
              /\ Swept(holding, ended, cleared, Fresh(readable), clock(readable), opening)
         /\ UNCHANGED <<heard, configured, up, rows, dbDevices, dbEdges, restarts, failures>>
  BY DEF Sweep
<1>2. PICK opening \in SUBSET Unheld(holding) :
         /\ OpenedInOrder(opening, Unheld(holding), cleared, order)
         /\ Swept(holding, ended, cleared, Fresh(readable), clock(readable), opening)
  BY <1>1
<1>3. holding \subseteq RuleKeys /\ \A k \in holding : k[1] \in configured /\ devices[k[2]].known
  <2> DEFINE held(d) == KeysOf(Holding(x[d], TRUE), d)
  <2>1. \A d \in known : held(d) \subseteq RuleKeys /\ \A k \in held(d) : k[1] \in configured /\ k[2] = d
    BY HoldingKeys
  <2>2. holding = UNION {held(d) : d \in known}
    OBVIOUS
  <2> HIDE DEF held, holding
  <2>3. \A k \in holding : \E d \in known : k \in held(d)
    BY <2>2
  <2> QED BY <2>1, <2>3
<1>4. ending \subseteq RuleKeys
  <2>1. \A d \in Devices : \A y : KeysOf(Cleared(y), d) \subseteq RuleKeys
    BY RuleSets
  <2> HIDE DEF x
  <2> QED BY <2>1 DEF ReportedLive
<1>5. cleared \subseteq RuleKeys /\ \A k \in cleared : IsActive(k)
  <2> HIDE DEF ending
  <2> QED BY <1>4, Candidates
<1>6. clock(readable) \in [Edges -> MaybeAge]
  BY DEF KnownTyped, Younger
<1>7. Fresh(readable) \subseteq Edges
  BY DEF Fresh
<1>8. \A e \in Fresh(readable) : OfflineLimit > 0 /\ clock(readable)[e] <= OfflineLimit
  <2> SUFFICES ASSUME NEW e \in Fresh(readable)
               PROVE  OfflineLimit > 0 /\ clock(readable)[e] <= OfflineLimit
    OBVIOUS
  <2>1. e \in Edges /\ e \in readable /\ OfflineLimit > 0 /\ heard[e] <= OfflineLimit
    BY DEF Fresh
  <2>2. edges[e] \in Nat /\ heard[e] \in Nat /\ OfflineLimit \in Nat
    BY <2>1, Ages, ConstantsAssumption DEF KnownTyped
  <2>3. clock(readable)[e] = Younger(edges[e], heard[e])
    BY <2>1
  <2> QED BY <2>1, <2>2, <2>3 DEF Younger
<1>9. holding \cap cleared = {}
  <2> SUFFICES ASSUME NEW j, j \in holding, j \in cleared PROVE FALSE
    OBVIOUS
  <2> DEFINE held(d) == KeysOf(Holding(x[d], TRUE), d)
             over(d) == KeysOf(Cleared(x[d]), d)
  <2>1. \A d \in known : \A k \in held(d) : k[2] = d
    BY HoldingKeys
  <2>2. \A d \in known : \A k \in over(d) : k[2] = d /\ k \notin held(d)
    BY ClearedKeys
  <2>3. holding = UNION {held(d) : d \in known} /\ ending = UNION {over(d) : d \in ReportedLive}
    OBVIOUS
  <2>4. ReportedLive \subseteq known /\ j \in ending
    BY Candidates DEF ReportedLive
  <2> HIDE DEF held, over, holding, ending, known
  <2>5. PICK c \in known : j \in held(c)
    BY <2>3
  <2>6. PICK d \in known : j \in over(d)
    BY <2>3, <2>4
  <2> QED BY <2>1, <2>2, <2>5, <2>6
<1>10. \A k \in cleared : ~ devices[k[2]].restored
  <2> DEFINE over(d) == KeysOf(Cleared(x[d]), d)
  <2>1. \A d \in known : \A k \in over(d) : k[2] = d
    BY ClearedKeys
  <2>2. ending = UNION {over(d) : d \in ReportedLive}
    OBVIOUS
  <2>3. ReportedLive \subseteq known /\ \A d \in ReportedLive : ~ devices[d].restored
    BY DEF ReportedLive
  <2>4. cleared \subseteq ending
    BY Candidates
  <2> HIDE DEF over, ending, known, cleared
  <2> QED BY <2>1, <2>2, <2>3, <2>4
<1> HIDE DEF clock, holding, ended, cleared
<1> QED BY <1>1, <1>2, <1>3, <1>5, <1>6, <1>7, <1>8, <1>9, <1>10

LEMMA SweepTyped ==
  ASSUME TypeOK, Sweep
  PROVE  TypeOK'
<1> USE DEF TypeOK
<1>1. UNCHANGED <<heard, configured, up, rows, dbDevices, dbEdges, restarts, failures>>
  BY SweepParts
<1>2. PICK holding, ended, cleared, fresh, clock : \E opening \in SUBSET Unheld(holding) :
              /\ holding \subseteq RuleKeys
              /\ cleared \subseteq RuleKeys /\ \A k \in cleared : IsActive(k)
              /\ fresh \subseteq Edges /\ clock \in [Edges -> MaybeAge]
              /\ Swept(holding, ended, cleared, fresh, clock, opening)
  BY SweepParts
<1>3. PICK opening \in SUBSET Unheld(holding) :
         Swept(holding, ended, cleared, fresh, clock, opening)
  BY <1>2
<1> DEFINE back == {OfflineKey(e) : e \in fresh}
           open == opening \cup {OfflineKey(e) : e \in Silent(clock, fresh)}
           resolve == cleared \cup Expired \cup Active(back)
           stale == {d \in Devices : /\ devices[d].known /\ d \notin Alerted(resolve, opening)
                                     /\ devices[d].seen > Retention}
           dropped == {k \in DeviceKeys : k[2] \in stale \/ hold[k] > Retention}
           unexpired == [d \in Devices |-> [t \in PredTypes |->
                           IF preds[d][t].at > PredTtl THEN NoPrediction ELSE preds[d][t]]]
<1>4. /\ edges' = [e \in Edges |-> IF clock[e] > Retention THEN NoTime ELSE clock[e]]
      /\ latched' = latched \ fresh
      /\ Change(open, RuleRefires(holding), resolve, {}, back, dropped)
      /\ Forget(stale, unexpired)
      /\ Unhold(Unheld(holding) \cup dropped)
      /\ breach' = [k \in RuleKeys |-> IF k[2] \in stale THEN NoTime
                                       ELSE Breaches(holding, ended)[k]]
  BY <1>3 DEF Swept
<1>5. Expired \subseteq Keys /\ \A k \in Expired : IsActive(k)
  BY Candidates, KeySets DEF Expired
<1>6. open \subseteq Keys /\ RuleRefires(holding) \subseteq Keys /\ resolve \subseteq Keys
  <2>1. \A e \in Silent(clock, fresh) : e \in Edges
    BY DEF Silent
  <2>2. back \subseteq Keys
    BY <1>2, KeySets
  <2> QED BY <1>2, <1>5, <2>1, <2>2, Candidates, KeySets
<1>7. \A k \in RuleRefires(holding) \cup resolve : IsActive(k)
  BY <1>2, <1>5, Candidates
<1>8. dropped \subseteq Keys
  BY KeySets
<1>9. unexpired \in [Devices -> [PredTypes -> PredictionStates]]
  BY NothingKnown DEF KnownTyped
<1> HIDE DEF open, resolve, back, dropped, stale, unexpired
<1>10. AlertsTyped' /\ HistoryTyped' /\ queue' \in Seq(Operations) /\ Len(queue') <= MaxQueue
  BY <1>4, <1>6, <1>7, <1>8, Changed
<1>11. KnownTyped'
  <2>1. breach' \in [RuleKeys -> MaybeAge]
    BY <1>4, BreachTyped, Ages
  <2>2. edges' \in [Edges -> MaybeAge]
    BY <1>2, <1>4, Ages
  <2>3. latched' \subseteq Edges
    BY <1>4 DEF KnownTyped
  <2>4. hold' \in [DeviceKeys -> Age]
    BY <1>4, HoldTyped
  <2> QED BY <1>1, <1>4, <1>9, <2>1, <2>2, <2>3, <2>4, Forgotten DEF KnownTyped
<1>12. StoreTyped'
  BY <1>1, <1>10 DEF StoreTyped
<1> QED BY <1>1, <1>10, <1>11, <1>12 DEF ProcessTyped

-----------------------------------------------------------------------------
(* Type correctness *)

LEMMA InitTyped == Init => TypeOK
<1> SUFFICES ASSUME Init PROVE TypeOK
  OBVIOUS
<1>1. AlertsTyped
  BY EmptyTyped, ConstantsAssumption DEF Init, AlertsTyped
<1>2. KnownTyped
  BY EmptyTyped DEF Init, KnownTyped
<1>3. StoreTyped
  <2>1. queue \in Seq(Operations) /\ Len(queue) <= MaxQueue
    BY ConstantsAssumption DEF Init
  <2>2. NoRow \in RowStates
    BY Ages, Counting DEF NoRow, RowStates, RowStatuses, AlertStatuses
  <2>3. NoStatusRow \in StatusRows
    BY Ages DEF NoStatusRow, StatusRows, Unknown, Readings
  <2> QED BY <2>1, <2>2, <2>3, Ages DEF Init, StoreTyped
<1>4. ProcessTyped
  BY ConstantsAssumption DEF Init, ProcessTyped
<1>5. HistoryTyped
  BY Ages DEF Init, HistoryTyped
<1> QED BY <1>1, <1>2, <1>3, <1>4, <1>5 DEF TypeOK

LEMMA TypeNext == TypeOK /\ [Next]_vars => TypeOK'
<1> SUFFICES ASSUME TypeOK, [Next]_vars PROVE TypeOK'
  OBVIOUS
<1>1. ASSUME NEW d \in Devices, NEW r \in Reports, DeviceStatusUpdate(d, r) PROVE TypeOK'
  BY <1>1, StatusUpdateTyped
<1>2. ASSUME NEW d \in Devices, NEW m \in EdgeMetrics, IngestDeviceAlert(m, d) PROVE TypeOK'
  BY <1>2, IngestTyped
<1>3. ASSUME NEW d \in Devices, NEW t \in PredTypes, NEW f \in Forecasts, PredictionResult(t, d, f)
      PROVE  TypeOK'
  BY <1>3, PredictionTyped
<1>4. ASSUME NEW d \in Devices, DeviceRemoved(d) PROVE TypeOK'
  BY <1>4, RemovedTyped
<1>5. ASSUME NEW e \in Connecting, EdgeSeen(e) \/ EdgeDisconnected(e) PROVE TypeOK'
  <2>1. e \in Edges
    BY ConstantsAssumption
  <2> QED BY <1>5, <2>1, EdgeSeenTyped, DisconnectedTyped
<1>6. ASSUME NEW k \in Keys, NEW n \in Ids, AcknowledgeAlert(k, n) \/ ResolveAlert(k, n)
      PROVE  TypeOK'
  BY <1>6, AcknowledgeTyped, ResolveTyped
<1>7. CASE Sweep
  BY <1>7, SweepTyped
<1>8. CASE WriterStep \/ WriterFails
  BY <1>8, WriterTyped
<1>9. CASE Tick
  BY <1>9, TickTyped
<1>10. CASE Crash
  BY <1>10, CrashTyped
<1>11. ASSUME NEW config \in Configs, Start(config) PROVE TypeOK'
  BY <1>11, StartTyped
<1>12. CASE UNCHANGED vars
  <2>1. UNCHANGED memory /\ UNCHANGED store /\ UNCHANGED history
        /\ UNCHANGED <<configured, up, restarts, failures>>
    BY <1>12 DEF vars
  <2> QED BY <2>1 DEF memory, store, history, TypeOK, AlertsTyped, KnownTyped, StoreTyped,
                      ProcessTyped, HistoryTyped
<1> QED
  BY <1>1, <1>2, <1>3, <1>4, <1>5, <1>6, <1>7, <1>8, <1>9, <1>10, <1>11, <1>12 DEF Next, Ids

\* Every variable keeps the values the handlers give it, for every number of
\* edges, devices and rules (all handlers of manager.rs and the restart).
THEOREM TypeCorrect == Spec => []TypeOK
BY InitTyped, TypeNext, PTL DEF Spec

-----------------------------------------------------------------------------
(* Alerts of rules stay evaluable *)

LEMMA ChangedActive ==
  ASSUME AlertsTyped, NEW open, NEW refire, NEW resolve, NEW touch, NEW excused, NEW lost,
         Change(open, refire, resolve, touch, excused, lost), NEW k \in Keys
  PROVE  /\ IsActive(k)' => k \in open \/ k \in refire \/ (IsActive(k) /\ k \notin resolve)
         /\ k \in open \cup refire \cup resolve \/ active'[k] = active[k]
         /\ k \in resolve \ (open \cup refire) => ~ IsActive(k)'
<1>1. active' = [j \in Keys |-> CASE j \in open    -> Opened(j)
                                  [] j \in refire  -> Refired(active[j])
                                  [] j \in resolve -> NoAlert
                                  [] OTHER         -> active[j]]
  BY DEF Change
<1>2. NoAlert.n = 0
  BY DEF NoAlert
<1> HIDE DEF NoAlert
<1> QED BY <1>1, <1>2 DEF IsActive

\* The handlers that neither open an alert nor forget a device.
LEMMA StaysEvaluable ==
  ASSUME AlertsStayEvaluable, configured' = configured, up' = up,
         \A k \in RuleKeys : IsActive(k)' => IsActive(k),
         \A d \in Devices : devices[d].known => devices'[d].known
  PROVE  AlertsStayEvaluable'
  BY DEF AlertsStayEvaluable, RuleKeys, IsActive

LEMMA RuleKeysApart ==
  /\ \A k \in RuleKeys : k \in Keys /\ k \notin TtlKeys /\ k \notin OfflineKeys
  /\ \A k \in RuleKeys : k[1] \in Rules /\ k[2] \in Devices /\ k \in DeviceKeys
  BY SourcesAssumption DEF RuleKeys, EdgeKeys, PredKeys, TtlKeys, DeviceKeys, Keys, OfflineKeys,
     Sources

LEMMA RaisedEvaluable ==
  ASSUME TypeOK, NEW j \in TtlKeys, RaiseReported(j), NEW k \in RuleKeys, IsActive(k)'
  PROVE  IsActive(k)
<1>1. k \in Keys /\ k # j
  BY RuleKeysApart
<1>2. \A refire \in SUBSET {j} : Change({}, refire, {}, {j}, {}, {}) => active'[k] = active[k]
  BY <1>1, ChangedActive DEF TypeOK
<1>3. Change({j}, {}, {}, {}, {}, {}) => active'[k] = active[k]
  BY <1>1, ChangedActive DEF TypeOK
<1>4. NoChange => active'[k] = active[k]
  BY DEF NoChange
<1>5. active'[k] = active[k]
  <2>1. CASE IsActive(j)
    BY <1>2, <2>1 DEF RaiseReported
  <2>2. CASE ~ IsActive(j)
    BY <1>3, <1>4, <2>2 DEF RaiseReported
  <2> QED BY <2>1, <2>2
<1> QED BY <1>5 DEF IsActive

LEMMA StatusUpdateEvaluable ==
  ASSUME TypeOK, AlertsStayEvaluable, NEW d \in Devices, NEW report \in Reports,
         DeviceStatusUpdate(d, report)
  PROVE  AlertsStayEvaluable'
<1> USE DEF TypeOK
<1> DEFINE known == devices[d]
           x == Context(d, report.status, IF known.known THEN known.status ELSE NoStatus,
                        report.reading, 0)
           holding == KeysOf(Holding(x, FALSE), d)
           healed == IF report.status = Healthy THEN EdgeMetrics \X {d} ELSE {}
           resolve == Active(KeysOf(Cleared(x), d) \cup healed \cup {OfflineKey(EdgeOf[d])})
           open == {k \in Unheld(holding) : BelowCap(k)}
<1>1. Change(open, RuleRefires(holding), resolve, {}, {OfflineKey(EdgeOf[d])}, {})
  BY DEF DeviceStatusUpdate
<1>2. \A k \in holding : k[1] \in configured /\ k[2] = d
  <2>1. Holding(x, FALSE) \subseteq configured
    BY RuleSets
  <2>2. \A y : \A k \in KeysOf(Holding(y, FALSE), d) : k[1] \in Holding(y, FALSE) /\ k[2] = d
    BY RuleSets
  <2> HIDE DEF x
  <2> QED BY <2>1, <2>2
<1>3. \A c \in Devices : devices[c].known => devices'[c].known
  BY DEF DeviceStatusUpdate, KnownTyped
<1>4. devices'[d].known /\ configured' = configured /\ up' = up
  BY DEF DeviceStatusUpdate, KnownTyped
<1> HIDE DEF holding, resolve
<1>5. \A k \in RuleKeys : IsActive(k)' => IsActive(k) \/ k \in holding
  BY <1>1, ChangedActive, RuleKeysApart, Candidates
<1> QED BY <1>2, <1>3, <1>4, <1>5, RuleKeysApart DEF AlertsStayEvaluable

LEMMA SweepEvaluable ==
  ASSUME TypeOK, AlertsStayEvaluable, Sweep
  PROVE  AlertsStayEvaluable'
<1> USE DEF TypeOK
<1>1. up /\ configured' = configured /\ up' = up
  BY SweepParts
<1>2. PICK holding, ended, cleared, fresh, clock : \E opening \in SUBSET Unheld(holding) :
              /\ holding \subseteq RuleKeys
              /\ \A k \in holding : k[1] \in configured /\ devices[k[2]].known
              /\ cleared \subseteq RuleKeys /\ \A k \in cleared : IsActive(k)
              /\ holding \cap cleared = {}
              /\ fresh \subseteq Edges
              /\ Swept(holding, ended, cleared, fresh, clock, opening)
  BY SweepParts
<1>3. PICK opening \in SUBSET Unheld(holding) :
         Swept(holding, ended, cleared, fresh, clock, opening)
  BY <1>2
<1> DEFINE back == {OfflineKey(e) : e \in fresh}
           open == opening \cup {OfflineKey(e) : e \in Silent(clock, fresh)}
           resolve == cleared \cup Expired \cup Active(back)
           stale == {d \in Devices : /\ devices[d].known /\ d \notin Alerted(resolve, opening)
                                     /\ devices[d].seen > Retention}
           dropped == {k \in DeviceKeys : k[2] \in stale \/ hold[k] > Retention}
           unexpired == [d \in Devices |-> [t \in PredTypes |->
                           IF preds[d][t].at > PredTtl THEN NoPrediction ELSE preds[d][t]]]
<1>4. /\ Change(open, RuleRefires(holding), resolve, {}, back, dropped)
      /\ Forget(stale, unexpired)
  BY <1>3 DEF Swept
<1> SUFFICES ASSUME NEW k \in RuleKeys, IsActive(k)'
             PROVE  k[1] \in configured /\ devices'[k[2]].known
  BY <1>1 DEF AlertsStayEvaluable
<1>5. \A e \in Silent(clock, fresh) : e \in Edges
  BY DEF Silent
<1>6. k \in open => k \in opening
  BY <1>5, RuleKeysApart, KeySets
<1>7. k \in resolve => k \in cleared
  <2>1. Expired \subseteq TtlKeys
    BY Candidates, KeySets DEF Expired
  <2>2. Active(back) \subseteq OfflineKeys
    BY <1>2, Candidates, KeySets
  <2> QED BY <2>1, <2>2, RuleKeysApart
<1> HIDE DEF open, resolve, back, dropped, unexpired
<1>8. k \in opening \/ k \in RuleRefires(holding) \/ (IsActive(k) /\ k \notin resolve)
  BY <1>4, <1>6, ChangedActive, RuleKeysApart
<1>9. k \in RuleRefires(holding) => IsActive(k) /\ k \notin resolve
  BY <1>2, <1>7, Candidates
<1>10. k[2] \in Alerted(resolve, opening)
  BY <1>8, <1>9, RuleKeysApart DEF Alerted, Active
<1>11. k[1] \in configured /\ devices[k[2]].known
  BY <1>1, <1>2, <1>3, <1>8, <1>9, Candidates DEF AlertsStayEvaluable
<1>12. k[2] \notin stale
  BY <1>10
<1> HIDE DEF stale
<1> QED BY <1>4, <1>11, <1>12, RuleKeysApart DEF Forget

LEMMA RemovedEvaluable ==
  ASSUME TypeOK, AlertsStayEvaluable, NEW d \in Devices, DeviceRemoved(d)
  PROVE  AlertsStayEvaluable'
<1> USE DEF TypeOK
<1> DEFINE mine == KeysOfDevice(d)
<1>1. /\ Forget({d}, preds) /\ up /\ up' = up /\ configured' = configured
      /\ Change({}, {}, Active(mine), {}, mine, {})
  BY DEF DeviceRemoved
<1> SUFFICES ASSUME NEW k \in RuleKeys, IsActive(k)'
             PROVE  k[1] \in configured /\ devices'[k[2]].known
  BY <1>1 DEF AlertsStayEvaluable
<1>2. IsActive(k) /\ k \notin Active(mine)
  BY <1>1, ChangedActive, RuleKeysApart
<1>3. k[2] # d
  BY <1>2, RuleKeysApart DEF Active, KeysOfDevice
<1> QED BY <1>1, <1>2, <1>3, RuleKeysApart DEF Forget, AlertsStayEvaluable

LEMMA StartEvaluable ==
  ASSUME TypeOK, NEW config \in Configs, Start(config)
  PROVE  AlertsStayEvaluable'
<1> USE DEF TypeOK
<1> DEFINE kept == Kept(config)
           seeded == {a[1][2] : a \in {b \in kept : b[1][1] \in config}}
           recent == {d \in Devices : dbDevices[d].at <= Retention}
<1>1. \A k \in Keys : k \notin {a[1] : a \in kept} => active'[k] = NoAlert
  BY DEF Start
<1>2. \A d \in seeded : d \in Devices => devices'[d].known
  <2>1. devices' = [d \in Devices |->
          IF d \in recent \cup seeded
          THEN [known |-> TRUE, status |-> RowStatus(d), reading |-> dbDevices[d].reading,
                seen |-> 0, restored |-> TRUE]
          ELSE NoDevice]
    BY DEF Start
  <2> HIDE DEF seeded, recent
  <2> QED BY <2>1
<1>3. configured' = config
  BY DEF Start
<1> SUFFICES ASSUME NEW k \in RuleKeys, IsActive(k)'
             PROVE  k[1] \in config /\ devices'[k[2]].known
  BY <1>3 DEF AlertsStayEvaluable
<1>4. PICK a \in kept : a[1] = k
  BY <1>1, RuleKeysApart DEF IsActive, NoAlert
<1>5. k[1] \in config
  <2>1. IsKnownRule(k[1], config)
    BY <1>4, KeptRows
  <2> QED BY <2>1, RuleKeysApart, SourcesAssumption DEF IsKnownRule, Sources
<1> QED BY <1>2, <1>4, <1>5, RuleKeysApart

LEMMA EvaluableNext ==
  TypeOK /\ AlertsStayEvaluable /\ [Next]_vars => AlertsStayEvaluable'
<1> SUFFICES ASSUME TypeOK, AlertsStayEvaluable, [Next]_vars PROVE AlertsStayEvaluable'
  OBVIOUS
<1> USE DEF TypeOK
<1>1. ASSUME NEW d \in Devices, NEW r \in Reports, DeviceStatusUpdate(d, r)
      PROVE  AlertsStayEvaluable'
  BY <1>1, StatusUpdateEvaluable
<1>2. ASSUME NEW d \in Devices, NEW m \in EdgeMetrics, IngestDeviceAlert(m, d)
      PROVE  AlertsStayEvaluable'
  <2>1. RaiseReported(<<m, d>>) /\ UNCHANGED <<devices, configured, up>> /\ <<m, d>> \in TtlKeys
    BY <1>2 DEF IngestDeviceAlert, TtlKeys, EdgeKeys
  <2> QED BY <2>1, RaisedEvaluable, StaysEvaluable
<1>3. ASSUME NEW d \in Devices, NEW t \in PredTypes, NEW f \in Forecasts, PredictionResult(t, d, f)
      PROVE  AlertsStayEvaluable'
  <2>1. UNCHANGED <<devices, configured, up>> /\ <<t, d>> \in TtlKeys
    BY <1>3 DEF PredictionResult, TtlKeys, PredKeys
  <2>2. RaiseReported(<<t, d>>) \/ active' = active
    BY <1>3 DEF PredictionResult, NoChange
  <2>3. \A k \in RuleKeys : IsActive(k)' => IsActive(k)
    BY <2>1, <2>2, RaisedEvaluable DEF IsActive
  <2> QED BY <2>1, <2>3, StaysEvaluable
<1>4. ASSUME NEW d \in Devices, DeviceRemoved(d) PROVE AlertsStayEvaluable'
  BY <1>4, RemovedEvaluable
<1>5. ASSUME NEW e \in Connecting, EdgeSeen(e) PROVE AlertsStayEvaluable'
  <2>1. /\ Change({}, {}, Active({OfflineKey(e)}), {}, {OfflineKey(e)}, {})
        /\ UNCHANGED <<devices, configured, up>>
    BY <1>5 DEF EdgeSeen
  <2>2. \A k \in RuleKeys : IsActive(k)' => IsActive(k)
    BY <2>1, ChangedActive, RuleKeysApart
  <2> QED BY <2>1, <2>2, StaysEvaluable
<1>6. ASSUME NEW e \in Connecting, EdgeDisconnected(e) PROVE AlertsStayEvaluable'
  BY <1>6 DEF EdgeDisconnected, NoChange, AlertsStayEvaluable, IsActive
<1>7. ASSUME NEW k \in Keys, NEW n \in Ids, AcknowledgeAlert(k, n) PROVE AlertsStayEvaluable'
  <2>1. UNCHANGED <<devices, configured, up>>
    BY <1>7 DEF AcknowledgeAlert
  <2>2. active' = active \/ active' = [active EXCEPT ![k].status = "acknowledged"]
    BY <1>7 DEF AcknowledgeAlert
  <2>3. \A j \in RuleKeys : active'[j].n = active[j].n
    BY <2>2, RuleKeysApart DEF AlertsTyped, Alerts
  <2> QED BY <2>1, <2>3, StaysEvaluable DEF IsActive
<1>8. ASSUME NEW k \in Keys, NEW n \in Ids, ResolveAlert(k, n) PROVE AlertsStayEvaluable'
  <2>1. UNCHANGED <<devices, configured, up>>
    BY <1>8 DEF ResolveAlert
  <2>2. active' = active \/ active' = [active EXCEPT ![k] = NoAlert]
    BY <1>8 DEF ResolveAlert
  <2>3. \A j \in RuleKeys : active'[j].n = active[j].n \/ active'[j].n = 0
    BY <2>2, RuleKeysApart DEF AlertsTyped, NoAlert
  <2> QED BY <2>1, <2>3, StaysEvaluable DEF IsActive
<1>9. CASE Sweep
  BY <1>9, SweepEvaluable
<1>10. CASE WriterStep \/ WriterFails
  BY <1>10 DEF WriterStep, WriterFails, memory, AlertsStayEvaluable, IsActive
<1>11. CASE Tick
  <2>1. UNCHANGED <<configured, up>>
    BY <1>11 DEF Tick
  <2>2. \A j \in RuleKeys : active'[j].n = active[j].n
    BY <1>11, RuleKeysApart DEF Tick, AlertsTyped, Alerts
  <2>3. \A d \in Devices : devices'[d].known = devices[d].known
    BY <1>11 DEF Tick, KnownTyped, DeviceStates
  <2> QED BY <2>1, <2>2, <2>3, StaysEvaluable DEF IsActive
<1>12. CASE Crash
  BY <1>12 DEF Crash, AlertsStayEvaluable
<1>13. ASSUME NEW config \in Configs, Start(config) PROVE AlertsStayEvaluable'
  BY <1>13, StartEvaluable
<1>14. CASE UNCHANGED vars
  BY <1>14 DEF vars, memory, AlertsStayEvaluable, IsActive
<1> QED
  BY <1>1, <1>2, <1>3, <1>4, <1>5, <1>6, <1>7, <1>8, <1>9, <1>10, <1>11, <1>12, <1>13, <1>14
  DEF Next, Ids

\* While the hub runs, every active alert of a rule can be resolved by a report
\* or a sweep: the rule is configured and the device is known, whatever the
\* sweeps forget and whatever a restart finds in the database.
THEOREM AlertsEvaluable == Spec => []AlertsStayEvaluable
<1>1. Init => AlertsStayEvaluable
  <2> SUFFICES ASSUME Init PROVE AlertsStayEvaluable
    OBVIOUS
  <2> QED BY EmptyTyped, RuleKeysApart DEF Init, AlertsStayEvaluable, IsActive
<1> QED BY <1>1, TypeCorrect, EvaluableNext, PTL DEF Spec

-----------------------------------------------------------------------------
(* Manual resolutions hold *)

\* Whoever resolved an alert by hand is remembered by its hold, or the cooldown
\* has passed, or the hub lost the hold.
HoldAccounted ==
  \A k \in DeviceKeys :
    k \in lapsed \/ byHand[k] >= hold[k] \/ byHand[k] >= Cooldown[k[1]]

\* The same of the edge-offline alert and its latch.
LatchAccounted ==
  \A e \in Edges :
    byHand[OfflineKey(e)] = NoTime \/ OfflineKey(e) \in lapsed \/ e \in latched

Accounted == HoldAccounted /\ LatchAccounted

HoldStep == \A k \in Keys : Opens(k) => MayOpenAgain(k) \/ k \in lapsed

LEMMA MayOpen ==
  ASSUME TypeOK, Accounted
  PROVE  /\ \A k \in DeviceKeys : ~ Held(k) => MayOpenAgain(k) \/ k \in lapsed
         /\ \A e \in Edges : e \notin latched =>
              MayOpenAgain(OfflineKey(e)) \/ OfflineKey(e) \in lapsed
<1>1. ASSUME NEW k \in DeviceKeys, ~ Held(k) PROVE MayOpenAgain(k) \/ k \in lapsed
  <2>1. byHand[k] \in Nat /\ hold[k] \in Nat /\ Cooldown[k[1]] \in Nat /\ k \notin OfflineKeys
    BY Ages, KeySets, ConstantsAssumption DEF TypeOK, KnownTyped, HistoryTyped
  <2> QED BY <1>1, <2>1 DEF Accounted, HoldAccounted, Held, MayOpenAgain
<1>2. \A e \in Edges : e \notin latched =>
        MayOpenAgain(OfflineKey(e)) \/ OfflineKey(e) \in lapsed
  BY KeySets DEF Accounted, LatchAccounted, MayOpenAgain
<1> QED BY <1>1, <1>2

LEMMA OpenedByChange ==
  ASSUME TypeOK, NEW open, NEW refire, NEW resolve, NEW touch, NEW excused, NEW lost,
         Change(open, refire, resolve, touch, excused, lost), \A k \in refire : IsActive(k)
  PROVE  \A k \in Keys : Opens(k) => k \in open
  BY ChangedActive DEF TypeOK, Opens, IsActive

LEMMA NothingOpens ==
  ASSUME \A k \in Keys : active'[k].n # 0 => IsActive(k)
  PROVE  HoldStep
  BY DEF HoldStep, Opens

LEMMA AccountedChange ==
  ASSUME TypeOK, Accounted, NEW open, NEW refire, NEW resolve, NEW touch, NEW excused, NEW lost,
         Change(open, refire, resolve, touch, excused, lost),
         \A k \in DeviceKeys : hold'[k] = hold[k] \/ ~ Held(k) \/ k \in open \cup excused \cup lost,
         \A e \in Edges : e \in latched => e \in latched' \/ OfflineKey(e) \in excused
  PROVE  Accounted'
<1>1. \A k \in Keys : IF k \in open \cup excused
                      THEN byHand'[k] = NoTime
                      ELSE byHand'[k] = byHand[k] /\ (k \in lapsed \cup lost => k \in lapsed')
  BY DEF Change
<1>2. HoldAccounted'
  <2> SUFFICES ASSUME NEW k \in DeviceKeys
               PROVE  k \in lapsed' \/ byHand'[k] >= hold'[k] \/ byHand'[k] >= Cooldown[k[1]]
    BY DEF HoldAccounted
  <2>0. NoTime >= Cooldown[k[1]]
    BY KeySets, ConstantsAssumption, HorizonAssumption DEF NoTime
  <2>1. /\ byHand[k] \in Nat /\ hold[k] \in Nat /\ Cooldown[k[1]] \in Nat /\ k \in Keys
        /\ NoTime >= Cooldown[k[1]]
    BY <2>0, Ages, KeySets, ConstantsAssumption DEF TypeOK, KnownTyped, HistoryTyped
  <2>2. CASE k \in open \cup excused
    BY <1>1, <2>1, <2>2
  <2>3. CASE k \notin open \cup excused /\ k \in lapsed \cup lost
    BY <1>1, <2>1, <2>3
  <2>4. CASE k \notin open \cup excused /\ k \notin lapsed \cup lost
    BY <1>1, <2>1, <2>4 DEF Accounted, HoldAccounted, Held
  <2> QED BY <2>2, <2>3, <2>4
<1>3. LatchAccounted'
  BY <1>1, KeySets DEF Accounted, LatchAccounted
<1> QED BY <1>2, <1>3 DEF Accounted

LEMMA AccountedUnchanged ==
  ASSUME Accounted, NoChange, hold' = hold, latched' = latched
  PROVE  Accounted' /\ HoldStep
<1>1. Accounted'
  BY DEF Accounted, HoldAccounted, LatchAccounted, NoChange, history
<1>2. HoldStep
  BY NothingOpens DEF NoChange, IsActive
<1> QED BY <1>1, <1>2

LEMMA RaisedAccounted ==
  ASSUME TypeOK, Accounted, NEW j \in TtlKeys, RaiseReported(j), latched' = latched
  PROVE  Accounted' /\ HoldStep
<1>1. CASE IsActive(j)
  <2>1. PICK refire \in SUBSET {j} : Change({}, refire, {}, {j}, {}, {})
    BY <1>1 DEF RaiseReported
  <2>2. hold' = hold
    BY <1>1 DEF RaiseReported
  <2>3. Accounted'
    BY <2>1, <2>2, AccountedChange
  <2>4. \A k \in Keys : Opens(k) => k \in {}
    BY <1>1, <2>1, OpenedByChange
  <2> QED BY <2>3, <2>4 DEF HoldStep
<1>2. CASE ~ IsActive(j) /\ Held(j)
  BY <1>2, AccountedUnchanged DEF RaiseReported
<1>3. CASE ~ IsActive(j) /\ ~ Held(j)
  <2>1. Change({j}, {}, {}, {}, {}, {}) /\ Unhold({j})
    BY <1>3 DEF RaiseReported
  <2>2. Accounted'
    <3>1. \A k \in DeviceKeys : hold'[k] = hold[k] \/ k \in {j}
      BY <2>1 DEF Unhold
    <3> QED BY <2>1, <3>1, AccountedChange
  <2>3. \A k \in Keys : Opens(k) => k \in {j}
    BY <2>1, OpenedByChange
  <2> QED BY <1>3, <2>2, <2>3, MayOpen, KeySets DEF HoldStep
<1> QED BY <1>1, <1>2, <1>3

LEMMA StatusUpdateAccounted ==
  ASSUME TypeOK, Accounted, NEW d \in Devices, NEW report \in Reports,
         DeviceStatusUpdate(d, report)
  PROVE  Accounted' /\ HoldStep
<1> DEFINE known == devices[d]
           x == Context(d, report.status, IF known.known THEN known.status ELSE NoStatus,
                        report.reading, 0)
           holding == KeysOf(Holding(x, FALSE), d)
           healed == IF report.status = Healthy THEN EdgeMetrics \X {d} ELSE {}
           resolve == Active(KeysOf(Cleared(x), d) \cup healed \cup {OfflineKey(EdgeOf[d])})
           open == {k \in Unheld(holding) : BelowCap(k)}
<1>1. /\ Change(open, RuleRefires(holding), resolve, {}, {OfflineKey(EdgeOf[d])}, {})
      /\ Unhold(Unheld(holding)) /\ SeenEdge(EdgeOf[d])
  BY DEF DeviceStatusUpdate
<1>2. holding \subseteq DeviceKeys
  <2>1. \A y : KeysOf(Holding(y, FALSE), d) \subseteq RuleKeys
    BY RuleSets DEF TypeOK
  <2> QED BY <2>1, KeySets
<1> HIDE DEF holding, resolve
<1>3. \A k \in DeviceKeys : hold'[k] = hold[k] \/ ~ Held(k)
  BY <1>1, Candidates DEF Unhold
<1>4. \A e \in Edges : e \in latched => e \in latched' \/ OfflineKey(e) \in {OfflineKey(EdgeOf[d])}
  BY <1>1 DEF SeenEdge
<1>5. \A k \in open : k \in DeviceKeys /\ ~ Held(k)
  BY <1>2, Candidates
<1> HIDE DEF open
<1>6. Accounted'
  BY <1>1, <1>3, <1>4, AccountedChange
<1>7. \A k \in Keys : Opens(k) => k \in open
  BY <1>1, Candidates, OpenedByChange
<1> QED BY <1>5, <1>6, <1>7, MayOpen DEF HoldStep

LEMMA SweepAccounted ==
  ASSUME TypeOK, Accounted, Sweep
  PROVE  Accounted' /\ HoldStep
<1>1. PICK holding, ended, cleared, fresh, clock : \E opening \in SUBSET Unheld(holding) :
              /\ holding \subseteq RuleKeys
              /\ fresh \subseteq Edges /\ clock \in [Edges -> MaybeAge]
              /\ \A e \in fresh : OfflineLimit > 0 /\ clock[e] <= OfflineLimit
              /\ Swept(holding, ended, cleared, fresh, clock, opening)
  BY SweepParts
<1>2. PICK opening \in SUBSET Unheld(holding) :
         Swept(holding, ended, cleared, fresh, clock, opening)
  BY <1>1
<1> DEFINE back == {OfflineKey(e) : e \in fresh}
           open == opening \cup {OfflineKey(e) : e \in Silent(clock, fresh)}
           resolve == cleared \cup Expired \cup Active(back)
           stale == {d \in Devices : /\ devices[d].known /\ d \notin Alerted(resolve, opening)
                                     /\ devices[d].seen > Retention}
           dropped == {k \in DeviceKeys : k[2] \in stale \/ hold[k] > Retention}
<1>3. /\ Change(open, RuleRefires(holding), resolve, {}, back, dropped)
      /\ Unhold(Unheld(holding) \cup dropped) /\ latched' = latched \ fresh
  BY <1>2 DEF Swept
<1>4. \A e \in Silent(clock, fresh) : e \in Edges /\ e \notin latched
  <2>1. \A e \in Silent(clock, fresh) : /\ e \in Edges /\ e \notin latched \ fresh
                                       /\ clock[e] \in OfflineLimit + 1 .. Horizon
    BY DEF Silent
  <2>2. \A e \in fresh : clock[e] <= OfflineLimit
    BY <1>1
  <2>3. OfflineLimit \in Nat /\ Horizon \in Nat
    BY ConstantsAssumption
  <2>4. \A e \in Silent(clock, fresh) : e \notin fresh
    BY <2>1, <2>2, <2>3
  <2> QED BY <2>1, <2>4
<1> HIDE DEF resolve, stale, dropped, back
<1>5. \A k \in DeviceKeys : hold'[k] = hold[k] \/ ~ Held(k) \/ k \in dropped
  BY <1>3, Candidates DEF Unhold
<1>6. \A e \in Edges : e \in latched => e \in latched' \/ OfflineKey(e) \in back
  BY <1>3 DEF back
<1>7. \A k \in opening : k \in DeviceKeys /\ ~ Held(k)
  BY <1>1, KeySets, Candidates
<1>8. Accounted'
  <2> HIDE DEF open
  <2> QED BY <1>3, <1>5, <1>6, AccountedChange
<1>9. \A k \in Keys : Opens(k) => k \in open
  <2> HIDE DEF open
  <2> QED BY <1>3, Candidates, OpenedByChange
<1> QED BY <1>4, <1>7, <1>8, <1>9, MayOpen DEF HoldStep

LEMMA RemovedAccounted ==
  ASSUME TypeOK, Accounted, NEW d \in Devices, DeviceRemoved(d)
  PROVE  Accounted' /\ HoldStep
<1> DEFINE mine == KeysOfDevice(d)
<1>1. /\ Unhold(mine) /\ latched' = latched /\ Change({}, {}, Active(mine), {}, mine, {})
  BY DEF DeviceRemoved
<1> HIDE DEF mine
<1>2. \A k \in DeviceKeys : hold'[k] = hold[k] \/ k \in mine
  BY <1>1 DEF Unhold
<1>3. Accounted'
  BY <1>1, <1>2, AccountedChange
<1>4. \A k \in Keys : Opens(k) => k \in {}
  BY <1>1, OpenedByChange
<1> QED BY <1>3, <1>4 DEF HoldStep

LEMMA EdgeAccounted ==
  ASSUME TypeOK, Accounted, NEW e \in Edges, EdgeSeen(e) \/ EdgeDisconnected(e)
  PROVE  Accounted' /\ HoldStep
<1>1. CASE EdgeSeen(e)
  <2>1. /\ hold' = hold /\ SeenEdge(e)
        /\ Change({}, {}, Active({OfflineKey(e)}), {}, {OfflineKey(e)}, {})
    BY <1>1 DEF EdgeSeen
  <2>2. \A f \in Edges : f \in latched => f \in latched' \/ OfflineKey(f) \in {OfflineKey(e)}
    BY <2>1 DEF SeenEdge
  <2>3. Accounted'
    BY <2>1, <2>2, AccountedChange
  <2>4. \A k \in Keys : Opens(k) => k \in {}
    BY <2>1, OpenedByChange
  <2> QED BY <2>3, <2>4 DEF HoldStep
<1>2. CASE EdgeDisconnected(e)
  BY <1>2, AccountedUnchanged DEF EdgeDisconnected
<1> QED BY <1>1, <1>2

LEMMA OperatorAccounted ==
  ASSUME TypeOK, Accounted, NEW k \in Keys, NEW n \in Ids, AcknowledgeAlert(k, n) \/ ResolveAlert(k, n)
  PROVE  Accounted' /\ HoldStep
<1>1. CASE AcknowledgeAlert(k, n)
  <2>1. UNCHANGED <<hold, latched, byHand, lapsed>>
    BY <1>1 DEF AcknowledgeAlert
  <2>2. active' = active \/ active' = [active EXCEPT ![k].status = "acknowledged"]
    BY <1>1 DEF AcknowledgeAlert
  <2>3. \A j \in Keys : active'[j].n = active[j].n
    BY <2>2 DEF TypeOK, AlertsTyped, Alerts
  <2>4. Accounted'
    BY <2>1 DEF Accounted, HoldAccounted, LatchAccounted
  <2> QED BY <2>3, <2>4, NothingOpens DEF IsActive
<1>2. CASE ResolveAlert(k, n) /\ active[k].n = n
  <2>1. /\ active' = [active EXCEPT ![k] = NoAlert]
        /\ latched' = IF k \in OfflineKeys THEN latched \cup {k[2]} ELSE latched
        /\ hold' = [j \in DeviceKeys |-> IF j = k THEN 0 ELSE hold[j]]
        /\ byHand' = [byHand EXCEPT ![k] = 0]
        /\ lapsed' = lapsed \ {k}
    BY <1>2 DEF ResolveAlert
  <2>2. \A j \in Keys : active'[j].n = 0 \/ active'[j].n = active[j].n
    BY <2>1 DEF NoAlert, TypeOK, AlertsTyped
  <2>3. HoldAccounted'
    <3> SUFFICES ASSUME NEW j \in DeviceKeys
                 PROVE  j \in lapsed' \/ byHand'[j] >= hold'[j] \/ byHand'[j] >= Cooldown[j[1]]
      BY DEF HoldAccounted
    <3>1. j \in Keys
      BY KeySets
    <3>2. CASE j = k
      BY <2>1, <3>1, <3>2 DEF TypeOK, HistoryTyped
    <3>3. CASE j # k
      BY <2>1, <3>1, <3>3 DEF TypeOK, HistoryTyped, Accounted, HoldAccounted
    <3> QED BY <3>2, <3>3
  <2>4. LatchAccounted'
    <3> SUFFICES ASSUME NEW e \in Edges
                 PROVE  byHand'[OfflineKey(e)] = NoTime \/ OfflineKey(e) \in lapsed' \/ e \in latched'
      BY DEF LatchAccounted
    <3>1. OfflineKey(e) \in Keys /\ OfflineKey(e) \in OfflineKeys /\ OfflineKey(e)[2] = e
      BY KeySets DEF OfflineKey
    <3>2. CASE OfflineKey(e) = k
      BY <2>1, <3>1, <3>2
    <3>3. CASE OfflineKey(e) # k
      BY <2>1, <3>1, <3>3 DEF TypeOK, HistoryTyped, Accounted, LatchAccounted
    <3> QED BY <3>2, <3>3
  <2> QED BY <2>2, <2>3, <2>4, NothingOpens DEF Accounted, IsActive
<1>3. CASE ResolveAlert(k, n) /\ active[k].n # n
  <2>1. UNCHANGED <<active, latched, hold, byHand, lapsed>>
    BY <1>3 DEF ResolveAlert
  <2> QED BY <2>1, NothingOpens DEF Accounted, HoldAccounted, LatchAccounted, IsActive
<1> QED BY <1>1, <1>2, <1>3

LEMMA TickAccounted ==
  ASSUME TypeOK, Accounted, Tick
  PROVE  Accounted' /\ HoldStep
<1>1. /\ hold' = [k \in DeviceKeys |-> Older(hold[k])] /\ byHand' = [k \in Keys |-> Older(byHand[k])]
      /\ UNCHANGED <<latched, lapsed>>
  BY DEF Tick, TypeOK, KnownTyped, HistoryTyped
<1>2. \A a \in MaybeAge : Older(a) >= a /\ \A b \in Age : a >= b => Older(a) >= Older(b)
  BY ConstantsAssumption DEF Age, MaybeAge, NoTime, Older
<1>3. HoldAccounted'
  <2> SUFFICES ASSUME NEW k \in DeviceKeys
               PROVE  k \in lapsed' \/ byHand'[k] >= hold'[k] \/ byHand'[k] >= Cooldown[k[1]]
    BY DEF HoldAccounted
  <2>1. byHand[k] \in MaybeAge /\ hold[k] \in Age /\ Cooldown[k[1]] \in Nat /\ k \in Keys
    BY KeySets, ConstantsAssumption DEF TypeOK, KnownTyped, HistoryTyped
  <2>2. hold'[k] = Older(hold[k]) /\ byHand'[k] = Older(byHand[k])
    BY <1>1, <2>1
  <2>3. Older(byHand[k]) \in Nat /\ byHand[k] \in Nat
    BY <2>1, Ages, Aging
  <2>4. CASE byHand[k] >= Cooldown[k[1]]
    BY <1>2, <2>1, <2>2, <2>3, <2>4
  <2>5. CASE byHand[k] >= hold[k]
    BY <1>2, <2>1, <2>2, <2>5
  <2>6. CASE k \in lapsed
    BY <1>1, <2>6
  <2> QED BY <2>4, <2>5, <2>6 DEF Accounted, HoldAccounted
<1>4. LatchAccounted'
  <2>1. Older(NoTime) = NoTime
    BY ConstantsAssumption DEF Older, NoTime
  <2> QED BY <1>1, <2>1, KeySets DEF Accounted, LatchAccounted
<1>5. \A k \in Keys : active'[k].n = active[k].n
  BY DEF Tick, TypeOK, AlertsTyped, Alerts
<1> QED BY <1>3, <1>4, <1>5, NothingOpens DEF Accounted, IsActive

LEMMA CrashAccounted ==
  ASSUME TypeOK, Crash
  PROVE  Accounted' /\ HoldStep
<1>1. /\ byHand' = byHand /\ lapsed' = lapsed \cup {k \in Keys : byHand[k] # NoTime}
      /\ active' = EmptyMemory.active
  BY DEF Crash
<1>2. HoldAccounted'
  <2>1. \A k \in DeviceKeys : NoTime >= Cooldown[k[1]]
    BY KeySets, ConstantsAssumption, HorizonAssumption DEF NoTime
  <2> QED BY <1>1, <2>1, KeySets DEF HoldAccounted
<1>3. LatchAccounted'
  BY <1>1, KeySets DEF LatchAccounted
<1>4. HoldStep
  BY <1>1, EmptyTyped, NothingOpens
<1> QED BY <1>2, <1>3, <1>4 DEF Accounted

LEMMA AccountedNext ==
  TypeOK /\ Accounted /\ [Next]_vars => Accounted' /\ [HoldStep]_vars
<1> SUFFICES ASSUME TypeOK, Accounted, [Next]_vars PROVE Accounted' /\ [HoldStep]_vars
  OBVIOUS
<1>1. ASSUME NEW d \in Devices, NEW r \in Reports, DeviceStatusUpdate(d, r)
      PROVE  Accounted' /\ HoldStep
  BY <1>1, StatusUpdateAccounted
<1>2. ASSUME NEW d \in Devices, NEW m \in EdgeMetrics, IngestDeviceAlert(m, d)
      PROVE  Accounted' /\ HoldStep
  <2>1. RaiseReported(<<m, d>>) /\ latched' = latched /\ <<m, d>> \in TtlKeys
    BY <1>2 DEF IngestDeviceAlert, TtlKeys, EdgeKeys
  <2> QED BY <2>1, RaisedAccounted
<1>3. ASSUME NEW d \in Devices, NEW t \in PredTypes, NEW f \in Forecasts, PredictionResult(t, d, f)
      PROVE  Accounted' /\ HoldStep
  <2>1. latched' = latched /\ <<t, d>> \in TtlKeys
    BY <1>3 DEF PredictionResult, TtlKeys, PredKeys
  <2>2. RaiseReported(<<t, d>>) \/ (NoChange /\ hold' = hold)
    BY <1>3 DEF PredictionResult
  <2> QED BY <2>1, <2>2, RaisedAccounted, AccountedUnchanged
<1>4. ASSUME NEW d \in Devices, DeviceRemoved(d) PROVE Accounted' /\ HoldStep
  BY <1>4, RemovedAccounted
<1>5. ASSUME NEW e \in Connecting, EdgeSeen(e) \/ EdgeDisconnected(e) PROVE Accounted' /\ HoldStep
  <2>1. e \in Edges
    BY ConstantsAssumption
  <2> QED BY <1>5, <2>1, EdgeAccounted
<1>6. ASSUME NEW k \in Keys, NEW n \in Ids, AcknowledgeAlert(k, n) \/ ResolveAlert(k, n)
      PROVE  Accounted' /\ HoldStep
  BY <1>6, OperatorAccounted
<1>7. CASE Sweep
  BY <1>7, SweepAccounted
<1>8. CASE WriterStep \/ WriterFails
  <2>1. UNCHANGED <<active, hold, latched, byHand, lapsed>>
    BY <1>8 DEF WriterStep, WriterFails, memory, history
  <2> QED BY <2>1, NothingOpens DEF Accounted, HoldAccounted, LatchAccounted, IsActive
<1>9. CASE Tick
  BY <1>9, TickAccounted
<1>10. CASE Crash
  BY <1>10, CrashAccounted
<1>11. ASSUME NEW config \in Configs, Start(config) PROVE Accounted' /\ HoldStep
  <2>1. UNCHANGED <<hold, latched, history>> /\ ~ up
    BY <1>11 DEF Start
  <2> QED BY <2>1 DEF Accounted, HoldAccounted, LatchAccounted, history, HoldStep, Opens
<1>12. CASE UNCHANGED vars
  BY <1>12 DEF vars, memory, history, Accounted, HoldAccounted, LatchAccounted
<1> QED
  BY <1>1, <1>2, <1>3, <1>4, <1>5, <1>6, <1>7, <1>8, <1>9, <1>10, <1>11, <1>12 DEF Next, Ids

\* An alert an operator resolved does not open again before its cooldown has
\* passed (the edge-offline alert not before its edge was heard from), unless
\* the hub lost the hold in a restart or with a device it forgot.
THEOREM ManualHolds == Spec => ManualHoldKeptUnlessLost
<1>1. Init => Accounted
  <2> SUFFICES ASSUME Init PROVE Accounted
    OBVIOUS
  <2>1. \A k \in DeviceKeys : NoTime >= Cooldown[k[1]]
    BY KeySets, ConstantsAssumption, HorizonAssumption DEF NoTime
  <2>2. HoldAccounted
    BY <2>1, KeySets DEF Init, HoldAccounted
  <2>3. LatchAccounted
    BY KeySets DEF Init, LatchAccounted
  <2> QED BY <2>2, <2>3 DEF Accounted
<1>2. [HoldStep]_vars <=> [\A k \in Keys : Opens(k) => MayOpenAgain(k) \/ k \in lapsed]_vars
  BY DEF HoldStep
<1> QED BY <1>1, <1>2, TypeCorrect, AccountedNext, PTL DEF Spec, ManualHoldKeptUnlessLost
-----------------------------------------------------------------------------
(* Induction over positions *)

\* A nonempty set of naturals has a least element.
LEMMA LeastNat ==
  ASSUME NEW T \in SUBSET Nat, T # {}
  PROVE  \E m \in T : \A n \in T : m <= n
<1> DEFINE Below == {0 .. (n - 1) : n \in T}
           R == StrictSubsetOrdering(Nat)
<1>1. IsWellFoundedOn(R, FiniteSubsetsOf(Nat))
  BY FS_StrictSubsetOrderingWellFounded
<1>2. Below \subseteq FiniteSubsetsOf(Nat) /\ Below # {}
  <2>1. ASSUME NEW n \in T PROVE 0 .. (n - 1) \in FiniteSubsetsOf(Nat)
    <3>1. IsFiniteSet(0 .. (n - 1))
      BY FS_Interval
    <3> QED BY <3>1 DEF FiniteSubsetsOf
  <2> QED BY <2>1
<1> HIDE DEF Below, R
<1>3. PICK x \in Below : \A y \in Below : ~ (<<y, x>> \in R)
  BY <1>1, <1>2, WFMin
<1>4. PICK m \in T : x = 0 .. (m - 1)
  BY DEF Below
<1>5. ASSUME NEW n \in T, ~ (m <= n) PROVE FALSE
  <2>1. 0 .. (n - 1) \in Below
    BY DEF Below
  <2>2. /\ 0 .. (n - 1) \subseteq Nat /\ x \subseteq Nat /\ 0 .. (n - 1) \subseteq x
        /\ n \in x /\ n \notin 0 .. (n - 1)
    BY <1>4, <1>5
  <2>3. <<0 .. (n - 1), x>> \in R
    BY <2>2 DEF R, StrictSubsetOrdering
  <2> QED BY <1>3, <2>1, <2>3
<1> QED BY <1>5

\* Induction, of a set instead of a predicate: T has every number up to N.
LEMMA UpTo ==
  ASSUME NEW N \in Nat, NEW T, 0 \in T, \A n \in 0 .. (N - 1) : n \in T => n + 1 \in T
  PROVE  \A n \in 0 .. N : n \in T
<1> SUFFICES ASSUME NEW k \in 0 .. N, k \notin T PROVE FALSE
  OBVIOUS
<1> DEFINE Missed == {n \in 0 .. N : n \notin T}
<1>1. PICK m \in Missed : \A n \in Missed : m <= n
  <2>1. Missed \subseteq Nat /\ Missed # {}
    OBVIOUS
  <2> HIDE DEF Missed
  <2> QED BY <2>1, LeastNat
<1>2. m # 0 /\ m - 1 \in 0 .. (N - 1) /\ m - 1 \notin Missed
  BY <1>1
<1>3. m - 1 \in T /\ (m - 1) + 1 = m
  BY <1>2
<1> QED BY <1>1, <1>2, <1>3

-----------------------------------------------------------------------------
(* What a sequence of operations makes of the alerts table *)

\* The table before, and after each of the operations q.
Runs(h, base, q) ==
  /\ h \in [0 .. Len(q) -> [RowIds -> RowStates]]
  /\ h[0] = base
  /\ \A i \in 1 .. Len(q) : h[i] = [h[i - 1] EXCEPT ![RowOf(q[i])] = Applied(@, q[i])]

Result(t, base, q) == \E h : Runs(h, base, q) /\ t = h[Len(q)]

\* One step of a run stays in the type of the table.
LEMMA RunTyped ==
  ASSUME NEW t \in [RowIds -> RowStates], NEW o \in Operations
  PROVE  [t EXCEPT ![RowOf(o)] = Applied(@, o)] \in [RowIds -> RowStates]
<1>1. CASE RowOf(o) \in RowIds
  BY <1>1, AppliedTyped
<1>2. CASE RowOf(o) \notin RowIds
  BY <1>2
<1> QED BY <1>1, <1>2

\* Every queue has a run.
LEMMA RunsExist ==
  ASSUME NEW base \in [RowIds -> RowStates], NEW q \in Seq(Operations)
  PROVE  \E h : Runs(h, base, q)
<1> DEFINE N == Len(q)
           Is(f, n) ==
             /\ f \in [0 .. n -> [RowIds -> RowStates]] /\ f[0] = base
             /\ \A i \in 1 .. n : f[i] = [f[i - 1] EXCEPT ![RowOf(q[i])] = Applied(@, q[i])]
           T == {n \in 0 .. N : \E f : Is(f, n)}
<1>0. N \in Nat /\ \A i \in 1 .. N : q[i] \in Operations
  OBVIOUS
<1>1. 0 \in T
  <2>1. Is([i \in 0 .. 0 |-> base], 0)
    OBVIOUS
  <2> HIDE DEF Is
  <2> QED BY <1>0, <2>1
<1>2. ASSUME NEW n \in 0 .. (N - 1), n \in T PROVE n + 1 \in T
  <2>1. PICK f : Is(f, n)
    BY <1>2
  <2> DEFINE o == q[n + 1]
             last == [f[n] EXCEPT ![RowOf(o)] = Applied(@, o)]
             g == [i \in 0 .. (n + 1) |-> IF i = n + 1 THEN last ELSE f[i]]
  <2>2. o \in Operations /\ f[n] \in [RowIds -> RowStates]
    BY <1>0, <2>1
  <2>3. last \in [RowIds -> RowStates]
    BY <2>2, RunTyped
  <2> HIDE DEF last
  <2>4. g \in [0 .. (n + 1) -> [RowIds -> RowStates]] /\ g[0] = base
    BY <1>0, <2>1, <2>3
  <2>5. ASSUME NEW i \in 1 .. (n + 1)
        PROVE  g[i] = [g[i - 1] EXCEPT ![RowOf(q[i])] = Applied(@, q[i])]
    <3>1. CASE i = n + 1
      <4>1. g[i] = last /\ g[i - 1] = f[n] /\ q[i] = o
        BY <1>0, <3>1
      <4> QED BY <4>1 DEF last
    <3>2. CASE i # n + 1
      <4>1. i \in 1 .. n /\ g[i] = f[i] /\ g[i - 1] = f[i - 1]
        BY <1>0, <3>2
      <4> QED BY <2>1, <4>1
    <3> QED BY <3>1, <3>2
  <2>6. Is(g, n + 1)
    BY <2>4, <2>5
  <2>7. n + 1 \in 0 .. N
    BY <1>0
  <2> QED BY <2>6, <2>7
<1>3. N \in T
  <2> HIDE DEF T, N
  <2>1. \A n \in 0 .. N : n \in T
    BY <1>0, <1>1, <1>2, UpTo
  <2> QED BY <1>0, <2>1
<1>4. PICK f : Is(f, N)
  BY <1>3
<1>5. Runs(f, base, q)
  BY <1>4 DEF Runs
<1> QED BY <1>5

\* Two runs of a queue from the same rows agree at every position.
LEMMA RunsUnique ==
  ASSUME NEW base, NEW q \in Seq(Operations), NEW h, NEW g, Runs(h, base, q), Runs(g, base, q)
  PROVE  h = g
<1> DEFINE T == {n \in 0 .. Len(q) : h[n] = g[n]}
<1>1. 0 \in T
  BY DEF Runs
<1>2. ASSUME NEW n \in 0 .. (Len(q) - 1), n \in T PROVE n + 1 \in T
  <2>1. n + 1 \in 1 .. Len(q) /\ (n + 1) - 1 = n /\ h[n] = g[n]
    BY <1>2
  <2>2. h[n + 1] = [h[n] EXCEPT ![RowOf(q[n + 1])] = Applied(@, q[n + 1])]
    BY <2>1 DEF Runs
  <2>3. g[n + 1] = [g[n] EXCEPT ![RowOf(q[n + 1])] = Applied(@, q[n + 1])]
    BY <2>1 DEF Runs
  <2> QED BY <2>1, <2>2, <2>3
<1>3. \A n \in 0 .. Len(q) : n \in T
  <2> HIDE DEF T
  <2> QED BY <1>1, <1>2, UpTo
<1>4. \A n \in 0 .. Len(q) : h[n] = g[n]
  BY <1>3
<1> QED BY <1>4 DEF Runs

\* So the result of a queue is unique.
LEMMA OneResult ==
  ASSUME NEW base \in [RowIds -> RowStates], NEW q \in Seq(Operations)
  PROVE  /\ \E t \in [RowIds -> RowStates] : Result(t, base, q)
         /\ \A t, u : Result(t, base, q) /\ Result(u, base, q) => t = u
<1>1. \E t \in [RowIds -> RowStates] : Result(t, base, q)
  <2>1. PICK h : Runs(h, base, q)
    BY RunsExist
  <2>2. h[Len(q)] \in [RowIds -> RowStates]
    BY <2>1 DEF Runs
  <2> QED BY <2>1, <2>2 DEF Result
<1>2. \A t, u : Result(t, base, q) /\ Result(u, base, q) => t = u
  BY RunsUnique DEF Result
<1> QED BY <1>1, <1>2

\* `Drained` is the table the queue leads to.
LEMMA DrainedResult ==
  ASSUME StoreTyped
  PROVE  Result(Drained, rows, queue)
<1> DEFINE Is(f) == f = [i \in 0 .. Len(queue) |->
                          IF i = 0 THEN rows
                          ELSE [f[i - 1] EXCEPT ![RowOf(queue[i])] = Applied(@, queue[i])]]
           after == CHOOSE f : Is(f)
<1>1. PICK h : Runs(h, rows, queue)
  BY RunsExist DEF StoreTyped
<1>0. Len(queue) \in Nat
  BY DEF StoreTyped
<1>2. Is(h)
  <2>1. h \in [0 .. Len(queue) -> [RowIds -> RowStates]]
    BY <1>1 DEF Runs
  <2>2. ASSUME NEW i \in 0 .. Len(queue)
        PROVE  h[i] = IF i = 0 THEN rows
                      ELSE [h[i - 1] EXCEPT ![RowOf(queue[i])] = Applied(@, queue[i])]
    <3>1. CASE i = 0
      BY <1>1, <3>1 DEF Runs
    <3>2. CASE i # 0
      <4>1. i \in 1 .. Len(queue)
        BY <1>0, <3>2
      <4> QED BY <1>1, <3>2, <4>1 DEF Runs
    <3> QED BY <3>1, <3>2
  <2> QED BY <2>1, <2>2
<1>3. Is(after)
  BY <1>2
<1>4. Drained = after[Len(queue)]
  BY DEF Drained
<1> HIDE DEF after
<1>5. DOMAIN after = 0 .. Len(queue) /\ after[0] = rows
  BY <1>3 DEF StoreTyped
<1>6. \A i \in 1 .. Len(queue) :
         after[i] = [after[i - 1] EXCEPT ![RowOf(queue[i])] = Applied(@, queue[i])]
  <2> SUFFICES ASSUME NEW i \in 1 .. Len(queue)
               PROVE  after[i] = [after[i - 1] EXCEPT ![RowOf(queue[i])] = Applied(@, queue[i])]
    OBVIOUS
  <2>1. i \in 0 .. Len(queue) /\ i # 0
    BY <1>0
  <2>2. after[i] = IF i = 0 THEN rows
                   ELSE [after[i - 1] EXCEPT ![RowOf(queue[i])] = Applied(@, queue[i])]
    BY <1>3, <2>1
  <2> QED BY <2>1, <2>2
<1> DEFINE T == {n \in 0 .. Len(queue) : after[n] = h[n]}
<1>7. 0 \in T
  BY <1>1, <1>5 DEF Runs, StoreTyped
<1>8. ASSUME NEW n \in 0 .. (Len(queue) - 1), n \in T PROVE n + 1 \in T
  <2>1. n + 1 \in 1 .. Len(queue) /\ (n + 1) - 1 = n /\ after[n] = h[n]
    BY <1>8 DEF StoreTyped
  <2>2. h[n + 1] = [h[n] EXCEPT ![RowOf(queue[n + 1])] = Applied(@, queue[n + 1])]
    BY <1>1, <2>1 DEF Runs
  <2>3. after[n + 1] = [after[n] EXCEPT ![RowOf(queue[n + 1])] = Applied(@, queue[n + 1])]
    BY <1>6, <2>1
  <2> QED BY <2>1, <2>2, <2>3 DEF StoreTyped
<1>9. \A n \in 0 .. Len(queue) : n \in T
  <2> HIDE DEF T
  <2>1. Len(queue) \in Nat
    BY DEF StoreTyped
  <2> QED BY <1>7, <1>8, <2>1, UpTo
<1>10. after[Len(queue)] = h[Len(queue)]
  BY <1>9 DEF StoreTyped
<1> QED BY <1>1, <1>4, <1>10 DEF Result

\* Operations that are submitted later run on what the others leave.
LEMMA ResultJoins ==
  ASSUME NEW base \in [RowIds -> RowStates], NEW q \in Seq(Operations), NEW s \in Seq(Operations),
         NEW t, Result(t, base, q), NEW u, Result(u, t, s)
  PROVE  Result(u, base, q \o s)
<1>1. PICK h : Runs(h, base, q) /\ t = h[Len(q)]
  BY DEF Result
<1>2. PICK g : Runs(g, t, s) /\ u = g[Len(s)]
  BY DEF Result
<1> DEFINE m == Len(q)
           n == Len(s)
           both == q \o s
           f == [i \in 0 .. Len(both) |-> IF i <= m THEN h[i] ELSE g[i - m]]
<1>3. m \in Nat /\ n \in Nat /\ Len(both) = m + n
  OBVIOUS
<1>4. f \in [0 .. Len(both) -> [RowIds -> RowStates]]
  <2>1. \A i \in 0 .. m : h[i] \in [RowIds -> RowStates]
    BY <1>1 DEF Runs
  <2>2. \A i \in 0 .. n : g[i] \in [RowIds -> RowStates]
    BY <1>2 DEF Runs
  <2>3. ASSUME NEW i \in 0 .. Len(both) PROVE f[i] \in [RowIds -> RowStates]
    <3>1. CASE i <= m
      BY <1>3, <2>1, <3>1
    <3>2. CASE i > m
      <4>1. i - m \in 0 .. n /\ f[i] = g[i - m]
        BY <1>3, <3>2
      <4> QED BY <2>2, <4>1
    <3> QED BY <1>3, <3>1, <3>2
  <2> QED BY <2>3
<1>5. f[0] = base
  BY <1>1, <1>3 DEF Runs
<1>6. ASSUME NEW i \in 1 .. Len(both)
      PROVE  f[i] = [f[i - 1] EXCEPT ![RowOf(both[i])] = Applied(@, both[i])]
  <2>1. CASE i <= m
    <3>1. i \in 1 .. m /\ f[i] = h[i] /\ f[i - 1] = h[i - 1] /\ both[i] = q[i]
      BY <1>3, <2>1
    <3>2. h[i] = [h[i - 1] EXCEPT ![RowOf(q[i])] = Applied(@, q[i])]
      BY <1>1, <3>1 DEF Runs
    <3> QED BY <3>1, <3>2
  <2>2. CASE i > m
    <3>1. i - m \in 1 .. n /\ f[i] = g[i - m] /\ both[i] = s[i - m]
      BY <1>3, <2>2
    <3>2. f[i - 1] = g[(i - m) - 1]
      <4>1. CASE i - 1 = m
        <5>1. f[i - 1] = h[m] /\ (i - m) - 1 = 0
          BY <1>3, <2>2, <4>1
        <5> QED BY <1>1, <1>2, <5>1 DEF Runs
      <4>2. CASE i - 1 # m
        <5>1. i - 1 > m /\ i - 1 \in 0 .. Len(both) /\ (i - 1) - m = (i - m) - 1
          BY <1>3, <2>2, <4>2
        <5> QED BY <1>3, <5>1
      <4> QED BY <4>1, <4>2
    <3>3. g[i - m] = [g[(i - m) - 1] EXCEPT ![RowOf(s[i - m])] = Applied(@, s[i - m])]
      BY <1>2, <3>1 DEF Runs
    <3> QED BY <3>1, <3>2, <3>3
  <2>3. i <= m \/ i > m
    BY <1>3
  <2> HIDE DEF f
  <2> QED BY <2>1, <2>2, <2>3
<1>7. f[Len(both)] = u
  <2>1. CASE n = 0
    <3>1. f[Len(both)] = h[m]
      BY <1>3, <2>1
    <3> QED BY <1>1, <1>2, <2>1, <3>1 DEF Runs
  <2>2. CASE n # 0
    <3>1. Len(both) > m /\ Len(both) - m = n /\ Len(both) \in 0 .. Len(both)
      BY <1>3, <2>2
    <3>2. f[Len(both)] = g[n]
      BY <1>3, <3>1
    <3> QED BY <1>2, <3>2
  <2> QED BY <2>1, <2>2
<1>8. Runs(f, base, both)
  <2> HIDE DEF f
  <2> QED BY <1>4, <1>5, <1>6 DEF Runs
<1> QED BY <1>7, <1>8 DEF Result

\* The first operation may run before the others.
LEMMA ResultOfTail ==
  ASSUME NEW base \in [RowIds -> RowStates], NEW q \in Seq(Operations), q # <<>>,
         NEW t, Result(t, base, q)
  PROVE  Result(t, [base EXCEPT ![RowOf(Head(q))] = Applied(@, Head(q))], Tail(q))
<1>1. PICK h : Runs(h, base, q) /\ t = h[Len(q)]
  BY DEF Result
<1> DEFINE n == Len(q) - 1
           f == [i \in 0 .. n |-> h[i + 1]]
<1>2. /\ n \in Nat /\ Len(Tail(q)) = n /\ Head(q) = q[1] /\ n + 1 = Len(q)
      /\ \A i \in 1 .. n : Tail(q)[i] = q[i + 1]
  OBVIOUS
<1>3. f \in [0 .. n -> [RowIds -> RowStates]]
  <2>1. \A i \in 0 .. Len(q) : h[i] \in [RowIds -> RowStates]
    BY <1>1 DEF Runs
  <2> HIDE DEF n
  <2> QED BY <1>2, <2>1
<1>4. f[0] = [base EXCEPT ![RowOf(Head(q))] = Applied(@, Head(q))]
  <2>1. f[0] = h[1] /\ 1 \in 1 .. Len(q)
    BY <1>2
  <2>2. h[1] = [h[1 - 1] EXCEPT ![RowOf(q[1])] = Applied(@, q[1])]
    BY <1>1, <2>1 DEF Runs
  <2>3. h[1 - 1] = base
    BY <1>1 DEF Runs
  <2> QED BY <1>2, <2>1, <2>2, <2>3
<1>5. ASSUME NEW i \in 1 .. n
      PROVE  f[i] = [f[i - 1] EXCEPT ![RowOf(Tail(q)[i])] = Applied(@, Tail(q)[i])]
  <2>1. i + 1 \in 1 .. Len(q) /\ (i + 1) - 1 = i /\ f[i] = h[i + 1] /\ f[i - 1] = h[i]
    BY <1>2
  <2>2. h[i + 1] = [h[i] EXCEPT ![RowOf(q[i + 1])] = Applied(@, q[i + 1])]
    BY <1>1, <2>1 DEF Runs
  <2> QED BY <1>2, <2>1, <2>2
<1>6. f[n] = t
  BY <1>1, <1>2
<1>7. Runs(f, [base EXCEPT ![RowOf(Head(q))] = Applied(@, Head(q))], Tail(q))
  <2> HIDE DEF f, n
  <2> QED BY <1>2, <1>3, <1>4, <1>5 DEF Runs
<1> QED BY <1>2, <1>6, <1>7 DEF Result

\* Operations on different alerts: each finds the row as it was.
LEMMA ResultApart ==
  ASSUME NEW base \in [RowIds -> RowStates], NEW q \in Seq(Operations),
         NEW t, Result(t, base, q),
         \A i \in 1 .. Len(q) : RowOf(q[i]) \in RowIds,
         \A i, j \in 1 .. Len(q) : RowOf(q[i]) = RowOf(q[j]) => i = j
  PROVE  /\ \A j \in 1 .. Len(q) : t[RowOf(q[j])] = Applied(base[RowOf(q[j])], q[j])
         /\ \A a \in RowIds : (\A j \in 1 .. Len(q) : RowOf(q[j]) # a) => t[a] = base[a]
<1>1. PICK h : Runs(h, base, q) /\ t = h[Len(q)]
  BY DEF Result
<1> DEFINE Row(i) == RowOf(q[i])
           Known(n) == \A j \in 1 .. Len(q) :
                         h[n][Row(j)] = IF j <= n THEN Applied(base[Row(j)], q[j])
                                                  ELSE base[Row(j)]
           Rest(n) == \A a \in RowIds : (\A j \in 1 .. Len(q) : Row(j) # a) => h[n][a] = base[a]
           T == {n \in 0 .. Len(q) : Known(n) /\ Rest(n)}
<1>2. Len(q) \in Nat
  OBVIOUS
<1>3. 0 \in T
  <2>1. h[0] = base /\ \A j \in 1 .. Len(q) : ~ (j <= 0)
    BY <1>1 DEF Runs
  <2>2. Known(0) /\ Rest(0)
    BY <2>1
  <2> QED BY <1>2, <2>2
<1>4. ASSUME NEW n \in 0 .. (Len(q) - 1), n \in T PROVE n + 1 \in T
  <2>1. n + 1 \in 1 .. Len(q) /\ n + 1 \in 0 .. Len(q) /\ n \in 0 .. Len(q) /\ (n + 1) - 1 = n
    BY <1>2
  <2>2. h[n + 1] = [h[n] EXCEPT ![Row(n + 1)] = Applied(@, q[n + 1])]
    BY <1>1, <2>1 DEF Runs
  <2>3. h[n] \in [RowIds -> RowStates]
    BY <1>1, <2>1 DEF Runs
  <2>4. Known(n) /\ Rest(n)
    BY <1>4
  <2>5. Known(n + 1)
    <3> SUFFICES ASSUME NEW j \in 1 .. Len(q)
                 PROVE  h[n + 1][Row(j)] = IF j <= n + 1 THEN Applied(base[Row(j)], q[j])
                                                         ELSE base[Row(j)]
      OBVIOUS
    <3>1. CASE j = n + 1
      <4>1. h[n][Row(j)] = base[Row(j)]
        BY <1>2, <2>4, <3>1
      <4>2. h[n + 1][Row(j)] = Applied(h[n][Row(j)], q[j])
        BY <2>2, <2>3, <3>1
      <4> QED BY <1>2, <3>1, <4>1, <4>2
    <3>2. CASE j # n + 1
      <4>1. Row(j) # Row(n + 1)
        BY <2>1, <3>2
      <4>2. h[n + 1][Row(j)] = h[n][Row(j)]
        BY <2>2, <2>3, <4>1
      <4>3. (j <= n + 1) <=> (j <= n)
        BY <1>2, <3>2
      <4> HIDE DEF Row
      <4> QED BY <2>4, <4>2, <4>3
    <3> QED BY <3>1, <3>2
  <2>6. Rest(n + 1)
    <3> SUFFICES ASSUME NEW a \in RowIds, \A j \in 1 .. Len(q) : Row(j) # a
                 PROVE  h[n + 1][a] = base[a]
      OBVIOUS
    <3>1. Row(n + 1) # a /\ h[n][a] = base[a]
      BY <2>1, <2>4
    <3> QED BY <2>2, <2>3, <3>1
  <2> HIDE DEF Known, Rest
  <2> QED BY <2>1, <2>5, <2>6
<1>5. \A n \in 0 .. Len(q) : n \in T
  <2> HIDE DEF T
  <2> QED BY <1>2, <1>3, <1>4, UpTo
<1>6. Known(Len(q)) /\ Rest(Len(q))
  <2> HIDE DEF Known, Rest
  <2> QED BY <1>2, <1>5
<1> QED BY <1>1, <1>2, <1>6

\* An alert without an operation keeps its row.
LEMMA ResultElsewhere ==
  ASSUME NEW base \in [RowIds -> RowStates], NEW q \in Seq(Operations),
         NEW t, Result(t, base, q), NEW a \in RowIds, \A j \in 1 .. Len(q) : RowOf(q[j]) # a
  PROVE  t[a] = base[a]
<1>1. PICK h : Runs(h, base, q) /\ t = h[Len(q)]
  BY DEF Result
<1> DEFINE T == {n \in 0 .. Len(q) : h[n][a] = base[a]}
<1>2. Len(q) \in Nat
  OBVIOUS
<1>3. 0 \in T
  BY <1>1, <1>2 DEF Runs
<1>4. ASSUME NEW n \in 0 .. (Len(q) - 1), n \in T PROVE n + 1 \in T
  <2>1. n + 1 \in 1 .. Len(q) /\ n + 1 \in 0 .. Len(q) /\ n \in 0 .. Len(q) /\ (n + 1) - 1 = n
    BY <1>2
  <2>2. h[n + 1] = [h[n] EXCEPT ![RowOf(q[n + 1])] = Applied(@, q[n + 1])]
    BY <1>1, <2>1 DEF Runs
  <2>3. h[n] \in [RowIds -> RowStates] /\ h[n][a] = base[a] /\ RowOf(q[n + 1]) # a
    BY <1>1, <1>4, <2>1 DEF Runs
  <2>4. h[n + 1][a] = base[a]
    BY <2>2, <2>3
  <2> QED BY <2>1, <2>4
<1>5. \A n \in 0 .. Len(q) : n \in T
  <2> HIDE DEF T
  <2> QED BY <1>2, <1>3, <1>4, UpTo
<1> QED BY <1>1, <1>2, <1>5

\* One more operation changes one row more.
LEMMA ResultAppended ==
  ASSUME NEW base \in [RowIds -> RowStates], NEW q \in Seq(Operations), NEW o \in Operations,
         NEW t \in [RowIds -> RowStates], Result(t, base, q)
  PROVE  Result([t EXCEPT ![RowOf(o)] = Applied(@, o)], base, q \o <<o>>)
<1> DEFINE u == [t EXCEPT ![RowOf(o)] = Applied(@, o)]
           h == [i \in 0 .. 1 |-> IF i = 0 THEN t ELSE u]
<1>1. u \in [RowIds -> RowStates]
  BY RunTyped
<1> HIDE DEF u
<1>2. <<o>> \in Seq(Operations) /\ Len(<<o>>) = 1 /\ <<o>>[1] = o
  OBVIOUS
<1>3. Runs(h, t, <<o>>)
  <2>1. h \in [0 .. 1 -> [RowIds -> RowStates]] /\ h[0] = t /\ h[1] = u
    BY <1>1
  <2>2. \A i \in 1 .. 1 : i = 1 /\ i - 1 = 0
    OBVIOUS
  <2> HIDE DEF h
  <2> QED BY <1>2, <2>1, <2>2 DEF Runs, u
<1>4. Result(u, t, <<o>>)
  BY <1>2, <1>3 DEF Result
<1> QED BY <1>2, <1>4, ResultJoins DEF u

\* Rows, and operations, that differ at most in their times.
Same(r, x) == r.status = x.status /\ r.fired = x.fired /\ (r = NoRow <=> x = NoRow)
SameOp(o, p) == /\ o.op = p.op /\ RowOf(o) = RowOf(p)
                /\ o.status = p.status /\ o.fired = p.fired

\* Rows that differ in their times only still do after operations that do.
LEMMA SameApplied ==
  ASSUME NEW r \in RowStates, NEW x \in RowStates, NEW o \in Operations, NEW p \in Operations,
         Same(r, x), SameOp(o, p)
  PROVE  Same(Applied(r, o), Applied(x, p))
<1>1. \A y : y.lastFired # NoTime \/ y.status # "none" => y # NoRow
  BY DEF NoRow
<1>2. 0 # NoTime /\ o.at # NoTime /\ p.at # NoTime
  BY Ages DEF Operations
<1>3. o.op \in {"upsert", "refire", "resolve", "ack"} /\ p.op = o.op
  BY DEF Operations, SameOp
<1>4. Same(Upserted(r, o), Upserted(x, p))
  <2>1. Upserted(r, o).lastFired = 0 /\ Upserted(x, p).lastFired = 0
    BY DEF Upserted
  <2>2. Upserted(r, o) # NoRow /\ Upserted(x, p) # NoRow
    BY <1>1, <1>2, <2>1
  <2>3. /\ Upserted(r, o).status = Upserted(x, p).status
        /\ Upserted(r, o).fired = Upserted(x, p).fired
    BY DEF Same, SameOp, Upserted
  <2> QED BY <2>2, <2>3 DEF Same
<1>5. CASE o.op = "upsert"
  BY <1>3, <1>4, <1>5 DEF Applied
<1>6. CASE o.op = "refire"
  <2>1. Applied(r, o) = RefireRecorded(r, o) /\ Applied(x, p) = RefireRecorded(x, p)
    BY <1>3, <1>6 DEF Applied
  <2>2. CASE r = NoRow
    BY <1>4, <2>1, <2>2 DEF Same, RefireRecorded
  <2>3. CASE r # NoRow
    <3>1. /\ Applied(r, o) = [r EXCEPT !.fired = Greater(@, o.fired), !.lastFired = o.at]
          /\ Applied(x, p) = [x EXCEPT !.fired = Greater(@, p.fired), !.lastFired = p.at]
      BY <2>1, <2>3 DEF Same, RefireRecorded
    <3>2. Applied(r, o).lastFired = o.at /\ Applied(x, p).lastFired = p.at
      BY <3>1 DEF RowStates
    <3>3. Applied(r, o) # NoRow /\ Applied(x, p) # NoRow
      BY <1>1, <1>2, <3>2
    <3>4. /\ Applied(r, o).status = Applied(x, p).status
          /\ Applied(r, o).fired = Applied(x, p).fired
      BY <3>1 DEF RowStates, Same, SameOp
    <3> QED BY <3>3, <3>4 DEF Same
  <2> QED BY <2>2, <2>3
<1>7. ASSUME NEW status \in {"resolved", "acknowledged"}
      PROVE  Same(StatusSet(r, status), StatusSet(x, status))
  <2>1. CASE r = NoRow \/ (status = "acknowledged" /\ r.status = "resolved")
    BY <2>1 DEF StatusSet, Same
  <2>2. CASE ~ (r = NoRow \/ (status = "acknowledged" /\ r.status = "resolved"))
    <3>1. /\ StatusSet(r, status) = [r EXCEPT !.status = status]
          /\ StatusSet(x, status) = [x EXCEPT !.status = status]
      BY <2>2 DEF StatusSet, Same
    <3>2. StatusSet(r, status).status = status /\ StatusSet(x, status).status = status
      BY <3>1 DEF RowStates
    <3>3. StatusSet(r, status) # NoRow /\ StatusSet(x, status) # NoRow
      BY <1>1, <1>7, <3>2
    <3>4. StatusSet(r, status).fired = StatusSet(x, status).fired
      BY <3>1 DEF RowStates, Same
    <3> QED BY <3>2, <3>3, <3>4 DEF Same
  <2> QED BY <2>1, <2>2
<1>8. CASE o.op = "resolve"
  BY <1>3, <1>7, <1>8 DEF Applied
<1>9. CASE o.op = "ack"
  BY <1>3, <1>7, <1>9 DEF Applied
<1> QED BY <1>3, <1>5, <1>6, <1>8, <1>9

\* So do the results of whole queues: time passing changes neither status nor count.
LEMMA SameResult ==
  ASSUME NEW base \in [RowIds -> RowStates], NEW q \in Seq(Operations), NEW t, Result(t, base, q),
         NEW other \in [RowIds -> RowStates], NEW p \in Seq(Operations), NEW u, Result(u, other, p),
         \A a \in RowIds : Same(base[a], other[a]),
         Len(p) = Len(q), \A i \in 1 .. Len(q) : SameOp(q[i], p[i])
  PROVE  \A a \in RowIds : Same(t[a], u[a])
<1>1. PICK h : Runs(h, base, q) /\ t = h[Len(q)]
  BY DEF Result
<1>2. PICK g : Runs(g, other, p) /\ u = g[Len(q)]
  BY DEF Result
<1> DEFINE Alike(n) == \A a \in RowIds : Same(h[n][a], g[n][a])
           T == {n \in 0 .. Len(q) : Alike(n)}
<1>3. Len(q) \in Nat
  OBVIOUS
<1>4. 0 \in T
  BY <1>1, <1>2, <1>3 DEF Runs
<1>5. ASSUME NEW n \in 0 .. (Len(q) - 1), n \in T PROVE n + 1 \in T
  <2>1. n + 1 \in 1 .. Len(q) /\ n + 1 \in 0 .. Len(q) /\ n \in 0 .. Len(q) /\ (n + 1) - 1 = n
    BY <1>3
  <2> DEFINE o == q[n + 1]
             c == p[n + 1]
  <2>2. /\ h[n + 1] = [h[n] EXCEPT ![RowOf(o)] = Applied(@, o)]
        /\ g[n + 1] = [g[n] EXCEPT ![RowOf(c)] = Applied(@, c)]
    BY <1>1, <1>2, <2>1 DEF Runs
  <2>3. h[n] \in [RowIds -> RowStates] /\ g[n] \in [RowIds -> RowStates]
    BY <1>1, <1>2, <2>1 DEF Runs
  <2>4. o \in Operations /\ c \in Operations /\ SameOp(o, c)
    BY <2>1
  <2>5. Alike(n)
    BY <1>5
  <2> HIDE DEF o, c
  <2>6. ASSUME NEW a \in RowIds PROVE Same(h[n + 1][a], g[n + 1][a])
    <3>1. CASE a = RowOf(o)
      <4>1. h[n + 1][a] = Applied(h[n][a], o) /\ g[n + 1][a] = Applied(g[n][a], c)
        BY <2>2, <2>3, <2>4, <3>1 DEF SameOp
      <4>2. h[n][a] \in RowStates /\ g[n][a] \in RowStates /\ Same(h[n][a], g[n][a])
        BY <2>3, <2>5
      <4> QED BY <2>4, <4>1, <4>2, SameApplied
    <3>2. CASE a # RowOf(o)
      <4>1. h[n + 1][a] = h[n][a] /\ g[n + 1][a] = g[n][a]
        BY <2>2, <2>3, <2>4, <3>2 DEF SameOp
      <4> QED BY <2>5, <4>1
    <3> QED BY <3>1, <3>2
  <2> QED BY <2>1, <2>6
<1>6. \A n \in 0 .. Len(q) : n \in T
  <2> HIDE DEF T
  <2> QED BY <1>3, <1>4, <1>5, UpTo
<1>7. Alike(Len(q))
  <2> HIDE DEF Alike
  <2> QED BY <1>3, <1>6
<1> QED BY <1>1, <1>2, <1>7

-----------------------------------------------------------------------------
(* What the handlers do to alerts and queue *)

\* The keys a handler opens have no alert, those it re-fires or resolves have one.
Clean(open, refire, resolve) ==
  /\ open \subseteq Keys /\ refire \subseteq Keys /\ resolve \subseteq Keys
  /\ \A k \in open : ~ IsActive(k)
  /\ \A k \in refire \cup resolve : IsActive(k)
  /\ refire \cap resolve = {}

Changes ==
  \/ NoChange
  \/ \E open, refire, resolve, touch, excused, lost :
       Clean(open, refire, resolve) /\ Change(open, refire, resolve, touch, excused, lost)

\* What all messages of edges and the sweep leave alone.
Handled == up /\ up' = up /\ rows' = rows /\ failures' = failures /\ Changes

\* A reported alert opens or re-fires by one Change, or changes nothing.
LEMMA RaisedChanges ==
  ASSUME TypeOK, NEW k \in TtlKeys, RaiseReported(k)
  PROVE  Changes
<1>1. k \in Keys
  BY KeySets
<1>2. CASE IsActive(k)
  <2>1. PICK refire \in SUBSET {k} : Change({}, refire, {}, {k}, {}, {})
    BY <1>2 DEF RaiseReported
  <2>2. Clean({}, refire, {})
    BY <1>1, <1>2 DEF Clean
  <2> QED BY <2>1, <2>2 DEF Changes
<1>3. CASE ~ IsActive(k)
  <2>1. Clean({k}, {}, {})
    BY <1>1, <1>3 DEF Clean
  <2> QED BY <1>3, <2>1 DEF RaiseReported, Changes
<1> QED BY <1>2, <1>3

\* No rule both holds and is cleared for a device.
LEMMA HoldingApart ==
  ASSUME NEW d \in Devices, NEW x, NEW sweep, ProcessTyped
  PROVE  KeysOf(Holding(x, sweep), d) \cap KeysOf(Cleared(x), d) = {}
<1>1. \A r \in Holding(x, sweep) : r \notin Cleared(x)
  BY DEF Holding, Evaluated
<1>2. \A R : \A k \in KeysOf(R, d) : k[1] \in R
  BY RuleSets
<1> QED BY <1>1, <1>2

\* The report of a device is one Change with disjoint sets of keys.
LEMMA StatusUpdateChanges ==
  ASSUME TypeOK, NEW d \in Devices, NEW report \in Reports, DeviceStatusUpdate(d, report)
  PROVE  Handled
<1> USE DEF TypeOK
<1> DEFINE known == devices[d]
           x == Context(d, report.status, IF known.known THEN known.status ELSE NoStatus,
                        report.reading, 0)
           holding == KeysOf(Holding(x, FALSE), d)
           over == KeysOf(Cleared(x), d)
           healed == IF report.status = Healthy THEN EdgeMetrics \X {d} ELSE {}
           back == {OfflineKey(EdgeOf[d])}
           resolve == Active(over \cup healed \cup back)
           open == {k \in Unheld(holding) : BelowCap(k)}
<1>1. Change(open, RuleRefires(holding), resolve, {}, back, {})
  BY DEF DeviceStatusUpdate
<1>2. holding \subseteq RuleKeys /\ over \subseteq RuleKeys /\ holding \cap over = {}
  <2>1. \A y : /\ KeysOf(Holding(y, FALSE), d) \subseteq RuleKeys
               /\ KeysOf(Cleared(y), d) \subseteq RuleKeys
               /\ KeysOf(Holding(y, FALSE), d) \cap KeysOf(Cleared(y), d) = {}
    BY RuleSets, HoldingApart
  <2> HIDE DEF x
  <2> QED BY <2>1
<1>3. healed \subseteq TtlKeys /\ back \subseteq OfflineKeys
  BY KeySets, ConstantsAssumption DEF EdgeKeys
<1> HIDE DEF holding, over, healed, back
<1>4. Clean(open, RuleRefires(holding), resolve)
  <2>1. RuleRefires(holding) \subseteq holding /\ resolve \subseteq over \cup healed \cup back
    BY Candidates
  <2>2. open \subseteq holding
    BY Candidates
  <2>3. RuleRefires(holding) \cap resolve = {}
    BY <1>2, <1>3, <2>1, RuleKeysApart
  <2>4. open \subseteq Keys /\ RuleRefires(holding) \subseteq Keys /\ resolve \subseteq Keys
    BY <1>2, <1>3, <2>1, <2>2, KeySets
  <2> QED BY <2>3, <2>4, Candidates DEF Clean
<1>5. Changes
  <2> HIDE DEF open, resolve
  <2> QED BY <1>1, <1>4 DEF Changes
<1> QED BY <1>5 DEF DeviceStatusUpdate, Handled

\* So is a sweep.
LEMMA SweepChanges ==
  ASSUME TypeOK, Sweep
  PROVE  Handled
<1> USE DEF TypeOK
<1>1. up /\ UNCHANGED <<up, rows, failures>>
  BY SweepParts
<1>2. PICK holding, ended, cleared, fresh, clock : \E opening \in SUBSET Unheld(holding) :
              /\ holding \subseteq RuleKeys
              /\ cleared \subseteq RuleKeys /\ \A k \in cleared : IsActive(k)
              /\ holding \cap cleared = {}
              /\ fresh \subseteq Edges
              /\ Swept(holding, ended, cleared, fresh, clock, opening)
  BY SweepParts
<1>3. PICK opening \in SUBSET Unheld(holding) :
         Swept(holding, ended, cleared, fresh, clock, opening)
  BY <1>2
<1> DEFINE back == {OfflineKey(e) : e \in fresh}
           silent == {OfflineKey(e) : e \in Silent(clock, fresh)}
           open == opening \cup silent
           resolve == cleared \cup Expired \cup Active(back)
           stale == {d \in Devices : /\ devices[d].known /\ d \notin Alerted(resolve, opening)
                                     /\ devices[d].seen > Retention}
           dropped == {k \in DeviceKeys : k[2] \in stale \/ hold[k] > Retention}
<1>4. Change(open, RuleRefires(holding), resolve, {}, back, dropped)
  BY <1>3 DEF Swept
<1>5. silent \subseteq OfflineKeys /\ \A k \in silent : ~ IsActive(k)
  <2>1. \A e \in Silent(clock, fresh) : e \in Edges /\ ~ IsActive(OfflineKey(e))
    BY DEF Silent
  <2> QED BY <2>1, KeySets
<1>6. Expired \subseteq TtlKeys /\ \A k \in Expired : IsActive(k)
  BY Candidates, KeySets DEF Expired
<1>7. Active(back) \subseteq OfflineKeys /\ \A k \in Active(back) : IsActive(k)
  BY <1>2, Candidates, KeySets
<1> HIDE DEF silent, back
<1>8. Clean(open, RuleRefires(holding), resolve)
  <2>1. RuleRefires(holding) \subseteq holding /\ opening \subseteq holding
    BY Candidates
  <2>2. RuleRefires(holding) \cap resolve = {}
    BY <1>2, <1>6, <1>7, <2>1, RuleKeysApart
  <2>3. open \subseteq Keys /\ RuleRefires(holding) \subseteq Keys /\ resolve \subseteq Keys
    BY <1>2, <1>5, <1>6, <1>7, <2>1, KeySets
  <2>4. \A k \in open : ~ IsActive(k)
    BY <1>5, Candidates
  <2>5. \A k \in RuleRefires(holding) \cup resolve : IsActive(k)
    BY <1>2, <1>6, <1>7, Candidates
  <2> HIDE DEF open, resolve
  <2> QED BY <2>2, <2>3, <2>4, <2>5 DEF Clean
<1>9. Changes
  <2> HIDE DEF open, resolve, dropped
  <2> QED BY <1>4, <1>8 DEF Changes
<1> QED BY <1>1, <1>9 DEF Handled

\* So is every other message.
LEMMA MessagesChange ==
  ASSUME TypeOK
  PROVE  /\ \A d \in Devices, m \in EdgeMetrics : IngestDeviceAlert(m, d) => Handled
         /\ \A d \in Devices, t \in PredTypes, f \in Forecasts : PredictionResult(t, d, f) => Handled
         /\ \A d \in Devices : DeviceRemoved(d) => Handled
         /\ \A e \in Edges : EdgeSeen(e) \/ EdgeDisconnected(e) => Handled
<1>1. ASSUME NEW d \in Devices, NEW m \in EdgeMetrics, IngestDeviceAlert(m, d) PROVE Handled
  <2>1. <<m, d>> \in TtlKeys
    BY DEF TtlKeys, EdgeKeys
  <2> QED BY <1>1, <2>1, RaisedChanges DEF IngestDeviceAlert, Handled
<1>2. ASSUME NEW d \in Devices, NEW t \in PredTypes, NEW f \in Forecasts, PredictionResult(t, d, f)
      PROVE  Handled
  <2>1. <<t, d>> \in TtlKeys
    BY DEF TtlKeys, PredKeys
  <2>2. RaiseReported(<<t, d>>) \/ NoChange
    BY <1>2 DEF PredictionResult
  <2>3. Changes
    BY <2>1, <2>2, RaisedChanges DEF Changes
  <2> QED BY <1>2, <2>3 DEF PredictionResult, Handled
<1>3. ASSUME NEW d \in Devices, DeviceRemoved(d) PROVE Handled
  <2> DEFINE mine == KeysOfDevice(d)
  <2>1. mine \subseteq Keys
    BY KeySets DEF KeysOfDevice
  <2>2. Change({}, {}, Active(mine), {}, mine, {})
    BY <1>3 DEF DeviceRemoved
  <2> HIDE DEF mine
  <2>3. Clean({}, {}, Active(mine))
    BY <2>1, Candidates DEF Clean
  <2> QED BY <1>3, <2>2, <2>3 DEF DeviceRemoved, Handled, Changes
<1>4. ASSUME NEW e \in Edges, EdgeSeen(e) PROVE Handled
  <2> DEFINE back == {OfflineKey(e)}
  <2>1. back \subseteq Keys
    BY KeySets
  <2>2. Change({}, {}, Active(back), {}, back, {})
    BY <1>4 DEF EdgeSeen
  <2> HIDE DEF back
  <2>3. Clean({}, {}, Active(back))
    BY <2>1, Candidates DEF Clean
  <2> QED BY <1>4, <2>2, <2>3 DEF EdgeSeen, Handled, Changes
<1>5. ASSUME NEW e \in Edges, EdgeDisconnected(e) PROVE Handled
  BY <1>5 DEF EdgeDisconnected, Handled, Changes
<1> QED BY <1>1, <1>2, <1>3, <1>4, <1>5

-----------------------------------------------------------------------------
(* The alerts table follows *)

\* Ids are given in order: nothing in memory, in the queue or in the table is
\* ahead of the last alert opened for its key.
IdsInOrder ==
  HasDb => /\ \A k \in Keys : active[k].n <= opened[k]
           /\ \A i \in 1 .. Len(queue) : queue[i].n <= opened[queue[i].key]
           /\ \A a \in RowIds : a[2] > opened[a[1]] => rows[a] = NoRow

AliveStatus == \A k \in Keys : IsActive(k) => active[k].status \in {"firing", "acknowledged"}

\* Without a database nothing is queued; a hub that is down has nothing.
Idle == /\ ~ HasDb => queue = <<>>
        /\ ~ up => queue = <<>> /\ \A k \in Keys : ~ IsActive(k)

\* The drained table is a table.
LEMMA DrainedTyped ==
  ASSUME StoreTyped
  PROVE  Drained \in [RowIds -> RowStates]
<1>1. rows \in [RowIds -> RowStates] /\ queue \in Seq(Operations)
  BY DEF StoreTyped
<1> QED BY <1>1, DrainedResult, OneResult

\* Drained is the result of the queue on the rows.
LEMMA DrainedAlways == StoreTyped => Result(Drained, rows, queue)
  BY DrainedResult

\* The same, of the next state.
LEMMA DrainedResultNext == (StoreTyped => Result(Drained, rows, queue))'
  BY DrainedAlways, PTL

\* Any result of the next queue on the next table is the next drained table.
LEMMA DrainedNext ==
  ASSUME StoreTyped', NEW t, Result(t, rows', queue')
  PROVE  Drained' = t
<1>1. Result(Drained', rows', queue')
  BY DrainedResultNext DEF Result, Runs, RowOf
<1>2. rows' \in [RowIds -> RowStates] /\ queue' \in Seq(Operations)
  BY DEF StoreTyped
<1> QED BY <1>1, <1>2, OneResult

\* One operation is queued.
LEMMA DrainedAppended ==
  ASSUME StoreTyped, StoreTyped', NEW o \in Operations, queue' = queue \o <<o>>, rows' = rows
  PROVE  Drained' = [Drained EXCEPT ![RowOf(o)] = Applied(@, o)]
<1>1. rows \in [RowIds -> RowStates] /\ queue \in Seq(Operations)
  BY DEF StoreTyped
<1>2. Result([Drained EXCEPT ![RowOf(o)] = Applied(@, o)], rows, queue \o <<o>>)
  BY <1>1, DrainedResult, DrainedTyped, ResultAppended
<1> QED BY <1>2, DrainedNext

\* Operations on different alerts are queued.
LEMMA DrainedApart ==
  ASSUME StoreTyped, StoreTyped', NEW s \in Seq(Operations), queue' = queue \o s, rows' = rows,
         \A i \in 1 .. Len(s) : RowOf(s[i]) \in RowIds,
         \A i, j \in 1 .. Len(s) : RowOf(s[i]) = RowOf(s[j]) => i = j
  PROVE  /\ \A j \in 1 .. Len(s) : Drained'[RowOf(s[j])] = Applied(Drained[RowOf(s[j])], s[j])
         /\ \A a \in RowIds : (\A j \in 1 .. Len(s) : RowOf(s[j]) # a) => Drained'[a] = Drained[a]
<1>1. rows \in [RowIds -> RowStates] /\ queue \in Seq(Operations)
  BY DEF StoreTyped
<1>2. PICK t : Result(t, Drained, s)
  BY DrainedTyped, OneResult
<1>3. Result(t, rows, queue \o s)
  BY <1>1, <1>2, DrainedResult, ResultJoins
<1>4. Drained' = t
  BY <1>3, DrainedNext
<1>5. Drained \in [RowIds -> RowStates]
  BY DrainedTyped
<1>6. /\ \A j \in 1 .. Len(s) : t[RowOf(s[j])] = Applied(Drained[RowOf(s[j])], s[j])
      /\ \A a \in RowIds : (\A j \in 1 .. Len(s) : RowOf(s[j]) # a) => t[a] = Drained[a]
  BY <1>2, <1>5, ResultApart, Z3
<1> QED BY <1>4, <1>6

\* All members of a finite set, in some order.
LEMMA OrderingHasAll ==
  ASSUME NEW S, IsFiniteSet(S), NEW s \in Orderings(S)
  PROVE  /\ Cardinality(S) \in Nat /\ s \in [1 .. Cardinality(S) -> S]
         /\ \A o \in S : \E i \in 1 .. Cardinality(S) : s[i] = o
         /\ \A i, j \in 1 .. Cardinality(S) : s[i] = s[j] => i = j
<1> DEFINE n == Cardinality(S)
<1>1. n \in Nat
  BY FS_CardinalityType
<1>2. s \in [1 .. n -> S] /\ \A i, j \in 1 .. n : s[i] = s[j] => i = j
  BY DEF Orderings
<1> HIDE DEF n
<1>3. s \in Injection(1 .. n, S)
  BY <1>2 DEF Injection, IsInjective
<1>4. IsFiniteSet(1 .. n) /\ Cardinality(1 .. n) = n
  BY <1>1, FS_Interval
<1>5. s \in Surjection(1 .. n, S)
  BY <1>3, <1>4, FS_Injection DEF n
<1> QED BY <1>1, <1>2, <1>5 DEF Surjection, n

Writes(open, refire, resolve) ==
  {InsertOp(k) : k \in open} \cup {RefireOp(k) : k \in refire}
    \cup {ResolveOp(k, active[k].n) : k \in resolve}

\* The writes of a handler are for different alerts: those opened have an id of
\* their own, those that re-fire do not end.
LEMMA WritesApart ==
  ASSUME TypeOK, HasDb, NEW open, NEW refire, NEW resolve, Clean(open, refire, resolve),
         \A k \in open : HasNextId(k)
  PROVE  /\ \A o \in Writes(open, refire, resolve) : o \in Operations /\ RowOf(o) \in RowIds
         /\ \A o, p \in Writes(open, refire, resolve) : RowOf(o) = RowOf(p) => o = p
         /\ IsFiniteSet(Writes(open, refire, resolve))
<1> USE DEF TypeOK
<1> DEFINE Inserts == {InsertOp(k) : k \in open}
           Refires == {RefireOp(k) : k \in refire}
           Resolves == {ResolveOp(k, active[k].n) : k \in resolve}
<1>1. \A k \in open : InsertOp(k) \in Operations /\ RowOf(InsertOp(k)) = <<k, NextId(k)>>
  BY WritesTyped DEF Clean, InsertOp, Op, RowOf
<1>2. \A k \in refire : RefireOp(k) \in Operations /\ RowOf(RefireOp(k)) = <<k, active[k].n>>
  BY WritesTyped DEF Clean, RefireOp, Op, RowOf
<1>3. \A k \in resolve : /\ ResolveOp(k, active[k].n) \in Operations
                         /\ RowOf(ResolveOp(k, active[k].n)) = <<k, active[k].n>>
  BY WritesTyped, ActiveIds DEF Clean, ResolveOp, Op, RowOf
<1>4. \A o \in Operations : RowOf(o) \in RowIds
  BY DEF Operations, RowOf, RowIds, Ids
<1>5. /\ \A k \in open : k \notin refire /\ k \notin resolve
      /\ \A k \in refire : k \notin resolve
  BY DEF Clean
<1>6. IsFiniteSet(open) /\ IsFiniteSet(refire) /\ IsFiniteSet(resolve)
  BY FiniteKeys, FS_Subset DEF Clean
<1>7. IsFiniteSet(Inserts)
  <2>1. [k \in open |-> InsertOp(k)] \in Surjection(open, Inserts)
    BY DEF Surjection
  <2> QED BY <1>6, <2>1, FS_Surjection
<1>8. IsFiniteSet(Refires)
  <2>1. [k \in refire |-> RefireOp(k)] \in Surjection(refire, Refires)
    BY DEF Surjection
  <2> QED BY <1>6, <2>1, FS_Surjection
<1>9. IsFiniteSet(Resolves)
  <2>1. [k \in resolve |-> ResolveOp(k, active[k].n)] \in Surjection(resolve, Resolves)
    BY DEF Surjection
  <2> QED BY <1>6, <2>1, FS_Surjection
<1>10. IsFiniteSet(Inserts \cup Refires \cup Resolves)
  BY <1>7, <1>8, <1>9, FS_Union
<1>11. ASSUME NEW o \in Inserts \cup Refires \cup Resolves
       PROVE  /\ o \in Operations
              /\ \/ \E k \in open : o = InsertOp(k) /\ RowOf(o) = <<k, NextId(k)>>
                 \/ \E k \in refire : o = RefireOp(k) /\ RowOf(o) = <<k, active[k].n>>
                 \/ \E k \in resolve : o = ResolveOp(k, active[k].n) /\ RowOf(o) = <<k, active[k].n>>
  BY <1>1, <1>2, <1>3
<1>12. \A o, p \in Inserts \cup Refires \cup Resolves : RowOf(o) = RowOf(p) => o = p
  <2> HIDE DEF Inserts, Refires, Resolves
  <2> QED BY <1>5, <1>11
<1>13. Writes(open, refire, resolve) = Inserts \cup Refires \cup Resolves
  BY DEF Writes
<1> HIDE DEF Inserts, Refires, Resolves
<1> QED BY <1>4, <1>10, <1>11, <1>12, <1>13

\* What a Change appends to the queue: its operations, all of them and nothing else.
LEMMA ChangeQueued ==
  ASSUME TypeOK, HasDb, NEW open, NEW refire, NEW resolve, NEW touch, NEW excused, NEW lost,
         Clean(open, refire, resolve), Change(open, refire, resolve, touch, excused, lost)
  PROVE  \E s \in Seq(Operations) :
           /\ queue' = queue \o s
           /\ \A i \in 1 .. Len(s) : s[i] \in Writes(open, refire, resolve)
           /\ \A o \in Writes(open, refire, resolve) : \E i \in 1 .. Len(s) : s[i] = o
           /\ \A i \in 1 .. Len(s) : RowOf(s[i]) \in RowIds
           /\ \A i, j \in 1 .. Len(s) : RowOf(s[i]) = RowOf(s[j]) => i = j
<1> DEFINE S == Writes(open, refire, resolve)
<1>1. SubmitAll(S) /\ \A k \in open : HasNextId(k)
  BY DEF Change, Writes
<1>2. /\ \A o \in S : o \in Operations /\ RowOf(o) \in RowIds
      /\ \A o, p \in S : RowOf(o) = RowOf(p) => o = p
      /\ IsFiniteSet(S)
  BY <1>1, WritesApart
<1> HIDE DEF S
<1>3. PICK s \in Orderings(S) : Submit(s)
  BY <1>1 DEF SubmitAll
<1>4. queue' = queue \o s
  BY <1>3 DEF Submit
<1>5. /\ Cardinality(S) \in Nat /\ s \in [1 .. Cardinality(S) -> S]
      /\ \A o \in S : \E i \in 1 .. Cardinality(S) : s[i] = o
      /\ \A i, j \in 1 .. Cardinality(S) : s[i] = s[j] => i = j
  BY <1>2, OrderingHasAll
<1>6. s \in Seq(Operations) /\ Len(s) = Cardinality(S)
  BY <1>2, <1>5
<1>7. \A i, j \in 1 .. Len(s) : RowOf(s[i]) = RowOf(s[j]) => i = j
  BY <1>2, <1>5, <1>6
<1> QED BY <1>2, <1>4, <1>5, <1>6, <1>7 DEF S

-----------------------------------------------------------------------------
(* Rows and alerts agree one by one, and a handler keeps that *)

\* The row of the n-th alert of a key, against the key's alert in memory.
RowAgrees(row, alert, n) ==
  /\ IsOpenRow(row) <=> alert.n = n
  /\ alert.n = n => row.status = alert.status /\ row.fired = alert.fired

\* Agreement of table and memory, row by row.
LEMMA AgreesByRow ==
  TableAgrees <=> \A k \in Keys, n \in Ids : RowAgrees(Drained[<<k, n>>], active[k], n)
BY DEF TableAgrees, RowAgrees, Ids

\* The same, of the next state.
LEMMA AgreesByRowNext ==
  TableAgrees' <=> \A k \in Keys, n \in Ids : RowAgrees(Drained'[<<k, n>>], active'[k], n)
BY DEF TableAgrees, RowAgrees, Ids, IsOpenRow

\* An id that was not given yet has no row, not even in the queue.
LEMMA FreshRow ==
  ASSUME TypeOK, HasDb, IdsInOrder, NEW k \in Keys, NEW n \in Ids, n > opened[k]
  PROVE  Drained[<<k, n>>] = NoRow
<1>1. rows \in [RowIds -> RowStates] /\ queue \in Seq(Operations) /\ opened[k] \in Nat
  BY DEF TypeOK, StoreTyped, AlertsTyped
<1>2. <<k, n>> \in RowIds /\ rows[<<k, n>>] = NoRow
  BY DEF RowIds, Ids, IdsInOrder
<1>3. \A j \in 1 .. Len(queue) : RowOf(queue[j]) # <<k, n>>
  <2> SUFFICES ASSUME NEW j \in 1 .. Len(queue), RowOf(queue[j]) = <<k, n>> PROVE FALSE
    OBVIOUS
  <2>1. queue[j].key = k /\ queue[j].n = n
    BY DEF RowOf
  <2>2. n <= opened[k] /\ n \in Nat
    BY <2>1 DEF IdsInOrder, Ids
  <2> QED BY <1>1, <2>2
<1>4. Drained[<<k, n>>] = rows[<<k, n>>]
  BY <1>1, <1>2, <1>3, DrainedResult, ResultElsewhere DEF TypeOK
<1> QED BY <1>2, <1>4

\* The operations of a Change make the rows agree with the alerts it changed.
LEMMA AgreesAfterChange ==
  ASSUME TypeOK, StoreTyped', HasDb, IdsInOrder, TableAgrees, rows' = rows,
         NEW open, NEW refire, NEW resolve, NEW touch, NEW excused, NEW lost,
         Clean(open, refire, resolve), Change(open, refire, resolve, touch, excused, lost)
  PROVE  TableAgrees'
<1> DEFINE W == Writes(open, refire, resolve)
<1>1. PICK s \in Seq(Operations) :
        /\ queue' = queue \o s
        /\ \A i \in 1 .. Len(s) : s[i] \in W
        /\ \A o \in W : \E i \in 1 .. Len(s) : s[i] = o
        /\ \A i \in 1 .. Len(s) : RowOf(s[i]) \in RowIds
        /\ \A i, j \in 1 .. Len(s) : RowOf(s[i]) = RowOf(s[j]) => i = j
  BY ChangeQueued
<1>2. /\ \A j \in 1 .. Len(s) : Drained'[RowOf(s[j])] = Applied(Drained[RowOf(s[j])], s[j])
      /\ \A a \in RowIds : (\A j \in 1 .. Len(s) : RowOf(s[j]) # a) => Drained'[a] = Drained[a]
  BY <1>1, DrainedApart DEF TypeOK
<1>3. \A o \in W : Drained'[RowOf(o)] = Applied(Drained[RowOf(o)], o)
  BY <1>1, <1>2
<1>4. ASSUME NEW o \in W
      PROVE  \/ \E k \in open : o = InsertOp(k) /\ RowOf(o) = <<k, NextId(k)>>
             \/ \E k \in refire : o = RefireOp(k) /\ RowOf(o) = <<k, active[k].n>>
             \/ \E k \in resolve : o = ResolveOp(k, active[k].n) /\ RowOf(o) = <<k, active[k].n>>
  BY DEF Writes, InsertOp, RefireOp, ResolveOp, Op, RowOf
<1>5. /\ \A k \in open : InsertOp(k) \in W /\ RowOf(InsertOp(k)) = <<k, NextId(k)>>
      /\ \A k \in refire : RefireOp(k) \in W /\ RowOf(RefireOp(k)) = <<k, active[k].n>>
      /\ \A k \in resolve : /\ ResolveOp(k, active[k].n) \in W
                            /\ RowOf(ResolveOp(k, active[k].n)) = <<k, active[k].n>>
  BY DEF Writes, InsertOp, RefireOp, ResolveOp, Op, RowOf
<1> HIDE DEF W
<1>6. /\ \A k \in open : k \in Keys /\ k \notin refire /\ k \notin resolve /\ active[k].n = 0
      /\ \A k \in refire : k \in Keys /\ k \notin resolve /\ active[k].n # 0
      /\ \A k \in resolve : k \in Keys /\ active[k].n # 0
  BY DEF Clean, IsActive
<1>7. /\ \A k \in open : active'[k] = Opened(k) /\ HasNextId(k)
      /\ \A k \in refire : active'[k] = Refired(active[k])
      /\ \A k \in resolve : active'[k] = NoAlert
      /\ \A k \in Keys : k \notin open /\ k \notin refire /\ k \notin resolve
                           => active'[k] = active[k]
  BY <1>6 DEF Change
<1>8. Drained \in [RowIds -> RowStates] /\ \A k \in Keys : active[k] \in Alerts /\ opened[k] \in Nat
  BY DrainedTyped DEF TypeOK, AlertsTyped
<1>9. ASSUME NEW k \in Keys, NEW n \in Ids
      PROVE  RowAgrees(Drained'[<<k, n>>], active'[k], n)
  <2>0. <<k, n>> \in RowIds /\ n # 0 /\ RowAgrees(Drained[<<k, n>>], active[k], n)
    BY AgreesByRow DEF RowIds, Ids
  <2>1. CASE k \in open
    <3>0. active'[k] = [n |-> NextId(k), status |-> "firing", fired |-> 1, lastFired |-> 0]
      <4>1. active'[k] = Opened(k)
        BY <1>7, <2>1
      <4> QED BY <4>1 DEF Opened
    <3>1. NextId(k) = opened[k] + 1 /\ NextId(k) \in Ids
      BY <1>7, <1>8, <2>1, NextIds DEF TypeOK, HasNextId, NextId
    <3>2. CASE n = NextId(k)
      <4>1. Drained[<<k, n>>] = NoRow
        BY <1>8, <3>1, <3>2, FreshRow
      <4>2. Drained'[<<k, n>>] = Applied(NoRow, InsertOp(k))
        BY <1>3, <1>5, <2>1, <3>2, <4>1
      <4>3. Applied(NoRow, InsertOp(k)) = [status |-> "firing", fired |-> 1, lastFired |-> 0]
        BY DEF Applied, Upserted, InsertOp, Op
      <4> QED BY <3>0, <3>2, <4>2, <4>3 DEF RowAgrees, IsOpenRow
    <3>3. CASE n # NextId(k)
      <4>1. \A o \in W : RowOf(o) # <<k, n>>
        BY <1>4, <1>6, <2>1, <3>3
      <4>2. Drained'[<<k, n>>] = Drained[<<k, n>>]
        BY <1>1, <1>2, <2>0, <4>1
      <4>3. ~ IsOpenRow(Drained[<<k, n>>])
        BY <1>6, <2>0, <2>1 DEF RowAgrees
      <4>4. active'[k].n = NextId(k)
        BY <3>0
      <4> QED BY <3>3, <4>2, <4>3, <4>4 DEF RowAgrees
    <3> QED BY <3>2, <3>3
  <2>2. CASE k \in refire
    <3>1. active'[k].n = active[k].n /\ active'[k].status = active[k].status
          /\ active'[k].fired = Bump(active[k].fired)
      BY <1>7, <1>8, <2>2 DEF Refired, Alerts
    <3>2. CASE n = active[k].n
      <4>1. Drained[<<k, n>>].status = active[k].status /\ Drained[<<k, n>>].fired = active[k].fired
            /\ IsOpenRow(Drained[<<k, n>>])
        BY <2>0, <3>2 DEF RowAgrees
      <4>2. Drained[<<k, n>>] # NoRow
        BY <4>1 DEF IsOpenRow, NoRow
      <4>3. Drained'[<<k, n>>] = RefireRecorded(Drained[<<k, n>>], RefireOp(k))
        BY <1>3, <1>5, <2>2, <3>2 DEF Applied, RefireOp, Op
      <4>4. RefireOp(k).fired = Bump(active[k].fired)
        BY DEF RefireOp, Op
      <4>5. /\ Drained'[<<k, n>>].status = active[k].status
            /\ Drained'[<<k, n>>].fired = Greater(active[k].fired, Bump(active[k].fired))
        <5>1. Drained'[<<k, n>>] = [Drained[<<k, n>>] EXCEPT
                  !.fired = Greater(@, RefireOp(k).fired), !.lastFired = RefireOp(k).at]
          BY <4>2, <4>3 DEF RefireRecorded
        <5>2. Drained[<<k, n>>] \in RowStates
          BY <1>8, <2>0
        <5> QED BY <4>1, <4>4, <5>1, <5>2 DEF RowStates
      <4>6. Greater(active[k].fired, Bump(active[k].fired)) = Bump(active[k].fired)
        BY <1>8, ConstantsAssumption DEF Greater, Bump, Alerts, Fired
      <4> QED BY <3>1, <3>2, <4>1, <4>5, <4>6 DEF RowAgrees, IsOpenRow
    <3>3. CASE n # active[k].n
      <4>1. \A o \in W : RowOf(o) # <<k, n>>
        BY <1>4, <1>6, <2>2, <3>3
      <4>2. Drained'[<<k, n>>] = Drained[<<k, n>>]
        BY <1>1, <1>2, <2>0, <4>1
      <4> QED BY <2>0, <3>1, <3>3, <4>2 DEF RowAgrees
    <3> QED BY <3>2, <3>3
  <2>3. CASE k \in resolve
    <3>1. active'[k].n = 0
      BY <1>7, <2>3 DEF NoAlert
    <3>2. CASE n = active[k].n
      <4>1. IsOpenRow(Drained[<<k, n>>])
        BY <2>0, <3>2 DEF RowAgrees
      <4>2. Drained[<<k, n>>] # NoRow /\ Drained[<<k, n>>] \in RowStates
        BY <1>8, <2>0, <4>1 DEF IsOpenRow, NoRow
      <4>3. Drained'[<<k, n>>] = StatusSet(Drained[<<k, n>>], "resolved")
        BY <1>3, <1>5, <2>3, <3>2 DEF Applied, ResolveOp, Op
      <4>4. Drained'[<<k, n>>].status = "resolved"
        BY <4>2, <4>3 DEF StatusSet, RowStates
      <4> QED BY <2>0, <3>1, <4>4 DEF RowAgrees, IsOpenRow
    <3>3. CASE n # active[k].n
      <4>1. \A o \in W : RowOf(o) # <<k, n>>
        BY <1>4, <1>6, <2>3, <3>3
      <4>2. Drained'[<<k, n>>] = Drained[<<k, n>>]
        BY <1>1, <1>2, <2>0, <4>1
      <4> QED BY <2>0, <3>1, <3>3, <4>2 DEF RowAgrees
    <3> QED BY <3>2, <3>3
  <2>4. CASE k \notin open /\ k \notin refire /\ k \notin resolve
    <3>1. \A o \in W : RowOf(o) # <<k, n>>
      BY <1>4, <2>4
    <3>2. Drained'[<<k, n>>] = Drained[<<k, n>>]
      BY <1>1, <1>2, <2>0, <3>1
    <3> QED BY <1>7, <2>0, <2>4, <3>2
  <2> QED BY <2>1, <2>2, <2>3, <2>4
<1> QED BY <1>9, AgreesByRowNext

-----------------------------------------------------------------------------
(* Rows that exist have a status *)

\* A row is there or it is not: it never has the status of a row that is not there.
Plain(table) == \A a \in RowIds : table[a].status = "none" => table[a] = NoRow
PlainOps(q) == \A i \in 1 .. Len(q) : q[i].status # "none"

\* A row has no status only while it does not exist, whatever runs on it.
LEMMA AppliedPlain ==
  ASSUME NEW row \in RowStates, NEW o \in Operations, o.status # "none",
         row.status = "none" => row = NoRow
  PROVE  Applied(row, o).status = "none" => Applied(row, o) = NoRow
<1>1. o.op \in {"upsert", "refire", "resolve", "ack"}
  BY DEF Operations
<1>2. Upserted(row, o).status # "none"
  BY DEF Upserted, RowStates
<1>3. CASE o.op = "upsert"
  BY <1>2, <1>3 DEF Applied
<1>4. CASE o.op = "refire"
  <2>1. CASE row = NoRow
    BY <1>2, <1>4, <2>1 DEF Applied, RefireRecorded
  <2>2. CASE row # NoRow
    <3>1. Applied(row, o) = [row EXCEPT !.fired = Greater(@, o.fired), !.lastFired = o.at]
      BY <1>4, <2>2 DEF Applied, RefireRecorded
    <3> QED BY <2>2, <3>1 DEF RowStates
  <2> QED BY <2>1, <2>2
<1>5. ASSUME NEW status \in {"resolved", "acknowledged"}
      PROVE  StatusSet(row, status).status = "none" => StatusSet(row, status) = NoRow
  BY <1>5 DEF StatusSet, RowStates
<1>6. CASE o.op = "resolve"
  BY <1>5, <1>6 DEF Applied
<1>7. CASE o.op = "ack"
  BY <1>5, <1>7 DEF Applied
<1> QED BY <1>1, <1>3, <1>4, <1>6, <1>7

\* The same of the table.
LEMMA RunPlain ==
  ASSUME NEW t \in [RowIds -> RowStates], NEW o \in Operations, o.status # "none", Plain(t)
  PROVE  Plain([t EXCEPT ![RowOf(o)] = Applied(@, o)])
<1> DEFINE u == [t EXCEPT ![RowOf(o)] = Applied(@, o)]
<1> SUFFICES ASSUME NEW a \in RowIds PROVE u[a].status = "none" => u[a] = NoRow
  BY DEF Plain
<1>1. t[a] \in RowStates /\ (t[a].status = "none" => t[a] = NoRow)
  BY DEF Plain
<1>2. CASE a = RowOf(o)
  <2>1. u[a] = Applied(t[a], o)
    BY <1>2
  <2> HIDE DEF u
  <2> QED BY <1>1, <2>1, AppliedPlain
<1>3. CASE a # RowOf(o)
  <2>1. u[a] = t[a]
    BY <1>3
  <2> HIDE DEF u
  <2> QED BY <1>1, <2>1
<1> QED BY <1>2, <1>3

\* And of the result of a whole queue.
LEMMA ResultPlain ==
  ASSUME NEW base \in [RowIds -> RowStates], NEW q \in Seq(Operations), NEW t, Result(t, base, q),
         Plain(base), PlainOps(q)
  PROVE  Plain(t)
<1>1. PICK h : Runs(h, base, q) /\ t = h[Len(q)]
  BY DEF Result
<1> DEFINE T == {n \in 0 .. Len(q) : Plain(h[n])}
<1>2. Len(q) \in Nat
  OBVIOUS
<1>3. 0 \in T
  BY <1>1, <1>2 DEF Runs
<1>4. ASSUME NEW n \in 0 .. (Len(q) - 1), n \in T PROVE n + 1 \in T
  <2>1. n + 1 \in 1 .. Len(q) /\ n + 1 \in 0 .. Len(q) /\ n \in 0 .. Len(q) /\ (n + 1) - 1 = n
    BY <1>2
  <2>2. h[n + 1] = [h[n] EXCEPT ![RowOf(q[n + 1])] = Applied(@, q[n + 1])]
    BY <1>1, <2>1 DEF Runs
  <2>3. h[n] \in [RowIds -> RowStates] /\ Plain(h[n])
    BY <1>1, <1>4, <2>1 DEF Runs
  <2>4. q[n + 1] \in Operations /\ q[n + 1].status # "none"
    BY <2>1 DEF PlainOps
  <2>5. Plain(h[n + 1])
    BY <2>2, <2>3, <2>4, RunPlain
  <2> QED BY <2>1, <2>5
<1>5. \A n \in 0 .. Len(q) : n \in T
  <2> HIDE DEF T
  <2> QED BY <1>2, <1>3, <1>4, UpTo
<1> QED BY <1>1, <1>2, <1>5

RowsPlain == Plain(rows) /\ PlainOps(queue)

\* The drained table is plain as long as rows and operations are.
LEMMA DrainedPlain ==
  ASSUME StoreTyped, RowsPlain
  PROVE  Plain(Drained)
<1>1. rows \in [RowIds -> RowStates] /\ queue \in Seq(Operations)
  BY DEF StoreTyped
<1> QED BY <1>1, DrainedResult, ResultPlain DEF RowsPlain

\* Nothing queued and nothing written: nothing changes in the drained table.
LEMMA DrainedSame ==
  ASSUME StoreTyped, StoreTyped', queue' = queue, rows' = rows
  PROVE  Drained' = Drained
BY DrainedResult, DrainedNext

\* What handlers, writer and restarts keep whatever writes fail.
Orderly == IdsInOrder /\ AliveStatus /\ Idle /\ RowsPlain

\* What the operations that wait, and those that are added, are about.
LEMMA AppendedOrderly ==
  ASSUME StoreTyped, Orderly, HasDb, NEW s \in Seq(Operations), queue' = queue \o s, rows' = rows,
         AlertsTyped, AlertsTyped',
         \A k \in Keys : opened'[k] >= opened[k] /\ active'[k].n <= opened'[k],
         \A i \in 1 .. Len(s) : s[i].n <= opened'[s[i].key] /\ s[i].status # "none"
  PROVE  IdsInOrder' /\ RowsPlain'
<1>1. /\ queue \in Seq(Operations) /\ Len(queue') = Len(queue) + Len(s)
      /\ Len(queue) \in Nat /\ Len(s) \in Nat
      /\ \A i \in 1 .. Len(queue') :
           \/ i \in 1 .. Len(queue) /\ queue'[i] = queue[i]
           \/ i - Len(queue) \in 1 .. Len(s) /\ queue'[i] = s[i - Len(queue)]
  BY DEF StoreTyped
<1>2. \A k \in Keys : opened[k] \in Int /\ opened'[k] \in Int
  BY ConstantsAssumption DEF AlertsTyped
<1>3. \A i \in 1 .. Len(queue) :
         /\ queue[i].key \in Keys /\ queue[i].n \in Int
         /\ queue[i].n <= opened[queue[i].key] /\ queue[i].status # "none"
  <2>1. \A i \in 1 .. Len(queue) : queue[i] \in Operations
    BY <1>1
  <2> QED BY <2>1 DEF Operations, Ids, Orderly, IdsInOrder, RowsPlain, PlainOps
<1>4. \A i \in 1 .. Len(queue') : queue'[i].n <= opened'[queue'[i].key] /\ queue'[i].status # "none"
  <2> SUFFICES ASSUME NEW i \in 1 .. Len(queue')
               PROVE  queue'[i].n <= opened'[queue'[i].key] /\ queue'[i].status # "none"
    OBVIOUS
  <2>1. CASE i \in 1 .. Len(queue) /\ queue'[i] = queue[i]
    <3>1. opened'[queue[i].key] >= opened[queue[i].key]
      BY <1>3, <2>1
    <3> QED BY <1>2, <1>3, <2>1, <3>1
  <2>2. CASE i - Len(queue) \in 1 .. Len(s) /\ queue'[i] = s[i - Len(queue)]
    BY <2>2
  <2> QED BY <1>1, <2>1, <2>2
<1>5. \A a \in RowIds : a[2] > opened'[a[1]] => rows'[a] = NoRow
  <2> SUFFICES ASSUME NEW a \in RowIds, a[2] > opened'[a[1]] PROVE rows[a] = NoRow
    OBVIOUS
  <2>1. a[1] \in Keys /\ a[2] \in Int
    BY DEF RowIds
  <2>2. a[2] > opened[a[1]]
    BY <1>2, <2>1
  <2> QED BY <2>2 DEF Orderly, IdsInOrder
<1> QED BY <1>4, <1>5 DEF IdsInOrder, RowsPlain, PlainOps, Orderly, Plain

\* A Change keeps identities in order and rows plain.
LEMMA ChangeOrderly ==
  ASSUME TypeOK, TypeOK', Orderly, rows' = rows, up' = up, up,
         NEW open, NEW refire, NEW resolve, NEW touch, NEW excused, NEW lost,
         Clean(open, refire, resolve), Change(open, refire, resolve, touch, excused, lost)
  PROVE  Orderly'
<1>1. \A k \in Keys : /\ k \in open => active'[k] = Opened(k) /\ HasNextId(k) /\ opened'[k] = NextId(k)
                      /\ k \notin open => opened'[k] = opened[k]
                      /\ k \notin open /\ k \in refire => active'[k] = Refired(active[k])
                      /\ k \notin open /\ k \notin refire
                           => active'[k] = active[k] \/ active'[k] = NoAlert
  <2> SUFFICES ASSUME NEW k \in Keys
               PROVE  /\ k \in open => active'[k] = Opened(k) /\ HasNextId(k) /\ opened'[k] = NextId(k)
                      /\ k \notin open => opened'[k] = opened[k]
                      /\ k \notin open /\ k \in refire => active'[k] = Refired(active[k])
                      /\ k \notin open /\ k \notin refire
                           => active'[k] = active[k] \/ active'[k] = NoAlert
    OBVIOUS
  <2>1. opened'[k] = IF k \in open THEN NextId(k) ELSE opened[k]
    BY DEF Change
  <2>2. k \in open => HasNextId(k)
    BY DEF Change
  <2>3. active'[k] = CASE k \in open    -> Opened(k)
                       [] k \in refire  -> Refired(active[k])
                       [] k \in resolve -> NoAlert
                       [] OTHER         -> active[k]
    BY DEF Change
  <2>4. k \in open => k \notin refire /\ k \notin resolve
    BY DEF Clean
  <2>5. k \in refire => k \notin resolve
    BY DEF Clean
  <2> QED BY <2>1, <2>2, <2>3, <2>4, <2>5
<1>2. \A k \in Keys : active[k] \in Alerts /\ opened[k] \in Nat
  BY DEF TypeOK, AlertsTyped
<1>3. AliveStatus'
  <2> SUFFICES ASSUME NEW k \in Keys, active'[k].n # 0
               PROVE  active'[k].status \in {"firing", "acknowledged"}
    BY DEF AliveStatus, IsActive
  <2>1. CASE k \in open
    <3>1. active'[k] = Opened(k)
      BY <1>1, <2>1
    <3> QED BY <3>1 DEF Opened
  <2>2. CASE k \notin open /\ k \in refire
    <3>1. active'[k] = Refired(active[k])
      BY <1>1, <2>2
    <3>2. active'[k].n = active[k].n /\ active'[k].status = active[k].status
      BY <1>2, <3>1 DEF Refired, Alerts
    <3> QED BY <3>2 DEF Orderly, AliveStatus, IsActive
  <2>3. CASE k \notin open /\ k \notin refire
    BY <1>1, <2>3 DEF Orderly, AliveStatus, IsActive, NoAlert
  <2> QED BY <2>1, <2>2, <2>3
<1>4. CASE ~ HasDb
  <2>1. queue' = queue
    BY <1>4 DEF Change, SubmitAll
  <2>2. IdsInOrder' /\ RowsPlain' /\ Idle'
    BY <1>4, <2>1 DEF IdsInOrder, RowsPlain, Plain, PlainOps, Orderly, Idle
  <2> QED BY <1>3, <2>2 DEF Orderly
<1>5. CASE HasDb
  <2>1. PICK s \in Seq(Operations) :
          /\ queue' = queue \o s
          /\ \A i \in 1 .. Len(s) : s[i] \in Writes(open, refire, resolve)
    BY <1>5, ChangeQueued
  <2>2. \A k \in open : k \in Keys /\ NextId(k) = opened[k] + 1
    BY <1>1, <1>2, <1>5 DEF Clean, HasNextId, NextId
  <2>3. \A k \in Keys : /\ opened'[k] >= opened[k] /\ active[k].n <= opened[k]
                        /\ active[k].n \in Int /\ opened'[k] \in Int
    <3>1. \A k \in Keys : active[k].n \in Int /\ opened'[k] \in Int
      BY <1>2, ConstantsAssumption DEF Alerts, TypeOK, AlertsTyped
    <3> QED BY <1>1, <1>2, <1>5, <2>2, <3>1 DEF Orderly, IdsInOrder
  <2>4. \A k \in Keys : active'[k].n <= opened'[k]
    <3> SUFFICES ASSUME NEW k \in Keys PROVE active'[k].n <= opened'[k]
      OBVIOUS
    <3>1. CASE k \in open
      <4>1. active'[k] = Opened(k) /\ opened'[k] = NextId(k)
        BY <1>1, <3>1
      <4>2. active'[k].n = opened'[k]
        BY <4>1 DEF Opened
      <4> QED BY <2>3, <4>2
    <3>2. CASE k \notin open
      <4>1. active'[k].n = active[k].n \/ active'[k].n = 0
        <5>1. active'[k] = Refired(active[k]) \/ active'[k] = active[k] \/ active'[k] = NoAlert
          BY <1>1, <3>2
        <5>2. Refired(active[k]).n = active[k].n
          BY <1>2 DEF Refired, Alerts
        <5>3. NoAlert.n = 0
          BY DEF NoAlert
        <5> QED BY <5>1, <5>2, <5>3
      <4>2. opened'[k] = opened[k]
        BY <1>1, <3>2
      <4> QED BY <1>2, <2>3, <4>1, <4>2
    <3> QED BY <3>1, <3>2
  <2>5. \A o \in Writes(open, refire, resolve) : o.n <= opened'[o.key] /\ o.status # "none"
    <3>1. \A k \in open : InsertOp(k).n <= opened'[InsertOp(k).key] /\ InsertOp(k).status # "none"
      <4> SUFFICES ASSUME NEW k \in open
                   PROVE  InsertOp(k).n <= opened'[InsertOp(k).key] /\ InsertOp(k).status # "none"
        OBVIOUS
      <4>1. InsertOp(k).n = NextId(k) /\ InsertOp(k).key = k /\ InsertOp(k).status = "firing"
        BY DEF InsertOp, Op
      <4>2. opened'[k] = NextId(k) /\ opened'[k] \in Int
        BY <1>1, <2>2, <2>3
      <4> QED BY <4>1, <4>2
    <3>2. \A k \in refire : RefireOp(k).n <= opened'[RefireOp(k).key] /\ RefireOp(k).status # "none"
      <4> SUFFICES ASSUME NEW k \in refire
                   PROVE  RefireOp(k).n <= opened'[RefireOp(k).key] /\ RefireOp(k).status # "none"
        OBVIOUS
      <4>1. RefireOp(k).n = active[k].n /\ RefireOp(k).key = k /\ RefireOp(k).status = active[k].status
        BY DEF RefireOp, Op
      <4>2. k \in Keys /\ IsActive(k)
        BY DEF Clean
      <4>3. active[k].status # "none"
        BY <4>2 DEF Orderly, AliveStatus
      <4>4. active[k].n <= opened'[k]
        BY <1>2, <2>3, <4>2
      <4> QED BY <4>1, <4>3, <4>4
    <3>3. \A k \in resolve : /\ ResolveOp(k, active[k].n).n <= opened'[ResolveOp(k, active[k].n).key]
                             /\ ResolveOp(k, active[k].n).status # "none"
      <4> SUFFICES ASSUME NEW k \in resolve
                   PROVE  /\ ResolveOp(k, active[k].n).n <= opened'[ResolveOp(k, active[k].n).key]
                          /\ ResolveOp(k, active[k].n).status # "none"
        OBVIOUS
      <4>1. /\ ResolveOp(k, active[k].n).n = active[k].n /\ ResolveOp(k, active[k].n).key = k
            /\ ResolveOp(k, active[k].n).status = "resolved"
        BY DEF ResolveOp, Op
      <4>2. k \in Keys
        BY DEF Clean
      <4>3. active[k].n <= opened'[k]
        BY <1>2, <2>3, <4>2
      <4> QED BY <4>1, <4>3
    <3> QED BY <3>1, <3>2, <3>3 DEF Writes
  <2>6. IdsInOrder' /\ RowsPlain'
    <3>1. \A i \in 1 .. Len(s) : s[i].n <= opened'[s[i].key] /\ s[i].status # "none"
      BY <2>1, <2>5
    <3> QED BY <1>5, <2>1, <2>3, <2>4, <3>1, AppendedOrderly DEF TypeOK
  <2>7. Idle'
    BY <1>5 DEF Idle
  <2> QED BY <1>3, <2>6, <2>7 DEF Orderly
<1> QED BY <1>4, <1>5

\* The alerts table agrees with the actor as long as no write failed.
LEMMA HandledTable ==
  ASSUME TypeOK, TypeOK', Orderly, DrainedDbAgrees, Handled
  PROVE  Orderly' /\ DrainedDbAgrees'
<1>1. CASE NoChange
  <2>1. UNCHANGED <<active, opened, queue, rows, up, failures>>
    BY <1>1 DEF NoChange, Handled
  <2>2. Drained' = Drained
    BY <2>1, DrainedSame DEF TypeOK
  <2>3. Orderly'
    BY <2>1 DEF Orderly, IdsInOrder, AliveStatus, Idle, RowsPlain, Plain, PlainOps, IsActive
  <2>4. DrainedDbAgrees'
    <3> SUFFICES ASSUME up', HasDb, failures' = 0 PROVE TableAgrees'
      BY DEF DrainedDbAgrees
    <3>1. TableAgrees
      BY <2>1 DEF DrainedDbAgrees
    <3> QED BY <2>1, <2>2, <3>1, AgreesByRow, AgreesByRowNext
  <2> QED BY <2>3, <2>4
<1>2. ASSUME NEW open, NEW refire, NEW resolve, NEW touch, NEW excused, NEW lost,
             Clean(open, refire, resolve), Change(open, refire, resolve, touch, excused, lost)
      PROVE  Orderly' /\ DrainedDbAgrees'
  <2>1. rows' = rows /\ up' = up /\ up /\ failures' = failures
    BY DEF Handled
  <2>2. Orderly'
    BY <1>2, <2>1, ChangeOrderly
  <2>3. DrainedDbAgrees'
    <3> SUFFICES ASSUME up', HasDb, failures' = 0 PROVE TableAgrees'
      BY DEF DrainedDbAgrees
    <3>1. TableAgrees
      BY <2>1 DEF DrainedDbAgrees
    <3> QED BY <1>2, <2>1, <3>1, AgreesAfterChange DEF TypeOK, Orderly
  <2> QED BY <2>2, <2>3
<1> QED BY <1>1, <1>2 DEF Handled, Changes

\* An acknowledgement is queued with its effect in memory.
LEMMA AcknowledgeTable ==
  ASSUME TypeOK, TypeOK', Orderly, DrainedDbAgrees, NEW k \in Keys, NEW n \in Ids,
         AcknowledgeAlert(k, n)
  PROVE  Orderly' /\ DrainedDbAgrees'
<1> DEFINE inMemory == active[k].n = n
           o == Op("ack", k, n, "acknowledged", 0, inMemory)
<1>1. /\ up /\ UNCHANGED <<opened, up, rows, failures>>
      /\ inMemory \/ (HasDb /\ n <= opened[k])
      /\ Submit(<<o>>)
      /\ active' = IF inMemory THEN [active EXCEPT ![k].status = "acknowledged"] ELSE active
  BY DEF AcknowledgeAlert
<1>2. o \in Operations /\ RowOf(o) = <<k, n>> /\ o.op = "ack" /\ o.status = "acknowledged"
      /\ o.n = n /\ o.key = k
  BY WritesTyped DEF TypeOK, Op, RowOf
<1>3. active \in [Keys -> Alerts] /\ n # 0
  BY DEF TypeOK, AlertsTyped, Ids
<1>4. \A j \in Keys : /\ active'[j].n = active[j].n /\ active'[j].fired = active[j].fired
                      /\ j # k \/ ~ inMemory => active'[j] = active[j]
                      /\ j = k /\ inMemory => active'[j].status = "acknowledged"
  BY <1>1, <1>3 DEF Alerts
<1> HIDE DEF inMemory, o
<1>5. AliveStatus'
  <2> SUFFICES ASSUME NEW j \in Keys, active'[j].n # 0
               PROVE  active'[j].status \in {"firing", "acknowledged"}
    BY DEF AliveStatus, IsActive
  <2> QED BY <1>4 DEF Orderly, AliveStatus, IsActive
<1>6. CASE ~ HasDb
  <2>1. queue' = queue
    BY <1>1, <1>6 DEF Submit
  <2>2. IdsInOrder' /\ RowsPlain' /\ Idle' /\ DrainedDbAgrees'
    BY <1>1, <1>6, <2>1 DEF IdsInOrder, RowsPlain, Plain, PlainOps, Orderly, Idle, DrainedDbAgrees
  <2> QED BY <1>5, <2>2 DEF Orderly
<1>7. CASE HasDb
  <2>1. queue' = queue \o <<o>>
    BY <1>1, <1>7 DEF Submit
  <2>2. IdsInOrder' /\ RowsPlain'
    <3>1. \A j \in Keys : opened'[j] = opened[j] /\ opened[j] \in Int /\ active[j].n <= opened[j]
      BY <1>1, <1>7 DEF TypeOK, AlertsTyped, Orderly, IdsInOrder
    <3>2. n <= opened[k]
      BY <1>1, <1>7, <3>1 DEF inMemory
    <3>3. <<o>> \in Seq(Operations)
      BY <1>2
    <3>4. \A i \in 1 .. Len(<<o>>) : <<o>>[i].n <= opened'[<<o>>[i].key] /\ <<o>>[i].status # "none"
      BY <1>2, <3>1, <3>2
    <3>5. \A j \in Keys : opened'[j] >= opened[j] /\ active'[j].n <= opened'[j]
      BY <1>4, <3>1
    <3> QED BY <1>1, <1>7, <2>1, <3>3, <3>4, <3>5, AppendedOrderly DEF TypeOK
  <2>3. Idle'
    BY <1>1, <1>7 DEF Idle
  <2>4. DrainedDbAgrees'
    <3> SUFFICES ASSUME up', failures' = 0 PROVE TableAgrees'
      BY DEF DrainedDbAgrees
    <3>1. TableAgrees
      BY <1>1, <1>7 DEF DrainedDbAgrees
    <3>2. Drained' = [Drained EXCEPT ![<<k, n>>] = Applied(@, o)]
      BY <1>1, <1>2, <2>1, DrainedAppended DEF TypeOK
    <3>3. Drained \in [RowIds -> RowStates] /\ Plain(Drained)
      BY DrainedTyped, DrainedPlain DEF TypeOK, Orderly
    <3>4. ASSUME NEW j \in Keys, NEW m \in Ids
          PROVE  RowAgrees(Drained'[<<j, m>>], active'[j], m)
      <4>1. <<j, m>> \in RowIds /\ m # 0 /\ RowAgrees(Drained[<<j, m>>], active[j], m)
        BY <1>7, <3>1, AgreesByRow DEF RowIds, Ids
      <4>2. Drained[<<j, m>>] \in RowStates
            /\ (Drained[<<j, m>>].status = "none" => Drained[<<j, m>>] = NoRow)
        BY <3>3, <4>1 DEF Plain
      <4>3. CASE j = k /\ m = n
        <5>1. Drained'[<<j, m>>] = StatusSet(Drained[<<j, m>>], "acknowledged")
          BY <1>2, <3>2, <3>3, <4>1, <4>3 DEF Applied
        <5>2. CASE inMemory
          <6>1. IsOpenRow(Drained[<<j, m>>]) /\ Drained[<<j, m>>].fired = active[j].fired
            BY <4>1, <4>3, <5>2 DEF RowAgrees, inMemory
          <6>2. Drained'[<<j, m>>] = [Drained[<<j, m>>] EXCEPT !.status = "acknowledged"]
            BY <5>1, <6>1 DEF StatusSet, IsOpenRow, NoRow
          <6>3. /\ Drained'[<<j, m>>].status = "acknowledged"
                /\ Drained'[<<j, m>>].fired = active[j].fired
            BY <4>2, <6>1, <6>2 DEF RowStates
          <6> QED BY <1>4, <4>3, <5>2, <6>3 DEF RowAgrees, IsOpenRow, inMemory
        <5>3. CASE ~ inMemory
          <6>1. ~ IsOpenRow(Drained[<<j, m>>])
            BY <4>1, <4>3, <5>3 DEF RowAgrees, inMemory
          <6>2. Drained[<<j, m>>].status = "none" \/ Drained[<<j, m>>].status = "resolved"
            BY <4>2, <6>1 DEF IsOpenRow, RowStates, RowStatuses, AlertStatuses
          <6>3. Drained'[<<j, m>>] = Drained[<<j, m>>]
            BY <4>2, <5>1, <6>2 DEF StatusSet
          <6> QED BY <1>4, <4>1, <5>3, <6>3
        <5> QED BY <5>2, <5>3
      <4>4. CASE ~ (j = k /\ m = n)
        <5>1. Drained'[<<j, m>>] = Drained[<<j, m>>]
          BY <3>2, <3>3, <4>1, <4>4
        <5>2. /\ active'[j].n = active[j].n /\ active'[j].fired = active[j].fired
              /\ active[j].n = m => active'[j] = active[j]
          BY <1>4, <4>4 DEF inMemory
        <5> QED BY <4>1, <5>1, <5>2 DEF RowAgrees
      <4> QED BY <4>3, <4>4
    <3> QED BY <3>4, AgreesByRowNext
  <2> QED BY <1>5, <2>2, <2>3, <2>4 DEF Orderly
<1> QED BY <1>6, <1>7

-----------------------------------------------------------------------------
(* The operator's resolution, and the writer's steps *)

\* Resolving the n-th alert of a key closes its row, however often it is done.
LEMMA ResolvedRow ==
  ASSUME NEW row \in RowStates, NEW o \in Operations, o.op = "resolve"
  PROVE  /\ ~ IsOpenRow(Applied(row, o))
         /\ Applied(row, o) \in RowStates
<1>1. Applied(row, o) = StatusSet(row, "resolved")
  BY DEF Applied
<1> QED BY <1>1, AppliedTyped DEF StatusSet, IsOpenRow, NoRow, RowStates

\* A resolution by hand is queued, twice, with its effect in memory.
LEMMA ResolveTable ==
  ASSUME TypeOK, TypeOK', Orderly, DrainedDbAgrees, NEW k \in Keys, NEW n \in Ids,
         ResolveAlert(k, n)
  PROVE  Orderly' /\ DrainedDbAgrees'
<1> DEFINE inMemory == active[k].n = n
           o == ResolveOp(k, n)
<1>1. /\ up /\ UNCHANGED <<opened, up, rows, failures>>
      /\ inMemory \/ (HasDb /\ n <= opened[k])
      /\ IF inMemory THEN active' = [active EXCEPT ![k] = NoAlert] /\ Submit(<<o>> \o <<o>>)
                     ELSE active' = active /\ Submit(<<o>>)
  BY DEF ResolveAlert
<1>2. o \in Operations /\ RowOf(o) = <<k, n>> /\ o.op = "resolve" /\ o.status = "resolved"
      /\ o.n = n /\ o.key = k
  BY WritesTyped DEF TypeOK, ResolveOp, Op, RowOf
<1>3. active \in [Keys -> Alerts] /\ n # 0
  BY DEF TypeOK, AlertsTyped, Ids
<1>4. \A j \in Keys : /\ j # k \/ ~ inMemory => active'[j] = active[j]
                      /\ j = k /\ inMemory => active'[j] = NoAlert
  BY <1>1, <1>3
<1> HIDE DEF inMemory, o
<1>5. AliveStatus'
  BY <1>4 DEF Orderly, AliveStatus, IsActive, NoAlert
<1>6. PICK s \in {<<o>>, <<o>> \o <<o>>} : Submit(s)
  <2>1. Submit(<<o>>) \/ Submit(<<o>> \o <<o>>)
    BY <1>1
  <2> QED BY <2>1
<1>7. s \in Seq(Operations) /\ \A i \in 1 .. Len(s) : s[i] = o
  <2>1. CASE s = <<o>>
    BY <1>2, <2>1
  <2>2. CASE s = <<o>> \o <<o>>
    <3>1. <<o>> \in Seq(Operations) /\ Len(<<o>>) = 1 /\ <<o>>[1] = o
      BY <1>2
    <3>2. /\ <<o>> \o <<o>> \in Seq(Operations) /\ Len(<<o>> \o <<o>>) = 2
          /\ (<<o>> \o <<o>>)[1] = o /\ (<<o>> \o <<o>>)[2] = o
      BY <1>2, <3>1
    <3> QED BY <2>2, <3>2
  <2> QED BY <1>6, <2>1, <2>2
<1>8. CASE ~ HasDb
  <2>1. queue' = queue
    BY <1>6, <1>8 DEF Submit
  <2>2. IdsInOrder' /\ RowsPlain' /\ Idle' /\ DrainedDbAgrees'
    BY <1>1, <1>8, <2>1 DEF IdsInOrder, RowsPlain, Plain, PlainOps, Orderly, Idle, DrainedDbAgrees
  <2> QED BY <1>5, <2>2 DEF Orderly
<1>9. CASE HasDb
  <2>1. queue' = queue \o s
    BY <1>6, <1>9 DEF Submit
  <2>2. IdsInOrder' /\ RowsPlain'
    <3>1. \A j \in Keys : opened'[j] = opened[j] /\ opened[j] \in Int /\ active[j].n <= opened[j]
                          /\ 0 <= opened[j]
      BY <1>1, <1>9, ConstantsAssumption DEF TypeOK, AlertsTyped, Orderly, IdsInOrder
    <3>2. n <= opened[k]
      BY <1>1, <1>9, <3>1 DEF inMemory
    <3>3. \A i \in 1 .. Len(s) : s[i].n <= opened'[s[i].key] /\ s[i].status # "none"
      BY <1>2, <1>7, <3>1, <3>2
    <3>4. \A j \in Keys : opened'[j] >= opened[j] /\ active'[j].n <= opened'[j]
      BY <1>4, <3>1 DEF NoAlert
    <3> QED BY <1>1, <1>7, <1>9, <2>1, <3>3, <3>4, AppendedOrderly DEF TypeOK
  <2>3. Idle'
    BY <1>1, <1>9 DEF Idle
  <2>4. DrainedDbAgrees'
    <3> SUFFICES ASSUME up', failures' = 0 PROVE TableAgrees'
      BY DEF DrainedDbAgrees
    <3>1. TableAgrees
      BY <1>1, <1>9 DEF DrainedDbAgrees
    <3> DEFINE Resolved(t) == [t EXCEPT ![RowOf(o)] = Applied(@, o)]
    <3>2. Drained \in [RowIds -> RowStates] /\ RowOf(o) \in RowIds
      BY <1>2, <1>9, DrainedTyped DEF TypeOK, RowIds, Ids
    <3>3. Resolved(Drained) \in [RowIds -> RowStates]
      BY <1>2, <3>2, RunTyped
    <3>4. Drained' = Resolved(Drained) \/ Drained' = Resolved(Resolved(Drained))
      <4>0. rows \in [RowIds -> RowStates] /\ queue \in Seq(Operations)
            /\ queue \o <<o>> \in Seq(Operations)
        BY <1>2 DEF TypeOK, StoreTyped
      <4>1. Result(Resolved(Drained), rows, queue \o <<o>>)
        BY <1>2, <4>0, <3>2, DrainedResult, ResultAppended DEF TypeOK
      <4>2. CASE s = <<o>>
        <5>1. Result(Resolved(Drained), rows', queue')
          BY <1>1, <2>1, <4>1, <4>2
        <5> HIDE DEF Resolved
        <5> QED BY <5>1, DrainedNext DEF TypeOK
      <4>3. CASE s = <<o>> \o <<o>>
        <5>1. Result(Resolved(Resolved(Drained)), rows, (queue \o <<o>>) \o <<o>>)
          <6> DEFINE t == Resolved(Drained)
          <6>1. t \in [RowIds -> RowStates] /\ Result(t, rows, queue \o <<o>>)
            BY <3>3, <4>1
          <6> HIDE DEF t
          <6>2. Result([t EXCEPT ![RowOf(o)] = Applied(@, o)], rows, (queue \o <<o>>) \o <<o>>)
            BY <1>2, <4>0, <6>1, ResultAppended
          <6> QED BY <6>2 DEF t
        <5>2. (queue \o <<o>>) \o <<o>> = queue \o s
          BY <1>2, <4>0, <4>3
        <5>3. Result(Resolved(Resolved(Drained)), rows', queue')
          BY <1>1, <2>1, <5>1, <5>2
        <5> HIDE DEF Resolved
        <5> QED BY <5>3, DrainedNext DEF TypeOK
      <4> QED BY <1>6, <4>2, <4>3
    <3>5. /\ ~ IsOpenRow(Drained'[RowOf(o)])
          /\ \A a \in RowIds : a # RowOf(o) => Drained'[a] = Drained[a]
      <4> DEFINE t == Resolved(Drained)
      <4>1. /\ ~ IsOpenRow(t[RowOf(o)]) /\ t[RowOf(o)] \in RowStates
            /\ \A a \in RowIds : a # RowOf(o) => t[a] = Drained[a]
        <5>1. t[RowOf(o)] = Applied(Drained[RowOf(o)], o) /\ Drained[RowOf(o)] \in RowStates
          BY <3>2
        <5>2. \A a \in RowIds : a # RowOf(o) => t[a] = Drained[a]
          BY <3>2
        <5> HIDE DEF t
        <5> QED BY <1>2, <5>1, <5>2, ResolvedRow
      <4>2. t \in [RowIds -> RowStates]
        BY <3>3
      <4> HIDE DEF t
      <4>3. /\ ~ IsOpenRow(Resolved(t)[RowOf(o)])
            /\ \A a \in RowIds : a # RowOf(o) => Resolved(t)[a] = Drained[a]
        <5>1. Resolved(t)[RowOf(o)] = Applied(t[RowOf(o)], o)
          BY <3>2, <4>2
        <5>2. \A a \in RowIds : a # RowOf(o) => Resolved(t)[a] = Drained[a]
          BY <3>2, <4>1, <4>2
        <5> HIDE DEF Resolved
        <5> QED BY <1>2, <4>1, <5>1, <5>2, ResolvedRow
      <4>4. Drained' = t \/ Drained' = Resolved(t)
        BY <3>4 DEF t
      <4> HIDE DEF Resolved
      <4> QED BY <4>1, <4>3, <4>4
    <3> HIDE DEF Resolved
    <3>6. ASSUME NEW j \in Keys, NEW m \in Ids
          PROVE  RowAgrees(Drained'[<<j, m>>], active'[j], m)
      <4>1. <<j, m>> \in RowIds /\ m # 0 /\ RowAgrees(Drained[<<j, m>>], active[j], m)
        BY <1>9, <3>1, AgreesByRow DEF RowIds, Ids
      <4>2. CASE j = k /\ m = n
        <5>1. ~ IsOpenRow(Drained'[<<j, m>>])
          BY <1>2, <3>5, <4>2
        <5>2. active'[j].n # m
          BY <1>4, <4>1, <4>2 DEF NoAlert, inMemory
        <5> QED BY <5>1, <5>2 DEF RowAgrees
      <4>3. CASE ~ (j = k /\ m = n)
        <5>1. Drained'[<<j, m>>] = Drained[<<j, m>>]
          BY <1>2, <3>5, <4>1, <4>3
        <5>2. active'[j] = active[j] \/ (j = k /\ active[j].n = n /\ active'[j].n = 0)
          BY <1>4 DEF NoAlert, inMemory
        <5> QED BY <4>1, <4>3, <5>1, <5>2 DEF RowAgrees
      <4> QED BY <4>2, <4>3
    <3> QED BY <3>6, AgreesByRowNext
  <2> QED BY <1>5, <2>2, <2>3, <2>4 DEF Orderly
<1> QED BY <1>8, <1>9

\* An operation that runs changes the row of an alert that was opened.
LEMMA AppliedOrderly ==
  ASSUME TypeOK, Orderly, queue # <<>>, queue' = Tail(queue), Apply(Head(queue)) \/ rows' = rows,
         UNCHANGED <<active, opened, up>>, up
  PROVE  Orderly'
<1> DEFINE o == Head(queue)
<1>1. /\ queue \in Seq(Operations) /\ rows \in [RowIds -> RowStates]
      /\ o \in Operations /\ o = queue[1] /\ 1 \in 1 .. Len(queue)
      /\ \A i \in 1 .. Len(queue') : i + 1 \in 1 .. Len(queue) /\ queue'[i] = queue[i + 1]
  BY DEF TypeOK, StoreTyped
<1>2. HasDb
  BY DEF Orderly, Idle
<1>3. o.status # "none" /\ o.n <= opened[o.key] /\ o.key \in Keys /\ o.n \in Int
      /\ opened[o.key] \in Int
  <2>1. o.key \in Keys /\ o.n \in Int
    BY <1>1 DEF Operations, Ids
  <2> QED BY <1>1, <1>2, <2>1 DEF Orderly, IdsInOrder, RowsPlain, PlainOps, TypeOK, AlertsTyped
<1>4. rows' = rows \/ rows' = [rows EXCEPT ![RowOf(o)] = Applied(@, o)]
  BY DEF Apply
<1> HIDE DEF o
<1>5. Plain(rows')
  <2>1. CASE rows' = rows
    BY <2>1 DEF Orderly, RowsPlain
  <2>2. CASE rows' = [rows EXCEPT ![RowOf(o)] = Applied(@, o)]
    BY <1>1, <1>3, <2>2, RunPlain DEF Orderly, RowsPlain
  <2> QED BY <1>4, <2>1, <2>2
<1>6. PlainOps(queue') /\ \A i \in 1 .. Len(queue') : queue'[i].n <= opened'[queue'[i].key]
  BY <1>1, <1>2 DEF Orderly, RowsPlain, PlainOps, IdsInOrder
<1>7. \A a \in RowIds : a[2] > opened'[a[1]] => rows'[a] = NoRow
  <2> SUFFICES ASSUME NEW a \in RowIds, a[2] > opened[a[1]] PROVE rows'[a] = NoRow
    OBVIOUS
  <2>1. rows[a] = NoRow
    BY <1>2 DEF Orderly, IdsInOrder
  <2>2. a # RowOf(o)
    <3> SUFFICES ASSUME a = RowOf(o) PROVE FALSE
      OBVIOUS
    <3>1. a[1] = o.key /\ a[2] = o.n
      BY DEF RowOf
    <3> QED BY <1>3, <3>1
  <2> QED BY <1>1, <1>4, <2>1, <2>2
<1> QED BY <1>2, <1>5, <1>6, <1>7 DEF Orderly, IdsInOrder, AliveStatus, Idle, RowsPlain, IsActive, Plain, PlainOps

\* Running the head of the queue does not change what the queue drains to.
LEMMA WriterTable ==
  ASSUME TypeOK, TypeOK', Orderly, DrainedDbAgrees, WriterStep \/ WriterFails
  PROVE  Orderly' /\ DrainedDbAgrees'
<1>1. CASE WriterStep
  <2>1. /\ up /\ queue # <<>> /\ queue' = Tail(queue) /\ Apply(Head(queue))
        /\ UNCHANGED <<active, opened, up, failures>>
    BY <1>1 DEF WriterStep, memory
  <2>2. Orderly'
    BY <2>1, AppliedOrderly
  <2>3. Drained' = Drained
    <3>1. rows \in [RowIds -> RowStates] /\ queue \in Seq(Operations)
      BY DEF TypeOK, StoreTyped
    <3>2. rows' = [rows EXCEPT ![RowOf(Head(queue))] = Applied(@, Head(queue))]
      BY <2>1 DEF Apply
    <3>3. Result(Drained, rows', queue')
      BY <2>1, <3>1, <3>2, DrainedResult, ResultOfTail DEF TypeOK
    <3> QED BY <3>3, DrainedNext DEF TypeOK
  <2>4. DrainedDbAgrees'
    <3> SUFFICES ASSUME up', HasDb, failures' = 0 PROVE TableAgrees'
      BY DEF DrainedDbAgrees
    <3>1. TableAgrees
      BY <2>1 DEF DrainedDbAgrees
    <3> QED BY <2>1, <2>3, <3>1, AgreesByRow, AgreesByRowNext
  <2> QED BY <2>2, <2>4
<1>2. CASE WriterFails
  <2>1. /\ up /\ queue # <<>> /\ queue' = Tail(queue) /\ (Apply(Head(queue)) \/ rows' = rows)
        /\ UNCHANGED <<active, opened, up>> /\ failures' = failures + 1
    BY <1>2 DEF WriterFails, memory
  <2>2. Orderly'
    BY <2>1, AppliedOrderly
  <2>3. failures' # 0
    BY <2>1, ConstantsAssumption DEF TypeOK, ProcessTyped
  <2> QED BY <2>2, <2>3 DEF DrainedDbAgrees
<1> QED BY <1>1, <1>2

-----------------------------------------------------------------------------
(* Time, crashes and restarts *)

\* Time changes no status and no count.
LEMMA TickTable ==
  ASSUME TypeOK, TypeOK', Orderly, DrainedDbAgrees, Tick
  PROVE  Orderly' /\ DrainedDbAgrees'
<1>1. /\ UNCHANGED <<opened, up, failures>>
      /\ active' = [k \in Keys |-> [active[k] EXCEPT !.lastFired = Older(@)]]
      /\ queue' = [i \in DOMAIN queue |-> [queue[i] EXCEPT !.at = Older(@)]]
      /\ rows' = [a \in DOMAIN rows |-> [rows[a] EXCEPT !.lastFired = Older(@)]]
  BY DEF Tick
<1>2. /\ active \in [Keys -> Alerts]
      /\ queue \in Seq(Operations) /\ rows \in [RowIds -> RowStates]
      /\ queue' \in Seq(Operations) /\ rows' \in [RowIds -> RowStates]
  BY DEF TypeOK, AlertsTyped, StoreTyped
<1>3. \A k \in Keys : /\ active'[k].n = active[k].n /\ active'[k].status = active[k].status
                      /\ active'[k].fired = active[k].fired
  BY <1>1, <1>2 DEF Alerts
<1>4. \A a \in RowIds : Same(rows[a], rows'[a])
  <2> SUFFICES ASSUME NEW a \in RowIds PROVE Same(rows[a], rows'[a])
    OBVIOUS
  <2>1. rows[a] \in RowStates /\ rows'[a] = [rows[a] EXCEPT !.lastFired = Older(@)]
    BY <1>1, <1>2
  <2>2. /\ rows'[a].status = rows[a].status /\ rows'[a].fired = rows[a].fired
        /\ rows'[a].lastFired = Older(rows[a].lastFired)
    BY <2>1 DEF RowStates
  <2>3. \A t \in MaybeAge : Older(t) = NoTime <=> t = NoTime
    BY Ages DEF Older, MaybeAge, Age, NoTime
  <2>4. rows'[a] \in RowStates /\ rows[a].lastFired \in MaybeAge
    BY <1>2, <2>1 DEF RowStates
  <2>5. \A r \in RowStates : r = NoRow <=> /\ r.status = "none" /\ r.fired = 0
                                           /\ r.lastFired = NoTime
    BY DEF RowStates, NoRow
  <2> QED BY <2>1, <2>2, <2>3, <2>4, <2>5 DEF Same
<1>5. Len(queue') = Len(queue) /\ \A i \in 1 .. Len(queue) :
         SameOp(queue[i], queue'[i]) /\ queue'[i].key = queue[i].key /\ queue'[i].n = queue[i].n
  <2>1. Len(queue') = Len(queue) /\ DOMAIN queue = 1 .. Len(queue)
    BY <1>1, <1>2
  <2> SUFFICES ASSUME NEW i \in 1 .. Len(queue)
               PROVE  SameOp(queue[i], queue'[i]) /\ queue'[i].key = queue[i].key
                      /\ queue'[i].n = queue[i].n
    BY <2>1
  <2>2. queue[i] \in Operations /\ queue'[i] = [queue[i] EXCEPT !.at = Older(@)]
    BY <1>1, <1>2, <2>1
  <2> QED BY <2>2 DEF Operations, SameOp, RowOf
<1>6. Orderly'
  <2>1. IdsInOrder'
    BY <1>1, <1>3, <1>4, <1>5 DEF Orderly, IdsInOrder, Same
  <2>2. AliveStatus'
    BY <1>3 DEF Orderly, AliveStatus, IsActive
  <2>3. Idle'
    <3>1. queue = <<>> => queue' = <<>>
      BY <1>2, <1>5
    <3> QED BY <1>1, <1>3, <3>1 DEF Orderly, Idle, IsActive
  <2>4. RowsPlain'
    BY <1>4, <1>5 DEF Orderly, RowsPlain, Plain, PlainOps, Same, SameOp
  <2> QED BY <2>1, <2>2, <2>3, <2>4 DEF Orderly
<1>7. DrainedDbAgrees'
  <2> SUFFICES ASSUME up', HasDb, failures' = 0 PROVE TableAgrees'
    BY DEF DrainedDbAgrees
  <2>1. TableAgrees
    BY <1>1 DEF DrainedDbAgrees
  <2>2. \A a \in RowIds : Same(Drained[a], Drained'[a])
    <3>1. Result(Drained, rows, queue)
      BY DrainedResult DEF TypeOK
    <3>2. PICK t : Result(t, rows', queue')
      BY <1>2, OneResult
    <3>3. Drained' = t
      BY <3>2, DrainedNext DEF TypeOK
    <3> QED BY <1>2, <1>4, <1>5, <3>1, <3>2, <3>3, SameResult
  <2>3. ASSUME NEW k \in Keys, NEW n \in Ids
        PROVE  RowAgrees(Drained'[<<k, n>>], active'[k], n)
    <3>1. <<k, n>> \in RowIds /\ RowAgrees(Drained[<<k, n>>], active[k], n)
      BY <2>1, AgreesByRow DEF RowIds, Ids
    <3> QED BY <1>3, <2>2, <3>1 DEF Same, RowAgrees, IsOpenRow
  <2> QED BY <2>3, AgreesByRowNext
<1> QED BY <1>6, <1>7

\* After a crash there is nothing to agree with.
LEMMA CrashTable ==
  ASSUME TypeOK, Orderly, Crash
  PROVE  Orderly' /\ DrainedDbAgrees'
<1>1. /\ ~ up' /\ queue' = <<>> /\ rows' = rows /\ opened' = opened
      /\ \A k \in Keys : active'[k].n = 0
  BY EmptyTyped DEF Crash
<1>2. \A k \in Keys : 0 <= opened[k]
  BY ConstantsAssumption DEF TypeOK, AlertsTyped
<1>3. \A i \in 1 .. Len(queue') : FALSE
  BY <1>1
<1> QED BY <1>1, <1>2, <1>3 DEF Orderly, IdsInOrder, AliveStatus, Idle, RowsPlain, Plain, PlainOps, IsActive,
        DrainedDbAgrees

\* Of the open rows of a key at most one is restored.
LEMMA OneKept ==
  ASSUME StoreTyped, NEW config, NEW k, NEW m, NEW n, <<k, m>> \in Kept(config), <<k, n>> \in Kept(config)
  PROVE  m = n
<1>1. /\ <<k, m>> \in OpenRows /\ <<k, n>> \in OpenRows /\ IsNewest(<<k, m>>) /\ IsNewest(<<k, n>>)
      /\ m \in Nat /\ n \in Nat
  BY KeptRows DEF Kept, Ids
<1> QED BY <1>1 DEF IsNewest

\* A start keeps one open row per key and queues the end of all others.
LEMMA StartTable ==
  ASSUME TypeOK, TypeOK', Orderly, NEW config \in Configs, Start(config)
  PROVE  Orderly' /\ (HasDb => TableAgrees')
<1> DEFINE kept == Kept(config)
           IdOf(k) == CHOOSE n \in 1 .. MaxAlerts : <<k, n>> \in kept
           D == {ResolveOp(a[1], a[2]) : a \in Discarded(config)}
           Back == {a[1] : a \in kept}
<1>1. ~ up /\ up' = TRUE /\ rows' = rows /\ opened' = opened /\ SubmitAll(D) /\ queue = <<>>
  BY DEF Start, Orderly, Idle
<1>2. \A k \in Keys : active'[k] = IF k \in Back
          THEN [n |-> IdOf(k), status |-> rows[<<k, IdOf(k)>>].status,
                fired |-> rows[<<k, IdOf(k)>>].fired,
                lastFired |-> rows[<<k, IdOf(k)>>].lastFired]
          ELSE NoAlert
  BY DEF Start
<1>3. /\ kept \subseteq Keys \X Ids
      /\ Discarded(config) \subseteq Keys \X Ids /\ IsFiniteSet(Discarded(config))
      /\ \A k \in Back : \E n \in Ids : <<k, n>> \in kept
      /\ \A a \in kept : rows[a].status \in {"firing", "acknowledged"}
  BY KeptRows DEF TypeOK
<1>4. \A k, m, n : <<k, m>> \in kept /\ <<k, n>> \in kept => m = n
  BY OneKept DEF TypeOK
<1>5. /\ kept \subseteq OpenRows /\ Discarded(config) = OpenRows \ kept /\ OpenRows \subseteq RowIds
      /\ \A a \in OpenRows : IsOpenRow(rows[a])
      /\ \A a \in RowIds : IsOpenRow(rows[a]) => a \in OpenRows
  BY DEF Kept, Discarded, OpenRows, TypeOK, StoreTyped
<1> HIDE DEF kept
<1>0. \A k, n : <<k, n>> \in kept => k \in Back
  <2> SUFFICES ASSUME NEW k, NEW n, <<k, n>> \in kept PROVE k \in Back
    OBVIOUS
  <2>1. <<k, n>>[1] = k
    OBVIOUS
  <2> QED BY <2>1
<1> HIDE DEF Back
<1>6. \A k \in Keys, n \in Ids : <<k, n>> \in kept => IdOf(k) = n
  <2> SUFFICES ASSUME NEW k \in Keys, NEW n \in Ids, <<k, n>> \in kept PROVE IdOf(k) = n
    OBVIOUS
  <2>1. n \in 1 .. MaxAlerts
    BY DEF Ids
  <2>2. <<k, IdOf(k)>> \in kept
    BY <2>1
  <2> HIDE DEF IdOf
  <2> QED BY <1>4, <2>2
<1> HIDE DEF IdOf
<1>7. ASSUME NEW k \in Keys
      PROVE  \/ /\ active'[k].n = 0 /\ \A n \in Ids : <<k, n>> \notin kept
             \/ \E n \in Ids : /\ <<k, n>> \in kept /\ active'[k].n = n
                               /\ active'[k].status = rows[<<k, n>>].status
                               /\ active'[k].fired = rows[<<k, n>>].fired
  <2>1. CASE k \in Back
    <3>1. PICK n \in Ids : <<k, n>> \in kept
      BY <1>3, <2>1
    <3>2. IdOf(k) = n
      BY <1>6, <3>1
    <3>3. active'[k] = [n |-> IdOf(k), status |-> rows[<<k, IdOf(k)>>].status,
                        fired |-> rows[<<k, IdOf(k)>>].fired,
                        lastFired |-> rows[<<k, IdOf(k)>>].lastFired]
      BY <1>2, <2>1
    <3>4. /\ active'[k].n = n /\ active'[k].status = rows[<<k, n>>].status
          /\ active'[k].fired = rows[<<k, n>>].fired
      BY <3>2, <3>3
    <3> QED BY <3>1, <3>4
  <2>2. CASE k \notin Back
    <3>1. \A n \in Ids : <<k, n>> \notin kept
      BY <1>0, <2>2
    <3>2. active'[k].n = 0
      <4>1. active'[k] = NoAlert
        BY <1>2, <2>2
      <4> QED BY <4>1 DEF NoAlert
    <3> QED BY <3>1, <3>2
  <2> QED BY <2>1, <2>2
<1>8. AliveStatus'
  <2> SUFFICES ASSUME NEW k \in Keys, active'[k].n # 0
               PROVE  active'[k].status \in {"firing", "acknowledged"}
    BY DEF AliveStatus, IsActive
  <2> QED BY <1>3, <1>7
<1>9. CASE ~ HasDb
  <2>1. queue' = <<>>
    BY <1>1, <1>9 DEF SubmitAll
  <2>2. IdsInOrder' /\ Idle' /\ RowsPlain'
    BY <1>1, <1>9, <2>1 DEF IdsInOrder, Idle, Orderly, RowsPlain, Plain, PlainOps
  <2> QED BY <1>8, <1>9, <2>2 DEF Orderly
<1>10. CASE HasDb
  <2>1. /\ D \subseteq Operations /\ IsFiniteSet(D)
        /\ \A o \in D : RowOf(o) \in Discarded(config) /\ o.op = "resolve" /\ o.status = "resolved"
        /\ \A a \in Discarded(config) : \E o \in D : RowOf(o) = a
        /\ \A o, p \in D : RowOf(o) = RowOf(p) => o = p
    <3>0. \A a \in Discarded(config) : a[1] \in Keys /\ a[2] \in Ids /\ a = <<a[1], a[2]>>
      BY <1>3
    <3>1. \A a \in Discarded(config) :
            /\ ResolveOp(a[1], a[2]) \in Operations
            /\ RowOf(ResolveOp(a[1], a[2])) = a
            /\ ResolveOp(a[1], a[2]).op = "resolve" /\ ResolveOp(a[1], a[2]).status = "resolved"
      BY <3>0, WritesTyped DEF TypeOK, RowOf, ResolveOp, Op
    <3>2. [a \in Discarded(config) |-> ResolveOp(a[1], a[2])] \in Surjection(Discarded(config), D)
      BY DEF Surjection
    <3>3. IsFiniteSet(D)
      BY <1>3, <3>2, FS_Surjection
    <3> QED BY <3>1, <3>3
  <2> HIDE DEF D
  <2>2. PICK s \in Orderings(D) : queue' = queue \o s
    BY <1>1, <1>10 DEF SubmitAll, Submit
  <2>3. /\ Cardinality(D) \in Nat /\ s \in [1 .. Cardinality(D) -> D]
        /\ \A o \in D : \E i \in 1 .. Cardinality(D) : s[i] = o
        /\ \A i, j \in 1 .. Cardinality(D) : s[i] = s[j] => i = j
    BY <2>1, OrderingHasAll
  <2>4. /\ s \in Seq(Operations) /\ Len(s) = Cardinality(D)
        /\ \A i \in 1 .. Len(s) : s[i] \in D
        /\ \A o \in D : \E i \in 1 .. Len(s) : s[i] = o
        /\ \A i, j \in 1 .. Len(s) : RowOf(s[i]) = RowOf(s[j]) => i = j
    BY <2>1, <2>3
  <2>5. \A i \in 1 .. Len(s) : RowOf(s[i]) \in RowIds
    BY <1>5, <2>1, <2>4
  <2>6. /\ \A j \in 1 .. Len(s) : Drained'[RowOf(s[j])] = Applied(Drained[RowOf(s[j])], s[j])
        /\ \A a \in RowIds : (\A j \in 1 .. Len(s) : RowOf(s[j]) # a) => Drained'[a] = Drained[a]
    BY <1>1, <2>2, <2>4, <2>5, DrainedApart DEF TypeOK
  <2>7. \A a \in RowIds : Drained[a] = rows[a]
    <3>1. rows \in [RowIds -> RowStates] /\ queue \in Seq(Operations) /\ \A j \in 1 .. Len(queue) : FALSE
      BY <1>1 DEF TypeOK, StoreTyped
    <3> QED BY <3>1, DrainedResult, ResultElsewhere DEF TypeOK
  <2>8. \A a \in Discarded(config) : ~ IsOpenRow(Drained'[a])
    <3> SUFFICES ASSUME NEW a \in Discarded(config) PROVE ~ IsOpenRow(Drained'[a])
      OBVIOUS
    <3>1. PICK i \in 1 .. Len(s) : RowOf(s[i]) = a /\ s[i].op = "resolve" /\ s[i] \in Operations
      BY <2>1, <2>4
    <3>2. Drained'[a] = Applied(Drained[a], s[i]) /\ Drained[a] \in RowStates
      BY <1>5, <2>6, <3>1, DrainedTyped DEF TypeOK
    <3> QED BY <3>1, <3>2, ResolvedRow
  <2>9. \A a \in RowIds \ Discarded(config) : Drained'[a] = rows[a]
    BY <2>1, <2>4, <2>6, <2>7
  <2>10. ASSUME NEW k \in Keys, NEW n \in Ids
         PROVE  RowAgrees(Drained'[<<k, n>>], active'[k], n)
    <3>1. <<k, n>> \in RowIds /\ n # 0
      BY <1>10 DEF RowIds, Ids
    <3>2. IsOpenRow(Drained'[<<k, n>>]) <=> <<k, n>> \in kept
        <4>1. CASE <<k, n>> \in Discarded(config)
        BY <1>5, <2>8, <4>1
      <4>2. CASE <<k, n>> \notin Discarded(config)
        <5>1. Drained'[<<k, n>>] = rows[<<k, n>>]
          BY <2>9, <3>1, <4>2
        <5>2. <<k, n>> \in OpenRows <=> <<k, n>> \in kept
          BY <1>5, <4>2
        <5>3. IsOpenRow(rows[<<k, n>>]) <=> <<k, n>> \in OpenRows
          BY <3>1 DEF OpenRows, TypeOK, StoreTyped
        <5> QED BY <5>1, <5>2, <5>3
      <4> QED BY <4>1, <4>2
    <3>3. <<k, n>> \in kept => Drained'[<<k, n>>] = rows[<<k, n>>]
      BY <1>5, <2>9, <3>1
    <3>4. \A m \in Ids : <<k, m>> \in kept /\ <<k, n>> \in kept => m = n
      BY <1>4
    <3> QED BY <1>7, <3>1, <3>2, <3>3, <3>4 DEF RowAgrees
  <2>11. TableAgrees'
    BY <2>10, AgreesByRowNext
  <2>12. IdsInOrder' /\ RowsPlain'
    <3>1. \A a \in OpenRows : a[1] \in Keys /\ a[2] \in Nat /\ a[2] <= opened[a[1]]
      <4> SUFFICES ASSUME NEW a \in OpenRows PROVE a[1] \in Keys /\ a[2] \in Nat /\ a[2] <= opened[a[1]]
        OBVIOUS
      <4>1. a \in RowIds /\ IsOpenRow(rows[a])
        BY <1>5
      <4>2. a[1] \in Keys /\ a[2] \in Nat /\ rows[a] # NoRow
        BY <1>10, <4>1 DEF RowIds, IsOpenRow, NoRow
      <4>3. opened[a[1]] \in Nat
        BY <4>2 DEF TypeOK, AlertsTyped
      <4> QED BY <1>10, <4>1, <4>2, <4>3 DEF Orderly, IdsInOrder
    <3>2. \A k \in Keys : opened'[k] = opened[k] /\ opened[k] \in Nat
      BY <1>1 DEF TypeOK, AlertsTyped
    <3>3. \A k \in Keys : opened'[k] >= opened[k] /\ active'[k].n <= opened'[k]
      <4> SUFFICES ASSUME NEW k \in Keys PROVE active'[k].n <= opened[k]
        BY <3>2
      <4>1. CASE active'[k].n = 0
        BY <3>2, <4>1
      <4>2. ASSUME NEW n \in Ids, <<k, n>> \in kept, active'[k].n = n PROVE active'[k].n <= opened[k]
        BY <1>5, <3>1, <4>2
      <4> QED BY <1>7, <4>1, <4>2
    <3>4. \A i \in 1 .. Len(s) : s[i].n <= opened'[s[i].key] /\ s[i].status # "none"
      <4> SUFFICES ASSUME NEW i \in 1 .. Len(s) PROVE s[i].n <= opened'[s[i].key] /\ s[i].status # "none"
        OBVIOUS
      <4>1. RowOf(s[i]) \in OpenRows /\ s[i].status = "resolved"
        BY <1>5, <2>1, <2>4
      <4>2. RowOf(s[i])[1] = s[i].key /\ RowOf(s[i])[2] = s[i].n
        BY DEF RowOf
      <4> QED BY <1>1, <3>1, <4>1, <4>2
    <3> QED BY <1>1, <1>10, <2>2, <2>4, <3>3, <3>4, AppendedOrderly DEF TypeOK
  <2>13. Idle'
    BY <1>1, <1>10 DEF Idle
  <2> QED BY <1>8, <2>11, <2>12, <2>13 DEF Orderly
<1> QED BY <1>9, <1>10

-----------------------------------------------------------------------------
(* The table follows the actor *)

\* At first there are neither alerts nor rows.
LEMMA InitTable == Init => Orderly /\ DrainedDbAgrees
<1> SUFFICES ASSUME Init PROVE Orderly /\ DrainedDbAgrees
  OBVIOUS
<1>1. /\ active = [k \in Keys |-> NoAlert] /\ opened = [k \in Keys |-> 0] /\ queue = <<>>
      /\ rows = [a \in RowIds |-> NoRow] /\ up = TRUE
  BY DEF Init, EmptyMemory
<1>2. \A k \in Keys : active[k].n = 0 /\ opened[k] = 0
  BY <1>1 DEF NoAlert
<1>3. Orderly
  BY <1>1, <1>2 DEF Orderly, IdsInOrder, AliveStatus, Idle, RowsPlain, Plain, PlainOps, IsActive
<1>4. TypeOK
  BY InitTyped
<1>5. TableAgrees \/ ~ HasDb
  <2> SUFFICES ASSUME HasDb PROVE TableAgrees
    OBVIOUS
  <2>1. rows \in [RowIds -> RowStates] /\ queue \in Seq(Operations) /\ \A j \in 1 .. Len(queue) : FALSE
    BY <1>1, <1>4 DEF TypeOK, StoreTyped
  <2>2. \A a \in RowIds : Drained[a] = rows[a]
    BY <1>4, <2>1, DrainedResult, ResultElsewhere DEF TypeOK
  <2>3. ASSUME NEW k \in Keys, NEW n \in Ids PROVE RowAgrees(Drained[<<k, n>>], active[k], n)
    <3>1. Drained[<<k, n>>] = NoRow /\ n # 0
      BY <1>1, <2>2 DEF RowIds, Ids
    <3> QED BY <1>2, <3>1 DEF RowAgrees, IsOpenRow, NoRow
  <2> QED BY <2>3, AgreesByRow
<1> QED BY <1>3, <1>5 DEF DrainedDbAgrees

\* Every step keeps table and memory in agreement.
LEMMA TableNext ==
  TypeOK /\ TypeOK' /\ Orderly /\ DrainedDbAgrees /\ [Next]_vars => Orderly' /\ DrainedDbAgrees'
<1> SUFFICES ASSUME TypeOK, TypeOK', Orderly, DrainedDbAgrees, [Next]_vars
             PROVE  Orderly' /\ DrainedDbAgrees'
  OBVIOUS
<1>1. ASSUME NEW d \in Devices, NEW r \in Reports, DeviceStatusUpdate(d, r)
      PROVE  Orderly' /\ DrainedDbAgrees'
  BY <1>1, StatusUpdateChanges, HandledTable
<1>2. ASSUME NEW d \in Devices, NEW m \in EdgeMetrics, IngestDeviceAlert(m, d)
      PROVE  Orderly' /\ DrainedDbAgrees'
  BY <1>2, MessagesChange, HandledTable
<1>3. ASSUME NEW d \in Devices, NEW t \in PredTypes, NEW f \in Forecasts, PredictionResult(t, d, f)
      PROVE  Orderly' /\ DrainedDbAgrees'
  BY <1>3, MessagesChange, HandledTable
<1>4. ASSUME NEW d \in Devices, DeviceRemoved(d) PROVE Orderly' /\ DrainedDbAgrees'
  BY <1>4, MessagesChange, HandledTable
<1>5. ASSUME NEW e \in Connecting, EdgeSeen(e) \/ EdgeDisconnected(e)
      PROVE  Orderly' /\ DrainedDbAgrees'
  <2>1. e \in Edges
    BY ConstantsAssumption
  <2> QED BY <1>5, <2>1, MessagesChange, HandledTable
<1>6. ASSUME NEW k \in Keys, NEW n \in 1 .. MaxAlerts, AcknowledgeAlert(k, n)
      PROVE  Orderly' /\ DrainedDbAgrees'
  BY <1>6, AcknowledgeTable DEF Ids
<1>7. ASSUME NEW k \in Keys, NEW n \in 1 .. MaxAlerts, ResolveAlert(k, n)
      PROVE  Orderly' /\ DrainedDbAgrees'
  BY <1>7, ResolveTable DEF Ids
<1>8. CASE Sweep
  BY <1>8, SweepChanges, HandledTable
<1>9. CASE WriterStep
  BY <1>9, WriterTable
<1>10. CASE WriterFails
  BY <1>10, WriterTable
<1>11. CASE Tick
  BY <1>11, TickTable
<1>12. CASE Crash
  BY <1>12, CrashTable
<1>13. ASSUME NEW config \in Configs, Start(config) PROVE Orderly' /\ DrainedDbAgrees'
  BY <1>13, StartTable DEF DrainedDbAgrees
<1>14. CASE UNCHANGED vars
  <2>1. UNCHANGED <<active, opened, queue, rows, up, failures>>
    BY <1>14 DEF vars, memory, store
  <2>2. Drained' = Drained
    BY <2>1, DrainedSame DEF TypeOK
  <2>3. Orderly'
    BY <2>1 DEF Orderly, IdsInOrder, AliveStatus, Idle, RowsPlain, Plain, PlainOps, IsActive
  <2>4. TableAgrees => TableAgrees'
    BY <2>1, <2>2, AgreesByRow, AgreesByRowNext
  <2> QED BY <2>1, <2>3, <2>4 DEF DrainedDbAgrees
<1> QED BY <1>1, <1>2, <1>3, <1>4, <1>5, <1>6, <1>7, <1>8, <1>9, <1>10, <1>11, <1>12, <1>13, <1>14 DEF Next

\* As long as no write failed, the table is only behind the actor.
THEOREM TableFollows == Spec => []DrainedDbAgrees
<1>1. TypeOK /\ TypeOK' /\ Orderly /\ DrainedDbAgrees /\ [Next]_vars => Orderly' /\ DrainedDbAgrees'
  BY TableNext
<1>2. Init => Orderly /\ DrainedDbAgrees
  BY InitTable
<1> QED BY <1>1, <1>2, TypeCorrect, PTL DEF Spec

\* Only a start brings the hub up.
LEMMA OnlyStartsGoUp ==
  ASSUME TypeOK, TypeOK', [Next]_vars, ~ up, up'
  PROVE  \E config \in Configs : Start(config)
<1>1. ~ \E d \in Devices, r \in Reports : DeviceStatusUpdate(d, r)
  BY DEF DeviceStatusUpdate
<1>2. ~ \E d \in Devices, m \in EdgeMetrics : IngestDeviceAlert(m, d)
  BY DEF IngestDeviceAlert
<1>3. ~ \E d \in Devices, t \in PredTypes, f \in Forecasts : PredictionResult(t, d, f)
  BY DEF PredictionResult
<1>4. ~ \E d \in Devices : DeviceRemoved(d)
  BY DEF DeviceRemoved
<1>5. ~ \E e \in Connecting : EdgeSeen(e) \/ EdgeDisconnected(e)
  BY DEF EdgeSeen, EdgeDisconnected
<1>6. ~ \E k \in Keys, n \in 1 .. MaxAlerts : AcknowledgeAlert(k, n) \/ ResolveAlert(k, n)
  BY DEF AcknowledgeAlert, ResolveAlert
<1>7. ~ Sweep
  BY SweepParts
<1>8. ~ WriterStep /\ ~ WriterFails /\ ~ Crash
  BY DEF WriterStep, WriterFails, Crash
<1>9. ~ Tick
  BY DEF Tick
<1>10. ~ UNCHANGED vars
  BY DEF vars
<1> QED BY <1>1, <1>2, <1>3, <1>4, <1>5, <1>6, <1>7, <1>8, <1>9, <1>10 DEF Next

\* The part of the invariant that holds whatever writes failed.
LEMMA OrderlyAlways == Spec => []Orderly
<1>1. TypeOK /\ TypeOK' /\ Orderly /\ DrainedDbAgrees /\ [Next]_vars => Orderly' /\ DrainedDbAgrees'
  BY TableNext
<1>2. Init => Orderly /\ DrainedDbAgrees
  BY InitTable
<1> QED BY <1>1, <1>2, TypeCorrect, PTL DEF Spec

\* A restart repairs what failed writes left behind, whatever failed before.
THEOREM RestartsRepair ==
  ASSUME HasDb
  PROVE  Spec => RestartRepairs
<1>1. TypeOK /\ TypeOK' /\ Orderly /\ [Next]_vars => [~ up /\ up' => TableAgrees']_vars
  <2> SUFFICES ASSUME TypeOK, TypeOK', Orderly, [Next]_vars, ~ up, up' PROVE TableAgrees'
    OBVIOUS
  <2>1. PICK config \in Configs : Start(config)
    BY OnlyStartsGoUp
  <2> QED BY <2>1, StartTable
<1>2. [][~ up /\ up' => TableAgrees']_vars => RestartRepairs
  BY DEF RestartRepairs
<1>3. Spec => [][~ up /\ up' => TableAgrees']_vars
  BY <1>1, TypeCorrect, OrderlyAlways, PTL DEF Spec
<1> QED BY <1>2, <1>3, PTL

-----------------------------------------------------------------------------
(* Acknowledged alerts stay quiet: nothing that waits makes one fire again *)

\* In memory (`alerts`), the alert a is not left firing.
Settled(alerts, a) == alerts[a[1]].n = a[2] => alerts[a[1]].status = "acknowledged"

\* Operations that could make a row fire again.
Loud(o) == o.op \in {"upsert", "refire"} /\ o.status = "firing"

AcksWaiting ==
  \A i \in 1 .. Len(queue) : queue[i].op = "ack" =>
    /\ Settled(active, RowOf(queue[i]))
    /\ \A j \in (i + 1) .. Len(queue) : RowOf(queue[j]) = RowOf(queue[i]) => ~ Loud(queue[j])

AcksAnswered ==
  \A a \in ackOk :
    /\ Settled(active, a)
    /\ HasDb => /\ rows[a].status # "firing" /\ a[2] <= opened[a[1]]
                /\ \A j \in 1 .. Len(queue) : RowOf(queue[j]) = a => ~ Loud(queue[j])

AckInv == AcksWaiting /\ AcksAnswered /\ AckedStaysQuiet

\* An operation that is not loud leaves a row that does not fire as quiet.
LEMMA QuietApplied ==
  ASSUME NEW row \in RowStates, NEW o \in Operations, row.status # "firing", ~ Loud(o)
  PROVE  Applied(row, o).status # "firing"
<1>1. o.op \in {"upsert", "refire", "resolve", "ack"}
  BY DEF Operations
<1>2. CASE o.op = "upsert"
  BY <1>2 DEF Applied, Upserted, Loud, RowStates
<1>3. CASE o.op = "refire"
  BY <1>3 DEF Applied, RefireRecorded, Upserted, Loud, RowStates
<1>4. CASE o.op = "resolve"
  BY <1>4 DEF Applied, StatusSet, RowStates
<1>5. CASE o.op = "ack"
  BY <1>5 DEF Applied, StatusSet, RowStates
<1> QED BY <1>1, <1>2, <1>3, <1>4, <1>5

\* An acknowledgement that ran does not leave its row firing.
LEMMA AckApplied ==
  ASSUME NEW row \in RowStates, NEW o \in Operations, o.op = "ack",
         row.status = "none" => row = NoRow
  PROVE  Applied(row, o).status # "firing"
BY DEF Applied, StatusSet, RowStates, NoRow

\* Operations that are not loud about acknowledged alerts can be added to the queue.
LEMMA QuietAppended ==
  ASSUME StoreTyped, AcksWaiting, AcksAnswered, AckedStaysQuiet,
         NEW s \in Seq(Operations), queue' = queue \o s, rows' = rows,
         HistoryTyped, AlertsTyped, AlertsTyped',
         NEW newly, ackOk' \subseteq ackOk \cup newly, nagged' = nagged,
         \A k \in Keys : opened'[k] >= opened[k],
         \A a \in newly : ~ HasDb /\ Settled(active', a),
         \A a \in ackOk \cap ackOk' : Settled(active', a) /\ \A j \in 1 .. Len(s) : RowOf(s[j]) = a => ~ Loud(s[j]),
         \A i \in 1 .. Len(queue) : queue[i].op = "ack" =>
            /\ Settled(active', RowOf(queue[i]))
            /\ \A j \in 1 .. Len(s) : RowOf(s[j]) = RowOf(queue[i]) => ~ Loud(s[j]),
         \A i \in 1 .. Len(s) : s[i].op = "ack" => Len(s) = 1 /\ Settled(active', RowOf(s[i]))
  PROVE  AckInv'
<1>1. /\ queue \in Seq(Operations) /\ Len(queue') = Len(queue) + Len(s)
      /\ Len(queue) \in Nat /\ Len(s) \in Nat
      /\ \A i \in 1 .. Len(queue') :
           \/ i \in 1 .. Len(queue) /\ queue'[i] = queue[i]
           \/ i > Len(queue) /\ i - Len(queue) \in 1 .. Len(s) /\ queue'[i] = s[i - Len(queue)]
  BY DEF StoreTyped
<1>2. AcksWaiting'
  <2> SUFFICES ASSUME NEW i \in 1 .. Len(queue'), queue'[i].op = "ack"
               PROVE  /\ Settled(active', RowOf(queue'[i]))
                      /\ \A j \in (i + 1) .. Len(queue') :
                           RowOf(queue'[j]) = RowOf(queue'[i]) => ~ Loud(queue'[j])
    BY DEF AcksWaiting, Settled, Loud, RowOf
  <2>1. CASE i \in 1 .. Len(queue) /\ queue'[i] = queue[i]
    <3>1. Settled(active', RowOf(queue[i]))
          /\ \A j \in (i + 1) .. Len(queue) : RowOf(queue[j]) = RowOf(queue[i]) => ~ Loud(queue[j])
      BY <2>1 DEF AcksWaiting
    <3>2. ASSUME NEW j \in (i + 1) .. Len(queue'), RowOf(queue'[j]) = RowOf(queue[i])
          PROVE  ~ Loud(queue'[j])
      <4>1. j \in 1 .. Len(queue')
        BY <1>1, <2>1
      <4>2. CASE j \in 1 .. Len(queue) /\ queue'[j] = queue[j]
        <5>1. j \in (i + 1) .. Len(queue)
          BY <1>1, <4>2
        <5> QED BY <3>1, <3>2, <4>2, <5>1
      <4>3. CASE j - Len(queue) \in 1 .. Len(s) /\ queue'[j] = s[j - Len(queue)]
        BY <2>1, <3>2, <4>3
      <4> QED BY <1>1, <4>1, <4>2, <4>3
    <3> QED BY <2>1, <3>1, <3>2 DEF Settled, RowOf
  <2>2. CASE i > Len(queue) /\ i - Len(queue) \in 1 .. Len(s) /\ queue'[i] = s[i - Len(queue)]
    <3>1. Len(s) = 1 /\ Settled(active', RowOf(s[i - Len(queue)]))
      BY <2>2
    <3>2. \A j \in (i + 1) .. Len(queue') : FALSE
      BY <1>1, <2>2, <3>1
    <3> QED BY <2>2, <3>1, <3>2 DEF Settled, RowOf
  <2> QED BY <1>1, <2>1, <2>2
<1>3. AcksAnswered'
  <2> SUFFICES ASSUME NEW a \in ackOk'
               PROVE  /\ Settled(active', a)
                      /\ HasDb => /\ rows'[a].status # "firing" /\ a[2] <= opened'[a[1]]
                                  /\ \A j \in 1 .. Len(queue') : RowOf(queue'[j]) = a => ~ Loud(queue'[j])
    BY DEF AcksAnswered, Settled, Loud, RowOf
  <2>1. CASE a \in newly
    BY <2>1
  <2>2. CASE a \in ackOk
    <3>1. Settled(active', a)
      BY <2>2
    <3>2. ASSUME HasDb
          PROVE  rows'[a].status # "firing" /\ a[2] <= opened'[a[1]]
      <4>1. a[1] \in Keys /\ a[2] \in Int /\ opened[a[1]] \in Int /\ opened'[a[1]] \in Int
        BY <2>2, ConstantsAssumption DEF HistoryTyped, Ids, AlertsTyped
      <4>2. rows[a].status # "firing" /\ a[2] <= opened[a[1]] /\ opened'[a[1]] >= opened[a[1]]
        BY <2>2, <3>2, <4>1 DEF AcksAnswered
      <4> QED BY <4>1, <4>2
    <3>3. ASSUME HasDb, NEW j \in 1 .. Len(queue'), RowOf(queue'[j]) = a PROVE ~ Loud(queue'[j])
      <4>1. CASE j \in 1 .. Len(queue) /\ queue'[j] = queue[j]
        BY <2>2, <3>3, <4>1 DEF AcksAnswered
      <4>2. CASE j - Len(queue) \in 1 .. Len(s) /\ queue'[j] = s[j - Len(queue)]
        BY <2>2, <3>3, <4>2
      <4> QED BY <1>1, <4>1, <4>2
    <3> QED BY <3>1, <3>2, <3>3
  <2> QED BY <2>1, <2>2
<1> QED BY <1>2, <1>3 DEF AckInv, AckedStaysQuiet

\* A Change neither notifies an acknowledged alert nor queues anything loud on its row.
LEMMA ChangeQuiet ==
  ASSUME TypeOK, TypeOK', Orderly, AckInv, rows' = rows,
         NEW open, NEW refire, NEW resolve, NEW touch, NEW excused, NEW lost,
         Clean(open, refire, resolve), Change(open, refire, resolve, touch, excused, lost)
  PROVE  AckInv'
<1>1. \A k \in Keys : /\ k \in open => active'[k] = Opened(k) /\ HasNextId(k) /\ opened'[k] = NextId(k)
                      /\ k \notin open => opened'[k] = opened[k]
                      /\ k \notin open /\ k \in refire => active'[k] = Refired(active[k])
                      /\ k \notin open /\ k \notin refire
                           => active'[k] = active[k] \/ active'[k] = NoAlert
  <2> SUFFICES ASSUME NEW k \in Keys
               PROVE  /\ k \in open => active'[k] = Opened(k) /\ HasNextId(k) /\ opened'[k] = NextId(k)
                      /\ k \notin open => opened'[k] = opened[k]
                      /\ k \notin open /\ k \in refire => active'[k] = Refired(active[k])
                      /\ k \notin open /\ k \notin refire
                           => active'[k] = active[k] \/ active'[k] = NoAlert
    OBVIOUS
  <2>1. opened'[k] = IF k \in open THEN NextId(k) ELSE opened[k]
    BY DEF Change
  <2>2. k \in open => HasNextId(k)
    BY DEF Change
  <2>3. active'[k] = CASE k \in open    -> Opened(k)
                       [] k \in refire  -> Refired(active[k])
                       [] k \in resolve -> NoAlert
                       [] OTHER         -> active[k]
    BY DEF Change
  <2>4. k \in open => k \notin refire /\ k \notin resolve
    BY DEF Clean
  <2>5. k \in refire => k \notin resolve
    BY DEF Clean
  <2> QED BY <2>1, <2>2, <2>3, <2>4, <2>5
<1>2. \A k \in Keys : active[k] \in Alerts /\ opened[k] \in Nat
  BY DEF TypeOK, AlertsTyped
<1>3. open \subseteq Keys /\ refire \subseteq Keys /\ resolve \subseteq Keys
  BY DEF Clean
<1>4. ackOk' = ackOk \ {<<k, NextId(k)>> : k \in open}
  BY DEF Change
\* An alert that stays the one it was stays settled.
<1>5. ASSUME NEW k \in Keys, NEW n, n # 0, Settled(active, <<k, n>>), k \in open => n # NextId(k)
      PROVE  Settled(active', <<k, n>>)
  <2>1. active'[k].n = n => active[k].n = n /\ active'[k].status = active[k].status
    <3>1. CASE k \in open
      <4>1. active'[k] = Opened(k)
        BY <1>1, <3>1
      <4>2. active'[k].n = NextId(k)
        BY <4>1 DEF Opened
      <4> QED BY <1>5, <3>1, <4>2
    <3>2. CASE k \notin open
      <4>1. active'[k] = Refired(active[k]) \/ active'[k] = active[k] \/ active'[k] = NoAlert
        BY <1>1, <3>2
      <4>2. Refired(active[k]).n = active[k].n /\ Refired(active[k]).status = active[k].status
        BY <1>2 DEF Refired, Alerts
      <4>3. NoAlert.n = 0
        BY DEF NoAlert
      <4> QED BY <1>5, <4>1, <4>2, <4>3
    <3> QED BY <3>1, <3>2
  <2> QED BY <1>5, <2>1 DEF Settled
\* No write is loud about an alert that is settled.
<1>6. ASSUME NEW k \in Keys, NEW n, Settled(active, <<k, n>>), k \in open => n # NextId(k),
             NEW o \in Writes(open, refire, resolve), RowOf(o) = <<k, n>>
      PROVE  ~ Loud(o)
  <2>1. ASSUME NEW j \in open, o = InsertOp(j) PROVE FALSE
    <3>1. RowOf(o) = <<j, NextId(j)>>
      BY <2>1 DEF InsertOp, Op, RowOf
    <3> QED BY <1>6, <2>1, <3>1
  <2>2. ASSUME NEW j \in refire, o = RefireOp(j) PROVE ~ Loud(o)
    <3>1. RowOf(o) = <<j, active[j].n>> /\ o.status = active[j].status
      BY <2>2 DEF RefireOp, Op, RowOf
    <3>2. active[k].status = "acknowledged" /\ j = k
      BY <1>6, <3>1 DEF Settled
    <3> QED BY <3>1, <3>2 DEF Loud
  <2>3. ASSUME NEW j \in resolve, o = ResolveOp(j, active[j].n) PROVE ~ Loud(o)
    BY <2>3 DEF ResolveOp, Op, Loud
  <2> QED BY <2>1, <2>2, <2>3 DEF Writes
<1>7. nagged' = nagged
  <2>1. nagged' = nagged \cup {a \in ackOk : /\ a[1] \in refire /\ active[a[1]].n = a[2]
                                             /\ NotifiesRefire(a[1])}
    BY DEF Change
  <2>2. \A a \in ackOk : active[a[1]].n = a[2] => ~ NotifiesRefire(a[1])
    BY DEF AckInv, AcksAnswered, Settled, NotifiesRefire
  <2> QED BY <2>1, <2>2
<1>8. \A a \in ackOk' : /\ a \in ackOk /\ a = <<a[1], a[2]>> /\ a[1] \in Keys /\ a[2] # 0
                        /\ a[1] \in open => a[2] # NextId(a[1])
                        /\ Settled(active, <<a[1], a[2]>>)
  <2> SUFFICES ASSUME NEW a \in ackOk'
               PROVE  /\ a \in ackOk /\ a = <<a[1], a[2]>> /\ a[1] \in Keys /\ a[2] # 0
                      /\ a[1] \in open => a[2] # NextId(a[1])
                      /\ Settled(active, <<a[1], a[2]>>)
    OBVIOUS
  <2>1. a \in ackOk /\ a \in Keys \X Ids
    BY <1>4 DEF TypeOK, HistoryTyped
  <2>2. a = <<a[1], a[2]>> /\ a[1] \in Keys /\ a[2] # 0
    BY <2>1 DEF Ids
  <2>3. a[1] \in open => a[2] # NextId(a[1])
    BY <1>4, <2>2
  <2>4. Settled(active, a)
    BY <2>1 DEF AckInv, AcksAnswered
  <2> QED BY <2>1, <2>2, <2>3, <2>4
<1>9. CASE HasDb
  <2>1. PICK s \in Seq(Operations) :
          /\ queue' = queue \o s
          /\ \A i \in 1 .. Len(s) : s[i] \in Writes(open, refire, resolve)
    BY <1>9, ChangeQueued
  <2>2. \A k \in open : NextId(k) = opened[k] + 1
    BY <1>1, <1>2, <1>3, <1>9 DEF HasNextId, NextId
  <2>3. \A k \in Keys : opened'[k] >= opened[k]
    <3> SUFFICES ASSUME NEW k \in Keys PROVE opened'[k] >= opened[k]
      OBVIOUS
    <3>1. opened'[k] = opened[k] + 1 \/ opened'[k] = opened[k]
      BY <1>1, <2>2
    <3> QED BY <1>2, <3>1
  <2>4. \A a \in ackOk \cap ackOk' : Settled(active', a) /\ \A j \in 1 .. Len(s) : RowOf(s[j]) = a => ~ Loud(s[j])
    <3> SUFFICES ASSUME NEW a \in ackOk'
                 PROVE  Settled(active', a) /\ \A j \in 1 .. Len(s) : RowOf(s[j]) = a => ~ Loud(s[j])
      OBVIOUS
    <3>1. Settled(active', a)
      <4>1. Settled(active', <<a[1], a[2]>>)
        BY <1>5, <1>8
      <4> QED BY <1>8, <4>1 DEF Settled
    <3>2. ASSUME NEW j \in 1 .. Len(s), RowOf(s[j]) = a PROVE ~ Loud(s[j])
      <4>1. s[j] \in Writes(open, refire, resolve) /\ RowOf(s[j]) = <<a[1], a[2]>>
        BY <1>8, <2>1, <3>2
      <4> QED BY <1>6, <1>8, <4>1
    <3> QED BY <3>1, <3>2
  <2>5. ASSUME NEW i \in 1 .. Len(queue), queue[i].op = "ack"
        PROVE  /\ Settled(active', RowOf(queue[i]))
               /\ \A j \in 1 .. Len(s) : RowOf(s[j]) = RowOf(queue[i]) => ~ Loud(s[j])
    <3> DEFINE k == queue[i].key
               n == queue[i].n
    <3>1. RowOf(queue[i]) = <<k, n>> /\ k \in Keys /\ n \in Nat /\ n # 0 /\ n <= opened[k]
          /\ opened[k] \in Nat
      <4>1. queue[i] \in Operations
        BY DEF TypeOK, StoreTyped
      <4>2. RowOf(queue[i]) = <<k, n>> /\ k \in Keys /\ n \in Nat /\ n # 0
        BY <4>1 DEF Operations, Ids, RowOf
      <4>3. n <= opened[k]
        BY <1>9 DEF Orderly, IdsInOrder
      <4> QED BY <1>2, <4>2, <4>3
    <3>2. Settled(active, <<k, n>>)
      BY <2>5, <3>1 DEF AckInv, AcksWaiting
    <3> HIDE DEF k, n
    <3>3. k \in open => n # NextId(k)
      BY <2>2, <3>1
    <3>4. Settled(active', <<k, n>>)
      BY <1>5, <3>1, <3>2, <3>3
    <3>5. ASSUME NEW j \in 1 .. Len(s), RowOf(s[j]) = <<k, n>> PROVE ~ Loud(s[j])
      <4>1. s[j] \in Writes(open, refire, resolve)
        BY <2>1
      <4> QED BY <1>6, <3>1, <3>2, <3>3, <3>5, <4>1
    <3>6. Settled(active', RowOf(queue[i]))
      BY <3>1, <3>4 DEF Settled, k, n, RowOf
    <3> QED BY <3>1, <3>5, <3>6
  <2>6. \A i \in 1 .. Len(s) : s[i].op # "ack"
    <3>1. \A o \in Writes(open, refire, resolve) : o.op # "ack"
      BY DEF Writes, InsertOp, RefireOp, ResolveOp, Op
    <3> QED BY <2>1, <3>1
  <2> DEFINE none == {}
  <2>7. ackOk' \subseteq ackOk \cup none
    BY <1>4
  <2>8. \A i \in 1 .. Len(s) : s[i].op = "ack" => Len(s) = 1 /\ Settled(active', RowOf(s[i]))
    BY <2>6
  <2>9. \A a \in none : ~ HasDb /\ Settled(active', a)
    OBVIOUS
  <2>10. /\ StoreTyped /\ HistoryTyped /\ AlertsTyped /\ AlertsTyped'
         /\ AcksWaiting /\ AcksAnswered /\ AckedStaysQuiet
    BY DEF TypeOK, AckInv
  <2>11. \A i \in 1 .. Len(queue) : queue[i].op = "ack" =>
            /\ Settled(active', RowOf(queue[i]))
            /\ \A j \in 1 .. Len(s) : RowOf(s[j]) = RowOf(queue[i]) => ~ Loud(s[j])
    BY <2>5
  <2> HIDE DEF none
  <2> QED BY <1>7, <2>1, <2>3, <2>4, <2>7, <2>8, <2>9, <2>10, <2>11, QuietAppended
<1>10. CASE ~ HasDb
  <2>1. queue' = <<>>
    BY <1>10 DEF Change, SubmitAll, Orderly, Idle
  <2>2. \A i \in 1 .. Len(queue') : FALSE
    BY <2>1
  <2>3. \A a \in ackOk' : Settled(active', a)
    <3> SUFFICES ASSUME NEW a \in ackOk' PROVE Settled(active', a)
      OBVIOUS
    <3>1. Settled(active', <<a[1], a[2]>>)
      BY <1>5, <1>8
    <3> QED BY <1>8, <3>1 DEF Settled
  <2> QED BY <1>7, <1>10, <2>2, <2>3 DEF AckInv, AcksWaiting, AcksAnswered, AckedStaysQuiet, Settled
<1> QED BY <1>9, <1>10

-----------------------------------------------------------------------------
(* Acknowledged alerts stay quiet: the actions *)

\* No message and no sweep makes an acknowledged alert fire.
LEMMA HandledQuiet ==
  ASSUME TypeOK, TypeOK', Orderly, AckInv, Handled
  PROVE  AckInv'
<1>1. CASE NoChange
  <2>1. UNCHANGED <<active, opened, queue, rows, ackOk, nagged>>
    BY <1>1 DEF NoChange, Handled, history
  <2> QED BY <2>1 DEF AckInv, AcksWaiting, AcksAnswered, AckedStaysQuiet
<1>2. ASSUME NEW open, NEW refire, NEW resolve, NEW touch, NEW excused, NEW lost,
             Clean(open, refire, resolve), Change(open, refire, resolve, touch, excused, lost)
      PROVE  AckInv'
  BY <1>2, ChangeQuiet DEF Handled
<1> QED BY <1>1, <1>2 DEF Handled, Changes

\* The ids of waiting operations are positions in the table.
LEMMA WaitingRow ==
  ASSUME StoreTyped, NEW i \in 1 .. Len(queue)
  PROVE  /\ queue[i] \in Operations /\ RowOf(queue[i]) = <<queue[i].key, queue[i].n>>
         /\ queue[i].key \in Keys /\ queue[i].n \in Ids /\ queue[i].n # 0
<1>1. queue[i] \in Operations
  BY DEF StoreTyped
<1> QED BY <1>1 DEF Operations, Ids, RowOf

\* Nor does a request of an operator.
LEMMA OperatorQuiet ==
  ASSUME TypeOK, TypeOK', Orderly, AckInv, NEW k \in Keys, NEW n \in Ids,
         AcknowledgeAlert(k, n) \/ ResolveAlert(k, n)
  PROVE  AckInv'
<1> DEFINE b == active[k].n = n
           ack == Op("ack", k, n, "acknowledged", 0, b)
           end == ResolveOp(k, n)
<1>1. /\ UNCHANGED <<opened, rows, nagged>>
      /\ b \/ HasDb
  BY DEF AcknowledgeAlert, ResolveAlert
<1>2. /\ ack \in Operations /\ ack.op = "ack" /\ ~ Loud(ack) /\ RowOf(ack) = <<k, n>>
      /\ end \in Operations /\ end.op # "ack" /\ ~ Loud(end)
  BY WritesTyped DEF TypeOK, Op, ResolveOp, RowOf, Loud
<1>3. active \in [Keys -> Alerts] /\ n # 0 /\ \A j \in Keys : active[j].n \in Int
  BY DEF TypeOK, AlertsTyped, Ids, Alerts
\* Nobody unsettles an alert.
<1>4. \A j \in Keys : \A m : m # 0 /\ Settled(active, <<j, m>>) => Settled(active', <<j, m>>)
  <2> SUFFICES ASSUME NEW j \in Keys, NEW m, m # 0, Settled(active, <<j, m>>)
               PROVE  Settled(active', <<j, m>>)
    OBVIOUS
  <2>1. \/ active' = active
        \/ active' = [active EXCEPT ![k].status = "acknowledged"]
        \/ active' = [active EXCEPT ![k] = NoAlert]
    BY DEF AcknowledgeAlert, ResolveAlert
  <2>2. CASE active' = [active EXCEPT ![k].status = "acknowledged"]
    <3>1. active'[j].n = active[j].n
          /\ (active'[j].status = active[j].status \/ active'[j].status = "acknowledged")
      BY <1>3, <2>2 DEF Alerts
    <3> QED BY <3>1 DEF Settled
  <2>3. CASE active' = [active EXCEPT ![k] = NoAlert]
    <3>1. active'[j] = active[j] \/ active'[j].n = 0
      BY <1>3, <2>3 DEF NoAlert
    <3> QED BY <3>1 DEF Settled
  <2> QED BY <2>1, <2>2, <2>3
<1>5. AcknowledgeAlert(k, n) => Settled(active', <<k, n>>)
  <2> SUFFICES ASSUME AcknowledgeAlert(k, n) PROVE Settled(active', <<k, n>>)
    OBVIOUS
  <2>1. CASE b
    <3>1. active' = [active EXCEPT ![k].status = "acknowledged"]
      BY <2>1 DEF AcknowledgeAlert
    <3>2. active'[k].status = "acknowledged"
      BY <1>3, <3>1 DEF Alerts
    <3> QED BY <3>2 DEF Settled
  <2>2. CASE ~ b
    <3>1. active' = active
      BY <2>2 DEF AcknowledgeAlert
    <3> QED BY <2>2, <3>1 DEF Settled
  <2> QED BY <2>1, <2>2
<1>6. \A a \in ackOk : a = <<a[1], a[2]>> /\ a[1] \in Keys /\ a[2] # 0 /\ Settled(active, a)
  BY DEF TypeOK, HistoryTyped, Ids, AckInv, AcksAnswered
<1>7. \A a \in ackOk : Settled(active', a)
  <2> SUFFICES ASSUME NEW a \in ackOk PROVE Settled(active', a)
    OBVIOUS
  <2>1. a = <<a[1], a[2]>> /\ a[1] \in Keys /\ a[2] # 0 /\ Settled(active, <<a[1], a[2]>>)
    BY <1>6
  <2>2. Settled(active', <<a[1], a[2]>>)
    BY <1>4, <2>1
  <2> QED BY <2>1, <2>2
<1>8. \/ AcknowledgeAlert(k, n) /\ Submit(<<ack>>)
         /\ ackOk' = IF HasDb THEN ackOk ELSE ackOk \cup {<<k, n>>}
      \/ (Submit(<<end>>) \/ Submit(<<end>> \o <<end>>)) /\ ackOk' = ackOk
  BY DEF AcknowledgeAlert, ResolveAlert
<1> HIDE DEF b, ack, end
<1>9. CASE HasDb
  <2>1. PICK s \in Seq(Operations) :
          /\ queue' = queue \o s
          /\ \A i \in 1 .. Len(s) : ~ Loud(s[i])
          /\ \A i \in 1 .. Len(s) : s[i].op = "ack" => Len(s) = 1 /\ Settled(active', RowOf(s[i]))
    <3>1. CASE AcknowledgeAlert(k, n) /\ Submit(<<ack>>)
      <4>1. queue' = queue \o <<ack>>
        BY <1>9, <3>1 DEF Submit
      <4>2. /\ <<ack>> \in Seq(Operations) /\ Len(<<ack>>) = 1
            /\ \A i \in 1 .. Len(<<ack>>) : <<ack>>[i] = ack
        BY <1>2
      <4>3. Settled(active', RowOf(ack))
        BY <1>2, <1>5, <3>1
      <4> DEFINE s == <<ack>>
      <4>4. /\ s \in Seq(Operations) /\ queue' = queue \o s /\ Len(s) = 1
            /\ \A i \in 1 .. Len(s) : s[i] = ack
        BY <4>1, <4>2
      <4> HIDE DEF s
      <4> QED BY <1>2, <4>3, <4>4
    <3>2. CASE Submit(<<end>>)
      <4> DEFINE s == <<end>>
      <4>1. s \in Seq(Operations) /\ queue' = queue \o s /\ \A i \in 1 .. Len(s) : s[i] = end
        BY <1>2, <1>9, <3>2 DEF Submit
      <4> HIDE DEF s
      <4> QED BY <1>2, <4>1
    <3>3. CASE Submit(<<end>> \o <<end>>)
      <4> DEFINE s == <<end>> \o <<end>>
      <4>0. <<end>> \in Seq(Operations) /\ Len(<<end>>) = 1 /\ <<end>>[1] = end
        BY <1>2
      <4>1. s \in Seq(Operations) /\ Len(s) = 2 /\ s[1] = end /\ s[2] = end
        BY <1>2, <4>0
      <4>2. queue' = queue \o s
        BY <1>9, <3>3 DEF Submit
      <4> HIDE DEF s
      <4>3. \A i \in 1 .. Len(s) : s[i] = end
        BY <4>1
      <4> QED BY <1>2, <4>1, <4>2, <4>3
    <3> QED BY <1>8, <3>1, <3>2, <3>3
  <2>2. \A i \in 1 .. Len(queue) : queue[i].op = "ack" =>
            /\ Settled(active', RowOf(queue[i]))
            /\ \A j \in 1 .. Len(s) : RowOf(s[j]) = RowOf(queue[i]) => ~ Loud(s[j])
    <3> SUFFICES ASSUME NEW i \in 1 .. Len(queue), queue[i].op = "ack"
                 PROVE  Settled(active', RowOf(queue[i]))
      BY <2>1
    <3>1. /\ RowOf(queue[i]) = <<queue[i].key, queue[i].n>>
          /\ queue[i].key \in Keys /\ queue[i].n # 0
      BY WaitingRow DEF TypeOK
    <3>2. Settled(active, <<queue[i].key, queue[i].n>>)
      BY <3>1 DEF AckInv, AcksWaiting
    <3> QED BY <1>4, <3>1, <3>2
  <2> DEFINE none == {}
  <2>3. ackOk' \subseteq ackOk \cup none /\ \A a \in none : ~ HasDb /\ Settled(active', a)
    BY <1>8, <1>9
  <2>4. \A k_1 \in Keys : opened'[k_1] >= opened[k_1]
    BY <1>1 DEF TypeOK, AlertsTyped
  <2>5. /\ StoreTyped /\ HistoryTyped /\ AlertsTyped /\ AlertsTyped'
        /\ AcksWaiting /\ AcksAnswered /\ AckedStaysQuiet
    BY DEF TypeOK, AckInv
  <2>6. \A a \in ackOk \cap ackOk' :
           Settled(active', a) /\ \A j \in 1 .. Len(s) : RowOf(s[j]) = a => ~ Loud(s[j])
    BY <1>7, <2>1
  <2> HIDE DEF none
  <2> QED BY <1>1, <2>1, <2>2, <2>3, <2>4, <2>5, <2>6, QuietAppended
<1>10. CASE ~ HasDb
  <2>1. queue' = <<>>
    BY <1>8, <1>10 DEF Submit, Orderly, Idle
  <2>2. \A i \in 1 .. Len(queue') : FALSE
    BY <2>1
  <2>3. \A a \in ackOk' : Settled(active', a)
    BY <1>5, <1>7, <1>8
  <2> QED BY <1>1, <1>10, <2>2, <2>3 DEF AckInv, AcksWaiting, AcksAnswered, AckedStaysQuiet
<1> QED BY <1>9, <1>10

\* The operation at the head of the queue runs, or is dropped.
LEMMA WriterQuiet ==
  ASSUME TypeOK, Orderly, AckInv, WriterStep \/ WriterFails
  PROVE  AckInv'
<1> DEFINE o == Head(queue)
<1>1. /\ queue # <<>> /\ queue' = Tail(queue) /\ UNCHANGED <<active, opened, nagged>>
      /\ Apply(o) \/ rows' = rows
      /\ \/ ackOk' = ackOk
         \/ Apply(o) /\ o.op = "ack" /\ ackOk' = ackOk \cup {RowOf(o)}
  BY DEF WriterStep, WriterFails, memory, history
<1>2. /\ queue \in Seq(Operations) /\ rows \in [RowIds -> RowStates]
      /\ 1 \in 1 .. Len(queue) /\ o = queue[1] /\ Len(queue') = Len(queue) - 1 /\ Len(queue) \in Nat
      /\ \A i \in 1 .. Len(queue') : i + 1 \in 1 .. Len(queue) /\ queue'[i] = queue[i + 1]
  BY <1>1 DEF TypeOK, StoreTyped
<1>3. HasDb /\ up
  BY <1>1 DEF Orderly, Idle, WriterStep, WriterFails
<1>4. o \in Operations /\ RowOf(o) \in RowIds /\ o.n <= opened[o.key]
      /\ RowOf(o)[1] = o.key /\ RowOf(o)[2] = o.n
  <2>1. o \in Operations
    BY <1>2
  <2>2. RowOf(o) = <<o.key, o.n>> /\ o.key \in Keys /\ o.n \in 1 .. MaxAlerts
    BY <2>1 DEF RowOf, Operations, Ids
  <2>3. o.n <= opened[o.key]
    BY <1>2, <1>3 DEF Orderly, IdsInOrder
  <2> QED BY <1>3, <2>1, <2>2, <2>3 DEF RowIds
<1>5. Apply(o) => rows' = [rows EXCEPT ![RowOf(o)] = Applied(@, o)]
  BY DEF Apply
<1> HIDE DEF o
<1>6. AcksWaiting'
  <2> SUFFICES ASSUME NEW i \in 1 .. Len(queue'), queue'[i].op = "ack"
               PROVE  /\ Settled(active, RowOf(queue'[i]))
                      /\ \A j \in (i + 1) .. Len(queue') :
                           RowOf(queue'[j]) = RowOf(queue'[i]) => ~ Loud(queue'[j])
    BY <1>1 DEF AcksWaiting
  <2>1. i + 1 \in 1 .. Len(queue) /\ queue'[i] = queue[i + 1] /\ queue[i + 1].op = "ack"
    BY <1>2
  <2>2. /\ Settled(active, RowOf(queue[i + 1]))
        /\ \A j \in (i + 1) + 1 .. Len(queue) : RowOf(queue[j]) = RowOf(queue[i + 1]) => ~ Loud(queue[j])
    BY <2>1 DEF AckInv, AcksWaiting
  <2>3. \A j \in (i + 1) .. Len(queue') : /\ j \in 1 .. Len(queue')
                                          /\ j + 1 \in (i + 1) + 1 .. Len(queue)
    BY <1>2
  <2> QED BY <1>2, <2>1, <2>2, <2>3
<1>7. ASSUME NEW a \in ackOk'
      PROVE  /\ Settled(active', a)
             /\ rows'[a].status # "firing" /\ a[2] <= opened'[a[1]]
             /\ \A j \in 1 .. Len(queue') : RowOf(queue'[j]) = a => ~ Loud(queue'[j])
  <2>1. CASE a \in ackOk
    <3>1. /\ Settled(active, a) /\ rows[a].status # "firing" /\ a[2] <= opened[a[1]]
          /\ \A j \in 1 .. Len(queue) : RowOf(queue[j]) = a => ~ Loud(queue[j])
      BY <1>3, <2>1 DEF AckInv, AcksAnswered
    <3>2. rows'[a].status # "firing"
      <4>1. CASE rows' = rows
        BY <3>1, <4>1
      <4>2. CASE Apply(o) /\ RowOf(o) = a
        <5>1. rows'[a] = Applied(rows[a], o) /\ rows[a] \in RowStates
          BY <1>2, <1>4, <1>5, <4>2
        <5>2. ~ Loud(o)
          BY <1>2, <3>1, <4>2
        <5> QED BY <1>4, <3>1, <5>1, <5>2, QuietApplied
      <4>3. CASE Apply(o) /\ RowOf(o) # a
        <5>1. a \in RowIds
          BY <1>3, <2>1 DEF TypeOK, HistoryTyped, RowIds, Ids
        <5> QED BY <1>2, <1>5, <3>1, <4>3, <5>1
      <4> QED BY <1>1, <4>1, <4>2, <4>3
    <3> QED BY <1>1, <1>2, <3>1, <3>2
  <2>2. CASE a = RowOf(o) /\ Apply(o) /\ o.op = "ack"
    <3>1. /\ Settled(active, RowOf(o))
          /\ \A j \in 2 .. Len(queue) : RowOf(queue[j]) = RowOf(o) => ~ Loud(queue[j])
      <4>1. queue[1].op = "ack" /\ 1 + 1 = 2
        BY <1>2, <2>2
      <4> QED BY <1>2, <4>1 DEF AckInv, AcksWaiting
    <3>2. rows'[a] = Applied(rows[a], o) /\ rows[a] \in RowStates
          /\ (rows[a].status = "none" => rows[a] = NoRow)
      BY <1>2, <1>4, <1>5, <2>2 DEF Orderly, RowsPlain, Plain
    <3>3. rows'[a].status # "firing"
      BY <1>4, <2>2, <3>2, AckApplied
    <3>4. \A j \in 1 .. Len(queue') : j + 1 \in 2 .. Len(queue)
      BY <1>2
    <3>5. a[2] <= opened'[a[1]]
      BY <1>1, <1>4, <2>2
    <3> QED BY <1>1, <1>2, <2>2, <3>1, <3>3, <3>4, <3>5
  <2> QED BY <1>1, <2>1, <2>2
<1>8. AcksAnswered'
  BY <1>7 DEF AcksAnswered
<1> QED BY <1>1, <1>6, <1>8 DEF AckInv, AckedStaysQuiet

\* Time makes nothing fire.
LEMMA TickQuiet ==
  ASSUME TypeOK, TypeOK', AckInv, Tick
  PROVE  AckInv'
<1>1. /\ UNCHANGED <<opened, ackOk, nagged>>
      /\ active' = [k \in Keys |-> [active[k] EXCEPT !.lastFired = Older(@)]]
      /\ queue' = [i \in DOMAIN queue |-> [queue[i] EXCEPT !.at = Older(@)]]
      /\ rows' = [a \in DOMAIN rows |-> [rows[a] EXCEPT !.lastFired = Older(@)]]
  BY DEF Tick
<1>2. /\ active \in [Keys -> Alerts] /\ ackOk \subseteq Keys \X Ids
      /\ queue \in Seq(Operations) /\ rows \in [RowIds -> RowStates]
      /\ queue' \in Seq(Operations)
  BY DEF TypeOK, AlertsTyped, StoreTyped, HistoryTyped
<1>3. \A k \in Keys : active'[k].n = active[k].n /\ active'[k].status = active[k].status
  BY <1>1, <1>2 DEF Alerts
<1>4. \A a \in RowIds : rows'[a].status = rows[a].status
  <2> SUFFICES ASSUME NEW a \in RowIds PROVE rows'[a].status = rows[a].status
    OBVIOUS
  <2>1. rows[a] \in RowStates /\ rows'[a] = [rows[a] EXCEPT !.lastFired = Older(@)]
    BY <1>1, <1>2
  <2> QED BY <2>1 DEF RowStates
<1>5. Len(queue') = Len(queue) /\ \A i \in 1 .. Len(queue) :
         /\ queue'[i].op = queue[i].op /\ queue'[i].status = queue[i].status
         /\ RowOf(queue'[i]) = RowOf(queue[i]) /\ RowOf(queue[i])[1] \in Keys
  <2>1. Len(queue') = Len(queue) /\ DOMAIN queue = 1 .. Len(queue)
    BY <1>1, <1>2
  <2> SUFFICES ASSUME NEW i \in 1 .. Len(queue)
               PROVE  /\ queue'[i].op = queue[i].op /\ queue'[i].status = queue[i].status
                      /\ RowOf(queue'[i]) = RowOf(queue[i]) /\ RowOf(queue[i])[1] \in Keys
    BY <2>1
  <2>2. queue[i] \in Operations /\ queue'[i] = [queue[i] EXCEPT !.at = Older(@)]
    BY <1>1, <1>2, <2>1
  <2> QED BY <2>2 DEF Operations, RowOf
<1>6. \A i \in 1 .. Len(queue) : Loud(queue'[i]) <=> Loud(queue[i])
  BY <1>5 DEF Loud
<1>7. \A a : a[1] \in Keys /\ Settled(active, a) => Settled(active', a)
  BY <1>3 DEF Settled
<1>8. AcksWaiting'
  <2> SUFFICES ASSUME NEW i \in 1 .. Len(queue), queue[i].op = "ack"
               PROVE  /\ Settled(active', RowOf(queue'[i]))
                      /\ \A j \in (i + 1) .. Len(queue) :
                           RowOf(queue'[j]) = RowOf(queue'[i]) => ~ Loud(queue'[j])
    BY <1>5 DEF AcksWaiting
  <2>1. /\ Settled(active, RowOf(queue[i]))
        /\ \A j \in (i + 1) .. Len(queue) : RowOf(queue[j]) = RowOf(queue[i]) => ~ Loud(queue[j])
    BY DEF AckInv, AcksWaiting
  <2>2. \A j \in (i + 1) .. Len(queue) : j \in 1 .. Len(queue)
    BY <1>2
  <2> QED BY <1>5, <1>6, <1>7, <2>1, <2>2
<1>9. AcksAnswered'
  <2> SUFFICES ASSUME NEW a \in ackOk
               PROVE  /\ Settled(active', a)
                      /\ HasDb => /\ rows'[a].status # "firing" /\ a[2] <= opened[a[1]]
                                  /\ \A j \in 1 .. Len(queue) : RowOf(queue'[j]) = a => ~ Loud(queue'[j])
    BY <1>1, <1>5 DEF AcksAnswered
  <2>1. a[1] \in Keys /\ a[2] \in Ids /\ a = <<a[1], a[2]>>
    BY <1>2
  <2>2. HasDb => a \in RowIds
    BY <2>1 DEF RowIds, Ids
  <2> QED BY <1>4, <1>5, <1>6, <1>7, <2>1, <2>2 DEF AckInv, AcksAnswered
<1> QED BY <1>1, <1>8, <1>9 DEF AckInv, AckedStaysQuiet

\* A crash drops only what waits.
LEMMA CrashQuiet ==
  ASSUME TypeOK, AckInv, Crash
  PROVE  AckInv'
<1>1. /\ queue' = <<>> /\ UNCHANGED <<rows, opened, ackOk, nagged>>
      /\ \A k \in Keys : active'[k].n = 0
  BY EmptyTyped DEF Crash
<1>2. \A i \in 1 .. Len(queue') : FALSE
  BY <1>1
<1>3. \A a \in ackOk : a[1] \in Keys /\ a[2] # 0
  BY DEF TypeOK, HistoryTyped, Ids
<1>4. \A a \in ackOk : Settled(active', a)
  BY <1>1, <1>3 DEF Settled
<1> QED BY <1>1, <1>2, <1>4 DEF AckInv, AcksWaiting, AcksAnswered, AckedStaysQuiet

\* A restored alert has the status of its row.
LEMMA StartQuiet ==
  ASSUME TypeOK, TypeOK', Orderly, AckInv, NEW config \in Configs, Start(config)
  PROVE  AckInv'
<1> DEFINE kept == Kept(config)
           IdOf(k) == CHOOSE n \in 1 .. MaxAlerts : <<k, n>> \in kept
           D == {ResolveOp(a[1], a[2]) : a \in Discarded(config)}
           Back == {a[1] : a \in kept}
<1>1. /\ UNCHANGED <<rows, opened, ackOk, nagged>> /\ SubmitAll(D) /\ queue = <<>>
  BY DEF Start, Orderly, Idle, history
<1>2. \A k \in Keys : active'[k] = IF k \in Back
          THEN [n |-> IdOf(k), status |-> rows[<<k, IdOf(k)>>].status,
                fired |-> rows[<<k, IdOf(k)>>].fired,
                lastFired |-> rows[<<k, IdOf(k)>>].lastFired]
          ELSE NoAlert
  BY DEF Start
<1>3. /\ \A k \in Back : \E n \in Ids : <<k, n>> \in kept
      /\ \A a \in kept : rows[a].status \in {"firing", "acknowledged"} /\ a \in RowIds
      /\ Discarded(config) \subseteq Keys \X Ids /\ IsFiniteSet(Discarded(config))
  BY KeptRows DEF TypeOK, Kept, OpenRows, StoreTyped
<1>4. \A k \in Back : <<k, IdOf(k)>> \in kept
  <2> SUFFICES ASSUME NEW k \in Back PROVE <<k, IdOf(k)>> \in kept
    OBVIOUS
  <2>1. \E n \in 1 .. MaxAlerts : <<k, n>> \in kept
    BY <1>3 DEF Ids
  <2> HIDE DEF kept
  <2> QED BY <2>1
<1> HIDE DEF kept, IdOf, Back
<1>5. ASSUME NEW a \in ackOk PROVE Settled(active', a)
  <2>1. a = <<a[1], a[2]>> /\ a[1] \in Keys /\ a[2] # 0
    BY DEF TypeOK, HistoryTyped, Ids
  <2>2. CASE a[1] \in Back
    <3>1. active'[a[1]] = [n |-> IdOf(a[1]), status |-> rows[<<a[1], IdOf(a[1])>>].status,
                           fired |-> rows[<<a[1], IdOf(a[1])>>].fired,
                           lastFired |-> rows[<<a[1], IdOf(a[1])>>].lastFired]
      BY <1>2, <2>1, <2>2
    <3>2. active'[a[1]].n = a[2] => active'[a[1]].status = rows[a].status /\ a \in kept
      BY <1>4, <2>1, <2>2, <3>1
    <3>3. a \in kept => HasDb
      BY <1>3 DEF RowIds
    <3>4. HasDb => rows[a].status # "firing"
      BY DEF AckInv, AcksAnswered
    <3> QED BY <1>3, <3>2, <3>3, <3>4 DEF Settled
  <2>3. CASE a[1] \notin Back
    <3>1. active'[a[1]] = NoAlert
      BY <1>2, <2>1, <2>3
    <3> QED BY <2>1, <3>1 DEF Settled, NoAlert
  <2> QED BY <2>2, <2>3
<1>6. \A i \in 1 .. Len(queue') : queue'[i].op = "resolve"
  <2>1. CASE ~ HasDb
    BY <1>1, <2>1 DEF SubmitAll
  <2>2. CASE HasDb
    <3>1. IsFiniteSet(D)
      <4>1. [a \in Discarded(config) |-> ResolveOp(a[1], a[2])] \in Surjection(Discarded(config), D)
        BY DEF Surjection
      <4> QED BY <1>3, <4>1, FS_Surjection
    <3>2. \A o \in D : o.op = "resolve"
      BY DEF ResolveOp, Op
    <3>0. D \subseteq Operations
      <4>1. \A a \in Discarded(config) : ResolveOp(a[1], a[2]) \in Operations
        BY <1>3, WritesTyped DEF TypeOK
      <4> QED BY <4>1
    <3> HIDE DEF D
    <3>3. PICK s \in Orderings(D) : queue' = queue \o s
      BY <1>1, <2>2 DEF SubmitAll, Submit
    <3>4. Cardinality(D) \in Nat /\ s \in [1 .. Cardinality(D) -> D]
      BY <3>1, OrderingHasAll
    <3>5. s \in Seq(D) /\ queue' = s
      BY <1>1, <3>3, <3>4
    <3>6. \A i \in 1 .. Len(s) : s[i] \in D
      BY <3>5
    <3> QED BY <3>2, <3>5, <3>6
  <2> QED BY <2>1, <2>2
<1>7. AcksWaiting'
  BY <1>6 DEF AcksWaiting
<1>8. \A i \in 1 .. Len(queue') : ~ Loud(queue'[i])
  BY <1>6 DEF Loud
<1> QED BY <1>1, <1>5, <1>7, <1>8 DEF AckInv, AcksAnswered, AckedStaysQuiet

\* Every step keeps acknowledged alerts quiet.
LEMMA QuietNext ==
  TypeOK /\ TypeOK' /\ Orderly /\ AckInv /\ [Next]_vars => AckInv'
<1> SUFFICES ASSUME TypeOK, TypeOK', Orderly, AckInv, [Next]_vars PROVE AckInv'
  OBVIOUS
<1>1. ASSUME NEW d \in Devices, NEW r \in Reports, DeviceStatusUpdate(d, r) PROVE AckInv'
  BY <1>1, StatusUpdateChanges, HandledQuiet
<1>2. ASSUME NEW d \in Devices, NEW m \in EdgeMetrics, IngestDeviceAlert(m, d) PROVE AckInv'
  BY <1>2, MessagesChange, HandledQuiet
<1>3. ASSUME NEW d \in Devices, NEW t \in PredTypes, NEW f \in Forecasts, PredictionResult(t, d, f)
      PROVE  AckInv'
  BY <1>3, MessagesChange, HandledQuiet
<1>4. ASSUME NEW d \in Devices, DeviceRemoved(d) PROVE AckInv'
  BY <1>4, MessagesChange, HandledQuiet
<1>5. ASSUME NEW e \in Connecting, EdgeSeen(e) \/ EdgeDisconnected(e) PROVE AckInv'
  <2>1. e \in Edges
    BY ConstantsAssumption
  <2> QED BY <1>5, <2>1, MessagesChange, HandledQuiet
<1>6. ASSUME NEW k \in Keys, NEW n \in 1 .. MaxAlerts, AcknowledgeAlert(k, n) \/ ResolveAlert(k, n)
      PROVE  AckInv'
  BY <1>6, OperatorQuiet DEF Ids
<1>7. CASE Sweep
  BY <1>7, SweepChanges, HandledQuiet
<1>8. CASE WriterStep \/ WriterFails
  BY <1>8, WriterQuiet
<1>9. CASE Tick
  BY <1>9, TickQuiet
<1>10. CASE Crash
  BY <1>10, CrashQuiet
<1>11. ASSUME NEW config \in Configs, Start(config) PROVE AckInv'
  BY <1>11, StartQuiet
<1>12. CASE UNCHANGED vars
  <2>1. UNCHANGED <<active, opened, queue, rows, ackOk, nagged>>
    BY <1>12 DEF vars, memory, store, history
  <2> QED BY <2>1 DEF AckInv, AcksWaiting, AcksAnswered, AckedStaysQuiet
<1> QED BY <1>1, <1>2, <1>3, <1>4, <1>5, <1>6, <1>7, <1>8, <1>9, <1>10, <1>11, <1>12 DEF Next

\* At first nothing is acknowledged.
LEMMA QuietInit == Init => AckInv
<1> SUFFICES ASSUME Init PROVE AckInv
  OBVIOUS
<1>1. queue = <<>> /\ ackOk = {} /\ nagged = {}
  BY DEF Init
<1>2. \A i \in 1 .. Len(queue) : FALSE
  BY <1>1
<1> QED BY <1>1, <1>2 DEF AckInv, AcksWaiting, AcksAnswered, AckedStaysQuiet

\* An alert whose acknowledgement was answered Ok is never notified again: no
\* restart and no failed write makes its row, or the alert read from it, fire again
\* (AcknowledgeAlert, AlertRepository::upsert and set_status, restore_state).
THEOREM AcksAreKept == Spec => []AckedStaysQuiet
<1>1. TypeOK /\ TypeOK' /\ Orderly /\ AckInv /\ [Next]_vars => AckInv'
  BY QuietNext
<1>2. Init => AckInv
  BY QuietInit
<1>3. AckInv => AckedStaysQuiet
  BY DEF AckInv
<1> QED BY <1>1, <1>2, <1>3, TypeCorrect, OrderlyAlways, PTL DEF Spec

\* Status and count of every alert are kept in the table, over crashes, and
\* acknowledgements over failed writes too.
THEOREM StatusKept == Spec => []StatusIsKept
<1>1. AckedStaysQuiet /\ DrainedDbAgrees => StatusIsKept
  BY DEF StatusIsKept
<1> QED BY <1>1, AcksAreKept, TableFollows, PTL

-----------------------------------------------------------------------------
(* Alerts of restored devices *)

\* Only what a handler resolves ends.
LEMMA EndedByChange ==
  ASSUME TypeOK, NEW open, NEW refire, NEW resolve, NEW touch, NEW excused, NEW lost,
         Clean(open, refire, resolve), Change(open, refire, resolve, touch, excused, lost),
         NEW k \in Keys, IsActive(k), active'[k].n = 0
  PROVE  k \in resolve
<1> SUFFICES ASSUME k \notin resolve PROVE FALSE
  OBVIOUS
<1>1. k \notin open /\ active[k] \in Alerts
  BY DEF Clean, TypeOK, AlertsTyped
<1>2. active'[k] = CASE k \in open    -> Opened(k)
                     [] k \in refire  -> Refired(active[k])
                     [] k \in resolve -> NoAlert
                     [] OTHER         -> active[k]
  BY DEF Change
<1>3. active'[k] = Refired(active[k]) \/ active'[k] = active[k]
  BY <1>1, <1>2
<1>4. Refired(active[k]).n = active[k].n
  BY <1>1 DEF Refired, Alerts
<1> QED BY <1>3, <1>4 DEF IsActive

RestoredStep ==
  \A k \in RuleKeys :
       /\ IsActive(k) /\ active'[k].n = 0 /\ up'
       /\ devices[k[2]].restored /\ devices'[k[2]].restored
       => byHand'[k] = 0

\* No alert of a rule ends.
LEMMA NothingEnds ==
  ASSUME \A k \in RuleKeys : IsActive(k) => active'[k].n # 0
  PROVE  RestoredStep
BY DEF RestoredStep

\* Alerts and predictions reported by edges end no alert of a rule.
LEMMA ReportedEndsNoRule ==
  ASSUME TypeOK, NEW j \in TtlKeys, RaiseReported(j) \/ NoChange
  PROVE  RestoredStep
<1> SUFFICES ASSUME NEW k \in RuleKeys, IsActive(k), active'[k].n = 0 PROVE FALSE
  BY NothingEnds
<1>1. k \in Keys /\ k # j /\ j \in Keys
  BY RuleKeysApart, KeySets
<1>2. CASE NoChange
  BY <1>2 DEF NoChange, IsActive
<1>3. CASE RaiseReported(j) /\ IsActive(j)
  <2>1. PICK refire \in SUBSET {j} : Change({}, refire, {}, {j}, {}, {})
    BY <1>3 DEF RaiseReported
  <2>2. Clean({}, refire, {})
    BY <1>1, <1>3 DEF Clean
  <2> DEFINE none == {}
  <2>3. Clean(none, refire, none) /\ Change(none, refire, none, {j}, none, none)
    BY <2>1, <2>2
  <2> HIDE DEF none
  <2>4. k \in none
    BY <1>1, <2>3, EndedByChange
  <2> QED BY <2>4 DEF none
<1>4. CASE RaiseReported(j) /\ ~ IsActive(j) /\ ~ NoChange
  <2>1. Change({j}, {}, {}, {}, {}, {})
    BY <1>4 DEF RaiseReported
  <2>2. Clean({j}, {}, {})
    BY <1>1, <1>4 DEF Clean
  <2> DEFINE none == {}
             only == {j}
  <2>3. Clean(only, none, none) /\ Change(only, none, none, none, none, none)
    BY <2>1, <2>2
  <2> HIDE DEF none, only
  <2>4. k \in none
    BY <1>1, <2>3, EndedByChange
  <2> QED BY <2>4 DEF none
<1> QED BY <1>2, <1>3, <1>4

\* A report ends alerts of its own device, which is live from then on.
LEMMA StatusUpdateRestored ==
  ASSUME TypeOK, NEW d \in Devices, NEW report \in Reports, DeviceStatusUpdate(d, report)
  PROVE  RestoredStep
<1> USE DEF TypeOK
<1> DEFINE known == devices[d]
           x == Context(d, report.status, IF known.known THEN known.status ELSE NoStatus,
                        report.reading, 0)
           holding == KeysOf(Holding(x, FALSE), d)
           over == KeysOf(Cleared(x), d)
           healed == IF report.status = Healthy THEN EdgeMetrics \X {d} ELSE {}
           back == {OfflineKey(EdgeOf[d])}
           resolve == Active(over \cup healed \cup back)
           open == {k \in Unheld(holding) : BelowCap(k)}
<1> SUFFICES ASSUME NEW k \in RuleKeys, IsActive(k), active'[k].n = 0
             PROVE  ~ devices'[k[2]].restored
  BY DEF RestoredStep
<1>1. Change(open, RuleRefires(holding), resolve, {}, back, {})
  BY DEF DeviceStatusUpdate
<1>2. /\ holding \subseteq RuleKeys /\ over \subseteq RuleKeys /\ holding \cap over = {}
      /\ \A j \in over : j[2] = d
  <2>1. \A y : /\ KeysOf(Holding(y, FALSE), d) \subseteq RuleKeys
               /\ KeysOf(Cleared(y), d) \subseteq RuleKeys
               /\ KeysOf(Holding(y, FALSE), d) \cap KeysOf(Cleared(y), d) = {}
               /\ \A j \in KeysOf(Cleared(y), d) : j[2] = d
    BY RuleSets, HoldingApart
  <2> HIDE DEF x
  <2> QED BY <2>1
<1>3. healed \subseteq TtlKeys /\ back \subseteq OfflineKeys
  BY KeySets, ConstantsAssumption DEF EdgeKeys
<1>4. devices'[d].restored = FALSE
  BY DEF DeviceStatusUpdate, KnownTyped
<1> HIDE DEF holding, over, healed, back
<1>5. Clean(open, RuleRefires(holding), resolve)
  <2>1. RuleRefires(holding) \subseteq holding /\ resolve \subseteq over \cup healed \cup back
    BY Candidates
  <2>2. open \subseteq holding
    BY Candidates
  <2>3. RuleRefires(holding) \cap resolve = {}
    BY <1>2, <1>3, <2>1, RuleKeysApart
  <2>4. open \subseteq Keys /\ RuleRefires(holding) \subseteq Keys /\ resolve \subseteq Keys
    BY <1>2, <1>3, <2>1, <2>2, KeySets
  <2> QED BY <2>3, <2>4, Candidates DEF Clean
<1>6. k \in resolve
  <2> DEFINE none == {}
  <2>1. Change(open, RuleRefires(holding), resolve, none, back, none) /\ k \in Keys
    BY <1>1, RuleKeysApart
  <2> HIDE DEF none, open, resolve
  <2> QED BY <1>5, <2>1, EndedByChange
<1>7. k \in over
  <2>1. resolve \subseteq over \cup healed \cup back
    BY Candidates
  <2> QED BY <1>3, <1>6, <2>1, RuleKeysApart
<1> QED BY <1>2, <1>4, <1>7

\* A sweep ends alerts of devices that reported, and no others.
LEMMA SweepRestored ==
  ASSUME TypeOK, Sweep
  PROVE  RestoredStep
<1> USE DEF TypeOK
<1>2. PICK holding, ended, cleared, fresh, clock : \E opening \in SUBSET Unheld(holding) :
              /\ holding \subseteq RuleKeys
              /\ cleared \subseteq RuleKeys
              /\ \A k \in cleared : IsActive(k) /\ ~ devices[k[2]].restored
              /\ holding \cap cleared = {}
              /\ fresh \subseteq Edges
              /\ Swept(holding, ended, cleared, fresh, clock, opening)
  BY SweepParts
<1>3. PICK opening \in SUBSET Unheld(holding) :
         Swept(holding, ended, cleared, fresh, clock, opening)
  BY <1>2
<1> DEFINE back == {OfflineKey(e) : e \in fresh}
           silent == {OfflineKey(e) : e \in Silent(clock, fresh)}
           open == opening \cup silent
           resolve == cleared \cup Expired \cup Active(back)
           stale == {d \in Devices : /\ devices[d].known /\ d \notin Alerted(resolve, opening)
                                     /\ devices[d].seen > Retention}
           dropped == {k \in DeviceKeys : k[2] \in stale \/ hold[k] > Retention}
<1>4. Change(open, RuleRefires(holding), resolve, {}, back, dropped)
  BY <1>3 DEF Swept
<1>5. silent \subseteq OfflineKeys /\ \A k \in silent : ~ IsActive(k)
  <2>1. \A e \in Silent(clock, fresh) : e \in Edges /\ ~ IsActive(OfflineKey(e))
    BY DEF Silent
  <2> QED BY <2>1, KeySets
<1>6. Expired \subseteq TtlKeys /\ \A k \in Expired : IsActive(k)
  BY Candidates, KeySets DEF Expired
<1>7. Active(back) \subseteq OfflineKeys /\ \A k \in Active(back) : IsActive(k)
  BY <1>2, Candidates, KeySets
<1> HIDE DEF silent, back
<1>8. Clean(open, RuleRefires(holding), resolve)
  <2>1. RuleRefires(holding) \subseteq holding /\ opening \subseteq holding
    BY Candidates
  <2>2. RuleRefires(holding) \cap resolve = {}
    BY <1>2, <1>6, <1>7, <2>1, RuleKeysApart
  <2>3. open \subseteq Keys /\ RuleRefires(holding) \subseteq Keys /\ resolve \subseteq Keys
    BY <1>2, <1>5, <1>6, <1>7, <2>1, KeySets
  <2>4. \A k \in open : ~ IsActive(k)
    BY <1>5, Candidates
  <2>5. \A k \in RuleRefires(holding) \cup resolve : IsActive(k)
    BY <1>2, <1>6, <1>7, Candidates
  <2> HIDE DEF open, resolve
  <2> QED BY <2>2, <2>3, <2>4, <2>5 DEF Clean
<1> SUFFICES ASSUME NEW k \in RuleKeys, IsActive(k), active'[k].n = 0
             PROVE  ~ devices[k[2]].restored
  BY DEF RestoredStep
<1>9. k \in resolve
  <2> DEFINE none == {}
  <2>1. Change(open, RuleRefires(holding), resolve, none, back, dropped) /\ k \in Keys
    BY <1>4, RuleKeysApart
  <2> HIDE DEF none, open, resolve, dropped
  <2> QED BY <1>8, <2>1, EndedByChange
<1>10. k \in cleared
  BY <1>6, <1>7, <1>9, RuleKeysApart
<1> QED BY <1>2, <1>10

\* No step ends an alert of a restored device other than by hand.
LEMMA RestoredNext ==
  TypeOK /\ TypeOK' /\ Orderly /\ [Next]_vars => [RestoredStep]_vars
<1> SUFFICES ASSUME TypeOK, TypeOK', Orderly, Next PROVE RestoredStep
  OBVIOUS
<1>1. ASSUME NEW d \in Devices, NEW r \in Reports, DeviceStatusUpdate(d, r) PROVE RestoredStep
  BY <1>1, StatusUpdateRestored
<1>2. ASSUME NEW d \in Devices, NEW m \in EdgeMetrics, IngestDeviceAlert(m, d) PROVE RestoredStep
  <2>1. <<m, d>> \in TtlKeys
    BY DEF TtlKeys, EdgeKeys
  <2> QED BY <1>2, <2>1, ReportedEndsNoRule DEF IngestDeviceAlert
<1>3. ASSUME NEW d \in Devices, NEW t \in PredTypes, NEW f \in Forecasts, PredictionResult(t, d, f)
      PROVE  RestoredStep
  <2>1. <<t, d>> \in TtlKeys
    BY DEF TtlKeys, PredKeys
  <2>2. RaiseReported(<<t, d>>) \/ NoChange
    BY <1>3 DEF PredictionResult
  <2> QED BY <2>1, <2>2, ReportedEndsNoRule
<1>4. ASSUME NEW d \in Devices, DeviceRemoved(d) PROVE RestoredStep
  <2> DEFINE mine == KeysOfDevice(d)
             none == {}
  <2>1. mine \subseteq Keys /\ \A k \in mine : k[2] = d
    BY KeySets DEF KeysOfDevice
  <2>2. Change(none, none, Active(mine), none, mine, none)
    BY <1>4 DEF DeviceRemoved
  <2>3. ~ devices'[d].restored
    BY <1>4 DEF DeviceRemoved, Forget, NoDevice
  <2> HIDE DEF mine
  <2>4. Clean(none, none, Active(mine))
    BY <2>1, Candidates DEF Clean
  <2> HIDE DEF none
  <2>5. ASSUME NEW k \in RuleKeys, IsActive(k), active'[k].n = 0 PROVE ~ devices'[k[2]].restored
    <3>1. k \in Active(mine)
      BY <2>2, <2>4, <2>5, EndedByChange, RuleKeysApart
    <3> QED BY <2>1, <2>3, <3>1, Candidates
  <2> QED BY <2>5 DEF RestoredStep
<1>5. ASSUME NEW e \in Connecting, EdgeSeen(e) PROVE RestoredStep
  <2> DEFINE back == {OfflineKey(e)}
             none == {}
  <2>1. back \subseteq Keys /\ back \subseteq OfflineKeys
    BY KeySets, ConstantsAssumption
  <2>2. Change(none, none, Active(back), none, back, none)
    BY <1>5 DEF EdgeSeen
  <2> HIDE DEF back
  <2>3. Clean(none, none, Active(back))
    BY <2>1, Candidates DEF Clean
  <2> HIDE DEF none
  <2>4. ASSUME NEW k \in RuleKeys, IsActive(k), active'[k].n = 0 PROVE FALSE
    <3>1. k \in Active(back)
      BY <2>2, <2>3, <2>4, EndedByChange, RuleKeysApart
    <3> QED BY <2>1, <3>1, Candidates, RuleKeysApart
  <2> QED BY <2>4, NothingEnds
<1>6. ASSUME NEW e \in Connecting, EdgeDisconnected(e) PROVE RestoredStep
  BY <1>6, NothingEnds DEF EdgeDisconnected, NoChange, IsActive
<1>7. ASSUME NEW k \in Keys, NEW n \in 1 .. MaxAlerts, AcknowledgeAlert(k, n) PROVE RestoredStep
  <2>1. \A j \in Keys : active'[j].n = active[j].n
    BY <1>7 DEF AcknowledgeAlert, TypeOK, AlertsTyped, Alerts
  <2> QED BY <2>1, NothingEnds, RuleKeysApart DEF IsActive
<1>8. ASSUME NEW k \in Keys, NEW n \in 1 .. MaxAlerts, ResolveAlert(k, n) PROVE RestoredStep
  <2>1. \A j \in Keys : active'[j].n = active[j].n \/ (j = k /\ byHand'[j] = 0)
    BY <1>8 DEF ResolveAlert, TypeOK, AlertsTyped, HistoryTyped
  <2> QED BY <2>1, RuleKeysApart DEF RestoredStep, IsActive
<1>9. CASE Sweep
  BY <1>9, SweepRestored
<1>10. CASE WriterStep \/ WriterFails
  BY <1>10, NothingEnds DEF WriterStep, WriterFails, memory, IsActive
<1>11. CASE Tick
  <2>1. \A j \in Keys : active'[j].n = active[j].n
    BY <1>11 DEF Tick, TypeOK, AlertsTyped, Alerts
  <2> QED BY <2>1, NothingEnds, RuleKeysApart DEF IsActive
<1>12. CASE Crash
  BY <1>12 DEF Crash, RestoredStep
<1>13. ASSUME NEW config \in Configs, Start(config) PROVE RestoredStep
  BY <1>13, RuleKeysApart DEF Start, Orderly, Idle, RestoredStep
<1> QED BY <1>1, <1>2, <1>3, <1>4, <1>5, <1>6, <1>7, <1>8, <1>9, <1>10, <1>11, <1>12, <1>13 DEF Next

\* State read from the database ends no alert of a rule: until the device reports
\* again, or is removed, only an operator does (run_sweep, restore_state).
THEOREM RestoredAlertsStay == Spec => RestoredKeepsAlerts
<1>1. TypeOK /\ TypeOK' /\ Orderly /\ [Next]_vars => [RestoredStep]_vars
  BY RestoredNext
<1>2. [][RestoredStep]_vars => RestoredKeepsAlerts
  BY DEF RestoredStep, RestoredKeepsAlerts
<1>3. Spec => [][RestoredStep]_vars
  BY <1>1, TypeCorrect, OrderlyAlways, PTL DEF Spec
<1> QED BY <1>2, <1>3

-----------------------------------------------------------------------------
(* The cap of a rule: how many of its alerts a handler leaves *)

\* The keys of the alerts of a rule.
Firing(alerts, r) == {k \in RuleKeys : k[1] = r /\ alerts[k].n # 0}

\* FiringCount counts the alerts of the rule.
LEMMA FiringKeys ==
  \A r \in Rules : /\ FiringCount(r) = Cardinality(Firing(active, r))
                   /\ IsFiniteSet(Firing(active, r)) /\ Cardinality(Firing(active, r)) \in Nat
<1> SUFFICES ASSUME NEW r \in Rules
             PROVE  /\ FiringCount(r) = Cardinality(Firing(active, r))
                    /\ IsFiniteSet(Firing(active, r)) /\ Cardinality(Firing(active, r)) \in Nat
  OBVIOUS
<1> DEFINE D == {d \in Devices : IsActive(<<r, d>>)}
           f == [d \in D |-> <<r, d>>]
<1>1. IsFiniteSet(D)
  BY FiniteAssumption, FS_Subset
<1>2. \A k \in Firing(active, r) : k[2] \in D /\ k = <<r, k[2]>>
  BY DEF Firing, RuleKeys, IsActive
<1>3. \A d \in D : <<r, d>> \in Firing(active, r)
  BY DEF Firing, RuleKeys, IsActive
<1> HIDE DEF D
<1>4. f \in Bijection(D, Firing(active, r))
  BY <1>2, <1>3 DEF Bijection, Injection, IsInjective, Surjection
<1>5. ExistsBijection(D, Firing(active, r))
  BY <1>4 DEF ExistsBijection
<1>6. /\ IsFiniteSet(Firing(active, r)) /\ Cardinality(Firing(active, r)) = Cardinality(D)
      /\ Cardinality(D) \in Nat
  BY <1>1, <1>5, FS_Bijection, FS_CardinalityType
<1> QED BY <1>6 DEF FiringCount, D

\* The same, of the next state.
LEMMA FiringKeysNext ==
  (\A r \in Rules : /\ FiringCount(r) = Cardinality(Firing(active, r))
                    /\ IsFiniteSet(Firing(active, r)) /\ Cardinality(Firing(active, r)) \in Nat)'
BY FiringKeys, PTL

\* Without a restart that reads the table.
CapKept == ~ HasDb \/ restarts = 0 => CapRespected

\* Where no alert of a rule is opened the cap is kept.
LEMMA NoMoreFire ==
  ASSUME CapKept, ~ HasDb \/ restarts' = 0 => ~ HasDb \/ restarts = 0,
         \A k \in RuleKeys : active'[k].n # 0 => IsActive(k)
  PROVE  CapKept'
<1> SUFFICES ASSUME ~ HasDb \/ restarts' = 0, NEW r \in Rules
             PROVE  Cardinality(Firing(active', r)) <= Greater(Cap[r], 0)
  BY FiringKeysNext DEF CapKept, CapRespected
<1>1. Firing(active', r) \subseteq Firing(active, r)
  BY DEF Firing, IsActive
<1>2. Cardinality(Firing(active', r)) <= Cardinality(Firing(active, r))
  BY <1>1, FiringKeys, FS_Subset
<1>3. Cardinality(Firing(active, r)) <= Greater(Cap[r], 0)
  BY FiringKeys DEF CapKept, CapRespected
<1>4. Cap[r] \in Int /\ Greater(Cap[r], 0) \in Int
  BY ConstantsAssumption DEF Greater
<1> QED BY <1>2, <1>3, <1>4, FiringKeys, FiringKeysNext

\* After a Change the alerts are those it opened and those it did not resolve.
LEMMA ChangedFires ==
  ASSUME TypeOK, NEW open, NEW refire, NEW resolve, NEW touch, NEW excused, NEW lost,
         Clean(open, refire, resolve), Change(open, refire, resolve, touch, excused, lost),
         NEW k \in Keys, active'[k].n # 0
  PROVE  k \in open \/ (IsActive(k) /\ k \notin resolve)
<1>1. k \in open \/ k \in refire \/ (IsActive(k) /\ k \notin resolve)
  BY ChangedActive DEF TypeOK, IsActive
<1> QED BY <1>1 DEF Clean

\* One more device fires a rule only below the cap.
LEMMA StatusUpdateCap ==
  ASSUME TypeOK, CapKept, NEW d \in Devices, NEW report \in Reports, DeviceStatusUpdate(d, report)
  PROVE  CapKept'
<1> USE DEF TypeOK
<1> DEFINE known == devices[d]
           x == Context(d, report.status, IF known.known THEN known.status ELSE NoStatus,
                        report.reading, 0)
           holding == KeysOf(Holding(x, FALSE), d)
           over == KeysOf(Cleared(x), d)
           healed == IF report.status = Healthy THEN EdgeMetrics \X {d} ELSE {}
           back == {OfflineKey(EdgeOf[d])}
           resolve == Active(over \cup healed \cup back)
           open == {k \in Unheld(holding) : BelowCap(k)}
<1>1. Change(open, RuleRefires(holding), resolve, {}, back, {}) /\ restarts' = restarts
  BY DEF DeviceStatusUpdate
<1>2. /\ holding \subseteq RuleKeys /\ over \subseteq RuleKeys /\ holding \cap over = {}
      /\ \A j \in holding : j[2] = d
  <2>1. \A y : /\ KeysOf(Holding(y, FALSE), d) \subseteq RuleKeys
               /\ KeysOf(Cleared(y), d) \subseteq RuleKeys
               /\ KeysOf(Holding(y, FALSE), d) \cap KeysOf(Cleared(y), d) = {}
               /\ \A j \in KeysOf(Holding(y, FALSE), d) : j[2] = d
    BY RuleSets, HoldingApart
  <2> HIDE DEF x
  <2> QED BY <2>1
<1>3. healed \subseteq TtlKeys /\ back \subseteq OfflineKeys
  BY KeySets, ConstantsAssumption DEF EdgeKeys
<1> HIDE DEF holding, over, healed, back
<1>5. Clean(open, RuleRefires(holding), resolve)
  <2>1. RuleRefires(holding) \subseteq holding /\ resolve \subseteq over \cup healed \cup back
    BY Candidates
  <2>2. open \subseteq holding
    BY Candidates
  <2>3. RuleRefires(holding) \cap resolve = {}
    BY <1>2, <1>3, <2>1, RuleKeysApart
  <2>4. open \subseteq Keys /\ RuleRefires(holding) \subseteq Keys /\ resolve \subseteq Keys
    BY <1>2, <1>3, <2>1, <2>2, KeySets
  <2> QED BY <2>3, <2>4, Candidates DEF Clean
<1>6. \A k \in open : k = <<k[1], d>> /\ FiringCount(k[1]) < Cap[k[1]] /\ k[1] \in Rules
  <2>1. \A k \in open : k \in holding /\ BelowCap(k)
    BY Candidates
  <2>2. \A k \in RuleKeys : k = <<k[1], k[2]>> /\ k[1] \in Rules
    BY DEF RuleKeys
  <2> QED BY <1>2, <2>1, <2>2 DEF BelowCap
<1>7. \A k \in RuleKeys : active'[k].n # 0 => IsActive(k) \/ k \in open
  <2> DEFINE none == {}
  <2>1. Change(open, RuleRefires(holding), resolve, none, back, none)
    BY <1>1
  <2> HIDE DEF none, open, resolve
  <2> QED BY <1>5, <2>1, ChangedFires, RuleKeysApart
<1> HIDE DEF open, resolve
<1> SUFFICES ASSUME ~ HasDb \/ restarts = 0, NEW r \in Rules
             PROVE  Cardinality(Firing(active', r)) <= Greater(Cap[r], 0)
  BY <1>1, FiringKeysNext DEF CapKept, CapRespected
<1>8. Cardinality(Firing(active, r)) <= Greater(Cap[r], 0)
  BY FiringKeys DEF CapKept, CapRespected
<1>9. Cap[r] \in Int /\ Greater(Cap[r], 0) \in Int /\ Cap[r] <= Greater(Cap[r], 0)
  BY ConstantsAssumption DEF Greater
<1>10. CASE <<r, d>> \in open
  <2>1. FiringCount(r) < Cap[r]
    <3>1. <<r, d>>[1] = r
      OBVIOUS
    <3> QED BY <1>6, <1>10, <3>1
  <2>2. Firing(active', r) \subseteq Firing(active, r) \cup {<<r, d>>}
    <3> SUFFICES ASSUME NEW k \in Firing(active', r) PROVE k \in Firing(active, r) \/ k = <<r, d>>
      OBVIOUS
    <3>1. k \in RuleKeys /\ k[1] = r /\ (IsActive(k) \/ k \in open)
      BY <1>7 DEF Firing
    <3> QED BY <1>6, <3>1 DEF Firing, IsActive
  <2>3. /\ IsFiniteSet(Firing(active, r) \cup {<<r, d>>})
        /\ Cardinality(Firing(active, r) \cup {<<r, d>>}) <= Cardinality(Firing(active, r)) + 1
        /\ Cardinality(Firing(active, r) \cup {<<r, d>>}) \in Nat
    <3> DEFINE A == Firing(active, r)
    <3>1. IsFiniteSet(A) /\ Cardinality(A) \in Nat
      BY FiringKeys
    <3> HIDE DEF A
    <3>2. IsFiniteSet(A \cup {<<r, d>>})
      BY <3>1, FS_AddElement
    <3>3. Cardinality(A \cup {<<r, d>>})
            = IF <<r, d>> \in A THEN Cardinality(A) ELSE Cardinality(A) + 1
      BY <3>1, FS_AddElement
    <3>4. Cardinality(A \cup {<<r, d>>}) <= Cardinality(A) + 1
      BY <3>1, <3>3
    <3>5. Cardinality(A \cup {<<r, d>>}) \in Nat
      BY <3>2, FS_CardinalityType
    <3> QED BY <3>2, <3>4, <3>5 DEF A
  <2>4. Cardinality(Firing(active', r)) <= Cardinality(Firing(active, r) \cup {<<r, d>>})
    BY <2>2, <2>3, FS_Subset
  <2> QED BY <1>9, <2>1, <2>3, <2>4, FiringKeys, FiringKeysNext
<1>11. CASE <<r, d>> \notin open
  <2>1. Firing(active', r) \subseteq Firing(active, r)
    <3> SUFFICES ASSUME NEW k \in Firing(active', r) PROVE k \in Firing(active, r)
      OBVIOUS
    <3>1. k \in RuleKeys /\ k[1] = r /\ (IsActive(k) \/ k \in open)
      BY <1>7 DEF Firing
    <3> QED BY <1>6, <1>11, <3>1 DEF Firing, IsActive
  <2>2. Cardinality(Firing(active', r)) <= Cardinality(Firing(active, r))
    BY <2>1, FiringKeys, FS_Subset
  <2> QED BY <1>8, <1>9, <2>2, FiringKeys, FiringKeysNext
<1> QED BY <1>10, <1>11

\* Of a set of keys, the one whose device comes last.
LEMMA LastInOrder ==
  ASSUME NEW order \in Orderings(Devices), NEW O, O # {}, \A k \in O : k[2] \in Devices
  PROVE  /\ \A d \in Devices : Position(order, d) \in Nat /\ order[Position(order, d)] = d
         /\ \E k \in O : \A j \in O : Position(order, j[2]) <= Position(order, k[2])
<1> DEFINE n == Cardinality(Devices)
           p(d) == Position(order, d)
<1>1. /\ n \in Nat /\ order \in [1 .. n -> Devices]
      /\ \A d \in Devices : \E i \in 1 .. n : order[i] = d
  BY FiniteAssumption, OrderingHasAll
<1> HIDE DEF n
<1>2. \A d \in Devices : p(d) \in 1 .. n /\ order[p(d)] = d
  <2> SUFFICES ASSUME NEW d \in Devices PROVE p(d) \in 1 .. n /\ order[p(d)] = d
    OBVIOUS
  <2>1. DOMAIN order = 1 .. n /\ \E i \in DOMAIN order : order[i] = d
    BY <1>1
  <2> QED BY <2>1 DEF Position
<1> HIDE DEF p
<1> DEFINE T == {n - p(k[2]) : k \in O}
<1>3. T \subseteq Nat /\ T # {}
  BY <1>1, <1>2
<1>4. PICK m \in T : \A t \in T : m <= t
  <2> HIDE DEF T
  <2> QED BY <1>3, LeastNat
<1>5. PICK k \in O : m = n - p(k[2])
  BY <1>4
<1>6. \A j \in O : p(j[2]) <= p(k[2])
  <2> SUFFICES ASSUME NEW j \in O PROVE p(j[2]) <= p(k[2])
    OBVIOUS
  <2>1. n - p(k[2]) <= n - p(j[2])
    BY <1>4, <1>5
  <2> QED BY <1>1, <1>2, <2>1
<1> QED BY <1>1, <1>2, <1>6 DEF p

\* A sweep opens alerts one device at a time, and the last one is still below
\* the cap with all others counted.
LEMMA SweepCap ==
  ASSUME TypeOK, CapKept, Sweep
  PROVE  CapKept'
<1> USE DEF TypeOK
<1>1. UNCHANGED restarts
  BY SweepParts
<1>2. PICK holding, ended, cleared, fresh, clock : \E opening \in SUBSET Unheld(holding) :
              /\ holding \subseteq RuleKeys
              /\ cleared \subseteq RuleKeys
              /\ \A k \in cleared : IsActive(k)
              /\ holding \cap cleared = {}
              /\ fresh \subseteq Edges
              /\ \E order \in Orderings(Devices) :
                   OpenedInOrder(opening, Unheld(holding), cleared, order)
              /\ Swept(holding, ended, cleared, fresh, clock, opening)
  BY SweepParts
<1>3. PICK opening \in SUBSET Unheld(holding), order \in Orderings(Devices) :
         /\ OpenedInOrder(opening, Unheld(holding), cleared, order)
         /\ Swept(holding, ended, cleared, fresh, clock, opening)
  BY <1>2
<1> DEFINE back == {OfflineKey(e) : e \in fresh}
           silent == {OfflineKey(e) : e \in Silent(clock, fresh)}
           open == opening \cup silent
           resolve == cleared \cup Expired \cup Active(back)
           stale == {d \in Devices : /\ devices[d].known /\ d \notin Alerted(resolve, opening)
                                     /\ devices[d].seen > Retention}
           dropped == {k \in DeviceKeys : k[2] \in stale \/ hold[k] > Retention}
<1>4. Change(open, RuleRefires(holding), resolve, {}, back, dropped)
  BY <1>3 DEF Swept
<1>5. silent \subseteq OfflineKeys /\ \A k \in silent : ~ IsActive(k)
  <2>1. \A e \in Silent(clock, fresh) : e \in Edges /\ ~ IsActive(OfflineKey(e))
    BY DEF Silent
  <2> QED BY <2>1, KeySets
<1>6. Expired \subseteq TtlKeys /\ \A k \in Expired : IsActive(k)
  BY Candidates, KeySets DEF Expired
<1>7. Active(back) \subseteq OfflineKeys /\ \A k \in Active(back) : IsActive(k)
  BY <1>2, Candidates, KeySets
<1> HIDE DEF silent, back
<1>8. Clean(open, RuleRefires(holding), resolve)
  <2>1. RuleRefires(holding) \subseteq holding /\ opening \subseteq holding
    BY Candidates
  <2>2. RuleRefires(holding) \cap resolve = {}
    BY <1>2, <1>6, <1>7, <2>1, RuleKeysApart
  <2>3. open \subseteq Keys /\ RuleRefires(holding) \subseteq Keys /\ resolve \subseteq Keys
    BY <1>2, <1>5, <1>6, <1>7, <2>1, KeySets
  <2>4. \A k \in open : ~ IsActive(k)
    BY <1>5, Candidates
  <2>5. \A k \in RuleRefires(holding) \cup resolve : IsActive(k)
    BY <1>2, <1>6, <1>7, Candidates
  <2> HIDE DEF open, resolve
  <2> QED BY <2>2, <2>3, <2>4, <2>5 DEF Clean
<1>9. \A k \in RuleKeys : active'[k].n # 0 => k \in opening \/ (IsActive(k) /\ k \notin cleared)
  <2> DEFINE none == {}
  <2>1. Change(open, RuleRefires(holding), resolve, none, back, dropped)
    BY <1>4
  <2>2. \A k \in RuleKeys : k \in open => k \in opening
    BY <1>5, RuleKeysApart
  <2>3. cleared \subseteq resolve
    OBVIOUS
  <2> HIDE DEF none, open, resolve, dropped
  <2> QED BY <1>8, <2>1, <2>2, <2>3, ChangedFires, RuleKeysApart
<1> HIDE DEF open, resolve, dropped
<1>10. opening \subseteq RuleKeys
  BY <1>2, Candidates
<1> SUFFICES ASSUME ~ HasDb \/ restarts = 0, NEW r \in Rules
             PROVE  Cardinality(Firing(active', r)) <= Greater(Cap[r], 0)
  BY <1>1, FiringKeysNext DEF CapKept, CapRespected
<1> DEFINE A == Firing(active, r)
           C == {k \in cleared : k[1] = r}
           O == {k \in opening : k[1] = r}
           B == Firing(active', r)
<1>11. /\ Cardinality(A) <= Greater(Cap[r], 0) /\ FiringCount(r) = Cardinality(A)
       /\ IsFiniteSet(A) /\ Cardinality(A) \in Nat
  BY FiringKeys DEF CapKept, CapRespected
<1>12. Cap[r] \in Int /\ Greater(Cap[r], 0) \in Int /\ Cap[r] <= Greater(Cap[r], 0)
  BY ConstantsAssumption DEF Greater
<1>13. B \subseteq (A \ C) \cup O /\ C \subseteq A
  <2>1. C \subseteq A
    BY <1>2 DEF Firing, IsActive
  <2>2. ASSUME NEW k \in B PROVE k \in (A \ C) \cup O
    <3>1. k \in RuleKeys /\ k[1] = r /\ (k \in opening \/ (IsActive(k) /\ k \notin cleared))
      BY <1>9 DEF Firing
    <3> QED BY <3>1 DEF Firing, IsActive
  <2> QED BY <2>1, <2>2
<1>14. IsFiniteSet(O) /\ Cardinality(O) \in Nat
  <2>1. O \subseteq Keys
    BY <1>10, RuleKeysApart
  <2> QED BY <2>1, FiniteKeys, FS_Subset, FS_CardinalityType
<1>15. O \subseteq RuleKeys /\ \A k \in O : k[1] = r /\ k \in opening
  BY <1>10
<1>16. CASE O = {}
  <2>1. B \subseteq A
    BY <1>13, <1>16
  <2>2. Cardinality(B) <= Cardinality(A)
    BY <1>11, <2>1, FS_Subset
  <2>3. Cardinality(B) \in Nat
    BY <1>11, <2>1, FS_Subset, FS_CardinalityType
  <2> HIDE DEF A, B
  <2> QED BY <1>11, <1>12, <2>2, <2>3 DEF B
<1>17. CASE O # {}
  <2>1. \A k \in O : k[2] \in Devices
    BY <1>15, RuleKeysApart
  <2> HIDE DEF O
  <2>2. /\ \A d \in Devices : Position(order, d) \in Nat /\ order[Position(order, d)] = d
        /\ \E k \in O : \A j \in O : Position(order, j[2]) <= Position(order, k[2])
    BY <1>17, <2>1, LastInOrder
  <2>3. PICK last \in O : \A j \in O : Position(order, j[2]) <= Position(order, last[2])
    BY <2>2
  <2> DEFINE before == {j \in RuleKeys : /\ j[1] = r
                                         /\ Position(order, j[2]) < Position(order, last[2])}
  <2>4. FiringCount(r) - Cardinality(before \cap cleared) + Cardinality(before \cap opening) < Cap[r]
    <3>1. last \in opening /\ last \in Unheld(holding) /\ last[1] = r
      BY <1>15
    <3> QED BY <1>3, <3>1 DEF OpenedInOrder
  <2>5. before \cap opening = O \ {last}
    <3>1. ASSUME NEW k \in before \cap opening PROVE k \in O \ {last}
      <4>1. Position(order, last[2]) \in Nat
        BY <2>1, <2>2
      <4> QED BY <3>1, <4>1 DEF O
    <3>2. ASSUME NEW k \in O \ {last} PROVE k \in before \cap opening
      <4>1. k \in RuleKeys /\ k[1] = r /\ k \in opening /\ last \in RuleKeys /\ last[1] = r
        BY <1>15
      <4>2. k[2] # last[2]
        BY <4>1 DEF RuleKeys
      <4>3. Position(order, k[2]) <= Position(order, last[2])
        BY <2>3
      <4>4. /\ Position(order, k[2]) \in Nat /\ Position(order, last[2]) \in Nat
            /\ Position(order, k[2]) # Position(order, last[2])
        BY <2>1, <2>2, <4>2
      <4> HIDE DEF Position
      <4> QED BY <4>1, <4>3, <4>4
    <3> QED BY <3>1, <3>2
  <2>6. before \cap cleared \subseteq C
    OBVIOUS
  <2> HIDE DEF before, A, B, C
  <2>7. Cardinality(O \ {last}) = Cardinality(O) - 1
    BY <1>14, FS_RemoveElement
  <2>8. /\ IsFiniteSet(C) /\ Cardinality(C) \in Nat
        /\ Cardinality(before \cap cleared) <= Cardinality(C)
        /\ Cardinality(before \cap cleared) \in Nat
    <3>1. IsFiniteSet(C)
      BY <1>11, <1>13, FS_Subset
    <3> QED BY <2>6, <3>1, FS_Subset, FS_CardinalityType
  <2>9. IsFiniteSet(A \ C) /\ Cardinality(A \ C) = Cardinality(A) - Cardinality(C)
    <3>1. A \cap C = C
      BY <1>13
    <3>2. IsFiniteSet(A)
      BY <1>11 DEF A
    <3>3. IsFiniteSet(A \ C) /\ Cardinality(A \ C) = Cardinality(A) - Cardinality(A \cap C)
      BY <3>2, FS_Difference
    <3> QED BY <3>1, <3>3
  <2>10. /\ IsFiniteSet((A \ C) \cup O)
         /\ Cardinality((A \ C) \cup O) <= Cardinality(A \ C) + Cardinality(O)
    <3>1. /\ IsFiniteSet((A \ C) \cup O)
          /\ Cardinality((A \ C) \cup O)
               = Cardinality(A \ C) + Cardinality(O) - Cardinality((A \ C) \cap O)
      BY <1>14, <2>9, FS_Union
    <3>2. Cardinality((A \ C) \cap O) \in Nat
      BY <2>9, FS_Intersection, FS_CardinalityType
    <3> QED BY <1>11, <1>14, <2>8, <2>9, <3>1, <3>2
  <2>11. Cardinality(B) <= Cardinality((A \ C) \cup O) /\ Cardinality(B) \in Nat
         /\ Cardinality((A \ C) \cup O) \in Nat
    BY <1>13, <2>10, FS_Subset, FS_CardinalityType
  <2>12. Cardinality(A) - Cardinality(before \cap cleared) + (Cardinality(O) - 1) < Cap[r]
    BY <1>11, <2>4, <2>5, <2>7
  <2>13. Cardinality(B) <= Cap[r]
    BY <1>11, <1>12, <1>14, <2>8, <2>9, <2>10, <2>11, <2>12
  <2>14. Cardinality(B) <= Greater(Cap[r], 0)
    BY <1>12, <2>11, <2>13
  <2> QED BY <2>14 DEF B
<1> QED BY <1>16, <1>17

-----------------------------------------------------------------------------
(* The cap of a rule: the actions *)

\* The hub is down only after a crash.
CapInv == CapKept /\ (up \/ restarts > 0)

\* Alerts and predictions reported by edges open no alert of a rule.
LEMMA ReportedFiresNoRule ==
  ASSUME TypeOK, NEW j \in TtlKeys, RaiseReported(j) \/ NoChange
  PROVE  \A k \in RuleKeys : active'[k].n # 0 => IsActive(k)
<1> SUFFICES ASSUME NEW k \in RuleKeys, active'[k].n # 0, ~ IsActive(k) PROVE FALSE
  OBVIOUS
<1>1. k \in Keys /\ k # j /\ j \in Keys
  BY RuleKeysApart, KeySets
<1>2. CASE NoChange
  BY <1>2 DEF NoChange, IsActive
<1>3. CASE RaiseReported(j) /\ IsActive(j)
  <2>1. PICK refire \in SUBSET {j} : Change({}, refire, {}, {j}, {}, {})
    BY <1>3 DEF RaiseReported
  <2>2. Clean({}, refire, {})
    BY <1>1, <1>3 DEF Clean
  <2> DEFINE none == {}
  <2>3. Clean(none, refire, none) /\ Change(none, refire, none, {j}, none, none)
    BY <2>1, <2>2
  <2> HIDE DEF none
  <2>4. k \in none
    BY <1>1, <2>3, ChangedFires
  <2> QED BY <2>4 DEF none
<1>4. CASE RaiseReported(j) /\ ~ IsActive(j) /\ ~ NoChange
  <2>1. Change({j}, {}, {}, {}, {}, {})
    BY <1>4 DEF RaiseReported
  <2>2. Clean({j}, {}, {})
    BY <1>1, <1>4 DEF Clean
  <2> DEFINE none == {}
             only == {j}
  <2>3. Clean(only, none, none) /\ Change(only, none, none, none, none, none)
    BY <2>1, <2>2
  <2> HIDE DEF none, only
  <2>4. k \in only
    BY <1>1, <2>3, ChangedFires
  <2> QED BY <1>1, <2>4 DEF only
<1> QED BY <1>2, <1>3, <1>4

\* What only ends alerts, or leaves them, keeps within the cap.
LEMMA OnlyEnds ==
  ASSUME CapInv, up, UNCHANGED <<up, restarts>>,
         \A k \in RuleKeys : active'[k].n # 0 => IsActive(k)
  PROVE  CapInv'
BY NoMoreFire DEF CapInv

\* Every step keeps the cap.
LEMMA CapNext ==
  TypeOK /\ TypeOK' /\ CapInv /\ [Next]_vars => CapInv'
<1> SUFFICES ASSUME TypeOK, TypeOK', CapInv, [Next]_vars PROVE CapInv'
  OBVIOUS
<1>1. ASSUME NEW d \in Devices, NEW r \in Reports, DeviceStatusUpdate(d, r) PROVE CapInv'
  BY <1>1, StatusUpdateCap DEF CapInv, DeviceStatusUpdate
<1>2. ASSUME NEW d \in Devices, NEW m \in EdgeMetrics, IngestDeviceAlert(m, d) PROVE CapInv'
  <2>1. <<m, d>> \in TtlKeys
    BY DEF TtlKeys, EdgeKeys
  <2>2. RaiseReported(<<m, d>>) /\ up /\ UNCHANGED <<up, restarts>>
    BY <1>2 DEF IngestDeviceAlert
  <2> QED BY <2>1, <2>2, ReportedFiresNoRule, OnlyEnds
<1>3. ASSUME NEW d \in Devices, NEW t \in PredTypes, NEW f \in Forecasts, PredictionResult(t, d, f)
      PROVE  CapInv'
  <2>1. <<t, d>> \in TtlKeys
    BY DEF TtlKeys, PredKeys
  <2>2. (RaiseReported(<<t, d>>) \/ NoChange) /\ up /\ UNCHANGED <<up, restarts>>
    BY <1>3 DEF PredictionResult
  <2> QED BY <2>1, <2>2, ReportedFiresNoRule, OnlyEnds
<1>4. ASSUME NEW d \in Devices, DeviceRemoved(d) PROVE CapInv'
  <2> DEFINE mine == KeysOfDevice(d)
             none == {}
  <2>1. mine \subseteq Keys
    BY KeySets DEF KeysOfDevice
  <2>2. Change(none, none, Active(mine), none, mine, none) /\ up /\ UNCHANGED <<up, restarts>>
    BY <1>4 DEF DeviceRemoved
  <2> HIDE DEF mine
  <2>4. Clean(none, none, Active(mine))
    BY <2>1, Candidates DEF Clean
  <2> HIDE DEF none
  <2>5. \A k \in RuleKeys : active'[k].n # 0 => k \in none \/ IsActive(k)
    BY <2>2, <2>4, ChangedFires, RuleKeysApart
  <2> QED BY <2>2, <2>5, OnlyEnds DEF none
<1>5. ASSUME NEW e \in Connecting, EdgeSeen(e) PROVE CapInv'
  <2> DEFINE back == {OfflineKey(e)}
             none == {}
  <2>1. back \subseteq Keys
    BY KeySets, ConstantsAssumption
  <2>2. Change(none, none, Active(back), none, back, none) /\ up /\ UNCHANGED <<up, restarts>>
    BY <1>5 DEF EdgeSeen
  <2> HIDE DEF back
  <2>3. Clean(none, none, Active(back))
    BY <2>1, Candidates DEF Clean
  <2> HIDE DEF none
  <2>4. \A k \in RuleKeys : active'[k].n # 0 => k \in none \/ IsActive(k)
    BY <2>2, <2>3, ChangedFires, RuleKeysApart
  <2> QED BY <2>2, <2>4, OnlyEnds DEF none
<1>6. ASSUME NEW e \in Connecting, EdgeDisconnected(e) PROVE CapInv'
  BY <1>6, OnlyEnds DEF EdgeDisconnected, NoChange, IsActive
<1>7. ASSUME NEW k \in Keys, NEW n \in 1 .. MaxAlerts, AcknowledgeAlert(k, n) PROVE CapInv'
  <2>1. \A j \in Keys : active'[j].n = active[j].n
    BY <1>7 DEF AcknowledgeAlert, TypeOK, AlertsTyped, Alerts
  <2>2. up /\ UNCHANGED <<up, restarts>>
    BY <1>7 DEF AcknowledgeAlert
  <2> QED BY <2>1, <2>2, OnlyEnds, RuleKeysApart DEF IsActive
<1>8. ASSUME NEW k \in Keys, NEW n \in 1 .. MaxAlerts, ResolveAlert(k, n) PROVE CapInv'
  <2>1. \A j \in Keys : active'[j].n = active[j].n \/ active'[j].n = 0
    BY <1>8 DEF ResolveAlert, TypeOK, AlertsTyped, NoAlert
  <2>2. up /\ UNCHANGED <<up, restarts>>
    BY <1>8 DEF ResolveAlert
  <2> QED BY <2>1, <2>2, OnlyEnds, RuleKeysApart DEF IsActive
<1>9. CASE Sweep
  <2>1. up' = up /\ restarts' = restarts
    BY <1>9 DEF Sweep
  <2> QED BY <1>9, <2>1, SweepCap DEF CapInv
<1>10. CASE WriterStep \/ WriterFails
  BY <1>10, OnlyEnds DEF WriterStep, WriterFails, memory, IsActive
<1>11. CASE Tick
  <2>1. \A j \in Keys : active'[j].n = active[j].n
    BY <1>11 DEF Tick, TypeOK, AlertsTyped, Alerts
  <2>2. UNCHANGED <<up, restarts>>
    BY <1>11 DEF Tick
  <2> QED BY <2>1, <2>2, NoMoreFire, RuleKeysApart DEF IsActive, CapInv
<1>12. CASE Crash
  <2>1. \A j \in RuleKeys : active'[j].n = 0
    BY <1>12, RuleKeysApart DEF Crash, EmptyMemory, NoAlert
  <2>2. restarts \in Nat /\ restarts' = restarts + 1
    BY <1>12 DEF Crash, TypeOK, ProcessTyped
  <2> QED BY <2>1, <2>2, NoMoreFire DEF CapInv
<1>13. ASSUME NEW config \in Configs, Start(config) PROVE CapInv'
  <2>1. ~ up /\ up' /\ restarts' = restarts /\ restarts > 0 /\ restarts \in Nat
    BY <1>13 DEF Start, CapInv, TypeOK, ProcessTyped
  <2>2. CASE HasDb
    <3> QED BY <2>1, <2>2 DEF CapInv, CapKept
  <2>3. CASE ~ HasDb
    <3>1. Kept(config) = {}
      BY <2>3 DEF Kept, OpenRows, RowIds, TypeOK, StoreTyped
    <3>2. \A j \in Keys : active'[j] = NoAlert
      BY <1>13, <3>1 DEF Start
    <3>3. \A j \in RuleKeys : active'[j].n = 0
      BY <3>2, RuleKeysApart DEF NoAlert
    <3> QED BY <2>1, <2>3, <3>3, NoMoreFire DEF CapInv
  <2> QED BY <2>2, <2>3
<1>14. CASE UNCHANGED vars
  <2>1. UNCHANGED <<active, up, restarts>>
    BY <1>14 DEF vars, memory
  <2> QED BY <2>1, NoMoreFire DEF CapInv, IsActive
<1> QED BY <1>1, <1>2, <1>3, <1>4, <1>5, <1>6, <1>7, <1>8, <1>9, <1>10, <1>11, <1>12, <1>13, <1>14 DEF Next

\* At first nothing fires.
LEMMA InitCap == Init => CapInv
<1> SUFFICES ASSUME Init, NEW r \in Rules
             PROVE  Cardinality(Firing(active, r)) <= Greater(Cap[r], 0)
  BY FiringKeys DEF Init, CapInv, CapKept, CapRespected
<1>1. Firing(active, r) = {}
  BY RuleKeysApart DEF Firing, Init, EmptyMemory, NoAlert
<1>2. Cardinality(Firing(active, r)) = 0
  BY <1>1, FS_EmptySet
<1> QED BY <1>2, ConstantsAssumption DEF Greater

\* Rules evaluated by reports and by sweeps, in whatever order the devices come,
\* never hold more alerts than max_firing_count, until a restart reads the table
\* (its rows may be of alerts whose resolution was lost).
THEOREM CapIsKept == Spec => [](~ HasDb \/ restarts = 0 => CapRespected)
<1>1. CapInv => (~ HasDb \/ restarts = 0 => CapRespected)
  BY DEF CapInv, CapKept
<1> QED BY <1>1, InitCap, CapNext, TypeCorrect, PTL DEF Spec
=============================================================================
