---------------------------- MODULE AlertManager ----------------------------
(***************************************************************************)
(* The alert manager actor of nimon-hub (alert/manager.rs): rules are      *)
(* evaluated on every device report and on a periodic sweep; an alert per  *)
(* (rule, edge, device) opens, re-fires, is acknowledged and is resolved;  *)
(* its row in the alerts table follows through the hub's ordered database  *)
(* writer; and a restart of the hub rebuilds the actor from the database.  *)
(*                                                                         *)
(* The actor handles one message at a time, so one action below is one     *)
(* whole handler.  The code compares timestamps only as `now - t` against  *)
(* a limit: the model keeps these ages, which Tick advances and which stop *)
(* growing at Horizon, above every limit.                                  *)
(*                                                                         *)
(* A device id carries the id of its edge (ws.rs, edge_owns_device), so a  *)
(* key is <<source, device>>, or <<RuleEdgeOffline, edge>> for the         *)
(* built-in edge-offline alert whose device id is empty.  The n-th alert   *)
(* ever opened for key k stands for the alert with that ULID: <<k, n>>.    *)
(***************************************************************************)
EXTENDS AlertRules, Sequences, FiniteSets

CONSTANTS
  Edges, Devices,
  EdgeOf,            \* the edge of a device
  Rules,             \* configured (or default) rules
  Condition,         \* the condition of a rule
  Suppress,          \* rules with suppress_repeat
  Cap,               \* max_firing_count of a rule (its own or the default)
  EdgeMetrics,       \* sources "edge:<metric>" of alerts reported by edges
  PredTypes,         \* sources "pred-<type>" of prediction alerts
  Cooldown,          \* cooldown_for(source)
  AlertProb,         \* prediction_alert_threshold
  OfflineLimit,      \* edge_offline_after_secs, 0 disables
  EdgeTtl, PredTtl,  \* edge_alert_ttl_minutes, prediction_ttl_minutes
  Retention,         \* maintenance.device_state_retention_hours
  Horizon,           \* ages stop growing here
  Configs,           \* the rule sets a (re)started hub may be configured with
  Reports,           \* [status, reading] of the device reports considered
  Forecasts,         \* [prob, eta] of the predictions considered
  HasDb,             \* a database is configured
  Connecting,        \* edges whose connections are considered
  MaxAlerts,         \* bound: alerts opened per key (without a database: ids in use)
  MaxFired,          \* bound: fired_count stops growing here
  MaxRestarts,       \* bound: crashes of the hub
  MaxFailedWrites,   \* bound: database operations that fail or time out
  MaxQueue           \* bound: database operations waiting

RuleEdgeOffline == "builtin-edge-offline"
NoWindow == -1

Sources == Rules \cup EdgeMetrics \cup PredTypes
RuleKeys == Rules \X Devices
EdgeKeys == EdgeMetrics \X Devices
PredKeys == PredTypes \X Devices
OfflineKeys == {RuleEdgeOffline} \X Edges
DeviceKeys == RuleKeys \cup EdgeKeys \cup PredKeys
Keys == DeviceKeys \cup OfflineKeys
TtlKeys == EdgeKeys \cup PredKeys

RowIds == IF HasDb THEN Keys \X (1 .. MaxAlerts) ELSE {}

OfflineKey(e) == <<RuleEdgeOffline, e>>

Age == 0 .. Horizon
NoTime == Horizon + 1     \* an absent timestamp (None, or no map entry)
MaybeAge == Age \cup {NoTime}

ASSUME ConstantsAssumption ==
  /\ EdgeOf \in [Devices -> Edges]
  /\ Condition \in [Rules -> Conditions(PredTypes)]
  /\ Suppress \subseteq Rules
  /\ Cap \in [Rules -> Int]
  /\ Cooldown \in [Sources -> Nat]
  /\ OfflineLimit \in Nat /\ EdgeTtl \in Nat /\ PredTtl \in Nat /\ Retention \in Nat
  /\ Horizon \in Nat
  /\ Configs \subseteq SUBSET Rules
  /\ HasDb \in BOOLEAN /\ Connecting \subseteq Edges
  /\ \A r \in Reports : r.status \in Statuses /\ r.reading \in Readings
  /\ \A f \in Forecasts : f.prob \in Int /\ f.eta \in Int
  /\ MaxAlerts \in Nat \ {0} /\ MaxFired \in Nat \ {0}
  /\ MaxRestarts \in Nat /\ MaxFailedWrites \in Nat /\ MaxQueue \in Nat

\* The kinds of source are told apart by their prefix in the code.
ASSUME SourcesAssumption ==
  /\ Rules \cap EdgeMetrics = {} /\ Rules \cap PredTypes = {}
  /\ EdgeMetrics \cap PredTypes = {}
  /\ RuleEdgeOffline \notin Sources

ASSUME FiniteAssumption ==
  /\ IsFiniteSet(Rules) /\ IsFiniteSet(EdgeMetrics) /\ IsFiniteSet(PredTypes)
  /\ IsFiniteSet(Devices) /\ IsFiniteSet(Edges)

\* Saturating ages decide every comparison of the code only when they can
\* exceed each limit they are compared with.
ASSUME HorizonAssumption ==
  /\ \A s \in Sources : Cooldown[s] < Horizon
  /\ OfflineLimit < Horizon /\ EdgeTtl < Horizon /\ PredTtl < Horizon /\ Retention < Horizon

VARIABLES
  active,      \* HashMap<AlertKey, ActiveAlert>; NoAlert where there is none
  reported,    \* last_reported of the alerts with a TTL
  opened,      \* the identity of the last alert opened for each key
  breach,      \* breach_started of rules with a duration window
  hold,        \* manual_hold: Horizon where there is none
  latched,     \* edge_offline_latched
  devices,     \* last-known device state; NoDevice where there is none
  preds,       \* latest prediction per device and type
  edges,       \* last_seen of each tracked edge
  heard,       \* last heartbeat of the live session of each edge (SessionStore)
  configured,  \* rules the running hub is configured with
  up,          \* the hub process runs
  queue,       \* priority lane of the database writer: operations not yet run
  rows,        \* alerts table: the row of the n-th alert of each key
  dbDevices,   \* devices and device_status tables
  dbEdges,     \* edge_nodes.last_seen
  restarts, failures,   \* counters of the bounds
  ackOk,       \* history: alerts whose acknowledgement was answered Ok
  byHand,      \* history: age of the last manual resolution of each key
  nagged,      \* history: alerts notified after that answer
  lapsed       \* history: keys whose manual hold the hub lost on its own account

memory == <<active, reported, opened, breach, hold, latched, devices, preds, edges, heard>>
store == <<queue, rows, dbDevices, dbEdges>>
history == <<ackOk, byHand, nagged, lapsed>>
vars == <<memory, store, history, configured, up, restarts, failures>>

NoAlert == [n |-> 0, status |-> "none", fired |-> 0, lastFired |-> NoTime]
NoDevice == [known |-> FALSE, status |-> NoStatus, reading |-> Unknown,
             seen |-> NoTime, restored |-> FALSE]
NoPrediction == [prob |-> 0, eta |-> NoEta, at |-> NoTime]
NoRow == [status |-> "none", fired |-> 0, lastFired |-> NoTime]
NoStatusRow == [status |-> NoStatus, reading |-> Unknown, at |-> NoTime]

Younger(a, b) == IF a <= b THEN a ELSE b
Greater(m, n) == IF m >= n THEN m ELSE n
Older(a) == IF a < Horizon THEN a + 1 ELSE a
Bump(n) == IF n < MaxFired THEN n + 1 ELSE n

IsActive(k) == active[k].n # 0
Active(K) == {k \in K : IsActive(k)}

-----------------------------------------------------------------------------
(* The alerts table and the operations the actor submits on it. *)

\* AlertRepository::upsert: an acknowledged row is not reverted to firing and
\* fired_count never decreases; last_fired_at is the time of the write.
Upserted(row, o) ==
  IF row = NoRow
  THEN [status |-> o.status, fired |-> o.fired, lastFired |-> 0]
  ELSE [status |-> IF row.status = "acknowledged" /\ o.status = "firing"
                   THEN row.status ELSE o.status,
        fired |-> Greater(row.fired, o.fired), lastFired |-> 0]

\* AlertRepository::record_refire, with the upsert of persist_refire when the
\* row does not exist.  The status is left alone.
RefireRecorded(row, o) ==
  IF row = NoRow THEN Upserted(row, o)
  ELSE [row EXCEPT !.fired = Greater(@, o.fired), !.lastFired = o.at]

\* Mutants: acknowledgements are not stored; a resolved row can be acknowledged.
StatusSetForgetful(row, status) ==
  IF row = NoRow \/ status = "acknowledged" THEN row ELSE [row EXCEPT !.status = status]
StatusSetAlways(row, status) ==
  IF row = NoRow THEN row ELSE [row EXCEPT !.status = status]

\* AlertRepository::set_status: an acknowledgement of a resolved row is refused.
StatusSet(row, status) ==
  IF row = NoRow \/ (status = "acknowledged" /\ row.status = "resolved")
  THEN row ELSE [row EXCEPT !.status = status]

Applied(row, o) ==
  CASE o.op = "upsert"  -> Upserted(row, o)
    [] o.op = "refire"  -> RefireRecorded(row, o)
    [] o.op = "resolve" -> StatusSet(row, "resolved")
    [] o.op = "ack"     -> StatusSet(row, "acknowledged")

IsOpenRow(row) == row.status \in {"firing", "acknowledged"}

\* `inMemory` of an acknowledgement: the alert was active when it was handled.
Op(name, k, n, status, fired, inMemory) ==
  [op |-> name, key |-> k, n |-> n, status |-> status, fired |-> fired,
   at |-> 0, inMemory |-> inMemory]

\* Identities grow; where no row outlives its alert they may be used again.
NextId(k) == IF opened[k] < MaxAlerts THEN opened[k] + 1 ELSE 1
HasNextId(k) == HasDb => opened[k] < MaxAlerts

InsertOp(k) == Op("upsert", k, NextId(k), "firing", 1, FALSE)
RefireOp(k) ==
  Op("refire", k, active[k].n, active[k].status, Bump(active[k].fired), FALSE)
ResolveOp(k, n) == Op("resolve", k, n, "resolved", 0, FALSE)

\* The writes of one handler on different alerts follow the iteration order of
\* a HashMap: any order.
Orderings(S) ==
  {s \in [1 .. Cardinality(S) -> S] : \A i, j \in DOMAIN s : s[i] = s[j] => i = j}

Submit(s) == IF HasDb THEN /\ Len(queue) + Len(s) <= MaxQueue
                           /\ queue' = queue \o s
                      ELSE queue' = queue
SubmitAll(S) == IF HasDb THEN \E s \in Orderings(S) : Submit(s) ELSE queue' = queue

-----------------------------------------------------------------------------
(* Opening, re-firing and resolving alerts (open_alert, refire, resolve_key) *)

Opened(k) == [n |-> NextId(k), status |-> "firing", fired |-> 1, lastFired |-> 0]
Refired(a) == [a EXCEPT !.fired = Bump(@), !.lastFired = 0]

\* should_notify: acknowledged alerts re-fire silently.
NotifiesRefire(k) == active[k].status = "firing"

\* The alerts `open`, `refire` and `resolve` (disjoint sets of keys) change,
\* each with its database write and its notice; `touch` are the alerts with a
\* TTL whose source reported the problem again; `excused` are the keys whose
\* manual resolution no longer binds, `lost` those whose hold is dropped.
Change(open, refire, resolve, touch, excused, lost) ==
  /\ \A k \in open : HasNextId(k)
  /\ active' = [k \in Keys |-> CASE k \in open    -> Opened(k)
                                 [] k \in refire  -> Refired(active[k])
                                 [] k \in resolve -> NoAlert
                                 [] OTHER         -> active[k]]
  /\ opened' = [k \in Keys |-> IF k \in open THEN NextId(k) ELSE opened[k]]
  /\ reported' = [k \in TtlKeys |-> CASE k \in open \cup touch -> 0
                                      [] k \in resolve         -> NoTime
                                      [] OTHER                 -> reported[k]]
  /\ SubmitAll({InsertOp(k) : k \in open} \cup {RefireOp(k) : k \in refire}
                 \cup {ResolveOp(k, active[k].n) : k \in resolve})
  /\ ackOk' = ackOk \ {<<k, NextId(k)>> : k \in open}
  /\ byHand' = [k \in Keys |-> IF k \in open \cup excused THEN NoTime ELSE byHand[k]]
  /\ nagged' = nagged \cup {a \in ackOk : /\ a[1] \in refire /\ active[a[1]].n = a[2]
                                        /\ NotifiesRefire(a[1])}
  /\ lapsed' = (lapsed \cup lost) \ (open \cup excused)

\* Nothing happens to any alert.
NoChange == UNCHANGED <<active, opened, reported, queue, history>>

CoolingDown(k) == active[k].lastFired < Cooldown[k[1]]

Held(k) == hold[k] < Cooldown[k[1]]
Unhold(K) == hold' = [k \in DeviceKeys |-> IF k \in K THEN Horizon ELSE hold[k]]

-----------------------------------------------------------------------------
(* Rule evaluation of one device (evaluate_device, fire_rule): `x` is the   *)
(* evaluation context and `sweep` tells a periodic sweep from a report.     *)

Cleared(x) == {r \in configured : IsCleared(Condition[r], x)}
Evaluated(x, sweep) ==
  {r \in configured \ Cleared(x) : sweep => IsTimeBased(Condition[r])}
Holding(x, sweep) == {r \in Evaluated(x, sweep) : Evaluate(Condition[r], x)}
NotHolding(x, sweep) == Cleared(x) \cup (Evaluated(x, sweep) \ Holding(x, sweep))

HasWindow(r) == Condition[r].type = "metric" /\ Condition[r].window # NoWindow
BreachAge(k) == IF breach[k] = NoTime THEN 0 ELSE breach[k]
Sustained(k) == HasWindow(k[1]) => BreachAge(k) >= Condition[k[1]].window

\* The breach clocks once the keys `holding` hold and the keys `ended` do not.
Breaches(holding, ended) ==
  [k \in RuleKeys |-> CASE k \in ended                      -> NoTime
                        [] k \in holding /\ HasWindow(k[1]) -> BreachAge(k)
                        [] OTHER                            -> breach[k]]

\* Of the keys whose condition holds: those that re-fire, and those that may
\* open as far as their manual hold is concerned.
RuleRefires(K) ==
  {k \in K : /\ Sustained(k) /\ IsActive(k)
             /\ k[1] \notin Suppress /\ ~ CoolingDown(k)}

Unheld(K) == {k \in K : Sustained(k) /\ ~ IsActive(k) /\ ~ Held(k)}

FiringCount(r) == Cardinality({d \in Devices : IsActive(<<r, d>>)})
BelowCap(k) == FiringCount(k[1]) < Cap[k[1]]

KeysOf(R, d) == {<<r, d>> : r \in R}

PredictionsFor(d) ==
  {[type |-> t, prob |-> preds[d][t].prob, eta |-> preds[d][t].eta] :
     t \in {u \in PredTypes : preds[d][u].at # NoTime}}

Context(d, status, previous, reading, age) ==
  [status |-> status, previous |-> previous, reading |-> reading,
   pollAge |-> age, predictions |-> PredictionsFor(d)]

-----------------------------------------------------------------------------
(* Messages from the edges *)

\* mark_edge_seen of an edge heard from now: its clock restarts, the latch of
\* a manually resolved offline alert goes, and the alert itself is resolved.
SeenEdge(e) ==
  /\ edges' = [edges EXCEPT ![e] = 0]
  /\ latched' = latched \ {e}

\* Every message of a connected edge touches its session first.
TouchSession(e) == heard' = [heard EXCEPT ![e] = IF @ = NoTime THEN @ ELSE 0]

\* The row an edge's connection writes for it may be lost with the process.
WriteEdgeRow(e) ==
  \/ HasDb /\ dbEdges' = [dbEdges EXCEPT ![e] = 0]
  \/ UNCHANGED dbEdges

\* Handler<DeviceStatusUpdate>.  The status snapshot goes through the lane
\* that sheds: it may never reach the database.
DeviceStatusUpdate(d, report) ==
  LET known == devices[d]
      x == Context(d, report.status, IF known.known THEN known.status ELSE NoStatus,
                   report.reading, 0)
      holding == KeysOf(Holding(x, FALSE), d)
      healed == IF report.status = Healthy THEN EdgeMetrics \X {d} ELSE {}
  IN /\ up
     /\ SeenEdge(EdgeOf[d])
     /\ TouchSession(EdgeOf[d])
     /\ devices' = [devices EXCEPT ![d] =
          [known |-> TRUE, status |-> report.status, reading |-> report.reading,
           seen |-> 0, restored |-> FALSE]]
     /\ breach' = Breaches(holding, KeysOf(NotHolding(x, FALSE), d))
     /\ Unhold(Unheld(holding))
     /\ Change({k \in Unheld(holding) : BelowCap(k)}, RuleRefires(holding),
               Active(KeysOf(Cleared(x), d) \cup healed \cup {OfflineKey(EdgeOf[d])}),
               {}, {OfflineKey(EdgeOf[d])}, {})
     /\ \/ HasDb /\ dbDevices' = [dbDevices EXCEPT ![d] =
                      [status |-> report.status, reading |-> report.reading, at |-> 0]]
        \/ UNCHANGED dbDevices
     /\ UNCHANGED <<preds, rows, dbEdges, configured, up, restarts, failures>>

\* Raise or refresh the alert of a source that reports by itself: the common
\* part of the handlers of edge alerts and of predictions.  These alerts know
\* no cap.
RaiseReported(k) ==
  IF IsActive(k)
  THEN Change({}, IF CoolingDown(k) THEN {} ELSE {k}, {}, {k}, {}, {}) /\ UNCHANGED hold
  ELSE IF Held(k) THEN NoChange /\ UNCHANGED hold
  ELSE Change({k}, {}, {}, {}, {}, {}) /\ Unhold({k})

\* Handler<IngestDeviceAlert>: an alert reported by the edge itself.
IngestDeviceAlert(m, d) ==
  /\ up
  /\ RaiseReported(<<m, d>>)
  /\ TouchSession(EdgeOf[d])
  /\ UNCHANGED <<breach, latched, devices, preds, edges, configured, up, rows, dbDevices,
                 dbEdges, restarts, failures>>

\* Handler<PredictionResult>: cached and stored always, an alert only at or
\* above the threshold.
PredictionResult(t, d, f) ==
  /\ up
  /\ preds' = [preds EXCEPT ![d][t] = [prob |-> f.prob, eta |-> f.eta, at |-> 0]]
  /\ IF f.prob >= AlertProb
     THEN RaiseReported(<<t, d>>)
     ELSE NoChange /\ UNCHANGED hold
  /\ TouchSession(EdgeOf[d])
  /\ UNCHANGED <<breach, latched, devices, edges, configured, up, rows, dbDevices,
                 dbEdges, restarts, failures>>

\* forget_device for the devices D, on top of the predictions `cached`.
Forget(D, cached) ==
  /\ devices' = [d \in Devices |-> IF d \in D THEN NoDevice ELSE devices[d]]
  /\ preds' = [d \in Devices |-> IF d \in D THEN [t \in PredTypes |-> NoPrediction]
                                          ELSE cached[d]]

KeysOfDevice(d) == {k \in DeviceKeys : k[2] = d}

\* Handler<DeviceRemoved>: the device's state goes and its alerts are resolved.
DeviceRemoved(d) ==
  /\ up
  /\ Forget({d}, preds)
  /\ Unhold(KeysOfDevice(d))
  /\ breach' = [k \in RuleKeys |-> IF k[2] = d THEN NoTime ELSE breach[k]]
  /\ Change({}, {}, Active(KeysOfDevice(d)), {}, KeysOfDevice(d), {})
  /\ TouchSession(EdgeOf[d])
  /\ UNCHANGED <<latched, edges, configured, up, rows, dbDevices, dbEdges, restarts, failures>>

\* Handler<EdgeActivity>, Connected and Seen: the edge registered, or sent a
\* heartbeat on its connection.
EdgeSeen(e) ==
  /\ up
  /\ heard' = [heard EXCEPT ![e] = 0]
  /\ SeenEdge(e)
  /\ Change({}, {}, Active({OfflineKey(e)}), {}, {OfflineKey(e)}, {})
  /\ WriteEdgeRow(e)
  /\ UNCHANGED <<breach, hold, devices, preds, configured, up, rows, dbDevices,
                 restarts, failures>>

\* EdgeActivity::Disconnected: the offline clock runs on from the last time
\* the edge was heard from.
EdgeDisconnected(e) ==
  /\ up
  /\ heard[e] # NoTime
  /\ heard' = [heard EXCEPT ![e] = NoTime]
  /\ edges' = [edges EXCEPT ![e] = IF @ = NoTime THEN 0 ELSE @]
  /\ NoChange
  /\ WriteEdgeRow(e)
  /\ UNCHANGED <<breach, hold, latched, devices, preds, configured, up, rows, dbDevices,
                 restarts, failures>>

-----------------------------------------------------------------------------
(* Requests of an operator (the API): the n-th alert of key k.             *)

\* Handler<AcknowledgeAlert>.  The caller is answered by the writer, once the
\* operation ran; without a database at once.
AcknowledgeAlert(k, n) ==
  LET inMemory == active[k].n = n
  IN /\ up
     /\ inMemory \/ (HasDb /\ n <= opened[k])
     /\ active' = IF inMemory THEN [active EXCEPT ![k].status = "acknowledged"] ELSE active
     /\ Submit(<<Op("ack", k, n, "acknowledged", 0, inMemory)>>)
     /\ ackOk' = IF HasDb THEN ackOk ELSE ackOk \cup {<<k, n>>}
     /\ UNCHANGED <<reported, opened, breach, hold, latched, devices, preds, edges, heard,
                    configured, up, rows, dbDevices, dbEdges, byHand, nagged, lapsed, restarts,
                    failures>>

\* Handler<ResolveAlert>: the edge-offline alert is latched, any other is held
\* for its cooldown.  The row is resolved twice: by resolve_key, then by the
\* operation that answers the caller.
ResolveAlert(k, n) ==
  LET inMemory == active[k].n = n
      manual == <<ResolveOp(k, n)>>
  IN /\ up
     /\ inMemory \/ (HasDb /\ n <= opened[k])
     /\ IF inMemory
        THEN /\ active' = [active EXCEPT ![k] = NoAlert]
             /\ reported' = [j \in TtlKeys |-> IF j = k THEN NoTime ELSE reported[j]]
             /\ latched' = IF k \in OfflineKeys THEN latched \cup {k[2]} ELSE latched
             /\ hold' = [j \in DeviceKeys |-> IF j = k THEN 0 ELSE hold[j]]
             /\ Submit(manual \o manual)
             /\ byHand' = [byHand EXCEPT ![k] = 0]
             /\ lapsed' = lapsed \ {k}
        ELSE /\ Submit(manual)
             /\ UNCHANGED <<active, reported, latched, hold, byHand, lapsed>>
     /\ UNCHANGED <<opened, breach, devices, preds, edges, heard, configured, up, rows,
                    dbDevices, dbEdges, ackOk, nagged, restarts, failures>>

-----------------------------------------------------------------------------
(* The periodic sweep (run_sweep).  `readable` are the sessions whose last  *)
(* heartbeat could be read (try_last_heartbeat fails while it is written),  *)
(* `order` is the order in which the devices come.                          *)

Fresh(readable) == {e \in readable : OfflineLimit > 0 /\ heard[e] <= OfflineLimit}

Position(order, d) == CHOOSE i \in DOMAIN order : order[i] = d

\* Mutant: every candidate is compared with the count before the loop.
OpenedAtOnce(open, candidates, cleared, order) ==
  open = {k \in candidates : BelowCap(k)}

\* Alerts of a rule open one device at a time, against the count left by the
\* devices before: those that resolved, and those that opened.
OpenedInOrder(open, candidates, cleared, order) ==
  \A k \in candidates :
    LET before == {j \in RuleKeys : /\ j[1] = k[1]
                                    /\ Position(order, j[2]) < Position(order, k[2])}
    IN k \in open <=>
         FiringCount(k[1]) - Cardinality(before \cap cleared)
           + Cardinality(before \cap open) < Cap[k[1]]

\* Mutants: the latch is ignored; edges past the retention are dropped first.
SilentUnlatched(clock, fresh) ==
  {e \in Edges : OfflineLimit > 0 /\ clock[e] \in OfflineLimit + 1 .. Horizon
                 /\ ~ IsActive(OfflineKey(e))}
SilentRetained(clock, fresh) ==
  {e \in SilentUnlatched(clock, fresh) : clock[e] <= Retention /\ e \notin latched \ fresh}

Silent(clock, fresh) ==
  {e \in Edges : /\ OfflineLimit > 0
                 /\ clock[e] \in OfflineLimit + 1 .. Horizon
                 /\ e \notin latched \ fresh
                 /\ ~ IsActive(OfflineKey(e))}

\* Mutant: only prediction alerts have a TTL.
ExpiredPredictions == {k \in Active(PredKeys) : reported[k] > PredTtl}

\* Alerts whose source did not report the problem again in time.
Expired ==
  {k \in Active(EdgeKeys) : reported[k] > EdgeTtl}
    \cup {k \in Active(PredKeys) : reported[k] > PredTtl}

\* Mutant: restored state resolves like live state.
ReportedEver == {d \in Devices : devices[d].known}

\* State read from the database opens alerts but resolves none.
ReportedLive == {d \in Devices : devices[d].known /\ ~ devices[d].restored}

\* Devices with an active alert once the sweep resolved and opened its alerts.
Alerted(resolve, opening) ==
  {k[2] : k \in (Active(DeviceKeys) \ resolve) \cup opening}

\* What a sweep does once the conditions of the devices are evaluated and the
\* offline clocks are read: the keys `holding` hold, `ended` do not, `cleared`
\* are resolved by their rules, and the keys `opening` open.
Swept(holding, ended, cleared, fresh, clock, opening) ==
  LET back == {OfflineKey(e) : e \in fresh}
      open == opening \cup {OfflineKey(e) : e \in Silent(clock, fresh)}
      resolve == cleared \cup Expired \cup Active(back)
      alerted == Alerted(resolve, opening)
      stale == {d \in Devices : /\ devices[d].known /\ d \notin alerted
                               /\ devices[d].seen > Retention}
      dropped == {k \in DeviceKeys : k[2] \in stale \/ hold[k] > Retention}
      unexpired == [d \in Devices |-> [t \in PredTypes |->
                      IF preds[d][t].at > PredTtl THEN NoPrediction ELSE preds[d][t]]]
  IN /\ edges' = [e \in Edges |-> IF clock[e] > Retention THEN NoTime ELSE clock[e]]
     /\ latched' = latched \ fresh
     /\ Change(open, RuleRefires(holding), resolve, {}, back, dropped)
     /\ Forget(stale, unexpired)
     /\ Unhold(Unheld(holding) \cup dropped)
     /\ breach' = [k \in RuleKeys |-> IF k[2] \in stale THEN NoTime
                                      ELSE Breaches(holding, ended)[k]]

\* `clock` moves the clocks of edges whose session was heard from later.
Sweep ==
  \E readable \in SUBSET {e \in Edges : heard[e] # NoTime}, order \in Orderings(Devices) :
    LET clock == [e \in Edges |-> IF e \in readable THEN Younger(edges[e], heard[e])
                                                    ELSE edges[e]]
        known == {d \in Devices : devices[d].known}
        x == [d \in known |-> Context(d, devices[d].status, devices[d].status,
                                      devices[d].reading, devices[d].seen)]
        holding == UNION {KeysOf(Holding(x[d], TRUE), d) : d \in known}
        ended == UNION {KeysOf(NotHolding(x[d], TRUE), d) : d \in known}
        cleared == Active(UNION {KeysOf(Cleared(x[d]), d) : d \in ReportedLive})
    IN /\ up
       /\ \E opening \in SUBSET Unheld(holding) :
            /\ OpenedInOrder(opening, Unheld(holding), cleared, order)
            /\ Swept(holding, ended, cleared, Fresh(readable), clock, opening)
       /\ UNCHANGED <<heard, configured, up, rows, dbDevices, dbEdges, restarts, failures>>

-----------------------------------------------------------------------------
(* The database writer, one operation at a time in order of submission.    *)

RowOf(o) == <<o.key, o.n>>
Apply(o) == rows' = [rows EXCEPT ![RowOf(o)] = Applied(@, o)]

\* An acknowledgement is answered Ok when the alert was active or its row is open.
WriterStep ==
  LET o == Head(queue)
  IN /\ up /\ queue # <<>>
     /\ queue' = Tail(queue)
     /\ Apply(o)
     /\ ackOk' = IF o.op = "ack" /\ (o.inMemory \/ IsOpenRow(rows[RowOf(o)]))
                 THEN ackOk \cup {RowOf(o)} ELSE ackOk
     /\ UNCHANGED <<memory, dbDevices, dbEdges, byHand, nagged, lapsed, configured, up,
                    restarts, failures>>

\* The operation fails, panics or is aborted at its deadline: it may have had
\* its effect, its caller gets an error, and it is not tried again.
WriterFails ==
  /\ up /\ queue # <<>>
  /\ failures < MaxFailedWrites
  /\ failures' = failures + 1
  /\ queue' = Tail(queue)
  /\ Apply(Head(queue)) \/ UNCHANGED rows
  /\ UNCHANGED <<memory, dbDevices, dbEdges, history, configured, up, restarts>>

-----------------------------------------------------------------------------
(* Time, and the life of the hub process. *)

Tick ==
  LET Aged(f) == [i \in DOMAIN f |-> Older(f[i])]
  IN /\ active' = [k \in Keys |-> [active[k] EXCEPT !.lastFired = Older(@)]]
     /\ reported' = Aged(reported)
     /\ breach' = Aged(breach)
     /\ hold' = Aged(hold)
     /\ devices' = [d \in Devices |-> [devices[d] EXCEPT !.seen = Older(@)]]
     /\ preds' = [d \in Devices |-> [t \in PredTypes |-> [preds[d][t] EXCEPT !.at = Older(@)]]]
     /\ edges' = Aged(edges)
     /\ heard' = Aged(heard)
     /\ queue' = [i \in DOMAIN queue |-> [queue[i] EXCEPT !.at = Older(@)]]
     /\ rows' = [a \in DOMAIN rows |-> [rows[a] EXCEPT !.lastFired = Older(@)]]
     /\ dbDevices' = [d \in Devices |-> [dbDevices[d] EXCEPT !.at = Older(@)]]
     /\ dbEdges' = Aged(dbEdges)
     /\ byHand' = Aged(byHand)
     /\ UNCHANGED <<opened, latched, configured, up, ackOk, nagged, lapsed, restarts, failures>>

\* The memory of a hub that just started, before it reads the database.
EmptyMemory ==
  [active |-> [k \in Keys |-> NoAlert], reported |-> [k \in TtlKeys |-> NoTime],
   breach |-> [k \in RuleKeys |-> NoTime], hold |-> [k \in DeviceKeys |-> Horizon],
   devices |-> [d \in Devices |-> NoDevice],
   preds |-> [d \in Devices |-> [t \in PredTypes |-> NoPrediction]],
   edges |-> [e \in Edges |-> NoTime]]

\* The process ends: its memory, its sessions and the writes still queued.
Crash ==
  /\ up
  /\ restarts < MaxRestarts
  /\ restarts' = restarts + 1
  /\ up' = FALSE
  /\ active' = EmptyMemory.active /\ reported' = EmptyMemory.reported
  /\ breach' = EmptyMemory.breach /\ hold' = EmptyMemory.hold
  /\ devices' = EmptyMemory.devices /\ preds' = EmptyMemory.preds
  /\ edges' = EmptyMemory.edges /\ heard' = EmptyMemory.edges
  /\ latched' = {}
  /\ queue' = <<>>
  /\ lapsed' = lapsed \cup {k \in Keys : byHand[k] # NoTime}
  /\ UNCHANGED <<opened, rows, dbDevices, dbEdges, ackOk, byHand, nagged, configured,
                 failures>>

OpenRows == {a \in DOMAIN rows : IsOpenRow(rows[a])}

\* list_active is newest first: of the open rows of a key the newest is kept.
IsNewest(a) == \A b \in OpenRows : b[1] = a[1] => b[2] <= a[2]
\* Mutant: alerts of rules that are gone are restored.
IsAnyRule(source, config) == TRUE

IsKnownRule(source, config) ==
  source \in config \cup EdgeMetrics \cup PredTypes \cup {RuleEdgeOffline}
Kept(config) == {a \in OpenRows : IsNewest(a) /\ IsKnownRule(a[1][1], config)}

\* Mutant: older duplicates are skipped but stay open in the table.
DiscardedUnknown(config) == {a \in OpenRows : ~ IsKnownRule(a[1][1], config)}

\* Older duplicates, and alerts nothing could evaluate any more.
Discarded(config) == OpenRows \ Kept(config)

RowStatus(d) == IF dbDevices[d].status = NoStatus THEN Offline ELSE dbDevices[d].status

\* restore_state with the rules `config`: active alerts, devices and edges
\* seen within the retention; offline clocks restart; a device past retention
\* is seeded when a configured rule has an alert on it.
Start(config) ==
  LET kept == Kept(config)
      recent == {d \in Devices : dbDevices[d].at <= Retention}
      seeded == {a[1][2] : a \in {b \in kept : b[1][1] \in config}}
      IdOf(k) == CHOOSE n \in 1 .. MaxAlerts : <<k, n>> \in kept
  IN /\ ~ up
     /\ up' = TRUE
     /\ configured' = config
     /\ active' = [k \in Keys |->
          IF k \in {a[1] : a \in kept}
          THEN [n |-> IdOf(k), status |-> rows[<<k, IdOf(k)>>].status,
                fired |-> rows[<<k, IdOf(k)>>].fired,
                lastFired |-> rows[<<k, IdOf(k)>>].lastFired]
          ELSE NoAlert]
     /\ reported' = [k \in TtlKeys |-> IF k \in {a[1] : a \in kept} THEN 0 ELSE NoTime]
     /\ devices' = [d \in Devices |->
          IF d \in recent \cup seeded
          THEN [known |-> TRUE, status |-> RowStatus(d), reading |-> dbDevices[d].reading,
                seen |-> 0, restored |-> TRUE]
          ELSE NoDevice]
     /\ edges' = [e \in Edges |-> IF dbEdges[e] <= Retention THEN 0 ELSE NoTime]
     /\ SubmitAll({ResolveOp(a[1], a[2]) : a \in Discarded(config)})
     /\ UNCHANGED <<opened, breach, hold, latched, preds, heard, rows, dbDevices, dbEdges,
                    history, restarts, failures>>

-----------------------------------------------------------------------------
Init ==
  /\ configured \in Configs
  /\ up = TRUE
  /\ active = EmptyMemory.active /\ reported = EmptyMemory.reported
  /\ breach = EmptyMemory.breach /\ hold = EmptyMemory.hold
  /\ devices = EmptyMemory.devices /\ preds = EmptyMemory.preds
  /\ edges = EmptyMemory.edges /\ heard = EmptyMemory.edges
  /\ latched = {}
  /\ opened = [k \in Keys |-> 0]
  /\ queue = <<>>
  /\ rows = [a \in RowIds |-> NoRow]
  /\ dbDevices = [d \in Devices |-> NoStatusRow]
  /\ dbEdges = [e \in Edges |-> NoTime]
  /\ restarts = 0 /\ failures = 0
  /\ ackOk = {}
  /\ byHand = [k \in Keys |-> NoTime]
  /\ nagged = {} /\ lapsed = {}

Next ==
  \/ \E d \in Devices : \/ \E r \in Reports : DeviceStatusUpdate(d, r)
                        \/ \E m \in EdgeMetrics : IngestDeviceAlert(m, d)
                        \/ \E t \in PredTypes, f \in Forecasts : PredictionResult(t, d, f)
                        \/ DeviceRemoved(d)
  \/ \E e \in Connecting : EdgeSeen(e) \/ EdgeDisconnected(e)
  \/ \E k \in Keys, n \in 1 .. MaxAlerts : AcknowledgeAlert(k, n) \/ ResolveAlert(k, n)
  \/ Sweep
  \/ WriterStep
  \/ WriterFails
  \/ Tick
  \/ Crash
  \/ \E config \in Configs : Start(config)

\* The sweep is an interval timer of the actor; time passes.
Spec == Init /\ [][Next]_vars
FairSpec == Spec /\ WF_vars(Sweep) /\ WF_vars(Tick)

-----------------------------------------------------------------------------
(* Properties *)

AlertStatuses == {"none", "firing", "acknowledged"}
RowStatuses == AlertStatuses \cup {"resolved"}
Fired == 0 .. MaxFired
Ids == 1 .. MaxAlerts

Alerts == [n : 0 .. MaxAlerts, status : AlertStatuses, fired : Fired, lastFired : MaybeAge]
DeviceStates == [known : BOOLEAN, status : Statuses \cup {NoStatus}, reading : Readings,
                 seen : MaybeAge, restored : BOOLEAN]
PredictionStates == [prob : Int, eta : Int, at : MaybeAge]
RowStates == [status : RowStatuses, fired : Fired, lastFired : MaybeAge]
StatusRows == [status : Statuses \cup {NoStatus}, reading : Readings, at : MaybeAge]
Operations == [op : {"upsert", "refire", "resolve", "ack"}, key : Keys, n : Ids,
               status : RowStatuses, fired : Fired, at : Age, inMemory : BOOLEAN]

AlertsTyped ==
  /\ active \in [Keys -> Alerts]
  /\ reported \in [TtlKeys -> MaybeAge]
  /\ opened \in [Keys -> 0 .. MaxAlerts]

KnownTyped ==
  /\ breach \in [RuleKeys -> MaybeAge]
  /\ hold \in [DeviceKeys -> Age]
  /\ latched \subseteq Edges
  /\ devices \in [Devices -> DeviceStates]
  /\ preds \in [Devices -> [PredTypes -> PredictionStates]]
  /\ edges \in [Edges -> MaybeAge] /\ heard \in [Edges -> MaybeAge]

StoreTyped ==
  /\ queue \in Seq(Operations) /\ Len(queue) <= MaxQueue
  /\ rows \in [RowIds -> RowStates]
  /\ dbDevices \in [Devices -> StatusRows]
  /\ dbEdges \in [Edges -> MaybeAge]

ProcessTyped ==
  /\ configured \in Configs /\ up \in BOOLEAN
  /\ restarts \in 0 .. MaxRestarts /\ failures \in 0 .. MaxFailedWrites

HistoryTyped ==
  /\ ackOk \subseteq Keys \X Ids /\ nagged \subseteq Keys \X Ids
  /\ byHand \in [Keys -> MaybeAge]
  /\ lapsed \subseteq Keys

\* Every variable has the values the handlers give it.
TypeOK == AlertsTyped /\ KnownTyped /\ StoreTyped /\ ProcessTyped /\ HistoryTyped

\* An alert whose acknowledgement was answered Ok is never notified again, nor
\* its rule action run again, not even when the hub was restarted or a write
\* failed in between (refire, upsert, restore_state).
AckedStaysQuiet == nagged = {}

\* An alert resolved by hand does not open again before its cooldown has passed, the
\* edge-offline alert not before the edge was seen again, except where the hub lost
\* the hold: it was restarted, or a sweep dropped the state of a device not seen
\* within the retention (ResolveAlert, manual_hold, edge_offline_latched).
Opens(k) == up /\ ~ IsActive(k) /\ active'[k].n # 0
MayOpenAgain(k) == IF k \in OfflineKeys THEN byHand[k] = NoTime ELSE byHand[k] >= Cooldown[k[1]]
ManualHoldKeptUnlessLost ==
  [][\A k \in Keys : Opens(k) => MayOpenAgain(k) \/ k \in lapsed]_vars

\* The alerts of one rule never exceed its max_firing_count, whatever the
\* order in which a sweep visits the devices.
CapRespected == \A r \in Rules : FiringCount(r) <= Greater(Cap[r], 0)

\* Every alert of a configured rule stays evaluable: its rule is configured and
\* its device is known, so a report or a sweep can resolve it (retention of
\* run_sweep, the seeding and the unknown rules of restore_state).
AlertsStayEvaluable ==
  up => \A k \in RuleKeys : IsActive(k) => k[1] \in configured /\ devices[k[2]].known

\* The alerts table once the operations that wait have run.
Drained ==
  LET after[i \in 0 .. Len(queue)] ==
        IF i = 0 THEN rows
        ELSE [after[i - 1] EXCEPT ![RowOf(queue[i])] = Applied(@, queue[i])]
  IN after[Len(queue)]

TableAgrees ==
  \A k \in Keys, n \in 1 .. MaxAlerts :
    /\ IsOpenRow(Drained[<<k, n>>]) <=> active[k].n = n
    /\ active[k].n = n => /\ Drained[<<k, n>>].status = active[k].status
                          /\ Drained[<<k, n>>].fired = active[k].fired

\* As long as no write failed, the alerts table is only behind the actor: with
\* the queued operations its open rows are the active alerts, with their
\* status and count, also after a crash at any point.
DrainedDbAgrees == up /\ HasDb /\ failures = 0 => TableAgrees

\* What became of an alert is kept, in memory and in the table, over crashes and
\* failed writes: both of the above.
StatusIsKept == AckedStaysQuiet /\ DrainedDbAgrees

\* A restart repairs what failed writes left behind: right after it the open
\* rows are again the active alerts, one per key.
RestartRepairs == [][~ up /\ up' => TableAgrees']_vars

\* State read from the database never resolves an alert: until the device
\* reports again only an operator or its removal does.
RestoredKeepsAlerts ==
  [][\A k \in RuleKeys :
       /\ IsActive(k) /\ active'[k].n = 0 /\ up'
       /\ devices[k[2]].restored /\ devices'[k[2]].restored
       => byHand'[k] = 0]_vars

\* An edge alert or a prediction alert that stays active is reported again and
\* again: without a fresh report the sweep ends it (TTL).
UnreportedAlertsEnd ==
  \A k \in TtlKeys : <>[] IsActive(k) => []<> (reported[k] = 0)

\* An edge that stays silent beyond edge_offline_after_secs gets its alert,
\* unless it is heard from again or an operator had silenced that alert; also
\* when the sweep comes so late that the retention drops the edge.
SilentEdgesCovered ==
  \A e \in Edges : edges[e] \in OfflineLimit + 1 .. Horizon
                     ~> edges[e] <= OfflineLimit \/ e \in latched \/ IsActive(OfflineKey(e))
=============================================================================
