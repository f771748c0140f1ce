# NIMon in TLA+

A verification project for NIMon: edges (`nimon-edge`) watch NI hardware and
stream device reports to a hub (`nimon-hub`), which raises alerts, stores them,
notifies and runs remediation actions. The modules here translate the parts of
the Rust code in which order, failure, time and concurrency decide whether the
system is right. TLC checks them on small instances; TLAPS proves the most
important invariants for every value of the constants. `PROJECT.json` maps each
definition to the source lines it stands for.

Source paths below are relative to the repository's `crates/`.

## 1. The system and its parts

| Component | State it keeps | Operations | Hard parts | What makes it correct |
|---|---|---|---|---|
| **Alert rules** `nimon-core/src/alert/rules.rs` | none (pure) | `evaluate`, `is_cleared`, comparisons with hysteresis | a condition and its clearing are written twice; missing metrics; composites | nothing evaluates and is cleared at once; only a margin leaves a band in which neither holds |
| **Alert manager** `nimon-hub/src/alert/manager.rs`, `nimon-core/src/db/alert_repo.rs` | active alerts, known devices and edges, breach windows, manual holds, latches, predictions; the `alerts` table | device reports, edge alerts, predictions, removals, edge activity, acknowledge, resolve, the sweep, `restore_state` | HashMap order in a sweep, state forgotten after it was used, a crash between memory and table, stale restored state, operators racing reports | section 3.1 |
| **Database writer** `nimon-hub/src/db_writer.rs` | two lanes, counters | `submit`, `submit_low`, `call`, `flush`, the worker | producers on other threads, a full lane, panics and deadlines, closing while a flush waits | order within each lane and how far one overtakes the other, what a flush covers, nothing accepted is lost, priority work always runs and flushes return |
| **Edge sessions** `nimon-hub/src/session/*.rs`, `server/ws.rs` | session store, socket tasks, cancellation tokens | register, replace, sweep, close, heartbeat | connections on different threads; a replaced connection ends late | a live socket keeps its session, the store names only open sockets |
| **Action executor** `nimon-hub/src/action/executor.rs` | run slots, pending requests, mailbox | run an action with retries and a fallback, match results, fail the requests of a lost edge | late and duplicate-looking answers, timeouts, disconnects, re-fires | one run per target, no orphaned waiter or entry, only the addressed edge answers, runs end |
| **Notifier** `nimon-hub/src/alert/notifier.rs` | mailbox, one delivery per notice | resolve channels, try one after the other | a channel that refuses, fails or times out before others; a rule whose channels are off | every notice reaches each enabled channel it is meant for, or the log |
| **Hub process** `nimon-hub/src/server/mod.rs` (`run_with_shutdown`), `main.rs`, `service.rs` | phase of its life, shutdown token, the service's status | start, serve, stop, under a console, the service manager or the widget | stops asked for in any state, sockets that outlive the server, two bounded waits | a stop ends the process and loses no sample it had |
| **Hub rules** `nimon-hub/src/config.rs`, `alert/manager.rs` (`build_rules`) | rules, their ids, actions by id | parse, convert, build | entries that parse and do not convert, names that come to one id, edits between starts | a rule per entry that converts, under an id that stays, with its own action |
| **HTTP API and queries** `nimon-hub/src/server/routes.rs`, `queries.rs`, `server/mod.rs` | overrides per edge, marks of removed devices | queries; acknowledge, resolve, manual action, edge config | the read of an alert and its change are separate messages; an override is stored and pushed in two steps; the device list merges sessions, rows and marks | thresholds in order, edges end up with what is desired, the list shows what edges reported |
| **Stored records** `nimon-core/src/db/*_repo.rs` | edges, devices, snapshots, alerts, actions | upserts, updates, pruning | three producers, two lanes, foreign keys and unique names | nothing is refused by a row it refers to, the edge's status follows its connections |
| **Schema and migrations** `nimon-core/src/db/schema.rs`, `db/mod.rs` | `user_version`, tables | `connect`, `migrate` | failing statements, crashes, two processes, databases left half migrated | no history lost, whoever gets in finds the new schema |
| **Edge link** `nimon-edge/src/actor/hub_connector.rs`, `comm/*` | outbound buffer, connection state, held removals | enqueue, flush on connect, requeue, reconnect | connections lost in mid-batch, frames handed back to a bounded buffer, events that outlive their connection, hubs of another version | priority messages go out once and in order or were given up by the full buffer, registration first, shutdown is final |
| **Device manager** `nimon-edge/src/actor/device_manager.rs`, `devices.rs` | devices, registry, jobs, thresholds, source health | sweep, scan, their results, timers, add, remove, apply config, resend | blocking calls that hang, panic or answer late; results applied to devices that changed meanwhile; two ways to the hub | devices, registry, models and hub agree; hung jobs are reported |
| **Edge actions** `nimon-edge/src/action.rs` | device locks, slots | validate, delay, wait, call, script, service restart | calls that cannot be cancelled, shared deadlines, one service restarted twice at once | one action per device, answers in time |
| **Prediction** `nimon-edge/src/actor/prediction_actor.rs`, `prediction/models.rs` | samples, episodes, bands, mean and variance per device and metric | readings, new thresholds, removal | clocks set back, thresholds changed in place, repetition | trends are regressions, trouble is announced, an anomaly is a rise out of the ordinary |
| **Protocol, types** `nimon-core`, `nimon-hub/src/config.rs` | layers of an edge's configuration | overlay, message to the edge, (de)serialisation | partial updates over defaults of two sides | modelled with the push of configurations; serialisation is not |
| **Desktop widget** `nimon-widget/src/main.rs` | services it hosts, its window, the last good answers of a hub | launch, supervise an edge, quit; dock, drag, open a panel; poll | three threads around one shutdown; monitors that come and go; a hub restarted between polls | it leaves when asked and gives the hub its time, the bar stays reachable, what is shown as good is of the running hub |
| **NI bindings** `nimon-ni` | libraries loaded once, a session over sweeps, driver handles | load, sweep, scan, reset | blocking threads racing to load, drivers installed or removed meanwhile, calls that fail in mid-enumeration | loads neither repeat nor give up for good, handles are closed once and none is left |
| **Simulator** `nimon-sim` | state of the run; per edge its driver, the readers of its connections, its devices | connect, sweep, reconnect (clean or overlapping), apply what the hub pushes, stop | an interval pushed in mid-sweep, two connections of one edge, an end of the run in any state | the pushed interval is kept, the run ends in time, what it tells of its devices is so |
| **CLI, web UI** | – | – | I/O, rendering | not modelled |

How they interact. An edge registers over a WebSocket; its socket task puts a
session in the store and tells the alert manager (`Connected`). Reports and
alerts go from the socket task to the alert manager's mailbox; results of
actions to the executor's. The alert manager hands table writes to the database
writer and remediation to the executor, which sends requests through the
session. When a connection ends, whoever removed its session tells the alert
manager and the executor. The sweep of the alert manager reads the session
store. After a crash the alert manager is rebuilt from the tables.

The hub runs on a multi-threaded tokio runtime (`#[tokio::main]`,
`nimon-hub/src/main.rs:67`): an actor handles one message at a time, but socket
tasks, the writer and the session sweeper run on other threads. One action of a
module is therefore one handler of an actor, or one poll of a task.

## 2. Modules

| Module | Models |
|---|---|
| `AlertRules` | `RuleCondition::evaluate` and `is_cleared` as operators |
| `AlertManager` | the alert manager, its table and restart (EXTENDS `AlertRules`) |
| `DbWriter` | the ordered writer, finer than the queues the other modules assume |
| `EdgeSessions` | socket tasks, session store, session sweeper |
| `ActionExecutor` | the executor composed with the sessions (EXTENDS `EdgeSessions`) |
| `HubRecords` | sessions, device frames, the writer's lanes, the tables and the device list composed (EXTENDS `EdgeSessions`) |
| `SchemaMigration` | `connect` and `migrate`, statement by statement |
| `OutboundBuffer` | the edge's offline buffer as operators on sequences |
| `HubLink` | the edge's connector and the supervisor of its connections (EXTENDS `OutboundBuffer`) |
| `Conversation` | what an edge and the hub say: registration, requests, refusals, back-off |
| `EdgeConfig` | the desired configuration of an edge from the API to its device manager |
| `DeviceManager` | discovery, timers, devices and registry composed with the prediction actor's mailbox |
| `PredictionModels` | the trend and the threshold model |
| `AnomalyDetector` | the EWMA model |
| `ExclusiveSlots` | abstract: what the edge promises of actions |
| `EdgeActions` | the action runtime, which implements `ExclusiveSlots` |
| `Notifier` | notices, channels and deliveries |
| `HubHost` | the life of a hub under each of its hosts |
| `Widget` | the widget as a host of hub and edge (EXTENDS `HubHost`) |
| `WidgetWindow`, `WidgetPoll` | where the widget stands, and what it shows of a hub |
| `NiDrivers` | libraries, sessions and handles of the NI drivers |
| `RuleSetup` | from the hub's file to the rules of the alert manager |
| `SimEdge` | a simulated edge, from its first connection to the end of the run |
| `MC*` | constants of the TLC runs; `MCParts` explores the components that share no state with others |
| `AlertManager_proofs`, `ActionExecutor_proofs`, `HubRecords_proofs`, `HubLink_proofs`, `EdgeConfig_proofs`, `EdgeActions_proofs` | theorems about the module they are named after, and the one it extends (`AlertRules`, `OutboundBuffer`); `HubLink_proofs` also has those about `SimEdge`, the other edge of the link |
| `Storage_proofs` | theorems about what the hub keeps: the writer (`DbWriter`), the migrations (`SchemaMigration`), the end of the hub (`HubHost`, `Widget`) |
| `Devices_proofs` | theorems about the edge's devices (`DeviceManager`) and the drivers they are read with (`NiDrivers`) |

### 2.1 AlertRules

Conditions are records (`metric`, `health`, `offline`, `prediction`,
`composite`). Metric values are integers and `Unknown` is a missing or
non-numeric metric. Composites nest one level, which is what the operators need
to be total without recursion; the code nests without limit.

### 2.2 AlertManager

State ↔ code: `active`, `breach`, `hold`, `latched`, `devices`, `preds`, `edges`
are the maps of `struct AlertManager`; `heard` is the heartbeat of the edge's
session; `configured` the rules of the running process; `rows`, `dbDevices`,
`dbEdges` the tables; `queue` the writer's priority lane. `ackOk`, `byHand`,
`nagged`, `lapsed` are history variables that only properties read.

| Action | Code |
|---|---|
| `DeviceStatusUpdate` | `Handler<DeviceStatusUpdate>`: known state, table rows, evaluation, resolve, open or re-fire |
| `IngestDeviceAlert`, `PredictionResult` | their handlers, with hold and cooldown |
| `DeviceRemoved` | `Handler<DeviceRemoved>`: resolve everything, forget |
| `EdgeSeen`, `EdgeDisconnected` | `Handler<EdgeActivity>` with the session's touch |
| `AcknowledgeAlert`, `ResolveAlert` | their handlers, also for an alert known only to the table |
| `Sweep` | `run_sweep` with `evaluate_known_devices`: TTL, silent edges, retention, in one step |
| `WriterStep`, `WriterFails` | the operation at the head of the lane runs, or is lost at its deadline |
| `Crash`, `Start` | the process ends at any point; `restore_state` |
| `Tick` | one unit of time |

Abstractions, each of which keeps the behaviour the properties look at:

- Timestamps are ages: the code only compares `now - t` with limits. An age stops
  at `Horizon`, which is above every limit of the run.
- The n-th alert of a key is `<<key, n>>` in place of a ULID.
- A sweep visits devices in HashMap order: the model takes every order. Writes of
  one handler on different alerts are queued in any order.
- Device status rows travel the lane that sheds: each is written at once or lost.
  A write aborted at its deadline had its effect or not, and is never retried.
- The sweep reads a session with `try_read`, which may fail: `readable` is any
  set of edges.
- Mailbox latency between a session's touch and the handler is not modelled.
- The reads of `restore_state` succeed (their failure is in the hazard list).
- Health-change rules are part of `AlertRules` and its theorems, in no run.
- Device ids carry their edge (`edge_owns_device`), so a removal naming another
  edge's device does not occur.
- Metric and prediction history and notification channels are not modelled; the
  retention of resolved rows is in `HubRecords`.

### 2.3 DbWriter

Operations are numbered by submission. The worker's `biased` select is two
steps (`PollHigh`, `PollLow`) because producers run on other threads. `waiting`
and `granted` are the flushes that queue for a slot of the bounded lane and those
that own one; a flush may give up while it waits. Any operation may succeed,
panic or overrun, barriers too (more than the code does).

### 2.4 EdgeSessions and ActionExecutor

`EdgeSessions` has the socket tasks (`task`, `owner`), the tokens, the store and
`leaving`: connections taken from the store whose `mark_edge_offline` is still to
come, because removal and report are two steps, on another thread than the
executor's. How old a session must be for the sweeper is not modelled: any
session may be found stale, and be heard from before it is removed.

`ActionExecutor` adds the runs, their slots, the pending requests with their
channels, the mailbox and the requests an edge may still answer. An edge answers
a request once, late, or never, over any of its connections (results are
buffered while it is offline). Runs of scripts and service restarts end with
success, failure or at their deadline. `Status` is what the code makes of that:
the deadlines of a restart come back as errors, so they count as failures.
Between lookup of a session and the send the connection may end: `SendFails`.
Messages for the executor are handled by the thread that polls its runs, so
matching a result and failing an edge are atomic with respect to the runs.
Not modelled: `running_actions` (read by no production code). The rows it writes are in
`HubRecords`.

### 2.5 OutboundBuffer and HubLink

A message is a number, a kind and a device; its kind decides its delivery class
and its size. `Enforced` is the loop of `enforce`: while a limit is exceeded, one
message goes, `Victim`. `HubLink` is the connector actor and the supervisor task,
which run on one thread and interleave at awaits: the connector's handlers are
one action each, the supervisor's actions are the stretches between awaits
(`Feed` one frame, `Flush`, and the ways in which either fails).

| Action | Code |
|---|---|
| `DeviceStatus`, `DeviceAlert`, `DeviceRemoved` | their handlers with `enqueue`, `send_outbound`, `send_removal`; predictions and action results are sent like alerts |
| `Connect`, `Disconnect`, `HeartbeatFails` | `start_connection`, `Handler<Disconnect>`, `send_heartbeat` on a dead connection |
| `OnConnected`, `OnDisconnected`, `OnReceived`, `OnStopped` | `Handler<WsEvent>` |
| `ConnectSucceeds`, `StopsRetrying` | `supervise` |
| `Feed`, `Flush`, `FeedFails`, `FlushFails`, `HubSpeaks`, `ConnectionLost`, `ShutsDown` | `run_session` |

`accepted`, `wrote`, `flushed`, `evicted`, `withdrawn`, `greeted` are history.

- Generations of supervisors are left out: one ends only after `Disconnect`, and
  then `start_connection` refuses another, so there is one.
- Of the ephemeral frames only the registration of a new connection is kept.
  Heartbeats, acks and pongs are never stored and are in no property.
- A batch may be flushed at any frame. The code goes on while the channel has
  frames, up to a limit; frames that arrive while the flush is awaited stay in
  the channel. Which of the two a frame met makes no difference to what follows.
- The hub's first message of a connection is its only one in the model: later ones
  do not change the known protocol.
- Failed attempts to connect, back-off and the hub's requests are in `Conversation`.

### 2.6 HubRecords

What the hub's three producers (socket tasks, alert manager, runs of the executor)
write into tables that refer to each other, through the writer's two lanes.
`AlertManager` and `ActionExecutor` say *when* an alert opens or a run ends; here
any may, so the rows are right whatever they decide.

| State | Code |
|---|---|
| `shown`, `removed` | `EdgeSession::devices`, `HubState::removed_devices` |
| `cache` | `AlertManager::db_devices`: the metadata believed stored |
| `open`, `ids`, `runs` | active alerts, their ids so far, alerts whose action runs |
| `high`, `low` | the writer's lanes, as operations that wait |
| `db` | `edge_nodes.status`, `devices.device_name`, `device_status`, `alerts.status`, `action_history.alert_id` |

| Action | Code |
|---|---|
| `OnRegister`, `Ends`, `ReportEnd`, `Heartbeat` | `on_register`, `on_close` or the sweeper, `mark_edge_offline`, the heartbeat frame |
| `OnDeviceStatus`, `OnDeviceAlert`, `OnDeviceRemoved` | the frames, each with the handler of the alert manager it leads to |
| `Evaluate`, `ForgetStale`, `RunCleanup` | the sweep and the periodic clean-up |
| `RunEnds` | `persist_result` |
| `RunHigh`, `RunLow` | the worker, with the repositories' SQL and the constraints of the schema |
| `Restart` | a crash, and `restore_state` from the tables |

- A frame and the manager's handler of it are one step: the mailbox keeps their
  order, and a delay only orders writes behind those of the other producers, as a
  later frame does.
- `on_register` is one step: it awaits nothing between session and row.
- A low operation may run though priority operations wait, because `DbWriter`'s
  two polls allow it; it may also fail. Priority operations do not fail by
  themselves: what follows a lost row is refused, and that is the subject of
  `AlertManager` (`RestartRepairs`).
- Of metadata only the name counts; a name that is refused by
  `UNIQUE(edge_id, device_name)` would take the row with it.
- An action does not outlast the retention of its alert, which is days.
- `NamesAssumption`: the last resort of `unique_name_sql` is "the globally unique device
  id" (`device_repo.rs:59`), so no device reports another's id as its product name. Nothing
  in the code prevents that; a device that did would have its row refused.
- The run is symmetric in the connections, and its view drops what no guard or
  property reads: whether the token of a socket that ended is cancelled.

### 2.7 DeviceManager

The manager's two blocking jobs are `jobs` (`idle`, `running`, `stalled` once
reported as hung, with the messages that were posted before it started), its one
timer is `armed`. `devices` has per device who found it, its last status and the
sweeps that missed it; `registry`, `predictor`, `mailbox` are shared with the action
runtime and the prediction actor; `hubView`, `hubAlerts`, `hubWarnings` are what the
connector was told.

| Action | Code |
|---|---|
| `Start`, `TimerTick` | `started`, the tick: overdue jobs, samples of simulated devices, the next sweep and scan |
| `SweepOk`, `SweepUnavailable`, `SweepFailed`, `ScanOk`, `ScanFailed`, `JobPanicked` | the results of the jobs, late ones too |
| `AddDevice`, `RemoveDevice`, `ApplyConfig`, `ResendState`, `StopDeviceManager` | their handlers |
| `Forward` | the prediction actor: status, removal or thresholds at the head of its mailbox |

- A result is any subset of what a discovery can list with any readings, so a
  device may be missed and come back in any order. Whether a job is past its limit
  is a choice of the tick.
- Manager, prediction actor and connector share the thread of one Arbiter: tasks
  run in the order in which they are woken, which is why a job's result cannot
  overtake messages posted before it was started (`lag`).
- Sweep numbers are compared for equality only; whether the two discoveries' numbers
  coincide is a choice.
- System information, error totals and metrics other than temperature are left out.

### 2.8 ExclusiveSlots and EdgeActions

`EdgeActions` takes a request from validation to its answer: `Accept` or `Reject`,
`DelayOver`, `GetSlot` or `NoSlot`, then a driver call (`CallReturns`,
`CallTimesOut`), a script (`ScriptEnds`, `ScriptFails`, `ReadersEnd`) or service
restarts (`ScStop`, `SeenStopped`, `ScStart`, `SeenRunning`, `RestartFails`). A script
that runs out of time is killed in two awaits before its readers' grace begins
(`run_captured`): `kill_process_tree`, whose command has a limit of its own
(`KillTimeout`, 10 s on Windows and 5 s elsewhere; `KillEnds`), and `child.kill()`,
which waits for the process to be gone and has no limit (`ChildReaped`). How long the
operating system takes for that is `reaped`, bounded by `MaxReap`. A
driver call is a blocking task that keeps the lock and the slot until it returns,
also after its request was answered. `RegistryChanges` is the device manager at
work, `ServiceMoves` the operating system. `Tick` is urgent: time does not pass a
timer that is due, but the timer races whatever is due at the same moment.

`ExclusiveSlots` is the promise: users lock a target, take one of `Capacity` slots,
let go of both at once. `KeepsRules` is the refinement (`INSTANCE … WITH`): the lock
is `key`, and a request holds a slot while it does its work or its call has not
returned.

### 2.9 EdgeConfig

The desired configuration of one edge: `Defaults` and `Override` of the hub's file
under the `override` of the API. A request is `Merge` (validated, checked and
stored under the entry's lock) or `Refuse`, then `Lookup` of the session and `Push`;
a registration is `Register`, `ReadDesired`, `PushDesired`. `Deliver` applies a
message at the edge as its device manager does, with `ToUpdate` in the format of the
protocol the edge speaks. Connections are lost, replaced and swept, and the edge
restarts with its own configuration. The hub does not restart here: overrides live
in memory, and the README names that as a limit. `OwnAssumption` says that the edge
starts with the thresholds the hub assumes for fields nobody set.

### 2.10 PredictionModels

Samples are (age, value) with integer values and minutes; slopes are compared as
fractions, so nothing is rounded. `Reading` is one update of both models,
`SetThresholds` changes thresholds in place, `RemoveDevice` drops the models. Steps
of a negative number of minutes are a clock set back.

### 2.11 SchemaMigration

A database is its version, the tables the migrations change and their sequences.
Each statement of `migrate_0_to_1` and `migrate_1_to_2` is a step on the transaction's
view; `Fails` and `Crash` may happen at each, `Busy` is the lock held by the other
process, and `Restore` switches foreign keys back on and reads the pragma back. The
originals are all kinds of databases a hub may find: new, legacy, one that an older
build left half migrated, version 1, version 2 and a newer one.

### 2.12 Notifier

`inbox` is the mailbox of the notifier actor, `deliveries` the channels each of its
tasks has still to try, `tried` how it went. `Notify` is `AlertManager::notify`,
`HandleNotification` the actor's handler with `resolve_channels`, `TryChannel` one
turn of the loop of `send_alert`: a channel answers, fails, or refuses because a
password would travel without TLS. Notices are not retried. Deliveries are tasks of
their own, so the notice that an alert resolved may arrive before the one that it
fired.

### 2.13 HubHost and Widget

`phase` is where `run_with_shutdown` is: `loading`, `checking`, `opening`, `binding`,
`serving`, `closing`, `flushing`, `slot`, `draining`, `returned`. Each step up to
`serving` may fail; no stop is looked at before. Of the data only metric samples are
followed, from an edge's socket over the alert manager's mailbox and buffer to the
writer's low lane, because they are what a stop can lose: `CloseEnds` posts the
`FlushMetrics` message, `FlushEnds` waits `FlushWait` seconds for it, `PlaceBarrier` and
`DrainEnds` are `DbWriter::flush` within `DrainWait`. Sockets are detached tasks: they
report on while the server closes. `StopService` and `Interrupt` are how a stop is asked
for; an interrupt before the server listens for it kills the process.

`Widget` runs the same hub on a thread. `Launch` decides what it hosts; the supervisor
(`SupervisorLooks`, `SupervisorAsks`, `EdgeStarts`, `SupervisorResumes`) restarts the edge;
`RequestQuit` with `QuitterStops` and `ExitEvent` are the two threads that may find
themselves in `shutdown_services`, whose steps are `StopEdge`, `JoinEdge`, `StopHub` and
`JoinHub`. The clock moves all bounded waits at once, never past one that is due.

### 2.14 WidgetWindow and WidgetPoll

`WidgetWindow` has `layout`, `area_nearest`, `move_by` and the watchdog at the end of a
poll as they compute, in multiples of a pixel count; scales are small integers.
`MonitorsChange` is the environment. `WidgetPoll` keeps one resource with a lifetime of its
own (the settings), which stands for those fetched anew with every poll as well; the
requests of a poll fail one by one.

### 2.15 NiDrivers

One library is in play, as they share nothing. `loaded`, `failure` and `holder` are
`LibCache::ok`, its failure and its mutex; `Look`, `TakeLock`, `Check` and `Load` are
`get_or_load`, for several blocking threads. The sweep keeps a session over jobs, opens it
again after a failed enumeration and gives it up after a second (`OpenSession` to
`DropSession`); the scan opens a manager and one instrument after the other. `open` is what
the driver believes open. What a driver answers is external: any call may fail.

### 2.16 RuleSetup

A condition as written is the type it names, its keys with the quality of their values, and
nested conditions. `Parses` and `Converts` are `parse_condition_inner` and `TryFrom`, and
differ in what they refuse: the first refuses the file, the second the entry. `Build` is one
turn of the loop of `build_rules`. `Edit` changes the file between two runs of the hub, since
alerts are stored under rule ids. The other settings `validate` looks at and the wrap of a
duration in an `i32` are left out.

### 2.17 Conversation

One edge and the hub, one connection at a time, each direction a sequence of frames. The
supervisor of the edge (`dialer`: `Delays`, `DialFails`, `DialRejected`, `DialSucceeds`,
`Lasts`, `TalkEnds`) runs beside its connector (`OnLive`, `OnLost`, `OnRefused`, `OnNews`,
`OnAction`, `OnCommand`, `ActionEnds`), so a delay may be computed before the connector has
seen the refusal it is about. The hub's socket task (`HubReads`, `HubReadsQueued`,
`HubWrites`) answers a message at once and writes in between what others queued for the
session. `peer` is the hub: of the edge's version, of another, or one that refuses its
token; it changes while no connection is up (`HubChanges`). Reports are one kind of frame
that outlives its connection and one that does not; sizes and limits are `HubLink`'s.

### 2.18 SimEdge

The driver of a simulated edge (`where`) connects, sweeps, closes, pauses and backs off; the
readers of its connections (`reader`, two when a reconnect overlaps) apply an interval or a
request to send everything again, and wake it (`permit`, the stored permit of a `Notify`).
`run`, `seen` and `patience` are the state of the run, what this edge has seen of it, and how
long `main` still waits. Time is in ticks relative to now (`left`, `since`), and `SimTick`
does not pass a timer that is due by more than `Late`, nor happens while the edge's task is `Ready`
to go on. Of the devices the one that falls silent and is removed is kept.

A permit that was stored while no sweep was awaited is found by the next wait: the "first
sweep immediately after register" (`edge.rs:498`) may then come only after a full interval.
`OnTime` allows it.

### 2.19 AnomalyDetector

Mean and variance as numerators over powers of `Smoothing` (1/alpha) and `MinSamples`, so
nothing is rounded. `WarmsUp` fills the warm-up and makes the first mean and variance;
`Judges` compares a reading with them and then updates them. The probability that goes with
a prediction is left out.

## 3. Runs

Every property of a run is paired with a mutated definition (marked `Mutant:` in
the modules, listed in `PROJECT.json`): a plausible bug under which TLC finds the
property violated in the same run.

### 3.1 Alert manager

| Run | Instance | Properties |
|---|---|---|
| `cap` | two devices under one rule (lasting metric or silence), `max_firing_count` 1, device symmetry | `CapRespected` |
| `edges` | one edge that connects, disconnects, falls silent and reports an alert itself, a prediction and a rule about it; fair sweep and time | `ManualHoldKeptUnlessLost`, `UnreportedAlertsEnd`, `SilentEdgesCovered` |
| `restart` | database, a crash at any point, one failing write, a rule that may be gone afterwards | `AlertsStayEvaluable`, `StatusIsKept`, `RestartRepairs`, `RestoredKeepsAlerts` |

- `CapRespected`: a rule's alerts never exceed its cap, in whatever order a sweep
  opens and resolves them.
- `AlertsStayEvaluable`: each alert of a rule has its rule configured and its
  device known, so that something can still resolve it.
- `ManualHoldKeptUnlessLost`: after a manual resolution nothing opens the alert
  again within its cooldown, except where the hub lost the hold.
- `StatusIsKept`: an acknowledged alert is never notified again, across crashes and
  lost writes too (`AckedStaysQuiet`), and the table is only behind the actor: once the
  lane is empty the two agree on the status of every alert (`DrainedDbAgrees`).
- `RestartRepairs`: after a restart they agree again even if writes were lost.
- `RestoredKeepsAlerts`: state read back from the table resolves nothing.
- `UnreportedAlertsEnd`, `SilentEdgesCovered`: liveness of the sweep.

Bounds. One device and one edge suffice for everything about a single key; the
cap needs two devices. Limits of 1 with `Horizon` one or two above the largest
give below, at and beyond each limit. `Retention` is at least every cooldown
in the runs, as in the default configuration. Two alerts per key let an old
row and a new one coexist, which is what the restart must repair; one restart
and one failed write with two queued writes reach every combination of lost and
pending writes for two operations. Runs without a database use `MaxAlerts = 1`:
an id is then only a name. `restart` sets all limits to 0 and is about state, not
time.

### 3.2 Database writer and stored records

| Run | Instance | Properties |
|---|---|---|
| `writer` | four operations of any kind, a low lane of two | `LanesInOrder`, `NothingLeftBehind`, `WritesEnd` |
| `hub_records` | two devices of one product on one edge, one of them reported; two symmetric connections, two frames, one alert per device, two priority operations waiting, a low lane of one, one restart; tables empty or with the second device under the name both prefer | `DependentsFollow`, `RecordsAgree`, `LiveIsReached` |
| `migration` | two processes, every original of section 2.11 | `HistoryKept`, `ReadyWhenIn` |

Four operations fill the lane, shed, and leave a flush waiting behind it.

- `LanesInOrder`: within a lane operations run in the order they were accepted
  (`PriorityInOrder`, `LowInOrder`); across the lanes a priority write is overtaken at
  most once, by what the worker takes between its two polls, and by nothing more until
  the priority lane is empty again (`OvertakenOnce`).
- `NothingLeftBehind`: a flush that was answered covers every low write accepted before
  it (`FlushCoversLow`), and a writer that stopped has nothing left in its lanes
  (`StoppedMeansDrained`). A flush may leave a priority write behind (section 4, item 2):
  one that came between the two polls before the barrier.
- `WritesEnd`: a priority operation that was accepted runs (`PriorityRuns`), and a flush
  returns, whether it waits for a slot, is closed behind or meets panics and overruns,
  unless its caller gives up (`FlushReturns`). Submissions are finitely many: priority writes
  that never pause would hold up the low lane, and with it every flush, in the code too.

- `DependentsFollow` ("edge row before device row before alert/action rows",
  `db_writer.rs:5`): no priority operation is refused by a foreign key or a unique
  name, whoever submitted it and whatever was forgotten, pruned, shed or restarted.
- `RecordsAgree`: the status of an edge's row follows its connections once its
  writes are through, and where an older connection's end was reported late, from
  the next heartbeat (`EdgeRowAgrees`); the device list hides a device from its removal
  until it is reported again, across replaced connections and whatever the age of its
  row (`ListAgrees`).
- `LiveIsReached`: a registered connection nobody asked to close is the one its
  edge is reached by.

Two frames make any pair of report, alert and removal on the same or on different
connections; the second device is enough for a name that is taken; two waiting
operations are the longest submission of a handler (the metadata or snapshot and the
alert), and a producer that finds no room waits, so operations of two producers
meet in either order. One alert per device opens once before or after a restart.

- `HistoryKept`: no row of a table that is rebuilt is lost or renumbered, at whatever
  statement a migration failed or its process ended.
- `ReadyWhenIn`: whoever `connect` lets in finds the new schema with foreign keys
  enforced, and whoever it turns away leaves neither its lock nor switched-off foreign
  keys behind.

Two processes in `migration` are a hub that is restarted and one beside it; rows
are one of every kind a version allows beside an ordinary one.

### 3.3 Executor

| Run | Instance | Properties |
|---|---|---|
| `runs_end` | one edge and device, two connections, two runs: an edge action of two attempts with a disabled fallback and a service restart; fair mailbox and runs | `GoneFailsPending`, `OneRunPerTarget`, `RunsEnd` |

- `GoneFailsPending`: if a request waits while its edge has no connection, the
  report that will fail it is on its way. It holds although the report is
  sent from another thread, because it reaches the executor's mailbox after the
  removal and the executor polls its runs itself.
- `OneRunPerTarget`, `RunsEnd`: as named.

Two connections suffice for a replacement, a sweep and a late end; two runs compete
for one slot.

### 3.4 Edge link

| Run | Instance | Properties |
|---|---|---|
| `link` | three reports about two devices, one of them polled, two connections, a buffer of two messages and three bytes (a removal has two), one held removal; fair mailbox, writes and shutdown | `KeptOnce`, `WritesInOrder`, `ShutdownStops`, `StableLinkDelivers` |

- `KeptOnce`: from the moment it is handed to the connector until its batch is
  flushed, an alert or removal is in exactly one place (buffer, channel, batch, an
  event on its way back, the held removals), unless the full buffer or a newer fact
  gave it up.
- `WritesInOrder`: the first frame of a connection registers the edge (`RegistersFirst`);
  alerts are written in the order they were raised, and no removal after a status that
  says the device is back (`FirstWritesInOrder`, about the first time a message is
  written, for a batch that failed is written again).
- `ShutdownStops`: as named.
- `StableLinkDelivers`: a link that lasts carries every alert; nothing waits for a
  further message or another outage.

Three messages overflow the buffer from the front and from the back, and let one
be in flight, one in the channel and one buffered. Two connections have an end,
a requeue and a flush between them; the second may be lost as well. Both limits of
the buffer bind: three messages, or two of them when both are removals.

### 3.5 Edge

| Run | Instance | Properties |
|---|---|---|
| `edge_devices` | one device both discoveries can list and one simulated one an operator adds and removes, two readings, two pushes of thresholds, removal after two sweeps, a mailbox of two | `DownstreamAgrees`, `ReportsAgree`, `Monitored` |
| `edge_actions` | five requests: two resets of one device under both forms of its id, a script for another device, two restarts of one service; two slots, a timeout of two ticks, one each for the kill command, for the end of the killed script and for the grace; `d` leaves the registry and comes back | `OverrunsContained`, `ServicesUp`, `KeepsRules` |
| `edge_config` | three requests only some orders of which are accepted, two connections that hold two messages, an edge of either protocol | `EdgeAgrees`, `DesiredInOrder` |

- `DownstreamAgrees`: what the connector hears of a device ends with its latest
  status or its removal although resent snapshots overtake the mailbox; models and
  thresholds of the prediction actor, and the registry of the action runtime, are
  those of the tracked devices.
- `ReportsAgree`: the hub holds an unreachable alert exactly for the devices marked
  so, except while a removal is on its way (`AlertsAgree`); device count, degraded
  reasons and warnings told are the true ones (`EdgeReported`).
- `Monitored`: a pause between sweeps ends, and a sweep returns or is reported hung.
- `OverrunsContained`: two driver calls never reset one device at a time, not after
  the first was answered as timed out, not under another form of the id
  (`ResetsExclusive`); and whatever overruns, a request is answered within the bounds its
  kind of work has (`AnsweredInTime`): a script that had to be killed is late by the limit
  of the kill command and by what the system took to end it, and by nothing else.
- `ServicesUp`: when every restart of a service is over and none failed, it runs, although
  two requests may restart it at once. `KeepsRules`: the refinement of section 2.8.
- `EdgeAgrees`: a registered edge with nothing on its way has what the hub desires,
  whatever connections come and go between a handler's merge and its push
  (`push_edge_config_handler`), unless two handlers sent on its connection in the other order
  than they merged.
- `DesiredInOrder`: requests served at once never combine into a warning threshold
  at or above the critical one.

A device that both discoveries can list and one they cannot are all the cases of
ownership; two missed sweeps separate missed once from expired. Five requests
compete for locks (two), slots (three at work of two) and the service (two).

### 3.6 Components on their own

`parts` explores ten components that share no state with others or with each other: a
behaviour is one of the component `part` while the rest stays as it started.

| Part | Instance | Properties |
|---|---|---|
| `trend` | readings of four values every one or two minutes or after a pause, a clock set back by one, a window of four minutes, two pairs of thresholds | `PredictionsAreTrue` |
| `anomaly` | five readings of 0, 1, 3 or 7, two of them the warm-up, alpha 1/3, two standard deviations of at least 1 | `PredictionsAreTrue` |
| `notices` | two notices; a mail channel that refuses, a webhook, a channel that is off, a type nobody knows, the implied console; a rule for all, for one, for a channel that is off and one that does not exist | `AnnouncedEverywhere` |
| `rules` | up to three of eight entries, whose names collide with each other and with numbers given to others, and which fail to parse, to convert or to validate | `RulesBuilt` |
| `hosts` | console, service manager and widget; two samples (none under the widget), a low lane of one, waits of one second, joins of two and of three | `StopLosesNothing`, `StopsEnd` |
| `window` | three arrangements of one or two monitors of two scales, two drags, two heights, two saved places | `WidgetTrue` |
| `poll` | settings that live for three polls, two restarts of the hub | `WidgetTrue` |
| `drivers` | each library, three threads that reset, a driver that is installed or removed at any time, a failure remembered for three ticks, two resources found | `DriversSound` |
| `talk` | two connections, three delays, one action or command in any of six forms, a hub of the edge's version, of another, or that refuses its token | `TalkKept` |
| `simulator` | five sweeps, intervals of one and three ticks, one push, two connections, delays of one and four ticks, a wait of three at the end | `SimulationHolds` |

- `PredictionsAreTrue`: the trend is the least-squares slope over all pairs of samples,
  which lie in the window and in the order of time (`TrendIsRegression`); a rise is
  announced when it begins and again while it lasts, a band of risk when the value enters
  it (`TroubleIsAnnounced`); the detector's mean and variance are those of all readings
  weighted by age, and it reports a reading exactly when that exceeds the mean of those before
  by the threshold, never because it is low (`AnomalyIsRise`).
- `AnnouncedEverywhere`: each notice is tried on every enabled channel of its rule,
  whatever became of those before, or logged when there is none.
- `RulesBuilt`: one rule per entry that converts, under an id no other has and that stays
  when entries are added; an alert runs the action written beside its rule.
- `StopLosesNothing`: after a stop in which no wait ran out, what edges had reported before
  the server stopped is stored, shed or failed, never forgotten; and the widget that stops
  its services to the end does not cut the hub off. `StopsEnd`: a stop that was asked for
  in any state ends the process, and the widget leaves when it is told to.
- `WidgetTrue`: a monitor holds the bar, except between a change of monitors or scale
  and the layout that follows it (`BarReachable`); settings shown as good are the running
  hub's, except for a restart between two polls within their lifetime (`SettingsCurrent`).
- `DriversSound`: a library is loaded by one thread at a time, once, and after a failure not
  before its interval, and a driver that has been there for that long is used (`LoadPolicy`);
  children are closed before their session, and between jobs only the session that is kept is
  open (`HandlesBalanced`).
- `TalkKept`: the first thing an edge hears is the answer to its registration (`AckFirst`); an
  edge of the hub's version is never told to register first (`NothingRejected`); every action
  it took up is being run or its result is under way, also without connection
  (`ActionsAnswered`); and an edge that was refused twice in a row waits for as long as it can
  (`RefusedBacksOff`).
- `SimulationHolds`: a new interval is kept from the next sweep on, whichever reader applied
  it and wherever the driver was (`OnTime`); whatever an edge is doing when the run ends, it
  stops before `main` gives up (`StopsInTime`); and when it says that no device is left, the
  session of that connection has none (`CountAgrees`).

Four samples fill the window of the trend, and steps of one, two and five minutes give full,
sparse and broken histories. Three entries let the number given to one name be the name of a
third. Two samples are one in the lane, which is full then, and one behind it. Waits of one
second are each before and at their limit, with the widget's joins above both; for waits of any length
`StopLosesNothing` is proved. Two monitors are enough for a bar that crosses from one to the other or loses the one
it is on. Three threads are one that loads, one that waits and one that comes later.
Three readings after the warm-up let a reading that stood out weigh on the next two. Two
connections are one that is lost, or refused, with something unanswered, and the next; three
delays are the first, one doubled, and the cap. Five sweeps take the silent device from its
last report over its removal to a reconnect behind it, and the longer delay outlasts the
wait at the end, which a stop must cut short.

### 3.7 Fairness

- Alert manager: WF of `Sweep` (`run_interval` on the actor) and of `Tick`.
- Writer: WF of the worker task, whose operations end by their deadline, and of
  a flush that owns a slot. Not of producers.
- Executor: WF of the mailbox and of each run, whose attempts have a timer.
  Nothing is assumed of edges or connections.
- Edge link: WF of the connector's mailbox, of a batch once begun (every socket
  write has a timeout) and of the shutdown signal, which both of the supervisor's
  loops poll. Nothing is assumed of the hub; `StableLinkDelivers` is conditional on
  a connection that lasts.
- Device manager: WF of the armed timer, seeing a job past its limit in the end,
  and of the prediction actor's mailbox. Nothing says that a job returns.
- Notifier: WF of the actor's mailbox and of each delivery, whose requests have timeouts.
- Hub process and widget: WF of its start, of the steps of a stop, of requests (their
  handlers bound their waits), of the widget's threads and of time. Nothing is assumed of
  edges, and nothing says that an edge fails.

The other modules have safety properties only. In `edge_actions` the bounds on
time come from the urgent clock, not from fairness.

The runs that check only safety of programs that may stop (`writer` after `Close`,
`link` after a shutdown, `parts` after its component stopped, the bounded frames, requests
and connections) switch the deadlock check off.

## 4. Where code and documentation disagree

Met while modelling; where the claim can be stated over a module it is there as a
definition that no run checks, because the code does not keep it.

1. README.md:452 "A manually resolved alert does not re-open before its cooldown
   has passed." A sweep forgets a device not heard from within the retention
   (`manager.rs:1075`) together with its manual holds. A device kept only because of
   its alert loses both when the alert is resolved by hand, and its next report
   opens the alert again within the cooldown. `ManualHoldKeptUnlessLost` excludes
   exactly these steps.
2. `LowNeverOvertakes`: `db_writer.rs:20-22` "A low write never overtakes an earlier
   priority write". Between the two polls of the select a producer on another
   thread may submit a priority write and then a low one; the low one runs first.
   For the same reason `FlushCoversBoth`: `db_writer.rs:231-233` "Wait until every write
   (both lanes) submitted before this call has completed. … it runs … only once the priority
   lane is empty". The barrier may be what is taken between the polls, and the flush
   returns while a priority write that its own caller submitted before still waits.
   `FlushCoversLow` is what holds of the low lane, `OvertakenOnce` what holds of the other.
3. `LateRepliesIgnored`: README.md:99-101 "action results are matched to the exact
   request … and late replies are ignored". A result whose request timed out
   completes the only pending request of the same edge and action
   (`executor.rs:607`), for another device if that is the one waiting. Rule actions
   share their id across devices.
4. `TimeoutNotRetried`: `executor.rs:180-182` "a timeout … is never retried". The
   deadline of a service restart is an error, hence `Failed`, hence retried.
5. `RemovalsAwaitProtocol`: `hub_connector.rs:11-14` "`device_removed` … is only sent
   once the hub on the current connection is known to speak >= 1.1 … until then
   removals are held, and for a 1.0 hub they are dropped". A removal sent on one
   connection and handed back unwritten is in the offline buffer, which
   `on_connected` writes to the next hub right after it forgot the protocol
   (`hub_connector.rs:319`).
6. `nimon-edge/src/action.rs:14` "every action is bounded by `action.timeout_secs`".
   A script or a service restart waits for a slot for up to that time and then has
   the same time again, a script also its readers' grace. A script that is killed has the
   kill command's limit (`action.rs:541-553`) on top and then `child.kill().await`
   (`action.rs:622`), which nothing bounds: it lasts until the system has ended the
   process. `AnsweredInTime` has these bounds, and counts the last wait as `reaped`.
7. `server/mod.rs:69` "hidden from the API until seen again". The marks are in
   memory: after a restart of the hub a removed device is listed from its row.
   `ListAgrees` is about what one process was told.
8. `nimon-widget/src/main.rs:769` says of the Exit event that any exit path stops edge and
   hub. Its call of `shutdown_services` returns at once when a quit in the background is
   already in it (`main.rs:279`), and the process ends while the hub is still flushing.
   `StopLosesNothing` speaks of stops that were carried through.

And three consequences of the code that no document speaks about: after a crash
an edge that never returns keeps its status `online`; the manager's cache of device
rows is set before the write succeeds, so a lost write is not repeated until the
metadata change; a heartbeat on a connection that was replaced or swept sets the
row online once more. `EdgeRowAgrees` leaves the first and the last open.

## 5. Proofs

Checked by TLAPS for every value of the constants, under the named assumptions of
the modules (which TLC evaluates in the runs).

| Theorem | States |
|---|---|
| `AlertManager_proofs!FireExcludesClear` | no condition evaluates and is cleared in one context |
| `AlertManager_proofs!NoMarginNoBand` | without hysteresis a numeric metric condition fires or clears |
| `AlertManager_proofs!TypeCorrect` | `Spec => []TypeOK` |
| `AlertManager_proofs!AlertsEvaluable` | `Spec => []AlertsStayEvaluable` |
| `AlertManager_proofs!ManualHolds` | `Spec => ManualHoldKeptUnlessLost` |
| `AlertManager_proofs!TableFollows`, `AcksAreKept`, `StatusKept` | `Spec => []` of `DrainedDbAgrees`, of `AckedStaysQuiet`, and of both, which is `StatusIsKept` |
| `AlertManager_proofs!RestartsRepair` | with a database, `Spec => RestartRepairs` |
| `AlertManager_proofs!RestoredAlertsStay` | `Spec => RestoredKeepsAlerts` |
| `AlertManager_proofs!CapIsKept` | `CapRespected` always, as long as no restart has read the table |
| `Storage_proofs` (8 theorems) | type correctness and the safety invariants of the writer, `LanesInOrder` and `NothingLeftBehind` among them |
| `Storage_proofs!MigrationCorrect`, `MigrationKeepsHistory`, `MigrationReady` | `MigrationSpec => []` of the invariant of the migrations, of `HistoryKept` and of `ReadyWhenIn` |
| `Storage_proofs!WidgetCorrect`, `WidgetStopLosesNothing` | `WidgetSpec => []` of the invariant of the hub's end, and of `StopLosesNothing` |
| `ActionExecutor_proofs` (7 theorems) | type correctness and the six safety invariants of sessions and executor |
| `HubRecords_proofs!TypeCorrect`, `DependentsFollowed`, `RecordsAgreed`, `LiveAreReached` | `Spec => []` of `TypeOK`, `DependentsFollow`, `RecordsAgree` and `LiveIsReached` |
| `EdgeConfig_proofs!EdgesAgree`, `DesiredStaysInOrder` | if the hub's file has its thresholds in order, `Spec => []` of `EdgeAgrees` and of `DesiredInOrder` |
| `EdgeActions_proofs!TypeCorrect`, `OverrunsAreContained`, `ServicesComeUp` | `Spec => []` of `TypeOK`, `OverrunsContained` and `ServicesUp` |
| `EdgeActions_proofs!RulesAreKept` | `EdgeActions` implements `ExclusiveSlots` (`Spec => KeepsRules`) |
| `HubLink_proofs!TypeCorrect`, `LinkLosesNothing` | `Spec => []` of `TypeOK` and of `KeptOnce` |
| `HubLink_proofs!LinkWritesInOrder` | `Spec => WritesInOrder` |
| `HubLink_proofs!SimulatorCorrect`, `SimulatorHolds` | `SimSpec => []` of the invariant of a simulated edge, and of `SimulationHolds` |
| `Devices_proofs!TypeCorrect`, `DownstreamCorrect` | `Spec => []` of `TypeOK` and of `DownstreamAgrees` |
| `Devices_proofs!ReportsCorrect` | if `ManualApart`, `Spec => []ReportsAgree` |
| `Devices_proofs!DriversAreSound` | `NiSpec => DriversSound` |

**Alert manager.**

- `TypeCorrect`: `TypeOK` is inductive. Finiteness of keys is needed where the
  sweep and the restart order a set of writes.
- `AlertsEvaluable` is inductive relative to `TypeOK`. The sweep is the hard step:
  the devices it forgets exclude those of the alerts it leaves or opens, and no
  rule holds and is cleared at once. At a restart an alert is kept only if its
  rule is configured, and its device is then seeded.
- `ManualHolds` needs more than the property: `HoldAccounted` (a key either lost
  its hold, or its hold is as young as the manual resolution, or that is older
  than the cooldown) and `LatchAccounted` (the same for the latch of the
  edge-offline alert). From these, an opening step must find the hold gone.

**Alert manager and its table** (second half of `AlertManager_proofs`).

- What the table will hold is the fold of the waiting operations over its rows.
  The proof never names the fold: `Result` says that some sequence of tables begins with the
  rows and applies one operation per step, and lemmas say how its last element changes
  when operations are appended (a handler), applied (the writer) or dropped (a crash).
- `TableFollows` is inductive with `Orderly`: ids in the queue and in the table are no
  younger than the last one given (`IdsInOrder`), an active alert is firing or
  acknowledged (`AliveStatus`), nothing waits without a database or while the hub
  is down (`Idle`), and no row has a status the manager does not write (`RowsPlain`). Memory and table
  are compared row by row: a handler touches the rows of the keys it changes, in the
  order of `Handle`, and leaves all others alone.
- `AcksAreKept` does not assume that writes succeed. `AckInv`: behind an acknowledgement
  that waits no operation makes its row fire again, and once it was answered the row is
  not firing and nothing that waits makes it so; in memory the alert is acknowledged
  or gone. A restart therefore cannot read it back as firing.
- `RestartsRepair` is about one step: whatever the table held, what `restore_state` reads
  and what it writes cancel out. It assumes `HasDb`; without a table there is nothing to agree with.
- `RestoredAlertsStay` is about every step: the sweep skips rules of restored devices,
  and a handler that ends an alert of a rule reads a report, or is an operator's.
- `CapIsKept`: a rule's alerts after a sweep are those before it and those
  opened in turn. If the cap were exceeded, the last one opened, in the order of
  the sweep, would have been opened with the cap already reached. The theorem
  makes no claim after a restart that reads the table: a resolve that failed or was lost
  leaves a row open, the device may have fired elsewhere since, and `restore_state` does not count.
  The `cap` run has no restart.

**Writer, sessions, executor.**

- The writer's invariants follow from one inductive invariant `IInv`: how the
  fates of operations relate to the lanes, the order of the lanes, and where the
  worker stands. `OvertakenOnce` is inductive relative to it, with what makes it so: when the
  worker turns to the low lane, nothing has passed what now waits in the other
  (`Overtaken`), because that lane was empty when it looked.
- The invariants of sessions and executor form one inductive invariant, with what
  they rest on: who has an edge, which stage a run may be in, that a queued run
  has exactly one message, that only a waiting run has something in its channel.
  The steps of a run are first reduced to what they do to its slot (`Moved`) and
  to its request (`Untouched`, `Asked`, `Answered`, `GaveUp`). `GoneFailsPending`
  is the part that spans both modules: every step that empties the store leaves
  the connection in `leaving`, and the mailbox keeps the report until it is handled.

**Migrations** (`Storage_proofs`).

- `At(n, d)` says what the `n`-th statement relies on: before the second no half-built `alerts_new` is left,
  from the fourth on the tables of version 1 are there, from the sixth on all times are in one format,
  from the seventh on every row has its trigger time, and so on; before the commit the database is
  `Whole` at its version. Each statement is one lemma: from `At(n, d)`, it makes
  `At(n + 1, ...)` and keeps the history (`Keeps`, which is transitive).
- What is committed is `Whole` and keeps the history of the first database (`Committed`); a transaction's
  view is a descendant of what is committed, and only its owner holds the lock (`Transactions`). A crash or a
  rollback drops the view, so that nothing has to be said about it.
- `OriginalsAssumption` says which databases a hub may find: tables of the shape of its version, action ids the sequence has reached, and for version 0 any mixture
  of legacy, new and half-rebuilt tables.
- A suppressed alert with a resolution time is both closed by its word and closed by its time;
  the model took these as alternatives of a CASE, whose choice between two that hold is open. The proof did not
  go through, and the model now asks in the order of the SQL. The other CASE of that kind
  (`UniqueName`, `Eta`, `Verdict`, `FlushBuffer`) were ordered likewise.

**End of the hub** (`Storage_proofs`).

- `SamplesFollowed` follows what is owed: while the alert manager is asked, it is written, in the lane, in the buffer, or
  ahead of the request in the mailbox (`ManagerCovers`); then it is out of the manager (`LaneCovers`);
  then it is written or ahead of the barrier (`BarrierCovers`). Sockets go on to append behind the
  request, and the manager's timer and the request itself append to the lane only while the
  barrier is not needed for them: this is why a position is kept and not a set.
- `HubJoined` relates the two clocks. A hub whose server closed as the widget's join began has waited no
  longer than the join (`JoinClock`), hence the join, which is a second longer than both waits of the hub, cannot be
  over before the hub is. The waits are any positive numbers.

**Stored records** (`HubRecords_proofs`).

- `DependentsFollowed`: the database is never asked who is right, because every operation
  refers to a row that is in the tables or that an operation before it in the
  priority lane makes (`QueueFollows`; `Sound` adds the tables' own references). A
  step of the lane turns the second case into the first. A producer keeps it because of what
  it believes: a registered connection that its edge's row comes (`SocketsKnow`), the
  alert manager that a cached device's does (`CacheKnows`), a run that its alert's does
  (`RunsKnow`). A crash forgets lanes and beliefs together. `NamesAssumption` is what keeps
  unique names apart: a name built from a device's id is no other device's.
- `RecordsAgreed`: only the last operation about an edge decides what its row will say
  (`OnlineLast`), so the invariant relates that to the session store (`EdgesInv`) and the
  shown devices to the removed ones (`ListInv`). `lateEnd` and `ghost`, the cases in which
  the row may be wrong, are exactly the exceptions the proof needs.
- `LiveAreReached` holds here for the same reason as in `ActionExecutor_proofs`, over
  the steps of the producers.

**Configuration of an edge** (`EdgeConfig_proofs`).

- `EdgesAgree` follows the desired state from merge to merge: `D[n]` is the one after
  `n` merges. No variable keeps it, so the invariant says that there is such a `D`: each
  handler and registration that is still to push holds its own (`Versions`). On an open connection
  everything newer than what was sent is still to be pushed (`Owed`), what the edge will have
  once the connection is drained (`Leads`) agrees with the newest state sent (`WillAgree`),
  and nobody ever sent a threshold that nobody set but the hub's default (`Defaulted`), which is
  what a partial push is checked against. The step that matters is a push: if it skips a version, the
  handler that holds the skipped one is still to push, and then the connection will have raced.
- Both theorems assume `CheckThresholdOrder(Resolve)`. The hub checks requests but not
  its own file (`HubConfig::validate` does not look at `edges.defaults` and `edges.overrides`); a file
  with the warning threshold above the critical one is pushed at registration, and the edge ignores it.
  Requests are then refused until one puts the thresholds in order.

**Edge link** (`HubLink_proofs`).

- One invariant, `LinkOK`, carries both theorems. It lines the messages up: what is in the batch
  being written, what is in the channel or was handed back unsent, what is in the buffer (`Line`).
  `Lined` says that each part is in order and behind the one before it (`Follows`: another message,
  and not one that is tied to come first), `Left` that what is on the line and not written
  yet follows everything written, and that nothing flushed is on the line. A message in two places would
  follow itself, so `NeverTwice` needs no argument of its own.
- Handing back and reconnecting are where this could break: the buffer goes into a new channel
  while what the last session left unsent is still in the mailbox. `Announcements` rules it
  out: the event of a connection is behind those of the sessions before it, and a session is
  used only once that event was handled. Unsent messages of two sessions are hence never in the mailbox
  together with a used channel, and `requeue_front` finds only younger ones in the buffer.
- A held removal is on no line yet (`Held`): its number may be older than all of it, and only
  statuses of its own device could be overtaken. `DeviceStatusUpdate` drops it in that case.
- `FirstWritesInOrder` is then one step: what a `Feed` writes was at the head of the channel.
- The buffer's limits need no assumption: whatever `Enforced` gives up, the rest is in order,
  and what it gave up is in `evicted`. Filters and the loop of `enforce` are recursive functions, of
  which the proofs show that they exist and what every one of their values satisfies.

**Simulated edge** (`HubLink_proofs`, second part).

- `StopsInTime`: `PatienceCovers` gives for each place of the loop how much of main's wait the
  edge can still need. Where a select listens for the end of the run no time passes before it has
  noticed (`SimTick` needs `~Ready`), so that only closing and a clean reconnect's pause count; this
  is the assumption `CloseTimeout + Pause < ExitTimeout`. The end is noticed once (`changed`
  reports a value once), and an edge that noticed it goes nowhere but to a last close.
- `OnTime`: an interval that the loop has not read is known to a reader that is going to wake it,
  or to the stored permit (`IntervalKnown`).
- `CountAgrees`: a snapshot read before a device is removed would bring it back if it were sent
  after the removal. Between reading and sending no time passes (the model handles a message in no time), and then one
  sweep can be due late and the next at once, but not a third (`SnapshotIsFresh`), so
  that a device that was not silent yet is not removed meanwhile. For this a device must be silent
  for two sweeps at least before it is removed: `RemoveAfter >= 2`, of which the code has six.
  `ReportsInOrder` then follows the reports that are on their way to the hub.

**Devices of the edge** (`Devices_proofs`).

- `DownstreamCorrect`: for each device the last message about it in the prediction actor's
  mailbox, or what the connector heard when there is none, is what the device is now (`Told`);
  the same for the thresholds (`PredictorFollows`). What a handler posts is first
  reduced to whom it is about (`Posted`), then each handler either leaves a device alone or ends
  with its status.
- `ReportsCorrect` has to relate alerts, which go to the connector at once, to removals, which queue.
  A device that is found again while its removal waits would raise an alert that the
  removal then clears. It cannot be: a device may only alert once it was reachable (`ever`), and a job
  that could find it again before the removal is forwarded was started before the
  removal was posted (`MayOvertake`), finds it for the first time, and is the only such job
  (`FoundAtMostOnce`). Another one would need a second way in which the device can be found.
- Hence `ManualApart`: a device that is added by message and listed by NI-VISA is not listed by System
  Configuration or simulated as well. `AddDevice` and `RemoveDevice` are sent by tests only, so that
  `ManualIds` is empty in a running edge. Without the assumption the invariant is false, and
  with `ManualIds = VisaIds = SysCfgIds` TLC shows it: the device is added and removed by message, both
  jobs find it, one reachable and one not, and the alert of the second is
  dropped when the first removal is forwarded.

**Actions and drivers of the edge.**

- `EdgeActions_proofs`: one invariant for all three. Locks belong to requests that
  wait or run or whose driver call overruns (`LocksHeld`); those without a slot are in the queue once
  (`QueueIsWaiting`); free slots and working requests add up to `max_concurrent`
  (`SlotsCounted`); what a wait has left and how old the request is never exceed
  the budget of its phase and what was spent on the end of a killed script (`TimeLeft`); a service that is down is awaited by a restart, or one has failed
  (`DownIsKnown`: with two restarts that share services, whichever stopped it has yet
  to start it). For the refinement every step takes, keeps or lets go of keys and slots as
  one step of `ExclusiveSlots`.
- `Devices_proofs!DriversAreSound`: the mutex of a cache is held by the thread that looks again or
  loads (`LockHeld`), what it remembers is the last attempt (`FailureIsLast`), and where a
  thread stands says which handles are open (`SweepFits`, `ScanFits`): at the end, none.

Proved and in no run, because the runs are spent on what only they can show: the
type invariants, the low lane's bound and the order of each lane of its own, that
the store names only open sockets, that pending requests and waiting runs correspond
one to one, and that only the addressed edge completes a request (`ResultsFromTarget`).

The assumptions on constants are what the code or the model gives: keys, edges and
devices are finite where a step writes a set of rows, limits and timeouts are positive
numbers, markers such as `NoConn` are not among what they stand beside, a request's type fits
its parameters.

Only model-checked:

- `WidgetTrue`: where the window stands is products and quotients of scales, beyond the solver's linear arithmetic.
- `TalkKept` speaks of filtered queues (`SelectSeq`), of which the library proves nothing.
- `PredictionsAreTrue` compares sums over data of any length, and `RulesBuilt` rests on
  conditions nested to any depth: both need induction over data, which the library's
  theorems (they take an operator) cannot be used for here. Where a proof needs a least
  or a last position, it takes a minimal element of a well-founded ordering of finite sets.
- `UnreportedAlertsEnd`, `SilentEdgesCovered`, `WritesEnd`, `RunsEnd`, `ShutdownStops`,
  `StableLinkDelivers`, `Monitored`, `AnnouncedEverywhere` and `StopsEnd`: liveness
  under fairness is outside what the proof system reaches.

## 6. Not modelled

- Authentication, serialisation of messages, the settings of the hub's and the edge's file
  that are neither rules nor thresholds, dashboard queries and events, metrics history: each
  request or row on its own, no interleaving.
- Text of notifications, and values and status codes read from NI drivers.
- CLI and web UI: they show data through the interfaces modelled here.
- Failing reads of `restore_state`, and hub restarts in `EdgeConfig`.

These leave `nimon-cli` and the configuration file of the edge without a counterpart here.

## 7. Plan

Done: the hub's core with proofs (`AlertRules`, `AlertManager` with its table, `DbWriter`,
`EdgeSessions`, `ActionExecutor`, `HubRecords`), the migrations and the end of the hub (with proofs), the
edge's link (with proofs), conversation, devices and actions (with proofs) and predictions, the configuration
between hub and edge (with proofs), the NI drivers and the simulated edge (with proofs), and the components
around them (notifier, widget, rules). Next, in order:

1. An abstract alert life-cycle (none, firing, acknowledged, resolved) that
   `AlertManager` implements, and an abstract ordered queue that `DbWriter` implements.
2. Failing reads at a restart.
3. `TalkKept`, with lemmas about filtered sequences.
