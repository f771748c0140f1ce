----------------------------- MODULE HubRecords -----------------------------
(***************************************************************************)
(* What the hub stores: the rows its actors write while edges connect,     *)
(* report and leave, through the two lanes of the database writer, into    *)
(* tables that refer to each other.                                        *)
(*                                                                         *)
(*   edge_nodes <- devices <- device_status, alerts <- action_history      *)
(*                                                                         *)
(* Three producers work at once: the socket tasks (server/ws.rs, modelled  *)
(* by EdgeSessions), the alert manager, which takes their reports, and the *)
(* runs of the action executor.  The modules AlertManager and              *)
(* ActionExecutor say when an alert opens or an action ends; here any may, *)
(* and what counts is which rows are written, in which order, and what the *)
(* dashboard shows of them.                                                *)
(***************************************************************************)
EXTENDS EdgeSessions, Sequences

CONSTANTS
  Devices,
  EdgeOf,        \* the edge of a device, part of its id
  LocalPart,     \* local_part of a device id
  ReportedNames, \* names in the metadata edges report for devices, or NoName
  NoName,        \* metadata without a name (DeviceMetadata::default)
  NoRow,         \* a device without a row
  Reporting,     \* bound: devices the edges report; others are only stored
  Stored,        \* the names in the devices table the hub first starts with
  MaxAlerts,     \* bound: alerts opened per device
  LowCapacity,   \* low_capacity of the writer
  MaxRestarts,   \* bound: crashes of the hub
  MaxFrames,     \* bound: frames about devices
  MaxHigh        \* bound: priority operations waiting

Names == ReportedNames \cup {NoName}
NotCached == "not cached"
AlertIds == Devices \X (1 .. MaxAlerts)

ASSUME RecordsAssumption ==
  /\ EdgeOf \in [Devices -> Edges]
  /\ DOMAIN LocalPart = Devices
  /\ Reporting \subseteq Devices
  /\ MaxAlerts \in Nat \ {0} /\ LowCapacity \in Nat \ {0}
  /\ MaxRestarts \in Nat /\ MaxFrames \in Nat /\ MaxHigh \in Nat
  /\ \A names \in Stored : names = [d \in Devices |-> names[d]]

\* The last resort of unique_name_sql, the device id, is nobody else's name.
ASSUME NamesAssumption ==
  /\ NoRow \notin ReportedNames \cup Devices /\ NotCached \notin Names
  /\ ReportedNames \cap Devices = {}
  /\ \A d \in Devices : LocalPart[d] # NoRow /\ (LocalPart[d] \in Devices => LocalPart[d] = d)
  /\ \A names \in Stored, d \in Devices : names[d] \in Devices => names[d] = d

VARIABLES
  shown,     \* EdgeSession.devices of the session of a connection
  removed,   \* HubState.removed_devices
  cache,     \* AlertManager.db_devices: metadata believed stored
  open,      \* the active alert of a device, 0 if there is none
  ids,       \* alerts ever opened per device (their ULIDs)
  runs,      \* alerts whose action runs
  high, low, \* the writer's lanes
  db,        \* the tables
  restarts, frames,   \* counters of the bounds
  refused,   \* history: priority operations refused by a constraint
  lateEnd,   \* history: edges whose end was reported after their return
  ghost,     \* history: edges last heard on a connection without session
  gone, here \* history: devices last reported removed, and last reported

apiVars == <<shown, removed>>
managerVars == <<cache, open, ids>>
writerVars == <<high, low, db, refused>>
markVars == <<lateEnd, ghost, gone, here>>
vars == <<sessionVars, apiVars, managerVars, runs, writerVars, markVars, restarts, frames>>

\* What an earlier hub left: nothing, or devices of edges it shut down.
FirstTables(names) ==
  [edges   |-> [e \in Edges |->                   \* edge_nodes.status
      IF \E d \in Devices : EdgeOf[d] = e /\ names[d] # NoRow THEN "offline" ELSE "none"],
   names   |-> names,                             \* devices.device_name
   polls   |-> {},                                \* device_status
   alerts  |-> [a \in AlertIds |-> "none"],       \* alerts.status
   actions |-> [a \in AlertIds |-> "none"]]       \* action_history.alert_id

TypeOK ==
  /\ SessionsTypeOK
  /\ shown \in [Conns -> SUBSET Devices] /\ removed \subseteq Devices
  /\ cache \in [Devices -> Names \cup {NotCached}]
  /\ open \in [Devices -> 0 .. MaxAlerts] /\ ids \in [Devices -> 0 .. MaxAlerts]
  /\ runs \subseteq AlertIds
  /\ db.edges \in [Edges -> {"none", "online", "offline"}]
  /\ db.alerts \in [AlertIds -> {"none", "firing", "resolved"}]
  /\ db.actions \in [AlertIds -> {"none", "linked", "unlinked"}]
  /\ Len(low) <= LowCapacity

-----------------------------------------------------------------------------
(* The repositories: what an operation writes, and what refuses it. *)

\* Another device of the same edge has this name.
Taken(t, d, name) ==
  \E x \in Devices \ {d} : EdgeOf[x] = EdgeOf[d] /\ t.names[x] = name

\* Mutant: the preferred name, whoever has it.
UniqueNamePreferred(t, d, preferred) == preferred

\* unique_name_sql: the preferred name, the local part, or the device id.
UniqueName(t, d, preferred) ==
  IF ~ Taken(t, d, preferred) THEN preferred
  ELSE IF ~ Taken(t, d, LocalPart[d]) THEN LocalPart[d] ELSE d

\* upsert_metadata prefers the reported name, and without one the local part.
Preferred(d, name) == IF name = NoName THEN LocalPart[d] ELSE name

HasRow(t, d) == t.names[d] # NoRow
Orphan(t, d) == ~ HasRow(t, d) /\ t.edges[EdgeOf[d]] = "none"

\* A foreign key or UNIQUE(edge_id, device_name) refuses the operation.
\* upsert_snapshot leaves an existing row alone; updates of rows refer to
\* nothing new.
Refuses(t, o) ==
  CASE o[1] = "snapshot" -> Orphan(t, o[2])
    [] o[1] = "metadata" ->
         Orphan(t, o[2]) \/ Taken(t, o[2], UniqueName(t, o[2], Preferred(o[2], o[3])))
    [] o[1] \in {"alert", "refire"} -> t.alerts[o[2]] = "none" /\ ~ HasRow(t, o[2][1])
    [] o[1] = "history" -> t.alerts[o[2]] = "none"
    [] o[1] = "poll" -> ~ HasRow(t, o[2])
    [] OTHER -> FALSE

\* devices.device_name after upsert_snapshot and upsert_metadata.
SnapshotName(t, d) ==
  IF HasRow(t, d) THEN t.names[d]
  ELSE IF Taken(t, d, LocalPart[d]) THEN d ELSE LocalPart[d]
MetadataName(t, d, name) ==
  IF HasRow(t, d) /\ name = NoName THEN t.names[d]
  ELSE UniqueName(t, d, Preferred(d, name))

\* AlertRepository::upsert; record_refire, followed by the upsert when there is
\* no row; set_status, which finds a row or does nothing.
AlertStatus(t, o) ==
  CASE o[1] = "alert" -> "firing"
    [] o[1] = "refire" -> IF t.alerts[o[2]] = "none" THEN "firing" ELSE t.alerts[o[2]]
    [] o[1] = "resolve" -> IF t.alerts[o[2]] = "none" THEN "none" ELSE "resolved"

\* EdgeRepository::upsert and update_status, the device's and alert's rows,
\* ActionRepository::insert, upsert_status.
Written(t, o) ==
  CASE o[1] = "edgeUp" -> [t EXCEPT !.edges[o[2]] = "online"]
    [] o[1] \in {"online", "offline"} ->
         [t EXCEPT !.edges[o[2]] = IF @ = "none" THEN @ ELSE o[1]]
    [] o[1] = "snapshot" -> [t EXCEPT !.names[o[2]] = SnapshotName(t, o[2])]
    [] o[1] = "metadata" -> [t EXCEPT !.names[o[2]] = MetadataName(t, o[2], o[3])]
    [] o[1] \in {"alert", "refire", "resolve"} ->
         [t EXCEPT !.alerts[o[2]] = AlertStatus(t, o)]
    [] o[1] = "history" -> [t EXCEPT !.actions[o[2]] = "linked"]
    [] o[1] = "poll" -> [t EXCEPT !.polls = @ \cup {o[2]}]

Apply(t, o) == IF Refuses(t, o) THEN t ELSE Written(t, o)

\* prune_resolved_before: resolved alerts past their retention; what refers to
\* them is unlinked in the same transaction.
Pruned(t, S) ==
  [t EXCEPT !.alerts = [a \in AlertIds |-> IF a \in S THEN "none" ELSE @[a]],
            !.actions = [a \in AlertIds |->
              IF a \in S /\ @[a] = "linked" THEN "unlinked" ELSE @[a]]]

-----------------------------------------------------------------------------
(* The writer's lanes (DbWriter).  Priority operations neither fail nor     *)
(* overrun here: what depends on a row that was lost is refused.            *)

Queued(o) == \E i \in DOMAIN high : high[i] = o

\* DbWriter::submit.
Submit(s) == Len(high) + Len(s) <= MaxHigh /\ high' = high \o s

\* DbWriter::submit_low: shed when the lane is full.
SubmitLow(o) == low' = IF Len(low) < LowCapacity THEN Append(low, o) ELSE low

\* The worker runs the priority operation it polled.
RunHigh ==
  /\ high # <<>>
  /\ db' = Apply(db, Head(high))
  /\ refused' = IF Refuses(db, Head(high)) THEN refused \cup {Head(high)} ELSE refused
  /\ high' = Tail(high)
  /\ UNCHANGED <<sessionVars, apiVars, managerVars, runs, low, markVars,
                 restarts, frames>>

\* Actions may outlast their alert, but not by its retention of days.
InUse(a) == a \in runs \/ Queued(<<"history", a>>)
Prunable == {a \in AlertIds : db.alerts[a] = "resolved" /\ ~ InUse(a)}

\* A low operation runs, or fails: polled when the priority lane was empty, which
\* it need not be any more when it runs.
RunLow ==
  /\ low # <<>>
  /\ low' = Tail(low)
  /\ \/ /\ Head(low)[1] = "cleanup"
        /\ \E S \in SUBSET Prunable : db' = Pruned(db, S)
     \/ /\ Head(low)[1] # "cleanup"
        /\ db' = Apply(db, Head(low))
     \/ UNCHANGED db
  /\ UNCHANGED <<sessionVars, apiVars, managerVars, runs, high, refused, markVars,
                 restarts, frames>>

-----------------------------------------------------------------------------
(* Socket tasks *)

\* on_register, which awaits nothing: the session, the edge's row, and an
\* EdgeActivity for the alert manager, which changes nothing here.
OnRegister(c, e) ==
  /\ Register(c, e)
  /\ Submit(<<<<"edgeUp", e>>>>)
  /\ ghost' = ghost \ {e}
  /\ UNCHANGED <<apiVars, managerVars, runs, low, db, refused, lateEnd, gone,
                 here, restarts, frames>>

\* A device frame of a registered connection, whether or not it is still the
\* one in the store.  The alert manager handles it in the same step: its mailbox
\* keeps the order of the frames, and a delay only orders its writes later than
\* those of the other producers, which a later frame does as well.
Frame(c, d) ==
  /\ Registered(c) /\ owner[c] = EdgeOf[d]
  /\ frames < MaxFrames /\ frames' = frames + 1
  /\ UNCHANGED <<sessionVars, db, refused, lateEnd, ghost, restarts>>

\* What the last frame about d says; a frame that a connection without session
\* got through leaves it open.
Reported(c, d) ==
  /\ here' = IF IsCurrent(c) THEN here \cup {d} ELSE here \ {d}
  /\ gone' = gone \ {d}
ReportedGone(c, d) ==
  /\ gone' = IF IsCurrent(c) THEN gone \cup {d} ELSE gone \ {d}
  /\ here' = here \ {d}

\* Mutant: a report does not clear the mark of its device.
OnDeviceStatusUnmarked(c, d) ==
  /\ Frame(c, d)
  /\ UNCHANGED removed
  /\ shown' = [shown EXCEPT ![c] = @ \cup {d}]
  /\ Reported(c, d)

\* on_edge_payload(DeviceStatus): the mark, the session, the alert manager.
OnDeviceStatus(c, d) ==
  /\ Frame(c, d)
  /\ removed' = removed \ {d}
  /\ shown' = [shown EXCEPT ![c] = @ \cup {d}]
  /\ Reported(c, d)

\* Mutant: only the session forgets the device.
OnDeviceRemovedHere(c, d) ==
  /\ Frame(c, d)
  /\ shown' = [shown EXCEPT ![c] = @ \ {d}]
  /\ UNCHANGED removed
  /\ ReportedGone(c, d)

\* on_edge_payload(DeviceRemoved).
OnDeviceRemoved(c, d) ==
  /\ Frame(c, d)
  /\ shown' = [shown EXCEPT ![c] = @ \ {d}]
  /\ removed' = removed \cup {d}
  /\ ReportedGone(c, d)

\* on_edge_payload(DeviceAlert).
OnDeviceAlert(c, d) ==
  /\ Frame(c, d)
  /\ UNCHANGED <<apiVars, gone, here>>

\* Mutant: a heartbeat keeps the session, not the row.
HeartbeatQuiet(c) ==
  /\ Registered(c)
  /\ lateEnd' = lateEnd \ {owner[c]}
  /\ UNCHANGED <<sessionVars, apiVars, managerVars, runs, writerVars, ghost, gone, here,
                 restarts, frames>>

\* on_edge_payload(Heartbeat), with at most one such write waiting.
Heartbeat(c) ==
  LET e == owner[c] IN
  /\ Registered(c)
  /\ ~ Queued(<<"online", e>>)
  /\ Submit(<<<<"online", e>>>>)
  /\ lateEnd' = lateEnd \ {e}
  /\ ghost' = IF IsCurrent(c) THEN ghost ELSE ghost \cup {e}
  /\ UNCHANGED <<sessionVars, apiVars, managerVars, runs, low, db, refused, gone,
                 here, restarts, frames>>

\* The connection ends, or the sweeper drops its session.
Ends(c) ==
  /\ \/ Registered(c) /\ Close(c) /\ shown' = [shown EXCEPT ![c] = {}]
     \/ RemoveStale(c) /\ UNCHANGED shown
  /\ UNCHANGED <<removed, managerVars, runs, writerVars, markVars, restarts, frames>>

\* mark_edge_offline, by whoever took the session.
ReportEnd(c) ==
  LET e == owner[c] IN
  /\ MarkOffline(c)
  /\ Submit(<<<<"offline", e>>>>)
  /\ lateEnd' = IF session[e] # NoConn THEN lateEnd \cup {e} ELSE lateEnd
  /\ ghost' = ghost \ {e}
  /\ UNCHANGED <<apiVars, managerVars, runs, low, db, refused, gone, here,
                 restarts, frames>>

-----------------------------------------------------------------------------
(* The alert manager *)

NoOps == <<>>

\* Mutant: only reports register a device.
EnsureNothing(d) == NoOps

\* ensure_device_row: the cache says whether the row was already asked for.
EnsureDeviceRow(d) ==
  IF cache[d] = NotCached THEN <<<<"snapshot", d>>>> ELSE NoOps

\* The outcomes of an evaluation, after the writes `before` of its handler.
\* open_alert with persist_new_alert: device row, alert row, then the action.
Opens(d, before) ==
  LET a == <<d, ids[d] + 1>> IN
  /\ open[d] = 0 /\ ids[d] < MaxAlerts
  /\ open' = [open EXCEPT ![d] = ids[d] + 1]
  /\ ids' = [ids EXCEPT ![d] = @ + 1]
  /\ Submit(before \o <<<<"alert", a>>>>)
  /\ runs' = runs \cup {a}

\* refire, with persist_refire; an alert that is acknowledged runs no action.
Refires(d, before) ==
  LET a == <<d, open[d]>> IN
  /\ open[d] # 0
  /\ Submit(before \o <<<<"refire", a>>>>)
  /\ runs' = runs \/ runs' = runs \cup {a}
  /\ UNCHANGED <<open, ids>>

\* resolve_key, with persist_status.
Resolves(d, before) ==
  /\ Submit(before \o (IF open[d] = 0 THEN NoOps ELSE <<<<"resolve", <<d, open[d]>>>>>>))
  /\ open' = [open EXCEPT ![d] = 0]
  /\ UNCHANGED <<ids, runs>>

Stays(d, before) == Submit(before) /\ UNCHANGED <<open, ids, runs>>

\* Handler<DeviceStatusUpdate> with persist_device_state: metadata that is not
\* in the cache, the status snapshot, and then the evaluation.
DeviceStatusUpdate(d, name) ==
  LET meta == IF cache[d] = name THEN NoOps ELSE <<<<"metadata", d, name>>>> IN
  /\ cache' = [cache EXCEPT ![d] = name]
  /\ Opens(d, meta) \/ Refires(d, meta) \/ Resolves(d, meta) \/ Stays(d, meta)
  /\ SubmitLow(<<"poll", d>>)

\* Handler<IngestDeviceAlert>: the alert of a device never reported as well.
IngestDeviceAlert(d) ==
  /\ \/ /\ Opens(d, EnsureDeviceRow(d))
        /\ cache' = [cache EXCEPT ![d] = IF @ = NotCached THEN NoName ELSE @]
     \/ (Refires(d, NoOps) \/ Stays(d, NoOps)) /\ UNCHANGED cache
  /\ UNCHANGED low

\* The periodic evaluation of a device the manager knows, restored ones too.
Evaluate(d) ==
  /\ cache[d] # NotCached
  /\ Opens(d, EnsureDeviceRow(d)) \/ Refires(d, NoOps) \/ (open[d] # 0 /\ Resolves(d, NoOps))
  /\ UNCHANGED <<sessionVars, apiVars, cache, low, db, refused, markVars,
                 restarts, frames>>

\* Handler<DeviceRemoved>: forget_device, and its alert is resolved.
DeviceRemoved(d) ==
  /\ cache' = [cache EXCEPT ![d] = NotCached]
  /\ Resolves(d, NoOps)
  /\ UNCHANGED low

\* The sweep forgets a device not heard from within the retention that has no
\* active alert.
ForgetStale(d) ==
  /\ cache[d] # NotCached /\ open[d] = 0
  /\ cache' = [cache EXCEPT ![d] = NotCached]
  /\ UNCHANGED <<sessionVars, apiVars, open, ids, runs, writerVars, markVars,
                 restarts, frames>>

\* run_cleanup; only its alerts are referred to by other rows.
RunCleanup ==
  /\ Prunable # {} /\ low = <<>>
  /\ SubmitLow(<<"cleanup">>)
  /\ UNCHANGED <<sessionVars, apiVars, managerVars, runs, high, db, refused,
                 markVars, restarts, frames>>

-----------------------------------------------------------------------------
(* The action executor *)

\* A run ends: persist_result.  (update_alert_action, which follows, updates a
\* row and refers to none.)
RunEnds(a) ==
  /\ a \in runs
  /\ runs' = runs \ {a}
  /\ Submit(<<<<"history", a>>>>)
  /\ UNCHANGED <<sessionVars, apiVars, managerVars, low, db, refused, markVars,
                 restarts, frames>>

-----------------------------------------------------------------------------
(* Crash and restart *)

\* list_active: newest first, so the newest open row of a device is kept.
OpenRows(d) == {n \in 1 .. MaxAlerts : db.alerts[<<d, n>>] = "firing"}
Newest(d) == IF OpenRows(d) = {} THEN 0
             ELSE CHOOSE n \in OpenRows(d) : \A m \in OpenRows(d) : m <= n

\* The process dies and starts again: restore_state reads the tables.  (That it
\* resolves the other rows is AlertManager's; those writes refer to nothing new.)
Restart ==
  /\ restarts < MaxRestarts
  /\ restarts' = restarts + 1
  /\ task' = [c \in Conns |-> "unregistered"] /\ owner' = [c \in Conns |-> NoEdge]
  /\ token' = {} /\ session' = [e \in Edges |-> NoConn] /\ leaving' = {}
  /\ shown' = [c \in Conns |-> {}] /\ removed' = {}
  /\ runs' = {}
  /\ cache' = [d \in Devices |->
       IF d \in db.polls \/ Newest(d) # 0 THEN NoName ELSE NotCached]
  /\ open' = [d \in Devices |-> Newest(d)]
  /\ high' = <<>> /\ low' = <<>>
  /\ lateEnd' = {} /\ ghost' = Edges /\ gone' = {} /\ here' = {}
  /\ UNCHANGED <<ids, db, refused, frames>>

-----------------------------------------------------------------------------
Init ==
  \* a socket that did not register differs in nothing from one to come
  /\ task = [c \in Conns |-> "unregistered"] /\ owner = [c \in Conns |-> NoEdge]
  /\ token = {} /\ session = [e \in Edges |-> NoConn] /\ leaving = {}
  /\ shown = [c \in Conns |-> {}] /\ removed = {}
  /\ cache = [d \in Devices |-> NotCached]
  /\ open = [d \in Devices |-> 0] /\ ids = [d \in Devices |-> 0] /\ runs = {}
  /\ high = <<>> /\ low = <<>>
  /\ db \in {FirstTables(names) : names \in Stored}
  /\ restarts = 0 /\ frames = 0 /\ refused = {}
  /\ lateEnd = {} /\ ghost = {} /\ gone = {} /\ here = {}

Sockets ==
  \E c \in Conns :
    \/ Ends(c) \/ ReportEnd(c) \/ Heartbeat(c)
    \/ \E e \in Edges : OnRegister(c, e)
    \/ \E d \in Reporting :
         \/ OnDeviceRemoved(c, d) /\ DeviceRemoved(d)
         \/ OnDeviceAlert(c, d) /\ IngestDeviceAlert(d)
         \/ OnDeviceStatus(c, d) /\ \E name \in ReportedNames : DeviceStatusUpdate(d, name)

Manager ==
  \/ \E d \in Devices : ForgetStale(d) \/ Evaluate(d)
  \/ RunCleanup

Writer == RunHigh \/ RunLow

Next == Sockets \/ Manager \/ Writer \/ Restart \/ \E a \in AlertIds : RunEnds(a)

Spec == Init /\ [][Next]_vars

-----------------------------------------------------------------------------
(* Properties *)

\* "Dependent rows are written in the order they were produced (edge row before
\* device row before alert/action rows)" (db_writer.rs:5): no priority operation
\* is refused by a foreign key or a unique name, whoever submitted it, whatever
\* was forgotten, removed, pruned or restarted in between, and whatever the low
\* lane lost.
DependentsFollow == refused = {}

\* No operation on the row of e is waiting.
EdgeWritten(e) == \A k \in {"edgeUp", "online", "offline"} : ~ Queued(<<k, e>>)

\* The status of an edge's row follows its connections: online while one is in
\* the store, at the latest after a heartbeat where the end of an older one was
\* reported late; offline once none is.
EdgeRowAgrees ==
  \A e \in Edges : EdgeWritten(e) =>
    /\ session[e] # NoConn /\ e \notin lateEnd => db.edges[e] = "online"
    /\ session[e] = NoConn /\ e \notin ghost /\ leaving = {} => db.edges[e] # "online"

\* collect_devices: the devices of the stored session, and rows not marked.
Listed(d) ==
  \/ session[EdgeOf[d]] # NoConn /\ d \in shown[session[EdgeOf[d]]]
  \/ HasRow(db, d) /\ d \notin removed

\* The dashboard hides a device from its removal until it is reported again, and
\* lists it from then on, whichever connections its edge opened, lost or replaced
\* in between and whether its row is older or newer than the reports.
ListAgrees ==
  \A d \in Devices : /\ d \in gone => ~ Listed(d)
                     /\ d \in here /\ HasRow(db, d) => Listed(d)

\* Edges and devices are shown as what they last were: both of the above.
RecordsAgree == EdgeRowAgrees /\ ListAgrees
====
