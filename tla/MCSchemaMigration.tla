-------------------------- MODULE MCSchemaMigration --------------------------
(* Two processes, and databases of every kind: new, legacy, cut short by the   *)
(* migration of old, of version 1, of version 2 and of a later one.            *)
EXTENDS SchemaMigration, TLC

\* Alert 1 is any that a legacy hub could have stored; alert 2 is open.
Legacy == [status : {Null, "pending", "closed", "ack", "suppressed"},
           created : {Null, "sqlite", "rfc"}, resolved : {Null, "sqlite"}]
OpenLegacy == [status |-> "pending", created |-> "sqlite", resolved |-> Null]

V1 == [status : {"firing", "resolved"}, triggered : {Null, "sqlite"}, created : {Null, "sqlite", "rfc"},
       resolved : {Null, "sqlite"}, lastFired : {Null}]
OpenV1 == FromLegacy(OpenLegacy)

\* Action 2, the last, was deleted; action 1 may refer to an alert that was, too.
ActionTables == {[setNull |-> FALSE, rows |-> (1 :> [alert |-> a, executed |-> t])] :
                   a \in {NoId, 1, 3}, t \in {Null, "sqlite"}}
               \cup {[setNull |-> FALSE, rows |-> << >>]}

Of(version, alerts, alertsNew, actions, seq, fk) ==
  [version |-> version, alerts |-> alerts, alertsNew |-> alertsNew, actions |-> actions,
   actionSeq |-> seq, predictions |-> [fk |-> fk, rows |-> {}], simulated |-> version > 0,
   indexes |-> version > 1]

LegacyTable(a) == [shape |-> "legacy", rows |-> <<a, OpenLegacy>>]
V1Table(a) == [shape |-> "v1", rows |-> <<a, OpenV1>>]

Fresh == [Of(0, NoTable, NoTable, NoTable, NoId, FALSE) EXCEPT !.predictions = NoTable]
LegacyDatabases == {Of(0, LegacyTable(a), NoTable, t, 2, TRUE) : a \in Legacy, t \in ActionTables}
CutShort ==
  LET t == CHOOSE t \in ActionTables : DOMAIN t.rows # {}
      Part(a) == [shape |-> "v1", rows |-> (1 :> FromLegacy(a))]
  IN {Of(0, LegacyTable(a), Part(a), t, 2, TRUE) : a \in Legacy}
       \cup {Of(0, NoTable, V1Table(FromLegacy(a)), t, 2, TRUE) : a \in Legacy}
Version1 == {Of(1, V1Table(a), NoTable, t, 2, fk) : a \in V1, t \in ActionTables, fk \in BOOLEAN}
Version2 == {Indexes(RebuildPredictions(RebuildActions(Lifecycle(TriggerTimes(NormalizeTimes(
              Bumped(d))))))) : d \in Version1}
Newer == {Bumped(d) : d \in Version2}

MCOriginals == {Fresh} \cup LegacyDatabases \cup CutShort \cup Version1 \cup Version2 \cup Newer
=============================================================================
