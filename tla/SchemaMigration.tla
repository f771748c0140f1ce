---------------------------- MODULE SchemaMigration ----------------------------
(***************************************************************************)
(* The versioned migrations of the hub's SQLite database (nimon-core       *)
(* db/schema.rs, db/mod.rs), run by the processes that open it: a hub that *)
(* starts, crashes and starts again, and a second one beside it.           *)
(*                                                                         *)
(* A database is a record: user_version, the tables the migrations change, *)
(* and their AUTOINCREMENT sequences.  Statements run one by one on `work`,*)
(* what the open transaction sees; `db` is what is committed.  A time is   *)
(* Null, "sqlite" (CURRENT_TIMESTAMP) or "rfc" (RFC3339).                  *)
(***************************************************************************)
EXTENDS Integers, Sequences, FiniteSets, FiniteSetsExt

CONSTANTS
  Processes,
  Originals  \* the databases a process may find

SchemaVersion == 2
Null == "null"
NoTable == [shape |-> "none"]
NoId == 0     \* of a reference that is NULL, and the sequence of a table that never had rows
NobodysLock == "nobody"

\* What is found: times in any format; of the words a legacy status may be, "pending"
\* stands for those without a meaning.
Statuses == {"firing", "acknowledged", "suppressed", "resolved"}
ClosedWords == {"resolved", "closed", "cleared", "dismissed"}
LegacyWords == Statuses \cup ClosedWords \cup {"acked", "ack", "pending", Null}
Times == {Null, "sqlite", "rfc"}
LegacyRows == [status : LegacyWords, created : Times, resolved : Times]
AlertRows == [status : Statuses, triggered : Times, created : Times, resolved : Times,
              lastFired : {Null, "rfc"}]
ActionRows == [alert : Nat, executed : Times]

\* Rows are kept by id.
IsTableOf(rows, Rows) ==
  /\ DOMAIN rows \subseteq Nat \ {NoId} /\ IsFiniteSet(DOMAIN rows)
  /\ rows \in [DOMAIN rows -> Rows]

IsAlerts(t) ==
  /\ t.shape \in {"v1", "v2"} /\ t = [shape |-> t.shape, rows |-> t.rows]
  /\ IsTableOf(t.rows, AlertRows)
IsLegacyAlerts(t) ==
  /\ t.shape = "legacy" /\ t = [shape |-> "legacy", rows |-> t.rows]
  /\ IsTableOf(t.rows, LegacyRows)
IsActions(t) ==
  /\ t = [setNull |-> t.setNull, rows |-> t.rows]
  /\ t.setNull \in BOOLEAN /\ IsTableOf(t.rows, ActionRows)
IsPredictions(t) == t = [fk |-> t.fk, rows |-> t.rows] /\ t.fk \in BOOLEAN

IsDatabase(d) ==
  /\ d = [version |-> d.version, alerts |-> d.alerts, alertsNew |-> d.alertsNew,
          actions |-> d.actions, actionSeq |-> d.actionSeq, predictions |-> d.predictions,
          simulated |-> d.simulated, indexes |-> d.indexes]
  /\ d.version \in Nat /\ d.actionSeq \in Nat
  /\ d.simulated \in BOOLEAN /\ d.indexes \in BOOLEAN

\* Before there were versions any table may be missing; from the first version on
\* none is.
HasSomeTables(d) ==
  /\ d.alerts = NoTable \/ IsLegacyAlerts(d.alerts) \/ IsAlerts(d.alerts)
  /\ d.alertsNew = NoTable \/ IsAlerts(d.alertsNew)
  /\ d.actions = NoTable \/ IsActions(d.actions)
  /\ d.predictions = NoTable \/ IsPredictions(d.predictions)
HasTables(d) ==
  /\ IsAlerts(d.alerts) /\ d.alertsNew = NoTable
  /\ IsActions(d.actions) /\ IsPredictions(d.predictions) /\ d.simulated

\* The tables this build expects: every time in the format that compares as text, a
\* resolution time on whatever is resolved, no reference to an alert that does not
\* exist.
TablesAreNew(d) ==
  /\ d.alerts.shape = "v2" /\ d.simulated /\ d.indexes /\ d.actions.setNull
  /\ ~d.predictions.fk /\ d.alertsNew = NoTable
  /\ \A i \in DOMAIN d.alerts.rows :
       LET a == d.alerts.rows[i]
       IN /\ {a.created, a.triggered, a.resolved, a.lastFired} \subseteq {"rfc", Null}
          /\ a.triggered # Null /\ a.lastFired # Null
          /\ a.status = "resolved" => a.resolved # Null
  /\ \A i \in DOMAIN d.actions.rows :
       /\ d.actions.rows[i].executed = "rfc"
       /\ d.actions.rows[i].alert \in DOMAIN d.alerts.rows \cup {NoId}

\* A database of this version was left by this build; a newer one is not looked into.
ASSUME OriginalsAssumption ==
  \A d \in Originals :
    /\ IsDatabase(d)
    /\ d.version = 0 => HasSomeTables(d)
    /\ d.version \in 1 .. SchemaVersion => HasTables(d)
    /\ d.version = SchemaVersion => TablesAreNew(d)

ASSUME ProcessesAssumption == NobodysLock \notin Processes

VARIABLES
  first,     \* history: the database before anything was opened
  db,        \* what is committed
  lock,      \* the process whose transaction is open
  work,      \* what that transaction sees
  next,      \* the next statement of a process
  stage,     \* where migrate() of a process stands
  result,    \* what its migrate_on returned
  enforced   \* foreign_keys of its connection

proc == <<next, stage, result, enforced>>
migrationVars == <<first, db, lock, work, proc>>

MigrationInit ==
  /\ first \in Originals /\ db = first
  /\ lock = NobodysLock /\ work = first
  /\ next = [p \in Processes |-> 1]
  /\ stage = [p \in Processes |-> "out"]
  /\ result = [p \in Processes |-> "none"]
  /\ enforced = [p \in Processes |-> TRUE]

-----------------------------------------------------------------------------
(* The statements *)

Rfc(t) == IF t = "sqlite" THEN "rfc" ELSE t
Coalesce(t, u) == IF t # Null THEN t ELSE u
Now == "rfc"

LegacyResolved(row) == row.status \in ClosedWords \/ row.resolved # Null

LegacyStatus(row) ==
  IF LegacyResolved(row) THEN "resolved"
  ELSE CASE row.status \in {"acknowledged", "acked", "ack"} -> "acknowledged"
         [] row.status = "suppressed"                       -> "suppressed"
         [] OTHER                                           -> "firing"

FromLegacy(row) ==
  [status |-> LegacyStatus(row),
   triggered |-> Coalesce(Rfc(row.created), Now), created |-> Coalesce(Rfc(row.created), Now),
   resolved |-> IF LegacyResolved(row) THEN Coalesce(Rfc(row.resolved), Coalesce(Rfc(row.created), Now))
                                       ELSE Null,
   lastFired |-> Null]

\* Mutant: what was copied already is taken for all there is.
LeftoversPreferred(d) ==
  IF d.alertsNew # NoTable THEN [d EXCEPT !.alerts = d.alertsNew, !.alertsNew = NoTable] ELSE d

\* alerts_new is a leftover of a migration that ran without a transaction.
Leftovers(d) ==
  CASE d.alerts = NoTable /\ d.alertsNew # NoTable ->
         [d EXCEPT !.alerts = d.alertsNew, !.alertsNew = NoTable]
    [] OTHER -> [d EXCEPT !.alertsNew = NoTable]

\* Only a table without the lifecycle columns is rebuilt.
LegacyAlerts(d) ==
  IF d.alerts # NoTable /\ d.alerts.shape = "legacy"
    THEN [d EXCEPT !.alerts = [shape |-> "v1",
                               rows |-> [i \in DOMAIN d.alerts.rows |-> FromLegacy(d.alerts.rows[i])]]]
    ELSE d

\* is_simulated, then SCHEMA_V1: whatever is missing is created.
Baseline(d) ==
  [d EXCEPT !.alerts = IF @ = NoTable THEN [shape |-> "v1", rows |-> << >>] ELSE @,
            !.actions = IF @ = NoTable THEN [setNull |-> FALSE, rows |-> << >>] ELSE @,
            !.predictions = IF @ = NoTable THEN [fk |-> FALSE, rows |-> {}] ELSE @,
            !.simulated = TRUE]

Bumped(d) == [d EXCEPT !.version = @ + 1]

\* normalize_timestamp_column, of every column there is.
NormalizeTimes(d) ==
  LET alerts == d.alerts.rows
      actions == d.actions.rows
  IN [d EXCEPT !.alerts.rows = [i \in DOMAIN alerts |->
                   [alerts[i] EXCEPT !.created = Rfc(@), !.triggered = Rfc(@), !.resolved = Rfc(@)]],
               !.actions.rows = [i \in DOMAIN actions |-> [actions[i] EXCEPT !.executed = Rfc(@)]]]

Trigger(a) == Coalesce(a.triggered, Coalesce(a.created, Now))

\* Mutant: a resolved row keeps its missing time.
TriggerTimesOnly(d) ==
  LET alerts == d.alerts.rows
  IN [d EXCEPT !.alerts.rows = [i \in DOMAIN alerts |->
        [alerts[i] EXCEPT !.triggered = Trigger(alerts[i])]]]

TriggerTimes(d) ==
  LET alerts == d.alerts.rows
  IN [d EXCEPT !.alerts.rows = [i \in DOMAIN alerts |->
        [alerts[i] EXCEPT !.triggered = Trigger(alerts[i]),
                          !.resolved = IF alerts[i].status = "resolved"
                                       THEN Coalesce(@, Trigger(alerts[i])) ELSE @]]]

Lifecycle(d) ==
  LET alerts == d.alerts.rows
  IN [d EXCEPT !.alerts = [shape |-> "v2", rows |-> [i \in DOMAIN alerts |->
        [alerts[i] EXCEPT !.lastFired = Coalesce(@, alerts[i].triggered)]]]]

\* The sequence of a rebuilt table, whose copied rows have raised it to their
\* highest id, if there were any.
Copied(rows) == Max(DOMAIN rows \cup {NoId})

CarrySequence(old, rows) == Max({old, Copied(rows)})

\* action_history with ON DELETE SET NULL; references to no alert are nulled.
RebuildActions(d) ==
  LET actions == d.actions.rows
  IN [d EXCEPT
        !.actions = [setNull |-> TRUE,
                     rows |-> [i \in DOMAIN actions |->
                        [alert |-> IF actions[i].alert \in DOMAIN d.alerts.rows THEN actions[i].alert ELSE NoId,
                         executed |-> Coalesce(actions[i].executed, Now)]]],
        !.actionSeq = CarrySequence(d.actionSeq, actions)]

RebuildPredictions(d) ==
  IF d.predictions.fk THEN [d EXCEPT !.predictions = [fk |-> FALSE, rows |-> @.rows]] ELSE d

Indexes(d) == [d EXCEPT !.indexes = TRUE]

Statements == << "leftovers", "legacy", "baseline", "bump",
                 "times", "trigger", "lifecycle", "actions", "predictions", "indexes", "bump" >>

Executed(statement, d) ==
  CASE statement = "leftovers"   -> Leftovers(d)
    [] statement = "legacy"      -> LegacyAlerts(d)
    [] statement = "baseline"    -> Baseline(d)
    [] statement = "times"       -> NormalizeTimes(d)
    [] statement = "trigger"     -> TriggerTimes(d)
    [] statement = "lifecycle"   -> Lifecycle(d)
    [] statement = "actions"     -> RebuildActions(d)
    [] statement = "predictions" -> RebuildPredictions(d)
    [] statement = "indexes"     -> Indexes(d)
    [] statement = "bump"        -> Bumped(d)

\* run_steps: a database of this version or a newer one is left alone.
FirstStatement(version) ==
  CASE version = 0 -> 1
    [] version = 1 -> 5
    [] OTHER       -> Len(Statements) + 1

-----------------------------------------------------------------------------
(* migrate, on one connection of the process *)

Goto(p, to) == stage' = [stage EXCEPT ![p] = to]

Open(p) ==
  /\ stage[p] = "out"
  /\ enforced' = [enforced EXCEPT ![p] = FALSE]
  /\ Goto(p, "begin")
  /\ UNCHANGED <<first, db, lock, work, next, result>>

\* BEGIN IMMEDIATE takes the write lock, then the version is read.
Begin(p) ==
  /\ stage[p] = "begin" /\ lock = NobodysLock
  /\ lock' = p
  /\ work' = db
  /\ next' = [next EXCEPT ![p] = FirstStatement(db.version)]
  /\ Goto(p, "steps")
  /\ UNCHANGED <<first, db, result, enforced>>

\* The busy timeout passes while another process migrates.
Busy(p) ==
  /\ stage[p] = "begin" /\ lock # NobodysLock
  /\ result' = [result EXCEPT ![p] = "error"]
  /\ Goto(p, "restore")
  /\ UNCHANGED <<first, db, lock, work, next, enforced>>

Statement(p) ==
  /\ stage[p] = "steps" /\ next[p] \in DOMAIN Statements
  /\ work' = Executed(Statements[next[p]], work)
  /\ next' = [next EXCEPT ![p] = @ + 1]
  /\ UNCHANGED <<first, db, lock, stage, result, enforced>>

\* A statement or the COMMIT fails, and so may the ROLLBACK.
Fails(p) ==
  /\ stage[p] = "steps"
  /\ result' = [result EXCEPT ![p] = "error"]
  /\ lock' \in {lock, NobodysLock}
  /\ work' = db
  /\ next' = [next EXCEPT ![p] = 1]
  /\ Goto(p, "restore")
  /\ UNCHANGED <<first, db, enforced>>

\* COMMIT; the check of foreign keys after it only reports, but may fail itself.
Commit(p) ==
  /\ stage[p] = "steps" /\ next[p] \notin DOMAIN Statements
  /\ db' = work
  /\ lock' = NobodysLock
  /\ \E r \in {"ok", "error"} : result' = [result EXCEPT ![p] = r]
  /\ next' = [next EXCEPT ![p] = 1]
  /\ Goto(p, "restore")
  /\ UNCHANGED <<first, work, enforced>>

\* Mutant: the pragma is not read back.
RestoreUnread(p) ==
  /\ stage[p] = "restore"
  /\ enforced' = [enforced EXCEPT ![p] = lock # p]
  /\ Goto(p, IF result[p] = "ok" THEN "in" ELSE "failed")
  /\ UNCHANGED <<first, db, lock, work, next, result>>

\* PRAGMA foreign_keys = ON does nothing inside an open transaction: a connection
\* in that state is closed, which ends the transaction; another one is pooled.
Restore(p) ==
  /\ stage[p] = "restore"
  /\ enforced' = [enforced EXCEPT ![p] = TRUE]
  /\ lock' = IF lock = p THEN NobodysLock ELSE lock
  /\ Goto(p, IF result[p] = "ok" THEN "in" ELSE "failed")
  /\ UNCHANGED <<first, db, work, next, result>>

\* The process ends, at any moment; SQLite rolls back what it had begun.
Crash(p) ==
  /\ stage[p] # "out"
  /\ lock' = IF lock = p THEN NobodysLock ELSE lock
  /\ work' = IF lock = p THEN db ELSE work
  /\ next' = [next EXCEPT ![p] = 1]
  /\ Goto(p, "out")
  /\ result' = [result EXCEPT ![p] = "none"]
  /\ enforced' = [enforced EXCEPT ![p] = TRUE]
  /\ UNCHANGED <<first, db>>

Step(p) == \/ Open(p) \/ Begin(p) \/ Busy(p) \/ Statement(p) \/ Fails(p)
           \/ Commit(p) \/ Restore(p) \/ Crash(p)

MigrationNext == \E p \in Processes : Step(p)

MigrationSpec == MigrationInit /\ [][MigrationNext]_migrationVars

-----------------------------------------------------------------------------
(* Properties *)

\* The alerts a database holds; where a migration without a transaction was cut
\* short, the old table as long as it is there.
Alerts(d) == IF d.alerts # NoTable THEN d.alerts.rows
             ELSE IF d.alertsNew # NoTable THEN d.alertsNew.rows ELSE << >>
Actions(d) == IF d.actions # NoTable THEN d.actions.rows ELSE << >>

\* For the alert manager an alert is open or it is resolved, whatever the status said.
IsOpen(row) == IF "triggered" \in DOMAIN row THEN row.status # "resolved" ELSE ~LegacyResolved(row)

\* What `new` has kept of `old`: every alert and every action there ever was, the open
\* alerts open and the others resolved, an action's alert unless it does not exist, and
\* the last id that was given.
Keeps(old, new) ==
  /\ DOMAIN Alerts(new) = DOMAIN Alerts(old)
  /\ \A i \in DOMAIN Alerts(old) : IsOpen(Alerts(new)[i]) = IsOpen(Alerts(old)[i])
  /\ DOMAIN Actions(new) = DOMAIN Actions(old)
  /\ \A i \in DOMAIN Actions(old) :
       Actions(old)[i].alert \in DOMAIN Alerts(old) => Actions(new)[i].alert = Actions(old)[i].alert
  /\ new.actionSeq >= old.actionSeq

\* Whoever crashes or fails wherever, what is committed keeps the history, and no id is
\* given a second time (schema.rs).
HistoryKept == Keeps(first, db)

\* A process that got in finds new tables, and the connection a process migrated on, well
\* or not, enforces foreign keys and holds no transaction open, which would keep
\* every other writer out for good (schema.rs migrate, migrate_1_to_2).
ReadyWhenIn ==
  \A p \in Processes :
    /\ stage[p] = "in" => db.version >= SchemaVersion
    /\ stage[p] = "in" /\ db.version = SchemaVersion => TablesAreNew(db)
    /\ stage[p] \in {"in", "failed"} => enforced[p] /\ lock # p
=============================================================================
