------------------------------- MODULE SimEdge -------------------------------
(***************************************************************************)
(* A simulated edge (crate nimon-sim): the task that drives its sweeps and *)
(* reconnects (edge.rs), the reader task of each connection, which applies *)
(* what the hub sends to the same state, the devices of the simulation     *)
(* (model.rs), and the main task that ends the run (main.rs).              *)
(*                                                                         *)
(* Time is in ticks and relative: `left` is next - now and `since` is      *)
(* now - last_tick.  Of the devices the one that goes offline is kept, and *)
(* of its reports that there is one.  Temperatures, alerts, predictions    *)
(* and the answers to actions are left out.  An edge does not share state  *)
(* with another, except that any of them may end the run (Fatal).          *)
(***************************************************************************)
EXTENDS Integers, Sequences

CONSTANTS
  Intervals,      \* lengths of the sweep interval the hub may push
  Late,           \* bound: how late a timer may be noticed
  OfflineAfter,   \* OFFLINE_AFTER_TICKS, in sweeps
  RemoveAfter,    \* REMOVE_AFTER_SILENT_TICKS, in sweeps
  ReconnectAfter, \* RECONNECT_EVERY_TICKS, in sweeps of a session
  CloseTimeout,   \* longest time close() waits for its writer
  Pause,          \* the pause of a clean reconnect
  Backoffs,       \* backoff_delay: a delay for each number of attempts, the last for more
  ExitTimeout,    \* how long main waits for the edges
  MaxSweeps,      \* bound: sweeps of the edge
  MaxPushes       \* bound: configurations and resend_state commands

ASSUME SimAssumption ==
  /\ Intervals \subseteq Nat \ {0} /\ \E i \in Intervals : \A j \in Intervals : j <= i
  /\ Late \in Nat /\ RemoveAfter \in Nat /\ RemoveAfter >= 2
  /\ Backoffs \in Seq(Nat \ {0}) /\ Backoffs # <<>>
  /\ CloseTimeout \in Nat /\ Pause \in Nat /\ ExitTimeout \in Nat
  /\ CloseTimeout + Pause < ExitTimeout

VARIABLES
  scenario,  \* "offline" or "reconnect": the others add nothing to what is kept
  run,       \* RunState
  seen,      \* the edge's receiver has seen the end of the run
  patience,  \* what is left of main's wait, ExitTimeout before it begins
  where,     \* "connects", "session", "sweeps", "closes", "backs_off", "pauses", "stopped"
  after,     \* what follows closing
  wait,      \* what is left of it
  attempt, overlap, ticks, sweeps,   \* counters; whether the next reconnect overlaps
  left, since, interval, period,      \* the timer, EdgeSim.interval, what a sweep read of it
  permit,    \* of the Notify `wake`
  reader,    \* readers in the middle of a message: [old, doing] records
  old,       \* the replaced connection is still open
  pushes, life, silent,              \* the device: "active", "silent" (for how many sweeps), "removed"
  sent,      \* reports of the device on the way to the hub, on this connection
  listed     \* the hub's session of this connection has the device

runVars == <<run, seen, patience>>
driveVars == <<where, after, wait, attempt, overlap, ticks, sweeps>>
timeVars == <<left, since, interval, period, permit>>
deviceVars == <<life, silent>>
reportVars == <<sent, listed>>
simVars == <<scenario, runVars, driveVars, timeVars, reader, old, pushes, deviceVars, reportVars>>

SimInit ==
  /\ scenario \in {"offline", "reconnect"}
  /\ run = "running" /\ seen = FALSE /\ patience = ExitTimeout
  /\ where = "connects" /\ after = "none" /\ wait = 0
  /\ attempt = 0 /\ overlap = TRUE /\ ticks = 0 /\ sweeps = 0
  /\ left = 0 /\ since = 0 /\ period = 0 /\ permit = FALSE
  /\ interval = (CHOOSE i \in Intervals : \A j \in Intervals : j <= i)
  /\ reader = {} /\ old = FALSE /\ pushes = 0
  /\ life = "active" /\ silent = 0
  /\ sent = <<>> /\ listed = FALSE

-----------------------------------------------------------------------------
(* The end of the run                                                      *)

\* The duration is over, or somebody interrupts.
RunEnds ==
  /\ run = "running" /\ run' = "stopping"
  /\ UNCHANGED <<scenario, seen, patience, driveVars, timeVars, reader, old, pushes, deviceVars, reportVars>>

\* Shared::fatal, of this edge or another: only the first end of the run counts.
Fatal == run' = IF run = "running" THEN "fatal" ELSE run
OthersFail ==
  /\ run = "running" /\ Fatal
  /\ UNCHANGED <<scenario, seen, patience, driveVars, timeVars, reader, old, pushes, deviceVars, reportVars>>

\* Mutant: the back-off is slept through.
ListeningAwake == {"connects", "session"}

\* Where a select waits for run_rx.changed() as well.
Listening == {"connects", "session", "backs_off"}
Stirs == where \in Listening /\ run # "running" /\ ~seen
Stirred == Stirs /\ seen' = TRUE
StartsClose(then) == where' = "closes" /\ after' = then /\ wait' = CloseTimeout
\* The variables of a session end with it.
Leaves == left' = 0 /\ since' = 0 /\ ticks' = 0

\* The loop of run_edge goes on while the run does.
Again(from) ==
  /\ where \in from
  /\ where' = IF run = "running" THEN "connects" ELSE "stopped"

-----------------------------------------------------------------------------
(* Connections (run_edge)                                                  *)

Backoff == Backoffs[IF attempt < Len(Backoffs) THEN attempt + 1 ELSE Len(Backoffs)]
Attempted == attempt' = IF attempt < Len(Backoffs) THEN attempt + 1 ELSE attempt

\* A session of two sweeps lets the back-off start anew.
Settled == attempt' = IF ticks >= 2 THEN 0 ELSE attempt

\* The first sweep is due at once; the new connection's session at the hub knows
\* no device.
Connects ==
  /\ where = "connects" /\ where' = "session"
  /\ ticks' = 0 /\ left' = 0 /\ since' = 0
  /\ sent' = <<>> /\ listed' = FALSE
  /\ UNCHANGED <<scenario, runVars, after, wait, attempt, overlap, sweeps, interval, period, permit,
                 reader, old, pushes, deviceVars>>

\* The hub cannot be reached; it may also refuse, which ends the run.
ConnectFails ==
  /\ where = "connects" /\ where' = "backs_off" /\ wait' = Backoff /\ Attempted
  /\ UNCHANGED <<scenario, runVars, after, overlap, ticks, sweeps, timeVars, reader, old, pushes,
                 deviceVars, reportVars>>
ConnectRefused ==
  /\ where = "connects" /\ where' = "stopped" /\ Fatal
  /\ UNCHANGED <<scenario, seen, patience, after, wait, attempt, overlap, ticks, sweeps, timeVars,
                 reader, old, pushes, deviceVars, reportVars>>

\* The end of the run is noticed while connecting.
ConnectStirred ==
  /\ Again({"connects"}) /\ Stirred
  /\ UNCHANGED <<scenario, run, patience, after, wait, attempt, overlap, ticks, sweeps, timeVars,
                 reader, old, pushes, deviceVars, reportVars>>

BackoffEnds ==
  /\ Again({"backs_off"})
  /\ Stirred \/ (wait = 0 /\ UNCHANGED seen)
  /\ UNCHANGED <<scenario, run, patience, after, wait, attempt, overlap, ticks, sweeps, timeVars,
                 reader, old, pushes, deviceVars, reportVars>>

\* The reader or the writer of the connection has stopped.
Dropped ==
  /\ where = "session" /\ StartsClose("backs_off") /\ Settled /\ Leaves
  /\ UNCHANGED <<scenario, runVars, overlap, sweeps, interval, period, permit, reader, old, pushes,
                 deviceVars, reportVars>>

\* The end of the run is noticed in a session: the connection is closed.
SessionStops ==
  /\ where = "session" /\ Stirred
  /\ StartsClose("stopped") /\ Settled /\ Leaves
  /\ UNCHANGED <<scenario, run, patience, overlap, sweeps, interval, period, permit, reader, old,
                 pushes, deviceVars, reportVars>>

\* Connection::close is over, within its timeout.  Its reader, aborted, still ends
\* the message it is at.
Replaced == {[r EXCEPT !.old = TRUE] : r \in reader}
CloseEnded ==
  /\ where = "closes"
  /\ after' = "none"
  /\ CASE after = "stopped" -> where' = "stopped" /\ UNCHANGED <<wait, attempt>>
       [] after = "backs_off" -> where' = "backs_off" /\ wait' = Backoff /\ Attempted
       [] after = "pauses" -> where' = "pauses" /\ wait' = Pause /\ UNCHANGED attempt
  /\ reader' = Replaced
  /\ UNCHANGED <<scenario, runVars, overlap, ticks, sweeps, timeVars, old, pushes, deviceVars, reportVars>>

\* The pause does not look at the run, the loop after it does.
PauseEnds ==
  /\ wait = 0 /\ Again({"pauses"})
  /\ UNCHANGED <<scenario, runVars, after, wait, attempt, overlap, ticks, sweeps, timeVars, reader,
                 old, pushes, deviceVars, reportVars>>

\* The replaced connection is closed.
OldCloses ==
  /\ old /\ old' = FALSE
  /\ UNCHANGED <<scenario, runVars, driveVars, timeVars, reader, pushes, deviceVars, reportVars>>

-----------------------------------------------------------------------------
(* Sweeps (session, EdgeSim::step)                                         *)

\* What a sweep does to the device, and what it reports of it.
Lives(next, report) == life' = next /\ sent' = sent \o report \o
                         <<IF next = "removed" THEN "none_left" ELSE "one_left">>
Device ==
  \/ scenario = "reconnect" /\ UNCHANGED <<life, silent, sent>>
  \/ /\ life = "active" /\ scenario = "offline" /\ sweeps < OfflineAfter
     /\ Lives("active", <<"status">>) /\ UNCHANGED silent
  \/ /\ life = "active" /\ scenario = "offline" /\ sweeps >= OfflineAfter
     /\ Lives("silent", <<>>) /\ silent' = 0
  \/ /\ life = "silent" /\ silent + 1 < RemoveAfter
     /\ Lives("silent", <<>>) /\ silent' = silent + 1
  \/ /\ life = "silent" /\ silent + 1 >= RemoveAfter
     /\ Lives("removed", <<"removal">>) /\ UNCHANGED silent
  \/ /\ life = "removed"
     /\ Lives("removed", <<>>) /\ UNCHANGED silent

\* The timer fires: under the lock the sweep is made and the interval read; the
\* reports and a heartbeat go to the queue of the connection.
Sweeps ==
  /\ where = "session" /\ left <= 0 /\ sweeps < MaxSweeps
  /\ where' = "sweeps" /\ sweeps' = sweeps + 1
  /\ period' = interval
  /\ Device
  /\ UNCHANGED <<scenario, runVars, after, wait, attempt, overlap, ticks, left, since, interval, permit,
                 reader, old, pushes, listed>>

\* The lock is released; the cadence is kept, a backlog is not made up for.  In
\* the reconnect scenario the session ends after some sweeps: in every other
\* cycle the new connection registers while the old one is still open.
SweepDone ==
  /\ where = "sweeps" /\ period' = 0
  /\ \/ /\ scenario = "offline" \/ ticks + 1 < ReconnectAfter
        /\ where' = "session"
        /\ ticks' = ticks + 1 /\ since' = 0
        /\ left' = IF left + period > 0 THEN left + period ELSE 0
        /\ UNCHANGED <<after, wait, attempt, overlap, old, reader>>
     \/ /\ scenario = "reconnect" /\ ticks + 1 >= ReconnectAfter
        /\ Leaves /\ attempt' = IF ticks + 1 >= 2 THEN 0 ELSE attempt
        /\ overlap' = ~overlap
        /\ \/ overlap /\ Again({"sweeps"}) /\ old' = TRUE /\ reader' = Replaced /\ UNCHANGED <<after, wait>>
           \/ ~overlap /\ StartsClose("pauses") /\ UNCHANGED <<old, reader>>
  /\ UNCHANGED <<scenario, runVars, sweeps, interval, permit, pushes, deviceVars, reportVars>>

\* The loop was woken: the next sweep is due an interval after the last.
Wakes ==
  /\ where = "session" /\ permit
  /\ permit' = FALSE
  /\ left' = interval - since
  /\ UNCHANGED <<scenario, runVars, driveVars, since, interval, period, reader, old, pushes,
                 deviceVars, reportVars>>

-----------------------------------------------------------------------------
(* Readers (handle_incoming)                                               *)

Hears(isOld) == IF isOld THEN old ELSE where \in {"session", "sweeps"}
Reads(isOld, doing) ==
  /\ pushes < MaxPushes /\ pushes' = pushes + 1
  /\ Hears(isOld) /\ \A r \in reader : r.old # isOld
  /\ reader' = reader \cup {[old |-> isOld, doing |-> doing]}

\* config_update with another interval: applied under the lock.
ReadsConfig(isOld, i) ==
  /\ i # interval /\ interval' = i
  /\ Reads(isOld, "wake")
  /\ UNCHANGED <<scenario, runVars, driveVars, left, since, period, permit, old, deviceVars, reportVars>>

\* Mutant: the snapshot has all devices.
ReadsResendAll(isOld) ==
  /\ Reads(isOld, IF scenario = "offline" THEN "send" ELSE "nothing")
  /\ UNCHANGED <<scenario, runVars, driveVars, timeVars, old, deviceVars, reportVars>>

\* resend_state: the devices that report are taken under the lock.
ReadsResend(isOld) ==
  /\ Reads(isOld, IF life = "active" /\ scenario = "offline" THEN "send" ELSE "nothing")
  /\ UNCHANGED <<scenario, runVars, driveVars, timeVars, old, deviceVars, reportVars>>

\* Mutant: only a loop that waits is woken (notify_waiters).
ReaderWakesWaiting(r) ==
  /\ r.doing = "wake" /\ reader' = reader \ {r}
  /\ permit' = (permit \/ where = "session")
  /\ UNCHANGED <<scenario, runVars, driveVars, left, since, interval, period, old, pushes, deviceVars, reportVars>>

\* The lock was released; the loop is woken, or will be when it next waits.
ReaderWakes(r) ==
  /\ r.doing = "wake" /\ reader' = reader \ {r}
  /\ permit' = TRUE
  /\ UNCHANGED <<scenario, runVars, driveVars, left, since, interval, period, old, pushes, deviceVars, reportVars>>

\* What was taken goes to the queue of the reader's connection, if it is open.
ReaderSends(r) ==
  /\ r.doing \in {"send", "nothing"} /\ reader' = reader \ {r}
  /\ sent' = IF r.doing = "send" /\ ~r.old /\ where \in {"session", "sweeps"}
             THEN Append(sent, "status") ELSE sent
  /\ UNCHANGED <<scenario, runVars, driveVars, timeVars, old, pushes, deviceVars, listed>>

\* External: the hub's session of the connection takes the next report.
HubTakes ==
  /\ sent # <<>> /\ sent' = Tail(sent)
  /\ listed' = CASE Head(sent) = "status" -> TRUE
                  [] Head(sent) = "removal" -> FALSE
                  [] OTHER -> listed
  /\ UNCHANGED <<scenario, runVars, driveVars, timeVars, reader, old, pushes, deviceVars>>

-----------------------------------------------------------------------------
(* Time                                                                    *)

\* The edge's task need not wait: it can end a sweep or a pause, or something its
\* select waits for is there.
Ready == \/ Stirs
         \/ where \in {"backs_off", "pauses"} /\ wait = 0
         \/ where = "session" /\ permit
         \/ where = "sweeps"

\* Time passes when nothing is ready but a timer that is noticed late; a
\* message is handled in no time.  Main waits once the run has ended.
SimTick ==
  /\ reader = {} /\ ~Ready
  /\ where = "session" => left > -Late
  /\ where = "closes" => wait > 0
  /\ run # "running" => patience > 0 /\ where # "stopped"
  /\ patience' = IF run = "running" THEN patience ELSE patience - 1
  /\ wait' = IF wait > 0 THEN wait - 1 ELSE 0
  /\ IF where = "session" THEN left' = left - 1 /\ since' = since + 1
     ELSE UNCHANGED <<left, since>>
  /\ UNCHANGED <<scenario, run, seen, where, after, attempt, overlap, ticks, sweeps, interval, period,
                 permit, reader, old, pushes, deviceVars, reportVars>>

-----------------------------------------------------------------------------

SimNext ==
  \/ RunEnds \/ OthersFail
  \/ Connects \/ ConnectFails \/ ConnectRefused \/ ConnectStirred \/ BackoffEnds
  \/ Dropped \/ SessionStops \/ CloseEnded \/ PauseEnds \/ OldCloses
  \/ Sweeps \/ SweepDone \/ Wakes
  \/ \E isOld \in BOOLEAN : \/ \E i \in Intervals : ReadsConfig(isOld, i)
                             \/ ReadsResend(isOld)
  \/ \E r \in reader : ReaderWakes(r) \/ ReaderSends(r)
  \/ HubTakes
  \/ SimTick

SimSpec == SimInit /\ [][SimNext]_simVars

-----------------------------------------------------------------------------
(* Properties                                                              *)

\* A new interval is kept from the next sweep on, whichever reader applied it and
\* wherever the loop was then: in the middle of a sweep, between connections, or
\* waiting for a sweep that the old interval had put far off (session, wake).
OnTime ==
  where = "session" /\ ~permit /\ (\A r \in reader : r.doing # "wake")
    => left + since <= interval

\* Whatever the edge is doing when the run ends, it has stopped before main gives
\* up waiting, so that its connection was closed properly (run_edge, main).
StopsInTime == patience = 0 => where = "stopped"

\* When the hub is told that the edge has no device left, its session has none
\* either: no snapshot brings a removed device back (state_snapshot, step).
CountAgrees == sent # <<>> /\ Head(sent) = "none_left" => ~listed

SimulationHolds == OnTime /\ StopsInTime /\ CountAgrees
=============================================================================
