------------------------------ MODULE HubHost ------------------------------
(***************************************************************************)
(* The life of a hub from its start to its end, under each of its hosts:    *)
(* the console (main.rs), the Windows service manager (service.rs) and the  *)
(* desktop widget, which runs it on a thread (module Widget).  They differ  *)
(* in where the configuration comes from and in how a stop is asked for;    *)
(* between the two run_with_shutdown (server/mod.rs) opens the database,    *)
(* starts the actors, serves, and persists what is buffered at the end.     *)
(*                                                                          *)
(* Of the data only metric samples are followed: from an edge's socket      *)
(* through the mailbox and the buffer of the alert manager to the low lane  *)
(* of the database writer (module DbWriter).                                *)
(***************************************************************************)
EXTENDS Integers, Sequences, FiniteSets

CONSTANTS
  Hosts,        \* subset of {"console", "scm", "widget"}
  FlushWait,    \* seconds the end waits for the alert manager (2)
  DrainWait,    \* seconds it waits for the writer (5)
  LaneSize,     \* writes the low lane holds
  MaxSamples,   \* bound, per host: samples reported
  MaxStarts     \* bound: starts of the process

ASSUME HostsAssumption == Hosts \subseteq {"console", "scm", "widget"}
ASSUME WaitAssumption == FlushWait \in Nat \ {0} /\ DrainWait \in Nat \ {0}

VARIABLES
  host,      \* who hosts the hub
  registered, \* the service is registered with the SCM
  starts,    \* starts so far
  phase,     \* how far the hub is
  outcome,   \* what run_with_shutdown returned, or how the process ended
  reported,  \* the service's status with the SCM
  asked,     \* a stop was asked for (watch value, signal, oneshot)
  cancelled, \* HubState::shutdown
  sockets,   \* an edge's WebSocket task is running
  requests,  \* an HTTP request is being answered
  restoring, \* the alert manager reads the database, no message before (ctx.wait)
  mailbox,   \* messages to the alert manager: samples and the final FlushMetrics
  buffer,    \* AlertManager::metric_buffer
  lane,      \* low lane of the writer: sets of samples and the final barrier
  stored,    \* samples in the database
  dropped,   \* samples the full lane shed, or whose write failed
  owed,      \* samples handed to the manager before its FlushMetrics
  waited,    \* seconds the current bounded wait has taken
  late       \* a bounded wait ran out

process == <<host, registered, starts, phase, outcome, reported, asked>>
serving == <<cancelled, sockets, requests>>
data == <<restoring, mailbox, buffer, lane, stored, dropped, owed>>
clock == <<waited, late>>
hostVars == <<process, serving, data, clock>>

Samples == 1 .. MaxSamples[host]
FlushMetrics == 0     \* the message
Barrier == {0}        \* the operation of DbWriter::flush

Starting == {"loading", "checking", "opening", "binding"}
Ending == {"closing", "flushing", "slot", "draining", "returned"}
Running == phase \in {"serving"} \cup (Ending \ {"returned"})
Reported == UNION {stored, dropped, buffer, {mailbox[i] : i \in DOMAIN mailbox} \ {FlushMetrics},
                   (UNION {lane[i] : i \in DOMAIN lane}) \ {FlushMetrics}}

-----------------------------------------------------------------------------
(* Starting *)

HostInit ==
  /\ host \in Hosts
  /\ registered = FALSE
  /\ starts = 0
  /\ phase = "down" /\ outcome = "none" /\ reported = "stopped"
  /\ asked = FALSE
  /\ cancelled = FALSE /\ sockets = FALSE /\ requests = FALSE
  /\ restoring = FALSE
  /\ mailbox = <<>> /\ buffer = {} /\ lane = <<>>
  /\ stored = {} /\ dropped = {} /\ owed = {}
  /\ waited = 0 /\ late = FALSE

\* install_service and uninstall_service: the registration only.
Register ==
  /\ host = "scm"
  /\ registered' = ~ registered
  /\ UNCHANGED <<host, starts, phase, outcome, reported, asked, serving, data, clock>>

\* A process starts: `nimon-hub` on a console, or the SCM (start_service, or at
\* boot) runs `run-service`, which registers its control handler first.
StartProcess ==
  /\ phase = "down" /\ starts < MaxStarts
  /\ \/ host = "console" /\ UNCHANGED reported
     \/ host = "scm" /\ registered /\ reported = "stopped" /\ reported' = "start_pending"
  /\ starts' = starts + 1
  /\ phase' = "loading" /\ outcome' = "none" /\ asked' = FALSE
  /\ cancelled' = FALSE /\ late' = FALSE /\ waited' = 0
  /\ stored' = {} /\ dropped' = {} /\ owed' = {}
  /\ UNCHANGED <<host, registered, sockets, requests, restoring, mailbox, buffer, lane>>

\* The configuration of the host.  The service reports that it runs as soon as it
\* has one, before the database is open.
LoadConfig ==
  /\ phase = "loading"
  /\ \/ /\ phase' = "checking" /\ UNCHANGED outcome
        /\ reported' = IF host = "scm" THEN "running" ELSE reported
     \/ /\ phase' = "returned" /\ outcome' = "error" /\ UNCHANGED reported
  /\ UNCHANGED <<host, registered, starts, asked, serving, data, clock>>

\* run_with_shutdown up to its listener: validate and parse_host, open_database
\* (which migrates), bind.  Each may fail, and no stop is looked at in between.
Proceed(from, to) ==
  /\ phase = from
  /\ \/ phase' = to /\ UNCHANGED outcome
     \/ phase' = "returned" /\ outcome' = "error"
  /\ UNCHANGED <<host, registered, starts, reported, asked, clock>>

CheckConfig == Proceed("checking", "opening") /\ UNCHANGED <<serving, data>>
OpenDatabase == Proceed("opening", "binding") /\ UNCHANGED <<serving, data>>

\* start_hub_services: the alert manager begins by restoring its state.
BindAndStart ==
  /\ Proceed("binding", "serving")
  /\ restoring' = (phase' = "serving")
  /\ UNCHANGED <<serving, mailbox, buffer, lane, stored, dropped, owed>>

-----------------------------------------------------------------------------
(* Serving *)

Connect ==
  /\ phase = "serving" /\ ~ cancelled
  /\ sockets' = TRUE
  /\ UNCHANGED <<process, cancelled, requests, data, clock>>

\* An edge reports a sample.  Its task is detached: it goes on after the server
\* has stopped accepting, until it sees the token.
ReportSample(s) ==
  /\ Running /\ sockets
  /\ s \in Samples \ Reported /\ \A r \in Samples \ Reported : s <= r
  /\ mailbox' = Append(mailbox, s)
  /\ UNCHANGED <<process, serving, restoring, buffer, lane, stored, dropped, owed, clock>>

\* The socket's task ends: its edge left, or it saw the token.
SocketEnds ==
  /\ Running /\ sockets
  /\ sockets' = FALSE
  /\ UNCHANGED <<process, cancelled, requests, data, clock>>

RequestBegins ==
  /\ phase = "serving" /\ ~ requests
  /\ requests' = TRUE
  /\ UNCHANGED <<process, cancelled, sockets, data, clock>>

RequestEnds ==
  /\ Running /\ requests
  /\ requests' = FALSE
  /\ UNCHANGED <<process, cancelled, sockets, data, clock>>

RestoreEnds ==
  /\ Running /\ restoring
  /\ restoring' = FALSE
  /\ UNCHANGED <<process, serving, mailbox, buffer, lane, stored, dropped, owed, clock>>

\* flush_metrics: the buffer becomes one low write, or nothing when it is empty.
FlushBuffer ==
  /\ buffer' = {}
  /\ IF buffer = {} THEN UNCHANGED <<lane, dropped>>
     ELSE IF Len(lane) < LaneSize THEN lane' = Append(lane, buffer) /\ UNCHANGED dropped
                                  ELSE dropped' = dropped \cup buffer /\ UNCHANGED lane

\* The alert manager takes its next message.
ManagerHandles ==
  /\ Running /\ ~ restoring /\ mailbox # <<>>
  /\ mailbox' = Tail(mailbox)
  /\ IF Head(mailbox) = FlushMetrics
       THEN FlushBuffer
       ELSE buffer' = buffer \cup {Head(mailbox)} /\ UNCHANGED <<lane, dropped>>
  /\ UNCHANGED <<process, serving, restoring, stored, owed, clock>>

\* Its timer, or a buffer that is full.
FlushOnTimer ==
  /\ Running /\ ~ restoring /\ buffer # {}
  /\ FlushBuffer
  /\ UNCHANGED <<process, serving, restoring, mailbox, stored, owed, clock>>

\* The writer runs its next operation, which may fail.
WriterRuns ==
  /\ Running /\ lane # <<>>
  /\ lane' = Tail(lane)
  /\ \/ stored' = stored \cup (Head(lane) \ Barrier) /\ UNCHANGED dropped
     \/ dropped' = dropped \cup (Head(lane) \ Barrier) /\ UNCHANGED stored
  /\ UNCHANGED <<process, serving, restoring, mailbox, buffer, owed, clock>>

-----------------------------------------------------------------------------
(* Stopping *)

\* Mutant: the request is an event, and nobody waits for it before the server serves.
StopServiceOnce ==
  /\ host = "scm" /\ reported = "running"
  /\ asked' = (phase = "serving")
  /\ UNCHANGED <<host, registered, starts, phase, outcome, reported, serving, data, clock>>

\* The SCM delivers a stop (stop_service, or the machine shutting down), which it
\* does only to a service that runs: the handler sets the watch value.
StopService ==
  /\ host = "scm" /\ reported = "running"
  /\ asked' = TRUE
  /\ UNCHANGED <<host, registered, starts, phase, outcome, reported, serving, data, clock>>

\* Ctrl+C or SIGTERM: before the server listens for it, it ends the process.
Interrupt ==
  /\ host = "console" /\ phase # "down"
  /\ IF phase \in Starting
       THEN phase' = "returned" /\ outcome' = "killed" /\ UNCHANGED asked
       ELSE asked' = TRUE /\ UNCHANGED <<phase, outcome>>
  /\ UNCHANGED <<host, registered, starts, reported, serving, data, clock>>

\* The shutdown future resolves: the token is cancelled, the server accepts no more.
BeginClose ==
  /\ phase = "serving" /\ asked
  /\ phase' = "closing" /\ cancelled' = TRUE
  /\ UNCHANGED <<host, registered, starts, outcome, reported, asked, sockets, requests,
                 data, clock>>

\* Mutant: the writer is drained without asking the alert manager.
DrainOnly ==
  /\ phase = "closing" /\ ~ requests
  /\ phase' = "flushing" /\ waited' = 0
  /\ owed' = Reported
  /\ UNCHANGED <<host, registered, starts, outcome, reported, asked, serving,
                 restoring, mailbox, buffer, lane, stored, dropped, late>>

\* The server returns once the requests are answered; the end of the hub begins by
\* asking the alert manager for its buffer.
CloseEnds ==
  /\ phase = "closing" /\ ~ requests
  /\ phase' = "flushing" /\ waited' = 0
  /\ mailbox' = Append(mailbox, FlushMetrics)
  /\ owed' = Reported
  /\ UNCHANGED <<host, registered, starts, outcome, reported, asked, serving,
                 restoring, buffer, lane, stored, dropped, late>>

FlushPending == \E i \in DOMAIN mailbox : mailbox[i] = FlushMetrics
BarrierPending == \E i \in DOMAIN lane : lane[i] = Barrier

\* The manager answered, or two seconds passed; then DbWriter::flush, which first
\* takes a slot of the low lane.
FlushEnds ==
  /\ phase = "flushing"
  /\ \/ ~ FlushPending /\ UNCHANGED late
     \/ FlushPending /\ waited >= FlushWait /\ late' = TRUE
  /\ phase' = "slot" /\ waited' = 0
  /\ UNCHANGED <<host, registered, starts, outcome, reported, asked, serving, data>>

PlaceBarrier ==
  /\ phase = "slot" /\ Len(lane) < LaneSize
  /\ phase' = "draining"
  /\ lane' = Append(lane, Barrier)
  /\ UNCHANGED <<host, registered, starts, outcome, reported, asked, serving,
                 restoring, mailbox, buffer, stored, dropped, owed, clock>>

\* The barrier ran, or five seconds passed: run_with_shutdown returns.
DrainEnds ==
  /\ \/ phase = "draining" /\ ~ BarrierPending /\ UNCHANGED late
     \/ phase \in {"slot", "draining"} /\ waited >= DrainWait /\ late' = TRUE
  /\ phase' = "returned" /\ outcome' = "ok" /\ waited' = 0
  /\ UNCHANGED <<host, registered, starts, reported, asked, serving, data>>

\* Whatever the process held in memory is gone with it.
Gone ==
  /\ phase' = "down"
  /\ sockets' = FALSE /\ requests' = FALSE /\ restoring' = FALSE
  /\ mailbox' = <<>> /\ buffer' = {} /\ lane' = <<>>
  /\ waited' = 0
  /\ UNCHANGED <<host, registered, starts, asked, cancelled, stored, dropped, owed, late>>

\* The process ends: the service reports Stopped, with its exit code, first.
EndProcess ==
  /\ phase = "returned" /\ host # "widget"
  /\ reported' = "stopped"
  /\ UNCHANGED outcome
  /\ Gone

\* The limit of the wait the hub is in, if it is bounded.
Limit == CASE phase = "flushing" -> FlushWait
           [] phase \in {"slot", "draining"} -> DrainWait
           [] OTHER -> 0

\* A second of a bounded wait passes; a timeout that is due comes first.
Elapse == waited < Limit /\ waited' = waited + 1 /\ UNCHANGED late
Tick == Elapse /\ UNCHANGED <<process, serving, data>>

-----------------------------------------------------------------------------
Startup == LoadConfig \/ CheckConfig \/ OpenDatabase \/ BindAndStart
Edges == Connect \/ SocketEnds \/ \E s \in Samples : ReportSample(s)
Requests == RequestBegins \/ RequestEnds
Manager == RestoreEnds \/ ManagerHandles \/ FlushOnTimer
Stops == BeginClose \/ FlushEnds \/ PlaceBarrier \/ DrainEnds

HubNext == Startup \/ Edges \/ Requests \/ Manager \/ WriterRuns \/ Stops \/ CloseEnds
Operators == Register \/ StartProcess \/ StopService \/ Interrupt
HostNext == HubNext \/ Operators \/ EndProcess \/ Tick

\* The runtime polls every task, a request is answered (the handlers bound their
\* waits), and time passes.
HubFairness ==
  /\ WF_hostVars(Startup) /\ WF_hostVars(Stops \/ CloseEnds) /\ WF_hostVars(RequestEnds)
HostFairness == HubFairness /\ WF_hostVars(EndProcess) /\ WF_hostVars(Tick)

HostSpec == HostInit /\ [][HostNext]_hostVars /\ HostFairness

-----------------------------------------------------------------------------
(* Properties *)

\* A stop in which neither wait ran out loses nothing: every sample an edge had
\* reported when the server stopped serving is in the database, unless the full lane
\* shed it or its write failed, although it was still in the mailbox, the buffer or the lane then.
StopKeepsMetrics == outcome = "ok" /\ ~ late => owed \subseteq stored \cup dropped

\* A stop that was asked for, in whatever state the hub was, ends the process.
StopHonoured == asked ~> phase = "down"
=============================================================================
