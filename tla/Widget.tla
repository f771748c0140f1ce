------------------------------- MODULE Widget -------------------------------
(***************************************************************************)
(* The desktop widget as a host (nimon-widget/src/main.rs): it attaches to  *)
(* a hub that answers, or runs a hub of its own on a thread and, on another *)
(* thread, a supervisor that runs an edge once that hub answers.  Leaving,  *)
(* it stops the edge, then the hub, each within a bounded time.             *)
(*                                                                          *)
(* Three threads touch the shared `Services`: the user interface (its event *)
(* loop gets the Exit event), the thread `request_quit` starts, and the     *)
(* supervisor.  A second of a bounded wait is a step of the clock.          *)
(***************************************************************************)
EXTENDS HubHost

CONSTANT EdgeStopTimeout  \* EDGE_STOP_TIMEOUT (4), in seconds

ASSUME EdgeStopAssumption == EdgeStopTimeout \in Nat \ {0}

VARIABLES
  app,        \* the widget's process
  hubTx,      \* Services::hub_tx holds the hub's stop sender
  hubError,   \* Services::hub_error is set
  supervisor, \* where the edge's thread is
  edgeTx,     \* Services::edge_tx holds the running edge's stop sender
  edgeAsked,  \* the running edge was asked to stop
  quitting,   \* Services::quitting
  stopped,    \* Services::stopped: somebody is in shutdown_services
  quitter,    \* the thread of request_quit
  exiting,    \* the event loop is in its Exit event
  stopping,   \* how far shutdown_services is
  joined,     \* seconds the current join has taken
  closedAt    \* seconds of the hub's join when its server had closed, -1 before

services == <<hubTx, hubError, edgeTx, edgeAsked, quitting, stopped>>
threads == <<supervisor, quitter, exiting, stopping>>
widgetVars == <<hostVars, app, services, threads, joined, closedAt>>

\* Mutant: no time for both waits of the hub.
HubStopTooSoon == DrainWait

\* HUB_STOP_TIMEOUT: a second more than the hub's own two waits (8 = 2 + 5 + 1).
HubStopTimeout == FlushWait + DrainWait + 1

-----------------------------------------------------------------------------
(* Launch *)

WidgetInit ==
  /\ HostInit
  /\ app = IF host = "widget" THEN "launching" ELSE "absent"
  /\ hubTx = FALSE /\ hubError = FALSE /\ edgeTx = FALSE /\ edgeAsked = FALSE
  /\ quitting = FALSE /\ stopped = FALSE
  /\ supervisor = "none" /\ quitter = "none" /\ exiting = FALSE /\ stopping = "no"
  /\ joined = 0 /\ closedAt = -1

\* main: attach to a hub that answers; else start one, with the configuration read
\* before (an invalid file means no hub), and the edge's supervisor in any case.
Launch ==
  /\ app = "launching"
  /\ app' = "up"
  /\ \E external, wantHub, wantEdge, configured \in BOOLEAN :
       LET own == ~ external /\ wantHub /\ configured
       IN  /\ phase' = IF own THEN "checking" ELSE phase
           /\ hubTx' = own
           /\ hubError' = (~ external /\ wantHub /\ ~ configured)
           /\ supervisor' = IF wantEdge /\ ~ external /\ wantHub THEN "check" ELSE "none"
  /\ UNCHANGED <<host, registered, starts, outcome, reported, asked, serving, data, clock,
                 edgeTx, edgeAsked, quitting, stopped, quitter, exiting, stopping,
                 joined, closedAt>>

\* spawn_hub's thread ends with run_with_shutdown, and keeps its error.
HubThreadEnds ==
  /\ host = "widget" /\ phase = "returned"
  /\ Gone
  /\ hubError' = (hubError \/ outcome = "error")
  /\ UNCHANGED <<outcome, reported, app, hubTx, edgeTx, edgeAsked, quitting, stopped,
                 threads, joined, closedAt>>

-----------------------------------------------------------------------------
(* The supervisor of the edge: spawn_edge_supervisor *)

Supervise(from, to) ==
  /\ supervisor = from
  /\ supervisor' = to
  /\ UNCHANGED <<hostVars, app, quitter, exiting, stopping, joined, closedAt>>

\* The top of its loop, and the end of each pause, look at `quitting`.
SupervisorLooks ==
  /\ \/ ~ quitting /\ (Supervise("check", "asking") \/ Supervise("pause", "check"))
     \/ quitting /\ (Supervise("check", "returned") \/ Supervise("pause", "returned"))
  /\ UNCHANGED services

\* hub_answers takes up to 800 ms: the answer may be of a hub that is stopping since.
SupervisorAsks ==
  /\ \/ phase = "serving" /\ Supervise("asking", "answered")
     \/ Supervise("asking", "pause")
  /\ UNCHANGED services

\* It arms a new stop sender and runs the edge, without looking again.
EdgeStarts ==
  /\ Supervise("answered", "running")
  /\ edgeTx' = TRUE /\ edgeAsked' = FALSE
  /\ UNCHANGED <<hubTx, hubError, quitting, stopped>>

\* The edge ends: it was asked to, or it returned or panicked by itself.
EdgeStopsAsAsked == edgeAsked /\ Supervise("running", "ended") /\ UNCHANGED services
EdgeFails == Supervise("running", "ended") /\ UNCHANGED services

SupervisorResumes ==
  \/ quitting /\ Supervise("ended", "returned") /\ UNCHANGED services
  \/ /\ ~ quitting /\ Supervise("ended", "pause")
     /\ edgeTx' = FALSE
     /\ UNCHANGED <<hubTx, hubError, edgeAsked, quitting, stopped>>

-----------------------------------------------------------------------------
(* Leaving *)

\* shutdown_services is entered: by whoever comes first.
Enter ==
  /\ quitting' = TRUE /\ stopped' = TRUE
  /\ stopping' = IF stopped THEN stopping ELSE "edge"

\* request_quit (tray menu or the window): hides the window, stops in the background.
RequestQuit ==
  /\ app = "up" /\ ~ quitting /\ ~ exiting
  /\ quitting' = TRUE /\ quitter' = "started"
  /\ UNCHANGED <<hostVars, app, hubTx, hubError, edgeTx, edgeAsked, stopped, supervisor,
                 exiting, stopping, joined, closedAt>>

QuitterStops ==
  /\ app = "up" /\ quitter = "started"
  /\ quitter' = IF stopped THEN "idle" ELSE "stopping"
  /\ Enter
  /\ UNCHANGED <<hostVars, app, hubTx, hubError, edgeTx, edgeAsked, supervisor, exiting,
                 joined, closedAt>>

\* The event loop ends for another reason (window closed, session end) and runs
\* shutdown_services itself, which returns at once when the quitter is in it.
ExitEvent ==
  /\ app = "up" /\ ~ exiting
  /\ exiting' = TRUE
  /\ Enter
  /\ UNCHANGED <<hostVars, app, hubTx, hubError, edgeTx, edgeAsked, supervisor, quitter,
                 joined, closedAt>>

StopEdge ==
  /\ app = "up" /\ stopping = "edge"
  /\ edgeAsked' = (edgeAsked \/ edgeTx) /\ edgeTx' = FALSE
  /\ stopping' = "join edge" /\ joined' = 0
  /\ UNCHANGED <<hostVars, app, hubTx, hubError, quitting, stopped, supervisor, quitter,
                 exiting, closedAt>>

EdgeThreadDone == supervisor \in {"none", "returned"}

\* Mutant: the edge's thread is joined without a limit.
JoinEdgeForever ==
  /\ app = "up" /\ stopping = "join edge"
  /\ EdgeThreadDone
  /\ stopping' = "hub" /\ joined' = 0
  /\ UNCHANGED <<hostVars, app, services, supervisor, quitter, exiting, closedAt>>

\* join_with_timeout: the edge's thread ended, or its four seconds are over.
JoinEdge ==
  /\ app = "up" /\ stopping = "join edge"
  /\ EdgeThreadDone \/ joined >= EdgeStopTimeout
  /\ stopping' = "hub" /\ joined' = 0
  /\ UNCHANGED <<hostVars, app, services, supervisor, quitter, exiting, closedAt>>

StopHub ==
  /\ app = "up" /\ stopping = "hub"
  /\ asked' = (asked \/ hubTx) /\ hubTx' = FALSE
  /\ stopping' = "join hub"
  /\ UNCHANGED <<host, registered, starts, phase, outcome, reported, serving, data, clock,
                 app, hubError, edgeTx, edgeAsked, quitting, stopped, supervisor, quitter,
                 exiting, joined, closedAt>>

JoinHub ==
  /\ app = "up" /\ stopping = "join hub"
  /\ phase = "down" \/ joined >= HubStopTimeout
  /\ stopping' = "done"
  /\ UNCHANGED <<hostVars, app, services, supervisor, quitter, exiting, joined, closedAt>>

\* The process exits after its Exit event: at once when shutdown_services was
\* already somebody else's, or after stopping (the quitter calls app.exit(0)).
\* A hub that still runs is cut off.
Exit ==
  /\ app = "up"
  /\ stopping = "done" \/ (exiting /\ quitter = "stopping")
  /\ app' = "gone" /\ supervisor' = "gone"
  /\ outcome' = IF phase \in {"down", "returned"} THEN outcome ELSE "killed"
  /\ Gone
  /\ UNCHANGED <<reported, services, quitter, exiting, stopping, joined, closedAt>>

JoinLimit == CASE stopping = "join edge" -> EdgeStopTimeout
               [] stopping = "join hub" -> HubStopTimeout
               [] OTHER -> 0

\* A second passes for every wait; one that is over ends first.
WidgetTick ==
  /\ app = "up"
  /\ Limit > 0 => waited < Limit
  /\ JoinLimit > 0 => joined < JoinLimit
  /\ Limit > 0 \/ JoinLimit > 0
  /\ waited' = IF Limit > 0 THEN waited + 1 ELSE waited
  /\ joined' = IF JoinLimit > 0 THEN joined + 1 ELSE joined
  /\ UNCHANGED <<process, serving, data, late, app, services, threads, closedAt>>

-----------------------------------------------------------------------------
ThreadsRun == SupervisorLooks \/ SupervisorAsks \/ EdgeStarts \/ EdgeStopsAsAsked
                \/ SupervisorResumes
Supervisor == ThreadsRun \/ EdgeFails
Leave == QuitterStops \/ StopEdge \/ JoinEdge \/ StopHub \/ JoinHub \/ Exit

\* A step of the hub, whoever hosts it; the widget's join sees its server close.
Apart == UNCHANGED <<app, services, threads, joined, closedAt>>
Closes ==
  /\ CloseEnds
  /\ closedAt' = IF host = "widget" THEN joined ELSE closedAt
  /\ UNCHANGED <<app, services, threads, joined>>
HubStep == (Startup \/ Edges \/ Requests \/ Manager \/ WriterRuns \/ Stops) /\ Apart
OtherHostStep == host # "widget" /\ (Operators \/ EndProcess \/ Tick) /\ Apart
WidgetStep == app \notin {"absent", "gone"} /\
  (Launch \/ HubThreadEnds \/ Supervisor \/ RequestQuit \/ ExitEvent \/ Leave \/ WidgetTick)

WidgetNext == HubStep \/ Closes \/ OtherHostStep \/ WidgetStep

\* The threads run, an edge that is asked to stop does, and time passes.
WidgetFairness ==
  /\ WF_widgetVars(Startup /\ Apart) /\ WF_widgetVars(Stops /\ Apart) /\ WF_widgetVars(Closes)
  /\ WF_widgetVars(RequestEnds /\ Apart)
  /\ WF_widgetVars(host # "widget" /\ (EndProcess \/ Tick) /\ Apart)
  /\ WF_widgetVars(ThreadsRun) /\ WF_widgetVars(Leave)
  /\ WF_widgetVars(WidgetTick) /\ WF_widgetVars(HubThreadEnds)

WidgetSpec == WidgetInit /\ [][WidgetNext]_widgetVars /\ WidgetFairness

-----------------------------------------------------------------------------
(* Properties *)

\* The widget leaves the hub time to write: when it stopped its services to the end
\* and the hub's server closed at once, the hub is not cut off, though its two waits
\* may both run out.
ExitWaitsForHub ==
  app = "gone" /\ stopping = "done" /\ closedAt = 0 => outcome # "killed"

\* A stop loses nothing, under every host: both of the above.
StopLosesNothing == StopKeepsMetrics /\ ExitWaitsForHub

\* Whoever asks the widget to leave, it leaves: also when the supervisor started an
\* edge after shutdown_services had looked for one to stop.
QuitEnds == quitting ~> app = "gone"
StopsEnd == StopHonoured /\ QuitEnds
=============================================================================
