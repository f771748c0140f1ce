---------------------------- MODULE DeviceManager ----------------------------
(***************************************************************************)
(* The edge's device manager (nimon-edge, actor/device_manager.rs): one    *)
(* timer, two blocking jobs (NI-SysCfg sweep, NI-VISA scan) that may hang, *)
(* the devices they find, and what of it reaches the hub connector:        *)
(* statuses and removals through the prediction actor's mailbox, alerts    *)
(* and resent snapshots directly.                                          *)
(*                                                                         *)
(* A sweep result maps the ids it lists to readings.  Sweep numbers are    *)
(* abstracted: last_seen_sweep is compared with the number of the sweep in *)
(* hand, so a device it does not list is taken for listed only when the    *)
(* other discovery saw it last and the numbers coincide, a choice here.    *)
(* Manager and prediction actor share a thread whose tasks run in the      *)
(* order they are woken: what was posted before a job started is forwarded *)
(* before its result is applied (a job's lag).  Elapsed time is a choice   *)
(* of each tick; logs, metrics, system info and error totals are left out. *)
(***************************************************************************)
EXTENDS Integers, Sequences, FiniteSets, SequencesExt

CONSTANTS
  Ids,            \* device ids
  SysCfgIds,      \* those NI-SysCfg can list
  VisaIds,        \* those NI-VISA can list
  SimulatedIds,   \* the two simulated devices
  ManualIds,      \* bound: those added and removed by message
  Readings,       \* health readings: [reachable, fault, temperature]
  Configs,        \* bound: threshold pushes: pairs of an Option each
  RemovalSweeps,  \* removal_sweeps
  MaxQueue        \* bound: the prediction actor's mailbox

NoTemperature == -1
None == -2

ASSUME ManagerAssumption ==
  /\ SysCfgIds \cup VisaIds \cup SimulatedIds \cup ManualIds \subseteq Ids
  /\ IsFiniteSet(Ids)
  /\ Readings \subseteq [reachable : BOOLEAN, fault : BOOLEAN, temperature : Int]
  /\ Configs \subseteq [warning : Int, critical : Int]
  /\ RemovalSweeps \in Nat \ {0} /\ MaxQueue \in Nat

VARIABLES
  life,          \* "new", "running" or "stopped"
  settings,      \* [syscfg, visa]: which discoveries are enabled
  mode,          \* Mode
  devices,       \* the tracked devices
  registry,      \* the DeviceRegistry shared with the action runtime
  thresholds,    \* the current Thresholds
  armed,         \* sweep_handle is some timer
  jobs,          \* the two jobs: [phase, lag]
  sessionOpen,   \* the SysCfgSession is open
  health,        \* SourceHealth of both sources: [failing, alerted]
  reported,      \* last_reported: device count and degraded reasons
  mailbox,       \* of the prediction actor
  predictor,     \* the prediction actor: [thresholds, models]
  hubView,       \* the last the connector was told about a device
  hubAlerts,     \* devices whose latest alert says unreachable
  hubWarnings    \* edge alerts raised and not taken back

manager == <<mode, devices, registry, thresholds, armed, jobs, sessionOpen, health,
             reported>>
hub == <<hubView, hubAlerts, hubWarnings>>
vars == <<life, settings, manager, mailbox, predictor, hub>>

Modes == {"pending", "hardware", "simulated", "idle"}
Jobs == {"syscfg", "visa"}
Sources == Jobs \cup {"simulated", "manual"}
Statuses == {"healthy", "warning", "error", "offline"}

Untracked == [source |-> "none", last |-> "none", seen |-> "none", missed |-> 0,
              ever |-> FALSE, alerted |-> FALSE]
Tracked == {d \in Ids : devices[d].source # "none"}

-----------------------------------------------------------------------------
(* Classification, devices.rs *)

Classify(r, th) ==
  CASE ~r.reachable -> "offline"
    [] r.reachable /\ r.fault -> "error"
    [] r.reachable /\ ~r.fault /\ r.temperature >= th.critical -> "error"
    [] r.reachable /\ ~r.fault /\ r.temperature < th.critical
         /\ r.temperature >= th.warning -> "warning"
    [] OTHER -> "healthy"

StatusFromHealth(listing) ==
  [d \in DOMAIN listing |->
     [status |-> Classify(listing[d], thresholds),
      temperature |-> listing[d].temperature # NoTemperature]]

\* A probed instrument is healthy or offline; one only listed is healthy.
VisaStatus(listing) ==
  [d \in DOMAIN listing |->
     [status |-> IF listing[d] THEN "healthy" ELSE "offline", temperature |-> FALSE]]

Listings(ids, readings) == UNION {[S -> readings] : S \in SUBSET ids}

-----------------------------------------------------------------------------
(* What reaches the connector and the prediction actor *)

StatusOf(d, u) == [kind |-> "status", device |-> d, status |-> u.status,
                   temperature |-> u.temperature]
Removal(d) == [kind |-> "removed", device |-> d]
NewThresholds(th) == [kind |-> "thresholds", to |-> th]

\* The order among devices plays no role: a message is about one of them.
Post(updates, removed) ==
  LET ids == SetToSeq(DOMAIN updates)
      gone == SetToSeq(removed)
  IN  /\ Len(mailbox) + Len(ids) + Len(gone) <= MaxQueue
      /\ mailbox' = mailbox \o [i \in 1 .. Len(ids) |-> StatusOf(ids[i], updates[ids[i]])]
                            \o [i \in 1 .. Len(gone) |-> Removal(gone[i])]

Warned(t, status) == status = "offline" /\ t.ever /\ ~t.alerted
Cleared(t, status) == status # "offline" /\ t.alerted

Recorded(t, status) ==
  [t EXCEPT !.last = status,
            !.alerted = status = "offline" /\ (t.ever \/ t.alerted),
            !.ever = @ \/ status # "offline"]

\* record_status for every device of updates, whose records so far are ts.
AlertAbout(ts, updates) ==
  hubAlerts' = (hubAlerts \cup {d \in DOMAIN updates : Warned(ts[d], updates[d].status)})
                 \ {d \in DOMAIN updates : Cleared(ts[d], updates[d].status)}

DegradedReasons(js, m, hs) ==
  (CASE js["syscfg"].phase = "stalled" -> {"syscfg hung"}
     [] js["syscfg"].phase # "stalled" /\ m = "simulated" -> {"simulated"}
     [] js["syscfg"].phase # "stalled" /\ m # "simulated" /\ hs["syscfg"].failing
          -> {"syscfg failing"}
     [] OTHER -> {})
  \cup (CASE js["visa"].phase = "stalled" -> {"visa hung"}
          [] js["visa"].phase # "stalled" /\ hs["visa"].failing -> {"visa failing"}
          [] OTHER -> {})

Current == [count |-> Cardinality(Tracked),
            degraded |-> DegradedReasons(jobs, mode, health)]

\* Sends to the connector unless it was told the same before.
NotifyEdgeStatus == reported' = Current'

-----------------------------------------------------------------------------
(* Timer and jobs *)

Running(j) == jobs[j].phase # "idle"
Started(j) == [phase |-> "running", lag |-> Len(mailbox')]

Overdue == {j \in Jobs : jobs[j].phase = "running"}

\* Mutant: no timer until the first sweep has shown hardware.
TickIntervalKnown(m) == m \in {"hardware", "simulated"} \/ settings.visa

TickInterval(m) == m # "idle" \/ settings.visa

Init ==
  /\ life = "new"
  /\ settings \in [syscfg : BOOLEAN, visa : BOOLEAN]
  /\ mode = "pending"
  /\ devices = [d \in Ids |-> Untracked]
  /\ registry = [d \in Ids |-> "none"]
  /\ thresholds = [warning |-> 1, critical |-> 2]
  /\ armed = FALSE
  /\ jobs = [j \in Jobs |-> [phase |-> "idle", lag |-> 0]]
  /\ sessionOpen = FALSE
  /\ health = [j \in Jobs |-> [failing |-> FALSE, alerted |-> FALSE]]
  /\ reported = [count |-> 0, degraded |-> {}]
  /\ mailbox = << >>
  /\ predictor = [thresholds |-> thresholds, models |-> {}]
  /\ hubView = [d \in Ids |-> "unknown"]
  /\ hubAlerts = {} /\ hubWarnings = {}

WantsSysCfg(m) == m \in {"pending", "hardware"}

\* The start of the actor: the mode, the timer, and the first tick, at once.
Start ==
  /\ life = "new" /\ life' = "running"
  /\ mode' = IF settings.syscfg THEN "pending" ELSE "idle"
  /\ armed' = TickInterval(mode')
  /\ mailbox' = mailbox
  /\ jobs' = [jobs EXCEPT !["syscfg"] = IF WantsSysCfg(mode') THEN Started("syscfg") ELSE @,
                          !["visa"] = IF settings.visa THEN Started("visa") ELSE @]
  /\ UNCHANGED <<settings, devices, registry, thresholds, sessionOpen, health,
                 predictor, hub>>
  /\ NotifyEdgeStatus

\* tick: overdue are the jobs past their stall limit, due tells whether a VISA
\* scan is due, temperatures are the samples of the simulated devices.
Tick(overdue, due, temperatures) ==
  LET simulated == {d \in SimulatedIds : mode = "simulated" /\ devices[d].source = "simulated"}
      updates == StatusFromHealth([d \in simulated |-> temperatures[d]])
      starting == {j \in Jobs : /\ ~Running(j)
                                /\ j = "syscfg" => WantsSysCfg(mode)
                                /\ j = "visa" => settings.visa /\ due}
  IN  /\ life = "running"
      /\ Post(updates, {})
      /\ devices' = [d \in Ids |-> IF d \in simulated
                                     THEN Recorded(devices[d], updates[d].status)
                                     ELSE devices[d]]
      /\ AlertAbout(devices, updates)
      /\ hubWarnings' = hubWarnings \cup {<<j, "hung">> : j \in overdue}
      /\ jobs' = [j \in Jobs |-> CASE j \in overdue -> [jobs[j] EXCEPT !.phase = "stalled"]
                                   [] j \in starting -> Started(j)
                                   [] OTHER -> jobs[j]]
      /\ UNCHANGED <<life, settings, mode, registry, thresholds, armed, sessionOpen,
                     health, predictor, hubView>>
      /\ IF overdue # {} THEN NotifyEdgeStatus ELSE UNCHANGED reported

\* Samples of the random walk of the simulated devices: always reachable.
Samples == [SimulatedIds -> {r \in Readings : r.reachable /\ ~r.fault /\ r.temperature # NoTemperature}]

\* Of the timer or of PollAllDevices, which finds nothing to do when there is
\* no timer.
TimerTick ==
  /\ armed
  /\ \E overdue \in SUBSET Overdue, t \in Samples,
        due \in IF Running("visa") \/ ~settings.visa THEN {FALSE} ELSE BOOLEAN :
       Tick(overdue, due, t)

-----------------------------------------------------------------------------
(* Results of the jobs *)

\* finish_syscfg_job and finish_visa_job take the job and what was said of it.
Finish(j) ==
  /\ life = "running" /\ Running(j) /\ jobs[j].lag = 0
  /\ jobs' = [jobs EXCEPT ![j].phase = "idle"]

OnFailure(j) ==
  /\ health' = [health EXCEPT ![j] = [failing |-> TRUE, alerted |-> TRUE]]
  /\ hubWarnings' = (hubWarnings \ {<<j, "hung">>})
                      \cup (IF health[j].alerted THEN {} ELSE {<<j, "failing">>})

OnSuccess(j) ==
  /\ health' = [health EXCEPT ![j] = [failing |-> FALSE, alerted |-> FALSE]]
  /\ hubWarnings' = hubWarnings \ ({<<j, "hung">>}
                      \cup (IF health[j].alerted THEN {<<j, "failing">>} ELSE {}))

\* Mutant: a device the other discovery found first is added anew.
RefreshedAnew(d, j) ==
  [(IF devices[d].source = j THEN devices[d] ELSE [Untracked EXCEPT !.source = j])
     EXCEPT !.seen = j, !.missed = 0]

Refreshed(d, j) ==
  [(IF d \in Tracked THEN devices[d] ELSE [Untracked EXCEPT !.source = j])
     EXCEPT !.seen = j, !.missed = 0]

Missing(j, listed, same) == {d \in Tracked : devices[d].source = j} \ (listed \cup same)
Expired(j, listed, same) ==
  {d \in Missing(j, listed, same) : devices[d].missed + 1 >= RemovalSweeps}

SeenElsewhere(j) ==
  {d \in Tracked : devices[d].source = j /\ devices[d].seen \notin {j, "none"}}

\* apply_syscfg, apply_visa: same are devices of the source whose number, given
\* by the other discovery, is the number of this sweep.
Apply(j, updates, same) ==
  LET listed == DOMAIN updates
      missing == Missing(j, listed, same)
      gone == Expired(j, listed, same)
      seen == [d \in listed |-> Refreshed(d, j)]
  IN  /\ devices' = [d \in Ids |-> CASE d \in listed -> Recorded(seen[d], updates[d].status)
                                     [] d \in gone -> Untracked
                                     [] d \in missing \ gone -> [devices[d] EXCEPT !.missed = @ + 1]
                                     [] OTHER -> devices[d]]
      /\ registry' = [d \in Ids |-> CASE d \in gone -> "none"
                                      [] d \in listed \ Tracked -> j
                                      [] OTHER -> registry[d]]
      /\ AlertAbout(seen, updates)
      /\ Post(updates, gone)

SweepOk ==
  /\ Finish("syscfg") /\ OnSuccess("syscfg")
  /\ sessionOpen' = TRUE
  /\ mode' = IF mode = "pending" THEN "hardware" ELSE mode
  /\ \E listing \in Listings(SysCfgIds, Readings), same \in SUBSET SeenElsewhere("syscfg") :
       Apply("syscfg", StatusFromHealth(listing), same)
  /\ UNCHANGED <<life, settings, thresholds, armed, predictor, hubView>>
  /\ NotifyEdgeStatus

\* No session could be opened.  At the first sweep simulated devices take over,
\* for good: nothing looks for hardware afterwards.
SweepUnavailable ==
  LET new == SimulatedIds \ Tracked IN
  /\ Finish("syscfg") /\ OnFailure("syscfg")
  /\ ~sessionOpen
  /\ IF mode = "pending"
       THEN /\ mode' = "simulated"
            /\ devices' = [d \in Ids |-> IF d \in new
                             THEN [Untracked EXCEPT !.source = "simulated"] ELSE devices[d]]
            /\ registry' = [d \in Ids |-> IF d \in new THEN "simulated" ELSE registry[d]]
            /\ armed' = TickInterval(mode')
       ELSE UNCHANGED <<mode, devices, registry, armed>>
  /\ UNCHANGED <<life, settings, thresholds, sessionOpen, mailbox, predictor,
                 hubView, hubAlerts>>
  /\ NotifyEdgeStatus

\* The session is open, the enumeration failed: the devices stay as they are.
SweepFailed ==
  /\ Finish("syscfg") /\ OnFailure("syscfg")
  /\ sessionOpen' = TRUE
  /\ UNCHANGED <<life, settings, mode, devices, registry, thresholds, armed,
                 mailbox, predictor, hubView, hubAlerts>>
  /\ NotifyEdgeStatus

\* Mutant: a panic returns before the edge status is reported.
JobPanickedSilent(j) ==
  /\ Finish(j)
  /\ hubWarnings' = hubWarnings \ {<<j, "hung">>}
  /\ UNCHANGED <<life, settings, mode, devices, registry, thresholds, armed, reported,
                 sessionOpen, health, mailbox, predictor, hubView, hubAlerts>>

\* A job panicked: neither success nor failure.
JobPanicked(j) ==
  /\ Finish(j)
  /\ hubWarnings' = hubWarnings \ {<<j, "hung">>}
  /\ UNCHANGED <<life, settings, mode, devices, registry, thresholds, armed,
                 sessionOpen, health, mailbox, predictor, hubView, hubAlerts>>
  /\ NotifyEdgeStatus

ScanOk ==
  /\ Finish("visa") /\ OnSuccess("visa")
  /\ \E listing \in Listings(VisaIds, BOOLEAN), same \in SUBSET SeenElsewhere("visa") :
       Apply("visa", VisaStatus(listing), same)
  /\ UNCHANGED <<life, settings, mode, thresholds, armed, sessionOpen, predictor, hubView>>
  /\ NotifyEdgeStatus

ScanFailed ==
  /\ Finish("visa") /\ OnFailure("visa")
  /\ UNCHANGED <<life, settings, mode, devices, registry, thresholds, armed,
                 sessionOpen, mailbox, predictor, hubView, hubAlerts>>
  /\ NotifyEdgeStatus

JobReturns ==
  \/ SweepOk \/ SweepUnavailable \/ SweepFailed \/ ScanOk \/ ScanFailed
  \/ \E j \in Jobs : JobPanicked(j)

-----------------------------------------------------------------------------
(* Messages to the manager *)

AddDevice(d) ==
  /\ life = "running" /\ d \notin Tracked
  /\ devices' = [devices EXCEPT ![d] = [Untracked EXCEPT !.source = "manual"]]
  /\ registry' = [registry EXCEPT ![d] = "manual"]
  /\ UNCHANGED <<life, settings, mode, thresholds, armed, jobs, sessionOpen, health,
                 mailbox, predictor, hub>>
  /\ NotifyEdgeStatus

\* Mutant: the registry keeps a removed device.
RemoveDeviceOnly(d) ==
  /\ life = "running" /\ d \in Tracked
  /\ devices' = [devices EXCEPT ![d] = Untracked]
  /\ Post(<< >>, {d})
  /\ UNCHANGED <<life, settings, mode, registry, thresholds, armed, jobs, sessionOpen,
                 health, predictor, hub>>
  /\ NotifyEdgeStatus

RemoveDevice(d) ==
  /\ life = "running" /\ d \in Tracked
  /\ devices' = [devices EXCEPT ![d] = Untracked]
  /\ registry' = [registry EXCEPT ![d] = "none"]
  /\ Post(<< >>, {d})
  /\ UNCHANGED <<life, settings, mode, thresholds, armed, jobs, sessionOpen, health,
                 predictor, hub>>
  /\ NotifyEdgeStatus

\* ApplyConfig.  A new interval re-arms the timer, which stays armed or not.
Resolve(config, th) ==
  [warning |-> IF config.warning = None THEN th.warning ELSE config.warning,
   critical |-> IF config.critical = None THEN th.critical ELSE config.critical]

ApplyConfig(config) ==
  LET th == Resolve(config, thresholds) IN
  /\ life = "running"
  /\ th.warning < th.critical /\ th # thresholds
  /\ Len(mailbox) < MaxQueue
  /\ thresholds' = th
  /\ mailbox' = Append(mailbox, NewThresholds(th))
  /\ UNCHANGED <<life, settings, mode, devices, registry, armed, jobs, sessionOpen,
                 health, reported, predictor, hub>>

\* The snapshots go straight to the connector, past the mailbox.
ResendState ==
  /\ life = "running"
  /\ hubView' = [d \in Ids |-> IF devices[d].last # "none" THEN devices[d].last
                                                           ELSE hubView[d]]
  /\ reported' = Current
  /\ UNCHANGED <<life, settings, mode, devices, registry, thresholds, armed, jobs,
                 sessionOpen, health, mailbox, predictor, hubAlerts, hubWarnings>>

\* The process ends right after: what its actors hold is dropped.
StopDeviceManager ==
  /\ life = "running" /\ life' = "stopped"
  /\ armed' = FALSE
  /\ jobs' = [j \in Jobs |-> [phase |-> "idle", lag |-> 0]]
  /\ devices' = [d \in Ids |-> Untracked]
  /\ registry' = [d \in Ids |-> "none"]
  /\ mailbox' = << >>
  /\ hubView' = [d \in Ids |-> "unknown"]
  /\ hubAlerts' = {} /\ hubWarnings' = {}
  /\ predictor' = [thresholds |-> thresholds, models |-> {}]
  /\ UNCHANGED <<settings, mode, thresholds, sessionOpen, health, reported>>

-----------------------------------------------------------------------------
(* The prediction actor, actor/prediction_actor.rs *)

\* Mutant: removals go past the prediction actor's models.
ForwardKeepingModels ==
  /\ mailbox # << >>
  /\ mailbox' = Tail(mailbox)
  /\ jobs' = [j \in Jobs |-> [jobs[j] EXCEPT !.lag = IF @ = 0 THEN 0 ELSE @ - 1]]
  /\ LET msg == Head(mailbox) IN
       \/ /\ msg.kind = "status"
          /\ hubView' = [hubView EXCEPT ![msg.device] = msg.status]
          /\ predictor' = IF msg.temperature
                            THEN [predictor EXCEPT !.models = @ \cup {msg.device}]
                            ELSE predictor
          /\ hubAlerts' = hubAlerts
       \/ /\ msg.kind = "removed"
          /\ hubView' = [hubView EXCEPT ![msg.device] = "removed"]
          /\ hubAlerts' = hubAlerts \ {msg.device}
          /\ UNCHANGED predictor
       \/ /\ msg.kind = "thresholds"
          /\ predictor' = [predictor EXCEPT !.thresholds = msg.to]
          /\ UNCHANGED <<hubView, hubAlerts>>
  /\ UNCHANGED <<life, settings, mode, devices, registry, thresholds, armed,
                 sessionOpen, health, reported, hubWarnings>>

Forward ==
  /\ mailbox # << >>
  /\ mailbox' = Tail(mailbox)
  /\ jobs' = [j \in Jobs |-> [jobs[j] EXCEPT !.lag = IF @ = 0 THEN 0 ELSE @ - 1]]
  /\ LET msg == Head(mailbox) IN
       \/ /\ msg.kind = "status"
          /\ hubView' = [hubView EXCEPT ![msg.device] = msg.status]
          /\ hubAlerts' = hubAlerts
          /\ predictor' = IF msg.temperature
                            THEN [predictor EXCEPT !.models = @ \cup {msg.device}]
                            ELSE predictor
       \/ /\ msg.kind = "removed"
          /\ hubView' = [hubView EXCEPT ![msg.device] = "removed"]
          /\ hubAlerts' = hubAlerts \ {msg.device}
          /\ predictor' = [predictor EXCEPT !.models = @ \ {msg.device}]
       \/ /\ msg.kind = "thresholds"
          /\ predictor' = [predictor EXCEPT !.thresholds = msg.to]
          /\ UNCHANGED <<hubView, hubAlerts>>
  /\ UNCHANGED <<life, settings, mode, devices, registry, thresholds, armed,
                 sessionOpen, health, reported, hubWarnings>>

Next ==
  \/ Start \/ TimerTick \/ JobReturns
  \/ \E d \in ManualIds : AddDevice(d) \/ RemoveDevice(d)
  \/ \E config \in Configs : ApplyConfig(config)
  \/ ResendState \/ StopDeviceManager
  \/ Forward

\* The timer fires as long as it is armed and sees a job past its limit in the
\* end; the prediction actor handles its mailbox.  Nothing says a job returns.
Fairness ==
  /\ WF_vars(armed /\ \E t \in Samples : Tick(Overdue, TRUE, t))
  /\ WF_vars(Forward)

Spec == Init /\ [][Next]_vars /\ Fairness

-----------------------------------------------------------------------------
(* Properties *)

Messages ==
  [kind : {"status"}, device : Ids, status : Statuses, temperature : BOOLEAN]
    \cup [kind : {"removed"}, device : Ids]
    \cup [kind : {"thresholds"}, to : [warning : Int, critical : Int]]

TypeOK ==
  /\ life \in {"new", "running", "stopped"} /\ mode \in Modes
  /\ settings \in [syscfg : BOOLEAN, visa : BOOLEAN]
  /\ devices \in [Ids -> [source : Sources \cup {"none"}, last : Statuses \cup {"none"},
                          seen : Jobs \cup {"none"}, missed : 0 .. RemovalSweeps - 1,
                          ever : BOOLEAN, alerted : BOOLEAN]]
  /\ registry \in [Ids -> Sources \cup {"none"}]
  /\ thresholds \in [warning : Int, critical : Int]
  /\ armed \in BOOLEAN /\ sessionOpen \in BOOLEAN
  /\ jobs \in [Jobs -> [phase : {"idle", "running", "stalled"}, lag : Nat]]
  /\ health \in [Jobs -> [failing : BOOLEAN, alerted : BOOLEAN]]
  /\ mailbox \in Seq(Messages)
  /\ predictor \in [thresholds : [warning : Int, critical : Int], models : SUBSET Ids]
  /\ hubView \in [Ids -> Statuses \cup {"unknown", "removed"}]
  /\ hubAlerts \subseteq Ids /\ hubWarnings \subseteq Jobs \X {"hung", "failing"}

\* What the connector will have heard of d last, once it is told what waits.
IsAbout(msg, d) == msg.kind # "thresholds" /\ msg.device = d
About(d) == {i \in 1 .. Len(mailbox) : IsAbout(mailbox[i], d)}
Said(msg) == IF msg.kind = "status" THEN msg.status ELSE "removed"
View(d) == IF About(d) = {} THEN hubView[d] ELSE Said(mailbox[Max(About(d))])

RemovalQueued(d) == \E i \in 1 .. Len(mailbox) : mailbox[i] = Removal(d)

\* What the connector hears of a device through the prediction actor ends with
\* its latest status or, when it is no longer tracked, with its removal, although
\* resent snapshots overtake the mailbox; once that is empty the models are those
\* of tracked devices and have the manager's thresholds.  The action runtime can
\* act on exactly the tracked devices all the while.
DownstreamAgrees ==
  /\ \A d \in Ids : IF devices[d].last # "none" THEN View(d) = devices[d].last
                                               ELSE View(d) \in {"unknown", "removed"}
  /\ mailbox = << >> => /\ predictor.models \subseteq Tracked
                        /\ predictor.thresholds = thresholds
  /\ \A d \in Ids : registry[d] = devices[d].source

\* The hub holds an unreachable alert exactly for the devices that are marked
\* so, except while a removal is on its way: alerts do not queue behind statuses,
\* and yet no removal takes back the alert of a device that was found again.
AlertsAgree ==
  \A d \in Ids : RemovalQueued(d) \/ (d \in hubAlerts <=> devices[d].alerted)

\* Between two handlers the connector knows the device count and the reasons for
\* being degraded, and the warnings raised and not taken back are those of hung
\* jobs and failing discoveries.
EdgeReported ==
  life = "running" =>
    /\ reported = Current
    /\ hubWarnings = {w \in Jobs \X {"hung", "failing"} :
                        IF w[2] = "hung" THEN jobs[w[1]].phase = "stalled"
                                         ELSE health[w[1]].alerted}

\* What the hub was told of devices and discoveries follows what the manager
\* found: both of the above.
ReportsAgree == AlertsAgree /\ EdgeReported

\* Sweeps go on, or the hub is told that one hangs: while hardware is looked for,
\* the pause between two sweeps ends, and a sweep returns or is reported.
Pausing == life = "running" /\ WantsSysCfg(mode) /\ ~Running("syscfg")
HangsUnnoticed == Running("syscfg") /\ "syscfg hung" \notin reported.degraded
Monitored == []<>~Pausing /\ []<>~HangsUnnoticed
=============================================================================
