----------------------------- MODULE EdgeActions -----------------------------
(***************************************************************************)
(* Remediation actions on an edge (nimon-edge, action.rs), from the hub's  *)
(* execute_action to the answer the connector sends, while the device      *)
(* manager adds and drops devices in the shared registry.                  *)
(*                                                                         *)
(* A request is a record: its device, whether the id is the full one       *)
(* (edge-id:local) or the local name, the type and the parameters.  Every  *)
(* await is a step.  Time passes in ticks, no timer fires late, and the    *)
(* moment at which a timer fires may bring the awaited result as well.     *)
(* Only the end of a killed script has no time limit.  Services are        *)
(* restarted as on Windows (sc stop, sc start); a service has no life of   *)
(* its own.  Output, exit codes and names as text are left out.            *)
(***************************************************************************)
EXTENDS Integers, Sequences, FiniteSets

CONSTANTS
  Requests,         \* requests: names of them
  Request,          \* the request of a name
  Devices,          \* local names of devices
  Becomes,          \* bound: what the registry's entry of each may become
  Services, Scripts,
  AllowedServices, AllowedScripts, DaqmxEnabled,  \* the edge's configuration
  MaxConcurrent,    \* max_concurrent
  Timeout,          \* timeout_secs, in ticks
  KillTimeout,      \* limit of kill_process_tree, in ticks
  MaxReap,          \* bound: ticks the system takes to end a killed script
  Grace             \* READER_GRACE, in ticks

Types == {"power_cycle", "reset_driver", "restart_services", "custom_script"}
Entries == {"named", "other"}  \* other: simulated, or without a DAQmx name
NoKey == <<"none", "none">>
Keys == {"full", "local"} \X Devices

ASSUME ActionsAssumption ==
  /\ IsFiniteSet(Requests)
  /\ Request \in [Requests -> [device : Devices, form : {"full", "local"}, type : Types,
                               delay : Nat, services : Seq(Services), script : Scripts]]
  /\ Becomes \in [Devices -> SUBSET (Entries \cup {"none"})]
  /\ MaxConcurrent \in Nat \ {0} /\ Timeout \in Nat \ {0}
  /\ KillTimeout \in Nat /\ MaxReap \in Nat /\ Grace \in Nat
  /\ DaqmxEnabled \in BOOLEAN

VARIABLES
  registry,   \* the DeviceRegistry: LocalDevice of a managed device, or "none"
  phase,      \* where run() of a request stands
  key,        \* the DeviceLock of a request, or of its driver call
  busy,       \* the keys that are locked
  permits,    \* free slots of the semaphore
  queue,      \* requests waiting for a slot, first come first served
  calls,      \* requests whose driver call has not returned
  delay,      \* what is left of a PowerCycle's delay
  left,       \* ticks left until the current wait times out
  at,         \* the service a restart has come to
  service,    \* state of the OS services
  age,        \* history: ticks since the request came
  reaped,     \* history: ticks its killed script took to end
  answer      \* "none", "ok" or "failed"

guards == <<key, busy, permits, queue, calls>>
timers == <<delay, left, age, reaped>>
vars == <<registry, phase, guards, timers, at, service, answer>>

Phases == {"new", "delay", "waiting", "calling", "script", "reading",
           "killing", "reaping", "killed", "stop", "stopping", "start", "starting", "done"}
TimedOut == {"killing", "reaping", "killed"}  \* phases of a script after its timeout
Waiting == {r \in Requests : phase[r] \notin {"new", "done"}}
IsReset(r) == Request[r].type \in {"power_cycle", "reset_driver"}

Init ==
  /\ registry = [d \in Devices |-> "named"]
  /\ phase = [r \in Requests |-> "new"]
  /\ key = [r \in Requests |-> NoKey]
  /\ busy = {} /\ permits = MaxConcurrent /\ queue = << >> /\ calls = {}
  /\ delay = [r \in Requests |-> 0]
  /\ left = [r \in Requests |-> 0]
  /\ at = [r \in Requests |-> 1]
  /\ service = [s \in Services |-> "running"]
  /\ age = [r \in Requests |-> 0]
  /\ reaped = [r \in Requests |-> 0]
  /\ answer = [r \in Requests |-> "none"]

-----------------------------------------------------------------------------
(* Validation *)

ResolveId(r) ==
  IF registry[Request[r].device] # "none" THEN <<"full", Request[r].device>> ELSE NoKey

\* Mutant: the lock is that of the id as it was sent.
LockKeyAsSent(r) == <<Request[r].form, Request[r].device>>

LockKey(r) ==
  IF ResolveId(r) # NoKey THEN ResolveId(r) ELSE <<Request[r].form, Request[r].device>>

PowerDelay(r) == IF Request[r].type = "power_cycle" THEN Request[r].delay ELSE 0

PlanReset(r) ==
  /\ DaqmxEnabled
  /\ registry[Request[r].device] = "named"
  /\ PowerDelay(r) > 0 => PowerDelay(r) < Timeout

PlanServices(r) ==
  /\ Request[r].services # << >>
  /\ \A i \in DOMAIN Request[r].services : Request[r].services[i] \in AllowedServices

PlanScript(r) == Request[r].script \in AllowedScripts

Plan(r) == CASE IsReset(r) -> PlanReset(r)
             [] Request[r].type = "restart_services" -> PlanServices(r)
             [] Request[r].type = "custom_script" -> PlanScript(r)

-----------------------------------------------------------------------------
(* Steps of run(r) *)

\* The result is sent, after an alert if it failed; the timers go with run().
Answer(r, result) ==
  /\ answer' = [answer EXCEPT ![r] = result]
  /\ phase' = [phase EXCEPT ![r] = "done"]
  /\ left' = [left EXCEPT ![r] = 0]
  /\ age' = [age EXCEPT ![r] = 0]
  /\ reaped' = [reaped EXCEPT ![r] = 0]
  /\ at' = [at EXCEPT ![r] = 1]
  /\ delay' = delay

\* The DeviceLock and the permit are dropped.
Release(r, slots) ==
  /\ busy' = busy \ {key[r]}
  /\ key' = [key EXCEPT ![r] = NoKey]
  /\ permits' = permits + slots

Reject(r) ==
  /\ phase[r] = "new" /\ (~Plan(r) \/ LockKey(r) \in busy)
  /\ Answer(r, "failed")
  /\ UNCHANGED <<registry, guards, service>>

\* The key is that of the device, whichever form of its id was sent; a PowerCycle
\* waits out its delay before it queues for a slot.
Accept(r) ==
  /\ phase[r] = "new" /\ Plan(r) /\ LockKey(r) \notin busy
  /\ busy' = busy \cup {LockKey(r)}
  /\ key' = [key EXCEPT ![r] = LockKey(r)]
  /\ left' = [left EXCEPT ![r] = Timeout]
  /\ IF IsReset(r) /\ PowerDelay(r) > 0
       THEN /\ phase' = [phase EXCEPT ![r] = "delay"]
            /\ delay' = [delay EXCEPT ![r] = PowerDelay(r)]
            /\ queue' = queue
       ELSE /\ phase' = [phase EXCEPT ![r] = "waiting"]
            /\ queue' = Append(queue, r)
            /\ delay' = delay
  /\ UNCHANGED <<registry, permits, calls, at, service, age, reaped, answer>>

DelayOver(r) ==
  /\ phase[r] = "delay" /\ delay[r] = 0
  /\ phase' = [phase EXCEPT ![r] = "waiting"]
  /\ queue' = Append(queue, r)
  /\ UNCHANGED <<registry, key, busy, permits, calls, timers, at, service, answer>>

\* Mutant: a reset's time begins anew, too.
GetSlotAnew(r) ==
  /\ queue # << >> /\ Head(queue) = r /\ permits > 0
  /\ permits' = permits - 1
  /\ queue' = Tail(queue)
  /\ phase' = [phase EXCEPT ![r] = CASE IsReset(r) -> "calling"
                                     [] Request[r].type = "custom_script" -> "script"
                                     [] Request[r].type = "restart_services" -> "stop"]
  /\ calls' = IF IsReset(r) THEN calls \cup {r} ELSE calls
  /\ left' = [left EXCEPT ![r] = Timeout]
  /\ UNCHANGED <<registry, key, busy, delay, at, service, age, reaped, answer>>

\* A reset has what is left of its time; a script or a restart begins anew.
GetSlot(r) ==
  /\ queue # << >> /\ Head(queue) = r /\ permits > 0
  /\ permits' = permits - 1
  /\ queue' = Tail(queue)
  /\ IF IsReset(r)
       THEN /\ phase' = [phase EXCEPT ![r] = "calling"]
            /\ calls' = calls \cup {r}
            /\ left' = left
       ELSE /\ phase' = [phase EXCEPT ![r] = IF Request[r].type = "custom_script"
                                               THEN "script" ELSE "stop"]
            /\ calls' = calls
            /\ left' = [left EXCEPT ![r] = Timeout]
  /\ UNCHANGED <<registry, key, busy, delay, at, service, age, reaped, answer>>

Without(s, i) == [j \in 1 .. Len(s) - 1 |-> IF j < i THEN s[j] ELSE s[j + 1]]

NoSlot(r) ==
  /\ phase[r] = "waiting" /\ left[r] = 0
  /\ \E i \in DOMAIN queue : queue[i] = r /\ queue' = Without(queue, i)
  /\ Release(r, 0)
  /\ Answer(r, "failed")
  /\ UNCHANGED <<registry, calls, service>>

\* The driver call returns: its guards are dropped, whether somebody still waits
\* for it or not.
CallReturns(r, result) ==
  /\ r \in calls
  /\ calls' = calls \ {r}
  /\ Release(r, 1)
  /\ IF phase[r] = "calling" THEN Answer(r, result)
                             ELSE UNCHANGED <<phase, timers, at, answer>>
  /\ UNCHANGED <<registry, queue, service>>

\* Mutant: the guards belong to run(), not to the driver call.
CallTimesOutReleasing(r) ==
  /\ phase[r] = "calling" /\ left[r] = 0
  /\ Release(r, 1)
  /\ Answer(r, "failed")
  /\ UNCHANGED <<registry, queue, calls, service>>

\* The device stays locked and the slot taken until the call returns.
CallTimesOut(r) ==
  /\ phase[r] = "calling" /\ left[r] = 0
  /\ Answer(r, "failed")
  /\ UNCHANGED <<registry, guards, service>>

\* The script could not be started.
ScriptFails(r) ==
  /\ phase[r] = "script"
  /\ Release(r, 1)
  /\ Answer(r, "failed")
  /\ UNCHANGED <<registry, queue, calls, service>>

\* A script ends, and the readers of its output have a grace; or its time is up and
\* it is to be killed with its children.
ScriptEnds(r) ==
  /\ phase[r] = "script"
  /\ \/ /\ phase' = [phase EXCEPT ![r] = "reading"]
        /\ left' = [left EXCEPT ![r] = Grace]
     \/ /\ left[r] = 0
        /\ phase' = [phase EXCEPT ![r] = "killing"]
        /\ left' = [left EXCEPT ![r] = KillTimeout]
  /\ UNCHANGED <<registry, guards, delay, age, reaped, at, service, answer>>

\* The command that kills the process tree ends, fails or is given up.
KillEnds(r) ==
  /\ phase[r] = "killing"
  /\ phase' = [phase EXCEPT ![r] = "reaping"]
  /\ left' = [left EXCEPT ![r] = 0]
  /\ UNCHANGED <<registry, guards, delay, age, reaped, at, service, answer>>

\* Mutant: the readers of a killed script have the time of a script.
ChildReapedAnew(r) ==
  /\ phase[r] = "reaping"
  /\ phase' = [phase EXCEPT ![r] = "killed"]
  /\ left' = [left EXCEPT ![r] = Timeout]
  /\ UNCHANGED <<registry, guards, delay, age, reaped, at, service, answer>>

\* The script, killed once more, has ended, which the code waits for however long it
\* takes; only then the readers' grace begins.
ChildReaped(r) ==
  /\ phase[r] = "reaping"
  /\ phase' = [phase EXCEPT ![r] = "killed"]
  /\ left' = [left EXCEPT ![r] = Grace]
  /\ UNCHANGED <<registry, guards, delay, age, reaped, at, service, answer>>

\* The readers end, or are given up when the grace is over.
ReadersEnd(r, result) ==
  /\ phase[r] \in {"reading", "killed"}
  /\ phase[r] = "killed" => result = "failed"
  /\ Release(r, 1)
  /\ Answer(r, result)
  /\ UNCHANGED <<registry, queue, calls, service>>

-----------------------------------------------------------------------------
(* Restarting services one after the other, within one timeout *)

Current(r) == Request[r].services[at[r]]

Goto(r, p) ==
  /\ phase' = [phase EXCEPT ![r] = p]
  /\ UNCHANGED <<registry, guards, timers, answer>>

\* sc stop; ERROR_SERVICE_NOT_ACTIVE is fine.
ScStop(r) ==
  /\ phase[r] = "stop"
  /\ service' = [service EXCEPT ![Current(r)] = IF @ = "stopped" THEN @ ELSE "stop_pending"]
  /\ at' = at
  /\ Goto(r, "stopping")

SeenStopped(r) ==
  /\ phase[r] = "stopping" /\ service[Current(r)] = "stopped"
  /\ UNCHANGED <<service, at>>
  /\ Goto(r, "start")

\* sc start; ERROR_SERVICE_ALREADY_RUNNING, of a service that stops too, is fine.
ScStart(r) ==
  /\ phase[r] = "start"
  /\ service' = [service EXCEPT ![Current(r)] = IF @ = "stopped" THEN "start_pending" ELSE @]
  /\ at' = at
  /\ Goto(r, "starting")

\* Mutant: a started service is not waited for.
SeenRunningAtOnce(r) ==
  /\ phase[r] = "starting"
  /\ UNCHANGED service
  /\ IF at[r] < Len(Request[r].services)
       THEN at' = [at EXCEPT ![r] = @ + 1] /\ Goto(r, "stop")
       ELSE /\ Release(r, 1)
            /\ Answer(r, "ok")
            /\ UNCHANGED <<registry, queue, calls>>

SeenRunning(r) ==
  /\ phase[r] = "starting" /\ service[Current(r)] = "running"
  /\ UNCHANGED service
  /\ IF at[r] < Len(Request[r].services)
       THEN at' = [at EXCEPT ![r] = @ + 1] /\ Goto(r, "stop")
       ELSE /\ Release(r, 1)
            /\ Answer(r, "ok")
            /\ UNCHANGED <<registry, queue, calls>>

\* A command fails, one that asks for the state too, or the state does not come in
\* time.
RestartFails(r) ==
  /\ phase[r] \in {"stop", "stopping", "start", "starting"}
  /\ Release(r, 1)
  /\ Answer(r, "failed")
  /\ UNCHANGED <<registry, queue, calls, service>>

Step(r) ==
  \/ Reject(r) \/ Accept(r) \/ DelayOver(r) \/ GetSlot(r) \/ NoSlot(r)
  \/ \E result \in {"ok", "failed"} : CallReturns(r, result) \/ ReadersEnd(r, result)
  \/ CallTimesOut(r) \/ ScriptFails(r) \/ ScriptEnds(r) \/ KillEnds(r) \/ ChildReaped(r)
  \/ ScStop(r) \/ SeenStopped(r) \/ ScStart(r) \/ SeenRunning(r) \/ RestartFails(r)

-----------------------------------------------------------------------------
(* The surroundings: the service manager, the device manager and time *)

ServiceMoves(s) ==
  /\ service[s] \in {"stop_pending", "start_pending"}
  /\ service' = [service EXCEPT ![s] = IF @ = "stop_pending" THEN "stopped" ELSE "running"]
  /\ UNCHANGED <<registry, phase, guards, timers, at, answer>>

RegistryChanges(d) ==
  /\ \E e \in Becomes[d] : registry' = [registry EXCEPT ![d] = e]
  /\ UNCHANGED <<phase, guards, timers, at, service, answer>>

Tick ==
  /\ Waiting # {}
  /\ \A r \in Waiting : CASE phase[r] = "delay" -> delay[r] > 0
                          [] phase[r] = "reaping" -> reaped[r] < MaxReap
                          [] OTHER -> left[r] > 0
  /\ left' = [r \in Requests |-> IF r \in Waiting /\ phase[r] # "reaping" THEN left[r] - 1
                                                                         ELSE left[r]]
  /\ delay' = [r \in Requests |-> IF phase[r] = "delay" THEN delay[r] - 1 ELSE delay[r]]
  /\ age' = [r \in Requests |-> IF r \in Waiting THEN age[r] + 1 ELSE age[r]]
  /\ reaped' = [r \in Requests |-> IF phase[r] = "reaping" THEN reaped[r] + 1 ELSE reaped[r]]
  /\ UNCHANGED <<registry, phase, guards, at, service, answer>>

Next ==
  \/ \E r \in Requests : Step(r)
  \/ \E s \in Services : ServiceMoves(s)
  \/ \E d \in Devices : RegistryChanges(d)
  \/ Tick

Spec == Init /\ [][Next]_vars

-----------------------------------------------------------------------------
(* Properties *)

TypeOK ==
  /\ registry \in [Devices -> Entries \cup {"none"}]
  /\ phase \in [Requests -> Phases]
  /\ key \in [Requests -> Keys \cup {NoKey}]
  /\ busy \subseteq Keys /\ permits \in 0 .. MaxConcurrent
  /\ queue \in Seq(Requests) /\ calls \subseteq Requests
  /\ delay \in [Requests -> Nat] /\ left \in [Requests -> Nat] /\ age \in [Requests -> Nat]
  /\ reaped \in [Requests -> Nat]
  /\ at \in [Requests -> Nat]
  /\ service \in [Services -> {"running", "stopped", "stop_pending", "start_pending"}]
  /\ answer \in [Requests -> {"none", "ok", "failed"}]

\* The safety rules of action.rs: one action per device, max_concurrent of them
\* at work, and locks and slots end with the action, or with its driver call.
AtWork == Phases \ {"new", "delay", "waiting", "done"}
Working == {r \in Requests : phase[r] \in AtWork} \cup calls
Slots == INSTANCE ExclusiveSlots
           WITH Users <- Requests, Targets <- Keys, Capacity <- MaxConcurrent,
                NoTarget <- NoKey, target <- key, slots <- Working
KeepsRules == Slots!Exclusive

\* Two driver calls never reset one device at a time: not after the first was
\* answered as timed out, not when the device left the registry and came back
\* meanwhile, not when the second names it differently.
ResetsExclusive ==
  \A q, r \in calls : Request[q].device = Request[r].device => q = r

\* An answer comes in time: a reset, its delay and wait included, has one
\* timeout; scripts and restarts may wait as long for a slot, and a script's
\* readers have a grace.  A script that ran out of time is late by what it takes to
\* kill it: the command has a limit, the end of the script has none (reaped).
AnsweredInTime ==
  \A r \in Requests :
    age[r] <= CASE IsReset(r) -> Timeout
                [] Request[r].type = "restart_services" -> 2 * Timeout
                [] Request[r].type = "custom_script" ->
                     2 * Timeout + Grace
                       + (IF phase[r] \in TimedOut THEN KillTimeout + reaped[r] ELSE 0)

\* A call that cannot be cancelled holds up its answer no longer than that, and a
\* second call not a moment too short: both of the above.
OverrunsContained == ResetsExclusive /\ AnsweredInTime

\* When every restart of a service is over and none failed, it runs, although the
\* requests of two devices may restart the same one at the same time.
ServicesUp ==
  \A s \in Services :
    LET rs == {r \in Requests : /\ Request[r].type = "restart_services"
                                /\ \E i \in DOMAIN Request[r].services : Request[r].services[i] = s}
    IN  (\A r \in rs : phase[r] = "new" \/ answer[r] = "ok") => service[s] = "running"
=============================================================================
