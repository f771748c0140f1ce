-------------------------- MODULE EdgeActions_proofs --------------------------
(***************************************************************************)
(* Proofs about the edge's remediation actions, for all requests, devices, *)
(* services, limits and timeouts: type correctness, that overruns are      *)
(* contained, that services are up again, and that the model implements    *)
(* the safety rules of ExclusiveSlots.                                     *)
(***************************************************************************)
EXTENDS EdgeActions, SequenceTheorems, FiniteSetTheorems, TLAPS

InRestart == {"stop", "stopping", "start", "starting"}
IsRestart(r) == Request[r].type = "restart_services"
Restarts(r, s) ==
  IsRestart(r) /\ \E i \in DOMAIN Request[r].services : Request[r].services[i] = s

\* The phases a request of each type goes through, and the service it is at.
PhaseFits(r) ==
    /\ phase[r] \in {"delay", "calling"} => IsReset(r)
    /\ phase[r] \in {"script", "reading"} \cup TimedOut => Request[r].type = "custom_script"
    /\ phase[r] \in InRestart => IsRestart(r) /\ at[r] \in 1 .. Len(Request[r].services)
    /\ phase[r] = "waiting" /\ IsRestart(r) => Request[r].services # << >>
    /\ phase[r] \in {"new", "delay", "waiting"} => at[r] = 1
    /\ answer[r] # "none" <=> phase[r] = "done"
PhasesByType == \A r \in Requests : PhaseFits(r)

\* A driver call belongs to a reset that waits for it or was answered without it.
CallFits(r) ==
  /\ r \in calls => IsReset(r) /\ phase[r] \in {"calling", "done"}
  /\ phase[r] = "calling" => r \in calls
CallsOfResets == \A r \in Requests : CallFits(r)

\* Locks go with what is under way, a driver call included; a device has one, and
\* a reset that of the device under its full id.
LocksHeld ==
  /\ \A r \in Requests : key[r] # NoKey <=> r \in Waiting \cup calls
  /\ \A q, r \in Requests : key[q] # NoKey /\ key[q] = key[r] => q = r
  /\ \A r \in Requests : key[r] # NoKey => key[r] \in busy
  /\ \A k \in busy : \E r \in Requests : key[r] = k
  /\ \A r \in Requests : key[r] # NoKey /\ IsReset(r) => key[r] = <<"full", Request[r].device>>

\* The queue holds those that wait for a slot, once each.
QueueIsWaiting ==
  /\ \A r \in Requests : phase[r] = "waiting" <=> \E i \in 1 .. Len(queue) : queue[i] = r
  /\ \A i, j \in 1 .. Len(queue) : queue[i] = queue[j] => i = j

\* What is not free is taken by those that work.
SlotsCounted == permits + Cardinality(Working) = MaxConcurrent

\* What is left of a wait never adds up to more than the request may take, the
\* time in which its killed script ended aside.
Budget(r) ==
  IF IsReset(r) \/ phase[r] = "waiting" THEN Timeout
    ELSE 2 * Timeout + (IF phase[r] \in TimedOut THEN KillTimeout ELSE 0)
                     + (IF phase[r] \in {"reading", "killed"} THEN Grace ELSE 0)
TimeFits(r) ==
  /\ r \in Waiting => age[r] + left[r] <= Budget(r) + reaped[r]
  /\ r \notin Waiting => age[r] = 0
  /\ phase[r] \notin {"reaping", "killed"} => reaped[r] = 0
  /\ phase[r] = "delay" => delay[r] < left[r]
TimeLeft == \A r \in Requests : TimeFits(r)

\* A service that does not run is waited for by a restart, or one has failed.
AwaitedBy(s, r) ==
  /\ Restarts(r, s)
  /\ (phase[r] \in InRestart \ {"stop"} /\ Current(r) = s) \/ answer[r] = "failed"
DownIsKnown == \A s \in Services : service[s] # "running" => \E r \in Requests : AwaitedBy(s, r)

\* TypeOK, but for the bound of the free slots, which SlotsCounted implies.
Typed ==
  /\ registry \in [Devices -> Entries \cup {"none"}]
  /\ phase \in [Requests -> Phases]
  /\ key \in [Requests -> Keys \cup {NoKey}]
  /\ busy \subseteq Keys /\ permits \in Nat
  /\ queue \in Seq(Requests) /\ calls \subseteq Requests
  /\ delay \in [Requests -> Nat] /\ left \in [Requests -> Nat] /\ age \in [Requests -> Nat]
  /\ reaped \in [Requests -> Nat]
  /\ at \in [Requests -> Nat]
  /\ service \in [Services -> {"running", "stopped", "stop_pending", "start_pending"}]
  /\ answer \in [Requests -> {"none", "ok", "failed"}]

IInv == /\ Typed /\ PhasesByType /\ CallsOfResets /\ LocksHeld /\ QueueIsWaiting
        /\ SlotsCounted /\ TimeLeft /\ DownIsKnown

-----------------------------------------------------------------------------
(* Requests, keys and queues                                               *)

LEMMA RequestIsTyped ==
  ASSUME NEW r \in Requests
  PROVE  /\ Request[r].device \in Devices /\ Request[r].form \in {"full", "local"}
         /\ Request[r].type \in Types /\ Request[r].delay \in Nat
         /\ Request[r].services \in Seq(Services)
         /\ PowerDelay(r) \in Nat
  BY ActionsAssumption DEF PowerDelay

LEMMA LockKeyIsKey ==
  ASSUME NEW r \in Requests
  PROVE  /\ LockKey(r) \in Keys /\ LockKey(r) # NoKey
         /\ Plan(r) /\ IsReset(r) => LockKey(r) = <<"full", Request[r].device>>
<1>1. Request[r].device \in Devices /\ Request[r].form \in {"full", "local"}
  BY RequestIsTyped
<1>2. ResolveId(r) # NoKey => ResolveId(r) = <<"full", Request[r].device>>
  BY DEF ResolveId
<1>3. LockKey(r) \in {<<"full", Request[r].device>>, <<Request[r].form, Request[r].device>>}
  BY <1>2 DEF LockKey
<1>4. LockKey(r) \in Keys /\ LockKey(r) # NoKey
  BY <1>1, <1>3 DEF Keys, NoKey
<1>5. ASSUME Plan(r), IsReset(r) PROVE LockKey(r) = <<"full", Request[r].device>>
  <2>1. registry[Request[r].device] = "named"
    BY <1>5 DEF Plan, PlanReset, IsReset
  <2>2. ResolveId(r) = <<"full", Request[r].device>>
    BY <2>1 DEF ResolveId
  <2>3. ResolveId(r) # NoKey
    BY <2>2 DEF NoKey
  <2> QED BY <2>2, <2>3 DEF LockKey
<1> QED BY <1>4, <1>5

\* Whom the queue holds, when one joins it, its first leaves it, or one gives up.
InQueue(q, r) == \E i \in 1 .. Len(q) : q[i] = r
Distinct(q) == \A i, j \in 1 .. Len(q) : q[i] = q[j] => i = j

LEMMA JoinsQueue ==
  ASSUME NEW S, NEW q \in Seq(S), NEW r \in S, Distinct(q), ~InQueue(q, r)
  PROVE  /\ Append(q, r) \in Seq(S) /\ Distinct(Append(q, r))
         /\ \A s : InQueue(Append(q, r), s) <=> InQueue(q, s) \/ s = r
<1>1. /\ Append(q, r) \in Seq(S) /\ Len(Append(q, r)) = Len(q) + 1
      /\ \A i \in 1 .. Len(q) : Append(q, r)[i] = q[i]
      /\ Append(q, r)[Len(q) + 1] = r /\ Len(q) \in Nat
  BY AppendProperties, LenProperties
<1>2. Distinct(Append(q, r))
  BY <1>1 DEF Distinct, InQueue
<1>3. ASSUME NEW s PROVE InQueue(Append(q, r), s) <=> InQueue(q, s) \/ s = r
  BY <1>1 DEF InQueue
<1> QED BY <1>1, <1>2, <1>3

LEMMA LeavesQueue ==
  ASSUME NEW S, NEW q \in Seq(S), NEW k \in 1 .. Len(q), Distinct(q)
  PROVE  /\ Without(q, k) \in Seq(S) /\ Distinct(Without(q, k))
         /\ \A s : InQueue(Without(q, k), s) <=> InQueue(q, s) /\ s # q[k]
<1> DEFINE w == Without(q, k)
<1>1. Len(q) \in Nat /\ Len(q) - 1 \in Nat /\ \A i \in 1 .. Len(q) : q[i] \in S
  BY LenProperties, ElementOfSeq
<1>2. /\ w = [j \in 1 .. Len(q) - 1 |-> IF j < k THEN q[j] ELSE q[j + 1]]
      /\ w \in Seq(S)
  BY <1>1, IsASeq DEF Without
<1>3. Len(w) = Len(q) - 1
  BY <1>1, <1>2, LenProperties
<1>4. \A j \in 1 .. Len(w) : w[j] = IF j < k THEN q[j] ELSE q[j + 1]
  BY <1>2, <1>3
<1> HIDE DEF w
<1>5. Distinct(w)
  BY <1>1, <1>3, <1>4 DEF Distinct
<1>6. ASSUME NEW s PROVE InQueue(w, s) <=> InQueue(q, s) /\ s # q[k]
  <2>1. ASSUME InQueue(w, s) PROVE InQueue(q, s) /\ s # q[k]
    BY <1>1, <1>3, <1>4, <2>1 DEF InQueue, Distinct
  <2>2. ASSUME InQueue(q, s), s # q[k] PROVE InQueue(w, s)
    <3>1. PICK i \in 1 .. Len(q) : q[i] = s
      BY <2>2 DEF InQueue
    <3>2. CASE i < k
      BY <1>1, <1>3, <1>4, <3>1, <3>2 DEF InQueue
    <3>3. CASE i > k
      <4>1. i - 1 \in 1 .. Len(w) /\ w[i - 1] = q[i]
        BY <1>1, <1>3, <1>4, <3>3
      <4> QED BY <3>1, <4>1 DEF InQueue
    <3> QED BY <2>2, <3>1, <3>2, <3>3
  <2> QED BY <2>1, <2>2
<1> QED BY <1>2, <1>5, <1>6 DEF w

LEMMA TailIsWithout ==
  ASSUME NEW S, NEW q \in Seq(S), q # << >>
  PROVE  Tail(q) = Without(q, 1) /\ 1 \in 1 .. Len(q) /\ Head(q) = q[1]
<1>1. /\ Tail(q) \in Seq(S) /\ Len(Tail(q)) = Len(q) - 1 /\ Head(q) = q[1]
      /\ \A i \in 1 .. Len(q) - 1 : Tail(q)[i] = q[i + 1]
  BY HeadTailProperties
<1>2. Len(q) \in Nat /\ Len(q) # 0
  BY LenProperties, EmptySeq
<1>3. Tail(q) = [i \in 1 .. Len(q) - 1 |-> Tail(q)[i]]
  BY <1>1, LenProperties
<1> QED BY <1>1, <1>2, <1>3 DEF Without

-----------------------------------------------------------------------------
(* Steps of a request                                                      *)

LEMMA TypedKept ==
  ASSUME Typed, LocksHeld, PhasesByType, QueueIsWaiting, NEW r \in Requests, Step(r)
  PROVE  Typed'
<1>1. ASSUME NEW slots \in Nat, Release(r, slots)
      PROVE  /\ key' \in [Requests -> Keys \cup {NoKey}]
             /\ busy' \subseteq Keys /\ permits' \in Nat
  BY <1>1 DEF Typed, Release
<1>2. ASSUME NEW result \in {"ok", "failed"}, Answer(r, result)
      PROVE  /\ phase' \in [Requests -> Phases] /\ answer' \in [Requests -> {"none", "ok", "failed"}]
             /\ delay' \in [Requests -> Nat] /\ left' \in [Requests -> Nat]
             /\ age' \in [Requests -> Nat] /\ at' \in [Requests -> Nat]
             /\ reaped' \in [Requests -> Nat]
  BY <1>2 DEF Typed, Answer, Phases
<1>3. CASE Reject(r)
  BY <1>2, <1>3 DEF Reject, Typed, guards
<1>4. CASE Accept(r)
  <2>1. LockKey(r) \in Keys /\ PowerDelay(r) \in Nat /\ Timeout \in Nat /\ Append(queue, r) \in Seq(Requests)
    BY LockKeyIsKey, RequestIsTyped, ActionsAssumption, AppendProperties DEF Typed
  <2> QED BY <1>4, <2>1 DEF Accept, Typed, Phases
<1>5. CASE DelayOver(r)
  <2>1. Append(queue, r) \in Seq(Requests)
    BY AppendProperties DEF Typed
  <2> QED BY <1>5, <2>1 DEF DelayOver, Typed, Phases, timers
<1>6. CASE GetSlot(r)
  <2>1. Tail(queue) \in Seq(Requests) /\ Timeout \in Nat
    BY <1>6, ActionsAssumption, HeadTailProperties DEF Typed, GetSlot
  <2>2. UNCHANGED <<registry, key, busy, delay, at, service, age, reaped, answer>> /\ permits' \in Nat
    BY <1>6 DEF GetSlot, Typed
  <2>3. calls' \subseteq Requests /\ queue' \in Seq(Requests)
    BY <1>6, <2>1 DEF GetSlot, Typed
  <2>4. phase' \in [Requests -> Phases]
    BY <1>6 DEF GetSlot, Typed, Phases
  <2>5. left' \in [Requests -> Nat]
    BY <1>6, <2>1 DEF GetSlot, Typed
  <2> QED BY <2>2, <2>3, <2>4, <2>5 DEF Typed
<1>7. CASE NoSlot(r)
  <2>1. queue' \in Seq(Requests)
    <3>1. PICK i \in DOMAIN queue : queue' = Without(queue, i)
      BY <1>7 DEF NoSlot
    <3>2. i \in 1 .. Len(queue) /\ Distinct(queue)
      <4>1. queue \in Seq(Requests)
        BY DEF Typed
      <4> QED BY <4>1, LenProperties DEF QueueIsWaiting, Distinct
    <3> QED BY <3>1, <3>2, LeavesQueue DEF Typed
  <2> QED BY <1>1, <1>2, <1>7, <2>1 DEF NoSlot, Typed
<1>8. ASSUME NEW result \in {"ok", "failed"}, CallReturns(r, result) PROVE Typed'
  BY <1>1, <1>2, <1>8 DEF CallReturns, Typed, timers
<1>9. ASSUME NEW result \in {"ok", "failed"}, ReadersEnd(r, result) PROVE Typed'
  BY <1>1, <1>2, <1>9 DEF ReadersEnd, Typed
<1>10. CASE CallTimesOut(r)
  BY <1>2, <1>10 DEF CallTimesOut, Typed, guards
<1>11. CASE ScriptFails(r)
  BY <1>1, <1>2, <1>11 DEF ScriptFails, Typed
<1>12. CASE ScriptEnds(r) \/ KillEnds(r) \/ ChildReaped(r)
  <2>1. UNCHANGED <<registry, key, busy, permits, queue, calls, delay, age, reaped, at, service, answer>>
    BY <1>12 DEF ScriptEnds, KillEnds, ChildReaped, guards
  <2>2. phase' \in [Requests -> Phases]
    <3>1. PICK p \in {"reading"} \cup TimedOut : phase' = [phase EXCEPT ![r] = p]
      BY <1>12 DEF ScriptEnds, KillEnds, ChildReaped, TimedOut
    <3>2. p \in Phases
      BY DEF Phases, TimedOut
    <3> QED BY <3>1, <3>2 DEF Typed
  <2>3. Grace \in Nat /\ KillTimeout \in Nat /\ left \in [Requests -> Nat]
    BY ActionsAssumption DEF Typed
  <2>4. left' \in [Requests -> Nat]
    BY <1>12, <2>3 DEF ScriptEnds, KillEnds, ChildReaped
  <2> QED BY <2>1, <2>2, <2>4 DEF Typed
<1>13. CASE ScStop(r) \/ ScStart(r)
  <2>1. service' \in [Services -> {"running", "stopped", "stop_pending", "start_pending"}]
    BY <1>13 DEF ScStop, ScStart, Typed
  <2> QED BY <1>13, <2>1 DEF ScStop, ScStart, Goto, Typed, Phases, guards, timers
<1>14. CASE SeenStopped(r)
  BY <1>14 DEF SeenStopped, Goto, Typed, Phases, guards, timers
<1>15. CASE SeenRunning(r)
  <2>1. CASE at[r] < Len(Request[r].services)
    <3>1. /\ at' = [at EXCEPT ![r] = @ + 1] /\ phase' = [phase EXCEPT ![r] = "stop"]
          /\ UNCHANGED <<registry, key, busy, permits, queue, calls, delay, left, age, reaped,
                        service, answer>>
      BY <1>15, <2>1 DEF SeenRunning, Goto, guards, timers
    <3>2. at' \in [Requests -> Nat] /\ phase' \in [Requests -> Phases]
      BY <3>1 DEF Typed, Phases
    <3> QED BY <3>1, <3>2 DEF Typed
  <2>2. CASE ~ (at[r] < Len(Request[r].services))
    BY <1>1, <1>2, <1>15, <2>2 DEF SeenRunning, Typed
  <2> QED BY <2>1, <2>2
<1>16. CASE RestartFails(r)
  BY <1>1, <1>2, <1>16 DEF RestartFails, Typed
<1> QED BY <1>3, <1>4, <1>5, <1>6, <1>7, <1>8, <1>9, <1>10, <1>11, <1>12, <1>13, <1>14, <1>15,
        <1>16 DEF Step

LEMMA CallsTyped ==
  ASSUME Typed, NEW r \in Requests, Step(r)
  PROVE  calls' \subseteq Requests
  BY DEF Step, Reject, Accept, DelayOver, GetSlot, NoSlot, CallReturns, ReadersEnd, CallTimesOut,
     ScriptFails, ScriptEnds, KillEnds, ChildReaped, ScStop, SeenStopped, ScStart, SeenRunning,
     RestartFails, Goto, guards, Typed

\* A step is that of its own request.
SameAsBefore(q) ==
  /\ phase'[q] = phase[q] /\ key'[q] = key[q] /\ delay'[q] = delay[q]
  /\ left'[q] = left[q] /\ at'[q] = at[q] /\ age'[q] = age[q] /\ reaped'[q] = reaped[q]
  /\ answer'[q] = answer[q]
  /\ q \in calls' <=> q \in calls

LEMMA OthersKeep ==
  ASSUME Typed, NEW r \in Requests, Step(r), NEW q \in Requests, q # r
  PROVE  SameAsBefore(q)
<1> USE DEF Typed, SameAsBefore, Answer, Release, Goto, guards, timers
<1>1. CASE Reject(r)
  BY <1>1 DEF Reject
<1>2. CASE Accept(r)
  BY <1>2 DEF Accept
<1>3. CASE DelayOver(r)
  BY <1>3 DEF DelayOver
<1>4. CASE GetSlot(r)
  BY <1>4 DEF GetSlot
<1>5. CASE NoSlot(r)
  BY <1>5 DEF NoSlot
<1>6. ASSUME NEW result \in {"ok", "failed"}, CallReturns(r, result) PROVE SameAsBefore(q)
  BY <1>6 DEF CallReturns
<1>7. ASSUME NEW result \in {"ok", "failed"}, ReadersEnd(r, result) PROVE SameAsBefore(q)
  BY <1>7 DEF ReadersEnd
<1>8. CASE CallTimesOut(r) \/ ScriptFails(r)
  BY <1>8 DEF CallTimesOut, ScriptFails
<1>9. CASE ScriptEnds(r) \/ KillEnds(r) \/ ChildReaped(r)
  BY <1>9 DEF ScriptEnds, KillEnds, ChildReaped
<1>10. CASE ScStop(r) \/ SeenStopped(r) \/ ScStart(r)
  BY <1>10 DEF ScStop, SeenStopped, ScStart
<1>11. CASE SeenRunning(r)
  BY <1>11 DEF SeenRunning
<1>12. CASE RestartFails(r)
  BY <1>12 DEF RestartFails
<1> QED BY <1>1, <1>2, <1>3, <1>4, <1>5, <1>6, <1>7, <1>8, <1>9, <1>10, <1>11, <1>12 DEF Step

LEMMA HeadWaits ==
  ASSUME Typed, QueueIsWaiting, NEW r \in Requests, GetSlot(r)
  PROVE  phase[r] = "waiting"
<1>1. queue \in Seq(Requests) /\ queue # << >> /\ Head(queue) = r
  BY DEF Typed, GetSlot
<1>2. 1 \in 1 .. Len(queue) /\ queue[1] = r
  BY <1>1, TailIsWithout
<1> QED BY <1>2 DEF QueueIsWaiting

LEMMA PhasesKept ==
  ASSUME Typed, PhasesByType, CallsOfResets, QueueIsWaiting, NEW r \in Requests, Step(r)
  PROVE  PhasesByType' /\ CallsOfResets'
<1>1. PhaseFits(r) /\ CallFits(r)
  BY DEF PhasesByType, CallsOfResets
<1>2. /\ Request[r].services \in Seq(Services) /\ Len(Request[r].services) \in Nat
      /\ Request[r].services # << >> => Len(Request[r].services) # 0
      /\ Request[r].type \in Types
  BY RequestIsTyped, LenProperties, EmptySeq
<1>3. PhaseFits(r)' /\ CallFits(r)'
  <2> USE <1>1, <1>2 DEF Typed, PhaseFits, CallFits, Answer, Goto, guards, timers, InRestart, IsRestart,
          IsReset, Types, TimedOut
  <2>1. CASE Reject(r)
    BY <2>1 DEF Reject
  <2>2. CASE Accept(r)
    BY <2>2 DEF Accept, Plan, PlanServices
  <2>3. CASE DelayOver(r)
    BY <2>3 DEF DelayOver
  <2>4. CASE GetSlot(r)
    <3>1. phase[r] = "waiting"
      BY <2>4, HeadWaits
    <3>2. CASE IsReset(r)
      BY <2>4, <3>1, <3>2 DEF GetSlot
    <3>3. CASE ~ IsReset(r)
      <4>1. /\ phase'[r] = IF Request[r].type = "custom_script" THEN "script" ELSE "stop"
            /\ UNCHANGED <<at, calls, answer>>
        BY <2>4, <3>3 DEF GetSlot
      <4> QED BY <3>1, <3>3, <4>1
    <3> QED BY <3>2, <3>3
  <2>5. CASE NoSlot(r)
    BY <2>5 DEF NoSlot
  <2>6. ASSUME NEW result \in {"ok", "failed"}, CallReturns(r, result) PROVE PhaseFits(r)' /\ CallFits(r)'
    BY <2>6 DEF CallReturns
  <2>7. ASSUME NEW result \in {"ok", "failed"}, ReadersEnd(r, result) PROVE PhaseFits(r)' /\ CallFits(r)'
    BY <2>7 DEF ReadersEnd
  <2>8. CASE CallTimesOut(r)
    BY <2>8 DEF CallTimesOut
  <2>9. CASE ScriptFails(r)
    BY <2>9 DEF ScriptFails
  <2>10. CASE ScriptEnds(r) \/ KillEnds(r) \/ ChildReaped(r)
    BY <2>10 DEF ScriptEnds, KillEnds, ChildReaped
  <2>11. CASE ScStop(r) \/ SeenStopped(r) \/ ScStart(r)
    BY <2>11 DEF ScStop, SeenStopped, ScStart
  <2>12. CASE SeenRunning(r)
    <3>1. CASE at[r] < Len(Request[r].services)
      BY <2>12, <3>1 DEF SeenRunning
    <3>2. CASE ~ (at[r] < Len(Request[r].services))
      BY <2>12, <3>2 DEF SeenRunning
    <3> QED BY <3>1, <3>2
  <2>13. CASE RestartFails(r)
    BY <2>13 DEF RestartFails
  <2> QED BY <2>1, <2>2, <2>3, <2>4, <2>5, <2>6, <2>7, <2>8, <2>9, <2>10, <2>11, <2>12, <2>13 DEF Step
<1>4. ASSUME NEW q \in Requests, q # r PROVE PhaseFits(q)' /\ CallFits(q)'
  <2>1. SameAsBefore(q)
    BY <1>4, OthersKeep
  <2> QED BY <2>1 DEF SameAsBefore, PhasesByType, CallsOfResets, PhaseFits, CallFits
<1> QED BY <1>3, <1>4 DEF PhasesByType, CallsOfResets

LEMMA TimeKept ==
  ASSUME Typed, PhasesByType, CallsOfResets, QueueIsWaiting, TimeLeft, NEW r \in Requests, Step(r)
  PROVE  TimeLeft'
<1>1. PhaseFits(r) /\ CallFits(r) /\ TimeFits(r)
  BY DEF PhasesByType, CallsOfResets, TimeLeft
<1>2. /\ Request[r].type \in Types /\ PowerDelay(r) \in Nat
      /\ Timeout \in Nat \ {0} /\ KillTimeout \in Nat /\ Grace \in Nat
  BY RequestIsTyped, ActionsAssumption
<1>3. TimeFits(r)'
  <2> USE <1>1, <1>2 DEF Typed, PhaseFits, CallFits, TimeFits, Budget, Waiting, Answer, Goto, guards,
          timers, InRestart, IsRestart, IsReset, Types, TimedOut
  <2>1. CASE Reject(r)
    BY <2>1 DEF Reject
  <2>2. CASE Accept(r)
    <3>1. left'[r] = Timeout /\ age'[r] = 0 /\ reaped'[r] = 0
      BY <2>2 DEF Accept
    <3>2. CASE IsReset(r) /\ PowerDelay(r) > 0
      <4>1. PowerDelay(r) < Timeout
        BY <2>2, <3>2 DEF Accept, Plan, PlanReset
      <4>2. phase'[r] = "delay" /\ delay'[r] = PowerDelay(r)
        BY <2>2, <3>2 DEF Accept
      <4> QED BY <3>1, <3>2, <4>1, <4>2
    <3>3. CASE ~ (IsReset(r) /\ PowerDelay(r) > 0)
      BY <2>2, <3>1, <3>3 DEF Accept
    <3> QED BY <3>2, <3>3
  <2>3. CASE DelayOver(r)
    BY <2>3 DEF DelayOver
  <2>4. CASE GetSlot(r)
    <3>1. phase[r] = "waiting"
      BY <2>4, HeadWaits
    <3>2. CASE IsReset(r)
      BY <2>4, <3>1, <3>2 DEF GetSlot
    <3>3. CASE ~ IsReset(r)
      <4>1. phase'[r] \in {"script", "stop"} /\ left'[r] = Timeout
        BY <2>4, <3>3 DEF GetSlot
      <4>2. age'[r] = age[r] /\ reaped'[r] = reaped[r]
        BY <2>4 DEF GetSlot
      <4>3. age[r] <= Timeout /\ reaped[r] = 0
        BY <3>1, <3>3
      <4>4. Budget(r)' = 2 * Timeout
        BY <3>3, <4>1
      <4> QED BY <4>1, <4>2, <4>3, <4>4
    <3> QED BY <3>2, <3>3
  <2>5. CASE NoSlot(r)
    BY <2>5 DEF NoSlot
  <2>6. ASSUME NEW result \in {"ok", "failed"}, CallReturns(r, result) PROVE TimeFits(r)'
    BY <2>6 DEF CallReturns
  <2>7. ASSUME NEW result \in {"ok", "failed"}, ReadersEnd(r, result) PROVE TimeFits(r)'
    BY <2>7 DEF ReadersEnd
  <2>8. CASE CallTimesOut(r)
    BY <2>8 DEF CallTimesOut
  <2>9. CASE ScriptFails(r)
    BY <2>9 DEF ScriptFails
  <2>10. CASE ScriptEnds(r) \/ KillEnds(r) \/ ChildReaped(r)
    <3>1. ~ IsReset(r) /\ age'[r] = age[r] /\ reaped'[r] = reaped[r]
      BY <2>10 DEF ScriptEnds, KillEnds, ChildReaped
    <3>2. CASE ScriptEnds(r)
      <4>1. age[r] <= 2 * Timeout /\ reaped[r] = 0 /\ phase[r] = "script"
        BY <3>1, <3>2 DEF ScriptEnds
      <4>2. \/ phase'[r] = "reading" /\ left'[r] = Grace
            \/ phase'[r] = "killing" /\ left'[r] = KillTimeout
        BY <3>2 DEF ScriptEnds
      <4> QED BY <3>1, <4>1, <4>2
    <3>3. CASE KillEnds(r)
      <4>1. age[r] <= 2 * Timeout + KillTimeout + reaped[r] /\ reaped[r] = 0 /\ phase[r] = "killing"
        BY <3>1, <3>3 DEF KillEnds
      <4>2. phase'[r] = "reaping" /\ left'[r] = 0
        BY <3>3 DEF KillEnds
      <4> QED BY <3>1, <4>1, <4>2
    <3>4. CASE ChildReaped(r)
      <4>1. age[r] <= 2 * Timeout + KillTimeout + reaped[r] /\ phase[r] = "reaping"
        BY <3>1, <3>4 DEF ChildReaped
      <4>2. phase'[r] = "killed" /\ left'[r] = Grace
        BY <3>4 DEF ChildReaped
      <4> QED BY <3>1, <4>1, <4>2
    <3> QED BY <2>10, <3>2, <3>3, <3>4
  <2>11. CASE ScStop(r) \/ SeenStopped(r) \/ ScStart(r)
    BY <2>11 DEF ScStop, SeenStopped, ScStart
  <2>12. CASE SeenRunning(r)
    <3>1. CASE at[r] < Len(Request[r].services)
      BY <2>12, <3>1 DEF SeenRunning
    <3>2. CASE ~ (at[r] < Len(Request[r].services))
      BY <2>12, <3>2 DEF SeenRunning
    <3> QED BY <3>1, <3>2
  <2>13. CASE RestartFails(r)
    BY <2>13 DEF RestartFails
  <2> QED BY <2>1, <2>2, <2>3, <2>4, <2>5, <2>6, <2>7, <2>8, <2>9, <2>10, <2>11, <2>12, <2>13 DEF Step
<1>4. ASSUME NEW q \in Requests, q # r PROVE TimeFits(q)'
  <2>1. SameAsBefore(q)
    BY <1>4, OthersKeep
  <2> QED BY <2>1 DEF SameAsBefore, TimeLeft, TimeFits, Budget, Waiting
<1> QED BY <1>3, <1>4 DEF TimeLeft

LEMMA QueueKept ==
  ASSUME Typed, PhasesByType, CallsOfResets, QueueIsWaiting, NEW r \in Requests, Step(r)
  PROVE  QueueIsWaiting'
<1> DEFINE W(q) == phase[q] = "waiting"
           Stays == UNCHANGED queue /\ (W(r)' <=> W(r))
           Joins == ~W(r) /\ W(r)' /\ queue' = Append(queue, r)
           Leaves == /\ ~W(r)'
                     /\ \E i \in 1 .. Len(queue) : queue[i] = r /\ queue' = Without(queue, i)
<1>1. PhaseFits(r) /\ CallFits(r)
  BY DEF PhasesByType, CallsOfResets
<1>2. queue \in Seq(Requests) /\ DOMAIN queue = 1 .. Len(queue)
  <2>1. queue \in Seq(Requests)
    BY DEF Typed
  <2> QED BY <2>1, LenProperties
<1>3. Stays \/ Joins \/ Leaves
  <2> USE <1>1 DEF Typed, PhaseFits, CallFits, Waiting, Answer, Goto, guards, InRestart, TimedOut
  <2>1. CASE Reject(r)
    BY <2>1 DEF Reject
  <2>2. CASE Accept(r)
    BY <2>2 DEF Accept
  <2>3. CASE DelayOver(r)
    BY <2>3 DEF DelayOver
  <2>4. CASE GetSlot(r)
    <3>1. phase'[r] # "waiting" /\ queue # << >> /\ Head(queue) = r /\ queue' = Tail(queue)
      BY <2>4 DEF GetSlot
    <3>2. Tail(queue) = Without(queue, 1) /\ 1 \in 1 .. Len(queue) /\ Head(queue) = queue[1]
      BY <1>2, <3>1, TailIsWithout
    <3> QED BY <3>1, <3>2
  <2>5. CASE NoSlot(r)
    BY <1>2, <2>5 DEF NoSlot
  <2>6. ASSUME NEW result \in {"ok", "failed"}, CallReturns(r, result) PROVE Stays
    BY <2>6 DEF CallReturns
  <2>7. ASSUME NEW result \in {"ok", "failed"}, ReadersEnd(r, result) PROVE Stays
    BY <2>7 DEF ReadersEnd
  <2>8. CASE CallTimesOut(r)
    BY <2>8 DEF CallTimesOut
  <2>9. CASE ScriptFails(r)
    BY <2>9 DEF ScriptFails
  <2>10. CASE ScriptEnds(r) \/ KillEnds(r) \/ ChildReaped(r)
    BY <2>10 DEF ScriptEnds, KillEnds, ChildReaped
  <2>11. CASE ScStop(r) \/ SeenStopped(r) \/ ScStart(r)
    BY <2>11 DEF ScStop, SeenStopped, ScStart
  <2>12. CASE SeenRunning(r)
    BY <2>12 DEF SeenRunning
  <2>13. CASE RestartFails(r)
    BY <2>13 DEF RestartFails
  <2> QED BY <2>1, <2>2, <2>3, <2>4, <2>5, <2>6, <2>7, <2>8, <2>9, <2>10, <2>11, <2>12, <2>13 DEF Step
<1>4. ASSUME NEW q \in Requests, q # r PROVE W(q)' <=> W(q)
  BY <1>4, OthersKeep DEF SameAsBefore
<1>5. Distinct(queue) /\ \A q \in Requests : W(q) <=> InQueue(queue, q)
  BY DEF QueueIsWaiting, Distinct, InQueue
<1>6. SUFFICES Distinct(queue') /\ \A q \in Requests : W(q)' <=> InQueue(queue', q)
  BY DEF QueueIsWaiting, Distinct, InQueue
<1> HIDE DEF W
<1>7. CASE Stays
  BY <1>4, <1>5, <1>7
<1>8. CASE Joins
  BY <1>2, <1>4, <1>5, <1>8, JoinsQueue
<1>9. CASE Leaves
  <2>1. PICK i \in 1 .. Len(queue) : queue[i] = r /\ queue' = Without(queue, i)
    BY <1>9
  <2>2. Distinct(queue') /\ \A q : InQueue(queue', q) <=> InQueue(queue, q) /\ q # r
    BY <1>2, <1>5, <2>1, LeavesQueue
  <2> QED BY <1>4, <1>5, <1>9, <2>2
<1> QED BY <1>3, <1>7, <1>8, <1>9

-----------------------------------------------------------------------------
(* Locks and slots                                                         *)

\* A request has a lock, and a slot.
Held(r) == r \in Waiting \cup calls
Works(r) == phase[r] \in AtWork \/ r \in calls

\* What a step of a request does to its lock and its slot.
Stays(r) ==
  UNCHANGED <<key, busy, permits>> /\ (Held(r)' <=> Held(r)) /\ (Works(r)' <=> Works(r))
Locks(r) ==
  /\ Plan(r) /\ LockKey(r) \notin busy
  /\ key' = [key EXCEPT ![r] = LockKey(r)] /\ busy' = busy \cup {LockKey(r)}
  /\ ~Held(r) /\ Held(r)' /\ ~Works(r) /\ ~Works(r)' /\ UNCHANGED permits
Gets(r) ==
  /\ permits > 0 /\ permits' = permits - 1 /\ UNCHANGED <<key, busy>>
  /\ Held(r) /\ Held(r)' /\ ~Works(r) /\ Works(r)'
Leaves(r) ==
  /\ key' = [key EXCEPT ![r] = NoKey] /\ busy' = busy \ {key[r]}
  /\ Held(r) /\ ~Held(r)' /\ ~Works(r)'
  /\ permits' = IF Works(r) THEN permits + 1 ELSE permits
Shaped(r) == Stays(r) \/ Locks(r) \/ Gets(r) \/ Leaves(r)

LEMMA StepShapes ==
  ASSUME Typed, PhasesByType, CallsOfResets, QueueIsWaiting, NEW r \in Requests, Step(r)
  PROVE  Shaped(r)
<1>1. PhaseFits(r) /\ CallFits(r)
  BY DEF PhasesByType, CallsOfResets
<1>2. AtWork = {"calling", "script", "reading", "killing", "reaping", "killed", "stop", "stopping",
                "start", "starting"}
  BY DEF AtWork, Phases
<1> USE <1>1, <1>2 DEF Typed, PhaseFits, CallFits, Held, Works, Shaped, Waiting, Answer, Release, Goto,
        guards, InRestart, TimedOut
<1>3. CASE Reject(r)
  BY <1>3 DEF Reject, Stays
<1>4. CASE Accept(r)
  BY <1>4 DEF Accept, Locks
<1>5. CASE DelayOver(r)
  BY <1>5 DEF DelayOver, Stays
<1>6. CASE GetSlot(r)
  <2>1. phase[r] = "waiting"
    BY <1>6, HeadWaits
  <2>2. phase'[r] \in AtWork /\ permits > 0 /\ permits' = permits - 1 /\ UNCHANGED <<key, busy>>
    BY <1>6 DEF GetSlot
  <2> QED BY <2>1, <2>2 DEF Gets
<1>7. CASE NoSlot(r)
  BY <1>7 DEF NoSlot, Leaves
<1>8. ASSUME NEW result \in {"ok", "failed"}, CallReturns(r, result) PROVE Shaped(r)
  BY <1>8 DEF CallReturns, Leaves
<1>9. ASSUME NEW result \in {"ok", "failed"}, ReadersEnd(r, result) PROVE Shaped(r)
  BY <1>9 DEF ReadersEnd, Leaves
<1>10. CASE CallTimesOut(r)
  BY <1>10 DEF CallTimesOut, Stays
<1>11. CASE ScriptFails(r)
  BY <1>11 DEF ScriptFails, Leaves
<1>12. CASE ScriptEnds(r) \/ KillEnds(r) \/ ChildReaped(r)
  BY <1>12 DEF ScriptEnds, KillEnds, ChildReaped, Stays
<1>13. CASE ScStop(r) \/ SeenStopped(r) \/ ScStart(r)
  BY <1>13 DEF ScStop, SeenStopped, ScStart, Stays
<1>14. CASE SeenRunning(r)
  <2>1. CASE at[r] < Len(Request[r].services)
    BY <1>14, <2>1 DEF SeenRunning, Stays
  <2>2. CASE ~ (at[r] < Len(Request[r].services))
    BY <1>14, <2>2 DEF SeenRunning, Leaves
  <2> QED BY <2>1, <2>2
<1>15. CASE RestartFails(r)
  BY <1>15 DEF RestartFails, Leaves
<1> QED BY <1>3, <1>4, <1>5, <1>6, <1>7, <1>8, <1>9, <1>10, <1>11, <1>12, <1>13, <1>14, <1>15 DEF Step

LEMMA OthersStay ==
  ASSUME Typed, NEW r \in Requests, Step(r), NEW q \in Requests, q # r
  PROVE  (Held(q)' <=> Held(q)) /\ (Works(q)' <=> Works(q))
  BY OthersKeep DEF SameAsBefore, Held, Works, Waiting

LEMMA LocksKept ==
  ASSUME Typed, PhasesByType, CallsOfResets, LocksHeld, QueueIsWaiting, NEW r \in Requests, Step(r)
  PROVE  LocksHeld'
<1>1. \A q \in Requests \ {r} : Held(q)' <=> Held(q)
  BY OthersStay
<1>2. /\ key \in [Requests -> Keys \cup {NoKey}] /\ busy \subseteq Keys
      /\ \A q \in Requests : key[q] # NoKey <=> Held(q)
      /\ \A p, q \in Requests : key[p] # NoKey /\ key[p] = key[q] => p = q
      /\ \A q \in Requests : key[q] # NoKey => key[q] \in busy
      /\ \A k \in busy : \E q \in Requests : key[q] = k
      /\ \A q \in Requests : key[q] # NoKey /\ IsReset(q) => key[q] = <<"full", Request[q].device>>
  BY DEF Typed, LocksHeld, Held
<1>3. NoKey \notin Keys
  BY DEF NoKey, Keys
<1>4. SUFFICES
      /\ \A q \in Requests : key'[q] # NoKey <=> Held(q)'
      /\ \A p, q \in Requests : key'[p] # NoKey /\ key'[p] = key'[q] => p = q
      /\ \A q \in Requests : key'[q] # NoKey => key'[q] \in busy'
      /\ \A k \in busy' : \E q \in Requests : key'[q] = k
      /\ \A q \in Requests : key'[q] # NoKey /\ IsReset(q) => key'[q] = <<"full", Request[q].device>>
  BY DEF LocksHeld, IsReset, Held
<1>5. CASE Stays(r) \/ Gets(r)
  BY <1>1, <1>2, <1>5 DEF Stays, Gets
<1>6. CASE Locks(r)
  <2>1. /\ LockKey(r) \in Keys /\ LockKey(r) # NoKey
        /\ IsReset(r) => LockKey(r) = <<"full", Request[r].device>>
    BY <1>6, LockKeyIsKey DEF Locks
  <2>2. key[r] = NoKey
    BY <1>2, <1>6 DEF Locks
  <2>3. /\ key'[r] = LockKey(r) /\ \A q \in Requests \ {r} : key'[q] = key[q]
        /\ Held(r)' /\ LockKey(r) \notin busy /\ busy' = busy \cup {LockKey(r)}
    BY <1>2, <1>6 DEF Locks
  <2>4. \A q \in Requests \ {r} : key[q] # LockKey(r)
    BY <1>2, <2>1, <2>3
  <2>5. \A q \in Requests : key'[q] # NoKey <=> Held(q)'
    BY <1>1, <1>2, <2>1, <2>3
  <2>6. \A p, q \in Requests : key'[p] # NoKey /\ key'[p] = key'[q] => p = q
    BY <1>2, <2>1, <2>3, <2>4
  <2>7. \A q \in Requests : key'[q] # NoKey => key'[q] \in busy'
    BY <1>2, <2>3
  <2>8. ASSUME NEW k \in busy' PROVE \E q \in Requests : key'[q] = k
    <3>1. CASE k = LockKey(r)
      BY <2>3, <3>1
    <3>2. CASE k \in busy
      <4>1. PICK q \in Requests : key[q] = k
        BY <1>2, <3>2
      <4>2. q # r
        BY <1>2, <1>3, <2>2, <3>2, <4>1
      <4> QED BY <2>3, <4>1, <4>2
    <3> QED BY <2>3, <2>8, <3>1, <3>2
  <2>9. \A q \in Requests : key'[q] # NoKey /\ IsReset(q) => key'[q] = <<"full", Request[q].device>>
    BY <1>2, <2>1, <2>3
  <2> QED BY <2>5, <2>6, <2>7, <2>8, <2>9
<1>7. CASE Leaves(r)
  <2>1. /\ key'[r] = NoKey /\ \A q \in Requests \ {r} : key'[q] = key[q]
        /\ ~Held(r)' /\ busy' = busy \ {key[r]}
    BY <1>2, <1>7 DEF Leaves
  <2> QED BY <1>1, <1>2, <1>3, <2>1
<1> QED BY <1>5, <1>6, <1>7, StepShapes DEF Shaped

LEMMA WorkingIs ==
  ASSUME Typed, NEW r \in Requests, Step(r)
  PROVE  Working = {q \in Requests : Works(q)} /\ Working' = {q \in Requests : Works(q)'}
<1>1. calls \subseteq Requests /\ calls' \subseteq Requests
  BY CallsTyped DEF Typed
<1> QED BY <1>1 DEF Working, Works

LEMMA SlotsKept ==
  ASSUME Typed, PhasesByType, CallsOfResets, QueueIsWaiting, SlotsCounted, NEW r \in Requests, Step(r)
  PROVE  SlotsCounted'
<1>1. Working \subseteq Requests /\ IsFiniteSet(Working) /\ Cardinality(Working) \in Nat
  <2>1. Working \subseteq Requests
    BY DEF Working, Typed
  <2> QED BY <2>1, ActionsAssumption, FS_Subset, FS_CardinalityType
<1>2. permits \in Nat /\ MaxConcurrent \in Nat /\ permits + Cardinality(Working) = MaxConcurrent
  BY ActionsAssumption DEF Typed, SlotsCounted
<1>3. /\ \A q \in Requests \ {r} : Works(q)' <=> Works(q)
      /\ Working = {q \in Requests : Works(q)} /\ Working' = {q \in Requests : Works(q)'}
  BY OthersStay, WorkingIs
<1>4. SUFFICES permits' + Cardinality(Working') = MaxConcurrent
  BY DEF SlotsCounted
<1>5. CASE (Works(r)' <=> Works(r)) /\ permits' = permits
  <2>1. Working' = Working
    BY <1>3, <1>5
  <2> QED BY <1>2, <1>5, <2>1
<1>6. CASE ~Works(r) /\ Works(r)' /\ permits' = permits - 1
  <2>1. r \notin Working /\ Working' = Working \cup {r}
    BY <1>3, <1>6
  <2>2. Cardinality(Working') = Cardinality(Working) + 1
    BY <1>1, <2>1, FS_AddElement
  <2> QED BY <1>1, <1>2, <1>6, <2>2
<1>7. CASE Works(r) /\ ~Works(r)' /\ permits' = permits + 1
  <2>1. r \in Working /\ Working' = Working \ {r}
    BY <1>3, <1>7
  <2>2. Cardinality(Working') = Cardinality(Working) - 1
    BY <1>1, <2>1, FS_RemoveElement
  <2> QED BY <1>1, <1>2, <1>7, <2>2
<1> QED BY <1>5, <1>6, <1>7, StepShapes DEF Shaped, Stays, Locks, Gets, Leaves

-----------------------------------------------------------------------------
(* Services                                                                *)

LEMMA DownKept ==
  ASSUME Typed, PhasesByType, CallsOfResets, QueueIsWaiting, DownIsKnown, NEW r \in Requests, Step(r)
  PROVE  DownIsKnown'
<1> SUFFICES ASSUME NEW s \in Services, service'[s] # "running"
             PROVE  \E q \in Requests : AwaitedBy(s, q)'
  BY DEF DownIsKnown
<1>1. PhaseFits(r) /\ CallFits(r)
  BY DEF PhasesByType, CallsOfResets
<1>2. /\ phase[r] \in InRestart => Restarts(r, Current(r))
      /\ phase[r] \in InRestart => IsRestart(r) /\ at[r] \in DOMAIN Request[r].services
  <2>1. DOMAIN Request[r].services = 1 .. Len(Request[r].services)
    BY RequestIsTyped, LenProperties
  <2> QED BY <1>1, <2>1 DEF PhaseFits, Restarts, Current
<1>3. CASE (ScStop(r) \/ ScStart(r)) /\ s = Current(r)
  <2>1. phase[r] \in InRestart /\ phase'[r] \in {"stopping", "starting"} /\ at' = at
    BY <1>3 DEF ScStop, ScStart, Goto, Typed, InRestart
  <2> QED BY <1>2, <1>3, <2>1 DEF AwaitedBy, InRestart, Current, Restarts, IsRestart
<1>4. CASE ~ ((ScStop(r) \/ ScStart(r)) /\ s = Current(r))
  <2>1. service'[s] = service[s]
    <3> USE DEF Typed
    <3>1. CASE Reject(r) \/ Accept(r) \/ DelayOver(r) \/ GetSlot(r) \/ NoSlot(r)
      BY <3>1 DEF Reject, Accept, DelayOver, GetSlot, NoSlot
    <3>2. CASE (\E result \in {"ok", "failed"} : CallReturns(r, result) \/ ReadersEnd(r, result))
                 \/ CallTimesOut(r) \/ ScriptFails(r) \/ ScriptEnds(r) \/ KillEnds(r) \/ ChildReaped(r)
      BY <3>2 DEF CallReturns, ReadersEnd, CallTimesOut, ScriptFails, ScriptEnds, KillEnds, ChildReaped
    <3>3. CASE ScStop(r) \/ ScStart(r)
      BY <1>4, <3>3 DEF ScStop, ScStart
    <3>4. CASE SeenStopped(r) \/ SeenRunning(r) \/ RestartFails(r)
      BY <3>4 DEF SeenStopped, SeenRunning, RestartFails
    <3> QED BY <3>1, <3>2, <3>3, <3>4 DEF Step
  <2>2. PICK q \in Requests : AwaitedBy(s, q)
    BY <2>1 DEF DownIsKnown
  <2>3. CASE q # r
    BY <2>2, <2>3, OthersKeep DEF SameAsBefore, AwaitedBy, Current, Restarts, IsRestart
  <2>4. CASE q = r /\ answer[r] = "failed"
    <3>1. phase[r] = "done"
      BY <1>1, <2>4 DEF PhaseFits
    <3>2. PICK result \in {"ok", "failed"} : CallReturns(r, result)
      BY <3>1, HeadWaits DEF Step, Reject, Accept, DelayOver, NoSlot, ReadersEnd, CallTimesOut,
         ScriptFails, ScriptEnds, KillEnds, ChildReaped, ScStop, SeenStopped, ScStart, SeenRunning,
         RestartFails
    <3> QED BY <2>2, <2>4, <3>1, <3>2 DEF CallReturns, AwaitedBy, Restarts, IsRestart
  <2>5. CASE q = r /\ phase[r] \in InRestart \ {"stop"} /\ Current(r) = s
    <3>1. CASE SeenStopped(r) \/ ScStart(r)
      <4>1. phase'[r] \in InRestart \ {"stop"} /\ at' = at
        BY <3>1 DEF SeenStopped, ScStart, Goto, Typed, InRestart
      <4> QED BY <2>2, <2>5, <4>1 DEF AwaitedBy, Current, Restarts, IsRestart
    <3>2. CASE SeenRunning(r)
      BY <2>1, <2>5, <3>2 DEF SeenRunning
    <3>3. CASE RestartFails(r)
      BY <2>2, <2>5, <3>3 DEF RestartFails, Answer, Typed, AwaitedBy, Restarts, IsRestart
    <3> QED BY <1>1, <2>5, <3>1, <3>2, <3>3, HeadWaits DEF Step, Reject, Accept, DelayOver, NoSlot,
            CallReturns, ReadersEnd, CallTimesOut, ScriptFails, ScriptEnds, KillEnds, ChildReaped,
            ScStop, InRestart, CallFits
  <2> QED BY <2>2, <2>3, <2>4, <2>5 DEF AwaitedBy
<1> QED BY <1>3, <1>4

-----------------------------------------------------------------------------
(* Steps of the surroundings                                               *)

RequestsStay == UNCHANGED <<phase, guards, at, answer>>

LEMMA PartsStay ==
  ASSUME PhasesByType, CallsOfResets, LocksHeld, QueueIsWaiting, SlotsCounted, RequestsStay
  PROVE  PhasesByType' /\ CallsOfResets' /\ LocksHeld' /\ QueueIsWaiting' /\ SlotsCounted'
<1> USE DEF RequestsStay, guards
<1>1. PhasesByType' /\ CallsOfResets'
  BY DEF PhasesByType, CallsOfResets, PhaseFits, CallFits, IsReset, IsRestart
<1>2. LocksHeld'
  BY DEF LocksHeld, Waiting, IsReset
<1>3. QueueIsWaiting'
  BY DEF QueueIsWaiting
<1>4. SlotsCounted'
  BY DEF SlotsCounted, Working
<1> QED BY <1>1, <1>2, <1>3, <1>4

LEMMA WorldKeeps ==
  ASSUME Typed, TimeLeft, DownIsKnown, RequestsStay,
         \/ \E s \in Services : ServiceMoves(s)
         \/ \E d \in Devices : RegistryChanges(d)
         \/ Tick
  PROVE  Typed' /\ TimeLeft' /\ DownIsKnown'
<1>1. ASSUME NEW s \in Services, ServiceMoves(s) PROVE Typed' /\ TimeLeft' /\ DownIsKnown'
  <2> USE <1>1 DEF ServiceMoves, guards, timers
  <2>1. Typed'
    BY DEF Typed
  <2>2. TimeLeft'
    BY DEF TimeLeft, TimeFits, Budget, Waiting, IsReset
  <2>3. ASSUME NEW t \in Services, service'[t] # "running" PROVE \E r \in Requests : AwaitedBy(t, r)'
    <3>1. service[t] # "running"
      BY <2>3 DEF Typed
    <3>2. PICK r \in Requests : AwaitedBy(t, r)
      BY <3>1 DEF DownIsKnown
    <3> QED BY <3>2 DEF AwaitedBy, Current, Restarts, IsRestart
  <2> QED BY <2>1, <2>2, <2>3 DEF DownIsKnown
<1>2. ASSUME NEW d \in Devices, RegistryChanges(d) PROVE Typed' /\ TimeLeft' /\ DownIsKnown'
  <2> USE <1>2 DEF RegistryChanges, guards, timers
  <2>1. Typed'
    <3>1. registry' \in [Devices -> Entries \cup {"none"}]
      <4>1. PICK e \in Becomes[d] : registry' = [registry EXCEPT ![d] = e]
        OBVIOUS
      <4>2. e \in Entries \cup {"none"}
        BY ActionsAssumption
      <4> QED BY <4>1, <4>2 DEF Typed
    <3> QED BY <3>1 DEF Typed
  <2>2. TimeLeft'
    BY DEF TimeLeft, TimeFits, Budget, Waiting, IsReset
  <2>3. DownIsKnown'
    BY DEF DownIsKnown, AwaitedBy, Current, Restarts, IsRestart
  <2> QED BY <2>1, <2>2, <2>3
<1>3. CASE Tick
  <2> USE <1>3 DEF Tick, guards
  <2>1. ASSUME NEW r \in Requests, r \in Waiting
        PROVE  /\ phase[r] # "reaping" => /\ left[r] > 0 /\ left'[r] = left[r] - 1
                                          /\ reaped'[r] = reaped[r]
               /\ phase[r] = "reaping" => left'[r] = left[r] /\ reaped'[r] = reaped[r] + 1
               /\ age'[r] = age[r] + 1
               /\ phase[r] = "delay" => delay[r] > 0 /\ delay'[r] = delay[r] - 1
    BY <2>1 DEF Typed, TimeLeft, TimeFits
  <2>2. ASSUME NEW r \in Requests, r \notin Waiting
        PROVE  /\ left'[r] = left[r] /\ age'[r] = age[r] /\ phase[r] # "delay" /\ delay'[r] = delay[r]
               /\ phase[r] # "reaping" /\ reaped'[r] = reaped[r]
    BY <2>2 DEF Typed, Waiting
  <2>3. Typed'
    <3>1. delay' \in [Requests -> Nat]
      <4>1. ASSUME NEW r \in Requests, phase[r] = "delay" PROVE delay[r] - 1 \in Nat
        <5>1. r \in Waiting
          BY <4>1 DEF Waiting
        <5>2. delay[r] > 0 /\ delay[r] \in Nat
          BY <2>1, <4>1, <5>1 DEF Typed
        <5> QED BY <5>2
      <4> QED BY <4>1 DEF Typed
    <3>2. /\ left' \in [Requests -> Nat] /\ age' \in [Requests -> Nat]
          /\ reaped' \in [Requests -> Nat]
      BY <2>1, <2>2 DEF Typed
    <3> QED BY <3>1, <3>2 DEF Typed
  <2>4. ASSUME NEW r \in Requests PROVE TimeFits(r)'
    <3>1. /\ TimeFits(r) /\ left[r] \in Nat /\ age[r] \in Nat /\ delay[r] \in Nat
          /\ reaped[r] \in Nat
      BY DEF TimeLeft, Typed
    <3>4. Budget(r) \in Nat
      <4>1. Timeout \in Nat /\ KillTimeout \in Nat /\ Grace \in Nat
        BY ActionsAssumption
      <4> QED BY <4>1 DEF Budget
    <3>2. CASE r \in Waiting
      <4>1. r \in Waiting' /\ Budget(r)' = Budget(r) /\ phase' = phase
        BY <3>2 DEF Waiting, Budget, IsReset
      <4>2. age'[r] + left'[r] - reaped'[r] = age[r] + left[r] - reaped[r]
        BY <2>1, <3>1, <3>2
      <4>3. phase'[r] = "delay" => delay'[r] < left'[r]
        BY <2>1, <3>1, <3>2 DEF TimeFits
      <4>4. age'[r] + left'[r] <= Budget(r) + reaped'[r]
        BY <2>1, <3>1, <3>2, <3>4, <4>2 DEF TimeFits
      <4>5. phase[r] \notin {"reaping", "killed"} => reaped'[r] = 0
        BY <2>1, <3>1, <3>2 DEF TimeFits
      <4> QED BY <3>2, <4>1, <4>3, <4>4, <4>5 DEF TimeFits
    <3>3. CASE r \notin Waiting
      BY <2>2, <3>1, <3>3 DEF TimeFits, Waiting
    <3> QED BY <3>2, <3>3
  <2>5. DownIsKnown'
    BY DEF DownIsKnown, AwaitedBy, Current, Restarts, IsRestart
  <2> QED BY <2>3, <2>4, <2>5 DEF TimeLeft
<1> QED BY <1>1, <1>2, <1>3

-----------------------------------------------------------------------------
(* The invariant                                                           *)

LEMMA InvInitially == Init => IInv
<1> SUFFICES ASSUME Init PROVE IInv
  OBVIOUS
<1> USE ActionsAssumption DEF Init
<1>1. Typed
  BY EmptySeq DEF Typed, Phases, Entries
<1>2. PhasesByType /\ CallsOfResets /\ LocksHeld /\ TimeLeft
  BY DEF PhasesByType, PhaseFits, CallsOfResets, CallFits, LocksHeld, Waiting, TimeLeft, TimeFits,
     InRestart, TimedOut
<1>3. QueueIsWaiting
  BY EmptySeq DEF QueueIsWaiting
<1>4. SlotsCounted
  <2>1. Working = {}
    BY DEF Working, AtWork
  <2> QED BY <2>1, FS_EmptySet DEF SlotsCounted
<1>5. DownIsKnown
  BY DEF DownIsKnown
<1> QED BY <1>1, <1>2, <1>3, <1>4, <1>5 DEF IInv

LEMMA InvKept == IInv /\ [Next]_vars => IInv'
<1> SUFFICES ASSUME IInv, [Next]_vars PROVE IInv'
  OBVIOUS
<1> USE DEF IInv
<1>1. ASSUME NEW r \in Requests, Step(r) PROVE IInv'
  BY <1>1, TypedKept, PhasesKept, LocksKept, QueueKept, SlotsKept, TimeKept, DownKept
<1>2. CASE (\E s \in Services : ServiceMoves(s)) \/ (\E d \in Devices : RegistryChanges(d)) \/ Tick
  <2>1. RequestsStay
    BY <1>2 DEF ServiceMoves, RegistryChanges, Tick, RequestsStay, guards
  <2> QED BY <1>2, <2>1, PartsStay, WorldKeeps
<1>3. CASE UNCHANGED vars
  <2>1. RequestsStay /\ UNCHANGED <<registry, timers, service>>
    BY <1>3 DEF vars, RequestsStay
  <2>2. Typed'
    BY <2>1 DEF Typed, RequestsStay, guards, timers
  <2>3. TimeLeft'
    BY <2>1 DEF TimeLeft, TimeFits, Budget, Waiting, IsReset, RequestsStay, guards, timers
  <2>4. DownIsKnown'
    BY <2>1 DEF DownIsKnown, AwaitedBy, Current, Restarts, IsRestart, RequestsStay
  <2> QED BY <2>1, <2>2, <2>3, <2>4, PartsStay
<1> QED BY <1>1, <1>2, <1>3 DEF Next

-----------------------------------------------------------------------------
(* Results                                                                 *)

LEMMA InvTyped == IInv => TypeOK
<1> SUFFICES ASSUME IInv PROVE TypeOK
  OBVIOUS
<1>1. Working \subseteq Requests
  BY DEF IInv, Typed, Working
<1>2. IsFiniteSet(Working) /\ Cardinality(Working) \in Nat
  BY <1>1, ActionsAssumption, FS_Subset, FS_CardinalityType
<1>3. permits \in 0 .. MaxConcurrent
  BY <1>2, ActionsAssumption DEF IInv, Typed, SlotsCounted
<1> QED BY <1>3 DEF IInv, Typed, TypeOK

LEMMA InvContains == IInv => OverrunsContained
<1> SUFFICES ASSUME IInv PROVE OverrunsContained
  OBVIOUS
<1>1. ResetsExclusive
  <2> SUFFICES ASSUME NEW q \in calls, NEW r \in calls, Request[q].device = Request[r].device
               PROVE  q = r
    BY DEF ResetsExclusive
  <2>1. q \in Requests /\ r \in Requests /\ IsReset(q) /\ IsReset(r)
    BY DEF IInv, Typed, CallsOfResets, CallFits
  <2>2. key[q] # NoKey /\ key[r] # NoKey
    BY <2>1 DEF IInv, LocksHeld
  <2>3. key[q] = key[r]
    BY <2>1, <2>2 DEF IInv, LocksHeld
  <2> QED BY <2>1, <2>2, <2>3 DEF IInv, LocksHeld
<1>2. ASSUME NEW r \in Requests
      PROVE  age[r] <= CASE IsReset(r) -> Timeout
                         [] Request[r].type = "restart_services" -> 2 * Timeout
                         [] Request[r].type = "custom_script" ->
                              2 * Timeout + Grace
                                + (IF phase[r] \in TimedOut THEN KillTimeout + reaped[r] ELSE 0)
  <2>1. /\ age[r] \in Nat /\ left[r] \in Nat /\ reaped[r] \in Nat
        /\ Timeout \in Nat /\ KillTimeout \in Nat /\ Grace \in Nat
        /\ TimeFits(r) /\ PhaseFits(r) /\ Request[r].type \in Types
    BY ActionsAssumption, RequestIsTyped DEF IInv, Typed, TimeLeft, PhasesByType
  <2>2. /\ age[r] <= Budget(r) + reaped[r] /\ Budget(r) \in Nat
        /\ phase[r] \notin TimedOut => reaped[r] = 0
    BY <2>1 DEF TimeFits, Budget, Waiting, TimedOut
  <2>3. ~ (IsReset(r) /\ phase[r] \in TimedOut)
    BY <2>1 DEF IsReset, PhaseFits
  <2>4. CASE IsReset(r)
    BY <2>1, <2>2, <2>3, <2>4 DEF Budget, IsReset
  <2>5. CASE Request[r].type = "restart_services"
    <3>1. /\ ~ IsReset(r) /\ phase[r] \notin {"reading"} \cup TimedOut
          /\ Request[r].type # "custom_script"
      BY <2>1, <2>5 DEF IsReset, PhaseFits
    <3>2. Budget(r) <= 2 * Timeout
      BY <2>1, <3>1 DEF Budget, TimedOut
    <3> QED BY <2>1, <2>2, <2>5, <3>1, <3>2
  <2>6. CASE Request[r].type = "custom_script"
    <3>1. ~ IsReset(r) /\ Request[r].type # "restart_services"
      BY <2>6 DEF IsReset
    <3>2. Budget(r) <= 2 * Timeout + Grace + (IF phase[r] \in TimedOut THEN KillTimeout ELSE 0)
      BY <2>1, <3>1 DEF Budget
    <3> QED BY <2>1, <2>2, <2>6, <3>1, <3>2
  <2> QED BY <2>1, <2>4, <2>5, <2>6 DEF IsReset, Types
<1> QED BY <1>1, <1>2 DEF OverrunsContained, AnsweredInTime

LEMMA InvServes == IInv => ServicesUp
<1> SUFFICES ASSUME IInv, NEW s \in Services,
                    \A r \in Requests : Restarts(r, s) => phase[r] = "new" \/ answer[r] = "ok",
                    service[s] # "running"
             PROVE  FALSE
  BY DEF ServicesUp, Restarts, IsRestart
<1>1. PICK r \in Requests : AwaitedBy(s, r)
  BY DEF IInv, DownIsKnown
<1>2. PhaseFits(r) /\ (phase[r] = "new" \/ answer[r] = "ok")
  BY <1>1 DEF AwaitedBy, IInv, PhasesByType
<1> QED BY <1>1, <1>2 DEF AwaitedBy, PhaseFits, InRestart

\* In every behaviour of the edge's actions, whatever requests come and devices come
\* and go, the variables have their types and no more than max_concurrent slots exist.
THEOREM TypeCorrect == Spec => []TypeOK
<1>1. Spec => []IInv
  BY InvInitially, InvKept, PTL DEF Spec
<1> QED BY <1>1, InvTyped, PTL

\* A driver call that cannot be cancelled never meets a second one of its device, and
\* every answer comes in time, but for what the system takes to end a killed script
\* (ActionRuntime::execute, reset_device, run_captured).
THEOREM OverrunsAreContained == Spec => []OverrunsContained
<1>1. Spec => []IInv
  BY InvInitially, InvKept, PTL DEF Spec
<1> QED BY <1>1, InvContains, PTL

\* Restarts that all went well leave their services running, whatever they share
\* (restart_services).
THEOREM ServicesComeUp == Spec => []ServicesUp
<1>1. Spec => []IInv
  BY InvInitially, InvKept, PTL DEF Spec
<1> QED BY <1>1, InvServes, PTL

-----------------------------------------------------------------------------
(* The model implements its safety rules                                   *)

LEMMA RulesInitially == Init => Slots!Free
<1> SUFFICES ASSUME Init PROVE Slots!Free
  OBVIOUS
<1>1. Working = {}
  BY DEF Init, Working, AtWork
<1> QED BY <1>1 DEF Init, Slots!Free

LEMMA StepUses ==
  ASSUME IInv, NEW r \in Requests, Step(r)
  PROVE  Slots!Use \/ UNCHANGED <<key, Working>>
<1>1. /\ \A q \in Requests \ {r} : Works(q)' <=> Works(q)
      /\ Working = {q \in Requests : Works(q)} /\ Working' = {q \in Requests : Works(q)'}
  BY OthersStay, WorkingIs DEF IInv
<1>2. /\ key \in [Requests -> Keys \cup {NoKey}]
      /\ \A q \in Requests : key[q] # NoKey <=> Held(q)
      /\ \A q \in Requests : key[q] # NoKey => key[q] \in busy
  BY DEF IInv, Typed, LocksHeld, Held
<1>3. CASE Stays(r)
  BY <1>1, <1>3 DEF Stays
<1>4. CASE Locks(r)
  <2>1. LockKey(r) \in Keys /\ LockKey(r) # NoKey
    BY LockKeyIsKey
  <2>2. key[r] = NoKey /\ Working' = Working /\ \A q \in Requests : key[q] # LockKey(r)
    BY <1>1, <1>2, <1>4, <2>1 DEF Locks
  <2>3. Slots!Lock(r, LockKey(r))
    BY <1>4, <2>2 DEF Slots!Lock, Locks
  <2> QED BY <2>1, <2>3 DEF Slots!Use
<1>5. CASE Gets(r)
  <2>1. key[r] # NoKey /\ r \notin Working /\ Working' = Working \cup {r} /\ permits > 0 /\ key' = key
    BY <1>1, <1>2, <1>5 DEF Gets
  <2>2. Cardinality(Working) < MaxConcurrent
    <3>1. IsFiniteSet(Working) /\ Cardinality(Working) \in Nat
      BY <1>1, ActionsAssumption, FS_Subset, FS_CardinalityType
    <3> QED BY <2>1, <3>1, ActionsAssumption DEF IInv, Typed, SlotsCounted
  <2>3. Slots!TakeSlot(r)
    BY <2>1, <2>2 DEF Slots!TakeSlot, Cardinality, Slots!Cardinality
  <2> QED BY <2>3 DEF Slots!Use
<1>6. CASE Leaves(r)
  <2>1. key[r] # NoKey /\ Working' = Working \ {r} /\ key' = [key EXCEPT ![r] = NoKey]
    BY <1>1, <1>2, <1>6 DEF Leaves
  <2>2. Slots!LetGo(r)
    BY <2>1 DEF Slots!LetGo
  <2> QED BY <2>2 DEF Slots!Use
<1> QED BY <1>3, <1>4, <1>5, <1>6, StepShapes DEF IInv, Shaped

\* The edge's actions implement the rules they promise: one at a time per device,
\* max_concurrent at work, and what an action held is free when it has let go of it
\* (action.rs, its safety rules).
THEOREM RulesAreKept == Spec => KeepsRules
<1>1. Spec => []IInv
  BY InvInitially, InvKept, PTL DEF Spec
<1>2. ASSUME IInv, [Next]_vars PROVE [Slots!Use]_<<key, Working>>
  <2>1. CASE \E r \in Requests : Step(r)
    BY <1>2, <2>1, StepUses
  <2>2. CASE (\E s \in Services : ServiceMoves(s)) \/ (\E d \in Devices : RegistryChanges(d)) \/ Tick
    BY <2>2 DEF ServiceMoves, RegistryChanges, Tick, guards, Working
  <2>3. CASE UNCHANGED vars
    BY <2>3 DEF vars, guards, Working
  <2> QED BY <1>2, <2>1, <2>2, <2>3 DEF Next
<1> QED BY <1>1, <1>2, RulesInitially, PTL DEF Spec, KeepsRules, Slots!Exclusive
=============================================================================
