------------------------------ MODULE DbWriter ------------------------------
(***************************************************************************)
(* The ordered database writer of nimon-hub (db_writer.rs): every component *)
(* hands its writes to one worker task, through a priority lane that is     *)
(* never full and a bounded low lane that sheds, and the worker runs them   *)
(* one at a time.  `flush` sends a barrier through the low lane.            *)
(*                                                                          *)
(* The producers run on other threads than the worker (multi-threaded tokio *)
(* runtime), so the two polls of its `biased` select are two steps here.    *)
(* An operation is the number of its submission: 1, 2, 3, ...               *)
(***************************************************************************)
EXTENDS Integers, Sequences, FiniteSets

CONSTANTS
  LowCapacity,   \* DbWriterOptions::low_capacity
  MaxOps         \* bound: operations submitted

ASSUME CapacityAssumption == LowCapacity \in Nat \ {0}
ASSUME MaxOpsAssumption == MaxOps \in Nat

VARIABLES
  issued,    \* operations submitted so far
  kind,      \* lane of each of them; a barrier is an operation of `flush`
  fate,      \* what became of it
  high,      \* priority lane (unbounded channel)
  low,       \* low lane (bounded channel)
  waiting,   \* flushes waiting for a slot of the low lane (send().await), first come first served
  granted,   \* flushes that own a slot they have not filled yet
  open,      \* a handle of the writer exists
  pc,        \* the worker: next poll, running an operation, or stopped
  current,   \* the operation it runs
  timeouts,  \* Stats::consecutive_timeouts
  panics,    \* Stats::panics
  shed       \* Stats::shed

lanes == <<high, low, waiting, granted>>
stats == <<timeouts, panics>>
vars == <<issued, kind, fate, lanes, open, pc, current, stats, shed>>

OpIds == 1 .. MaxOps
Kinds == {"none", "high", "low", "barrier"}
Finished == {"ok", "panicked", "aborted"}
Fates == {"none", "queued", "running", "shed", "abandoned"} \cup Finished

\* Slots of the low lane that are neither filled nor promised to a flush.
FreeSlots == LowCapacity - Len(low) - Cardinality(granted)

Submitted(k, f) ==
  /\ open /\ issued < MaxOps
  /\ issued' = issued + 1
  /\ kind' = [kind EXCEPT ![issued + 1] = k]
  /\ fate' = [fate EXCEPT ![issued + 1] = f]

-----------------------------------------------------------------------------
(* The handles *)

\* Mutant: the newest priority write goes first.
SubmitFirst ==
  /\ Submitted("high", "queued")
  /\ high' = <<issued + 1>> \o high
  /\ UNCHANGED <<low, waiting, granted, open, pc, current, stats, shed>>

\* submit and call: never dropped.
Submit ==
  /\ Submitted("high", "queued")
  /\ high' = Append(high, issued + 1)
  /\ UNCHANGED <<low, waiting, granted, open, pc, current, stats, shed>>

\* submit_low: shed when there is no free slot (try_send).
SubmitLow ==
  \/ /\ FreeSlots > 0
     /\ Submitted("low", "queued")
     /\ low' = Append(low, issued + 1)
     /\ UNCHANGED <<high, waiting, granted, open, pc, current, stats, shed>>
  \/ /\ FreeSlots <= 0
     /\ Submitted("low", "shed")
     /\ shed' = shed + 1
     /\ UNCHANGED <<lanes, open, pc, current, stats>>

\* Mutant: the barrier travels the priority lane.
FlushPriority ==
  /\ Submitted("barrier", "queued")
  /\ high' = Append(high, issued + 1)
  /\ UNCHANGED <<low, waiting, granted, open, pc, current, stats, shed>>

\* flush: takes a slot of the low lane or waits for one ...
Flush ==
  /\ Submitted("barrier", "queued")
  /\ IF FreeSlots > 0
     THEN granted' = granted \cup {issued + 1} /\ UNCHANGED waiting
     ELSE waiting' = waiting \cup {issued + 1} /\ UNCHANGED granted
  /\ UNCHANGED <<high, low, open, pc, current, stats, shed>>

\* ... and sends its barrier, which the worker answers.
SendBarrier ==
  \E b \in granted :
    /\ granted' = granted \ {b}
    /\ low' = Append(low, b)
    /\ UNCHANGED <<issued, kind, fate, high, waiting, open, pc, current, stats, shed>>

\* A caller gives up waiting for a slot (the shutdown waits five seconds).
GiveUp ==
  \E b \in waiting :
    /\ fate' = [fate EXCEPT ![b] = "abandoned"]
    /\ waiting' = waiting \ {b}
    /\ UNCHANGED <<issued, kind, high, low, granted, open, pc, current, stats, shed>>

\* The last handle is dropped; a pending flush holds one.
Close ==
  /\ open /\ waiting = {} /\ granted = {}
  /\ open' = FALSE
  /\ UNCHANGED <<issued, kind, fate, lanes, pc, current, stats, shed>>

-----------------------------------------------------------------------------
(* The worker *)

Run(o) ==
  /\ pc' = "run"
  /\ current' = o
  /\ fate' = [fate EXCEPT ![o] = "running"]

\* The slot an operation leaves goes to the flush that waited longest.
ReleaseSlot ==
  \/ /\ waiting = {}
     /\ UNCHANGED <<waiting, granted>>
  \/ \E b \in waiting : /\ \A c \in waiting : b <= c
                         /\ waiting' = waiting \ {b}
                         /\ granted' = granted \cup {b}

\* Mutant: the newest low write is taken.
TakeNewest ==
  /\ low # <<>>
  /\ low' = SubSeq(low, 1, Len(low) - 1)
  /\ ReleaseSlot
  /\ Run(low[Len(low)])

TakeLow ==
  /\ low # <<>>
  /\ low' = Tail(low)
  /\ ReleaseSlot
  /\ Run(Head(low))

\* First poll of the select: the priority lane.
PollHigh ==
  /\ pc = "high"
  /\ \/ /\ high # <<>>
        /\ high' = Tail(high)
        /\ Run(Head(high))
     \/ /\ high = <<>>
        /\ pc' = IF open THEN "low" ELSE "drain"
        /\ UNCHANGED <<high, current, fate>>
  /\ UNCHANGED <<issued, kind, low, waiting, granted, open, stats, shed>>

\* Mutant: once the worker waits for the low lane it waits for nothing else.
PollLowForever ==
  /\ pc = "low"
  /\ \/ TakeLow
     \/ /\ low = <<>> /\ ~ open
        /\ pc' = "high"
        /\ UNCHANGED <<low, waiting, granted, current, fate>>
  /\ UNCHANGED <<issued, kind, high, open, stats, shed>>

\* Second poll: the low lane, or back to waiting for either.
PollLow ==
  /\ pc = "low"
  /\ \/ TakeLow
     \/ /\ low = <<>>
        /\ pc' = "high"
        /\ UNCHANGED <<low, waiting, granted, current, fate>>
  /\ UNCHANGED <<issued, kind, high, open, stats, shed>>

\* Mutant: the worker stops with the last handle.
DrainNothing ==
  /\ pc = "drain"
  /\ pc' = "stopped"
  /\ UNCHANGED <<issued, kind, fate, lanes, open, current, stats, shed>>

\* Every handle is gone and the priority lane is empty: run what is left, stop.
Drain ==
  /\ pc = "drain"
  /\ \/ TakeLow
     \/ /\ low = <<>>
        /\ pc' = "stopped"
        /\ UNCHANGED <<low, waiting, granted, current, fate>>
  /\ UNCHANGED <<issued, kind, high, open, stats, shed>>

\* Mutant: after an operation the worker goes on with the low lane.
EndedToLow(f) ==
  /\ pc = "run"
  /\ pc' = "low"
  /\ current' = 0
  /\ fate' = [fate EXCEPT ![current] = f]
  /\ UNCHANGED <<issued, kind, lanes, open, shed>>

Ended(f) ==
  /\ pc = "run"
  /\ pc' = "high"
  /\ current' = 0
  /\ fate' = [fate EXCEPT ![current] = f]
  /\ UNCHANGED <<issued, kind, lanes, open, shed>>

\* run_op: a panic is contained, an operation past its deadline is aborted.
Succeed == Ended("ok") /\ timeouts' = 0 /\ UNCHANGED panics
\* Mutant: the operation runs in the worker's own task, which ends with it.
PanicUncontained ==
  /\ pc = "run" /\ pc' = "stopped"
  /\ current' = 0
  /\ fate' = [fate EXCEPT ![current] = "panicked"]
  /\ panics' = panics + 1
  /\ UNCHANGED <<issued, kind, lanes, open, timeouts, shed>>

Panic == Ended("panicked") /\ timeouts' = 0 /\ panics' = panics + 1
Abort == Ended("aborted") /\ timeouts' = timeouts + 1 /\ UNCHANGED panics

-----------------------------------------------------------------------------
Init ==
  /\ issued = 0
  /\ kind = [o \in OpIds |-> "none"]
  /\ fate = [o \in OpIds |-> "none"]
  /\ high = <<>> /\ low = <<>> /\ waiting = {} /\ granted = {}
  /\ open = TRUE
  /\ pc = "high" /\ current = 0
  /\ timeouts = 0 /\ panics = 0 /\ shed = 0

Handles == Submit \/ SubmitLow \/ Flush \/ SendBarrier \/ GiveUp \/ Close
Worker == PollHigh \/ PollLow \/ Drain \/ Succeed \/ Panic \/ Abort

Next == Handles \/ Worker

\* The worker is a task of the runtime, every operation ends by its deadline,
\* and a flush that owns a slot fills it.
Spec == Init /\ [][Next]_vars
FairSpec == Spec /\ WF_vars(Worker) /\ WF_vars(SendBarrier)

-----------------------------------------------------------------------------
(* Properties *)

TypeOK ==
  /\ issued \in 0 .. MaxOps
  /\ kind \in [OpIds -> Kinds]
  /\ fate \in [OpIds -> Fates]
  /\ high \in Seq(OpIds) /\ low \in Seq(OpIds)
  /\ waiting \subseteq OpIds /\ granted \subseteq OpIds
  /\ open \in BOOLEAN
  /\ pc \in {"high", "low", "drain", "run", "stopped"}
  /\ current \in 0 .. MaxOps
  /\ timeouts \in Nat /\ panics \in Nat /\ shed \in Nat

Began(o) == fate[o] \in {"running"} \cup Finished

\* Each lane runs in the order of submission: a priority write never begins before
\* an earlier one, which nothing sheds (`call` and `submit` share the lane), and a
\* low write never before an earlier low write that was not shed.  Across the lanes,
\* a priority write is overtaken by one operation of the low lane at most: the one
\* taken between the two polls, and none before the priority lane is empty again.
PriorityInOrder ==
  \A a, b \in OpIds :
    a < b /\ kind[a] = "high" /\ kind[b] = "high" /\ Began(b) => Began(a)
LowInOrder ==
  \A a, b \in OpIds :
    a < b /\ kind[a] = "low" /\ kind[b] = "low" /\ Began(b) => Began(a) \/ fate[a] = "shed"
Overtakes(b, a) ==
  /\ kind[a] = "high" /\ fate[a] = "queued"
  /\ kind[b] \in {"low", "barrier"} /\ a < b /\ Began(b)
OvertakenOnce == \A a, b, c \in OpIds : Overtakes(b, a) /\ Overtakes(c, a) => b = c
LanesInOrder == PriorityInOrder /\ LowInOrder /\ OvertakenOnce

\* Once a flush's barrier begins, and so when the flush returns, every low write
\* submitted before it ended (or was shed): the barrier waits for a slot behind
\* no later write, and no earlier one is still running.
FlushCoversLow ==
  \A a, b \in OpIds :
    a < b /\ kind[a] = "low" /\ kind[b] = "barrier" /\ Began(b)
      => fate[a] \in Finished \cup {"shed"}

\* The worker stops only when both lanes are empty: no write that was accepted is lost by closing the writer.
StoppedMeansDrained ==
  pc = "stopped" => \A o \in 1 .. issued : fate[o] \in Finished \cup {"shed", "abandoned"}

\* A flush leaves no earlier low write behind, and a stop no write that was accepted:
\* both of the above.
NothingLeftBehind == FlushCoversLow /\ StoppedMeansDrained

\* The low lane holds at most its capacity, slots promised to flushes included.
LowBounded == Len(low) + Cardinality(granted) <= LowCapacity

\* A priority write that was submitted runs, whatever the other writes do.
PriorityRuns == \A o \in OpIds : kind[o] = "high" ~> fate[o] \in Finished

\* A flush returns, whether it finds a slot, waits for one, or the writer is closed
\* after it, unless its caller gives up first.
FlushReturns == \A o \in OpIds : kind[o] = "barrier" ~> fate[o] \in Finished \cup {"abandoned"}

\* What was handed to the writer ends, whatever panics, overruns or comes next: both
\* of the above.
WritesEnd == PriorityRuns /\ FlushReturns

\* Two claims that the code does not keep and no run checks.  That of
\* db_writer.rs:20-22: a low write never overtakes an earlier priority write.
LowNeverOvertakes ==
  \A a, b \in OpIds :
    a < b /\ kind[a] = "high" /\ kind[b] = "low" /\ Began(b) => Began(a)

\* And that of db_writer.rs:231-233: a flush covers the earlier writes of both lanes.
FlushCoversBoth ==
  \A a, b \in OpIds :
    a < b /\ kind[a] \in {"high", "low"} /\ kind[b] = "barrier" /\ Began(b)
      => fate[a] \in Finished \cup {"shed"}
=============================================================================
