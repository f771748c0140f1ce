---------------------------- MODULE ExclusiveSlots ----------------------------
(***************************************************************************)
(* What the edge promises of remediation actions (nimon-edge, action.rs,   *)
(* its safety rules): one action per target at a time, at most Capacity    *)
(* doing their work at once, and what an action held is free when it has   *)
(* let go of it.                                                           *)
(***************************************************************************)
EXTENDS Naturals, FiniteSets

CONSTANTS Users, Targets, Capacity, NoTarget

VARIABLES
  target,  \* what a user has locked
  slots    \* the users that have a slot

Free == target = [u \in Users |-> NoTarget] /\ slots = {}

Lock(u, t) ==
  /\ target[u] = NoTarget
  /\ target' = [target EXCEPT ![u] = t]
  /\ \A v \in Users : target[v] # t
  /\ UNCHANGED slots

TakeSlot(u) ==
  /\ target[u] # NoTarget /\ u \notin slots
  /\ Cardinality(slots) < Capacity
  /\ slots' = slots \cup {u}
  /\ UNCHANGED target

\* With the target goes the slot, if there is one.
LetGo(u) ==
  /\ target[u] # NoTarget
  /\ target' = [target EXCEPT ![u] = NoTarget]
  /\ slots' = slots \ {u}

Use == \E u \in Users : (\E t \in Targets : Lock(u, t)) \/ TakeSlot(u) \/ LetGo(u)

Exclusive == Free /\ [][Use]_<<target, slots>>
=============================================================================
