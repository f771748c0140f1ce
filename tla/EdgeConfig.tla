------------------------------ MODULE EdgeConfig ------------------------------
(***************************************************************************)
(* The desired configuration of one edge, from the hub's API to the edge's *)
(* device manager (nimon-hub server/mod.rs, routes.rs, ws.rs; nimon-edge   *)
(* hub_connector.rs, device_manager.rs).                                   *)
(*                                                                         *)
(* Request handlers and the registrations of connections run in parallel;  *)
(* each touch of the shared override map or session store is a step.  A    *)
(* field that is not set is Unset.  queue[c] is what was sent on           *)
(* connection c and has not arrived.  The hub does not restart here: it    *)
(* would forget the overrides (README, known limits).                      *)
(***************************************************************************)
EXTENDS Integers, Sequences, FiniteSets

CONSTANTS
  Requests,      \* bound: POST requests to .../config, each served once
  Body,          \* the body of each
  Defaults,      \* edges.defaults of the hub's configuration
  Override,      \* the entry of edges.overrides of this edge
  Own,           \* what the edge starts with
  MaxConnections,\* bound on the connections of the edge
  Capacity       \* OUTBOUND_CAPACITY, with what is on the wire

Fields == {"interval", "warning", "critical"}
Thresholds == {"warning", "critical"}
Unset == 0
Configs == [Fields -> Nat]
Nothing == [f \in Fields |-> Unset]
HubDefault == [warning |-> 65, critical |-> 75]  \* DEFAULT_TEMP_..._C
Connections == 1 .. MaxConnections

ASSUME ConfigAssumption ==
  /\ IsFiniteSet(Requests) /\ MaxConnections \in Nat /\ Capacity \in Nat \ {0}
  /\ Body \in [Requests -> Configs] /\ Defaults \in Configs /\ Override \in Configs /\ Own \in Configs

\* A partial push is checked against thresholds the edge is assumed to have: the
\* agreement below is for edges that do have them, and an interval of their own.
ASSUME OwnAssumption ==
  /\ \A f \in Thresholds : Own[f] = HubDefault[f]
  /\ Own["interval"] # Unset

VARIABLES
  override,  \* HubState::edge_overrides of the edge
  session,   \* the connection in the session store, or 0
  phase, effective, target,  \* a request's handler and what it holds
  reg,       \* per connection: where its registration stands
  desired,   \* the desired state a registration has read
  legacy,    \* the edge speaks protocol 1.0
  closing,   \* connections told to close
  closed,    \* connections whose task has ended
  queue,     \* sent to the edge, not yet arrived
  live,      \* the connection the edge has, or 0
  edge,      \* DeviceManagerActor: settings and thresholds
  merges,    \* history: number of merges
  known,     \* history: merges when a request merged
  readAt,    \* history: merges when a registration read the desired state
  newest,    \* history: the most merges known to anything sent on a connection
  raced      \* history: connections where an older state was sent after a newer

handlers == <<phase, effective, target>>
registrations == <<reg, desired, legacy>>
history == <<merges, known, readAt, newest, raced>>
vars == <<override, session, handlers, registrations, closing, closed, queue, live, edge, history>>

Init ==
  /\ override = Nothing
  /\ session = 0 /\ live = 0
  /\ phase = [r \in Requests |-> "new"]
  /\ effective = [r \in Requests |-> Nothing]
  /\ target = [r \in Requests |-> 0]
  /\ reg = [c \in Connections |-> "none"]
  /\ desired = [c \in Connections |-> Nothing]
  /\ legacy \in BOOLEAN
  /\ closing = {} /\ closed = {}
  /\ queue = [c \in Connections |-> << >>]
  /\ edge = Own
  /\ merges = 0
  /\ known = [r \in Requests |-> 0]
  /\ readAt = [c \in Connections |-> 0]
  /\ newest = [c \in Connections |-> 0]
  /\ raced = {}

-----------------------------------------------------------------------------
(* The desired state *)

Overlay(config, other) == [f \in Fields |-> IF other[f] # Unset THEN other[f] ELSE config[f]]
IsEmpty(config) == config = Nothing

Resolve == Overlay(Defaults, Override)
DesiredFor == Overlay(Resolve, override)

Effective(config, f) == IF config[f] # Unset THEN config[f] ELSE HubDefault[f]
CheckThresholdOrder(config) == Effective(config, "warning") < Effective(config, "critical")

\* Mutant: thresholds a request leaves out are pushed as the hub's defaults.
ToUpdateFull(config, isLegacy) ==
  [f \in Fields |-> IF f \in Thresholds THEN Effective(config, f) ELSE config[f]]

\* desired_to_config_update of a config that is not empty
ToUpdate(config, isLegacy) ==
  [f \in Fields |-> IF isLegacy /\ f \in Thresholds THEN Effective(config, f) ELSE config[f]]

-----------------------------------------------------------------------------
(* push_edge_config_handler *)

\* Some(0) is refused before it can be stored; so is a body without a field.
Validate(request) == ~IsEmpty(request)

\* Mutant: the request's own thresholds are compared, not those it leads to.
MergeAlone(r) ==
  LET merged == Overlay(override, Body[r]) IN
  /\ phase[r] = "new" /\ Validate(Body[r]) /\ CheckThresholdOrder(Body[r])
  /\ override' = merged
  /\ effective' = [effective EXCEPT ![r] = Overlay(Resolve, merged)]
  /\ phase' = [phase EXCEPT ![r] = "merged"]
  /\ merges' = merges + 1
  /\ known' = [known EXCEPT ![r] = merges + 1]
  /\ UNCHANGED <<session, target, registrations, closing, closed, queue, live, edge>>
  /\ UNCHANGED <<readAt, newest, raced>>

\* try_merge_edge_override: checked and stored under the lock of the entry.
Merge(r) ==
  LET merged == Overlay(override, Body[r]) IN
  /\ phase[r] = "new" /\ Validate(Body[r]) /\ CheckThresholdOrder(Overlay(Resolve, merged))
  /\ override' = merged
  /\ effective' = [effective EXCEPT ![r] = Overlay(Resolve, merged)]
  /\ phase' = [phase EXCEPT ![r] = "merged"]
  /\ merges' = merges + 1
  /\ known' = [known EXCEPT ![r] = merges + 1]
  /\ UNCHANGED <<session, target, registrations, closing, closed, queue, live, edge>>
  /\ UNCHANGED <<readAt, newest, raced>>

\* The answer is sent: 400, 202 "stored", 200 "pushed" or 502.
Respond(r) ==
  /\ phase' = [phase EXCEPT ![r] = "done"]
  /\ effective' = [effective EXCEPT ![r] = Nothing]
  /\ target' = [target EXCEPT ![r] = 0]

Refuse(r) ==
  /\ phase[r] = "new"
  /\ ~Validate(Body[r]) \/ ~CheckThresholdOrder(Overlay(Resolve, Overlay(override, Body[r])))
  /\ Respond(r)
  /\ UNCHANGED <<override, session, registrations, closing, closed, queue, live, edge, history>>

Lookup(r) ==
  /\ phase[r] = "merged"
  /\ IF session = 0 THEN Respond(r)
                    ELSE /\ target' = [target EXCEPT ![r] = session]
                         /\ phase' = [phase EXCEPT ![r] = "found"]
                         /\ effective' = effective
  /\ UNCHANGED <<override, session, registrations, closing, closed, queue, live, edge, history>>

\* EdgeSession::send of what was known after `version` merges: a full queue closes
\* the connection, one whose task has ended takes nothing.
CanSend(c) == c \notin closed /\ Len(queue[c]) < Capacity

Send(c, update, version) ==
  /\ queue' = IF CanSend(c) THEN [queue EXCEPT ![c] = Append(@, update)] ELSE queue
  /\ closing' = IF c \in closed \/ CanSend(c) THEN closing ELSE closing \cup {c}
  /\ newest' = IF CanSend(c) /\ version > newest[c] THEN [newest EXCEPT ![c] = version] ELSE newest
  /\ raced' = IF CanSend(c) /\ version < newest[c] THEN raced \cup {c} ELSE raced

Push(r) ==
  LET config == IF legacy THEN [effective[r] EXCEPT !["interval"] = Body[r]["interval"]]
                           ELSE Body[r] IN
  /\ phase[r] = "found"
  /\ Send(target[r], ToUpdate(config, legacy), known[r])
  /\ Respond(r)
  /\ UNCHANGED <<override, session, registrations, closed, live, edge, merges, known, readAt>>

-----------------------------------------------------------------------------
(* A connection at the hub: on_register, then the loop until on_close *)

\* The session is in the store before the desired state is read; the session it
\* replaces is told to close.
Register(c) ==
  /\ reg[c] = "sent" /\ c \notin closed
  /\ session' = c
  /\ closing' = IF session # 0 THEN closing \cup {session} ELSE closing
  /\ reg' = [reg EXCEPT ![c] = "added"]
  /\ UNCHANGED <<override, handlers, desired, legacy, closed, queue, live, edge, history>>

ReadDesired(c) ==
  /\ reg[c] = "added"
  /\ desired' = [desired EXCEPT ![c] = DesiredFor]
  /\ readAt' = [readAt EXCEPT ![c] = merges]
  /\ reg' = [reg EXCEPT ![c] = IF IsEmpty(DesiredFor) THEN "done" ELSE "read"]
  /\ UNCHANGED <<override, session, handlers, legacy, closing, closed, queue, live, edge>>
  /\ UNCHANGED <<merges, known, newest, raced>>

PushDesired(c) ==
  /\ reg[c] = "read"
  /\ Send(c, ToUpdate(desired[c], legacy), readAt[c])
  /\ reg' = [reg EXCEPT ![c] = "done"]
  /\ desired' = [desired EXCEPT ![c] = Nothing]
  /\ UNCHANGED <<override, session, handlers, legacy, closed, live, edge, merges, known, readAt>>

\* The socket fails, or the connection was told to close: the session goes if it
\* is still this connection's.
TaskEnds(c) ==
  /\ reg[c] \in {"sent", "done"} /\ c \notin closed
  /\ c \in closing \/ live # c
  /\ closed' = closed \cup {c}
  /\ session' = IF session = c THEN 0 ELSE session
  /\ UNCHANGED <<override, handlers, registrations, closing, queue, live, edge, history>>

\* session_sweeper: nothing was heard of the edge for too long.
Sweep ==
  /\ session # 0 /\ session # live
  /\ session' = 0
  /\ closing' = closing \cup {session}
  /\ UNCHANGED <<override, handlers, registrations, closed, queue, live, edge, history>>

-----------------------------------------------------------------------------
(* The edge *)

Connect(c) ==
  /\ live = 0 /\ c = Cardinality({d \in Connections : reg[d] # "none"}) + 1
  /\ live' = c
  /\ reg' = [reg EXCEPT ![c] = "sent"]
  /\ UNCHANGED <<override, session, handlers, desired, legacy, closing, closed, queue, edge, history>>

\* The connection is lost at the edge, which may be long before the hub notices.
Lose ==
  /\ live # 0
  /\ live' = 0
  /\ UNCHANGED <<override, session, handlers, registrations, closing, closed, queue, edge, history>>

Restart ==
  /\ live = 0 /\ edge # Own
  /\ edge' = Own
  /\ UNCHANGED <<override, session, handlers, registrations, closing, closed, queue, live, history>>

\* ApplyConfig: thresholds are taken together, and ignored if out of order.
Applied(update) ==
  LET resolved == Overlay(edge, update)
      ordered == resolved["warning"] < resolved["critical"]
  IN [f \in Fields |-> IF f \in Thresholds /\ ~ordered THEN edge[f] ELSE resolved[f]]

Deliver(c) ==
  /\ live = c /\ reg[c] = "done" /\ queue[c] # << >>
  /\ edge' = Applied(Head(queue[c]))
  /\ queue' = [queue EXCEPT ![c] = Tail(@)]
  /\ UNCHANGED <<override, session, handlers, registrations, closing, closed, live, history>>

Next ==
  \/ \E r \in Requests : Merge(r) \/ Refuse(r) \/ Lookup(r) \/ Push(r)
  \/ \E c \in Connections : \/ Register(c) \/ ReadDesired(c) \/ PushDesired(c)
                            \/ TaskEnds(c) \/ Connect(c) \/ Deliver(c)
  \/ Sweep \/ Lose \/ Restart

Spec == Init /\ [][Next]_vars

-----------------------------------------------------------------------------
(* Properties *)

\* Nothing is on its way on the edge's connection c, and no handler is between
\* storing and pushing.
Settled(c) ==
  /\ live = c /\ session = c /\ reg[c] = "done" /\ c \notin closing
  /\ queue[c] = << >>
  /\ \A r \in Requests : phase[r] \in {"new", "done"}

\* Whatever mix of pushes, lost connections and restarts came before, a registered
\* edge with nothing on its way has every field the hub desires (routes.rs
\* push_edge_config_handler, ws.rs on_register), unless two handlers sent on this
\* connection in the other order than they read the desired state.
EdgeAgrees ==
  \A c \in Connections \ raced :
    Settled(c) => \A f \in Fields : DesiredFor[f] # Unset => edge[f] = DesiredFor[f]

\* Requests that are served at once never combine into a desired state with the
\* warning threshold at or above the critical one (mod.rs try_merge_edge_override).
DesiredInOrder == CheckThresholdOrder(DesiredFor)
=============================================================================
