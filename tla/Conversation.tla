----------------------------- MODULE Conversation -----------------------------
(***************************************************************************)
(* What an edge and the hub say to each other on a connection and over     *)
(* connections: the hub's socket task (server/ws.rs), which answers each   *)
(* message at once and writes what others queued for the edge in between,  *)
(* the edge's connector (actor/hub_connector.rs), which handles actions    *)
(* and commands, and the back-off of its supervisor (comm/ws_client.rs),   *)
(* which runs beside the connector.                                        *)
(*                                                                         *)
(* HubLink has reports, batches, the buffer's limits and the shutdown,     *)
(* EdgeSessions connections that replace one another; here one edge        *)
(* has one connection at a time, and the frames of a direction are one     *)
(* sequence.  No code of the hub sends a command or an action the edge     *)
(* cannot read: they stand for a hub of another minor version.  Its major  *)
(* version, and whether it admits the edge's token, change while no        *)
(* connection is up.                                                       *)
(***************************************************************************)
EXTENDS Integers, Sequences, SequencesExt

CONSTANTS
  MaxLevel,   \* delays: level 0 is reconnect_delay, each doubles it, the last is the cap
  MaxTalks,   \* bound: connections
  MaxAsked    \* bound: actions and commands of the hub

ASSUME TalkAssumption ==
  MaxLevel \in Nat \ {0} /\ MaxTalks \in Nat /\ MaxAsked \in Nat

VARIABLES
  peer,        \* the hub: "ours", "other" (major version), "locked" (the token is refused)
  dialer,      \* the supervisor: "delays", "dials", "session"
  level,       \* Backoff::current
  maxBackoff,  \* WsClient::max_backoff
  stable,      \* the session lasted for stable_after
  live,        \* the connection the connector writes to, 0 for none
  events,      \* the connector's mailbox
  kept,        \* the connector's buffer
  running,     \* actions the edge executes
  toHub,       \* frames of the edge that the hub has not read
  known,       \* Connection::session is set
  queued,      \* out_rx: what others sent to the session
  toEdge,      \* frames the hub wrote that the edge has not read
  closed,      \* the hub's socket task has ended
  talks,       \* connections so far
  orders,      \* actions and commands: their forms, in order
  acked,       \* history: the registration's ack was written on this connection
  taken,       \* history: actions the edge has read
  answered,    \* history: actions whose result the hub read or lost with a connection
  refusals     \* history: how often in a row the hub refused the edge, as far as it was told

dialVars == <<dialer, level, maxBackoff, stable>>
edgeVars == <<live, events, kept, running>>
wireVars == <<toHub, known, queued, toEdge, closed>>
boundVars == <<talks, orders>>
toldVars == <<acked, taken, answered, refusals>>
talkVars == <<peer, dialVars, edgeVars, wireVars, boundVars, toldVars>>

Forms == {"action", "unreadable", "nameless", "resend_state", "reload_config", "other_command"}
Say(kind, ref) == [kind |-> kind, ref |-> ref]
Hello == Say("register", 0)
IsFromHub(m) == m.kind \in {"config", "request"}
\* OutboundClass: what is kept when there is no connection.
OutlastsTalk(m) == m.kind \in {"alert", "result", "nothing_to_do"}

TalkInit ==
  /\ peer \in {"ours", "other", "locked"}
  /\ dialer = "dials" /\ level = 0 /\ maxBackoff = FALSE /\ stable = FALSE
  /\ live = 0 /\ events = <<>> /\ kept = <<>> /\ running = {}
  /\ toHub = <<>> /\ known = FALSE /\ queued = <<>> /\ toEdge = <<>> /\ closed = TRUE
  /\ talks = 0 /\ orders = <<>>
  /\ acked = FALSE /\ taken = {} /\ answered = {} /\ refusals = 0

-----------------------------------------------------------------------------
(* The supervisor (supervise)                                              *)

\* The hub is replaced, or its settings are changed, while no connection is up.
HubChanges ==
  /\ dialer # "session"
  /\ peer' \in {"ours", "other", "locked"} \ {peer}
  /\ UNCHANGED <<dialVars, edgeVars, wireVars, boundVars, toldVars>>

\* The delay before the next attempt: the cap if it was asked for, which is then
\* forgotten, or twice as long as before (max_delay, next_delay).
Delay == IF maxBackoff THEN MaxLevel ELSE level
Delays ==
  /\ dialer = "delays"
  /\ dialer' = "dials"
  /\ level' = IF Delay < MaxLevel THEN Delay + 1 ELSE MaxLevel
  /\ maxBackoff' = FALSE
  /\ UNCHANGED <<peer, stable, edgeVars, wireVars, boundVars, toldVars>>

\* The hub cannot be reached, or not in time.
DialFails ==
  /\ dialer = "dials"
  /\ dialer' = "delays"
  /\ UNCHANGED <<peer, level, maxBackoff, stable, edgeVars, wireVars, boundVars, toldVars>>

\* The handshake is refused with 401 or 403 (is_rejection); a request that cannot
\* be built from the settings is treated alike.
DialRejected ==
  /\ dialer = "dials" /\ peer = "locked"
  /\ dialer' = "delays"
  /\ maxBackoff' = TRUE
  /\ refusals' = 2
  /\ UNCHANGED <<peer, level, stable, edgeVars, wireVars, boundVars, acked, taken, answered>>

\* Mutant: a connection is taken for the end of the trouble.
DialSucceedsRelieved ==
  /\ dialer = "dials" /\ peer # "locked" /\ talks < MaxTalks
  /\ dialer' = "session"
  /\ maxBackoff' = FALSE
  /\ talks' = talks + 1
  /\ events' = Append(events, Say("connected", talks'))
  /\ toHub' = <<>> /\ known' = FALSE /\ queued' = <<>> /\ toEdge' = <<>> /\ closed' = FALSE
  /\ acked' = FALSE
  /\ UNCHANGED <<peer, level, stable, live, kept, running, orders,
                 taken, answered, refusals>>

\* The hub accepts; both sides start anew.
DialSucceeds ==
  /\ dialer = "dials" /\ peer # "locked" /\ talks < MaxTalks
  /\ dialer' = "session"
  /\ talks' = talks + 1
  /\ events' = Append(events, Say("connected", talks'))
  /\ toHub' = <<>> /\ known' = FALSE /\ queued' = <<>> /\ toEdge' = <<>> /\ closed' = FALSE
  /\ acked' = FALSE
  /\ UNCHANGED <<peer, level, maxBackoff, stable, live, kept, running, orders,
                 taken, answered, refusals>>

\* The session has lasted for stable_after.
Lasts ==
  /\ dialer = "session" /\ ~stable
  /\ stable' = TRUE
  /\ UNCHANGED <<peer, dialer, level, maxBackoff, edgeVars, wireVars, boundVars, toldVars>>

\* run_session reads a frame and hands it to the connector.
EdgeReads ==
  /\ dialer = "session" /\ toEdge # <<>>
  /\ toEdge' = Tail(toEdge)
  /\ events' = Append(events, Head(toEdge))
  /\ refusals' = IF Head(toEdge).kind = "version_mismatch" /\ refusals < 2
                 THEN refusals + 1 ELSE refusals
  /\ UNCHANGED <<peer, dialVars, live, kept, running, toHub, known, queued, closed, boundVars,
                 acked, taken, answered>>

\* The session ends: of the frames not read by the hub the first n had left the
\* edge and are lost, the others come back.  A session that lasted resets the
\* back-off.
TalkEnds(n) ==
  /\ dialer = "session"
  /\ dialer' = "delays"
  /\ level' = IF stable THEN 0 ELSE level
  /\ stable' = FALSE
  /\ refusals' = IF stable THEN 0 ELSE refusals
  /\ LET unsent == SubSeq(toHub, n + 1, Len(toHub))
         lost == SubSeq(toHub, 1, n)
     IN /\ events' = Append(events, [kind |-> "disconnected", unsent |-> unsent])
        /\ answered' = answered \cup {m.ref : m \in {m \in ToSet(lost) : m.kind = "result"}}
  /\ toHub' = <<>> /\ toEdge' = <<>> /\ queued' = <<>> /\ known' = FALSE /\ closed' = TRUE
  /\ UNCHANGED <<peer, maxBackoff, live, kept, running, boundVars, acked, taken>>

-----------------------------------------------------------------------------
(* The connector (hub_connector.rs)                                        *)

\* send_outbound and the buffer: frames go to the live connection, or those that
\* outlast it are kept.
IsUp(c) == dialer = "session" /\ c = talks
Enqueue(frames) ==
  IF IsUp(live)
  THEN toHub' = toHub \o frames /\ UNCHANGED <<live, kept>>
  ELSE /\ kept' = kept \o SelectSeq(frames, OutlastsTalk)
       /\ live' = 0
       /\ UNCHANGED toHub

Event(kind) == events # <<>> /\ Head(events).kind = kind /\ events' = Tail(events)
connectorOnly == <<peer, dialer, level, stable, known, queued, toEdge, closed, talks, orders>>

\* Mutant: what was kept is sent as soon as there is a connection.
OnLiveEager ==
  /\ Event("connected")
  /\ IF IsUp(Head(events).ref)
     THEN /\ toHub' = toHub \o kept \o <<Hello, Say("heartbeat", 0)>>
          /\ kept' = <<>> /\ live' = talks
     ELSE UNCHANGED <<toHub, kept, live>>
  /\ UNCHANGED <<connectorOnly, maxBackoff, running, toldVars>>

\* on_connected: the registration, what was kept, a heartbeat.
OnLive ==
  /\ Event("connected")
  /\ IF IsUp(Head(events).ref)
     THEN /\ toHub' = toHub \o <<Hello>> \o kept \o <<Say("heartbeat", 0)>>
          /\ kept' = <<>> /\ live' = talks
     ELSE UNCHANGED <<toHub, kept, live>>
  /\ UNCHANGED <<connectorOnly, maxBackoff, running, toldVars>>

\* on_disconnected
OnLost ==
  /\ Event("disconnected")
  /\ kept' = SelectSeq(Head(events).unsent, OutlastsTalk) \o kept
  /\ live' = 0
  /\ UNCHANGED <<connectorOnly, maxBackoff, running, toHub, toldVars>>

\* handle_message: errors.  The next delay shall be the longest if quick
\* attempts are pointless (is_fatal_error_code).
OnRefused ==
  /\ \/ Event("version_mismatch") /\ maxBackoff' = TRUE
     \/ Event("not_registered") /\ UNCHANGED maxBackoff
  /\ UNCHANGED <<connectorOnly, live, kept, running, toHub, toldVars>>

\* handle_message: acks are logged, a configuration goes to the device manager
\* (EdgeConfig).
OnNews ==
  /\ Event("ack") \/ Event("config")
  /\ UNCHANGED <<connectorOnly, maxBackoff, live, kept, running, toHub, toldVars>>

\* handle_execute_action: an action is run beside the connector; one that cannot
\* be read is answered at once, by a result if it says which action it is.
OnAction ==
  LET r == Head(events).ref IN
  /\ events # <<>> /\ Head(events).kind = "request" /\ events' = Tail(events)
  /\ \/ /\ orders[r] = "action"
        /\ running' = running \cup {r} /\ taken' = taken \cup {r}
        /\ UNCHANGED <<live, kept, toHub>>
     \/ /\ orders[r] = "unreadable"
        /\ Enqueue(<<Say("result", r)>>) /\ taken' = taken \cup {r}
        /\ UNCHANGED running
     \/ /\ orders[r] = "nameless"
        /\ Enqueue(<<Say("nothing_to_do", r)>>)
        /\ UNCHANGED <<running, taken>>
  /\ UNCHANGED <<connectorOnly, maxBackoff, acked, answered, refusals>>

\* handle_hub_command: each is acknowledged, refused ones with an error.
\* resend_state registers again and sends a heartbeat, and asks the device
\* manager, which reports later; reload_config has it take new settings.
OnCommand ==
  LET r == Head(events).ref IN
  /\ events # <<>> /\ Head(events).kind = "request" /\ events' = Tail(events)
  /\ \/ orders[r] = "resend_state" /\ Enqueue(<<Hello, Say("heartbeat", 0), Say("reply", r)>>)
     \/ orders[r] \in {"reload_config", "other_command"} /\ Enqueue(<<Say("reply", r)>>)
  /\ UNCHANGED <<connectorOnly, maxBackoff, running, toldVars>>

\* Mutant: a result without a connection is dropped like the ack of a command.
ActionEndsLive(r, ok) ==
  /\ r \in running
  /\ running' = running \ {r}
  /\ IF IsUp(live)
     THEN Enqueue((IF ok THEN <<>> ELSE <<Say("alert", r)>>) \o <<Say("result", r)>>)
     ELSE Enqueue(IF ok THEN <<>> ELSE <<Say("alert", r)>>)
  /\ UNCHANGED <<connectorOnly, maxBackoff, events, toldVars>>

\* ActionRuntime::run has ended: of a failed action an alert goes first.
ActionEnds(r, ok) ==
  /\ r \in running
  /\ running' = running \ {r}
  /\ Enqueue((IF ok THEN <<>> ELSE <<Say("alert", r)>>) \o <<Say("result", r)>>)
  /\ UNCHANGED <<connectorOnly, maxBackoff, events, toldVars>>

-----------------------------------------------------------------------------
(* The hub (handle_socket)                                                 *)

hubOnly == <<peer, dialVars, edgeVars, talks, taken, refusals>>

\* on_text, on_register, on_edge_payload: what the hub queues for this
\* connection, and what it replies.  A registration on a registered connection is
\* acknowledged; acks and errors of the edge are only logged.  There is a desired
\* configuration for the edge, or none.
Welcome(m) == peer = "ours" /\ m.kind = "register" /\ ~known
Configs == {<<>>, <<Say("config", 0)>>}
Replies(m) ==
  CASE peer = "other" -> <<Say("version_mismatch", 0)>>
    [] peer # "other" /\ m.kind = "register" -> <<Say("ack", 0)>>
    [] peer # "other" /\ m.kind \in {"heartbeat", "alert", "result"} /\ ~known ->
         <<Say("not_registered", 0)>>
    [] OTHER -> <<>>

\* Mutant: the ack takes the way of all messages to the session.
HubReadsQueued ==
  /\ ~closed /\ toHub # <<>>
  /\ toHub' = Tail(toHub)
  /\ LET m == Head(toHub) IN
       /\ known' = (known \/ Welcome(m))
       /\ IF Welcome(m)
          THEN /\ \E c \in Configs : queued' = queued \o c \o Replies(m)
               /\ UNCHANGED <<toEdge, acked>>
          ELSE /\ toEdge' = toEdge \o Replies(m)
               /\ UNCHANGED <<queued, acked>>
       /\ closed' = (peer = "other")
       /\ answered' = IF m.kind = "result" /\ known THEN answered \cup {m.ref} ELSE answered
  /\ UNCHANGED <<hubOnly, orders>>

\* A message is handled and the replies are written before anything else is.
HubReads ==
  /\ ~closed /\ toHub # <<>>
  /\ toHub' = Tail(toHub)
  /\ LET m == Head(toHub) IN
       /\ known' = (known \/ Welcome(m))
       /\ IF Welcome(m) THEN \E c \in Configs : queued' = queued \o c ELSE UNCHANGED queued
       /\ toEdge' = toEdge \o Replies(m)
       /\ acked' = (acked \/ Say("ack", 0) \in ToSet(Replies(m)))
       /\ closed' = (peer = "other")
       /\ answered' = IF m.kind = "result" /\ known THEN answered \cup {m.ref} ELSE answered
  /\ UNCHANGED <<hubOnly, orders>>

\* The next of the queued messages is written.
HubWrites ==
  /\ ~closed /\ queued # <<>>
  /\ toEdge' = Append(toEdge, Head(queued)) /\ queued' = Tail(queued)
  /\ acked' = (acked \/ Head(queued).kind = "ack")
  /\ UNCHANGED <<hubOnly, toHub, known, closed, orders, answered>>

\* An action or a command for the session of the edge (EdgeSession::send), as
\* soon as it is in the store.
Ask(form) ==
  /\ ~closed /\ known /\ Len(orders) < MaxAsked
  /\ orders' = Append(orders, form)
  /\ queued' = Append(queued, Say("request", Len(orders) + 1))
  /\ UNCHANGED <<hubOnly, toHub, known, toEdge, closed, acked, answered>>

\* The task ends: not registered in time, replaced, silent, slow, a write that
\* fails or takes too long, or the hub stops.
HubHangsUp ==
  /\ ~closed
  /\ closed' = TRUE
  /\ UNCHANGED <<hubOnly, toHub, known, queued, toEdge, orders, acked, answered>>

-----------------------------------------------------------------------------

TalkNext ==
  \/ HubChanges \/ Delays \/ DialFails \/ DialRejected \/ DialSucceeds \/ Lasts
  \/ EdgeReads \/ \E n \in 0 .. Len(toHub) : TalkEnds(n)
  \/ OnLive \/ OnLost \/ OnRefused \/ OnNews \/ OnAction \/ OnCommand
  \/ \E r \in running, ok \in BOOLEAN : ActionEnds(r, ok)
  \/ HubReads \/ HubWrites \/ \E form \in Forms : Ask(form)
  \/ HubHangsUp

TalkSpec == TalkInit /\ [][TalkNext]_talkVars

-----------------------------------------------------------------------------
(* Properties                                                              *)

\* The first thing an edge hears on a connection is the answer to its
\* registration: an action, a command or a configuration that is queued for the
\* session the moment it is in the store does not overtake the ack (handle_socket).
AckFirst == (\E i \in DOMAIN toEdge : IsFromHub(toEdge[i])) => acked

\* An edge of the hub's version is never told to register first, whatever was kept
\* from the connection before and whenever commands make it register again
\* (on_connected, on_text).
NothingRejected == \A i \in DOMAIN toEdge : toEdge[i].kind # "not_registered"

Results(s) == {s[i].ref : i \in {i \in DOMAIN s : s[i].kind = "result"}}
Waiting ==
  running \cup Results(kept) \cup Results(toHub)
    \cup UNION {Results(events[i].unsent) :
                  i \in {i \in DOMAIN events : events[i].kind = "disconnected"}}

\* Every action the edge took up is being run, or its result is under way, also when
\* it ends without a connection or the connection is lost; and of the results that
\* did not leave the edge none is lost (handle_execute_action, on_disconnected).
ActionsAnswered == taken \subseteq Waiting \cup answered

TalkSound == AckFirst /\ NothingRejected /\ ActionsAnswered

\* An edge the hub refused twice in a row waits for as long as it can: though the
\* supervisor computes the delay before the connector has seen the first refusal,
\* that is known before the second, since it is the connector that registers; a
\* refused handshake counts at once (supervise, request_max_backoff).
RefusedBacksOff ==
  dialer = "delays" /\ dialer' = "dials" /\ refusals = 2 => Delay = MaxLevel

\* What the edge and the hub say to each other is in order, answered, and not
\* repeated faster than a refusal allows, at the start and after every step (ws.rs,
\* hub_connector.rs, ws_client.rs).
TalkKept == TalkSound /\ [][RefusedBacksOff /\ TalkSound']_talkVars
=============================================================================
