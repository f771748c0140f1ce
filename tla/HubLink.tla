------------------------------- MODULE HubLink -------------------------------
(***************************************************************************)
(* The edge's link to the hub: the connector actor                         *)
(* (actor/hub_connector.rs) with its offline buffer, and the supervisor    *)
(* task of the WebSocket client (comm/ws_client.rs).  Both run on one      *)
(* thread and interleave at awaits; they talk through the channel of the   *)
(* current connection and through the connector's mailbox.                 *)
(*                                                                         *)
(* Connections are numbered; the channel rx belongs to the latest one and  *)
(* is open while it lasts.  A supervisor ends only after Disconnect, so    *)
(* there is one and its generation is left out.  Of the ephemeral frames   *)
(* only the registration of a new connection is kept: heartbeats, acks and *)
(* pongs are never stored; what they do is to find out a dead sender.      *)
(* Failed attempts to connect, back-off and the content of messages are    *)
(* left out.                                                               *)
(***************************************************************************)
EXTENDS OutboundBuffer

CONSTANTS
  Devices,        \* the edge's devices
  NoDevice,       \* of a registration, and of alerts: theirs plays no role
  Polled,         \* bound: those whose status is reported
  MaxHeld,        \* MAX_PENDING_REMOVALS
  MaxReports,     \* bound: statuses, alerts and removals handed to the connector
  MaxConnections  \* bound: connections to the hub

ASSUME LinkAssumption ==
  /\ MaxHeld \in Nat \ {0} /\ MaxReports \in Nat /\ MaxConnections \in Nat
  /\ NoDevice \notin Devices /\ Polled \subseteq Devices

VARIABLES
  state,             \* ConnectionState
  sender,            \* the connection the connector writes to, 0 for None
  buffer,            \* the offline buffer
  hubProtocol,       \* protocol of the hub: "old" (before 1.1), "new", "unknown"
  pendingRemovals,   \* removals held until the protocol is known
  client,            \* where the supervisor task stands
  connection,        \* number of the latest connection
  rx,                \* the channel of that connection
  writing,           \* a batch was begun and is not flushed
  inFlight,          \* the priority messages of that batch
  spoken,            \* the latest connection on which the hub said something
  shutdown,          \* the supervisor was asked to stop
  mailbox,           \* the events the connector has still to handle
  accepted,          \* history: messages handed to the connector
  wrote,             \* history: messages that were written, at least once
  flushed,           \* history: messages whose batch was flushed
  evicted,           \* history: messages the full buffer gave up
  withdrawn,         \* history: removals given up for another reason
  greeted            \* history: the latest connection whose registration was written

connector == <<state, sender, buffer, hubProtocol, pendingRemovals>>
task == <<client, connection, rx, writing, inFlight, spoken, shutdown>>
history == <<accepted, wrote, flushed, evicted, withdrawn, greeted>>
vars == <<connector, task, mailbox, history>>

States == {"disconnected", "connecting", "connected", "reconnecting", "shutting_down"}
Clients == {"off", "retrying", "session", "stopped"}
Protocols == {"unknown", "old", "new"}

Registration == [id |-> 0, kind |-> "register", device |-> NoDevice]
Reports == [id : 1 .. MaxReports, kind : {"status", "removal"}, device : Devices]
             \cup [id : 1 .. MaxReports, kind : {"alert"}, device : {NoDevice}]
Frames == Reports \cup {Registration}

Events ==
  [type : {"connected"}, connection : 1 .. MaxConnections]
    \cup [type : {"disconnected"}, unsent : Seq(Frames)]
    \cup [type : {"received"}, protocol : Protocols \ {"unknown"}]
    \cup [type : {"stopped"}]

TypeOK ==
  /\ state \in States /\ sender \in 0 .. MaxConnections
  /\ buffer \in Seq(Reports)
  /\ hubProtocol \in Protocols /\ pendingRemovals \in Seq(Reports)
  /\ client \in Clients /\ connection \in 0 .. MaxConnections
  /\ rx \in Seq(Frames) /\ writing \in BOOLEAN /\ inFlight \in Seq(Reports)
  /\ spoken \in 0 .. MaxConnections /\ shutdown \in BOOLEAN
  /\ mailbox \in Seq(Events)
  /\ accepted \subseteq Reports /\ wrote \subseteq Reports /\ flushed \subseteq Reports
  /\ evicted \subseteq Reports /\ withdrawn \subseteq Reports
  /\ greeted \in 0 .. MaxConnections

Init ==
  /\ state = "disconnected" /\ sender = 0 /\ buffer = <<>>
  /\ hubProtocol = "unknown" /\ pendingRemovals = <<>>
  /\ client = "off" /\ connection = 0 /\ rx = <<>> /\ writing = FALSE /\ inFlight = <<>>
  /\ spoken = 0 /\ shutdown = FALSE
  /\ mailbox = <<>>
  /\ accepted = {} /\ wrote = {} /\ flushed = {} /\ evicted = {} /\ withdrawn = {}
  /\ greeted = 0

-----------------------------------------------------------------------------
(* Sending                                                                 *)

\* A message the connector sends to connection c is taken by its channel.
IsOpen(c) == client = "session" /\ c = connection

\* The buffer becomes `s` once the limits are enforced on `all`.
Buffered(s, all) ==
  /\ buffer' = s
  /\ evicted' = evicted \cup (ToSet(all) \ (ToSet(buffer') \cup {Registration}))

\* send_outbound, of one message or of several in turn: on the live connection,
\* or into the buffer when there is none or it turns out to be gone.
SendOutbound(new) ==
  IF sender # 0 /\ IsOpen(sender)
  THEN /\ rx' = rx \o new
       /\ UNCHANGED <<sender, buffer, evicted>>
  ELSE /\ Buffered(PushedBack(buffer, new), buffer \o new)
       /\ sender' = IF new = <<>> THEN sender ELSE 0
       /\ UNCHANGED rx

Fresh(kind, d) == [id |-> Cardinality(accepted) + 1, kind |-> kind, device |-> d]
Accept(m) ==
  /\ Cardinality(accepted) < MaxReports
  /\ accepted' = accepted \cup {m}

HeldFor(d) == {m \in ToSet(pendingRemovals) : m.device = d}
NotHeldFor(d) == Only(pendingRemovals, ToSet(pendingRemovals) \ HeldFor(d))

taskButRx == <<client, connection, writing, inFlight, spoken, shutdown>>

\* Mutant: held removals are not looked at when a device is back.
DeviceStatusForgetful(d) ==
  LET m == Fresh("status", d) IN
  /\ Accept(m)
  /\ SendOutbound(<<m>>)
  /\ UNCHANGED <<state, hubProtocol, pendingRemovals, withdrawn, taskButRx, mailbox, wrote, flushed, greeted>>

\* Handler<DeviceStatusUpdate>: the device is back, a held removal is void.
DeviceStatus(d) ==
  LET m == Fresh("status", d) IN
  /\ Accept(m)
  /\ pendingRemovals' = NotHeldFor(d)
  /\ withdrawn' = withdrawn \cup HeldFor(d)
  /\ SendOutbound(<<m>>)
  /\ UNCHANGED <<state, hubProtocol, taskButRx, mailbox, wrote, flushed, greeted>>

\* Handler<DeviceAlert>; predictions and action results are sent alike.
DeviceAlert ==
  LET m == Fresh("alert", NoDevice) IN
  /\ Accept(m)
  /\ SendOutbound(<<m>>)
  /\ UNCHANGED <<state, hubProtocol, pendingRemovals, withdrawn, taskButRx, mailbox, wrote, flushed, greeted>>

\* The oldest removal makes room for another when too many are held.
Hold(m) ==
  LET held == NotHeldFor(m.device)
      full == Len(held) >= MaxHeld
  IN /\ pendingRemovals' = Append(IF full THEN Tail(held) ELSE held, m)
     /\ withdrawn' = withdrawn \cup HeldFor(m.device)
                       \cup (IF full THEN {Head(held)} ELSE {})

\* Handler<DeviceRemoved>: send_removal.
DeviceRemoved(d) ==
  LET m == Fresh("removal", d) IN
  /\ Accept(m)
  /\ CASE hubProtocol = "new" -> /\ SendOutbound(<<m>>)
                                 /\ UNCHANGED <<pendingRemovals, withdrawn>>
       [] hubProtocol = "old" -> /\ withdrawn' = withdrawn \cup {m}
                                 /\ UNCHANGED <<sender, buffer, evicted, rx, pendingRemovals>>
       [] OTHER               -> /\ Hold(m)
                                 /\ UNCHANGED <<sender, buffer, evicted, rx>>
  /\ UNCHANGED <<state, hubProtocol, taskButRx, mailbox, wrote, flushed, greeted>>

\* send_heartbeat on a connection that is gone.
HeartbeatFails ==
  /\ sender # 0 /\ ~ IsOpen(sender)
  /\ sender' = 0
  /\ UNCHANGED <<state, buffer, hubProtocol, pendingRemovals, task, mailbox, history>>

-----------------------------------------------------------------------------
(* Start and end                                                           *)

\* start_connection: does nothing while a supervisor runs or once shut down.
Connect ==
  /\ state # "shutting_down"
  /\ client \in {"off", "stopped"}
  /\ state' = "connecting"
  /\ client' = "retrying"
  /\ shutdown' = FALSE
  /\ UNCHANGED <<sender, buffer, hubProtocol, pendingRemovals, connection, rx, writing, inFlight,
                 spoken, mailbox, history>>

\* Mutant: only a session is told to stop.
DisconnectSession ==
  /\ state' = "shutting_down"
  /\ sender' = 0
  /\ shutdown' = (shutdown \/ client = "session")
  /\ UNCHANGED <<buffer, hubProtocol, pendingRemovals, client, connection, rx, writing, inFlight,
                 spoken, mailbox, history>>

\* Handler<Disconnect>
Disconnect ==
  /\ state' = "shutting_down"
  /\ sender' = 0
  /\ shutdown' = (shutdown \/ client \in {"retrying", "session"})
  /\ UNCHANGED <<buffer, hubProtocol, pendingRemovals, client, connection, rx, writing, inFlight,
                 spoken, mailbox, history>>

-----------------------------------------------------------------------------
(* The supervisor: supervise and run_session                               *)

Post(events) == mailbox' = mailbox \o events

ConnectSucceeds ==
  /\ client = "retrying"
  /\ connection < MaxConnections
  /\ client' = "session"
  /\ connection' = connection + 1
  /\ Post(<<[type |-> "connected", connection |-> connection + 1]>>)
  /\ UNCHANGED <<connector, rx, writing, inFlight, spoken, shutdown, history>>

StopsRetrying ==
  /\ client = "retrying" /\ shutdown
  /\ client' = "stopped"
  /\ Post(<<[type |-> "stopped"]>>)
  /\ UNCHANGED <<connector, connection, rx, writing, inFlight, spoken, shutdown, history>>

\* The hub's first message of a connection, which tells its protocol; at later
\* ones learn_hub_version returns.  The session reads between batches.
HubSpeaks(protocol) ==
  /\ client = "session" /\ ~ writing /\ ~ shutdown
  /\ spoken < connection
  /\ spoken' = connection
  /\ Post(<<[type |-> "received", protocol |-> protocol]>>)
  /\ UNCHANGED <<connector, client, connection, rx, writing, inFlight, shutdown, history>>

OnlyPriority(s) == Only(s, {m \in ToSet(s) : IsPriority(m)})

\* The next frame of a batch is fed to the socket.  A batch begins when the
\* select sees no shutdown.
Feed ==
  /\ client = "session" /\ rx # <<>>
  /\ ~ writing => ~ shutdown
  /\ rx' = Tail(rx)
  /\ writing' = TRUE
  /\ inFlight' = inFlight \o OnlyPriority(<<Head(rx)>>)
  /\ wrote' = wrote \cup ({Head(rx)} \ {Registration})
  /\ greeted' = IF Head(rx) = Registration THEN connection ELSE greeted
  /\ UNCHANGED <<connector, client, connection, spoken, shutdown, mailbox,
                 accepted, flushed, evicted, withdrawn>>

\* Mutant: the messages of the batch are kept.
FlushKeeps ==
  /\ client = "session" /\ writing
  /\ writing' = FALSE
  /\ flushed' = flushed \cup ToSet(inFlight)
  /\ UNCHANGED <<connector, client, connection, rx, inFlight, spoken, shutdown, mailbox,
                 accepted, wrote, evicted, withdrawn, greeted>>

\* The batch is flushed; frames queued since it was closed stay in the channel.
Flush ==
  /\ client = "session" /\ writing
  /\ writing' = FALSE
  /\ inFlight' = <<>>
  /\ flushed' = flushed \cup ToSet(inFlight)
  /\ UNCHANGED <<connector, client, connection, rx, spoken, shutdown, mailbox,
                 accepted, wrote, evicted, withdrawn, greeted>>

\* The session is over: what is unsent goes back with the event.
EndSession(unsent, stops) ==
  /\ client' = IF stops THEN "stopped" ELSE "retrying"
  /\ rx' = <<>> /\ writing' = FALSE /\ inFlight' = <<>>
  /\ Post(<<[type |-> "disconnected", unsent |-> unsent]>>
            \o (IF stops THEN <<[type |-> "stopped"]>> ELSE <<>>))
  /\ UNCHANGED <<connector, connection, spoken, shutdown, history>>

\* Mutant: the batch is not handed back.
FlushFailsForgetful ==
  /\ client = "session"
  /\ writing
  /\ EndSession(rx, FALSE)

\* A flush fails or times out: priority messages of the batch may not have
\* arrived.
FlushFails ==
  /\ client = "session"
  /\ writing
  /\ EndSession(inFlight \o rx, FALSE)

\* Feeding a frame fails: it did not leave and is kept if it is a priority one.
FeedFails ==
  /\ client = "session" /\ rx # <<>>
  /\ ~ writing => ~ shutdown
  /\ EndSession(inFlight \o OnlyPriority(<<Head(rx)>>) \o Tail(rx), FALSE)

\* Between batches: the hub closes, a read or a ping fails, nothing was heard.
\* The shutdown may come while the ping is being written.
ConnectionLost ==
  /\ client = "session" /\ ~ writing
  /\ EndSession(rx, FALSE)

ShutsDown ==
  /\ client = "session" /\ ~ writing /\ shutdown
  /\ EndSession(rx, TRUE)

-----------------------------------------------------------------------------
(* The connector handles the client's events                               *)

Received(type) == mailbox # <<>> /\ Head(mailbox).type = type
Handled == mailbox' = Tail(mailbox)

\* Mutant: the buffer waits for the next outage.
OnConnectedOnlyLive ==
  /\ Received("connected")
  /\ LET c == Head(mailbox).connection IN
       IF state # "shutting_down" /\ IsOpen(c)
       THEN /\ state' = "connected" /\ sender' = c /\ hubProtocol' = "unknown"
            /\ rx' = rx \o <<Registration>>
            /\ UNCHANGED <<buffer, pendingRemovals>>
       ELSE UNCHANGED <<connector, rx>>
  /\ Handled
  /\ UNCHANGED <<taskButRx, history>>

\* Mutant: the registration follows the buffered messages.
OnConnectedLate ==
  /\ Received("connected")
  /\ LET c == Head(mailbox).connection IN
       CASE state = "shutting_down" -> UNCHANGED <<connector, rx>>
         [] state # "shutting_down" /\ ~ IsOpen(c) ->
              /\ hubProtocol' = "unknown"
              /\ UNCHANGED <<state, sender, buffer, pendingRemovals, rx>>
         [] OTHER -> /\ state' = "connected" /\ sender' = c /\ hubProtocol' = "unknown"
                     /\ rx' = rx \o buffer \o <<Registration>> /\ buffer' = <<>>
                     /\ UNCHANGED pendingRemovals
  /\ Handled
  /\ UNCHANGED <<taskButRx, history>>

\* WsEvent::Connected, on_connected: register, send the buffer, then go live.
\* A connection that is already gone only voids the protocol.
OnConnected ==
  /\ Received("connected")
  /\ LET c == Head(mailbox).connection IN
       CASE state = "shutting_down" -> UNCHANGED <<connector, rx>>
         [] state # "shutting_down" /\ ~ IsOpen(c) ->
              /\ hubProtocol' = "unknown"
              /\ UNCHANGED <<state, sender, buffer, pendingRemovals, rx>>
         [] OTHER -> /\ state' = "connected" /\ sender' = c /\ hubProtocol' = "unknown"
                     /\ rx' = rx \o <<Registration>> \o buffer /\ buffer' = <<>>
                     /\ UNCHANGED pendingRemovals
  /\ Handled
  /\ UNCHANGED <<taskButRx, history>>

\* WsEvent::Disconnected, on_disconnected: unsent messages are older than
\* anything in the buffer.
OnDisconnected ==
  /\ Received("disconnected")
  /\ LET unsent == Head(mailbox).unsent IN
       Buffered(RequeuedFront(buffer, unsent), unsent \o buffer)
  /\ sender' = 0
  /\ hubProtocol' = "unknown"
  /\ state' = IF state = "shutting_down" THEN state ELSE "reconnecting"
  /\ Handled
  /\ UNCHANGED <<pendingRemovals, task, accepted, wrote, flushed, withdrawn, greeted>>

\* WsEvent::Received, learn_hub_version: held removals are sent or dropped.
OnReceived ==
  /\ Received("received")
  /\ hubProtocol' = Head(mailbox).protocol
  /\ pendingRemovals' = <<>>
  /\ IF hubProtocol' = "new"
     THEN SendOutbound(pendingRemovals) /\ UNCHANGED withdrawn
     ELSE /\ withdrawn' = withdrawn \cup ToSet(pendingRemovals)
          /\ UNCHANGED <<sender, buffer, evicted, rx>>
  /\ Handled
  /\ UNCHANGED <<state, taskButRx, accepted, wrote, flushed, greeted>>

\* WsEvent::Stopped
OnStopped ==
  /\ Received("stopped")
  /\ sender' = 0
  /\ state' = IF state = "shutting_down" THEN state ELSE "disconnected"
  /\ Handled
  /\ UNCHANGED <<buffer, hubProtocol, pendingRemovals, task, history>>

Handle == OnConnected \/ OnDisconnected \/ OnReceived \/ OnStopped

\* What the supervisor's task does by itself, once the socket answers or a
\* timeout expires.
Write == Feed \/ Flush \/ FlushFails \/ FeedFails
Stop == StopsRetrying \/ ShutsDown

Next ==
  \/ \E d \in Polled : DeviceStatus(d)
  \/ \E d \in Devices : DeviceRemoved(d)
  \/ DeviceAlert
  \/ HeartbeatFails
  \/ Connect \/ Disconnect
  \/ ConnectSucceeds \/ \E p \in Protocols \ {"unknown"} : HubSpeaks(p)
  \/ Write \/ Stop
  \/ ConnectionLost
  \/ Handle

Spec == Init /\ [][Next]_vars

\* The connector's mailbox is served; socket writes are bounded by timeouts and
\* the shutdown signal is polled.  Nothing is assumed of the hub.
FairSpec == Spec /\ WF_vars(Handle) /\ WF_vars(Write) /\ WF_vars(Stop)

-----------------------------------------------------------------------------
(* Properties                                                              *)

\* On every connection the registration is written before anything else, also
\* when it is written late and messages were queued meanwhile (on_connected).
RegistersFirst == rx # <<>> => Head(rx) = Registration \/ greeted = connection

Unsent == {i \in DOMAIN mailbox : mailbox[i].type = "disconnected"}
HandedBack == UNION {ToSet(mailbox[i].unsent) : i \in Unsent}
Stored == ToSet(buffer) \cup ToSet(rx) \cup ToSet(inFlight) \cup ToSet(pendingRemovals) \cup HandedBack

\* An alert or removal is somewhere until it was flushed, unless the full buffer
\* gave it up or a removal became void, and only there, and it is not sent again
\* after it was flushed: outages in the middle of a batch, of a reconnect or of a
\* shutdown lose and duplicate none (run_session, requeue_front).
KeptUntilFlushed ==
  \A m \in accepted : IsPriority(m) => m \in Stored \cup flushed \cup evicted \cup withdrawn

NeverTwice ==
  /\ flushed \cap Stored = {}
  /\ \A s \in {buffer, rx, inFlight, pendingRemovals} : IsInjective(s)
  /\ ToSet(buffer) \cap (ToSet(rx) \cup ToSet(inFlight) \cup HandedBack) = {}
  /\ ToSet(rx) \cap (ToSet(inFlight) \cup (HandedBack \ {Registration})) = {}

KeptOnce == KeptUntilFlushed /\ NeverTwice

\* What goes out for the first time: alerts in the order in which they were raised,
\* over any number of connections, and a removal never after a status that says the
\* device is back (requeue_front, on_connected, DeviceStatusUpdate).
FirstWritesInOrder ==
  [][\A m \in wrote' \ wrote, n \in wrote :
       \/ m.kind = "alert" /\ n.kind = "alert"
       \/ m.kind = "removal" /\ n.kind = "status" /\ m.device = n.device
       => n.id < m.id]_vars

\* What is written is in order, on a connection and over all of them: both of the above.
WritesInOrder == []RegistersFirst /\ FirstWritesInOrder

\* Disconnect ends the supervisor, connected or not; being shut down is final,
\* so infinitely often means from some time on.
ShutdownStops == []<>(state = "shutting_down" => client \in {"off", "stopped"})

\* Once a connection lasts, every alert gets out or was given up by the full
\* buffer: none waits for something else to happen.
AlertsOut == {m \in accepted : m.kind = "alert"} \subseteq flushed \cup evicted
StableLinkDelivers == <>[](client = "session") => []<>AlertsOut

\* The claim of hub_connector.rs:11-14, which the code does not keep and no run
\* checks: device_removed is only sent once the hub on the current connection is
\* known to speak 1.1.
RemovalsAwaitProtocol ==
  hubProtocol # "new" => \A i \in DOMAIN rx : rx[i].kind # "removal"
====
