---------------------------- MODULE EdgeSessions ----------------------------
(***************************************************************************)
(* The hub's side of the edge connections: the socket tasks of             *)
(* server/ws.rs, the session store and the sweeper that drops silent       *)
(* sessions.  Socket tasks run on different threads, so a connection may   *)
(* register while the end of another one is still being reported.          *)
(*                                                                         *)
(* A session is identified with its connection (conn_id).  What a message  *)
(* on a registered connection does is left to the modules that extend this *)
(* one; here belongs only what registers, replaces and unregisters.        *)
(***************************************************************************)
EXTENDS Naturals, FiniteSets

CONSTANTS
  Edges,      \* edge ids
  Conns,      \* the WebSocket connections that may ever be opened
  NoConn,     \* the store has no session of an edge
  NoEdge      \* a connection that has not registered

ASSUME NoneAssumption == NoConn \notin Conns /\ NoEdge \notin Edges

VARIABLES
  task,       \* [Conns -> TaskStates], the socket task of a connection
  owner,      \* [Conns -> Edges \cup {NoEdge}], Connection.session's edge
  token,      \* connections whose cancellation token is cancelled
  session,    \* [Edges -> Conns \cup {NoConn}], the SessionStore
  leaving     \* connections taken from the store, mark_edge_offline to come

sessionVars == <<task, owner, token, session, leaving>>

TaskStates == {"none", "unregistered", "registered", "closed"}

SessionsTypeOK ==
  /\ task \in [Conns -> TaskStates]
  /\ owner \in [Conns -> Edges \cup {NoEdge}]
  /\ token \subseteq Conns
  /\ session \in [Edges -> Conns \cup {NoConn}]
  /\ leaving \subseteq Conns

SessionsInit ==
  /\ task = [c \in Conns |-> "none"]
  /\ owner = [c \in Conns |-> NoEdge]
  /\ token = {}
  /\ session = [e \in Edges |-> NoConn]
  /\ leaving = {}

Registered(c) == task[c] = "registered"

\* remove_if_current: only the session that still belongs to c.
IsCurrent(c) == owner[c] \in Edges /\ session[owner[c]] = c

\* Mutant: the end of a connection removes whatever session its edge has.
RemoveAnySession(c) ==
  IF owner[c] \in Edges /\ session[owner[c]] # NoConn
  THEN /\ session' = [session EXCEPT ![owner[c]] = NoConn]
       /\ leaving' = leaving \cup {c}
  ELSE UNCHANGED <<session, leaving>>

RemoveIfCurrent(c) ==
  IF IsCurrent(c)
  THEN /\ session' = [session EXCEPT ![owner[c]] = NoConn]
       /\ leaving' = leaving \cup {c}
  ELSE UNCHANGED <<session, leaving>>

\* A socket is accepted; it must register before anything else.
Connect(c) ==
  /\ task[c] = "none"
  /\ task' = [task EXCEPT ![c] = "unregistered"]
  /\ UNCHANGED <<owner, token, session, leaving>>

\* on_register, the first on this connection: a later one only gets an ack or
\* an error.  The session it replaces is asked to close, nothing more.
Register(c, e) ==
  /\ task[c] = "unregistered"
  /\ task' = [task EXCEPT ![c] = "registered"]
  /\ owner' = [owner EXCEPT ![c] = e]
  /\ session' = [session EXCEPT ![e] = c]
  /\ token' = token \cup ({session[e]} \ {NoConn})
  /\ UNCHANGED leaving

\* handle_socket ends: cancelled, closed by the edge, failed, stalled, or not
\* registered in time; on_close (or the drop) takes the session.
Close(c) ==
  /\ task[c] \in {"unregistered", "registered"}
  /\ task' = [task EXCEPT ![c] = "closed"]
  /\ RemoveIfCurrent(c)
  /\ UNCHANGED <<owner, token>>

\* Mutant: the sweeper only closes, and leaves the report to the connection.
RemoveStaleQuietly(c) ==
  /\ IsCurrent(c)
  /\ session' = [session EXCEPT ![owner[c]] = NoConn]
  /\ token' = token \cup {c}
  /\ UNCHANGED <<task, owner, leaving>>

\* One round of remove_stale: the session found stale in the snapshot is
\* removed if it is still the stored one.  How old a session may be is not
\* modelled: any session can be silent, or heard from again after the check.
RemoveStale(c) ==
  /\ IsCurrent(c)
  /\ RemoveIfCurrent(c)
  /\ token' = token \cup {c}
  /\ UNCHANGED <<task, owner>>

\* mark_edge_offline, called after the removal by whoever removed.
MarkOffline(c) ==
  /\ c \in leaving
  /\ leaving' = leaving \ {c}
  /\ UNCHANGED <<task, owner, token, session>>

\* EdgeSession::send with a full queue cancels the connection's token.
CutSlow(c) ==
  /\ token' = token \cup {c}
  /\ UNCHANGED <<task, owner, session, leaving>>

\* A connection that registered, still runs and was not asked to close is the
\* one its edge is reached by: no registration, replacement, sweep or end of
\* another connection may leave a live socket without its session.
LiveIsReached ==
  \A c \in Conns : Registered(c) /\ c \notin token => IsCurrent(c)

\* A session in the store belongs to a socket task that still runs: an edge
\* listed as connected can be sent to.
StoredIsOpen ==
  \A e \in Edges : session[e] # NoConn
    => Registered(session[e]) /\ owner[session[e]] = e
====
