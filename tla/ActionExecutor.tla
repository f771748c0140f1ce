--------------------------- MODULE ActionExecutor ---------------------------
(***************************************************************************)
(* The hub's action executor (action/executor.rs) together with the edge   *)
(* sessions it sends over.  The executor is an actor: the messages of its  *)
(* mailbox and the polls of its runs' futures happen one at a time, but    *)
(* connections open, close and are swept on other threads.                 *)
(*                                                                         *)
(* A run is one ExecuteAction or ExecuteRuleAction message: the attempts   *)
(* of its action (stage 1) and then, for a rule's action that failed, of   *)
(* its on_failure action (stage 2).  The msg_id of a request is the place  *)
(* in its run where it is sent: <<run, stage, attempt>>.  overran records, *)
(* for a property, that the attempt before a back-off hit its deadline.    *)
(*                                                                         *)
(* An edge may answer a request it was sent once, at any time, over any of *)
(* its connections, or never: results are buffered while it is offline.    *)
(* Not modelled: running_actions, which no other code reads, the rows of   *)
(* action_history, and what a script or a service does.                    *)
(***************************************************************************)
EXTENDS EdgeSessions, Sequences

CONSTANTS
  Devices, EdgeOf,     \* [Devices -> Edges], ctx.edge_id of a device's runs
  Actions,             \* action ids; a rule's action serves all its devices
  Kind,                \* [Actions -> {"edge", "script", "restart"}]
  MaxAttempts,         \* [Actions -> Nat], retry_config.max_attempts
  Fallback,            \* [Actions -> Actions \cup {NoAction}], on_failure
  NoAction,
  Dispatched,          \* the actions of rules and of the API, not only fallbacks
  Disabled,            \* actions with enabled = false
  Legacy,              \* edges whose results carry no usable correlation id
  Runs                 \* identifies the messages that may start a run

ASSUME ActionAssumption ==
  /\ EdgeOf \in [Devices -> Edges]
  /\ Kind \in [Actions -> {"edge", "script", "restart"}]
  /\ MaxAttempts \in [Actions -> Nat]
  /\ NoAction \notin Actions
  /\ Dispatched \subseteq Actions
  /\ Fallback \in [Actions -> Actions \cup {NoAction}]

VARIABLES
  run,        \* [Runs -> Run], where each run stands
  inFlight,   \* the run keys in progress
  pending,    \* requests waiting for their action_result
  reply,      \* [Runs -> Replies], the oneshot channel of the waiting request
  mailbox,    \* the executor's mailbox
  sent        \* requests the edges may still answer

executorVars == <<run, inFlight, pending, reply, mailbox, sent>>
vars == <<sessionVars, executorVars>>

Attempts(a) == IF MaxAttempts[a] = 0 THEN 1 ELSE MaxAttempts[a]

Phases == {"idle", "queued", "ready", "local", "waiting", "backoff", "skipped", "done"}
InProgress == {"ready", "local", "waiting", "backoff"}

Targets == Actions \X Devices
NoTarget == <<>>

Run == [phase : Phases, target : Targets \cup {NoTarget}, stage : {1, 2}, attempt : Nat,
        overran : BOOLEAN]

Requests == Runs \X {1, 2} \X Nat
NoRequest == <<>>           \* a result whose correlation id names no request

Messages ==
  [type : {"run"}, run : Runs]
    \cup [type : {"result"}, edge : Edges, request : Requests \cup {NoRequest},
          action : Actions, of : Requests, success : BOOLEAN]
    \cup [type : {"gone"}, edge : Edges]

\* What the oneshot channel holds: nothing, the sender dropped, or a result.
\* A result keeps the request it answers and the edge it came from.
NoReply == [kind |-> "none"]
Dropped == [kind |-> "dropped"]
Result(msg) == [kind |-> "result", edge |-> msg.edge, of |-> msg.of, success |-> msg.success]
Replies ==
  {NoReply, Dropped}
    \cup [kind : {"result"}, edge : Edges, of : Requests, success : BOOLEAN]

DeviceOf(r) == run[r].target[2]
Target(r) == EdgeOf[DeviceOf(r)]

\* The action of a stage: the run's own, then its fallback.
Primary(r) == run[r].target[1]
StageAction(r, stage) == IF stage = 1 THEN Primary(r) ELSE Fallback[Primary(r)]
Current(r) == StageAction(r, run[r].stage)

Request(r) == <<r, run[r].stage, run[r].attempt>>
ActionOf(q) == StageAction(q[1], q[2])
EdgeOfRequest(q) == Target(q[1])

\* RunKey: the action, the device and with it the edge.  The fallback runs
\* under the key of the primary action.
Key(r) == run[r].target

TypeOK ==
  /\ SessionsTypeOK
  /\ run \in [Runs -> Run]
  /\ inFlight \subseteq Targets
  /\ pending \subseteq Requests
  /\ reply \in [Runs -> Replies]
  /\ mailbox \in Seq(Messages)
  /\ sent \subseteq Requests

Init ==
  /\ SessionsInit
  /\ run = [r \in Runs |-> [phase |-> "idle", target |-> NoTarget, stage |-> 1, attempt |-> 1,
                          overran |-> FALSE]]
  /\ inFlight = {}
  /\ pending = {}
  /\ reply = [r \in Runs |-> NoReply]
  /\ mailbox = <<>>
  /\ sent = {}

-----------------------------------------------------------------------------
(* The mailbox                                                             *)

Post(msg) == mailbox' = Append(mailbox, msg)

Received(type) == mailbox # <<>> /\ Head(mailbox).type = type

\* A rule's alert, its repeat, or the API sends a run to the executor.
Dispatch(r, a, d) ==
  /\ run[r].phase = "idle"
  /\ run' = [run EXCEPT ![r].phase = "queued", ![r].target = <<a, d>>]
  /\ Post([type |-> "run", run |-> r])
  /\ UNCHANGED <<sessionVars, inFlight, pending, reply, sent>>

\* The handler of ExecuteAction and ExecuteRuleAction: try_begin_run, or skip.
Begin ==
  /\ Received("run")
  /\ LET r == Head(mailbox).run IN
       IF Key(r) \in inFlight
       THEN /\ run' = [run EXCEPT ![r].phase = "skipped"]
            /\ UNCHANGED inFlight
       ELSE /\ run' = [run EXCEPT ![r].phase = "ready"]
            /\ inFlight' = inFlight \cup {Key(r)}
  /\ mailbox' = Tail(mailbox)
  /\ UNCHANGED <<sessionVars, pending, reply, sent>>

\* Mutant: the action alone decides which requests a result may belong to.
SameActionAnyEdge(msg) == {q \in pending : ActionOf(q) = msg.action}

\* The pending requests an action_result may complete: the one it names, or
\* else the only one of the same edge and action.
SameAction(msg) ==
  {q \in pending : EdgeOfRequest(q) = msg.edge /\ ActionOf(q) = msg.action}

Matching(msg) ==
  IF msg.request \in pending /\ EdgeOfRequest(msg.request) = msg.edge
  THEN {msg.request}
  ELSE IF Cardinality(SameAction(msg)) = 1 THEN SameAction(msg) ELSE {}

\* complete
Complete ==
  /\ Received("result")
  /\ LET msg == Head(mailbox)
         done == Matching(msg)
     IN /\ pending' = pending \ done
        /\ reply' = [r \in Runs |->
             IF \E q \in done : q[1] = r THEN Result(msg) ELSE reply[r]]
  /\ mailbox' = Tail(mailbox)
  /\ UNCHANGED <<sessionVars, run, inFlight, sent>>

\* fail_edge: every pending request of the edge, whatever connection it was
\* sent on.
FailEdge ==
  /\ Received("gone")
  /\ LET lost == {q \in pending : EdgeOfRequest(q) = Head(mailbox).edge}
     IN /\ pending' = pending \ lost
        /\ reply' = [r \in Runs |->
             IF \E q \in lost : q[1] = r THEN Dropped ELSE reply[r]]
  /\ mailbox' = Tail(mailbox)
  /\ UNCHANGED <<sessionVars, run, inFlight, sent>>

-----------------------------------------------------------------------------
(* A run: execute_action for the action and then for its fallback          *)

Succeeded == "succeeded"
Failed == "failed"
TimedOut == "timeout"
Cancelled == "cancelled"

\* The status of an attempt that ended so.  The deadlines of a service restart
\* are errors, and errors are failures.
Status(r, end) ==
  IF end = TimedOut /\ Kind[Current(r)] = "restart" THEN Failed ELSE end

FailedForGood(r, end) == Status(r, end) \in {Failed, TimedOut} /\ run[r].stage = 1
Retries(r, end) == Status(r, end) = Failed /\ run[r].attempt < Attempts(Current(r))

\* Mutant: the slot is released when the primary action is over.
AfterAttemptEarly(r, end) ==
  IF Retries(r, end)
  THEN /\ run' = [run EXCEPT ![r].phase = "backoff", ![r].overran = (end = TimedOut)]
       /\ UNCHANGED inFlight
  ELSE IF FailedForGood(r, end) /\ Fallback[Primary(r)] # NoAction
  THEN /\ run' = [run EXCEPT ![r].phase = "ready", ![r].stage = 2, ![r].attempt = 1]
       /\ inFlight' = inFlight \ {Key(r)}
  ELSE /\ run' = [run EXCEPT ![r].phase = "done"]
       /\ inFlight' = inFlight \ {Key(r)}

\* What follows an attempt of r that ended: a back-off, the fallback, or the end
\* of the run, which releases its slot.
AfterAttempt(r, end) ==
  IF Retries(r, end)
  THEN /\ run' = [run EXCEPT ![r].phase = "backoff", ![r].overran = (end = TimedOut)]
       /\ UNCHANGED inFlight
  ELSE IF FailedForGood(r, end) /\ Fallback[Primary(r)] # NoAction
  THEN /\ run' = [run EXCEPT ![r].phase = "ready", ![r].stage = 2, ![r].attempt = 1]
       /\ UNCHANGED inFlight
  ELSE /\ run' = [run EXCEPT ![r].phase = "done"]
       /\ inFlight' = inFlight \ {Key(r)}

Skip(r) ==
  /\ run[r].phase = "ready"
  /\ Current(r) \in Disabled
  /\ AfterAttempt(r, Cancelled)
  /\ UNCHANGED <<sessionVars, pending, reply, mailbox, sent>>

Attempting(r, kinds) ==
  run[r].phase = "ready" /\ Current(r) \notin Disabled /\ Kind[Current(r)] \in kinds

\* execute_script, execute_restart
StartLocal(r) ==
  /\ Attempting(r, {"script", "restart"})
  /\ run' = [run EXCEPT ![r].phase = "local"]
  /\ UNCHANGED <<sessionVars, inFlight, pending, reply, mailbox, sent>>

EndLocal(r, end) ==
  /\ run[r].phase = "local"
  /\ AfterAttempt(r, end)
  /\ UNCHANGED <<sessionVars, pending, reply, mailbox, sent>>

\* execute_edge_routed without a session.
NotConnected(r) ==
  /\ Attempting(r, {"edge"})
  /\ session[Target(r)] = NoConn
  /\ AfterAttempt(r, Failed)
  /\ UNCHANGED <<sessionVars, pending, reply, mailbox, sent>>

\* The request is queued on the connection of the session.
SendRequest(r) ==
  /\ Attempting(r, {"edge"})
  /\ session[Target(r)] # NoConn
  /\ run' = [run EXCEPT ![r].phase = "waiting"]
  /\ pending' = pending \cup {Request(r)}
  /\ sent' = sent \cup {Request(r)}
  /\ UNCHANGED <<sessionVars, inFlight, reply, mailbox>>

\* The queue is full, which cuts the connection, or the connection ended after
\* the session was looked up: the pending entry is taken back.
SendFails(r) ==
  /\ Attempting(r, {"edge"})
  /\ session[Target(r)] # NoConn
  /\ AfterAttempt(r, Failed)
  /\ CutSlow(session[Target(r)]) \/ UNCHANGED sessionVars
  /\ UNCHANGED <<pending, reply, mailbox, sent>>

\* The waiter is woken by its channel: a result, or the sender dropped.
Wake(r) ==
  /\ run[r].phase = "waiting"
  /\ reply[r] # NoReply
  /\ AfterAttempt(r,
       IF reply[r].kind = "result" /\ reply[r].success THEN Succeeded ELSE Failed)
  /\ reply' = [reply EXCEPT ![r] = NoReply]
  /\ UNCHANGED <<sessionVars, pending, mailbox, sent>>

\* No result in time.  The channel is polled before the timer.
RequestTimeout(r) ==
  /\ run[r].phase = "waiting"
  /\ reply[r] = NoReply
  /\ pending' = pending \ {Request(r)}
  /\ AfterAttempt(r, TimedOut)
  /\ UNCHANGED <<sessionVars, reply, mailbox, sent>>

\* Mutant: the attempts are not counted.
RetryUncounted(r) ==
  /\ run[r].phase = "backoff"
  /\ run' = [run EXCEPT ![r].phase = "ready", ![r].overran = FALSE]
  /\ UNCHANGED <<sessionVars, inFlight, pending, reply, mailbox, sent>>

Retry(r) ==
  /\ run[r].phase = "backoff"
  /\ run' = [run EXCEPT ![r].phase = "ready", ![r].attempt = @ + 1,
                            ![r].overran = FALSE]
  /\ UNCHANGED <<sessionVars, inFlight, pending, reply, mailbox, sent>>

-----------------------------------------------------------------------------
(* Connections                                                             *)

\* An action_result arrives on a registered connection: on_edge_payload.
EdgeAnswers(c, q, success) ==
  /\ Registered(c)
  /\ q \in sent
  /\ EdgeOfRequest(q) = owner[c]
  /\ sent' = sent \ {q}
  /\ Post([type |-> "result", edge |-> owner[c], action |-> ActionOf(q),
           request |-> IF owner[c] \in Legacy THEN NoRequest ELSE q,
           of |-> q, success |-> success])
  /\ UNCHANGED <<sessionVars, run, inFlight, pending, reply>>

\* mark_edge_offline tells the executor that the edge is gone.
ReportGone(c) ==
  /\ MarkOffline(c)
  /\ Post([type |-> "gone", edge |-> owner[c]])
  /\ UNCHANGED <<run, inFlight, pending, reply, sent>>

Handle == Begin \/ Complete \/ FailEdge

Proceed(r) ==
  \/ Skip(r)
  \/ StartLocal(r)
  \/ \E end \in {Succeeded, Failed, TimedOut} : EndLocal(r, end)
  \/ NotConnected(r)
  \/ SendRequest(r)
  \/ SendFails(r)
  \/ Wake(r)
  \/ RequestTimeout(r)
  \/ Retry(r)

Next ==
  \/ \E r \in Runs, a \in Dispatched, d \in Devices : Dispatch(r, a, d)
  \/ Handle
  \/ \E r \in Runs : Proceed(r)
  \/ \E c \in Conns :
       \/ (Connect(c) \/ Close(c) \/ RemoveStale(c)
             \/ \E e \in Edges : Register(c, e))
          /\ UNCHANGED executorVars
       \/ \E q \in sent, success \in BOOLEAN : EdgeAnswers(c, q, success)
       \/ ReportGone(c)

Spec == Init /\ [][Next]_vars

\* The actor's mailbox is served, and each run's future is polled when its
\* timer, process or channel is ready.  Nothing is assumed of the edges.
FairSpec == Spec /\ WF_vars(Handle) /\ \A r \in Runs : WF_vars(Proceed(r))

-----------------------------------------------------------------------------
(* Properties                                                              *)

Going(r) == run[r].phase \in InProgress

\* Every pending request has a run that waits for it and was not answered, and
\* every waiting run has its request pending or its answer at hand: no entry
\* outlives its waiter, and no waiter is left that only a timeout can wake.
WaiterPerRequest ==
  pending = {Request(r) : r \in {x \in Runs : run[x].phase = "waiting" /\ reply[x] = NoReply}}

\* A re-fire does not start a second run of the same action for the same
\* device, and the slot is free again once the run is over.
OneRunPerTarget ==
  /\ inFlight = {Key(r) : r \in {x \in Runs : Going(x)}}
  /\ \A r, s \in Runs : r # s /\ Going(r) /\ Going(s) => Key(r) # Key(s)

\* Only the edge a request was dispatched to completes it.
ResultFromItsEdge ==
  \A r \in Runs : reply[r].kind = "result" => reply[r].edge = Target(r)

\* A request waiting while its edge has no connection is about to be failed:
\* the end of a connection always reaches the executor after the requests that
\* were sent over it.
GoneFailsPending ==
  \A q \in pending : session[EdgeOfRequest(q)] = NoConn =>
    \/ \E c \in leaving : owner[c] = EdgeOfRequest(q)
    \/ \E i \in DOMAIN mailbox :
         mailbox[i].type = "gone" /\ mailbox[i].edge = EdgeOfRequest(q)

\* Every dispatched run comes to its end, whatever the edges do, and gives
\* back its slot.
RunsEnd ==
  \A r \in Runs : run[r].phase = "queued" ~> run[r].phase \in {"skipped", "done"}

\* Claims the code does not keep, which no run checks.  README.md:99-101: action
\* results are matched to the exact request and late replies are ignored.
\* executor.rs:180-182: a timeout is never retried.
LateRepliesIgnored ==
  \A r \in Runs : reply[r].kind = "result" => reply[r].of = Request(r)
TimeoutNotRetried == \A r \in Runs : run[r].phase = "backoff" => ~run[r].overran
====
