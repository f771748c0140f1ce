------------------------ MODULE ActionExecutor_proofs ------------------------
(***************************************************************************)
(* Proofs about the edge sessions and the action executor, for all edges,  *)
(* connections, devices, actions and runs: type correctness, what the      *)
(* session store holds, and that requests, waiters and slots agree.        *)
(***************************************************************************)
EXTENDS ActionExecutor, SequenceTheorems, TLAPS

\* A connection that registered, or is reported gone, has an edge, and one that
\* has not registered has none.
OwnersKnown ==
  \A c \in Conns :
    /\ Registered(c) \/ c \in leaving => owner[c] \in Edges
    /\ task[c] \in {"none", "unregistered"} => owner[c] = NoEdge

\* A run that was dispatched has its target, and a second stage its fallback.
Placed(r) ==
  /\ run[r].phase = "idle" => run[r].stage = 1
  /\ run[r].phase # "idle" => run[r].target \in Targets
  /\ run[r].stage = 2 => Fallback[Primary(r)] \in Actions
RunsPlaced == \A r \in Runs : Placed(r)

\* A request that was sent belongs to a stage its run reached.
SentByRuns ==
  \A q \in sent : /\ run[q[1]].phase # "idle"
                  /\ q[2] = 2 => run[q[1]].stage = 2

\* A queued run has one message, and a message its queued run.
QueuedOnce ==
  /\ \A i \in 1 .. Len(mailbox) :
       mailbox[i].type = "run" => run[mailbox[i].run].phase = "queued"
  /\ \A i, j \in 1 .. Len(mailbox) :
       mailbox[i].type = "run" /\ mailbox[j].type = "run"
         /\ mailbox[i].run = mailbox[j].run => i = j

\* Only a run that waits has something in its channel.
RepliesAwaited == \A r \in Runs : reply[r] # NoReply => run[r].phase = "waiting"

SessionInv == SessionsTypeOK /\ OwnersKnown /\ LiveIsReached /\ StoredIsOpen
RunInv == RunsPlaced /\ SentByRuns /\ QueuedOnce /\ OneRunPerTarget
RequestInv == RepliesAwaited /\ WaiterPerRequest /\ ResultFromItsEdge /\ GoneFailsPending

IInv == TypeOK /\ SessionInv /\ RunInv /\ RequestInv

-----------------------------------------------------------------------------
(* Sessions                                                                *)

\* What a step on the connections may do to the store.
SessionStep ==
  \/ UNCHANGED sessionVars
  \/ \E c \in Conns : \/ Connect(c) \/ Close(c) \/ RemoveStale(c) \/ MarkOffline(c)
                      \/ CutSlow(c) \/ \E e \in Edges : Register(c, e)

LEMMA SessionsInitially == SessionsInit => SessionInv
  BY NoneAssumption DEF SessionsInit, SessionInv, SessionsTypeOK, OwnersKnown, LiveIsReached,
     StoredIsOpen, Registered, TaskStates

LEMMA SessionsKept ==
  ASSUME SessionInv, SessionStep
  PROVE  SessionInv'
<1> USE NoneAssumption DEF SessionInv, SessionsTypeOK, OwnersKnown, LiveIsReached, StoredIsOpen,
        Registered, IsCurrent, TaskStates
<1>1. CASE UNCHANGED sessionVars
  BY <1>1 DEF sessionVars
<1>2. ASSUME NEW c \in Conns, Connect(c) PROVE SessionInv'
  BY <1>2 DEF Connect
<1>3. ASSUME NEW c \in Conns, Close(c) PROVE SessionInv'
  BY <1>3 DEF Close, RemoveIfCurrent
<1>4. ASSUME NEW c \in Conns, RemoveStale(c) PROVE SessionInv'
  BY <1>4 DEF RemoveStale, RemoveIfCurrent
<1>5. ASSUME NEW c \in Conns, MarkOffline(c) PROVE SessionInv'
  BY <1>5 DEF MarkOffline
<1>6. ASSUME NEW c \in Conns, CutSlow(c) PROVE SessionInv'
  BY <1>6 DEF CutSlow
<1>7. ASSUME NEW c \in Conns, NEW e \in Edges, Register(c, e) PROVE SessionInv'
  BY <1>7 DEF Register
<1> QED BY <1>1, <1>2, <1>3, <1>4, <1>5, <1>6, <1>7 DEF SessionStep

-----------------------------------------------------------------------------
(* Runs                                                                    *)

LEMMA RequestIsTyped ==
  ASSUME TypeOK, NEW r \in Runs
  PROVE  /\ Request(r) \in Requests
         /\ Request(r)[1] = r /\ Request(r)[2] = run[r].stage
  BY DEF TypeOK, Run, Requests, Request

\* The edge of a run that was dispatched, and the action of each of its stages.
LEMMA PlacedIsTyped ==
  ASSUME TypeOK, NEW r \in Runs, Placed(r), run[r].phase # "idle"
  PROVE  /\ Target(r) \in Edges /\ Key(r) \in Targets
         /\ Primary(r) \in Actions /\ Current(r) \in Actions
         /\ run[r].stage = 2 => StageAction(r, 2) \in Actions
         /\ StageAction(r, 1) \in Actions
<1>1. run[r].target \in Targets
  BY DEF Placed
<1>2. run[r].target[1] \in Actions /\ run[r].target[2] \in Devices
  BY <1>1 DEF Targets
<1>3. Target(r) \in Edges
  BY <1>2, ActionAssumption DEF Target, DeviceOf
<1>4. run[r].stage \in {1, 2}
  BY DEF TypeOK, Run
<1> QED BY <1>1, <1>2, <1>3, <1>4 DEF Key, Primary, Current, StageAction, Placed

\* What a step of r's future does to the runs and the slots.
Moved(r) ==
  /\ run' \in [Runs -> Run] /\ \A s \in Runs \ {r} : run'[s] = run[s]
  /\ run[r].phase \in InProgress /\ run'[r].phase \in InProgress \cup {"done"}
  /\ run'[r].target = run[r].target
  /\ run[r].stage = 2 => run'[r].stage = 2
  /\ run'[r].stage = 2 => Fallback[Primary(r)] \in Actions
  /\ inFlight' = IF run'[r].phase = "done" THEN inFlight \ {Key(r)} ELSE inFlight

Ends == {Succeeded, Failed, TimedOut, Cancelled}

LEMMA AttemptMoves ==
  ASSUME TypeOK, NEW r \in Runs, Placed(r), run[r].phase \in InProgress, NEW end \in Ends,
         AfterAttempt(r, end)
  PROVE  Moved(r) /\ run'[r].phase # "waiting"
<1>1. run \in [Runs -> Run] /\ run[r].phase # "idle"
  BY DEF TypeOK, InProgress
<1>2. Primary(r) \in Actions
  BY <1>1, PlacedIsTyped
<1>3. CASE Retries(r, end)
  <2>1. /\ run' = [run EXCEPT ![r].phase = "backoff", ![r].overran = (end = TimedOut)]
        /\ UNCHANGED inFlight
    BY <1>3 DEF AfterAttempt
  <2>2. (end = TimedOut) \in BOOLEAN
    OBVIOUS
  <2>3. run[r] \in Run
    BY <1>1
  <2>4. [run[r] EXCEPT !.phase = "backoff", !.overran = (end = TimedOut)] \in Run
    BY <2>2, <2>3 DEF Run, Phases
  <2>5. /\ run'[r] = [run[r] EXCEPT !.phase = "backoff", !.overran = (end = TimedOut)]
        /\ \A s \in Runs \ {r} : run'[s] = run[s]
        /\ run' \in [Runs -> Run]
    BY <1>1, <2>1, <2>4
  <2>6. run'[r].phase = "backoff" /\ run'[r].target = run[r].target /\ run'[r].stage = run[r].stage
    BY <2>3, <2>5 DEF Run
  <2> QED BY <2>1, <2>5, <2>6 DEF Moved, InProgress, Placed
<1>4. CASE ~ Retries(r, end) /\ FailedForGood(r, end) /\ Fallback[Primary(r)] # NoAction
  <2>1. /\ run' = [run EXCEPT ![r].phase = "ready", ![r].stage = 2, ![r].attempt = 1]
        /\ UNCHANGED inFlight
    BY <1>4 DEF AfterAttempt
  <2>2. Fallback[Primary(r)] \in Actions
    BY <1>2, <1>4, ActionAssumption
  <2>3. /\ run'[r] = [run[r] EXCEPT !.phase = "ready", !.stage = 2, !.attempt = 1]
        /\ \A s \in Runs \ {r} : run'[s] = run[s]
        /\ run' \in [Runs -> Run]
    <3>1. run[r] \in Run
      BY <1>1
    <3>2. [run[r] EXCEPT !.phase = "ready", !.stage = 2, !.attempt = 1] \in Run
      BY <3>1 DEF Run, Phases
    <3> QED BY <1>1, <2>1, <3>2
  <2>4. run'[r].phase = "ready" /\ run'[r].target = run[r].target /\ run'[r].stage = 2
    BY <1>1, <2>3 DEF Run
  <2> QED BY <2>1, <2>2, <2>3, <2>4 DEF Moved, InProgress
<1>5. CASE ~ Retries(r, end) /\ ~ (FailedForGood(r, end) /\ Fallback[Primary(r)] # NoAction)
  <2>1. /\ run' = [run EXCEPT ![r].phase = "done"]
        /\ inFlight' = inFlight \ {Key(r)}
    BY <1>5 DEF AfterAttempt
  <2> QED BY <1>1, <2>1 DEF Moved, Run, Phases, InProgress, Placed
<1> QED BY <1>3, <1>4, <1>5

\* How a step of r's future treats the request r waits for.
Untouched(r) ==
  /\ run[r].phase # "waiting" /\ run'[r].phase # "waiting"
  /\ UNCHANGED <<pending, reply, sent>>
Asked(r) ==
  /\ run[r].phase = "ready" /\ run' = [run EXCEPT ![r].phase = "waiting"]
  /\ session[Target(r)] # NoConn
  /\ pending' = pending \cup {Request(r)} /\ sent' = sent \cup {Request(r)}
  /\ UNCHANGED <<reply, sessionVars>>
Answered(r) ==
  /\ run[r].phase = "waiting" /\ reply[r] # NoReply /\ run'[r].phase # "waiting"
  /\ reply' = [reply EXCEPT ![r] = NoReply]
  /\ UNCHANGED <<pending, sent, sessionVars>>
GaveUp(r) ==
  /\ run[r].phase = "waiting" /\ reply[r] = NoReply /\ run'[r].phase # "waiting"
  /\ pending' = pending \ {Request(r)}
  /\ UNCHANGED <<reply, sent, sessionVars>>

\* CutSlow of the session of r's edge, the only effect on the connections.
CutsAtMost(r) ==
  UNCHANGED sessionVars \/ (session[Target(r)] # NoConn /\ CutSlow(session[Target(r)]))

LEMMA ProceedMoves ==
  ASSUME TypeOK, NEW r \in Runs, Placed(r), Proceed(r)
  PROVE  /\ Moved(r)
         /\ Untouched(r) \/ Asked(r) \/ Answered(r) \/ GaveUp(r)
         /\ CutsAtMost(r) /\ UNCHANGED mailbox
<1> DEFINE Goal == /\ Moved(r)
                   /\ Untouched(r) \/ Asked(r) \/ Answered(r) \/ GaveUp(r)
                   /\ CutsAtMost(r) /\ UNCHANGED mailbox
<1>0. run \in [Runs -> Run]
  BY DEF TypeOK
<1>1. CASE Skip(r)
  <2>1. AfterAttempt(r, Cancelled) /\ run[r].phase = "ready"
        /\ UNCHANGED <<sessionVars, pending, reply, mailbox, sent>>
    BY <1>1 DEF Skip
  <2>2. Moved(r) /\ run'[r].phase # "waiting"
    BY <2>1, AttemptMoves DEF InProgress, Ends
  <2> QED BY <2>1, <2>2 DEF Untouched, CutsAtMost
<1>2. CASE StartLocal(r)
  BY <1>0, <1>2 DEF StartLocal, Attempting, Moved, Placed, Untouched, CutsAtMost, Run, Phases,
     InProgress
<1>3. ASSUME NEW end \in {Succeeded, Failed, TimedOut}, EndLocal(r, end)
      PROVE  Goal
  <2>1. AfterAttempt(r, end) /\ run[r].phase = "local"
        /\ UNCHANGED <<sessionVars, pending, reply, mailbox, sent>>
    BY <1>3 DEF EndLocal
  <2>2. Moved(r) /\ run'[r].phase # "waiting"
    BY <2>1, AttemptMoves DEF InProgress, Ends
  <2> QED BY <2>1, <2>2 DEF Untouched, CutsAtMost
<1>4. CASE NotConnected(r)
  <2>1. AfterAttempt(r, Failed) /\ run[r].phase = "ready"
        /\ UNCHANGED <<sessionVars, pending, reply, mailbox, sent>>
    BY <1>4 DEF NotConnected, Attempting
  <2>2. Moved(r) /\ run'[r].phase # "waiting"
    BY <2>1, AttemptMoves DEF InProgress, Ends
  <2> QED BY <2>1, <2>2 DEF Untouched, CutsAtMost
<1>5. CASE SendRequest(r)
  <2>1. Asked(r) /\ UNCHANGED <<inFlight, mailbox>>
    BY <1>5 DEF SendRequest, Attempting, Asked
  <2>2. Moved(r)
    BY <1>0, <2>1 DEF Asked, Moved, Placed, Run, Phases, InProgress
  <2> QED BY <2>1, <2>2 DEF Asked, CutsAtMost
<1>6. CASE SendFails(r)
  <2>1. AfterAttempt(r, Failed) /\ run[r].phase = "ready" /\ session[Target(r)] # NoConn
        /\ (CutSlow(session[Target(r)]) \/ UNCHANGED sessionVars)
        /\ UNCHANGED <<pending, reply, mailbox, sent>>
    BY <1>6 DEF SendFails, Attempting
  <2>2. Moved(r) /\ run'[r].phase # "waiting"
    BY <2>1, AttemptMoves DEF InProgress, Ends
  <2> QED BY <2>1, <2>2 DEF Untouched, CutsAtMost
<1>7. CASE Wake(r)
  <2> DEFINE end == IF reply[r].kind = "result" /\ reply[r].success THEN Succeeded ELSE Failed
  <2>1. AfterAttempt(r, end) /\ run[r].phase = "waiting" /\ reply[r] # NoReply
        /\ reply' = [reply EXCEPT ![r] = NoReply]
        /\ UNCHANGED <<sessionVars, pending, mailbox, sent>>
    BY <1>7 DEF Wake
  <2>2. end \in Ends
    BY DEF Ends
  <2>3. Moved(r) /\ run'[r].phase # "waiting"
    <3> HIDE DEF end
    <3> QED BY <2>1, <2>2, AttemptMoves DEF InProgress
  <2> QED BY <2>1, <2>3 DEF Answered, CutsAtMost
<1>8. CASE RequestTimeout(r)
  <2>1. AfterAttempt(r, TimedOut) /\ run[r].phase = "waiting" /\ reply[r] = NoReply
        /\ pending' = pending \ {Request(r)}
        /\ UNCHANGED <<sessionVars, reply, mailbox, sent>>
    BY <1>8 DEF RequestTimeout
  <2>2. Moved(r) /\ run'[r].phase # "waiting"
    BY <2>1, AttemptMoves DEF InProgress, Ends
  <2> QED BY <2>1, <2>2 DEF GaveUp, CutsAtMost
<1>9. CASE Retry(r)
  <2>1. /\ run[r].phase = "backoff"
        /\ run' = [run EXCEPT ![r].phase = "ready", ![r].attempt = @ + 1, ![r].overran = FALSE]
        /\ UNCHANGED <<sessionVars, inFlight, pending, reply, mailbox, sent>>
    BY <1>9 DEF Retry
  <2>2. Moved(r) /\ run'[r].phase = "ready"
    BY <1>0, <2>1 DEF Moved, Placed, Run, Phases, InProgress
  <2> QED BY <2>1, <2>2 DEF Untouched, CutsAtMost
<1> QED BY <1>1, <1>2, <1>3, <1>4, <1>5, <1>6, <1>7, <1>8, <1>9 DEF Proceed

-----------------------------------------------------------------------------
(* The mailbox                                                             *)

LEMMA MessageTypes ==
  ASSUME NEW msg \in Messages
  PROVE  /\ msg.type \in {"run", "result", "gone"}
         /\ msg.type = "run" => msg.run \in Runs
         /\ msg.type = "result" => /\ msg.edge \in Edges /\ msg.of \in Requests
                                   /\ msg.success \in BOOLEAN
         /\ msg.type = "gone" => msg.edge \in Edges
  BY DEF Messages

LEMMA Posted ==
  ASSUME mailbox \in Seq(Messages), NEW msg \in Messages, Post(msg)
  PROVE  /\ mailbox' \in Seq(Messages) /\ Len(mailbox) \in Nat
         /\ Len(mailbox') = Len(mailbox) + 1
         /\ \A i \in 1 .. Len(mailbox) : mailbox'[i] = mailbox[i]
         /\ mailbox'[Len(mailbox) + 1] = msg
  BY AppendProperties DEF Post

LEMMA Taken ==
  ASSUME mailbox \in Seq(Messages), mailbox # <<>>, mailbox' = Tail(mailbox)
  PROVE  /\ mailbox' \in Seq(Messages) /\ Len(mailbox) \in Nat
         /\ Len(mailbox) >= 1 /\ Len(mailbox') = Len(mailbox) - 1
         /\ \A i \in 1 .. Len(mailbox') : i + 1 \in 1 .. Len(mailbox) /\ mailbox'[i] = mailbox[i + 1]
         /\ Head(mailbox) = mailbox[1] /\ Head(mailbox) \in Messages
<1>1. /\ Head(mailbox) \in Messages /\ Tail(mailbox) \in Seq(Messages)
      /\ Len(Tail(mailbox)) = Len(mailbox) - 1
      /\ \A i \in 1 .. Len(Tail(mailbox)) : Tail(mailbox)[i] = mailbox[i + 1]
  BY HeadTailProperties
<1>2. Len(mailbox) \in Nat /\ Len(mailbox) >= 1 /\ Head(mailbox) = mailbox[1]
  BY SMT
<1> QED BY <1>1, <1>2

\* The end of e's connection is on its way to the executor.
GoneReported(e) == \E i \in 1 .. Len(mailbox) : mailbox[i].type = "gone" /\ mailbox[i].edge = e
Lost(e) == (\E c \in leaving : owner[c] = e) \/ GoneReported(e)

LEMMA GoneFailsLost ==
  ASSUME mailbox \in Seq(Messages)
  PROVE  GoneFailsPending <=> \A q \in pending : session[EdgeOfRequest(q)] = NoConn
                                                   => Lost(EdgeOfRequest(q))
<1>1. DOMAIN mailbox = 1 .. Len(mailbox)
  OBVIOUS
<1> QED BY <1>1 DEF GoneFailsPending, Lost, GoneReported

LEMMA GoneKeptByPost ==
  ASSUME mailbox \in Seq(Messages), NEW msg \in Messages, Post(msg), NEW e, GoneReported(e)
  PROVE  GoneReported(e)'
<1>1. PICK i \in 1 .. Len(mailbox) : mailbox[i].type = "gone" /\ mailbox[i].edge = e
  BY DEF GoneReported
<1>2. i \in 1 .. Len(mailbox') /\ mailbox'[i] = mailbox[i]
  BY Posted
<1> QED BY <1>1, <1>2 DEF GoneReported

LEMMA GoneKeptByTake ==
  ASSUME mailbox \in Seq(Messages), mailbox # <<>>, mailbox' = Tail(mailbox), NEW e,
         GoneReported(e), ~ (Head(mailbox).type = "gone" /\ Head(mailbox).edge = e)
  PROVE  GoneReported(e)'
<1>1. PICK i \in 1 .. Len(mailbox) : mailbox[i].type = "gone" /\ mailbox[i].edge = e
  BY DEF GoneReported
<1>2. i # 1
  BY <1>1, Taken
<1>3. i - 1 \in 1 .. Len(mailbox') /\ mailbox'[i - 1] = mailbox[i]
  BY <1>2, Taken
<1> QED BY <1>1, <1>3 DEF GoneReported

\* Messages taken or posted leave a queued run with its one message.
LEMMA QueuedKeptByTake ==
  ASSUME mailbox \in Seq(Messages), mailbox # <<>>, mailbox' = Tail(mailbox), QueuedOnce,
         \A r \in Runs : \/ run'[r].phase = run[r].phase
                         \/ Head(mailbox).type = "run" /\ Head(mailbox).run = r
  PROVE  QueuedOnce'
<1>1. ASSUME NEW i \in 1 .. Len(mailbox'), mailbox'[i].type = "run"
      PROVE  run'[mailbox'[i].run].phase = "queued"
  <2>1. i + 1 \in 1 .. Len(mailbox) /\ mailbox'[i] = mailbox[i + 1] /\ i + 1 # 1
        /\ 1 \in 1 .. Len(mailbox)
    BY Taken
  <2>2. mailbox[i + 1] \in Messages
    BY <2>1, ElementOfSeq
  <2>3. mailbox[i + 1].run \in Runs
    BY <1>1, <2>1, <2>2, MessageTypes
  <2>4. run[mailbox[i + 1].run].phase = "queued"
    BY <1>1, <2>1 DEF QueuedOnce
  <2>5. ~ (Head(mailbox).type = "run" /\ Head(mailbox).run = mailbox[i + 1].run)
    BY <1>1, <2>1, Taken DEF QueuedOnce
  <2> QED BY <2>1, <2>3, <2>4, <2>5
<1>2. ASSUME NEW i \in 1 .. Len(mailbox'), NEW j \in 1 .. Len(mailbox'),
             mailbox'[i].type = "run", mailbox'[j].type = "run", mailbox'[i].run = mailbox'[j].run
      PROVE  i = j
  <2>1. /\ i + 1 \in 1 .. Len(mailbox) /\ mailbox'[i] = mailbox[i + 1]
        /\ j + 1 \in 1 .. Len(mailbox) /\ mailbox'[j] = mailbox[j + 1]
    BY Taken
  <2>2. i + 1 = j + 1
    BY <1>2, <2>1 DEF QueuedOnce
  <2> QED BY <2>2, Taken
<1> QED BY <1>1, <1>2 DEF QueuedOnce

LEMMA QueuedKeptByPost ==
  ASSUME mailbox \in Seq(Messages), NEW msg \in Messages, Post(msg), QueuedOnce,
         \A r \in Runs : run[r].phase = "queued" => run'[r].phase = "queued",
         msg.type = "run" => run[msg.run].phase # "queued" /\ run'[msg.run].phase = "queued"
  PROVE  QueuedOnce'
<1>1. ASSUME NEW i \in 1 .. Len(mailbox') PROVE
        \/ i \in 1 .. Len(mailbox) /\ mailbox'[i] = mailbox[i] /\ mailbox[i] \in Messages
        \/ i = Len(mailbox) + 1 /\ mailbox'[i] = msg
  <2>1. i \in 1 .. Len(mailbox) \/ i = Len(mailbox) + 1
    BY Posted
  <2> QED BY <2>1, Posted, ElementOfSeq
<1>2. ASSUME NEW i \in 1 .. Len(mailbox'), mailbox'[i].type = "run"
      PROVE  run'[mailbox'[i].run].phase = "queued"
  BY <1>1, <1>2, MessageTypes DEF QueuedOnce
<1>3. ASSUME NEW i \in 1 .. Len(mailbox'), NEW j \in 1 .. Len(mailbox'),
             mailbox'[i].type = "run", mailbox'[j].type = "run", mailbox'[i].run = mailbox'[j].run
      PROVE  i = j
  BY <1>1, <1>3, MessageTypes DEF QueuedOnce
<1> QED BY <1>2, <1>3 DEF QueuedOnce

-----------------------------------------------------------------------------
(* One lemma per kind of step                                              *)

\* A connection that leaves the store is reported before it is forgotten.
Opening == \E c \in Conns : \/ Connect(c) \/ Close(c) \/ RemoveStale(c) \/ CutSlow(c)
                            \/ \E e \in Edges : Register(c, e)

LEMMA LeavingReported ==
  ASSUME SessionInv, Opening \/ UNCHANGED sessionVars, NEW e \in Edges, session'[e] = NoConn
  PROVE  \/ \E c \in leaving' : owner'[c] = e
         \/ session[e] = NoConn /\ \A c \in leaving : c \in leaving' /\ owner'[c] = owner[c]
<1> USE NoneAssumption DEF SessionInv, SessionsTypeOK, OwnersKnown, Registered, IsCurrent
<1>1. CASE UNCHANGED sessionVars
  BY <1>1 DEF sessionVars
<1>2. ASSUME NEW c \in Conns, Connect(c) \/ CutSlow(c)
      PROVE  session[e] = NoConn /\ \A x \in leaving : x \in leaving' /\ owner'[x] = owner[x]
  BY <1>2 DEF Connect, CutSlow
<1>3. ASSUME NEW c \in Conns, Close(c) \/ RemoveStale(c)
      PROVE  \/ \E x \in leaving' : owner'[x] = e
             \/ session[e] = NoConn /\ \A x \in leaving : x \in leaving' /\ owner'[x] = owner[x]
  BY <1>3 DEF Close, RemoveStale, RemoveIfCurrent
<1>4. ASSUME NEW c \in Conns, NEW d \in Edges, Register(c, d)
      PROVE  session[e] = NoConn /\ \A x \in leaving : x \in leaving' /\ owner'[x] = owner[x]
  <2>1. c \notin leaving
    BY <1>4 DEF Register
  <2> QED BY <1>4, <2>1 DEF Register
<1> QED BY <1>1, <1>2, <1>3, <1>4 DEF Opening

\* Pending requests belong to runs that wait, and so have an edge.
LEMMA PendingKnown ==
  ASSUME TypeOK, RunsPlaced, WaiterPerRequest, NEW q \in pending
  PROVE  /\ q \in Requests /\ q[1] \in Runs /\ run[q[1]].phase = "waiting" /\ q = Request(q[1])
         /\ EdgeOfRequest(q) \in Edges
<1>1. PICK r \in Runs : run[r].phase = "waiting" /\ q = Request(r)
  BY DEF WaiterPerRequest
<1>2. q \in Requests /\ q[1] = r
  BY <1>1, RequestIsTyped
<1>3. Target(r) \in Edges
  BY <1>1, PlacedIsTyped DEF RunsPlaced
<1> QED BY <1>1, <1>2, <1>3 DEF EdgeOfRequest

LEMMA SameTarget ==
  ASSUME NEW q, run'[q[1]].target = run[q[1]].target
  PROVE  EdgeOfRequest(q)' = EdgeOfRequest(q)
  BY DEF EdgeOfRequest, Target, DeviceOf

\* The invariant of the requests, where neither they nor the mailbox change.
LEMMA PendingKept ==
  ASSUME IInv, Opening \/ UNCHANGED sessionVars, UNCHANGED mailbox, pending' \subseteq pending,
         \A q \in pending : run'[q[1]].target = run[q[1]].target
  PROVE  GoneFailsPending'
<1>1. mailbox \in Seq(Messages) /\ mailbox' \in Seq(Messages)
  BY DEF IInv, TypeOK
<1>2. ASSUME NEW q \in pending', session'[EdgeOfRequest(q)'] = NoConn
      PROVE  \/ \E c \in leaving' : owner'[c] = EdgeOfRequest(q)'
             \/ \E i \in 1 .. Len(mailbox') :
                  mailbox'[i].type = "gone" /\ mailbox'[i].edge = EdgeOfRequest(q)'
  <2>1. q \in pending /\ EdgeOfRequest(q)' = EdgeOfRequest(q) /\ EdgeOfRequest(q) \in Edges
    BY PendingKnown, SameTarget DEF IInv, RunInv, RequestInv
  <2>2. PICK e \in Edges : e = EdgeOfRequest(q) /\ e = EdgeOfRequest(q)'
    BY <2>1
  <2>3. CASE \E c \in leaving' : owner'[c] = e
    BY <2>2, <2>3
  <2>4. CASE session[e] = NoConn /\ \A c \in leaving : c \in leaving' /\ owner'[c] = owner[c]
    <3>1. Lost(e)
      BY <1>1, <2>1, <2>2, <2>4, GoneFailsLost DEF IInv, RequestInv
    <3>2. GoneReported(e) => GoneReported(e)'
      BY DEF GoneReported
    <3> QED BY <2>2, <2>4, <3>1, <3>2 DEF Lost, GoneReported
  <2> QED BY <1>2, <2>2, <2>3, <2>4, LeavingReported DEF IInv
<1> QED BY <1>1, <1>2 DEF GoneFailsPending

\* Connections open and close, or nothing happens.
LEMMA OpeningKeeps ==
  ASSUME IInv, Opening \/ UNCHANGED sessionVars, UNCHANGED executorVars
  PROVE  IInv'
<1>1. SessionInv'
  BY SessionsKept DEF IInv, Opening, SessionStep
<1>2. GoneFailsPending'
  BY PendingKept DEF IInv, executorVars
<1>3. TypeOK'
  BY <1>1 DEF IInv, SessionInv, TypeOK, executorVars
<1>4. RunInv'
  BY DEF IInv, RunInv, RunsPlaced, Placed, Primary, SentByRuns, QueuedOnce, OneRunPerTarget, Going,
     Key, executorVars
<1>5. RepliesAwaited' /\ WaiterPerRequest' /\ ResultFromItsEdge'
  BY DEF IInv, RequestInv, RepliesAwaited, WaiterPerRequest, Request, ResultFromItsEdge, Target,
     DeviceOf, executorVars
<1> QED BY <1>1, <1>2, <1>3, <1>4, <1>5 DEF IInv, RequestInv

\* A run's future takes a step.
LEMMA MovedKeepsRuns ==
  ASSUME TypeOK, RunInv, NEW r \in Runs, Moved(r), UNCHANGED mailbox,
         sent' \subseteq sent \cup {Request(r)}
  PROVE  RunInv'
<1>1. run \in [Runs -> Run] /\ run' \in [Runs -> Run] /\ run[r].phase # "idle"
  BY DEF TypeOK, Moved, InProgress
<1>2. \A s \in Runs : run'[s].target = run[s].target
  BY DEF Moved
<1>3. RunsPlaced'
  BY <1>1, <1>2 DEF RunInv, RunsPlaced, Placed, Moved, Primary, InProgress
<1>4. SentByRuns'
  <2>1. ASSUME NEW q \in sent', q \in sent
        PROVE  run'[q[1]].phase # "idle" /\ (q[2] = 2 => run'[q[1]].stage = 2)
    <3>1. q[1] \in Runs
      BY <2>1 DEF TypeOK, Requests
    <3>2. CASE q[1] = r
      BY <2>1, <3>2 DEF RunInv, SentByRuns, Moved, InProgress
    <3>3. CASE q[1] # r
      BY <2>1, <3>1, <3>3 DEF RunInv, SentByRuns, Moved
    <3> QED BY <3>2, <3>3
  <2>2. run'[Request(r)[1]].phase # "idle" /\ (Request(r)[2] = 2 => run'[Request(r)[1]].stage = 2)
    BY RequestIsTyped DEF Moved, InProgress
  <2> QED BY <2>1, <2>2 DEF SentByRuns
<1>5. QueuedOnce'
  <2>1. ASSUME NEW i \in 1 .. Len(mailbox), mailbox[i].type = "run"
        PROVE  run'[mailbox[i].run].phase = "queued"
    <3>1. mailbox[i].run \in Runs /\ run[mailbox[i].run].phase = "queued"
      BY <2>1, ElementOfSeq, MessageTypes DEF TypeOK, RunInv, QueuedOnce
    <3>2. mailbox[i].run # r
      BY <3>1 DEF Moved, InProgress
    <3> QED BY <3>1, <3>2 DEF Moved
  <2> QED BY <2>1 DEF RunInv, QueuedOnce
<1>6. OneRunPerTarget'
  <2>1. \A s \in Runs : Key(s)' = Key(s)
    BY <1>2 DEF Key
  <2>2. \A s \in Runs \ {r} : Going(s)' = Going(s)
    BY DEF Moved, Going
  <2>3. Going(r) /\ (Going(r)' <=> run'[r].phase # "done")
    BY DEF Moved, Going, InProgress
  <2>4. \A x, s \in Runs : x # s /\ Going(x)' /\ Going(s)' => Key(x)' # Key(s)'
    BY <2>1, <2>2, <2>3 DEF RunInv, OneRunPerTarget
  <2>5. inFlight' = {Key(s)' : s \in {x \in Runs : Going(x)'}}
    BY <2>1, <2>2, <2>3 DEF RunInv, OneRunPerTarget, Moved
  <2> QED BY <2>4, <2>5 DEF OneRunPerTarget
<1> QED BY <1>3, <1>4, <1>5, <1>6 DEF RunInv

LEMMA ProceedKeeps ==
  ASSUME IInv, NEW r \in Runs, Proceed(r)
  PROVE  IInv'
<1>0. TypeOK /\ RunInv /\ Placed(r) /\ WaiterPerRequest /\ RepliesAwaited /\ ResultFromItsEdge
  BY DEF IInv, RunInv, RequestInv, RunsPlaced
<1>1. /\ Moved(r) /\ UNCHANGED mailbox /\ CutsAtMost(r)
      /\ Untouched(r) \/ Asked(r) \/ Answered(r) \/ GaveUp(r)
  BY <1>0, ProceedMoves
<1>2. Target(r) \in Edges
  BY <1>0, <1>1, PlacedIsTyped DEF Moved, InProgress
<1>3. Opening \/ UNCHANGED sessionVars
  <2>1. CASE UNCHANGED sessionVars
    BY <2>1
  <2>2. CASE session[Target(r)] # NoConn /\ CutSlow(session[Target(r)])
    <3>1. session[Target(r)] \in Conns
      BY <1>0, <1>2, <2>2 DEF TypeOK, SessionsTypeOK
    <3> QED BY <2>2, <3>1 DEF Opening
  <2> QED BY <1>1, <2>1, <2>2 DEF CutsAtMost
<1>4. SessionInv'
  BY <1>3, SessionsKept DEF IInv, Opening, SessionStep
<1>5. sent' \subseteq sent \cup {Request(r)} /\ pending' \subseteq pending \cup {Request(r)}
  BY <1>1 DEF Untouched, Asked, Answered, GaveUp
<1>6. RunInv'
  BY <1>0, <1>1, <1>5, MovedKeepsRuns
<1>7. reply' \in [Runs -> Replies] /\ (reply' = reply \/ reply' = [reply EXCEPT ![r] = NoReply])
  BY <1>0, <1>1 DEF Untouched, Asked, Answered, GaveUp, TypeOK, Replies
<1>8. TypeOK'
  <2>1. inFlight' \subseteq Targets
    BY <1>0, <1>1 DEF TypeOK, Moved
  <2>2. Request(r) \in Requests
    BY <1>0, RequestIsTyped
  <2> QED BY <1>0, <1>1, <1>4, <1>5, <1>7, <2>1, <2>2 DEF TypeOK, Moved, SessionInv
<1>9. RepliesAwaited'
  BY <1>0, <1>1 DEF RepliesAwaited, Untouched, Asked, Answered, GaveUp, Moved, TypeOK
<1>10. ResultFromItsEdge'
  <2>1. \A s \in Runs : Target(s)' = Target(s)
    BY <1>1 DEF Moved, Target, DeviceOf
  <2> QED BY <1>0, <1>7, <2>1 DEF ResultFromItsEdge, NoReply, TypeOK
<1>11. WaiterPerRequest'
  <2>1. \A s \in Runs \ {r} : Request(s)' = Request(s) /\ run'[s] = run[s]
    BY <1>1 DEF Moved, Request
  <2>2. \A s \in Runs : Request(s)[1] = s
    BY <1>0, RequestIsTyped
  <2>3. CASE Untouched(r)
    BY <1>0, <2>1, <2>3 DEF Untouched, WaiterPerRequest
  <2>4. CASE Asked(r)
    <3>1. reply[r] = NoReply /\ run'[r].phase = "waiting" /\ Request(r)' = Request(r)
      <4>1. run[r] \in Run /\ run'[r] = [run[r] EXCEPT !.phase = "waiting"]
        BY <1>0, <2>4 DEF Asked, TypeOK
      <4>2. run'[r].stage = run[r].stage /\ run'[r].attempt = run[r].attempt
            /\ run'[r].phase = "waiting"
        BY <4>1 DEF Run
      <4>3. reply[r] = NoReply
        BY <1>0, <2>4 DEF Asked, RepliesAwaited
      <4> QED BY <4>2, <4>3 DEF Request
    <3> QED BY <1>0, <2>1, <2>4, <3>1 DEF Asked, WaiterPerRequest
  <2>5. CASE Answered(r)
    <3>1. \A s \in Runs \ {r} : reply'[s] = reply[s]
      BY <1>0, <2>5 DEF Answered, TypeOK
    <3> QED BY <1>0, <2>1, <2>5, <3>1 DEF Answered, WaiterPerRequest
  <2>6. CASE GaveUp(r)
    BY <1>0, <2>1, <2>2, <2>6 DEF GaveUp, WaiterPerRequest
  <2> QED BY <1>1, <2>3, <2>4, <2>5, <2>6
<1>12. GoneFailsPending'
  <2>1. \A q \in pending : run'[q[1]].target = run[q[1]].target
    BY <1>1, <1>0, PendingKnown DEF Moved, RunInv
  <2>2. CASE pending' \subseteq pending
    BY <1>1, <1>3, <2>1, <2>2, PendingKept
  <2>3. CASE Asked(r)
    <3>0. PICK asked \in Requests : asked = Request(r) /\ asked[1] = r
      BY <1>0, RequestIsTyped
    <3>1. EdgeOfRequest(asked)' = Target(r)
      BY <1>1, <3>0 DEF EdgeOfRequest, Target, DeviceOf, Moved
    <3>2. \A q \in pending' : q \in pending \/ q = asked
      BY <2>3, <3>0 DEF Asked
    <3>3. UNCHANGED <<session, leaving, owner, mailbox>>
      BY <1>1, <2>3 DEF Asked, sessionVars
    <3>4. \A q \in pending : EdgeOfRequest(q)' = EdgeOfRequest(q)
      BY <2>1, SameTarget
    <3>5. session[Target(r)] # NoConn
      BY <2>3 DEF Asked
    <3>6. ASSUME NEW q \in pending', session'[EdgeOfRequest(q)'] = NoConn
          PROVE  \/ \E c \in leaving' : owner'[c] = EdgeOfRequest(q)'
                 \/ \E i \in DOMAIN mailbox' :
                      mailbox'[i].type = "gone" /\ mailbox'[i].edge = EdgeOfRequest(q)'
      <4>1. q \in pending /\ session[EdgeOfRequest(q)] = NoConn
        BY <3>1, <3>2, <3>3, <3>4, <3>5, <3>6
      <4> QED BY <3>3, <3>4, <4>1 DEF IInv, RequestInv, GoneFailsPending
    <3> QED BY <3>6 DEF GoneFailsPending
  <2> QED BY <1>1, <2>2, <2>3 DEF Untouched, Answered, GaveUp
<1> QED BY <1>4, <1>6, <1>8, <1>9, <1>10, <1>11, <1>12 DEF IInv, RequestInv

\* The same, where the mailbox changes and the store does not.
LEMMA PendingKeptByMail ==
  ASSUME IInv, UNCHANGED session, mailbox' \in Seq(Messages), pending' \subseteq pending,
         \A q \in pending : run'[q[1]].target = run[q[1]].target,
         \A q \in pending', e \in Edges : EdgeOfRequest(q) = e /\ Lost(e) => Lost(e)'
  PROVE  GoneFailsPending'
<1>1. mailbox \in Seq(Messages)
  BY DEF IInv, TypeOK
<1>2. ASSUME NEW q \in pending', session'[EdgeOfRequest(q)'] = NoConn
      PROVE  \/ \E c \in leaving' : owner'[c] = EdgeOfRequest(q)'
             \/ \E i \in 1 .. Len(mailbox') :
                  mailbox'[i].type = "gone" /\ mailbox'[i].edge = EdgeOfRequest(q)'
  <2>1. q \in pending /\ EdgeOfRequest(q)' = EdgeOfRequest(q) /\ EdgeOfRequest(q) \in Edges
    BY PendingKnown, SameTarget DEF IInv, RunInv, RequestInv
  <2>2. PICK e \in Edges : e = EdgeOfRequest(q) /\ e = EdgeOfRequest(q)'
    BY <2>1
  <2>3. Lost(e)
    BY <1>1, <1>2, <2>1, <2>2, GoneFailsLost DEF IInv, RequestInv
  <2>4. Lost(e)'
    BY <2>2, <2>3
  <2> QED BY <2>2, <2>4 DEF Lost, GoneReported
<1> QED BY <1>1, <1>2 DEF GoneFailsPending

\* Waiters and requests agree as long as runs, requests and channels stay.
LEMMA WaitersKept ==
  ASSUME IInv, UNCHANGED <<pending, reply>>, run' \in [Runs -> Run],
         \A r \in Runs : run'[r] = run[r]
           \/ (run[r].phase \notin {"waiting"} /\ run'[r].phase \notin {"waiting"})
  PROVE  RepliesAwaited' /\ WaiterPerRequest' /\ ResultFromItsEdge'
<1>1. RepliesAwaited'
  BY DEF IInv, RequestInv, RepliesAwaited
<1>2. WaiterPerRequest'
  BY DEF IInv, RequestInv, WaiterPerRequest, Request
<1>3. ASSUME NEW r \in Runs, reply[r].kind = "result" PROVE reply[r].edge = Target(r)'
  <2>1. run'[r] = run[r]
    BY <1>3 DEF IInv, RequestInv, RepliesAwaited, NoReply
  <2> QED BY <1>3, <2>1 DEF IInv, RequestInv, ResultFromItsEdge, Target, DeviceOf
<1> QED BY <1>1, <1>2, <1>3 DEF ResultFromItsEdge

LEMMA SessionsUnchanged == ASSUME SessionInv, UNCHANGED sessionVars PROVE SessionInv'
  BY SessionsKept DEF SessionStep

LEMMA DispatchKeeps ==
  ASSUME IInv, NEW r \in Runs, NEW a \in Dispatched, NEW d \in Devices, Dispatch(r, a, d)
  PROVE  IInv'
<1> DEFINE msg == [type |-> "run", run |-> r]
<1>0. /\ TypeOK /\ run \in [Runs -> Run] /\ mailbox \in Seq(Messages)
      /\ msg \in Messages /\ msg.type = "run" /\ msg.run = r /\ Post(msg)
      /\ run[r].phase = "idle" /\ run[r].stage = 1 /\ <<a, d>> \in Targets
      /\ UNCHANGED <<sessionVars, inFlight, pending, reply, sent>>
  BY ActionAssumption DEF IInv, TypeOK, Dispatch, Messages, RunInv, RunsPlaced, Placed, Targets
<1> HIDE DEF msg
<1>1. /\ run' \in [Runs -> Run] /\ \A s \in Runs \ {r} : run'[s] = run[s]
      /\ run'[r].phase = "queued" /\ run'[r].target = <<a, d>> /\ run'[r].stage = 1
  <2>1. run' = [run EXCEPT ![r] = [run[r] EXCEPT !.phase = "queued", !.target = <<a, d>>]]
    BY <1>0 DEF Dispatch
  <2>2. [run[r] EXCEPT !.phase = "queued", !.target = <<a, d>>] \in Run
    BY <1>0 DEF Run, Phases
  <2> QED BY <1>0, <2>1, <2>2 DEF Run
<1>2. SessionInv'
  BY <1>0, SessionsUnchanged DEF IInv
<1>3. TypeOK'
  BY <1>0, <1>1, <1>2, Posted DEF TypeOK, SessionInv
<1>4. RunInv'
  <2>1. RunsPlaced'
    BY <1>0, <1>1 DEF IInv, RunInv, RunsPlaced, Placed, Primary
  <2>2. SentByRuns'
    BY <1>0, <1>1 DEF IInv, TypeOK, RunInv, SentByRuns, Requests
  <2>3. QueuedOnce'
    BY <1>0, <1>1, QueuedKeptByPost DEF IInv, RunInv
  <2>4. \A s \in Runs : Going(s)' = Going(s)
    BY <1>0, <1>1 DEF Going, InProgress
  <2>5. \A s \in Runs : Going(s) => Key(s)' = Key(s)
    BY <1>0, <1>1 DEF Going, InProgress, Key
  <2>6. OneRunPerTarget'
    BY <1>0, <2>4, <2>5 DEF IInv, RunInv, OneRunPerTarget
  <2> QED BY <2>1, <2>2, <2>3, <2>6 DEF RunInv
<1>5. RepliesAwaited' /\ WaiterPerRequest' /\ ResultFromItsEdge'
  BY <1>0, <1>1, WaitersKept
<1>6. GoneFailsPending'
  <2>1. \A q \in pending : run'[q[1]].target = run[q[1]].target
    BY <1>0, <1>1, PendingKnown DEF IInv, RunInv, RequestInv
  <2>2. ASSUME NEW e \in Edges, Lost(e) PROVE Lost(e)'
    BY <1>0, <2>2, GoneKeptByPost DEF Lost, sessionVars
  <2>3. mailbox' \in Seq(Messages) /\ UNCHANGED <<session, pending>>
    BY <1>0, Posted DEF sessionVars
  <2> QED BY <2>1, <2>2, <2>3, PendingKeptByMail
<1> QED BY <1>2, <1>3, <1>4, <1>5, <1>6 DEF IInv, RequestInv

LEMMA BeginKeeps ==
  ASSUME IInv, Begin
  PROVE  IInv'
<1>0. /\ TypeOK /\ run \in [Runs -> Run] /\ mailbox \in Seq(Messages)
      /\ mailbox # <<>> /\ mailbox' = Tail(mailbox) /\ Head(mailbox).type = "run"
      /\ UNCHANGED <<sessionVars, pending, reply, sent>>
  BY DEF IInv, TypeOK, Begin, Received
<1>1. PICK r \in Runs : r = Head(mailbox).run
  BY <1>0, Taken, MessageTypes
<1>2. run[r].phase = "queued"
  BY <1>0, <1>1, Taken DEF IInv, RunInv, QueuedOnce
<1>3. \/ /\ Key(r) \in inFlight /\ run' = [run EXCEPT ![r].phase = "skipped"]
         /\ UNCHANGED inFlight
      \/ /\ Key(r) \notin inFlight /\ run' = [run EXCEPT ![r].phase = "ready"]
         /\ inFlight' = inFlight \cup {Key(r)}
  BY <1>1 DEF Begin
<1>4. /\ run' \in [Runs -> Run] /\ \A s \in Runs \ {r} : run'[s] = run[s]
      /\ run'[r].phase \in {"skipped", "ready"} /\ run'[r].target = run[r].target
      /\ run'[r].stage = run[r].stage
  <2>1. ASSUME NEW p \in {"skipped", "ready"}, run' = [run EXCEPT ![r].phase = p]
        PROVE  /\ run' \in [Runs -> Run] /\ \A s \in Runs \ {r} : run'[s] = run[s]
               /\ run'[r].phase = p /\ run'[r].target = run[r].target
               /\ run'[r].stage = run[r].stage
    <3>1. run' = [run EXCEPT ![r] = [run[r] EXCEPT !.phase = p]]
      BY <2>1
    <3>2. run[r] \in Run /\ [run[r] EXCEPT !.phase = p] \in Run
      BY <1>0 DEF Run, Phases
    <3> QED BY <1>0, <3>1, <3>2 DEF Run
  <2> QED BY <1>3, <2>1
<1>5. SessionInv'
  BY <1>0, SessionsUnchanged DEF IInv
<1>6. Key(r) \in Targets
  BY <1>0, <1>2, PlacedIsTyped DEF IInv, RunInv, RunsPlaced
<1>7. TypeOK'
  BY <1>0, <1>3, <1>4, <1>5, <1>6, Taken DEF TypeOK, SessionInv
<1>8. RunInv'
  <2>1. RunsPlaced'
    BY <1>0, <1>2, <1>4 DEF IInv, RunInv, RunsPlaced, Placed, Primary
  <2>2. SentByRuns'
    BY <1>0, <1>2, <1>4 DEF IInv, TypeOK, RunInv, SentByRuns, Requests
  <2>3. QueuedOnce'
    BY <1>0, <1>1, <1>4, QueuedKeptByTake DEF IInv, RunInv
  <2>4. \A s \in Runs : Key(s)' = Key(s)
    BY <1>4 DEF Key
  <2>5. \A s \in Runs \ {r} : Going(s)' = Going(s)
    BY <1>4 DEF Going
  <2>6. ~ Going(r)
    BY <1>2 DEF Going, InProgress
  <2>7. CASE UNCHANGED inFlight /\ run' = [run EXCEPT ![r].phase = "skipped"]
    <3>1. ~ Going(r)'
      BY <1>0, <2>7 DEF Going, InProgress, Run
    <3> QED BY <2>1, <2>2, <2>3, <2>4, <2>5, <2>6, <2>7, <3>1 DEF IInv, RunInv, OneRunPerTarget
  <2>8. CASE /\ Key(r) \notin inFlight /\ inFlight' = inFlight \cup {Key(r)}
             /\ run' = [run EXCEPT ![r].phase = "ready"]
    <3>1. Going(r)'
      BY <1>0, <2>8 DEF Going, InProgress, Run
    <3> QED BY <2>1, <2>2, <2>3, <2>4, <2>5, <2>6, <2>8, <3>1 DEF IInv, RunInv, OneRunPerTarget
  <2> QED BY <1>3, <2>7, <2>8
<1>9. RepliesAwaited' /\ WaiterPerRequest' /\ ResultFromItsEdge'
  BY <1>0, <1>2, <1>4, WaitersKept
<1>10. GoneFailsPending'
  <2>1. \A q \in pending : run'[q[1]].target = run[q[1]].target
    BY <1>0, <1>4, PendingKnown DEF IInv, RunInv, RequestInv
  <2>2. ASSUME NEW e \in Edges, Lost(e) PROVE Lost(e)'
    BY <1>0, <2>2, GoneKeptByTake DEF Lost, sessionVars
  <2>3. mailbox' \in Seq(Messages) /\ UNCHANGED <<session, pending>>
    BY <1>0, Taken DEF sessionVars
  <2> QED BY <2>1, <2>2, <2>3, PendingKeptByMail
<1> QED BY <1>5, <1>7, <1>8, <1>9, <1>10 DEF IInv, RequestInv

\* Requests leave the map and their waiters get `value` in their channels.
LEMMA AnsweredKeeps ==
  ASSUME IInv, UNCHANGED run, NEW done \in SUBSET pending, pending' = pending \ done,
         NEW value \in Replies \ {NoReply},
         value.kind = "result" => \A q \in done : value.edge = EdgeOfRequest(q),
         reply' = [r \in Runs |-> IF \E q \in done : q[1] = r THEN value ELSE reply[r]]
  PROVE  /\ reply' \in [Runs -> Replies] /\ pending' \subseteq Requests
         /\ RepliesAwaited' /\ WaiterPerRequest' /\ ResultFromItsEdge'
<1>0. TypeOK /\ RunsPlaced /\ WaiterPerRequest /\ RepliesAwaited /\ ResultFromItsEdge
  BY DEF IInv, RunInv, RequestInv
<1>1. \A q \in pending : q[1] \in Runs /\ run[q[1]].phase = "waiting" /\ q = Request(q[1])
  BY <1>0, PendingKnown
<1>2. reply' \in [Runs -> Replies] /\ pending' \subseteq Requests
  BY <1>0 DEF TypeOK
<1>3. RepliesAwaited'
  BY <1>0, <1>1 DEF RepliesAwaited
<1>4. WaiterPerRequest'
  <2>1. \A r \in Runs : Request(r)[1] = r /\ Request(r)' = Request(r)
    BY <1>0, RequestIsTyped DEF Request
  <2>2. \A r \in Runs : run'[r].phase = "waiting" /\ reply'[r] = NoReply
           <=> run[r].phase = "waiting" /\ reply[r] = NoReply /\ Request(r) \notin done
    BY <1>1, <2>1
  <2> QED BY <1>0, <2>1, <2>2 DEF WaiterPerRequest
<1>5. ResultFromItsEdge'
  <2>1. \A r \in Runs : Target(r)' = Target(r)
    BY DEF Target, DeviceOf
  <2> QED BY <1>0, <2>1 DEF ResultFromItsEdge, EdgeOfRequest
<1> QED BY <1>2, <1>3, <1>4, <1>5

\* A result or an edge's end is handled: no run moves.
LEMMA RunsUnmoved ==
  ASSUME IInv, UNCHANGED <<run, inFlight>>, sent' \subseteq sent, QueuedOnce'
  PROVE  RunInv'
  BY DEF IInv, RunInv, RunsPlaced, Placed, Primary, SentByRuns, OneRunPerTarget, Going, Key

LEMMA CompleteKeeps ==
  ASSUME IInv, Complete
  PROVE  IInv'
<1> DEFINE msg == Head(mailbox)
<1> DEFINE done == Matching(msg)
<1>0. /\ TypeOK /\ mailbox \in Seq(Messages) /\ mailbox # <<>> /\ mailbox' = Tail(mailbox)
      /\ msg.type = "result" /\ UNCHANGED <<sessionVars, run, inFlight, sent>>
      /\ pending' = pending \ done
      /\ reply' = [r \in Runs |-> IF \E q \in done : q[1] = r THEN Result(msg) ELSE reply[r]]
  BY DEF IInv, TypeOK, Complete, Received
<1>1. Result(msg) \in Replies \ {NoReply} /\ Result(msg).edge = msg.edge
  BY <1>0, Taken, MessageTypes DEF Result, Replies, NoReply
<1>2. done \subseteq pending /\ \A q \in done : EdgeOfRequest(q) = msg.edge
  BY DEF Matching, SameAction
<1> HIDE DEF done, msg
<1>3. /\ reply' \in [Runs -> Replies] /\ pending' \subseteq Requests
      /\ RepliesAwaited' /\ WaiterPerRequest' /\ ResultFromItsEdge'
  <2>1. PICK d \in SUBSET pending : d = done
    BY <1>2
  <2>2. PICK v \in Replies \ {NoReply} : v = Result(msg)
    BY <1>1
  <2>3. v.kind = "result" => \A q \in d : v.edge = EdgeOfRequest(q)
    BY <1>1, <1>2, <2>1, <2>2
  <2> QED BY <1>0, <2>1, <2>2, <2>3, AnsweredKeeps
<1>4. SessionInv'
  BY <1>0, SessionsUnchanged DEF IInv
<1>5. TypeOK'
  BY <1>0, <1>3, <1>4, Taken DEF TypeOK, SessionInv
<1>6. QueuedOnce'
  BY <1>0, QueuedKeptByTake DEF IInv, RunInv
<1>7. RunInv'
  BY <1>0, <1>6, RunsUnmoved
<1>8. GoneFailsPending'
  <2>1. ASSUME NEW e \in Edges, Lost(e) PROVE Lost(e)'
    BY <1>0, <2>1, GoneKeptByTake DEF Lost, sessionVars, msg
  <2>2. mailbox' \in Seq(Messages) /\ UNCHANGED <<session, run>> /\ pending' \subseteq pending
    BY <1>0, Taken DEF sessionVars
  <2> QED BY <2>1, <2>2, PendingKeptByMail
<1> QED BY <1>3, <1>4, <1>5, <1>7, <1>8 DEF IInv, RequestInv

LEMMA FailEdgeKeeps ==
  ASSUME IInv, FailEdge
  PROVE  IInv'
<1> DEFINE done == {q \in pending : EdgeOfRequest(q) = Head(mailbox).edge}
<1>0. /\ TypeOK /\ mailbox \in Seq(Messages) /\ mailbox # <<>> /\ mailbox' = Tail(mailbox)
      /\ Head(mailbox).type = "gone" /\ UNCHANGED <<sessionVars, run, inFlight, sent>>
      /\ pending' = pending \ done
      /\ reply' = [r \in Runs |-> IF \E q \in done : q[1] = r THEN Dropped ELSE reply[r]]
  BY DEF IInv, TypeOK, FailEdge, Received
<1>1. Dropped \in Replies \ {NoReply} /\ Dropped.kind # "result"
  BY DEF Dropped, Replies, NoReply
<1>2. done \subseteq pending /\ \A q \in pending' : EdgeOfRequest(q) # Head(mailbox).edge
  BY <1>0
<1> HIDE DEF done
<1>3. /\ reply' \in [Runs -> Replies] /\ pending' \subseteq Requests
      /\ RepliesAwaited' /\ WaiterPerRequest' /\ ResultFromItsEdge'
  <2>1. PICK d \in SUBSET pending : d = done
    BY <1>2
  <2>2. PICK v \in Replies \ {NoReply} : v = Dropped
    BY <1>1
  <2> QED BY <1>0, <1>1, <2>1, <2>2, AnsweredKeeps
<1>4. SessionInv'
  BY <1>0, SessionsUnchanged DEF IInv
<1>5. TypeOK'
  BY <1>0, <1>3, <1>4, Taken DEF TypeOK, SessionInv
<1>6. QueuedOnce'
  BY <1>0, QueuedKeptByTake DEF IInv, RunInv
<1>7. RunInv'
  BY <1>0, <1>6, RunsUnmoved
<1>8. GoneFailsPending'
  <2>1. ASSUME NEW e \in Edges, Lost(e), Head(mailbox).edge # e PROVE Lost(e)'
    BY <1>0, <2>1, GoneKeptByTake DEF Lost, sessionVars
  <2>2. mailbox' \in Seq(Messages) /\ UNCHANGED <<session, run>> /\ pending' \subseteq pending
    BY <1>0, Taken DEF sessionVars
  <2> QED BY <1>2, <2>1, <2>2, PendingKeptByMail
<1> QED BY <1>3, <1>4, <1>5, <1>7, <1>8 DEF IInv, RequestInv

LEMMA EdgeAnswersKeeps ==
  ASSUME IInv, NEW c \in Conns, NEW q \in sent, NEW success \in BOOLEAN,
         EdgeAnswers(c, q, success)
  PROVE  IInv'
<1> DEFINE msg == [type |-> "result", edge |-> owner[c], action |-> ActionOf(q),
                   request |-> IF owner[c] \in Legacy THEN NoRequest ELSE q,
                   of |-> q, success |-> success]
<1>0. /\ TypeOK /\ mailbox \in Seq(Messages) /\ Post(msg) /\ Registered(c)
      /\ sent' = sent \ {q} /\ UNCHANGED <<sessionVars, run, inFlight, pending, reply>>
  BY DEF IInv, TypeOK, EdgeAnswers
<1>1. msg \in Messages /\ msg.type = "result"
  <2>1. owner[c] \in Edges
    BY <1>0 DEF IInv, SessionInv, OwnersKnown
  <2>2. q \in Requests /\ q[1] \in Runs /\ q[2] \in {1, 2}
    BY <1>0 DEF TypeOK, Requests
  <2>3. run[q[1]].phase # "idle" /\ Placed(q[1]) /\ (q[2] = 2 => run[q[1]].stage = 2)
    BY <2>2 DEF IInv, RunInv, SentByRuns, RunsPlaced
  <2>4. ActionOf(q) \in Actions
    BY <1>0, <2>2, <2>3, PlacedIsTyped DEF ActionOf
  <2> QED BY <2>1, <2>2, <2>4 DEF Messages
<1> HIDE DEF msg
<1>2. SessionInv'
  BY <1>0, SessionsUnchanged DEF IInv
<1>3. TypeOK'
  BY <1>0, <1>1, <1>2, Posted DEF TypeOK, SessionInv
<1>4. QueuedOnce'
  BY <1>0, <1>1, QueuedKeptByPost DEF IInv, RunInv
<1>5. RunInv'
  BY <1>0, <1>4, RunsUnmoved
<1>6. RepliesAwaited' /\ WaiterPerRequest' /\ ResultFromItsEdge'
  BY <1>0, WaitersKept DEF TypeOK
<1>7. GoneFailsPending'
  <2>1. ASSUME NEW e \in Edges, Lost(e) PROVE Lost(e)'
    BY <1>0, <1>1, <2>1, GoneKeptByPost DEF Lost, sessionVars
  <2>2. mailbox' \in Seq(Messages) /\ UNCHANGED <<session, run, pending>>
    BY <1>0, <1>1, Posted DEF sessionVars
  <2> QED BY <2>1, <2>2, PendingKeptByMail
<1> QED BY <1>2, <1>3, <1>5, <1>6, <1>7 DEF IInv, RequestInv

LEMMA ReportGoneKeeps ==
  ASSUME IInv, NEW c \in Conns, ReportGone(c)
  PROVE  IInv'
<1> DEFINE msg == [type |-> "gone", edge |-> owner[c]]
<1>0. /\ TypeOK /\ mailbox \in Seq(Messages) /\ Post(msg) /\ MarkOffline(c)
      /\ UNCHANGED <<run, inFlight, pending, reply, sent>>
  BY DEF IInv, TypeOK, ReportGone
<1>1. msg \in Messages /\ msg.type = "gone" /\ msg.edge = owner[c] /\ owner[c] \in Edges
  BY <1>0 DEF MarkOffline, IInv, SessionInv, OwnersKnown, Messages
<1> HIDE DEF msg
<1>2. SessionInv'
  BY <1>0, SessionsKept DEF IInv, SessionStep
<1>3. TypeOK'
  BY <1>0, <1>1, <1>2, Posted DEF TypeOK, SessionInv
<1>4. QueuedOnce'
  BY <1>0, <1>1, QueuedKeptByPost DEF IInv, RunInv
<1>5. RunInv'
  BY <1>0, <1>4, RunsUnmoved
<1>6. RepliesAwaited' /\ WaiterPerRequest' /\ ResultFromItsEdge'
  BY <1>0, WaitersKept DEF TypeOK
<1>7. GoneFailsPending'
  <2>1. ASSUME NEW e \in Edges, Lost(e) PROVE Lost(e)'
    <3>1. CASE GoneReported(e)
      BY <1>0, <1>1, <3>1, GoneKeptByPost DEF Lost
    <3>2. CASE owner[c] = e
      <4>1. /\ Len(mailbox) \in Nat /\ Len(mailbox') = Len(mailbox) + 1
            /\ mailbox'[Len(mailbox) + 1] = msg
        BY <1>0, <1>1, Posted
      <4>2. PICK i \in 1 .. Len(mailbox') : mailbox'[i] = msg
        BY <4>1
      <4> QED BY <1>1, <3>2, <4>2 DEF Lost, GoneReported
    <3>3. CASE \E x \in leaving : owner[x] = e /\ x # c
      BY <1>0, <3>3 DEF MarkOffline, Lost
    <3> QED BY <2>1, <3>1, <3>2, <3>3 DEF Lost
  <2>2. mailbox' \in Seq(Messages) /\ UNCHANGED <<session, run, pending>>
    BY <1>0, <1>1, Posted DEF MarkOffline
  <2> QED BY <2>1, <2>2, PendingKeptByMail
<1> QED BY <1>2, <1>3, <1>5, <1>6, <1>7 DEF IInv, RequestInv

-----------------------------------------------------------------------------
(* The invariant                                                           *)

LEMMA InvInitially == Init => IInv
<1> SUFFICES ASSUME Init PROVE IInv
  OBVIOUS
<1>1. SessionInv
  BY SessionsInitially DEF Init
<1>2. /\ run = [r \in Runs |-> [phase |-> "idle", target |-> NoTarget, stage |-> 1, attempt |-> 1,
                              overran |-> FALSE]]
      /\ inFlight = {} /\ pending = {} /\ reply = [r \in Runs |-> NoReply]
      /\ mailbox = <<>> /\ sent = {}
  BY DEF Init
<1>3. TypeOK
  BY <1>1, <1>2 DEF SessionInv, TypeOK, Run, Phases, Replies
<1>4. RunInv
  BY <1>2 DEF RunInv, RunsPlaced, Placed, SentByRuns, QueuedOnce, OneRunPerTarget, Going, InProgress
<1>5. RequestInv
  BY <1>2 DEF RequestInv, RepliesAwaited, WaiterPerRequest, ResultFromItsEdge, GoneFailsPending,
     NoReply
<1> QED BY <1>1, <1>3, <1>4, <1>5 DEF IInv

LEMMA InvKept == IInv /\ [Next]_vars => IInv'
<1> SUFFICES ASSUME IInv, [Next]_vars PROVE IInv'
  OBVIOUS
<1>1. CASE UNCHANGED vars
  BY <1>1, OpeningKeeps DEF vars
<1>2. ASSUME NEW r \in Runs, NEW a \in Dispatched, NEW d \in Devices, Dispatch(r, a, d) PROVE IInv'
  BY <1>2, DispatchKeeps
<1>3. CASE Handle
  BY <1>3, BeginKeeps, CompleteKeeps, FailEdgeKeeps DEF Handle
<1>4. ASSUME NEW r \in Runs, Proceed(r) PROVE IInv'
  BY <1>4, ProceedKeeps
<1>5. ASSUME NEW c \in Conns, UNCHANGED executorVars,
             Connect(c) \/ Close(c) \/ RemoveStale(c) \/ \E e \in Edges : Register(c, e)
      PROVE  IInv'
  BY <1>5, OpeningKeeps DEF Opening
<1>6. ASSUME NEW c \in Conns, NEW q \in sent, NEW success \in BOOLEAN, EdgeAnswers(c, q, success)
      PROVE  IInv'
  BY <1>6, EdgeAnswersKeeps
<1>7. ASSUME NEW c \in Conns, ReportGone(c) PROVE IInv'
  BY <1>7, ReportGoneKeeps
<1> QED BY <1>1, <1>2, <1>3, <1>4, <1>5, <1>6, <1>7 DEF Next

LEMMA Invariant == Spec => []IInv
  BY InvInitially, InvKept, PTL DEF Spec

\* Every variable of the sessions and of the executor keeps its type.
THEOREM TypeCorrect == Spec => []TypeOK
<1>1. IInv => TypeOK
  BY DEF IInv
<1> QED BY <1>1, Invariant, PTL

\* However connections register, replace each other, end and are swept, a live
\* one is in the store (on_register, remove_if_current, remove_stale).
THEOREM SessionsReached == Spec => []LiveIsReached
<1>1. IInv => LiveIsReached
  BY DEF IInv, SessionInv
<1> QED BY <1>1, Invariant, PTL

\* An edge's session in the store belongs to a socket task that still runs.
THEOREM SessionsOpen == Spec => []StoredIsOpen
<1>1. IInv => StoredIsOpen
  BY DEF IInv, SessionInv
<1> QED BY <1>1, Invariant, PTL

\* A pending entry has a waiter and an unanswered waiter its entry: the map of
\* pending results neither leaks nor forgets (execute_edge_routed, complete).
THEOREM PendingHasWaiter == Spec => []WaiterPerRequest
<1>1. IInv => WaiterPerRequest
  BY DEF IInv, RequestInv
<1> QED BY <1>1, Invariant, PTL

\* The slots are those of the runs in progress, one each (try_begin_run and the
\* guard that gives the slot back).
THEOREM SlotsExclusive == Spec => []OneRunPerTarget
<1>1. IInv => OneRunPerTarget
  BY DEF IInv, RunInv
<1> QED BY <1>1, Invariant, PTL

\* A result only completes a request of the edge it came from (complete).
THEOREM ResultsFromTarget == Spec => []ResultFromItsEdge
<1>1. IInv => ResultFromItsEdge
  BY DEF IInv, RequestInv
<1> QED BY <1>1, Invariant, PTL

\* Requests that wait for an edge without a connection are about to be failed
\* (mark_edge_offline, fail_edge).
THEOREM GoneReachesPending == Spec => []GoneFailsPending
<1>1. IInv => GoneFailsPending
  BY DEF IInv, RequestInv
<1> QED BY <1>1, Invariant, PTL
====
