-------------------------- MODULE EdgeConfig_proofs --------------------------
(***************************************************************************)
(* Proofs about the desired configuration of an edge, for any number of    *)
(* requests and connections, any bodies and any capacity of a connection.  *)
(*                                                                         *)
(* D gives the desired state after every number of merges: no variable     *)
(* keeps it, but every handler between storing and pushing holds its own.  *)
(* What an edge will have once its connection is drained agrees with the   *)
(* newest state that was sent on it, unless a handler that holds an older  *)
(* one is still to push: then the connection will have raced.              *)
(***************************************************************************)
EXTENDS EdgeConfig, FiniteSetTheorems, SequenceTheorems, TLAPS

-----------------------------------------------------------------------------
(* Configurations *)

\* What an edge that has x makes of an update (Applied, for any x).
AppliedTo(x, update) ==
  LET resolved == Overlay(x, update)
      ordered == resolved["warning"] < resolved["critical"]
  IN [f \in Fields |-> IF f \in Thresholds /\ ~ordered THEN x[f] ELSE resolved[f]]

\* The edge has what is wanted, and the hub's defaults for thresholds nobody set.
Agrees(x, want) ==
  /\ \A f \in Thresholds : x[f] = Effective(want, f)
  /\ want["interval"] # Unset => x["interval"] = want["interval"]

\* Thresholds nobody set are the hub's defaults.
Plain(x, want) == \A f \in Thresholds : want[f] = Unset => x[f] = HubDefault[f]
PlainUpdate(u, want) == \A f \in Thresholds : want[f] = Unset => u[f] \in {Unset, HubDefault[f]}

LEMMA FieldsAre ==
  /\ Thresholds \subseteq Fields /\ "interval" \in Fields /\ "interval" \notin Thresholds
  /\ \A f \in Fields : f \in Thresholds \/ f = "interval"
  /\ Nothing \in Configs /\ \A f \in Fields : Nothing[f] = Unset
  /\ \A f \in Thresholds : HubDefault[f] \in Nat /\ HubDefault[f] # Unset
  BY DEF Fields, Thresholds, Nothing, Configs, HubDefault, Unset

LEMMA OverlayTyped ==
  ASSUME NEW a \in Configs, NEW b \in Configs
  PROVE  /\ Overlay(a, b) \in Configs
         /\ \A f \in Fields : Overlay(a, b)[f] = IF b[f] # Unset THEN b[f] ELSE a[f]
  BY DEF Overlay, Configs

LEMMA OverlayTwice ==
  ASSUME NEW a \in Configs, NEW b \in Configs, NEW c \in Configs
  PROVE  Overlay(a, Overlay(b, c)) = Overlay(Overlay(a, b), c)
<1>1. \A f \in Fields : Overlay(a, Overlay(b, c))[f] = Overlay(Overlay(a, b), c)[f]
  BY DEF Overlay, Configs
<1> QED BY <1>1 DEF Overlay

LEMMA EffectiveTyped ==
  ASSUME NEW a \in Configs, NEW f \in Thresholds
  PROVE  Effective(a, f) \in Nat /\ Effective(a, f) # Unset
  BY FieldsAre DEF Effective, Configs

LEMMA AppliedTyped ==
  ASSUME NEW x \in Configs, NEW u \in Configs
  PROVE  /\ AppliedTo(x, u) \in Configs
         /\ \A f \in Fields : AppliedTo(x, u)[f] \in {x[f], u[f]}
         /\ \A f \in Fields : u[f] = Unset => AppliedTo(x, u)[f] = x[f]
<1>1. Overlay(x, u) \in Configs /\ \A f \in Fields : Overlay(x, u)[f] = IF u[f] # Unset THEN u[f] ELSE x[f]
  BY OverlayTyped
<1>2. \A f \in Fields : AppliedTo(x, u)[f] \in {x[f], Overlay(x, u)[f]}
  BY DEF AppliedTo
<1>3. AppliedTo(x, u) \in Configs
  BY <1>1 DEF AppliedTo, Configs
<1> QED BY <1>1, <1>2, <1>3

LEMMA AppliedInOrder ==
  ASSUME NEW x \in Configs, NEW u \in Configs,
         Overlay(x, u)["warning"] < Overlay(x, u)["critical"]
  PROVE  AppliedTo(x, u) = Overlay(x, u)
  BY DEF AppliedTo, Overlay

\* Applying keeps defaults where nothing was set.
LEMMA AppliedPlain ==
  ASSUME NEW x \in Configs, NEW u \in Configs, NEW want \in Configs,
         Plain(x, want), PlainUpdate(u, want)
  PROVE  Plain(AppliedTo(x, u), want)
<1> SUFFICES ASSUME NEW f \in Thresholds, want[f] = Unset PROVE AppliedTo(x, u)[f] = HubDefault[f]
  BY DEF Plain
<1>1. f \in Fields /\ x[f] = HubDefault[f] /\ u[f] \in {Unset, HubDefault[f]}
  BY FieldsAre DEF Plain, PlainUpdate
<1>2. AppliedTo(x, u)[f] \in {x[f], u[f]} /\ (u[f] = Unset => AppliedTo(x, u)[f] = x[f])
  BY <1>1, AppliedTyped
<1> QED BY <1>1, <1>2

LEMMA UpdateTyped ==
  ASSUME NEW a \in Configs, NEW l \in BOOLEAN
  PROVE  /\ ToUpdate(a, l) \in Configs
         /\ ToUpdate(a, l)["interval"] = a["interval"]
         /\ \A f \in Thresholds : ToUpdate(a, l)[f] = IF l THEN Effective(a, f) ELSE a[f]
<1>1. \A f \in Thresholds : f \in Fields /\ Effective(a, f) \in Nat
  BY FieldsAre, EffectiveTyped
<1> QED BY <1>1, FieldsAre DEF ToUpdate, Configs

LEMMA AgreesPlain ==
  ASSUME NEW x, NEW want, Agrees(x, want)
  PROVE  Plain(x, want)
  BY DEF Agrees, Plain, Effective

\* The whole desired state brings an edge to it.
LEMMA AllPushed ==
  ASSUME NEW x \in Configs, NEW want \in Configs, NEW l \in BOOLEAN,
         Plain(x, want), CheckThresholdOrder(want)
  PROVE  /\ Agrees(AppliedTo(x, ToUpdate(want, l)), want)
         /\ PlainUpdate(ToUpdate(want, l), want)
<1> DEFINE u == ToUpdate(want, l)
<1>1. /\ u \in Configs /\ u["interval"] = want["interval"]
      /\ \A f \in Thresholds : u[f] = IF l THEN Effective(want, f) ELSE want[f]
  BY UpdateTyped
<1> HIDE DEF u
<1>2. \A f \in Fields : Overlay(x, u)[f] = IF u[f] # Unset THEN u[f] ELSE x[f]
  BY <1>1, OverlayTyped
<1>3. \A f \in Thresholds : f \in Fields /\ Effective(want, f) # Unset
  BY FieldsAre, EffectiveTyped
<1>4. \A f \in Thresholds : Overlay(x, u)[f] = Effective(want, f)
  BY <1>1, <1>2, <1>3 DEF Effective, Plain
<1>5. Overlay(x, u)["warning"] < Overlay(x, u)["critical"]
  BY <1>4 DEF Thresholds, CheckThresholdOrder
<1>6. AppliedTo(x, u) = Overlay(x, u)
  BY <1>1, <1>5, AppliedInOrder
<1>7. Agrees(AppliedTo(x, u), want)
  BY <1>1, <1>2, <1>4, <1>6, FieldsAre DEF Agrees
<1>8. PlainUpdate(u, want)
  BY <1>1 DEF PlainUpdate, Effective
<1> QED BY <1>7, <1>8 DEF u

\* What Push sends for a body that led from old to want.
PushedFor(body, want, l) ==
  ToUpdate(IF l THEN [want EXCEPT !["interval"] = body["interval"]] ELSE body, l)

LEMMA PushedTyped ==
  ASSUME NEW old \in Configs, NEW body \in Configs, NEW l \in BOOLEAN
  PROVE  /\ PushedFor(body, Overlay(old, body), l) \in Configs
         /\ PushedFor(body, Overlay(old, body), l)["interval"] = body["interval"]
         /\ \A f \in Thresholds :
              PushedFor(body, Overlay(old, body), l)[f]
                = IF l THEN Effective(Overlay(old, body), f) ELSE body[f]
<1> DEFINE want == Overlay(old, body)
           c == [want EXCEPT !["interval"] = body["interval"]]
<1>1. want \in Configs
  BY OverlayTyped
<1> HIDE DEF want
<1>2. c \in Configs /\ c["interval"] = body["interval"] /\ \A f \in Thresholds : c[f] = want[f]
  BY <1>1, FieldsAre DEF Configs
<1>3. \A f \in Thresholds : Effective(c, f) = Effective(want, f)
  BY <1>2 DEF Effective
<1> HIDE DEF c
<1>4. PushedFor(body, want, l) = ToUpdate(IF l THEN c ELSE body, l)
  BY DEF PushedFor, c
<1>5. CASE l
  <2>1. /\ ToUpdate(c, l) \in Configs /\ ToUpdate(c, l)["interval"] = c["interval"]
        /\ \A f \in Thresholds : ToUpdate(c, l)[f] = IF l THEN Effective(c, f) ELSE c[f]
    BY <1>2, UpdateTyped
  <2>2. PushedFor(body, want, l) = ToUpdate(c, l)
    BY <1>4, <1>5
  <2> QED BY <1>2, <1>3, <1>5, <2>1, <2>2 DEF want
<1>6. CASE ~ l
  BY <1>4, <1>6, UpdateTyped DEF want
<1> QED BY <1>5, <1>6

\* A push brings an edge from the desired state before the merge to that after it,
\* and does no harm to one that has it.
LEMMA StepPushed ==
  ASSUME NEW x \in Configs, NEW old \in Configs, NEW body \in Configs, NEW l \in BOOLEAN,
         Agrees(x, old) \/ Agrees(x, Overlay(old, body)), CheckThresholdOrder(Overlay(old, body))
  PROVE  Agrees(AppliedTo(x, PushedFor(body, Overlay(old, body), l)), Overlay(old, body))
<1> DEFINE want == Overlay(old, body)
           u == PushedFor(body, want, l)
<1>1. /\ u \in Configs /\ u["interval"] = body["interval"]
      /\ \A f \in Thresholds : u[f] = IF l THEN Effective(want, f) ELSE body[f]
  BY PushedTyped
<1>2. want \in Configs /\ \A f \in Fields : want[f] = IF body[f] # Unset THEN body[f] ELSE old[f]
  BY OverlayTyped
<1>3. CheckThresholdOrder(want) /\ (Agrees(x, old) \/ Agrees(x, want))
  OBVIOUS
<1> HIDE DEF u, want
<1>4. \A f \in Fields : Overlay(x, u)[f] = IF u[f] # Unset THEN u[f] ELSE x[f]
  BY <1>1, OverlayTyped
<1>5. \A f \in Thresholds : f \in Fields /\ Effective(want, f) # Unset
  BY <1>2, FieldsAre, EffectiveTyped
<1>6. ASSUME NEW f \in Thresholds PROVE Overlay(x, u)[f] = Effective(want, f)
  <2>1. f \in Fields /\ Effective(want, f) # Unset
    BY <1>5
  <2>2. Overlay(x, u)[f] = IF u[f] # Unset THEN u[f] ELSE x[f]
    BY <1>4, <2>1
  <2>3. CASE l
    BY <1>1, <2>1, <2>2, <2>3
  <2>4. CASE ~ l /\ body[f] # Unset
    BY <1>1, <1>2, <2>1, <2>2, <2>4 DEF Effective
  <2>5. CASE ~ l /\ body[f] = Unset
    <3>1. want[f] = old[f] /\ Overlay(x, u)[f] = x[f]
      BY <1>1, <1>2, <2>1, <2>2, <2>5
    <3> QED BY <1>3, <3>1 DEF Agrees, Effective
  <2> QED BY <2>3, <2>4, <2>5
<1>7. Overlay(x, u)["warning"] < Overlay(x, u)["critical"]
  BY <1>3, <1>6 DEF Thresholds, CheckThresholdOrder
<1>8. AppliedTo(x, u) = Overlay(x, u)
  BY <1>1, <1>7, AppliedInOrder
<1>9. want["interval"] # Unset => Overlay(x, u)["interval"] = want["interval"]
  BY <1>1, <1>2, <1>3, <1>4, FieldsAre DEF Agrees
<1>10. Agrees(AppliedTo(x, u), want)
  BY <1>6, <1>8, <1>9 DEF Agrees
<1> QED BY <1>10 DEF u, want

LEMMA PushedPlain ==
  ASSUME NEW old \in Configs, NEW body \in Configs, NEW l \in BOOLEAN
  PROVE  PlainUpdate(PushedFor(body, Overlay(old, body), l), Overlay(old, body))
<1> SUFFICES ASSUME NEW f \in Thresholds, Overlay(old, body)[f] = Unset
             PROVE  PushedFor(body, Overlay(old, body), l)[f] \in {Unset, HubDefault[f]}
  BY DEF PlainUpdate
<1>1. PushedFor(body, Overlay(old, body), l)[f] = IF l THEN Effective(Overlay(old, body), f) ELSE body[f]
  BY PushedTyped
<1>2. Overlay(old, body)[f] = IF body[f] # Unset THEN body[f] ELSE old[f]
  BY FieldsAre, OverlayTyped
<1> QED BY <1>1, <1>2 DEF Effective

-----------------------------------------------------------------------------
(* The invariant *)

Typed ==
  /\ override \in Configs /\ edge \in Configs /\ legacy \in BOOLEAN
  /\ session \in 0 .. MaxConnections /\ live \in 0 .. MaxConnections
  /\ phase \in [Requests -> {"new", "merged", "found", "done"}]
  /\ effective \in [Requests -> Configs] /\ target \in [Requests -> 0 .. MaxConnections]
  /\ reg \in [Connections -> {"none", "sent", "added", "read", "done"}]
  /\ desired \in [Connections -> Configs]
  /\ closing \subseteq Connections /\ closed \subseteq Connections /\ raced \subseteq Connections
  /\ queue \in [Connections -> Seq(Configs)]
  /\ merges \in Nat /\ known \in [Requests -> Nat]
  /\ readAt \in [Connections -> Nat] /\ newest \in [Connections -> Nat]

\* Only a registered connection is in the store or the target of a push, and
\* connections are made one after the other.
Connected(c) == reg[c] \in {"added", "read", "done"}
Places ==
  /\ session # 0 => Connected(session) /\ session \notin closed
  /\ \A r \in Requests : phase[r] = "found" => target[r] # 0 /\ Connected(target[r])
  /\ \A c \in Connections : reg[c] \in {"none", "sent"} => queue[c] = << >>
  /\ live # 0 => reg[live] # "none"
  /\ \E k \in 0 .. MaxConnections : \A c \in Connections : reg[c] # "none" <=> c <= k

\* D[n] was the desired state after n merges.
Versions(D) ==
  /\ D \in [Nat -> Configs] /\ D[merges] = DesiredFor
  /\ \A v \in 0 .. merges : CheckThresholdOrder(D[v])
  /\ \A v, w \in 0 .. merges : v <= w => \A f \in Fields : D[w][f] = Unset => D[v][f] = Unset
  /\ \A v \in 1 .. merges : \E r \in Requests : known[r] = v
  /\ \A r \in Requests : known[r] > 0 =>
       known[r] <= merges /\ ~ IsEmpty(Body[r]) /\ D[known[r]] = Overlay(D[known[r] - 1], Body[r])
  /\ \A r \in Requests : phase[r] = "new" => known[r] = 0
  /\ \A r \in Requests : phase[r] \in {"merged", "found"} => known[r] > 0 /\ effective[r] = D[known[r]]
  /\ \A c \in Connections : readAt[c] <= merges /\ newest[c] <= merges
  /\ \A c \in Connections : reg[c] = "read" => desired[c] = D[readAt[c]]

\* A handler that is still to push, on this connection as long as that is open.
Pending(r, c) == phase[r] = "merged" \/ (phase[r] = "found" /\ target[r] = c)
Open(c) == session = c /\ c \notin closing

\* What is newer than anything sent on an open connection is still to be pushed.
Owed ==
  \A c \in Connections : Open(c) /\ reg[c] \in {"read", "done"} =>
    /\ \A r \in Requests : known[r] > newest[c] /\ known[r] > readAt[c] => Pending(r, c)
    /\ reg[c] = "done" => readAt[c] <= newest[c]

\* Nobody gave the edge, or sent it, a threshold but one that is desired.
Defaulted(D) ==
  /\ Plain(edge, D[merges])
  /\ \A c \in Connections : live = c /\ reg[c] = "read" => Plain(edge, D[readAt[c]])
  /\ \A c \in Connections : \A i \in 1 .. Len(queue[c]) : PlainUpdate(queue[c][i], D[merges])

\* From x, the updates q lead over h[1], h[2], ... to h[Len(q)].
Leads(h, x, q) ==
  h \in [Nat -> Configs] /\ h[0] = x /\ \A i \in 1 .. Len(q) : h[i] = AppliedTo(h[i - 1], q[i])

\* A handler that holds an older state than was sent is still to push.
Late(c) == \E r \in Requests : Pending(r, c) /\ known[r] < newest[c]

\* What the edge will be, x, agrees with the newest state sent.
WillAgree(D, c, x) ==
  /\ Open(c) /\ reg[c] = "done" /\ c \notin raced /\ ~ Late(c) => Agrees(x, D[newest[c]])
  /\ reg[c] # "done" => \A w \in newest[c] .. merges : Plain(edge, D[w]) => Plain(x, D[w])
Chained(D, c) ==
  \E h, x : Leads(h, edge, queue[c]) /\ x = h[Len(queue[c])] /\ WillAgree(D, c, x)
Chains(D) == \A c \in Connections : live = c => Chained(D, c)

Inv(D) == Typed /\ Places /\ Versions(D) /\ Owed /\ Defaulted(D) /\ Chains(D)
IInv == \E D : Inv(D)

LEMMA ConnectionsAre ==
  /\ Connections \subseteq Nat /\ 0 \notin Connections
  /\ \A n \in 0 .. MaxConnections : n = 0 \/ n \in Connections
  /\ \A c \in Connections : c \in 0 .. MaxConnections
  /\ \A r \in Requests : Body[r] \in Configs
  /\ Defaults \in Configs /\ Override \in Configs /\ Own \in Configs /\ Resolve \in Configs
  /\ MaxConnections \in Nat
<1>1. Resolve \in Configs
  BY ConfigAssumption, OverlayTyped DEF Resolve
<1> QED BY <1>1, ConfigAssumption DEF Connections

LEMMA DesiredTyped ==
  ASSUME Typed
  PROVE  DesiredFor \in Configs
  BY ConnectionsAre, OverlayTyped DEF Typed, DesiredFor

\* What nobody set has the hub's defaults in a configuration of the edge's own.
LEMMA OwnPlain == \A want : Plain(Own, want)
  BY OwnAssumption DEF Plain

-----------------------------------------------------------------------------
(* The initial state *)

LEMMA Initially ==
  ASSUME CheckThresholdOrder(Resolve), Init
  PROVE  IInv
<1>1. PICK D : D = [n \in Nat |-> Resolve]
  OBVIOUS
<1>2. Typed
  BY ConnectionsAre, FieldsAre DEF Init, Typed
<1>3. Places
  <2>1. \A c \in Connections : reg[c] # "none" <=> c <= 0
    BY ConnectionsAre DEF Init, Connections
  <2>2. 0 \in 0 .. MaxConnections
    BY ConnectionsAre
  <2> QED BY <2>1, <2>2 DEF Init, Places
<1>4. DesiredFor = Resolve
  <2>1. override = Nothing
    BY DEF Init
  <2>2. \A f \in Fields : Overlay(Resolve, override)[f] = Resolve[f]
    BY <2>1, ConnectionsAre, FieldsAre, OverlayTyped
  <2>3. Overlay(Resolve, override) \in Configs /\ Resolve \in Configs
    BY <2>1, ConnectionsAre, FieldsAre, OverlayTyped
  <2> QED BY <2>2, <2>3 DEF DesiredFor, Configs
<1>5. Versions(D)
  <2>1. D \in [Nat -> Configs] /\ \A n \in Nat : D[n] = Resolve
    BY <1>1, ConnectionsAre
  <2>2. merges = 0
    BY DEF Init
  <2> QED BY <1>4, <2>1, <2>2 DEF Init, Versions
<1>6. Owed
  BY DEF Init, Owed
<1>7. Defaulted(D)
  BY OwnPlain DEF Init, Defaulted
<1>8. Chains(D)
  BY ConnectionsAre DEF Init, Chains
<1> QED BY <1>2, <1>3, <1>5, <1>6, <1>7, <1>8 DEF IInv, Inv

-----------------------------------------------------------------------------
(* Steps that send and apply nothing *)

\* They may end handlers that hold nothing, find the connection of one that does,
\* close connections and register new ones.
Quiet ==
  /\ UNCHANGED <<override, edge, queue, desired, merges, known, readAt, newest, raced>>
  /\ \A r \in Requests : /\ phase'[r] = "new" => phase[r] = "new"
                         /\ phase'[r] \in {"merged", "found"} =>
                              phase[r] \in {"merged", "found"} /\ effective'[r] = effective[r]
  /\ \A c \in Connections : reg'[c] # reg[c] => reg'[c] \notin {"read", "done"} /\ reg[c] # "done"
  /\ live' # live => live' = 0
  /\ \A c \in Connections : Open(c)' /\ reg'[c] \in {"read", "done"} =>
       Open(c) /\ \A r \in Requests : Pending(r, c) => Pending(r, c)'

LEMMA QuietKeeps ==
  ASSUME NEW D, Inv(D), Quiet, Typed', Places'
  PROVE  Inv(D)'
<1> USE DEF Quiet
<1>0. Typed /\ Versions(D) /\ Owed /\ Defaulted(D) /\ Chains(D)
  BY DEF Inv
<1>1. Versions(D)'
  BY <1>0 DEF Versions, DesiredFor
<1>2. Owed'
  BY <1>0 DEF Owed
<1>3. Defaulted(D)'
  <2>1. \A c \in Connections : live' = c /\ reg'[c] = "read" => live = c /\ reg[c] = "read"
    BY ConnectionsAre
  <2> QED BY <1>0, <2>1 DEF Defaulted, Plain
<1>4. Chains(D)'
  <2> SUFFICES ASSUME NEW c \in Connections, live' = c PROVE Chained(D, c)'
    BY DEF Chains
  <2>1. live = c
    BY ConnectionsAre
  <2>2. PICK h, x : Leads(h, edge, queue[c]) /\ x = h[Len(queue[c])] /\ WillAgree(D, c, x)
    BY <1>0, <2>1 DEF Chains, Chained
  <2>4. WillAgree(D, c, x)'
    <3>1. WillAgree(D, c, x)
      BY <2>2
    <3>2. ASSUME Open(c)', reg'[c] = "done", c \notin raced', ~ Late(c)' PROVE Agrees(x, D[newest'[c]])
      <4>1. Open(c) /\ reg[c] = "done"
        BY <3>2
      <4>2. ~ Late(c)
        BY <3>2 DEF Late
      <4> QED BY <3>1, <3>2, <4>1, <4>2 DEF WillAgree
    <3>3. ASSUME reg'[c] # "done"
          PROVE  \A w \in newest'[c] .. merges' : Plain(edge', D[w]) => Plain(x, D[w])
      BY <3>1, <3>3 DEF WillAgree
    <3> QED BY <3>2, <3>3 DEF WillAgree
  <2> QED BY <2>2, <2>4 DEF Chained
<1> QED BY <1>1, <1>2, <1>3, <1>4 DEF Inv

LEMMA RefuseKeeps ==
  ASSUME NEW D, Inv(D), NEW r \in Requests, Refuse(r)
  PROVE  Inv(D)'
<1>1. Typed /\ Places
  BY DEF Inv
<1> USE <1>1 DEF Refuse, Respond, registrations, history
<1>2. Typed'
  BY ConnectionsAre, FieldsAre DEF Typed
<1>3. Places'
  BY DEF Places, Connected, Typed
<1>4. Quiet
  BY DEF Quiet, Open, Pending, Typed
<1> QED BY <1>2, <1>3, <1>4, QuietKeeps

LEMMA LookupKeeps ==
  ASSUME NEW D, Inv(D), NEW r \in Requests, Lookup(r)
  PROVE  Inv(D)'
<1>1. Typed /\ Places
  BY DEF Inv
<1> USE <1>1 DEF Lookup, Respond, registrations, history
<1>2. Typed'
  <2>1. CASE session = 0
    <3>1. phase' \in [Requests -> {"new", "merged", "found", "done"}]
      BY <2>1 DEF Typed
    <3>2. effective' \in [Requests -> Configs] /\ target' \in [Requests -> 0 .. MaxConnections]
      <4>1. effective' = [effective EXCEPT ![r] = Nothing] /\ target' = [target EXCEPT ![r] = 0]
        BY <2>1
      <4>2. Nothing \in Configs /\ 0 \in 0 .. MaxConnections
        BY ConnectionsAre, FieldsAre
      <4>3. effective \in [Requests -> Configs] /\ target \in [Requests -> 0 .. MaxConnections]
        BY DEF Typed
      <4> HIDE <1>1 DEF Lookup, Respond, registrations, history
      <4> QED BY <4>1, <4>2, <4>3
    <3> QED BY <2>1, <3>1, <3>2 DEF Typed
  <2>2. CASE session # 0
    BY <2>2, ConnectionsAre, FieldsAre DEF Typed
  <2> QED BY <2>1, <2>2
<1>3. Places'
  BY ConnectionsAre DEF Places, Connected, Typed
<1>4. Quiet
  <2>1. \A q \in Requests : /\ phase'[q] = "new" => phase[q] = "new"
                            /\ phase'[q] \in {"merged", "found"} =>
                                 phase[q] \in {"merged", "found"} /\ effective'[q] = effective[q]
    BY DEF Typed
  <2>2. ASSUME NEW c \in Connections, Open(c)', NEW q \in Requests, Pending(q, c)
        PROVE  Pending(q, c)'
    <3>1. session = c /\ session # 0
      BY <2>2, ConnectionsAre DEF Open
    <3> QED BY <2>2, <3>1 DEF Pending, Typed
  <2> QED BY <2>1, <2>2 DEF Quiet, Open
<1> QED BY <1>2, <1>3, <1>4, QuietKeeps

LEMMA RegisterKeeps ==
  ASSUME NEW D, Inv(D), NEW c \in Connections, Register(c)
  PROVE  Inv(D)'
<1>1. Typed /\ Places
  BY DEF Inv
<1> USE <1>1 DEF Register, handlers, history
<1>2. Typed'
  BY ConnectionsAre DEF Typed
<1>3. Places'
  BY ConnectionsAre DEF Places, Connected, Typed
<1>4. Quiet
  BY DEF Quiet, Open, Pending, Typed
<1> QED BY <1>2, <1>3, <1>4, QuietKeeps

LEMMA TaskEndsKeeps ==
  ASSUME NEW D, Inv(D), NEW c \in Connections, TaskEnds(c)
  PROVE  Inv(D)'
<1>1. Typed /\ Places
  BY DEF Inv
<1> USE <1>1 DEF TaskEnds, handlers, registrations, history
<1>2. Typed'
  BY ConnectionsAre DEF Typed
<1>3. Places'
  BY ConnectionsAre DEF Places, Connected, Typed
<1>4. Quiet
  BY ConnectionsAre DEF Quiet, Open, Pending, Typed
<1> QED BY <1>2, <1>3, <1>4, QuietKeeps

LEMMA SweepKeeps ==
  ASSUME NEW D, Inv(D), Sweep
  PROVE  Inv(D)'
<1>1. Typed /\ Places
  BY DEF Inv
<1> USE <1>1 DEF Sweep, handlers, registrations, history
<1>2. Typed'
  BY ConnectionsAre DEF Typed
<1>3. Places'
  BY ConnectionsAre DEF Places, Connected, Typed
<1>4. Quiet
  BY ConnectionsAre DEF Quiet, Open, Pending, Typed
<1> QED BY <1>2, <1>3, <1>4, QuietKeeps

LEMMA LoseKeeps ==
  ASSUME NEW D, Inv(D), Lose
  PROVE  Inv(D)'
<1>1. Typed /\ Places
  BY DEF Inv
<1> USE <1>1 DEF Lose, handlers, registrations, history
<1>2. Typed'
  BY ConnectionsAre DEF Typed
<1>3. Places'
  BY ConnectionsAre DEF Places, Connected, Typed
<1>4. Quiet
  BY ConnectionsAre DEF Quiet, Open, Pending, Typed
<1> QED BY <1>2, <1>3, <1>4, QuietKeeps

LEMMA StutterKeeps ==
  ASSUME NEW D, Inv(D), UNCHANGED vars
  PROVE  Inv(D)'
<1>1. Typed /\ Places
  BY DEF Inv
<1> USE <1>1 DEF vars, handlers, registrations, history
<1>2. Typed'
  BY DEF Typed
<1>3. Places'
  BY DEF Places, Connected
<1>4. Quiet
  BY DEF Quiet, Open, Pending
<1> QED BY <1>2, <1>3, <1>4, QuietKeeps

-----------------------------------------------------------------------------
(* The edge connects, restarts, applies *)

\* A new connection is the next one.
LEMMA NextIsNew ==
  ASSUME Typed, Places, NEW c \in Connections,
         c = Cardinality({d \in Connections : reg[d] # "none"}) + 1
  PROVE  reg[c] = "none" /\ \A d \in Connections : reg[d] # "none" <=> d <= c - 1
<1>1. PICK k \in 0 .. MaxConnections : \A d \in Connections : reg[d] # "none" <=> d <= k
  BY DEF Places
<1> DEFINE made == {d \in Connections : reg[d] # "none"}
<1>2. made = 1 .. k
  BY <1>1, ConnectionsAre DEF Connections
<1>3. c = Cardinality(made) + 1
  OBVIOUS
<1> HIDE DEF made
<1>4. c = k + 1 /\ k \in Nat /\ c - 1 = k
  <2>1. k \in Nat
    BY ConnectionsAre
  <2>2. Cardinality(1 .. k) = IF 1 > k THEN 0 ELSE k - 1 + 1
    BY <2>1, FS_Interval
  <2>3. Cardinality(made) = k
    BY <1>2, <2>1, <2>2
  <2> QED BY <1>3, <2>1, <2>3
<1>5. reg[c] = "none"
  BY <1>1, <1>4
<1> QED BY <1>1, <1>4, <1>5

LEMMA ConnectKeeps ==
  ASSUME NEW D, Inv(D), NEW c \in Connections, Connect(c)
  PROVE  Inv(D)'
<1>1. Typed /\ Places /\ Versions(D) /\ Owed /\ Defaulted(D) /\ Chains(D)
  BY DEF Inv
<1>2. reg[c] = "none" /\ \A d \in Connections : reg[d] # "none" <=> d <= c - 1
  BY <1>1, NextIsNew DEF Connect
<1> USE DEF Connect, handlers, history
<1>3. /\ c \in Nat /\ c # 0 /\ c - 1 \in Nat /\ c \in 0 .. MaxConnections
      /\ reg' = [reg EXCEPT ![c] = "sent"] /\ reg \in [Connections -> {"none", "sent", "added", "read", "done"}]
      /\ \A d \in Connections : d # c => reg'[d] = reg[d]
      /\ reg'[c] = "sent"
  BY <1>1, ConnectionsAre DEF Typed, Connections
<1>4. Typed'
  BY <1>1, <1>3 DEF Typed
<1>5. Places'
  <2>1. \A d \in Connections : reg'[d] # "none" <=> d <= c
    BY <1>2, <1>3, ConnectionsAre
  <2>2. queue[c] = << >>
    BY <1>1, <1>2 DEF Places
  <2>3. \A d \in Connections : reg'[d] \in {"none", "sent"} => queue'[d] = << >>
    BY <1>1, <1>3, <2>2 DEF Places
  <2>4. \A d \in Connections : Connected(d) => Connected(d)'
    BY <1>2, <1>3 DEF Connected
  <2>5. session' # 0 => Connected(session)' /\ session' \notin closed'
    BY <1>1, <2>4, ConnectionsAre DEF Places, Typed
  <2>6. \A r \in Requests : phase'[r] = "found" => target'[r] # 0 /\ Connected(target[r])'
    BY <1>1, <2>4, ConnectionsAre DEF Places, Typed
  <2>7. \E k \in 0 .. MaxConnections : \A d \in Connections : reg'[d] # "none" <=> d <= k
    BY <1>3, <2>1
  <2>8. live' # 0 => reg'[live'] # "none"
    BY <1>3
  <2> QED BY <2>3, <2>5, <2>6, <2>7, <2>8 DEF Places, Connected
<1>6. Versions(D)'
  BY <1>1, <1>3 DEF Versions, DesiredFor
<1>7. Owed'
  BY <1>1, <1>3 DEF Owed, Open, Pending
<1>8. Defaulted(D)'
  BY <1>1, <1>3 DEF Defaulted, Plain
<1>9. Chains(D)'
  <2> SUFFICES Chained(D, c)'
    BY <1>3 DEF Chains
  <2>1. PICK h : h = [n \in Nat |-> edge]
    OBVIOUS
  <2>2. queue'[c] = << >>
    BY <1>3, <1>5 DEF Places
  <2>3. h \in [Nat -> Configs] /\ h[0] = edge
    BY <1>1, <2>1 DEF Typed
  <2>4. Leads(h, edge, queue[c])' /\ h[Len(queue[c])]' = h[0]
    BY <2>2, <2>3 DEF Leads
  <2>5. WillAgree(D, c, h[0])'
    BY <1>3, <2>3 DEF WillAgree
  <2>6. PICK x : x = h[0]
    OBVIOUS
  <2>7. WillAgree(D, c, x)' /\ x = h[Len(queue[c])]'
    BY <2>4, <2>5, <2>6
  <2> QED BY <2>4, <2>7 DEF Chained
<1> QED BY <1>4, <1>5, <1>6, <1>7, <1>8, <1>9 DEF Inv

LEMMA RestartKeeps ==
  ASSUME NEW D, Inv(D), Restart
  PROVE  Inv(D)'
<1>1. Typed /\ Places /\ Versions(D) /\ Owed /\ Defaulted(D) /\ Chains(D)
  BY DEF Inv
<1> USE DEF Restart, handlers, registrations, history
<1>2. Typed'
  BY <1>1, ConnectionsAre DEF Typed
<1>3. Places'
  BY <1>1 DEF Places, Connected
<1>4. Versions(D)'
  BY <1>1 DEF Versions, DesiredFor
<1>5. Owed'
  BY <1>1 DEF Owed, Open, Pending
<1>6. Defaulted(D)'
  BY <1>1, OwnPlain, ConnectionsAre DEF Defaulted
<1>7. Chains(D)'
  BY ConnectionsAre DEF Chains
<1> QED BY <1>2, <1>3, <1>4, <1>5, <1>6, <1>7 DEF Inv

\* The first update applied, the others lead on from there.
LEMMA LeadsOn ==
  ASSUME NEW h, NEW x \in Configs, NEW q \in Seq(Configs), q # << >>, Leads(h, x, q)
  PROVE  \E g : Leads(g, AppliedTo(x, Head(q)), Tail(q)) /\ g[Len(Tail(q))] = h[Len(q)]
<1>1. /\ h \in [Nat -> Configs] /\ h[0] = x
      /\ \A i \in 1 .. Len(q) : h[i] = AppliedTo(h[i - 1], q[i])
  BY DEF Leads
<1>2. PICK g : g = [n \in Nat |-> h[n + 1]]
  OBVIOUS
<1>3. /\ Head(q) = q[1] /\ Tail(q) \in Seq(Configs) /\ Len(Tail(q)) = Len(q) - 1 /\ Len(q) \in Nat \ {0}
      /\ \A i \in 1 .. Len(Tail(q)) : Tail(q)[i] = q[i + 1]
  OBVIOUS
<1>4. g \in [Nat -> Configs] /\ \A n \in Nat : g[n] = h[n + 1]
  BY <1>1, <1>2
<1>5. g[0] = AppliedTo(x, Head(q))
  <2>1. h[1] = AppliedTo(h[0], q[1])
    BY <1>1, <1>3
  <2> QED BY <1>1, <1>3, <1>4, <2>1
<1>6. ASSUME NEW i \in 1 .. Len(Tail(q)) PROVE g[i] = AppliedTo(g[i - 1], Tail(q)[i])
  <2>1. h[i + 1] = AppliedTo(h[i], q[i + 1])
    <3>1. i + 1 \in 1 .. Len(q) /\ (i + 1) - 1 = i
      BY <1>3
    <3> QED BY <1>1, <3>1
  <2>2. g[i] = h[i + 1] /\ g[i - 1] = h[i]
    <3>1. i \in Nat /\ i - 1 \in Nat /\ (i - 1) + 1 = i
      BY <1>3
    <3> QED BY <1>4, <3>1
  <2> QED BY <1>3, <2>1, <2>2
<1>7. g[Len(Tail(q))] = h[Len(q)]
  BY <1>3, <1>4
<1> QED BY <1>4, <1>5, <1>6, <1>7 DEF Leads

LEMMA DeliverKeeps ==
  ASSUME NEW D, Inv(D), NEW c \in Connections, Deliver(c)
  PROVE  Inv(D)'
<1>1. Typed /\ Places /\ Versions(D) /\ Owed /\ Defaulted(D) /\ Chains(D)
  BY DEF Inv
<1> USE DEF Deliver, handlers, registrations, history
<1>2. /\ queue[c] \in Seq(Configs) /\ queue[c] # << >> /\ Head(queue[c]) \in Configs
      /\ Tail(queue[c]) \in Seq(Configs) /\ edge \in Configs
      /\ Head(queue[c]) = queue[c][1] /\ 1 \in 1 .. Len(queue[c])
      /\ \A i \in 1 .. Len(Tail(queue[c])) : Tail(queue[c])[i] = queue[c][i + 1] /\ i + 1 \in 1 .. Len(queue[c])
  BY <1>1 DEF Typed
<1>3. edge' = AppliedTo(edge, Head(queue[c]))
  BY DEF Applied, AppliedTo
<1>4. /\ queue'[c] = Tail(queue[c]) /\ \A d \in Connections : d # c => queue'[d] = queue[d]
      /\ queue' \in [Connections -> Seq(Configs)]
  BY <1>1, <1>2 DEF Typed
<1>5. edge' \in Configs
  BY <1>2, <1>3, AppliedTyped
<1>6. Typed'
  BY <1>1, <1>4, <1>5 DEF Typed
<1>7. Places'
  <2>1. reg[c] = "done"
    OBVIOUS
  <2> QED BY <1>1, <1>4, <2>1 DEF Places, Connected
<1>8. Versions(D)'
  BY <1>1 DEF Versions, DesiredFor
<1>9. Owed'
  BY <1>1 DEF Owed, Open, Pending
<1>10. Defaulted(D)'
  <2>1. PlainUpdate(Head(queue[c]), D[merges]) /\ Plain(edge, D[merges]) /\ D[merges] \in Configs
    BY <1>1, <1>2 DEF Defaulted, Versions, Typed
  <2>2. Plain(edge', D[merges])
    BY <1>2, <1>3, <2>1, AppliedPlain
  <2>3. \A d \in Connections : \A i \in 1 .. Len(queue'[d]) : PlainUpdate(queue'[d][i], D[merges])
    BY <1>1, <1>2, <1>4 DEF Defaulted
  <2>4. \A d \in Connections : ~ (live' = d /\ reg'[d] = "read")
    OBVIOUS
  <2> QED BY <2>2, <2>3, <2>4 DEF Defaulted, Plain, PlainUpdate
<1>11. Chains(D)'
  <2> SUFFICES Chained(D, c)'
    BY DEF Chains
  <2>1. PICK h, x : Leads(h, edge, queue[c]) /\ x = h[Len(queue[c])] /\ WillAgree(D, c, x)
    BY <1>1 DEF Chains, Chained
  <2>2. PICK g : Leads(g, edge', Tail(queue[c])) /\ g[Len(Tail(queue[c]))] = x
    BY <1>2, <1>3, <2>1, LeadsOn
  <2>3. WillAgree(D, c, x)'
    BY <2>1 DEF WillAgree, Open, Late, Pending
  <2> QED BY <1>4, <2>2, <2>3 DEF Chained, Leads
<1> QED BY <1>6, <1>7, <1>8, <1>9, <1>10, <1>11 DEF Inv

-----------------------------------------------------------------------------
(* Merges and reads of the desired state *)

\* The next version, in a history of the desired state that goes on from D.
Extends(E, D) == E \in [Nat -> Configs] /\ \A v \in 0 .. merges : E[v] = D[v]

LEMMA MergeVersions ==
  ASSUME NEW D, Inv(D), NEW r \in Requests, Merge(r), Typed'
  PROVE  \E E : Extends(E, D) /\ Versions(E)'
<1>1. Typed /\ Versions(D)
  BY DEF Inv
<1> DEFINE merged == Overlay(override, Body[r])
           want == Overlay(Resolve, merged)
<1>2. /\ phase[r] = "new" /\ ~ IsEmpty(Body[r]) /\ CheckThresholdOrder(want)
      /\ override' = merged /\ effective' = [effective EXCEPT ![r] = want]
      /\ phase' = [phase EXCEPT ![r] = "merged"]
      /\ merges' = merges + 1 /\ known' = [known EXCEPT ![r] = merges + 1]
      /\ UNCHANGED <<readAt, newest, reg, desired>>
  BY DEF Merge, Validate, registrations
<1>3. Body[r] \in Configs /\ override \in Configs /\ Resolve \in Configs
  BY <1>1, ConnectionsAre DEF Typed
<1>4. merged \in Configs /\ want \in Configs
  BY <1>3, OverlayTyped
<1>5. want = Overlay(D[merges], Body[r])
  BY <1>1, <1>3, OverlayTwice DEF Versions, DesiredFor
<1>6. DesiredFor' = want
  BY <1>2 DEF DesiredFor
<1> HIDE DEF merged, want
<1>7. PICK E : E = [D EXCEPT ![merges + 1] = want]
  OBVIOUS
<1>8. merges \in Nat /\ merges + 1 \in Nat /\ merges + 1 # 0 /\ D \in [Nat -> Configs]
  BY <1>1 DEF Typed, Versions
<1>9. /\ E \in [Nat -> Configs] /\ E[merges + 1] = want
      /\ \A v \in Nat : v # merges + 1 => E[v] = D[v]
  BY <1>4, <1>7, <1>8
<1>10. Extends(E, D)
  BY <1>8, <1>9 DEF Extends
<1>11. \A v \in 0 .. merges' : CheckThresholdOrder(E[v])
  BY <1>1, <1>2, <1>8, <1>9 DEF Versions
<1>12. ASSUME NEW v \in 0 .. merges', NEW w \in 0 .. merges', v <= w,
              NEW f \in Fields, E[w][f] = Unset
       PROVE  E[v][f] = Unset
  <2>1. CASE w = merges + 1 /\ v # w
    <3>1. want[f] = Unset
      BY <1>9, <1>12, <2>1
    <3>2. D[merges][f] = Unset
      BY <1>3, <1>5, <1>8, <3>1, OverlayTyped
    <3>3. v \in 0 .. merges /\ merges \in 0 .. merges /\ v <= merges
      BY <1>2, <1>8, <2>1
    <3>4. D[v][f] = Unset
      BY <1>1, <3>2, <3>3 DEF Versions
    <3> QED BY <1>8, <1>9, <3>3, <3>4
  <2>2. CASE w # merges + 1
    <3>1. v \in 0 .. merges /\ w \in 0 .. merges /\ E[v] = D[v] /\ E[w] = D[w]
      BY <1>2, <1>8, <1>9, <1>12, <2>2
    <3> QED BY <1>1, <1>12, <3>1 DEF Versions
  <2> QED BY <1>12, <2>1, <2>2
<1>13. ASSUME NEW v \in 1 .. merges' PROVE \E q \in Requests : known'[q] = v
  <2>1. CASE v = merges + 1
    BY <1>1, <1>2, <2>1 DEF Typed
  <2>2. CASE v # merges + 1
    <3>1. v \in 1 .. merges
      BY <1>2, <1>8, <2>2
    <3>2. PICK q \in Requests : known[q] = v
      BY <1>1, <3>1 DEF Versions
    <3>3. q # r
      BY <1>1, <1>2, <3>1, <3>2 DEF Versions
    <3> QED BY <1>2, <3>2, <3>3 DEF Typed
  <2> QED BY <2>1, <2>2
<1>14. ASSUME NEW q \in Requests, known'[q] > 0
       PROVE  known'[q] <= merges' /\ ~ IsEmpty(Body[q]) /\ E[known'[q]] = Overlay(E[known'[q] - 1], Body[q])
  <2>1. CASE q = r
    <3>1. known'[q] = merges + 1
      BY <1>1, <1>2, <2>1 DEF Typed
    <3>2. E[known'[q] - 1] = D[merges]
      BY <1>8, <1>9, <3>1
    <3> QED BY <1>2, <1>5, <1>8, <1>9, <2>1, <3>1, <3>2
  <2>2. CASE q # r
    <3>1. known'[q] = known[q] /\ known[q] \in Nat /\ known[q] > 0
      BY <1>1, <1>2, <1>14, <2>2 DEF Typed
    <3>2. known[q] <= merges /\ ~ IsEmpty(Body[q]) /\ D[known[q]] = Overlay(D[known[q] - 1], Body[q])
      BY <1>1, <3>1 DEF Versions
    <3>3. E[known[q]] = D[known[q]] /\ E[known[q] - 1] = D[known[q] - 1]
      BY <1>8, <1>9, <3>1, <3>2
    <3> QED BY <1>2, <1>8, <3>1, <3>2, <3>3
  <2> QED BY <2>1, <2>2
<1>15. ASSUME NEW q \in Requests, phase'[q] = "new" PROVE known'[q] = 0
  BY <1>1, <1>2, <1>15 DEF Versions, Typed
<1>16. ASSUME NEW q \in Requests, phase'[q] \in {"merged", "found"}
       PROVE  known'[q] > 0 /\ effective'[q] = E[known'[q]]
  <2>1. CASE q = r
    BY <1>1, <1>2, <1>8, <1>9, <2>1 DEF Typed
  <2>2. CASE q # r
    <3>1. phase[q] \in {"merged", "found"} /\ known'[q] = known[q] /\ effective'[q] = effective[q]
      BY <1>1, <1>2, <1>16, <2>2 DEF Typed
    <3>2. known[q] > 0 /\ known[q] <= merges /\ known[q] \in Nat /\ effective[q] = D[known[q]]
      BY <1>1, <3>1 DEF Versions, Typed
    <3> QED BY <1>8, <1>9, <3>1, <3>2
  <2> QED BY <2>1, <2>2
<1>17. ASSUME NEW c \in Connections
       PROVE  readAt'[c] <= merges' /\ newest'[c] <= merges' /\ (reg'[c] = "read" => desired'[c] = E[readAt'[c]])
  <2>1. readAt[c] \in Nat /\ newest[c] \in Nat /\ readAt[c] <= merges /\ newest[c] <= merges
    BY <1>1 DEF Versions, Typed
  <2>2. E[readAt[c]] = D[readAt[c]]
    BY <1>8, <1>9, <2>1
  <2> QED BY <1>1, <1>2, <1>8, <2>1, <2>2 DEF Versions
<1>18. E[merges'] = DesiredFor'
  BY <1>2, <1>6, <1>9
<1> QED BY <1>9, <1>10, <1>11, <1>12, <1>13, <1>14, <1>15, <1>16, <1>17, <1>18 DEF Versions

LEMMA MergeKeeps ==
  ASSUME NEW D, Inv(D), NEW r \in Requests, Merge(r)
  PROVE  IInv'
<1>1. Typed /\ Places /\ Versions(D) /\ Owed /\ Defaulted(D) /\ Chains(D)
  BY DEF Inv
<1>2. /\ phase[r] = "new" /\ phase' = [phase EXCEPT ![r] = "merged"]
      /\ merges' = merges + 1 /\ known' = [known EXCEPT ![r] = merges + 1]
      /\ UNCHANGED <<session, target, reg, desired, legacy, closing, closed, queue, live, edge, readAt, newest, raced>>
  BY DEF Merge, registrations
<1>3. Typed'
  <2>1. override' \in Configs /\ effective' \in [Requests -> Configs]
    <3>1. Overlay(override, Body[r]) \in Configs
      BY <1>1, ConnectionsAre, OverlayTyped DEF Typed
    <3>2. Overlay(Resolve, Overlay(override, Body[r])) \in Configs
      BY <3>1, ConnectionsAre, OverlayTyped
    <3> QED BY <1>1, <3>1, <3>2 DEF Merge, Typed
  <2>2. phase' \in [Requests -> {"new", "merged", "found", "done"}] /\ known' \in [Requests -> Nat] /\ merges' \in Nat
    BY <1>1, <1>2 DEF Typed
  <2> QED BY <1>1, <1>2, <2>1, <2>2 DEF Typed
<1>4. Places'
  BY <1>1, <1>2 DEF Places, Connected, Typed
<1>5. PICK E : Extends(E, D) /\ Versions(E)'
  BY <1>3, MergeVersions
<1>6. /\ merges \in Nat /\ \A v \in 0 .. merges : E[v] = D[v]
      /\ \A c \in Connections : readAt[c] \in 0 .. merges /\ newest[c] \in 0 .. merges
  BY <1>1, <1>5 DEF Extends, Typed, Versions
<1>7. \A q \in Requests, c \in Connections : Pending(q, c) => q # r /\ Pending(q, c)' /\ known'[q] = known[q]
  BY <1>1, <1>2 DEF Pending, Typed
<1>8. \A q \in Requests, c \in Connections : known'[q] = known[q] \/ Pending(q, c)'
  BY <1>1, <1>2 DEF Pending, Typed
<1>9. Owed'
  BY <1>1, <1>2, <1>7, <1>8 DEF Owed, Open
<1>10. \A f \in Fields : E[merges + 1][f] = Unset => E[merges][f] = Unset
  <2>1. merges \in 0 .. merges' /\ merges + 1 \in 0 .. merges' /\ merges <= merges + 1
    BY <1>2, <1>6
  <2> QED BY <1>5, <2>1 DEF Versions
<1>11. \A x : Plain(x, D[merges]) => Plain(x, E[merges + 1])
  BY <1>6, <1>10, FieldsAre DEF Plain
<1>12. \A x : PlainUpdate(x, D[merges]) => PlainUpdate(x, E[merges + 1])
  BY <1>6, <1>10, FieldsAre DEF PlainUpdate
<1>13. Defaulted(E)'
  <2>1. Plain(edge, E[merges + 1])
    BY <1>1, <1>11 DEF Defaulted
  <2>2. \A c \in Connections : live' = c /\ reg'[c] = "read" => Plain(edge, E[readAt[c]])
    BY <1>1, <1>2, <1>6 DEF Defaulted
  <2>3. \A c \in Connections : \A i \in 1 .. Len(queue'[c]) : PlainUpdate(queue'[c][i], E[merges + 1])
    BY <1>1, <1>2, <1>12 DEF Defaulted
  <2> QED BY <1>2, <2>1, <2>2, <2>3 DEF Defaulted
<1>14. Chains(E)'
  <2> SUFFICES ASSUME NEW c \in Connections, live' = c PROVE Chained(E, c)'
    BY DEF Chains
  <2>1. PICK h, x : Leads(h, edge, queue[c]) /\ x = h[Len(queue[c])] /\ WillAgree(D, c, x)
    BY <1>1, <1>2 DEF Chains, Chained
  <2>2. ASSUME Open(c)', reg'[c] = "done", c \notin raced', ~ Late(c)' PROVE Agrees(x, E[newest'[c]])
    <3>1. Open(c) /\ reg[c] = "done" /\ c \notin raced
      BY <1>2, <2>2 DEF Open
    <3>2. ~ Late(c)
      BY <1>2, <1>7, <2>2 DEF Late
    <3> QED BY <1>2, <1>6, <2>1, <3>1, <3>2 DEF WillAgree
  <2>3. ASSUME reg'[c] # "done", NEW w \in newest'[c] .. merges', Plain(edge', E[w]) PROVE Plain(x, E[w])
    <3>1. \A v \in newest[c] .. merges : Plain(edge, D[v]) => Plain(x, D[v])
      BY <1>2, <2>1, <2>3 DEF WillAgree
    <3>2. CASE w = merges + 1
      <4>1. Plain(edge, D[merges]) /\ merges \in newest[c] .. merges
        BY <1>1, <1>6 DEF Defaulted
      <4> QED BY <1>11, <3>1, <3>2, <4>1
    <3>3. CASE w # merges + 1
      <4>1. w \in newest[c] .. merges /\ w \in 0 .. merges
        BY <1>2, <1>6, <3>3
      <4> QED BY <1>2, <1>6, <2>3, <3>1, <4>1
    <3> QED BY <3>2, <3>3
  <2>4. WillAgree(E, c, x)'
    BY <2>2, <2>3 DEF WillAgree
  <2> QED BY <1>2, <2>1, <2>4 DEF Chained
<1> QED BY <1>3, <1>4, <1>5, <1>9, <1>13, <1>14 DEF IInv, Inv

LEMMA ReadKeeps ==
  ASSUME NEW D, Inv(D), NEW c \in Connections, ReadDesired(c)
  PROVE  Inv(D)'
<1>1. Typed /\ Places /\ Versions(D) /\ Owed /\ Defaulted(D) /\ Chains(D)
  BY DEF Inv
<1>2. /\ reg[c] = "added" /\ reg' = [reg EXCEPT ![c] = IF IsEmpty(DesiredFor) THEN "done" ELSE "read"]
      /\ desired' = [desired EXCEPT ![c] = DesiredFor] /\ readAt' = [readAt EXCEPT ![c] = merges]
      /\ UNCHANGED <<override, session, phase, effective, target, legacy, closing, closed, queue, live, edge,
                     merges, known, newest, raced>>
  BY DEF ReadDesired, handlers
<1>3. /\ \A d \in Connections : d # c => reg'[d] = reg[d] /\ desired'[d] = desired[d] /\ readAt'[d] = readAt[d]
      /\ reg'[c] \in {"done", "read"} /\ desired'[c] = DesiredFor /\ readAt'[c] = merges
      /\ reg'[c] = "done" <=> IsEmpty(DesiredFor)
      /\ merges \in Nat /\ \A d \in Connections : newest[d] \in 0 .. merges
  BY <1>1, <1>2 DEF Typed, Versions
<1>4. Typed'
  BY <1>1, <1>2, DesiredTyped DEF Typed
<1>5. Places'
  <2>1. \A d \in Connections : (Connected(d) <=> Connected(d)') /\ (reg[d] # "none" <=> reg'[d] # "none")
    BY <1>2, <1>3 DEF Connected
  <2>2. session # 0 => Connected(session)'
    BY <1>1, <1>2, <2>1, ConnectionsAre DEF Places, Typed, Connected
  <2>3. \A r \in Requests : phase[r] = "found" => Connected(target[r])'
    BY <1>1, <1>2, <2>1, ConnectionsAre DEF Places, Typed, Connected
  <2>4. live # 0 => reg'[live] # "none"
    BY <1>1, <2>1, ConnectionsAre DEF Places, Typed
  <2>5. \A d \in Connections : reg'[d] \in {"none", "sent"} => queue[d] = << >>
    BY <1>1, <1>3 DEF Places
  <2> QED BY <1>1, <1>2, <2>1, <2>2, <2>3, <2>4, <2>5 DEF Places, Connected
<1>6. Versions(D)'
  <2>1. DesiredFor' = DesiredFor
    BY <1>2 DEF DesiredFor
  <2>2. \A d \in Connections : readAt'[d] <= merges /\ newest[d] <= merges
    BY <1>1, <1>3 DEF Versions
  <2>3. \A d \in Connections : reg'[d] = "read" => desired'[d] = D[readAt'[d]]
    BY <1>1, <1>3 DEF Versions
  <2> QED BY <1>1, <1>2, <2>1, <2>2, <2>3 DEF Versions
<1>7. IsEmpty(DesiredFor) => merges = 0
  <2> SUFFICES ASSUME IsEmpty(DesiredFor), merges # 0 PROVE FALSE
    OBVIOUS
  <2>1. merges \in 1 .. merges
    BY <1>3
  <2>2. PICK r \in Requests : known[r] = merges
    BY <1>1, <2>1 DEF Versions
  <2>3. D[merges] = Overlay(D[merges - 1], Body[r]) /\ Body[r] # Nothing /\ D[merges] = Nothing
    BY <1>1, <1>3, <2>2 DEF Versions, IsEmpty
  <2>4. D[merges - 1] \in Configs /\ Body[r] \in Configs
    BY <1>1, <1>3, ConnectionsAre DEF Versions
  <2>5. \A f \in Fields : Body[r][f] = Unset
    <3>1. \A f \in Fields : Overlay(D[merges - 1], Body[r])[f]
                             = IF Body[r][f] # Unset THEN Body[r][f] ELSE D[merges - 1][f]
      BY <2>4, OverlayTyped
    <3>2. \A f \in Fields : Overlay(D[merges - 1], Body[r])[f] = Unset
      BY <2>3, FieldsAre
    <3> QED BY <3>1, <3>2
  <2>6. Body[r] = Nothing
    BY <2>4, <2>5 DEF Nothing, Configs
  <2> QED BY <2>3, <2>6
<1>8. Owed'
  <2> SUFFICES ASSUME NEW d \in Connections, Open(d)', reg'[d] \in {"read", "done"}
               PROVE  /\ \A r \in Requests : known'[r] > newest'[d] /\ known'[r] > readAt'[d] => Pending(r, d)'
                      /\ reg'[d] = "done" => readAt'[d] <= newest'[d]
    BY DEF Owed
  <2>1. CASE d = c
    <3>1. \A r \in Requests : ~ (known[r] > merges)
      BY <1>1, <1>3 DEF Versions, Typed
    <3>2. reg'[c] = "done" => merges <= newest[c]
      BY <1>3, <1>7
    <3> QED BY <1>2, <1>3, <2>1, <3>1, <3>2
  <2>2. CASE d # c
    BY <1>1, <1>2, <1>3, <2>2 DEF Owed, Open, Pending
  <2> QED BY <2>1, <2>2
<1>9. Defaulted(D)'
  BY <1>1, <1>2, <1>3 DEF Defaulted, Plain
<1>10. Chains(D)'
  <2> SUFFICES ASSUME NEW d \in Connections, live' = d PROVE Chained(D, d)'
    BY DEF Chains
  <2>1. PICK h, x : Leads(h, edge, queue[d]) /\ x = h[Len(queue[d])] /\ WillAgree(D, d, x)
    BY <1>1, <1>2 DEF Chains, Chained
  <2>2. CASE d # c
    <3>1. WillAgree(D, d, x)'
      BY <1>2, <1>3, <2>1, <2>2 DEF WillAgree, Open, Late, Pending
    <3> QED BY <1>2, <2>1, <3>1 DEF Chained
  <2>3. CASE d = c
    <3>1. \A w \in newest[c] .. merges : Plain(edge, D[w]) => Plain(x, D[w])
      BY <1>2, <2>1, <2>3 DEF WillAgree
    <3>2. ASSUME reg'[c] = "done" PROVE Agrees(x, D[newest[c]])
      <4>1. merges = 0 /\ newest[c] = 0 /\ D[0] = DesiredFor /\ DesiredFor = Nothing
        BY <1>1, <1>3, <1>7, <3>2 DEF Versions, IsEmpty
      <4>2. Plain(x, D[0])
        BY <1>1, <3>1, <4>1 DEF Defaulted
      <4>3. \A f \in Fields : D[0][f] = Unset
        BY <4>1, FieldsAre
      <4> QED BY <4>1, <4>2, <4>3, FieldsAre DEF Agrees, Plain, Effective
    <3>3. WillAgree(D, d, x)'
      BY <1>2, <1>3, <2>3, <3>1, <3>2 DEF WillAgree
    <3> QED BY <1>2, <2>1, <3>3 DEF Chained
  <2> QED BY <2>2, <2>3
<1> QED BY <1>4, <1>5, <1>6, <1>8, <1>9, <1>10 DEF Inv

-----------------------------------------------------------------------------
(* Pushes *)

\* One more update leads one step further.
LEMMA LeadsFurther ==
  ASSUME NEW h, NEW x \in Configs, NEW q \in Seq(Configs), NEW u \in Configs, Leads(h, x, q)
  PROVE  \E g : Leads(g, x, Append(q, u)) /\ g[Len(Append(q, u))] = AppliedTo(h[Len(q)], u)
<1>1. /\ h \in [Nat -> Configs] /\ h[0] = x
      /\ \A i \in 1 .. Len(q) : h[i] = AppliedTo(h[i - 1], q[i])
  BY DEF Leads
<1>2. /\ Len(q) \in Nat /\ Len(Append(q, u)) = Len(q) + 1 /\ Append(q, u)[Len(q) + 1] = u
      /\ \A i \in 1 .. Len(q) : Append(q, u)[i] = q[i]
  OBVIOUS
<1>3. PICK y : y = AppliedTo(h[Len(q)], u)
  OBVIOUS
<1>4. y \in Configs
  BY <1>1, <1>2, <1>3, AppliedTyped
<1>5. PICK g : g = [h EXCEPT ![Len(q) + 1] = y]
  OBVIOUS
<1>6. g \in [Nat -> Configs] /\ g[Len(q) + 1] = y /\ \A n \in Nat : n # Len(q) + 1 => g[n] = h[n]
  BY <1>1, <1>2, <1>4, <1>5
<1>7. ASSUME NEW i \in 1 .. Len(Append(q, u)) PROVE g[i] = AppliedTo(g[i - 1], Append(q, u)[i])
  <2>1. CASE i = Len(q) + 1
    <3>1. i - 1 = Len(q)
      BY <1>2, <2>1
    <3>2. g[i - 1] = h[Len(q)]
      BY <1>2, <1>6, <3>1
    <3> QED BY <1>2, <1>3, <1>6, <2>1, <3>2
  <2>2. CASE i # Len(q) + 1
    <3>1. i \in 1 .. Len(q) /\ i \in Nat /\ i - 1 \in Nat /\ i - 1 # Len(q) + 1
      BY <1>2, <2>2
    <3>2. g[i] = h[i] /\ g[i - 1] = h[i - 1]
      BY <1>6, <2>2, <3>1
    <3> QED BY <1>1, <1>2, <3>1, <3>2
  <2> QED BY <2>1, <2>2
<1>8. g[0] = x
  BY <1>1, <1>2, <1>6
<1> QED BY <1>2, <1>3, <1>6, <1>7, <1>8 DEF Leads

\* What a send does to the connections: one that takes nothing is not open.
LEMMA Sent ==
  ASSUME Typed, Places, NEW c \in Connections, NEW u \in Configs, NEW v \in Nat, Send(c, u, v),
         session' = session, closed' = closed
  PROVE  /\ closing \subseteq closing' /\ closing' \subseteq Connections /\ raced' \subseteq Connections
         /\ queue' \in [Connections -> Seq(Configs)] /\ newest' \in [Connections -> Nat]
         /\ \A d \in Connections : d # c =>
              queue'[d] = queue[d] /\ newest'[d] = newest[d] /\ (d \in raced' <=> d \in raced)
         /\ CanSend(c) => /\ queue'[c] = Append(queue[c], u)
                          /\ newest'[c] = IF v > newest[c] THEN v ELSE newest[c]
                          /\ c \in raced' <=> c \in raced \/ v < newest[c]
         /\ ~ CanSend(c) => ~ Open(c)' /\ UNCHANGED <<queue, newest, raced>>
<1>1. queue[c] \in Seq(Configs) /\ Append(queue[c], u) \in Seq(Configs) /\ newest[c] \in Nat
  BY DEF Typed
<1>2. closing \subseteq closing' /\ closing' \subseteq Connections
  BY DEF Send, Typed
<1>3. queue' \in [Connections -> Seq(Configs)] /\ newest' \in [Connections -> Nat] /\ raced' \subseteq Connections
  BY <1>1 DEF Send, Typed
<1>4. ASSUME NEW d \in Connections, d # c
      PROVE  queue'[d] = queue[d] /\ newest'[d] = newest[d] /\ (d \in raced' <=> d \in raced)
  BY <1>4 DEF Send, Typed
<1>5. ASSUME CanSend(c)
      PROVE  /\ queue'[c] = Append(queue[c], u)
             /\ newest'[c] = IF v > newest[c] THEN v ELSE newest[c]
             /\ c \in raced' <=> c \in raced \/ v < newest[c]
  BY <1>1, <1>5 DEF Send, Typed
<1>6. ASSUME ~ CanSend(c) PROVE ~ Open(c)' /\ UNCHANGED <<queue, newest, raced>>
  <2>1. UNCHANGED <<queue, newest, raced>>
    BY <1>6 DEF Send
  <2>2. c \in closed \/ c \in closing'
    BY <1>6 DEF Send
  <2>3. c \in closed => session # c
    BY ConnectionsAre DEF Places
  <2> QED BY <2>1, <2>2, <2>3 DEF Open
<1> QED BY <1>2, <1>3, <1>4, <1>5, <1>6

\* What is plain for a state is plain for later ones.
LEMMA PlainLater ==
  ASSUME NEW D, Versions(D), NEW v \in 0 .. merges, NEW w \in 0 .. merges, v <= w, NEW u,
         PlainUpdate(u, D[v])
  PROVE  PlainUpdate(u, D[w])
  BY FieldsAre DEF Versions, PlainUpdate

\* Sending what is plain for a state keeps everything plain.
LEMMA SentDefaulted ==
  ASSUME NEW D, Typed, Places, Versions(D), Defaulted(D), NEW c \in Connections, NEW u \in Configs, NEW v \in 0 .. merges,
         Send(c, u, v), PlainUpdate(u, D[v]), UNCHANGED <<session, closed, edge, live, merges, readAt>>,
         \A d \in Connections : reg'[d] = "read" => reg[d] = "read"
  PROVE  Defaulted(D)'
<1>1. merges \in Nat /\ v \in Nat
  BY DEF Typed
<1>2. PlainUpdate(u, D[merges])
  BY <1>1, PlainLater
<1>3. /\ \A d \in Connections : d # c => queue'[d] = queue[d]
      /\ CanSend(c) => queue'[c] = Append(queue[c], u)
      /\ ~ CanSend(c) => queue' = queue
  BY <1>1, Sent
<1>4. ASSUME NEW d \in Connections, NEW i \in 1 .. Len(queue'[d]) PROVE PlainUpdate(queue'[d][i], D[merges])
  <2>1. CASE queue'[d] = queue[d]
    BY <1>4, <2>1 DEF Defaulted
  <2>2. CASE d = c /\ queue'[c] = Append(queue[c], u)
    <3>1. queue[c] \in Seq(Configs)
      BY DEF Typed
    <3>2. (i \in 1 .. Len(queue[c]) /\ queue'[d][i] = queue[c][i]) \/ queue'[d][i] = u
      BY <1>4, <2>2, <3>1
    <3> QED BY <1>2, <3>2 DEF Defaulted
  <2> QED BY <1>3, <2>1, <2>2
<1> QED BY <1>4 DEF Defaulted, Plain

LEMMA PushKeeps ==
  ASSUME NEW D, Inv(D), NEW r \in Requests, Push(r)
  PROVE  Inv(D)'
<1>1. Typed /\ Places /\ Versions(D) /\ Owed /\ Defaulted(D) /\ Chains(D)
  BY DEF Inv
<1>2. PICK t \in Connections, v \in 0 .. merges, want \in Configs, old \in Configs, u \in Configs :
        /\ t = target[r] /\ v = known[r] /\ v > 0
        /\ want = D[v] /\ old = D[v - 1] /\ want = Overlay(old, Body[r]) /\ want = effective[r]
        /\ u = PushedFor(Body[r], want, legacy)
  <2>1. target[r] \in Connections
    BY <1>1, ConnectionsAre DEF Push, Places, Typed
  <2>2. known[r] > 0 /\ known[r] \in 0 .. merges /\ known[r] - 1 \in Nat /\ effective[r] = D[known[r]]
        /\ D[known[r]] = Overlay(D[known[r] - 1], Body[r])
    BY <1>1 DEF Push, Versions, Typed
  <2>3. D[known[r]] \in Configs /\ D[known[r] - 1] \in Configs
    BY <1>1, <2>2 DEF Versions
  <2>4. PushedFor(Body[r], D[known[r]], legacy) \in Configs
    <3>1. PushedFor(Body[r], Overlay(D[known[r] - 1], Body[r]), legacy) \in Configs
      BY <1>1, <2>3, ConnectionsAre, PushedTyped DEF Typed
    <3> QED BY <2>2, <3>1
  <2> QED BY <2>1, <2>2, <2>3, <2>4
<1>3. /\ phase[r] = "found" /\ phase' = [phase EXCEPT ![r] = "done"]
      /\ effective' = [effective EXCEPT ![r] = Nothing] /\ target' = [target EXCEPT ![r] = 0]
      /\ UNCHANGED <<override, session, reg, desired, legacy, closed, live, edge, merges, known, readAt>>
  BY DEF Push, Respond, registrations
<1>4. Send(t, u, v)
  BY <1>2 DEF Push, PushedFor
<1>5. v \in Nat /\ merges \in Nat
  BY <1>1 DEF Typed
<1>6. /\ closing \subseteq closing' /\ closing' \subseteq Connections /\ raced' \subseteq Connections
      /\ queue' \in [Connections -> Seq(Configs)] /\ newest' \in [Connections -> Nat]
      /\ \A d \in Connections : d # t =>
           queue'[d] = queue[d] /\ newest'[d] = newest[d] /\ (d \in raced' <=> d \in raced)
      /\ CanSend(t) => /\ queue'[t] = Append(queue[t], u)
                       /\ newest'[t] = IF v > newest[t] THEN v ELSE newest[t]
                       /\ t \in raced' <=> t \in raced \/ v < newest[t]
      /\ ~ CanSend(t) => ~ Open(t)' /\ UNCHANGED <<queue, newest, raced>>
  BY <1>1, <1>3, <1>4, <1>5, Sent
<1>7. Typed'
  <2>1. phase' \in [Requests -> {"new", "merged", "found", "done"}]
    BY <1>1, <1>3 DEF Typed
  <2>2. effective' \in [Requests -> Configs]
    BY <1>1, <1>3, FieldsAre DEF Typed
  <2>3. target' \in [Requests -> 0 .. MaxConnections]
    BY <1>1, <1>3, ConnectionsAre DEF Typed
  <2> QED BY <1>1, <1>3, <1>6, <2>1, <2>2, <2>3 DEF Typed
<1>8. Places'
  <2>1. reg[t] \notin {"none", "sent"}
    BY <1>1, <1>2, <1>3 DEF Places, Connected
  <2>2. \A d \in Connections : reg[d] \in {"none", "sent"} => queue'[d] = << >>
    BY <1>1, <1>6, <2>1 DEF Places
  <2> QED BY <1>1, <1>3, <2>2 DEF Places, Connected, Typed
<1>9. \A q \in Requests, c \in Connections :
        /\ Pending(q, c) => Pending(q, c)' \/ (q = r /\ c = t)
        /\ q = r => ~ Pending(q, c)'
  BY <1>1, <1>2, <1>3 DEF Pending, Typed
<1>10. \A c \in Connections : Open(c)' => Open(c) /\ (c = t => CanSend(t))
  BY <1>3, <1>6 DEF Open
<1>11. \A c \in Connections : newest'[c] >= newest[c] /\ newest'[c] <= merges /\ newest[c] \in Nat /\ newest'[c] \in Nat
  <2> SUFFICES ASSUME NEW c \in Connections
               PROVE  newest'[c] >= newest[c] /\ newest'[c] <= merges /\ newest[c] \in Nat /\ newest'[c] \in Nat
    OBVIOUS
  <2>1. newest[c] \in Nat /\ newest[c] <= merges
    BY <1>1 DEF Versions, Typed
  <2>2. newest'[c] = newest[c] \/ (newest'[c] = v /\ v > newest[c])
    BY <1>6
  <2> QED BY <1>2, <1>5, <2>1, <2>2
<1>12. Versions(D)'
  <2>1. DesiredFor' = DesiredFor
    BY <1>3 DEF DesiredFor
  <2>2. \A q \in Requests : /\ phase'[q] = "new" => known[q] = 0
                            /\ phase'[q] \in {"merged", "found"} => known[q] > 0 /\ effective'[q] = D[known[q]]
    BY <1>1, <1>3 DEF Versions, Typed
  <2>3. \A c \in Connections : readAt'[c] <= merges' /\ newest'[c] <= merges'
    BY <1>1, <1>3, <1>11 DEF Versions
  <2>4. \A c \in Connections : reg'[c] = "read" => desired'[c] = D[readAt'[c]]
    BY <1>1, <1>3 DEF Versions
  <2> QED BY <1>1, <1>3, <2>1, <2>2, <2>3, <2>4 DEF Versions
<1>13. Owed'
  <2> SUFFICES ASSUME NEW c \in Connections, Open(c)', reg[c] \in {"read", "done"}
               PROVE  /\ \A q \in Requests : known[q] > newest'[c] /\ known[q] > readAt[c] => Pending(q, c)'
                      /\ reg[c] = "done" => readAt[c] <= newest'[c]
    BY <1>3 DEF Owed
  <2>1. /\ \A q \in Requests : known[q] > newest[c] /\ known[q] > readAt[c] => Pending(q, c)
        /\ reg[c] = "done" => readAt[c] <= newest[c]
    BY <1>1, <1>10 DEF Owed
  <2>2. readAt[c] \in Nat /\ newest[c] \in Nat /\ newest'[c] \in Nat /\ newest'[c] >= newest[c]
        /\ \A q \in Requests : known[q] \in Nat
    BY <1>1, <1>11 DEF Typed
  <2>3. c = t => newest'[c] >= v
    BY <1>5, <1>6, <1>10, <2>2
  <2>4. ASSUME NEW q \in Requests, known[q] > newest'[c], known[q] > readAt[c] PROVE Pending(q, c)'
    <3>1. Pending(q, c) /\ ~ (q = r /\ c = t)
      BY <1>2, <1>5, <2>1, <2>2, <2>3, <2>4
    <3> QED BY <1>9, <3>1
  <2> QED BY <2>1, <2>2, <2>4
<1>14. PlainUpdate(u, want)
  <2>1. PlainUpdate(PushedFor(Body[r], Overlay(old, Body[r]), legacy), Overlay(old, Body[r]))
    BY <1>1, ConnectionsAre, PushedPlain DEF Typed
  <2> QED BY <1>2, <2>1
<1>15. Defaulted(D)'
  BY <1>1, <1>2, <1>3, <1>4, <1>14, SentDefaulted
<1>16. Chains(D)'
  <2> SUFFICES ASSUME NEW c \in Connections, live = c PROVE Chained(D, c)'
    BY <1>3 DEF Chains
  <2>1. PICK h, x : Leads(h, edge, queue[c]) /\ x = h[Len(queue[c])] /\ WillAgree(D, c, x)
    BY <1>1 DEF Chains, Chained
  <2>2. ASSUME Open(c)', ~ Late(c)', c \notin raced' PROVE ~ Late(c) /\ c \notin raced
    <3>1. c \notin raced
      BY <1>6, <1>10, <2>2
    <3>2. ASSUME NEW q \in Requests, Pending(q, c), known[q] < newest[c] PROVE FALSE
      <4>1. known[q] \in Nat /\ known[q] < newest'[c]
        BY <1>1, <1>11, <3>2 DEF Typed
      <4>2. q = r /\ c = t
        BY <1>3, <1>9, <2>2, <3>2, <4>1 DEF Late
      <4> QED BY <1>2, <1>6, <1>10, <2>2, <3>2, <4>2
    <3> QED BY <3>1, <3>2 DEF Late
  <2>3. CASE c # t \/ ~ CanSend(t)
    <3>1. queue'[c] = queue[c] /\ newest'[c] = newest[c]
      BY <1>6, <2>3
    <3>2. WillAgree(D, c, x)'
      BY <1>3, <1>10, <2>1, <2>2, <3>1 DEF WillAgree
    <3> QED BY <1>3, <2>1, <3>1, <3>2 DEF Chained
  <2>4. CASE c = t /\ CanSend(t)
    <3>1. x \in Configs /\ edge \in Configs /\ queue[c] \in Seq(Configs)
      BY <1>1, <2>1 DEF Leads, Typed
    <3>2. PICK g, y : Leads(g, edge, Append(queue[c], u)) /\ y = g[Len(Append(queue[c], u))] /\ y = AppliedTo(x, u)
      BY <2>1, <3>1, LeadsFurther
    <3>3. ASSUME Open(c)', reg[c] = "done", c \notin raced', ~ Late(c)' PROVE Agrees(y, D[newest'[c]])
      <4>1. Agrees(x, D[newest[c]]) /\ ~ (v < newest[c])
        BY <1>6, <1>10, <2>1, <2>2, <2>4, <3>3 DEF WillAgree
      <4>2. newest'[c] = v /\ newest[c] \in Nat /\ newest[c] <= v
        BY <1>5, <1>6, <1>11, <2>4, <4>1
      <4>3. newest[c] = v \/ newest[c] = v - 1
        <5> SUFFICES ASSUME newest[c] < v - 1 PROVE FALSE
          BY <1>5, <4>2
        <5>1. newest[c] + 1 \in 1 .. merges /\ newest[c] + 1 < v
          BY <1>2, <1>5, <4>2
        <5>2. PICK q \in Requests : known[q] = newest[c] + 1
          BY <1>1, <5>1 DEF Versions
        <5>3. readAt[c] <= newest[c] /\ readAt[c] \in Nat
          BY <1>1, <1>10, <3>3 DEF Owed, Typed
        <5>4. known[q] > newest[c] /\ known[q] > readAt[c]
          BY <4>2, <5>2, <5>3
        <5>5. Pending(q, c)
          BY <1>1, <1>10, <3>3, <5>4 DEF Owed
        <5>6. q # r
          BY <1>2, <4>2, <5>1, <5>2
        <5>7. Pending(q, c)'
          BY <1>9, <5>5, <5>6
        <5>8. known'[q] < newest'[c]
          BY <1>3, <4>2, <5>1, <5>2
        <5> QED BY <3>3, <5>7, <5>8 DEF Late
      <4>4. Agrees(x, old) \/ Agrees(x, want)
        BY <1>2, <4>1, <4>3
      <4>5. CheckThresholdOrder(want) /\ legacy \in BOOLEAN
        BY <1>1, <1>2 DEF Versions, Typed
      <4>6. Agrees(y, want)
        <5>1. Agrees(x, old) \/ Agrees(x, Overlay(old, Body[r]))
          BY <1>2, <4>4
        <5>2. CheckThresholdOrder(Overlay(old, Body[r])) /\ Body[r] \in Configs
          BY <1>2, <4>5, ConnectionsAre
        <5>3. Agrees(AppliedTo(x, PushedFor(Body[r], Overlay(old, Body[r]), legacy)), Overlay(old, Body[r]))
          BY <3>1, <4>5, <5>1, <5>2, StepPushed
        <5> QED BY <1>2, <3>2, <5>3
      <4> QED BY <1>2, <4>2, <4>6
    <3>4. ASSUME reg[c] # "done", NEW w \in newest'[c] .. merges, Plain(edge, D[w]) PROVE Plain(y, D[w])
      <4>1. w \in 0 .. merges /\ v <= w /\ w \in newest[c] .. merges
        BY <1>2, <1>5, <1>6, <1>11, <2>4, <3>4
      <4>2. Plain(x, D[w])
        BY <2>1, <3>4, <4>1 DEF WillAgree
      <4>3. PlainUpdate(u, D[w]) /\ D[w] \in Configs
        <5>1. PlainUpdate(u, D[v])
          BY <1>2, <1>14
        <5>2. PlainUpdate(u, D[w])
          BY <1>1, <4>1, <5>1, PlainLater
        <5>3. w \in Nat
          BY <4>1
        <5> QED BY <1>1, <5>2, <5>3 DEF Versions
      <4> QED BY <3>1, <3>2, <4>2, <4>3, AppliedPlain
    <3>5. WillAgree(D, c, y)'
      BY <1>3, <3>3, <3>4 DEF WillAgree
    <3>6. queue'[c] = Append(queue[c], u)
      BY <1>6, <2>4
    <3> QED BY <1>3, <3>2, <3>5, <3>6 DEF Chained
  <2> QED BY <2>3, <2>4
<1> QED BY <1>7, <1>8, <1>12, <1>13, <1>15, <1>16 DEF Inv

LEMMA PushDesiredKeeps ==
  ASSUME NEW D, Inv(D), NEW c \in Connections, PushDesired(c)
  PROVE  Inv(D)'
<1>1. Typed /\ Places /\ Versions(D) /\ Owed /\ Defaulted(D) /\ Chains(D)
  BY DEF Inv
<1>2. PICK v \in 0 .. merges, want \in Configs, u \in Configs :
        v = readAt[c] /\ want = D[v] /\ want = desired[c] /\ u = ToUpdate(want, legacy)
  <2>1. readAt[c] \in 0 .. merges /\ desired[c] = D[readAt[c]] /\ desired[c] \in Configs
    BY <1>1 DEF PushDesired, Versions, Typed
  <2>2. ToUpdate(desired[c], legacy) \in Configs
    BY <1>1, <2>1, UpdateTyped DEF Typed
  <2> QED BY <2>1, <2>2
<1>3. /\ reg[c] = "read" /\ reg' = [reg EXCEPT ![c] = "done"] /\ desired' = [desired EXCEPT ![c] = Nothing]
      /\ UNCHANGED <<override, session, phase, effective, target, legacy, closed, live, edge, merges, known, readAt>>
  BY DEF PushDesired, handlers
<1>4. Send(c, u, v)
  BY <1>2 DEF PushDesired
<1>5. v \in Nat /\ merges \in Nat
  BY <1>1 DEF Typed
<1>6. /\ closing \subseteq closing' /\ closing' \subseteq Connections /\ raced' \subseteq Connections
      /\ queue' \in [Connections -> Seq(Configs)] /\ newest' \in [Connections -> Nat]
      /\ \A d \in Connections : d # c =>
           queue'[d] = queue[d] /\ newest'[d] = newest[d] /\ (d \in raced' <=> d \in raced)
      /\ CanSend(c) => /\ queue'[c] = Append(queue[c], u)
                       /\ newest'[c] = IF v > newest[c] THEN v ELSE newest[c]
                       /\ c \in raced' <=> c \in raced \/ v < newest[c]
      /\ ~ CanSend(c) => ~ Open(c)' /\ UNCHANGED <<queue, newest, raced>>
  BY <1>1, <1>3, <1>4, <1>5, Sent
<1>7. /\ reg'[c] = "done" /\ \A d \in Connections : d # c => reg'[d] = reg[d] /\ desired'[d] = desired[d]
      /\ reg' \in [Connections -> {"none", "sent", "added", "read", "done"}]
      /\ desired' \in [Connections -> Configs]
  BY <1>1, <1>3, FieldsAre DEF Typed
<1>8. Typed'
  BY <1>1, <1>3, <1>6, <1>7 DEF Typed
<1>9. Places'
  <2>1. \A d \in Connections : (Connected(d) <=> Connected(d)') /\ (reg[d] # "none" <=> reg'[d] # "none")
    BY <1>3, <1>7 DEF Connected
  <2>2. session # 0 => Connected(session)'
    BY <1>1, <1>3, <2>1, ConnectionsAre DEF Places, Typed, Connected
  <2>3. \A r \in Requests : phase[r] = "found" => Connected(target[r])'
    BY <1>1, <1>3, <2>1, ConnectionsAre DEF Places, Typed, Connected
  <2>4. live # 0 => reg'[live] # "none"
    BY <1>1, <2>1, ConnectionsAre DEF Places, Typed
  <2>5. \A d \in Connections : reg'[d] \in {"none", "sent"} => queue'[d] = << >>
    BY <1>1, <1>6, <1>7 DEF Places
  <2> QED BY <1>1, <1>3, <2>1, <2>2, <2>3, <2>4, <2>5 DEF Places, Connected
<1>10. \A d \in Connections : Open(d)' => Open(d) /\ (d = c => CanSend(c))
  BY <1>3, <1>6 DEF Open
<1>11. \A d \in Connections : newest'[d] >= newest[d] /\ newest'[d] <= merges /\ newest[d] \in Nat /\ newest'[d] \in Nat
  <2> SUFFICES ASSUME NEW d \in Connections
               PROVE  newest'[d] >= newest[d] /\ newest'[d] <= merges /\ newest[d] \in Nat /\ newest'[d] \in Nat
    OBVIOUS
  <2>1. newest[d] \in Nat /\ newest[d] <= merges
    BY <1>1 DEF Versions, Typed
  <2>2. newest'[d] = newest[d] \/ (newest'[d] = v /\ v > newest[d])
    BY <1>6
  <2> QED BY <1>2, <1>5, <2>1, <2>2
<1>12. Versions(D)'
  <2>1. DesiredFor' = DesiredFor
    BY <1>3 DEF DesiredFor
  <2>2. \A d \in Connections : readAt'[d] <= merges' /\ newest'[d] <= merges'
    BY <1>1, <1>3, <1>11 DEF Versions
  <2>3. \A d \in Connections : reg'[d] = "read" => desired'[d] = D[readAt'[d]]
    BY <1>1, <1>3, <1>7 DEF Versions
  <2> QED BY <1>1, <1>3, <2>1, <2>2, <2>3 DEF Versions
<1>13. Owed'
  <2> SUFFICES ASSUME NEW d \in Connections, Open(d)', reg'[d] \in {"read", "done"}
               PROVE  /\ \A q \in Requests : known[q] > newest'[d] /\ known[q] > readAt[d] => Pending(q, d)
                      /\ reg'[d] = "done" => readAt[d] <= newest'[d]
    BY <1>3 DEF Owed, Pending
  <2>1. reg[d] \in {"read", "done"} /\ Open(d)
    BY <1>3, <1>7, <1>10
  <2>2. /\ \A q \in Requests : known[q] > newest[d] /\ known[q] > readAt[d] => Pending(q, d)
        /\ reg[d] = "done" => readAt[d] <= newest[d]
    BY <1>1, <2>1 DEF Owed
  <2>3. readAt[d] \in Nat /\ newest[d] \in Nat /\ newest'[d] \in Nat /\ newest'[d] >= newest[d]
        /\ \A q \in Requests : known[q] \in Nat
    BY <1>1, <1>11 DEF Typed
  <2>4. d = c => newest'[d] >= readAt[d]
    BY <1>2, <1>5, <1>6, <1>10, <2>3
  <2>5. reg'[d] = "done" => readAt[d] <= newest'[d]
    BY <1>7, <2>2, <2>3, <2>4
  <2> QED BY <2>2, <2>3, <2>5
<1>14. PlainUpdate(u, want)
  BY <1>1, <1>2, UpdateTyped DEF Typed, PlainUpdate, Effective
<1>15. Defaulted(D)'
  <2>1. \A d \in Connections : reg'[d] = "read" => reg[d] = "read"
    BY <1>7
  <2> QED BY <1>1, <1>2, <1>3, <1>4, <1>14, <2>1, SentDefaulted
<1>16. Chains(D)'
  <2> SUFFICES ASSUME NEW d \in Connections, live = d PROVE Chained(D, d)'
    BY <1>3 DEF Chains
  <2>1. PICK h, x : Leads(h, edge, queue[d]) /\ x = h[Len(queue[d])] /\ WillAgree(D, d, x)
    BY <1>1 DEF Chains, Chained
  <2>2. CASE d # c
    <3>1. WillAgree(D, d, x)'
      BY <1>3, <1>6, <1>7, <1>10, <2>1, <2>2 DEF WillAgree, Late, Pending
    <3> QED BY <1>3, <1>6, <2>1, <2>2, <3>1 DEF Chained
  <2>3. CASE d = c /\ ~ CanSend(c)
    <3>1. WillAgree(D, d, x)'
      BY <1>6, <1>7, <2>3 DEF WillAgree
    <3> QED BY <1>3, <1>6, <2>1, <2>3, <3>1 DEF Chained
  <2>4. CASE d = c /\ CanSend(c)
    <3>1. x \in Configs /\ edge \in Configs /\ queue[c] \in Seq(Configs)
      BY <1>1, <2>1, <2>4 DEF Leads, Typed
    <3>2. PICK g, y : Leads(g, edge, Append(queue[c], u)) /\ y = g[Len(Append(queue[c], u))] /\ y = AppliedTo(x, u)
      BY <2>1, <2>4, <3>1, LeadsFurther
    <3>3. ASSUME c \notin raced' PROVE Agrees(y, D[newest'[c]])
      <4>1. newest[c] <= v /\ newest'[c] = v
        BY <1>5, <1>6, <1>11, <2>4, <3>3
      <4>2. Plain(edge, D[v])
        BY <1>1, <1>2, <1>3, <2>4 DEF Defaulted
      <4>3. Plain(x, D[v])
        <5>1. v \in newest[c] .. merges
          BY <1>2, <1>5, <1>11, <4>1
        <5> QED BY <1>3, <2>1, <2>4, <4>2, <5>1 DEF WillAgree
      <4>4. CheckThresholdOrder(want) /\ legacy \in BOOLEAN
        BY <1>1, <1>2 DEF Versions, Typed
      <4>5. Agrees(y, want)
        BY <1>2, <3>1, <3>2, <4>3, <4>4, AllPushed
      <4> QED BY <1>2, <4>1, <4>5
    <3>4. WillAgree(D, c, y)'
      BY <1>7, <3>3 DEF WillAgree
    <3>5. queue'[c] = Append(queue[c], u)
      BY <1>6, <2>4
    <3> QED BY <1>3, <2>4, <3>2, <3>4, <3>5 DEF Chained
  <2> QED BY <2>2, <2>3, <2>4
<1> QED BY <1>8, <1>9, <1>12, <1>13, <1>15, <1>16 DEF Inv

-----------------------------------------------------------------------------
(* The theorems *)

LEMMA InvKept == IInv /\ [Next]_vars => IInv'
<1> SUFFICES ASSUME IInv, [Next]_vars PROVE IInv'
  OBVIOUS
<1>1. PICK D : Inv(D)
  BY DEF IInv
<1>2. ASSUME NEW r \in Requests, Merge(r) PROVE IInv'
  BY <1>1, <1>2, MergeKeeps
<1>3. ASSUME NEW r \in Requests, Refuse(r) \/ Lookup(r) \/ Push(r) PROVE Inv(D)'
  BY <1>1, <1>3, RefuseKeeps, LookupKeeps, PushKeeps
<1>4. ASSUME NEW c \in Connections, Register(c) \/ ReadDesired(c) \/ PushDesired(c) PROVE Inv(D)'
  BY <1>1, <1>4, RegisterKeeps, ReadKeeps, PushDesiredKeeps
<1>5. ASSUME NEW c \in Connections, TaskEnds(c) \/ Connect(c) \/ Deliver(c) PROVE Inv(D)'
  BY <1>1, <1>5, TaskEndsKeeps, ConnectKeeps, DeliverKeeps
<1>6. ASSUME Sweep \/ Lose \/ Restart PROVE Inv(D)'
  BY <1>1, <1>6, SweepKeeps, LoseKeeps, RestartKeeps
<1>7. ASSUME UNCHANGED vars PROVE Inv(D)'
  BY <1>1, <1>7, StutterKeeps
<1>8. Inv(D)' => IInv'
  BY DEF IInv
<1> QED BY <1>2, <1>3, <1>4, <1>5, <1>6, <1>7, <1>8 DEF Next

\* When nothing is on its way nothing newer is known either.
LEMMA SettledAgrees == IInv => EdgeAgrees
<1> SUFFICES ASSUME IInv, NEW c \in Connections \ raced, Settled(c), NEW f \in Fields, DesiredFor[f] # Unset
             PROVE  edge[f] = DesiredFor[f]
  BY DEF EdgeAgrees
<1>1. PICK D : Inv(D)
  BY DEF IInv
<1>2. Typed /\ Versions(D) /\ Owed /\ Chains(D)
  BY <1>1 DEF Inv
<1>3. Open(c) /\ reg[c] = "done" /\ live = c /\ queue[c] = << >> /\ \A r \in Requests : ~ Pending(r, c)
  BY DEF Settled, Open, Pending
<1>4. newest[c] = merges
  <2>1. newest[c] \in Nat /\ readAt[c] \in Nat /\ merges \in Nat /\ newest[c] <= merges /\ readAt[c] <= newest[c]
    BY <1>2, <1>3 DEF Typed, Versions, Owed
  <2> SUFFICES ASSUME newest[c] < merges PROVE FALSE
    BY <2>1
  <2>2. merges \in 1 .. merges
    BY <2>1
  <2>3. PICK r \in Requests : known[r] = merges
    BY <1>2, <2>2 DEF Versions
  <2>4. Pending(r, c)
    BY <1>2, <1>3, <2>1, <2>3 DEF Owed
  <2> QED BY <1>3, <2>4
<1>5. Agrees(edge, D[merges]) /\ D[merges] = DesiredFor
  <2>1. PICK h, x : Leads(h, edge, queue[c]) /\ x = h[Len(queue[c])] /\ WillAgree(D, c, x)
    BY <1>2, <1>3 DEF Chains, Chained
  <2>2. x = edge
    BY <1>3, <2>1 DEF Leads
  <2>3. ~ Late(c)
    BY <1>3 DEF Late
  <2> QED BY <1>2, <1>3, <1>4, <2>1, <2>2, <2>3 DEF WillAgree, Versions
<1> QED BY <1>5, FieldsAre DEF Agrees, Effective

\* Whatever mix of pushes, lost connections and restarts came before, a registered
\* edge with nothing on its way has what the hub desires, for any number of requests,
\* as long as the hub's file has its thresholds in order (push_edge_config_handler,
\* on_register).
THEOREM EdgesAgree ==
  ASSUME CheckThresholdOrder(Resolve)
  PROVE  Spec => []EdgeAgrees
<1>1. Init => IInv
  BY Initially
<1> QED BY <1>1, InvKept, SettledAgrees, PTL DEF Spec

\* Requests served at once keep the thresholds in order, if the hub's file has them
\* in order (try_merge_edge_override).
THEOREM DesiredStaysInOrder ==
  ASSUME CheckThresholdOrder(Resolve)
  PROVE  Spec => []DesiredInOrder
<1>1. Init => IInv
  BY Initially
<1>2. IInv => DesiredInOrder
  <2> SUFFICES ASSUME NEW D, Inv(D) PROVE DesiredInOrder
    BY DEF IInv
  <2>1. D[merges] = DesiredFor /\ merges \in 0 .. merges /\ CheckThresholdOrder(D[merges])
    BY DEF Inv, Versions, Typed
  <2> QED BY <2>1 DEF DesiredInOrder
<1> QED BY <1>1, <1>2, InvKept, PTL DEF Spec
=============================================================================
