---------------------------- MODULE HubLink_proofs ----------------------------
(***************************************************************************)
(* Proofs about HubLink: the types, that an alert or removal is in one     *)
(* place until it was flushed, and that what is written for the first time *)
(* is in order (KeptOnce, WritesInOrder); and, at the end, about SimEdge:  *)
(* what main's wait, the interval and the reports hold (SimulationHolds).  *)
(***************************************************************************)
EXTENDS HubLink, SimEdge, FiniteSetTheorems, SequenceTheorems, WellFoundedInduction, TLAPS

-----------------------------------------------------------------------------
(* The inductive invariant *)

\* A message is written for the first time after n only if it is not tied to come
\* before it: the orders of FirstWritesInOrder.
Tied(m, n) ==
  \/ m.kind = "alert" /\ n.kind = "alert"
  \/ m.kind = "removal" /\ n.kind = "status" /\ m.device = n.device
Follows(m, n) == m # n /\ (Tied(m, n) => n.id < m.id)

\* The messages of a sequence may leave in its order, those of T after those of S.
InOrder(s) == \A i, j \in 1 .. Len(s) : i < j => Follows(s[j], s[i])
Behind(T, S) == \A m \in T, n \in S : Follows(m, n)

\* Every message is one that was handed over, and its number tells when.
Known ==
  /\ IsFiniteSet(accepted)
  /\ \A m \in accepted : m.id <= Cardinality(accepted)
  /\ Stored \subseteq accepted \cup {Registration}
  /\ wrote \subseteq accepted /\ flushed \subseteq wrote

\* A channel and a batch belong to a session, which has a number of its own.
Sessions ==
  /\ client # "session" => rx = <<>> /\ ~ writing
  /\ ~ writing => inFlight = <<>>
  /\ ToSet(inFlight) \subseteq wrote
  /\ client = "session" => connection > 0
  /\ sender <= connection /\ greeted <= connection

\* The session the connector has not been told of.
Announced ==
  {k \in 1 .. Len(mailbox) : mailbox[k].type = "connected" /\ mailbox[k].connection = connection}

\* A session is used once it was announced, and was announced once what the ones
\* before it left unsent has been handled.
Announcements ==
  /\ \A k \in 1 .. Len(mailbox) :
       mailbox[k].type = "connected" => mailbox[k].connection <= connection
  /\ client = "session" /\ (sender = connection \/ rx # <<>> \/ writing \/ greeted = connection)
       => Unsent = {} /\ Announced = {}
  /\ client = "session" => \A k \in Announced, i \in Unsent : i < k
  /\ \A k, l \in Announced : k = l

\* What is written to a session begins with its registration.
Greets ==
  client = "session" /\ (sender = connection \/ rx # <<>>)
    => greeted = connection \/ (rx # <<>> /\ Head(rx) = Registration)

\* The line of messages on their way: batch, channel or what came back unsent, buffer.
Line == ToSet(inFlight) \cup ToSet(rx) \cup HandedBack \cup ToSet(buffer)
Lined ==
  /\ client = "session" /\ sender = connection => buffer = <<>>
  /\ \A i, j \in Unsent : i < j => mailbox[j].unsent = <<>>
  /\ InOrder(inFlight) /\ InOrder(rx) /\ InOrder(buffer)
  /\ \A i \in Unsent : InOrder(mailbox[i].unsent)
  /\ Behind(ToSet(rx), ToSet(inFlight))
  /\ Behind(ToSet(buffer), ToSet(inFlight) \cup ToSet(rx) \cup HandedBack)

\* What left before, and what waits for the protocol.
Left ==
  /\ flushed \cap Line = {}
  /\ \A m \in Line \ wrote, n \in wrote : Follows(m, n)
Held ==
  /\ InOrder(pendingRemovals)
  /\ ToSet(pendingRemovals) \cap (Line \cup wrote) = {}
  /\ \A m \in ToSet(pendingRemovals) : m.kind = "removal"
  /\ Behind(ToSet(pendingRemovals), {n \in accepted : n.kind = "status"})

Linked ==
  /\ Known /\ Sessions /\ Announcements /\ Greets
  /\ Lined /\ Left /\ Held /\ KeptUntilFlushed
-----------------------------------------------------------------------------
(* Induction over positions *)

\* A nonempty set of naturals has a least element.
LEMMA LeastNat ==
  ASSUME NEW T \in SUBSET Nat, T # {}
  PROVE  \E m \in T : \A n \in T : m <= n
<1> DEFINE Below == {0 .. (n - 1) : n \in T}
           R == StrictSubsetOrdering(Nat)
<1>1. IsWellFoundedOn(R, FiniteSubsetsOf(Nat))
  BY FS_StrictSubsetOrderingWellFounded
<1>2. Below \subseteq FiniteSubsetsOf(Nat) /\ Below # {}
  <2>1. ASSUME NEW n \in T PROVE 0 .. (n - 1) \in FiniteSubsetsOf(Nat)
    <3>1. IsFiniteSet(0 .. (n - 1))
      BY FS_Interval
    <3> QED BY <3>1 DEF FiniteSubsetsOf
  <2> QED BY <2>1
<1> HIDE DEF Below, R
<1>3. PICK x \in Below : \A y \in Below : ~ (<<y, x>> \in R)
  BY <1>1, <1>2, WFMin
<1>4. PICK m \in T : x = 0 .. (m - 1)
  BY DEF Below
<1>5. ASSUME NEW n \in T, ~ (m <= n) PROVE FALSE
  <2>1. 0 .. (n - 1) \in Below
    BY DEF Below
  <2>2. /\ 0 .. (n - 1) \subseteq Nat /\ x \subseteq Nat /\ 0 .. (n - 1) \subseteq x
        /\ n \in x /\ n \notin 0 .. (n - 1)
    BY <1>4, <1>5
  <2>3. <<0 .. (n - 1), x>> \in R
    BY <2>2 DEF R, StrictSubsetOrdering
  <2> QED BY <1>3, <2>1, <2>3
<1> QED BY <1>5

\* Induction, of a set instead of a predicate: T has every number up to N.
LEMMA UpTo ==
  ASSUME NEW N \in Nat, NEW T, 0 \in T, \A n \in 0 .. (N - 1) : n \in T => n + 1 \in T
  PROVE  \A n \in 0 .. N : n \in T
<1> SUFFICES ASSUME NEW k \in 0 .. N, k \notin T PROVE FALSE
  OBVIOUS
<1> DEFINE Missed == {n \in 0 .. N : n \notin T}
<1>1. PICK m \in Missed : \A n \in Missed : m <= n
  <2>1. Missed \subseteq Nat /\ Missed # {}
    OBVIOUS
  <2> HIDE DEF Missed
  <2> QED BY <2>1, LeastNat
<1>2. m # 0 /\ m - 1 \in 0 .. (N - 1) /\ m - 1 \notin Missed
  BY <1>1
<1>3. m - 1 \in T /\ (m - 1) + 1 = m
  BY <1>2
<1> QED BY <1>1, <1>2, <1>3

-----------------------------------------------------------------------------
(* Sequences in order *)

\* What ToSet says of an element and of a position.
LEMMA SetOf ==
  ASSUME NEW F, NEW s \in Seq(F)
  PROVE  /\ \A i \in 1 .. Len(s) : s[i] \in ToSet(s)
         /\ \A m \in ToSet(s) : m \in F /\ \E i \in 1 .. Len(s) : s[i] = m
         /\ s \in Seq(ToSet(s))
<1>1. DOMAIN s = 1 .. Len(s) /\ \A i \in 1 .. Len(s) : s[i] \in F
  OBVIOUS
<1>2. \A i \in 1 .. Len(s) : s[i] \in ToSet(s)
  BY <1>1 DEF ToSet
<1>3. \A m \in ToSet(s) : m \in F /\ \E i \in 1 .. Len(s) : s[i] = m
  BY <1>1 DEF ToSet
<1>4. s \in [1 .. Len(s) -> ToSet(s)] /\ Len(s) \in Nat
  BY <1>2
<1> QED BY <1>2, <1>3, <1>4, SeqDef

LEMMA EmptyInOrder == InOrder(<<>>) /\ ToSet(<<>>) = {}
  BY DEF InOrder, ToSet

LEMMA OneInOrder ==
  ASSUME NEW m
  PROVE  InOrder(<<m>>) /\ ToSet(<<m>>) = {m}
  BY DEF InOrder, ToSet

\* A sequence in order has no message twice.
LEMMA InOrderInjective ==
  ASSUME NEW F, NEW s \in Seq(F), InOrder(s)
  PROVE  IsInjective(s)
<1>1. \A i, j \in 1 .. Len(s) : i < j => s[j] # s[i]
  BY DEF InOrder, Follows
<1>2. \A i, j \in 1 .. Len(s) : s[i] = s[j] => i = j
  BY <1>1
<1> QED BY <1>2 DEF IsInjective

\* Two sequences in order, the second behind the first.
LEMMA ConcatInOrder ==
  ASSUME NEW F, NEW s \in Seq(F), NEW t \in Seq(F)
  PROVE  /\ s \o t \in Seq(F)
         /\ ToSet(s \o t) = ToSet(s) \cup ToSet(t)
         /\ InOrder(s) /\ InOrder(t) /\ Behind(ToSet(t), ToSet(s)) => InOrder(s \o t)
<1> DEFINE u == s \o t
<1>1. /\ u \in Seq(F) /\ Len(u) = Len(s) + Len(t) /\ Len(s) \in Nat /\ Len(t) \in Nat
      /\ \A i \in 1 .. Len(s) : u[i] = s[i]
      /\ \A i \in 1 .. Len(t) : u[Len(s) + i] = t[i]
  OBVIOUS
<1> HIDE DEF u
<1>2. \A k \in 1 .. Len(u) :
        \/ k \in 1 .. Len(s) /\ u[k] = s[k]
        \/ k - Len(s) \in 1 .. Len(t) /\ u[k] = t[k - Len(s)]
  <2> SUFFICES ASSUME NEW k \in 1 .. Len(u), ~ (k \in 1 .. Len(s))
               PROVE  k - Len(s) \in 1 .. Len(t) /\ u[k] = t[k - Len(s)]
    BY <1>1
  <2>1. k - Len(s) \in 1 .. Len(t) /\ Len(s) + (k - Len(s)) = k
    BY <1>1
  <2> QED BY <1>1, <2>1
<1>3. ToSet(u) = ToSet(s) \cup ToSet(t)
  <2>1. ASSUME NEW m \in ToSet(u) PROVE m \in ToSet(s) \cup ToSet(t)
    <3>1. PICK k \in 1 .. Len(u) : u[k] = m
      BY <1>1, <2>1 DEF ToSet
    <3>2. CASE k \in 1 .. Len(s) /\ u[k] = s[k]
      BY <3>1, <3>2, SetOf
    <3>3. CASE k - Len(s) \in 1 .. Len(t) /\ u[k] = t[k - Len(s)]
      BY <3>1, <3>3, SetOf
    <3> QED BY <1>2, <3>2, <3>3
  <2>2. ASSUME NEW m \in ToSet(s) PROVE m \in ToSet(u)
    <3>1. PICK i \in 1 .. Len(s) : s[i] = m
      BY SetOf
    <3>2. i \in 1 .. Len(u) /\ u[i] = m
      BY <1>1, <3>1
    <3> QED BY <1>1, <3>2, SetOf
  <2>3. ASSUME NEW m \in ToSet(t) PROVE m \in ToSet(u)
    <3>1. PICK i \in 1 .. Len(t) : t[i] = m
      BY SetOf
    <3>2. Len(s) + i \in 1 .. Len(u)
      BY <1>1
    <3>3. u[Len(s) + i] = m
      BY <1>1, <3>1
    <3> QED BY <1>1, <3>2, <3>3, SetOf
  <2> QED BY <2>1, <2>2, <2>3
<1>4. ASSUME InOrder(s), InOrder(t), Behind(ToSet(t), ToSet(s)) PROVE InOrder(u)
  <2> SUFFICES ASSUME NEW i \in 1 .. Len(u), NEW j \in 1 .. Len(u), i < j
               PROVE  Follows(u[j], u[i])
    BY DEF InOrder
  <2>1. CASE j \in 1 .. Len(s)
    BY <1>1, <1>4, <2>1 DEF InOrder
  <2>2. CASE i \notin 1 .. Len(s)
    <3>1. /\ i - Len(s) \in 1 .. Len(t) /\ j - Len(s) \in 1 .. Len(t) /\ i - Len(s) < j - Len(s)
          /\ u[i] = t[i - Len(s)] /\ u[j] = t[j - Len(s)]
      BY <1>1, <1>2, <2>2
    <3> QED BY <1>4, <3>1 DEF InOrder
  <2>3. CASE i \in 1 .. Len(s) /\ j \notin 1 .. Len(s)
    <3>1. u[i] \in ToSet(s) /\ u[j] \in ToSet(t)
      BY <1>1, <1>2, <2>3, SetOf
    <3> QED BY <1>4, <3>1 DEF Behind
  <2> QED BY <1>1, <2>1, <2>2, <2>3
<1> QED BY <1>1, <1>3, <1>4 DEF u

\* A sequence in order without its first message.
LEMMA TailInOrder ==
  ASSUME NEW F, NEW s \in Seq(F), s # <<>>
  PROVE  /\ Head(s) \in F /\ Tail(s) \in Seq(F)
         /\ ToSet(s) = {Head(s)} \cup ToSet(Tail(s))
         /\ InOrder(s) => InOrder(Tail(s)) /\ Behind(ToSet(Tail(s)), {Head(s)})
<1>1. /\ Head(s) = s[1] /\ Len(s) \in Nat /\ Len(s) > 0 /\ Tail(s) \in Seq(F)
      /\ Len(Tail(s)) = Len(s) - 1 /\ \A i \in 1 .. Len(Tail(s)) : Tail(s)[i] = s[i + 1]
  OBVIOUS
<1>2. s[1] \in F /\ s[1] \in ToSet(s)
  BY <1>1, SetOf
<1>3. ToSet(s) = {s[1]} \cup ToSet(Tail(s))
  <2>1. ASSUME NEW m \in ToSet(s), m # s[1] PROVE m \in ToSet(Tail(s))
    <3>1. PICK i \in 1 .. Len(s) : s[i] = m
      BY SetOf
    <3>2. i - 1 \in 1 .. Len(Tail(s)) /\ Tail(s)[i - 1] = m
      BY <1>1, <2>1, <3>1
    <3> QED BY <1>1, <3>2, SetOf
  <2>2. ASSUME NEW m \in ToSet(Tail(s)) PROVE m \in ToSet(s)
    <3>1. PICK i \in 1 .. Len(Tail(s)) : Tail(s)[i] = m
      BY <1>1, <2>2 DEF ToSet
    <3>2. i + 1 \in 1 .. Len(s) /\ s[i + 1] = m
      BY <1>1, <3>1
    <3> QED BY <3>2, SetOf
  <2> QED BY <1>2, <2>1, <2>2
<1>4. ASSUME InOrder(s) PROVE InOrder(Tail(s)) /\ Behind(ToSet(Tail(s)), {s[1]})
  <2>1. ASSUME NEW i \in 1 .. Len(Tail(s)), NEW j \in 1 .. Len(Tail(s)), i < j
        PROVE  Follows(Tail(s)[j], Tail(s)[i])
    <3>1. /\ i + 1 \in 1 .. Len(s) /\ j + 1 \in 1 .. Len(s) /\ i + 1 < j + 1
          /\ Tail(s)[i] = s[i + 1] /\ Tail(s)[j] = s[j + 1]
      BY <1>1, <2>1
    <3> QED BY <1>4, <3>1 DEF InOrder
  <2>2. ASSUME NEW m \in ToSet(Tail(s)) PROVE Follows(m, s[1])
    <3>1. PICK i \in 1 .. Len(Tail(s)) : Tail(s)[i] = m
      BY <1>1, <2>2 DEF ToSet
    <3>2. 1 \in 1 .. Len(s) /\ i + 1 \in 1 .. Len(s) /\ 1 < i + 1 /\ s[i + 1] = m
      BY <1>1, <3>1
    <3> QED BY <1>4, <3>2 DEF InOrder
  <2> QED BY <2>1, <2>2 DEF InOrder, Behind
<1> QED BY <1>1, <1>2, <1>3, <1>4

\* A sequence in order without one of its messages.
LEMMA RemovedInOrder ==
  ASSUME NEW F, NEW s \in Seq(F), NEW v \in 1 .. Len(s)
  PROVE  /\ RemoveAt(s, v) \in Seq(F)
         /\ ToSet(RemoveAt(s, v)) \subseteq ToSet(s)
         /\ InOrder(s) => InOrder(RemoveAt(s, v))
<1> DEFINE a == SubSeq(s, 1, v - 1)
           b == SubSeq(s, v + 1, Len(s))
<1>1. /\ a \in Seq(F) /\ Len(a) = v - 1 /\ \A i \in 1 .. (v - 1) : a[i] = s[i]
      /\ b \in Seq(F) /\ Len(b) = Len(s) - v /\ \A i \in 1 .. (Len(s) - v) : b[i] = s[v + i]
  OBVIOUS
<1> HIDE DEF a, b
<1>2. \A m \in ToSet(a) : \E i \in 1 .. (v - 1) : s[i] = m
  <2> SUFFICES ASSUME NEW m \in ToSet(a) PROVE \E i \in 1 .. (v - 1) : s[i] = m
    OBVIOUS
  <2>1. PICK i \in 1 .. Len(a) : a[i] = m
    BY <1>1, SetOf
  <2> QED BY <1>1, <2>1
<1>3. \A m \in ToSet(b) : \E i \in (v + 1) .. Len(s) : s[i] = m
  <2> SUFFICES ASSUME NEW m \in ToSet(b) PROVE \E i \in (v + 1) .. Len(s) : s[i] = m
    OBVIOUS
  <2>1. PICK i \in 1 .. Len(b) : b[i] = m
    BY <1>1, SetOf
  <2>2. v + i \in (v + 1) .. Len(s) /\ s[v + i] = m
    BY <1>1, <2>1
  <2> QED BY <2>2
<1>4. ToSet(a) \subseteq ToSet(s) /\ ToSet(b) \subseteq ToSet(s)
  <2>1. \A i \in 1 .. Len(s) : s[i] \in ToSet(s)
    BY SetOf
  <2>2. Len(s) \in Nat /\ 1 .. (v - 1) \subseteq 1 .. Len(s) /\ (v + 1) .. Len(s) \subseteq 1 .. Len(s)
    OBVIOUS
  <2> QED BY <1>2, <1>3, <2>1, <2>2
<1>5. ASSUME InOrder(s) PROVE InOrder(a) /\ InOrder(b) /\ Behind(ToSet(b), ToSet(a))
  <2>1. InOrder(a)
    <3> SUFFICES ASSUME NEW i \in 1 .. Len(a), NEW j \in 1 .. Len(a), i < j
                 PROVE  Follows(a[j], a[i])
      BY DEF InOrder
    <3>1. i \in 1 .. Len(s) /\ j \in 1 .. Len(s) /\ a[i] = s[i] /\ a[j] = s[j]
      BY <1>1
    <3> QED BY <1>5, <3>1 DEF InOrder
  <2>2. InOrder(b)
    <3> SUFFICES ASSUME NEW i \in 1 .. Len(b), NEW j \in 1 .. Len(b), i < j
                 PROVE  Follows(b[j], b[i])
      BY DEF InOrder
    <3>1. /\ v + i \in 1 .. Len(s) /\ v + j \in 1 .. Len(s) /\ v + i < v + j
          /\ b[i] = s[v + i] /\ b[j] = s[v + j]
      BY <1>1
    <3> QED BY <1>5, <3>1 DEF InOrder
  <2>3. Behind(ToSet(b), ToSet(a))
    <3> SUFFICES ASSUME NEW m \in ToSet(b), NEW n \in ToSet(a) PROVE Follows(m, n)
      BY DEF Behind
    <3>1. PICK i \in 1 .. (v - 1), j \in (v + 1) .. Len(s) : s[i] = n /\ s[j] = m
      BY <1>2, <1>3
    <3>2. i \in 1 .. Len(s) /\ j \in 1 .. Len(s) /\ i < j
      BY <3>1
    <3> QED BY <1>5, <3>1, <3>2 DEF InOrder
  <2> QED BY <2>1, <2>2, <2>3
<1>6. RemoveAt(s, v) = a \o b
  BY DEF RemoveAt, a, b
<1> QED BY <1>1, <1>4, <1>5, <1>6, ConcatInOrder

\* The values reached from a by N steps.
Reaches(f, N, A, a, step) ==
  f \in [0 .. N -> A] /\ f[0] = a /\ \A i \in 1 .. N : f[i] = step[<<i, f[i - 1]>>]

LEMMA Iterates ==
  ASSUME NEW N \in Nat, NEW A, NEW a \in A, NEW step, step \in [(1 .. N) \X A -> A]
  PROVE  \E f : Reaches(f, N, A, a, step)
<1> DEFINE Is(f, n) == /\ f \in [0 .. n -> A] /\ f[0] = a
                       /\ \A i \in 1 .. n : f[i] = step[<<i, f[i - 1]>>]
           T == {n \in 0 .. N : \E f : Is(f, n)}
<1>1. 0 \in T
  <2>1. Is([i \in 0 .. 0 |-> a], 0)
    OBVIOUS
  <2> HIDE DEF Is
  <2> QED BY <2>1
<1>2. ASSUME NEW n \in 0 .. (N - 1), n \in T PROVE n + 1 \in T
  <2>1. PICK f : Is(f, n)
    BY <1>2
  <2> DEFINE last == step[<<n + 1, f[n]>>]
             g == [i \in 0 .. (n + 1) |-> IF i = n + 1 THEN last ELSE f[i]]
  <2>2. f[n] \in A /\ n + 1 \in 1 .. N
    BY <2>1
  <2>3. last \in A
    BY <2>2
  <2>4. last = step[<<n + 1, f[n]>>]
    OBVIOUS
  <2> HIDE DEF last
  <2>5. g \in [0 .. (n + 1) -> A] /\ g[0] = a
    BY <2>1, <2>3
  <2>6. ASSUME NEW i \in 1 .. (n + 1) PROVE g[i] = step[<<i, g[i - 1]>>]
    <3>1. CASE i = n + 1
      <4>1. g[i] = last /\ g[i - 1] = f[n]
        BY <3>1
      <4> QED BY <2>4, <3>1, <4>1
    <3>2. CASE i # n + 1
      <4>1. i \in 1 .. n /\ g[i] = f[i] /\ g[i - 1] = f[i - 1]
        BY <3>2
      <4> QED BY <2>1, <4>1
    <3> QED BY <3>1, <3>2
  <2>7. Is(g, n + 1)
    BY <2>5, <2>6
  <2>8. n + 1 \in 0 .. N
    OBVIOUS
  <2> QED BY <2>7, <2>8
<1>3. N \in T
  <2> HIDE DEF T
  <2>1. \A n \in 0 .. N : n \in T
    BY <1>1, <1>2, UpTo
  <2> QED BY <2>1
<1>4. PICK f : Is(f, N)
  BY <1>3
<1> QED BY <1>4 DEF Reaches

\* Only keeps the messages of T, in their order.
LEMMA OnlyInOrder ==
  ASSUME NEW F, NEW s \in Seq(F), NEW T
  PROVE  /\ Only(s, T) \in Seq(F)
         /\ ToSet(Only(s, T)) = ToSet(s) \cap T
         /\ InOrder(s) => InOrder(Only(s, T))
<1> DEFINE N == Len(s)
           step == [p \in (1 .. N) \X Seq(F) |->
                      IF s[p[1]] \in T THEN Append(p[2], s[p[1]]) ELSE p[2]]
           Is(f) == f = [i \in 0 .. Len(s) |->
                           IF i = 0 THEN <<>>
                           ELSE IF s[i] \in T THEN Append(f[i - 1], s[i]) ELSE f[i - 1]]
           kept == CHOOSE f : Is(f)
<1>1. N \in Nat /\ \A i \in 1 .. N : s[i] \in F
  OBVIOUS
<1>2. \E f : Is(f)
  <2>1. step \in [(1 .. N) \X Seq(F) -> Seq(F)]
    BY <1>1
  <2>2. <<>> \in Seq(F)
    OBVIOUS
  <2>3. \A i \in 1 .. N, q \in Seq(F) : step[<<i, q>>] = IF s[i] \in T THEN Append(q, s[i]) ELSE q
    OBVIOUS
  <2> HIDE DEF step
  <2>4. PICK f : Reaches(f, N, Seq(F), <<>>, step)
    BY <1>1, <2>1, <2>2, Iterates
  <2>5. f \in [0 .. N -> Seq(F)] /\ f[0] = <<>> /\ \A i \in 1 .. N : f[i] = step[<<i, f[i - 1]>>]
    BY <2>4 DEF Reaches
  <2>6. ASSUME NEW i \in 0 .. N
        PROVE  f[i] = IF i = 0 THEN <<>>
                      ELSE IF s[i] \in T THEN Append(f[i - 1], s[i]) ELSE f[i - 1]
    <3>1. CASE i = 0
      BY <2>5, <3>1
    <3>2. CASE i # 0
      <4>1. i \in 1 .. N /\ i - 1 \in 0 .. N
        BY <1>1, <3>2
      <4>2. f[i] = step[<<i, f[i - 1]>>] /\ f[i - 1] \in Seq(F)
        BY <2>5, <3>2, <4>1
      <4> QED BY <2>3, <3>2, <4>1, <4>2
    <3> QED BY <3>1, <3>2
  <2>7. DOMAIN f = 0 .. Len(s) /\ f = [i \in DOMAIN f |-> f[i]]
    BY <2>5
  <2>8. Is(f)
    BY <2>6, <2>7
  <2> QED BY <2>8
<1>3. Is(kept)
  BY <1>2
<1>4. Only(s, T) = kept[N]
  BY DEF Only
<1> HIDE DEF kept
<1>5. kept[0] = <<>>
  BY <1>1, <1>3
<1>6. \A i \in 1 .. N : kept[i] = IF s[i] \in T THEN Append(kept[i - 1], s[i]) ELSE kept[i - 1]
  <2> SUFFICES ASSUME NEW i \in 1 .. N
               PROVE  kept[i] = IF s[i] \in T THEN Append(kept[i - 1], s[i]) ELSE kept[i - 1]
    OBVIOUS
  <2>1. i \in 0 .. Len(s) /\ i # 0
    BY <1>1
  <2>2. kept[i] = IF i = 0 THEN <<>>
                  ELSE IF s[i] \in T THEN Append(kept[i - 1], s[i]) ELSE kept[i - 1]
    BY <1>3, <2>1, Zenon
  <2> QED BY <2>1, <2>2, Zenon
<1> DEFINE First(n) == {s[i] : i \in 1 .. n}
           Good == {n \in 0 .. N : /\ kept[n] \in Seq(F)
                                   /\ ToSet(kept[n]) = First(n) \cap T
                                   /\ InOrder(s) => InOrder(kept[n])}
<1>7. 0 \in Good
  <2>1. First(0) = {} /\ 0 \in 0 .. N
    BY <1>1
  <2>2. kept[0] \in Seq(F)
    BY <1>5
  <2> HIDE DEF First
  <2> QED BY <1>5, <2>1, <2>2, EmptyInOrder
<1>8. ASSUME NEW n \in 0 .. (N - 1), n \in Good PROVE n + 1 \in Good
  <2> DEFINE m == s[n + 1]
  <2>1. /\ n + 1 \in 1 .. N /\ n + 1 \in 0 .. N /\ (n + 1) - 1 = n
        /\ m \in F /\ First(n + 1) = First(n) \cup {m}
    BY <1>1
  <2>2. kept[n + 1] = IF m \in T THEN Append(kept[n], m) ELSE kept[n]
    BY <1>6, <2>1
  <2>3. kept[n] \in Seq(F) /\ ToSet(kept[n]) = First(n) \cap T /\ (InOrder(s) => InOrder(kept[n]))
    BY <1>8
  <2>4. CASE m \notin T
    BY <2>1, <2>2, <2>3, <2>4
  <2>5. CASE m \in T
    <3>1. kept[n + 1] = kept[n] \o <<m>> /\ <<m>> \in Seq(F)
      BY <2>1, <2>2, <2>3, <2>5
    <3>2. InOrder(s) => Behind({m}, First(n))
      <4> SUFFICES ASSUME InOrder(s), NEW i \in 1 .. n PROVE Follows(m, s[i])
        BY DEF Behind
      <4>1. i \in 1 .. Len(s) /\ n + 1 \in 1 .. Len(s) /\ i < n + 1
        BY <1>1, <2>1
      <4> QED BY <4>1 DEF InOrder
    <3>3. InOrder(s) => Behind(ToSet(<<m>>), ToSet(kept[n]))
      BY <2>3, <3>2, OneInOrder DEF Behind
    <3>4. /\ kept[n + 1] \in Seq(F)
          /\ ToSet(kept[n + 1]) = ToSet(kept[n]) \cup {m}
          /\ InOrder(s) => InOrder(kept[n + 1])
      <4> DEFINE k == kept[n]
                 l == <<m>>
      <4> HIDE DEF k, l, m
      <4>1. k \in Seq(F) /\ l \in Seq(F) /\ kept[n + 1] = k \o l
        BY <2>3, <3>1 DEF k, l
      <4>2. ToSet(l) = {m} /\ InOrder(l)
        BY OneInOrder DEF l
      <4>3. InOrder(s) => InOrder(k) /\ Behind(ToSet(l), ToSet(k))
        BY <2>3, <3>3 DEF k, l
      <4>4. ToSet(k \o l) = ToSet(k) \cup ToSet(l) /\ k \o l \in Seq(F)
        BY <4>1, ConcatInOrder
      <4>5. InOrder(s) => InOrder(k \o l)
        BY <4>1, <4>2, <4>3, ConcatInOrder, Zenon
      <4> QED BY <4>1, <4>2, <4>4, <4>5 DEF k
    <3>5. First(n + 1) \cap T = (First(n) \cap T) \cup {m}
      BY <2>1, <2>5
    <3> HIDE DEF First, m
    <3> QED BY <2>1, <2>3, <3>4, <3>5
  <2> QED BY <2>4, <2>5
<1>9. N \in Good
  <2> HIDE DEF Good, N
  <2>1. \A n \in 0 .. N : n \in Good
    BY <1>1, <1>7, <1>8, UpTo
  <2> QED BY <1>1, <2>1
<1>10. First(N) = ToSet(s)
  BY DEF ToSet
<1> QED BY <1>4, <1>9, <1>10

\* A full buffer has a message to give up.
LEMMA VictimExists ==
  ASSUME NEW F, NEW s \in Seq(F), Len(s) > 0
  PROVE  Victim(s) \in 1 .. Len(s)
<1> DEFINE D == {i \in 1 .. Len(s) : IsDroppable(s[i])}
           IsVictim(i) == \A j \in DOMAIN s :
                            IF IsDroppable(s[j]) THEN IsDroppable(s[i]) /\ i <= j
                                                 ELSE IsDroppable(s[i]) \/ i <= j
<1>1. DOMAIN s = 1 .. Len(s) /\ Len(s) \in Nat
  OBVIOUS
<1>2. \E i \in DOMAIN s : IsVictim(i)
  <2>1. CASE D = {}
    BY <1>1, <2>1
  <2>2. CASE D # {}
    <3>1. PICK i \in D : \A j \in D : i <= j
      <4>1. D \subseteq Nat
        BY <1>1
      <4> HIDE DEF D
      <4> QED BY <2>2, <4>1, LeastNat
    <3> QED BY <1>1, <3>1
  <2> QED BY <2>1, <2>2
<1>3. Victim(s) = CHOOSE i \in DOMAIN s : IsVictim(i)
  BY DEF Victim
<1> HIDE DEF IsVictim
<1> QED BY <1>1, <1>2, <1>3

\* Enforcing the limits keeps the order of what stays.
LEMMA EnforcedInOrder ==
  ASSUME NEW F, NEW s \in Seq(F)
  PROVE  /\ Enforced(s) \in Seq(F)
         /\ ToSet(Enforced(s)) \subseteq ToSet(s)
         /\ InOrder(s) => InOrder(Enforced(s))
<1> DEFINE N == Len(s)
           S == Seq(ToSet(s))
           relieved == [t \in Seq(ToSet(s)) |->
                          IF t # <<>> /\ OverLimit(t) THEN RemoveAt(t, Victim(t)) ELSE t]
           Is(f) == f = [n \in 0 .. Len(s) |-> IF n = 0 THEN s ELSE relieved[f[n - 1]]]
           rest == CHOOSE f : Is(f)
<1>1. N \in Nat /\ s \in S
  BY SetOf
<1>2. Enforced(s) = rest[N]
  BY DEF Enforced
<1>3. ASSUME NEW t \in S
      PROVE  /\ relieved[t] \in S
             /\ InOrder(t) => InOrder(relieved[t])
  <2>1. relieved[t] = IF t # <<>> /\ OverLimit(t) THEN RemoveAt(t, Victim(t)) ELSE t
    OBVIOUS
  <2>2. CASE OverLimit(t) /\ t # <<>>
    <3>1. Victim(t) \in 1 .. Len(t)
      <4>1. Len(t) > 0
        BY <2>2
      <4> QED BY <4>1, VictimExists
    <3> QED BY <2>1, <2>2, <3>1, RemovedInOrder
  <2>3. CASE t = <<>>
    BY <2>1, <2>3
  <2>4. CASE ~ OverLimit(t)
    BY <2>1, <2>4
  <2> QED BY <2>2, <2>3, <2>4
<1>4. relieved \in [S -> S]
  BY <1>3
<1> HIDE DEF relieved
<1>5. \E f : Is(f)
  <2> DEFINE step == [p \in (1 .. N) \X S |-> relieved[p[2]]]
  <2>1. step \in [(1 .. N) \X S -> S]
    BY <1>4
  <2>2. \A i \in 1 .. N, q \in S : step[<<i, q>>] = relieved[q]
    OBVIOUS
  <2> HIDE DEF step
  <2>3. PICK f : Reaches(f, N, S, s, step)
    BY <1>1, <2>1, Iterates
  <2>4. f \in [0 .. N -> S] /\ f[0] = s /\ \A i \in 1 .. N : f[i] = step[<<i, f[i - 1]>>]
    BY <2>3 DEF Reaches
  <2>5. ASSUME NEW i \in 0 .. N PROVE f[i] = IF i = 0 THEN s ELSE relieved[f[i - 1]]
    <3>1. CASE i = 0
      BY <2>4, <3>1
    <3>2. CASE i # 0
      <4>1. i \in 1 .. N /\ i - 1 \in 0 .. N
        BY <1>1, <3>2
      <4> HIDE DEF N, S
      <4> QED BY <2>2, <2>4, <3>2, <4>1
    <3> QED BY <3>1, <3>2
  <2>6. DOMAIN f = 0 .. Len(s) /\ f = [i \in DOMAIN f |-> f[i]]
    BY <2>4
  <2>7. Is(f)
    BY <2>5, <2>6
  <2> QED BY <2>7
<1>6. Is(rest)
  BY <1>5
<1> HIDE DEF rest
<1>7. rest[0] = s /\ \A i \in 1 .. N : rest[i] = relieved[rest[i - 1]]
  <2>1. rest[0] = s
    BY <1>1, <1>6
  <2>2. ASSUME NEW i \in 1 .. N PROVE rest[i] = relieved[rest[i - 1]]
    <3>1. i \in 0 .. Len(s) /\ i # 0
      BY <1>1
    <3>2. rest[i] = IF i = 0 THEN s ELSE relieved[rest[i - 1]]
      BY <1>6, <3>1, Zenon
    <3> QED BY <3>1, <3>2, Zenon
  <2> QED BY <2>1, <2>2
<1> DEFINE Good == {n \in 0 .. N : rest[n] \in S /\ (InOrder(s) => InOrder(rest[n]))}
<1>8. 0 \in Good
  BY <1>1, <1>7
<1>9. ASSUME NEW n \in 0 .. (N - 1), n \in Good PROVE n + 1 \in Good
  <2>1. n + 1 \in 1 .. N /\ n + 1 \in 0 .. N /\ (n + 1) - 1 = n
    BY <1>1
  <2>2. rest[n] \in S /\ (InOrder(s) => InOrder(rest[n])) /\ rest[n + 1] = relieved[rest[n]]
    BY <1>7, <1>9, <2>1
  <2> HIDE DEF S, N
  <2>3. rest[n + 1] \in S /\ (InOrder(s) => InOrder(rest[n + 1]))
    BY <1>3, <2>2
  <2> QED BY <2>1, <2>3
<1>10. N \in Good
  <2> HIDE DEF Good, N
  <2>1. \A n \in 0 .. N : n \in Good
    BY <1>1, <1>8, <1>9, UpTo
  <2> QED BY <1>1, <2>1
<1>11. rest[N] \in S /\ (InOrder(s) => InOrder(rest[N]))
  BY <1>10
<1>12. \A t \in S : t \in Seq(F) /\ ToSet(t) \subseteq ToSet(s)
  <2> SUFFICES ASSUME NEW t \in S PROVE t \in Seq(F) /\ ToSet(t) \subseteq ToSet(s)
    OBVIOUS
  <2>1. ToSet(s) \subseteq F
    BY SetOf
  <2>2. t \in Seq(F)
    BY <2>1
  <2> QED BY <2>2, SetOf
<1> HIDE DEF N, S
<1> QED BY <1>2, <1>11, <1>12

-----------------------------------------------------------------------------
(* The line and the mailbox *)

LEMMA Back == \A m : m \in HandedBack <=> \E i \in Unsent : m \in ToSet(mailbox[i].unsent)
  BY DEF HandedBack

LEMMA UnsentIs ==
  ASSUME TypeOK
  PROVE  Unsent = {i \in 1 .. Len(mailbox) : mailbox[i].type = "disconnected"}
  BY DEF Unsent, TypeOK

LEMMA RegistrationApart == Registration \notin Reports /\ Registration \in Frames /\ Reports \subseteq Frames
  BY DEF Registration, Reports, Frames

\* What an event carries.
LEMMA EventTyped ==
  ASSUME NEW e \in Events
  PROVE  /\ e.type = "connected" => e.connection \in 1 .. MaxConnections
         /\ e.type = "disconnected" => e.unsent \in Seq(Frames)
         /\ e.type = "received" => e.protocol \in {"old", "new"}
  BY DEF Events, Protocols

\* The messages on their way are reports, but for registrations in the channel.
LEMMA LineTyped ==
  ASSUME TypeOK
  PROVE  /\ ToSet(buffer) \subseteq Reports /\ ToSet(inFlight) \subseteq Reports
         /\ ToSet(pendingRemovals) \subseteq Reports
         /\ ToSet(rx) \subseteq Frames /\ HandedBack \subseteq Frames
         /\ \A i \in Unsent : mailbox[i] \in Events /\ mailbox[i].unsent \in Seq(Frames)
<1>1. /\ ToSet(buffer) \subseteq Reports /\ ToSet(inFlight) \subseteq Reports
      /\ ToSet(pendingRemovals) \subseteq Reports /\ ToSet(rx) \subseteq Frames
  BY SetOf DEF TypeOK
<1>2. \A i \in Unsent : mailbox[i] \in Events /\ mailbox[i].type = "disconnected"
  BY UnsentIs DEF TypeOK
<1>3. \A i \in Unsent : mailbox[i].unsent \in Seq(Frames)
  BY <1>2, EventTyped
<1>4. HandedBack \subseteq Frames
  BY <1>3, Back, SetOf
<1> QED BY <1>1, <1>2, <1>3, <1>4

\* The invariant with the types.
LinkOK == TypeOK /\ Linked

\* The sessions' events of the next mailbox are those of the mailbox from k on.
Moved(k) ==
  \A i \in 1 .. Len(mailbox') :
    mailbox'[i].type \in {"connected", "disconnected"} =>
      i + k \in 1 .. Len(mailbox) /\ mailbox'[i] = mailbox[i + k]

LEMMA MailboxSame ==
  ASSUME TypeOK, mailbox' = mailbox
  PROVE  mailbox' \in Seq(Events) /\ Moved(0) /\ HandedBack' = HandedBack /\ Unsent' = Unsent
<1>1. Moved(0)
  BY DEF Moved, TypeOK
<1>2. HandedBack' = HandedBack /\ Unsent' = Unsent
  BY DEF HandedBack, Unsent
<1> QED BY <1>1, <1>2 DEF TypeOK

\* An event that is none of a session's is posted.
LEMMA PostsOther ==
  ASSUME TypeOK, NEW e \in Events, e.type \notin {"connected", "disconnected"}, Post(<<e>>)
  PROVE  mailbox' \in Seq(Events) /\ Moved(0) /\ HandedBack' = HandedBack
<1> DEFINE N == Len(mailbox)
<1>1. /\ mailbox \in Seq(Events) /\ mailbox' \in Seq(Events) /\ N \in Nat
      /\ Len(mailbox') = N + 1 /\ mailbox'[N + 1] = e
      /\ \A i \in 1 .. N : mailbox'[i] = mailbox[i]
  BY DEF TypeOK, Post
<1>2. \A i \in 1 .. Len(mailbox') : i = N + 1 \/ i \in 1 .. N
  BY <1>1
<1>3. Moved(0)
  BY <1>1, <1>2 DEF Moved
<1>4. Unsent' = Unsent
  <2>1. DOMAIN mailbox' = 1 .. (N + 1) /\ DOMAIN mailbox = 1 .. N
    BY <1>1
  <2> QED BY <1>1, <1>2, <2>1 DEF Unsent
<1>5. \A i \in Unsent : mailbox'[i] = mailbox[i]
  BY <1>1, UnsentIs
<1>6. HandedBack' = HandedBack
  BY <1>4, <1>5 DEF HandedBack
<1> QED BY <1>1, <1>3, <1>6

\* The next event is taken from the mailbox.
LEMMA Takes ==
  ASSUME TypeOK, mailbox # <<>>, Handled
  PROVE  /\ mailbox' \in Seq(Events) /\ Moved(1)
         /\ Head(mailbox) = mailbox[1] /\ Head(mailbox) \in Events /\ 1 \in 1 .. Len(mailbox)
         /\ Head(mailbox).type # "disconnected" => HandedBack' = HandedBack
         /\ Head(mailbox).type = "disconnected" =>
              1 \in Unsent /\ HandedBack = ToSet(Head(mailbox).unsent) \cup HandedBack'
<1>1. /\ mailbox \in Seq(Events) /\ mailbox' \in Seq(Events) /\ Len(mailbox) \in Nat
      /\ Len(mailbox') = Len(mailbox) - 1 /\ Len(mailbox) > 0
      /\ Head(mailbox) = mailbox[1] /\ mailbox[1] \in Events
      /\ \A i \in 1 .. Len(mailbox') : mailbox'[i] = mailbox[i + 1]
  BY DEF TypeOK, Handled
<1>2. \A i \in 1 .. Len(mailbox') : i + 1 \in 1 .. Len(mailbox)
  BY <1>1
<1>3. DOMAIN mailbox' = 1 .. Len(mailbox') /\ DOMAIN mailbox = 1 .. Len(mailbox)
  BY <1>1
<1>4. Moved(1)
  BY <1>1, <1>2 DEF Moved
<1>5. \A i \in Unsent' : i + 1 \in Unsent /\ mailbox'[i] = mailbox[i + 1]
  BY <1>1, <1>2, <1>3 DEF Unsent
<1>6. \A i \in Unsent : i # 1 => i - 1 \in Unsent' /\ mailbox'[i - 1] = mailbox[i]
  <2> SUFFICES ASSUME NEW i \in Unsent, i # 1
               PROVE  i - 1 \in Unsent' /\ mailbox'[i - 1] = mailbox[i]
    OBVIOUS
  <2>1. i \in 1 .. Len(mailbox) /\ i - 1 \in 1 .. Len(mailbox') /\ (i - 1) + 1 = i
    BY <1>1, UnsentIs
  <2> QED BY <1>1, <1>3, <2>1 DEF Unsent
<1>7. 1 \in Unsent <=> Head(mailbox).type = "disconnected"
  BY <1>1, <1>3 DEF Unsent
<1>8. HandedBack' = UNION {ToSet(mailbox'[i].unsent) : i \in Unsent'}
  BY DEF HandedBack
<1>9. HandedBack' = UNION {ToSet(mailbox[i].unsent) : i \in Unsent \ {1}}
  <2>1. \A i \in Unsent' : i + 1 # 1
    BY <1>3 DEF Unsent
  <2>2. ASSUME NEW m \in HandedBack'
        PROVE  m \in UNION {ToSet(mailbox[i].unsent) : i \in Unsent \ {1}}
    BY <1>5, <1>8, <2>1
  <2>3. ASSUME NEW i \in Unsent \ {1} PROVE ToSet(mailbox[i].unsent) \subseteq HandedBack'
    BY <1>6, <1>8
  <2> QED BY <2>2, <2>3
<1>10. Head(mailbox).type # "disconnected" => HandedBack' = HandedBack
  BY <1>7, <1>9 DEF HandedBack
<1>11. ASSUME Head(mailbox).type = "disconnected"
       PROVE  1 \in Unsent /\ HandedBack = ToSet(Head(mailbox).unsent) \cup HandedBack'
  <2>1. 1 \in Unsent /\ ToSet(mailbox[1].unsent) \subseteq HandedBack
    BY <1>7, <1>11, Back
  <2>2. HandedBack' \subseteq HandedBack
    BY <1>9 DEF HandedBack
  <2>3. ASSUME NEW m \in HandedBack, m \notin HandedBack' PROVE m \in ToSet(mailbox[1].unsent)
    <3>1. PICK i \in Unsent : m \in ToSet(mailbox[i].unsent)
      BY Back
    <3> QED BY <1>9, <2>3, <3>1
  <2> QED BY <1>1, <2>1, <2>2, <2>3
<1> QED BY <1>1, <1>4, <1>10, <1>11

\* What moving the events along leaves of what came back unsent.
LEMMA UnsentMoved ==
  ASSUME LinkOK, NEW k \in {0, 1}, Moved(k), mailbox' \in Seq(Events)
  PROVE  /\ \A i \in Unsent' : i \in Int /\ i > 0 /\ i + k \in Unsent /\ mailbox'[i] = mailbox[i + k]
         /\ connection' = connection => \A i \in Announced' : i \in Int /\ i > 0 /\ i + k \in Announced
         /\ \A i, j \in Unsent' : i < j => mailbox'[j].unsent = <<>>
         /\ \A i \in Unsent' : InOrder(mailbox'[i].unsent)
<1> USE DEF LinkOK, Linked
<1>1. ASSUME NEW i \in Unsent'
      PROVE  i \in Int /\ i > 0 /\ i + k \in Unsent /\ mailbox'[i] = mailbox[i + k]
  <2>1. i \in 1 .. Len(mailbox') /\ mailbox'[i].type = "disconnected"
    BY DEF Unsent
  <2> QED BY <2>1, UnsentIs DEF Moved
<1>2. ASSUME connection' = connection, NEW i \in Announced'
      PROVE  i \in Int /\ i > 0 /\ i + k \in Announced
  BY <1>2 DEF Moved, Announced
<1>3. ASSUME NEW i \in Unsent', NEW j \in Unsent', i < j PROVE mailbox'[j].unsent = <<>>
  BY <1>1, <1>3 DEF Lined
<1>4. \A i \in Unsent' : InOrder(mailbox'[i].unsent)
  BY <1>1 DEF Lined
<1> QED BY <1>1, <1>2, <1>3, <1>4

\* Steps that leave the line as it is.
LEMMA LineKept ==
  ASSUME LinkOK, NEW k \in {0, 1}, Moved(k), mailbox' \in Seq(Events), HandedBack' = HandedBack,
         UNCHANGED <<buffer, pendingRemovals, rx, inFlight, accepted, wrote, flushed, evicted, withdrawn>>,
         client' = "session" /\ sender' = connection' => client = "session" /\ sender = connection
  PROVE  (Known /\ Lined /\ Left /\ Held /\ KeptUntilFlushed)'
<1> USE DEF LinkOK, Linked
<1>1. Stored' = Stored /\ Line' = Line
  BY DEF Stored, Line
<1>2. Known'
  BY <1>1 DEF Known
<1>3. Lined'
  BY UnsentMoved DEF Lined
<1>4. Left' /\ Held' /\ KeptUntilFlushed'
  BY <1>1 DEF Left, Held, KeptUntilFlushed
<1> QED BY <1>2, <1>3, <1>4

\* Steps that begin and end no session and let none be used that was not.
LEMMA AnnouncementsKept ==
  ASSUME LinkOK, NEW k \in {0, 1}, Moved(k), mailbox' \in Seq(Events),
         connection' = connection, client' = "session" => client = "session",
         client' = "session" /\ (sender' = connection' \/ rx' # <<>> \/ writing' \/ greeted' = connection')
           => sender = connection \/ rx # <<>> \/ writing \/ greeted = connection
  PROVE  Announcements'
<1>1. /\ \A i \in Unsent' : i \in Int /\ i + k \in Unsent
      /\ \A i \in Announced' : i \in Int /\ i + k \in Announced
  BY UnsentMoved
<1>2. \A i \in 1 .. Len(mailbox') :
        mailbox'[i].type = "connected" => mailbox'[i].connection <= connection'
  BY DEF Moved, Announcements, LinkOK, Linked
<1> QED BY <1>1, <1>2 DEF Announcements, LinkOK, Linked

-----------------------------------------------------------------------------
(* Sending *)

LEMMA StorableIs ==
  ASSUME NEW s \in Seq(Frames)
  PROVE  /\ Storable(s) \in Seq(Reports)
         /\ ToSet(Storable(s)) = ToSet(s) \ {Registration}
         /\ InOrder(s) => InOrder(Storable(s))
<1> DEFINE T == {m \in ToSet(s) : ~ IsEphemeral(m)}
<1>1. ToSet(s) \subseteq Frames
  BY SetOf
<1>2. \A m \in Frames : IsEphemeral(m) <=> m = Registration
  BY DEF Frames, Reports, Registration, IsEphemeral
<1>3. ToSet(s) \cap T = ToSet(s) \ {Registration}
  BY <1>1, <1>2
<1>4. /\ Storable(s) \in Seq(Frames) /\ ToSet(Storable(s)) = ToSet(s) \ {Registration}
      /\ InOrder(s) => InOrder(Storable(s))
  BY <1>3, OnlyInOrder DEF Storable
<1>5. ToSet(Storable(s)) \subseteq Reports
  BY <1>1, <1>4 DEF Frames
<1>6. Storable(s) \in Seq(ToSet(Storable(s)))
  BY <1>4, SetOf
<1> HIDE DEF T
<1>7. Storable(s) \in Seq(Reports)
  BY <1>5, <1>6
<1> QED BY <1>4, <1>7

\* New messages that may go behind everything that is on its way or left.
Sendable(new) ==
  /\ new \in Seq(Reports) /\ InOrder(new)
  /\ Behind(ToSet(new), Line \cup wrote)

\* What sending leaves.
LEMMA Sent ==
  ASSUME LinkOK, NEW new, Sendable(new), SendOutbound(new),
         NEW k \in {0, 1}, Moved(k), mailbox' \in Seq(Events), HandedBack' = HandedBack,
         UNCHANGED <<taskButRx, wrote, flushed, greeted>>
  PROVE  /\ rx' \in Seq(Frames) /\ buffer' \in Seq(Reports) /\ sender' \in {0, sender}
         /\ evicted' \subseteq Reports
         /\ (Sessions /\ Announcements /\ Greets /\ Lined /\ Left)'
         /\ Line' \subseteq Line \cup ToSet(new)
         /\ Line \cup ToSet(new) \subseteq Line' \cup evicted' /\ evicted \subseteq evicted'
<1> USE DEF LinkOK, Linked
<1>0. /\ connection' = connection /\ client' = client /\ inFlight' = inFlight /\ writing' = writing
      /\ HandedBack' = HandedBack /\ wrote' = wrote /\ flushed' = flushed /\ greeted' = greeted
  BY DEF taskButRx
<1>1. /\ \A i \in Unsent' : i + k \in Unsent
      /\ \A i \in Announced' : i + k \in Announced
      /\ \A i, j \in Unsent' : i < j => mailbox'[j].unsent = <<>>
      /\ \A i \in Unsent' : InOrder(mailbox'[i].unsent)
  BY <1>0, UnsentMoved
<1>2. \A i \in 1 .. Len(mailbox') :
        mailbox'[i].type = "connected" => mailbox'[i].connection <= connection'
  BY <1>0 DEF Moved, Announcements
<1>3. /\ new \in Seq(Reports) /\ new \in Seq(Frames) /\ ToSet(new) \subseteq Reports
      /\ InOrder(new) /\ Behind(ToSet(new), Line) /\ Behind(ToSet(new), wrote)
      /\ rx \in Seq(Frames) /\ buffer \in Seq(Reports) /\ sender \in Nat
  BY RegistrationApart, SetOf DEF Sendable, TypeOK, Behind
<1>4. CASE sender # 0 /\ IsOpen(sender)
  <2>1. rx' = rx \o new /\ UNCHANGED <<sender, buffer, evicted>>
    BY <1>4 DEF SendOutbound
  <2>2. client = "session" /\ sender = connection /\ buffer = <<>> /\ Unsent = {} /\ Announced = {}
    BY <1>4 DEF IsOpen, Lined, Announcements
  <2>3. ToSet(rx') = ToSet(rx) \cup ToSet(new) /\ rx' \in Seq(Frames) /\ InOrder(rx')
    <3>1. InOrder(rx) /\ Behind(ToSet(new), ToSet(rx))
      BY <1>3 DEF Lined, Line, Behind
    <3> QED BY <1>3, <2>1, <3>1, ConcatInOrder
  <2>4. ToSet(buffer) = {} /\ Line' = Line \cup ToSet(new)
    BY <1>0, <2>1, <2>2, <2>3, EmptyInOrder DEF Line
  <2>5. Sessions'
    BY <1>0, <2>1, <2>2 DEF Sessions
  <2>6. Announcements'
    <3>1. Unsent' = {} /\ Announced' = {}
      BY <1>1, <2>2
    <3> QED BY <1>2, <3>1 DEF Announcements
  <2>7. Greets'
    BY <1>0, <1>3, <2>1, <2>2 DEF Greets
  <2>8. Lined'
    <3>1. Behind(ToSet(new), ToSet(inFlight)) /\ Behind(ToSet(rx), ToSet(inFlight))
      BY <1>3 DEF Line, Behind, Lined
    <3>2. Behind(ToSet(rx'), ToSet(inFlight'))
      BY <1>0, <2>3, <3>1 DEF Behind
    <3>3. Behind(ToSet(buffer'), ToSet(inFlight') \cup ToSet(rx') \cup HandedBack')
      BY <2>1, <2>4 DEF Behind
    <3> QED BY <1>0, <1>1, <2>1, <2>2, <2>3, <3>2, <3>3 DEF Lined
  <2>9. Left'
    <3>1. flushed \cap ToSet(new) = {}
      BY <1>3 DEF Behind, Known, Follows
    <3> QED BY <1>3, <2>4, <3>1 DEF Left, Behind
  <2>10. evicted' \subseteq Reports /\ buffer' \in Seq(Reports) /\ sender' = sender /\ evicted' = evicted
    BY <2>1 DEF TypeOK
  <2> HIDE DEF Line
  <2> QED BY <1>0, <2>3, <2>4, <2>5, <2>6, <2>7, <2>8, <2>9, <2>10
<1>5. CASE ~ (sender # 0 /\ IsOpen(sender))
  <2> DEFINE all == buffer \o new
             stored == buffer \o Storable(new)
  <2>1. /\ buffer' = Enforced(stored) /\ rx' = rx /\ sender' \in {0, sender}
        /\ evicted' = evicted \cup (ToSet(all) \ (ToSet(buffer') \cup {Registration}))
    BY <1>5 DEF SendOutbound, Buffered, PushedBack
  <2>2. /\ Storable(new) \in Seq(Reports) /\ ToSet(Storable(new)) = ToSet(new)
        /\ InOrder(Storable(new))
    BY <1>3, StorableIs, RegistrationApart
  <2>3. /\ stored \in Seq(Reports) /\ InOrder(stored) /\ ToSet(stored) = ToSet(buffer) \cup ToSet(new)
        /\ ToSet(all) = ToSet(buffer) \cup ToSet(new)
    <3>1. InOrder(buffer) /\ Behind(ToSet(new), ToSet(buffer))
      BY <1>3 DEF Lined, Line, Behind
    <3> QED BY <1>3, <2>2, <3>1, ConcatInOrder
  <2> HIDE DEF all, stored
  <2>4. /\ buffer' \in Seq(Reports) /\ InOrder(buffer')
        /\ ToSet(buffer') \subseteq ToSet(buffer) \cup ToSet(new)
    BY <2>1, <2>3, EnforcedInOrder
  <2>5. Registration \notin ToSet(buffer) \cup ToSet(new)
    BY <1>3, LineTyped, RegistrationApart
  <2>6. evicted' = evicted \cup ((ToSet(buffer) \cup ToSet(new)) \ ToSet(buffer'))
    BY <2>1, <2>3, <2>5
  <2>7. Line' \subseteq Line \cup ToSet(new) /\ Line \cup ToSet(new) \subseteq Line' \cup evicted'
    BY <1>0, <2>1, <2>4, <2>6 DEF Line
  <2>8. sender' = connection' /\ client = "session" => FALSE
    BY <1>0, <1>5, <2>1 DEF IsOpen, Sessions
  <2>9. Sessions'
    BY <1>0, <1>3, <2>1 DEF Sessions, TypeOK
  <2>10. Announcements' /\ Greets'
    BY <1>0, <2>1, <2>8, AnnouncementsKept DEF Greets
  <2>11. Lined'
    <3>1. Behind(ToSet(buffer'), ToSet(inFlight') \cup ToSet(rx') \cup HandedBack')
      BY <1>0, <1>3, <2>1, <2>4 DEF Behind, Lined, Line
    <3> QED BY <1>0, <1>1, <2>1, <2>4, <2>8, <3>1 DEF Lined
  <2>12. Left'
    <3>1. flushed \cap ToSet(new) = {}
      BY <1>3 DEF Behind, Known, Follows
    <3> QED BY <1>3, <2>7, <3>1 DEF Left, Behind
  <2>13. evicted' \subseteq Reports
    BY <1>3, <2>6, LineTyped DEF TypeOK
  <2> HIDE DEF Line
  <2> QED BY <1>0, <1>3, <2>1, <2>4, <2>6, <2>7, <2>9, <2>10, <2>11, <2>12, <2>13 DEF TypeOK
<1> QED BY <1>4, <1>5

-----------------------------------------------------------------------------
(* Reports *)

\* A report that is handed over is younger than all before it.
IsFresh(m) ==
  /\ m \in Reports /\ m \notin accepted
  /\ \A n \in accepted : n.id < m.id
  /\ m.id = Cardinality(accepted) + 1

LEMMA FreshIs ==
  ASSUME LinkOK, Cardinality(accepted) < MaxReports, NEW kind, NEW d,
         [id |-> 1, kind |-> kind, device |-> d] \in
            [id : {1}, kind : {"status", "removal"}, device : Devices]
              \cup [id : {1}, kind : {"alert"}, device : {NoDevice}]
  PROVE  IsFresh(Fresh(kind, d)) /\ Fresh(kind, d).kind = kind /\ Fresh(kind, d).device = d
<1> DEFINE m == Fresh(kind, d)
<1>1. Cardinality(accepted) \in Nat /\ MaxReports \in Nat /\ \A n \in accepted : n.id \in Nat
  BY FS_CardinalityType, LinkAssumption DEF LinkOK, Linked, Known, TypeOK, Reports
<1>2. m.id = Cardinality(accepted) + 1 /\ m.kind = kind /\ m.device = d
  BY DEF Fresh
<1>3. m \in Reports
  <2>1. Cardinality(accepted) + 1 \in 1 .. MaxReports
    BY <1>1
  <2> QED BY <2>1 DEF Fresh, Reports
<1>4. \A n \in accepted : n.id < m.id
  BY <1>1, <1>2 DEF LinkOK, Linked, Known
<1>5. m \notin accepted
  <2> HIDE DEF m
  <2> QED BY <1>1, <1>4
<1> QED BY <1>2, <1>3, <1>4, <1>5 DEF IsFresh

\* It may go behind everything else.
LEMMA FreshSendable ==
  ASSUME LinkOK, NEW m, IsFresh(m)
  PROVE  Sendable(<<m>>) /\ ToSet(<<m>>) = {m} /\ m \notin Line /\ m \notin wrote
         /\ m \notin ToSet(pendingRemovals)
<1>1. m # Registration
  BY RegistrationApart DEF IsFresh
<1>2. Line \cup wrote \cup ToSet(pendingRemovals) \subseteq accepted \cup {Registration}
  BY DEF LinkOK, Linked, Known, Line, Stored
<1>3. m \notin Line /\ m \notin wrote /\ m \notin ToSet(pendingRemovals)
  BY <1>1, <1>2 DEF IsFresh
<1>4. ASSUME NEW n \in Line \cup wrote PROVE Follows(m, n)
  <2>1. CASE n = Registration
    BY <1>1, <2>1 DEF Follows, Tied, Registration
  <2>2. CASE n \in accepted
    BY <1>3, <1>4, <2>2 DEF IsFresh, Follows
  <2> QED BY <1>2, <2>1, <2>2
<1>5. <<m>> \in Seq(Reports)
  BY DEF IsFresh
<1> QED BY <1>3, <1>4, <1>5, OneInOrder DEF Sendable, Behind

\* What a report that is handed over leaves, wherever it goes.
LEMMA Reported ==
  ASSUME LinkOK, NEW m, IsFresh(m), accepted' = accepted \cup {m}, UNCHANGED <<wrote, flushed>>,
         Line' \subseteq Line \cup {m}, Line \subseteq Line' \cup evicted',
         evicted \subseteq evicted', withdrawn \subseteq withdrawn',
         InOrder(pendingRemovals'),
         ToSet(pendingRemovals') \subseteq ToSet(pendingRemovals) \cup {m},
         ToSet(pendingRemovals) \subseteq ToSet(pendingRemovals') \cup withdrawn',
         m \in ToSet(pendingRemovals') => m.kind = "removal" /\ Line' \subseteq Line,
         m.kind = "status" => \A n \in ToSet(pendingRemovals') : n.device # m.device,
         m \in Line' \cup evicted' \cup ToSet(pendingRemovals') \cup withdrawn'
  PROVE  (Known /\ Held /\ KeptUntilFlushed)'
<1> USE DEF LinkOK, Linked
<1>1. Stored = Line \cup ToSet(pendingRemovals) /\ Stored' = Line' \cup ToSet(pendingRemovals')
  BY DEF Stored, Line
<1>2. m \notin Line /\ m \notin wrote /\ m \notin ToSet(pendingRemovals)
  BY FreshSendable
<1>3. Known'
  <2>1. IsFiniteSet(accepted') /\ Cardinality(accepted') = Cardinality(accepted) + 1
        /\ Cardinality(accepted) \in Nat
    BY FS_AddElement, FS_CardinalityType DEF Known, IsFresh
  <2>2. \A n \in accepted : n.id \in Nat
    BY DEF TypeOK, Reports
  <2>3. \A n \in accepted' : n.id <= Cardinality(accepted')
    BY <2>1, <2>2 DEF Known, IsFresh
  <2>4. Stored' \subseteq accepted' \cup {Registration}
    BY <1>1 DEF Known
  <2> QED BY <2>1, <2>3, <2>4 DEF Known
<1>4. Held'
  <2>1. ToSet(pendingRemovals') \cap (Line' \cup wrote') = {}
    BY <1>2 DEF Held
  <2>2. \A n \in ToSet(pendingRemovals') : n.kind = "removal"
    BY DEF Held
  <2>3. ASSUME NEW q \in ToSet(pendingRemovals'), NEW n \in accepted', n.kind = "status"
        PROVE  Follows(q, n)
    <3>1. q # n
      BY <2>2, <2>3
    <3>2. CASE n = m
      BY <2>2, <2>3, <3>1, <3>2 DEF Follows, Tied
    <3>3. CASE q = m /\ n \in accepted
      BY <3>1, <3>3 DEF Follows, IsFresh
    <3>4. CASE q \in ToSet(pendingRemovals) /\ n \in accepted
      BY <2>3, <3>4 DEF Held, Behind
    <3> QED BY <3>2, <3>3, <3>4
  <2>4. Behind(ToSet(pendingRemovals), {n \in accepted : n.kind = "status"})'
    BY <2>3 DEF Behind
  <2> QED BY <2>1, <2>2, <2>4 DEF Held
<1>5. KeptUntilFlushed'
  BY <1>1 DEF KeptUntilFlushed
<1> QED BY <1>3, <1>4, <1>5

\* The removals held for a device, and the others.
LEMMA HeldSplit ==
  ASSUME LinkOK, NEW d
  PROVE  /\ NotHeldFor(d) \in Seq(Reports) /\ InOrder(NotHeldFor(d))
         /\ ToSet(NotHeldFor(d)) = ToSet(pendingRemovals) \ HeldFor(d)
         /\ HeldFor(d) \subseteq ToSet(pendingRemovals) /\ HeldFor(d) \subseteq Reports
         /\ \A n \in ToSet(NotHeldFor(d)) : n.device # d
<1>1. pendingRemovals \in Seq(Reports) /\ InOrder(pendingRemovals)
  BY DEF LinkOK, TypeOK, Linked, Held
<1>2. /\ NotHeldFor(d) \in Seq(Reports) /\ InOrder(NotHeldFor(d))
      /\ ToSet(NotHeldFor(d)) = ToSet(pendingRemovals) \cap (ToSet(pendingRemovals) \ HeldFor(d))
  BY <1>1, OnlyInOrder DEF NotHeldFor
<1>3. HeldFor(d) \subseteq ToSet(pendingRemovals) /\ ToSet(pendingRemovals) \subseteq Reports
  BY LineTyped DEF HeldFor, LinkOK
<1>4. \A n \in ToSet(pendingRemovals) \ HeldFor(d) : n.device # d
  BY DEF HeldFor
<1> HIDE DEF LinkOK
<1> QED BY <1>2, <1>3, <1>4

LEMMA DeviceStatusKept ==
  ASSUME LinkOK, NEW d \in Polled, DeviceStatus(d)
  PROVE  LinkOK'
<1> DEFINE m == Fresh("status", d)
<1>1. IsFresh(m) /\ m.kind = "status" /\ m.device = d
  BY FreshIs, LinkAssumption DEF DeviceStatus, Accept
<1>2. /\ accepted' = accepted \cup {m} /\ pendingRemovals' = NotHeldFor(d)
      /\ withdrawn' = withdrawn \cup HeldFor(d) /\ SendOutbound(<<m>>)
      /\ UNCHANGED <<state, hubProtocol, taskButRx, mailbox, wrote, flushed, greeted>>
  BY DEF DeviceStatus, Accept
<1> HIDE DEF m
<1>3. Sendable(<<m>>) /\ ToSet(<<m>>) = {m}
  BY <1>1, FreshSendable
<1>4. /\ rx' \in Seq(Frames) /\ buffer' \in Seq(Reports) /\ sender' \in {0, sender}
      /\ evicted' \subseteq Reports
      /\ (Sessions /\ Announcements /\ Greets /\ Lined /\ Left)'
      /\ Line' \subseteq Line \cup {m} /\ Line \cup {m} \subseteq Line' \cup evicted' /\ evicted \subseteq evicted'
  BY <1>2, <1>3, MailboxSame, Sent DEF LinkOK
<1>5. (Known /\ Held /\ KeptUntilFlushed)'
  BY <1>1, <1>2, <1>4, HeldSplit, Reported, FreshSendable
<1>6. TypeOK'
  <2>1. pendingRemovals' \in Seq(Reports) /\ HeldFor(d) \subseteq Reports
    BY <1>2, HeldSplit
  <2>2. accepted' \subseteq Reports /\ withdrawn' \subseteq Reports
    BY <1>1, <1>2, <2>1 DEF LinkOK, TypeOK, IsFresh
  <2>3. sender' \in 0 .. MaxConnections
    BY <1>4, LinkAssumption DEF LinkOK, TypeOK
  <2> QED BY <1>2, <1>4, <2>1, <2>2, <2>3 DEF LinkOK, TypeOK, taskButRx
<1> QED BY <1>4, <1>5, <1>6 DEF LinkOK, Linked

LEMMA DeviceAlertKept ==
  ASSUME LinkOK, DeviceAlert
  PROVE  LinkOK'
<1> DEFINE m == Fresh("alert", NoDevice)
<1>1. IsFresh(m) /\ m.kind = "alert"
  BY FreshIs DEF DeviceAlert, Accept
<1>2. /\ accepted' = accepted \cup {m} /\ SendOutbound(<<m>>)
      /\ UNCHANGED <<state, hubProtocol, pendingRemovals, withdrawn, taskButRx, mailbox, wrote, flushed, greeted>>
  BY DEF DeviceAlert, Accept
<1> HIDE DEF m
<1>3. Sendable(<<m>>) /\ ToSet(<<m>>) = {m} /\ m \notin ToSet(pendingRemovals)
  BY <1>1, FreshSendable
<1>4. /\ rx' \in Seq(Frames) /\ buffer' \in Seq(Reports) /\ sender' \in {0, sender}
      /\ evicted' \subseteq Reports
      /\ (Sessions /\ Announcements /\ Greets /\ Lined /\ Left)'
      /\ Line' \subseteq Line \cup {m} /\ Line \cup {m} \subseteq Line' \cup evicted' /\ evicted \subseteq evicted'
  BY <1>2, <1>3, MailboxSame, Sent DEF LinkOK
<1>5. (Known /\ Held /\ KeptUntilFlushed)'
  <2>1. InOrder(pendingRemovals)
    BY DEF LinkOK, Linked, Held
  <2> QED BY <1>1, <1>2, <1>3, <1>4, <2>1, Reported
<1>6. TypeOK'
  <2>1. accepted' \subseteq Reports
    BY <1>1, <1>2 DEF LinkOK, TypeOK, IsFresh
  <2>2. sender' \in 0 .. MaxConnections
    BY <1>4, LinkAssumption DEF LinkOK, TypeOK
  <2> QED BY <1>2, <1>4, <2>1, <2>2 DEF LinkOK, TypeOK, taskButRx
<1> QED BY <1>4, <1>5, <1>6 DEF LinkOK, Linked

\* What holding a removal leaves of those held.
LEMMA HoldKept ==
  ASSUME LinkOK, NEW m, IsFresh(m), m.kind = "removal", Hold(m)
  PROVE  /\ pendingRemovals' \in Seq(Reports) /\ InOrder(pendingRemovals')
         /\ ToSet(pendingRemovals') \subseteq ToSet(pendingRemovals) \cup {m}
         /\ m \in ToSet(pendingRemovals') /\ withdrawn \subseteq withdrawn'
         /\ ToSet(pendingRemovals) \subseteq ToSet(pendingRemovals') \cup withdrawn'
         /\ withdrawn' \subseteq Reports
<1> DEFINE held == NotHeldFor(m.device)
           full == Len(held) >= MaxHeld
           kept == IF full THEN Tail(held) ELSE held
           first == IF full THEN {Head(held)} ELSE {}
<1>1. /\ held \in Seq(Reports) /\ InOrder(held)
      /\ ToSet(held) = ToSet(pendingRemovals) \ HeldFor(m.device)
      /\ HeldFor(m.device) \subseteq ToSet(pendingRemovals) /\ HeldFor(m.device) \subseteq Reports
  BY HeldSplit
<1>2. /\ pendingRemovals' = Append(kept, m)
      /\ withdrawn' = withdrawn \cup HeldFor(m.device) \cup first
  BY DEF Hold
<1> HIDE DEF held
<1>3. kept \in Seq(Reports) /\ InOrder(kept) /\ ToSet(held) = ToSet(kept) \cup first /\ first \subseteq Reports
  <2>1. CASE full
    <3>1. held # <<>>
      BY <1>1, <2>1, LinkAssumption
    <3> QED BY <1>1, <2>1, <3>1, TailInOrder
  <2>2. CASE ~ full
    BY <1>1, <2>2
  <2> QED BY <2>1, <2>2
<1> HIDE DEF kept, first
<1>4. pendingRemovals' = kept \o <<m>> /\ <<m>> \in Seq(Reports)
  BY <1>2, <1>3 DEF IsFresh
<1>5. Behind({m}, ToSet(kept))
  <2>1. ToSet(kept) \subseteq ToSet(pendingRemovals) /\ m \notin ToSet(pendingRemovals)
    BY <1>1, <1>3, FreshSendable
  <2>2. \A n \in ToSet(pendingRemovals) : n.kind = "removal"
    BY DEF LinkOK, Linked, Held
  <2> QED BY <2>1, <2>2 DEF Behind, Follows, Tied
<1>6. InOrder(<<m>>) /\ ToSet(<<m>>) = {m}
  BY OneInOrder
<1>7. /\ pendingRemovals' \in Seq(Reports) /\ InOrder(pendingRemovals')
      /\ ToSet(pendingRemovals') = ToSet(kept) \cup {m}
  <2> DEFINE l == <<m>>
  <2>1. l \in Seq(Reports) /\ InOrder(l) /\ ToSet(l) = {m} /\ pendingRemovals' = kept \o l
    BY <1>4, <1>6
  <2>2. kept \in Seq(Reports) /\ InOrder(kept) /\ Behind(ToSet(l), ToSet(kept))
    BY <1>3, <1>5, <2>1
  <2> HIDE DEF l
  <2>3. ToSet(kept \o l) = ToSet(kept) \cup ToSet(l) /\ kept \o l \in Seq(Reports)
    BY <2>1, <2>2, ConcatInOrder
  <2>4. InOrder(kept \o l)
    BY <2>1, <2>2, ConcatInOrder, Zenon
  <2> QED BY <2>1, <2>3, <2>4
<1> QED BY <1>1, <1>2, <1>3, <1>7 DEF LinkOK, TypeOK

LEMMA DeviceRemovedKept ==
  ASSUME LinkOK, NEW d \in Devices, DeviceRemoved(d)
  PROVE  LinkOK'
<1> DEFINE m == Fresh("removal", d)
<1>1. IsFresh(m) /\ m.kind = "removal" /\ m.device = d
  BY FreshIs DEF DeviceRemoved, Accept
<1>2. /\ accepted' = accepted \cup {m}
      /\ UNCHANGED <<state, hubProtocol, taskButRx, mailbox, wrote, flushed, greeted>>
  BY DEF DeviceRemoved, Accept
<1>3. \/ SendOutbound(<<m>>) /\ UNCHANGED <<pendingRemovals, withdrawn>>
      \/ withdrawn' = withdrawn \cup {m} /\ UNCHANGED <<sender, buffer, evicted, rx, pendingRemovals>>
      \/ Hold(m) /\ UNCHANGED <<sender, buffer, evicted, rx>>
  BY DEF DeviceRemoved
<1> HIDE DEF m
<1>4. /\ Sendable(<<m>>) /\ ToSet(<<m>>) = {m}
      /\ m \notin ToSet(pendingRemovals) /\ m \notin Line
  BY <1>1, FreshSendable
<1>5. InOrder(pendingRemovals) /\ accepted' \subseteq Reports /\ m \in Reports
  BY <1>1, <1>2 DEF LinkOK, TypeOK, Linked, Held, IsFresh
<1>6. CASE SendOutbound(<<m>>) /\ UNCHANGED <<pendingRemovals, withdrawn>>
  <2>1. /\ rx' \in Seq(Frames) /\ buffer' \in Seq(Reports) /\ sender' \in {0, sender}
        /\ evicted' \subseteq Reports
        /\ (Sessions /\ Announcements /\ Greets /\ Lined /\ Left)'
        /\ Line' \subseteq Line \cup {m} /\ Line \cup {m} \subseteq Line' \cup evicted' /\ evicted \subseteq evicted'
    BY <1>2, <1>4, <1>6, MailboxSame, Sent DEF LinkOK
  <2>2. (Known /\ Held /\ KeptUntilFlushed)'
    BY <1>1, <1>2, <1>4, <1>5, <1>6, <2>1, Reported
  <2>3. sender' \in 0 .. MaxConnections
    BY <2>1, LinkAssumption DEF LinkOK, TypeOK
  <2>4. TypeOK'
    BY <1>2, <1>5, <1>6, <2>1, <2>3 DEF LinkOK, TypeOK, taskButRx
  <2> QED BY <2>1, <2>2, <2>4 DEF LinkOK, Linked
<1>7. CASE UNCHANGED <<sender, buffer, evicted, rx>>
  <2>1. Line' = Line
    BY <1>2, <1>7 DEF Line, HandedBack, Unsent, taskButRx
  <2>2. (Sessions /\ Announcements /\ Greets /\ Lined /\ Left)'
    <3>1. Unsent' = Unsent /\ Announced' = Announced /\ HandedBack' = HandedBack
      BY <1>2 DEF Unsent, Announced, HandedBack, taskButRx
    <3> QED BY <1>2, <1>7, <2>1, <3>1
          DEF LinkOK, Linked, Sessions, Announcements, Greets, Lined, Left, taskButRx
  <2>3. CASE withdrawn' = withdrawn \cup {m} /\ UNCHANGED pendingRemovals
    <3>1. (Known /\ Held /\ KeptUntilFlushed)'
      BY <1>1, <1>2, <1>4, <1>5, <1>7, <2>1, <2>3, Reported
    <3>2. TypeOK'
      BY <1>2, <1>5, <1>7, <2>3 DEF LinkOK, TypeOK, taskButRx
    <3> QED BY <2>2, <3>1, <3>2 DEF LinkOK, Linked
  <2>4. CASE Hold(m)
    <3>1. /\ pendingRemovals' \in Seq(Reports) /\ InOrder(pendingRemovals')
          /\ ToSet(pendingRemovals') \subseteq ToSet(pendingRemovals) \cup {m}
          /\ m \in ToSet(pendingRemovals') /\ withdrawn \subseteq withdrawn'
          /\ ToSet(pendingRemovals) \subseteq ToSet(pendingRemovals') \cup withdrawn'
          /\ withdrawn' \subseteq Reports
      BY <1>1, <2>4, HoldKept
    <3>2. (Known /\ Held /\ KeptUntilFlushed)'
      BY <1>1, <1>2, <1>7, <2>1, <3>1, Reported
    <3>3. TypeOK'
      BY <1>2, <1>5, <1>7, <3>1 DEF LinkOK, TypeOK, taskButRx
    <3> QED BY <2>2, <3>2, <3>3 DEF LinkOK, Linked
  <2> QED BY <1>3, <1>6, <2>3, <2>4
<1> QED BY <1>3, <1>6, <1>7

-----------------------------------------------------------------------------
(* Start, end and the supervisor *)

\* The connector gives its sender up, or nothing of the line changes.
LEMMA QuietKept ==
  ASSUME LinkOK, NEW k \in {0, 1}, Moved(k), mailbox' \in Seq(Events), HandedBack' = HandedBack,
         sender' \in {0, sender}, client' \in Clients,
         client' = "session" <=> client = "session",
         UNCHANGED <<buffer, pendingRemovals, connection, rx, writing, inFlight, history>>
  PROVE  Linked'
<1>1. UNCHANGED <<accepted, wrote, flushed, evicted, withdrawn, greeted>>
  BY DEF history
<1>2. client = "session" => connection > 0 /\ sender' \in Nat /\ (sender' = connection => sender = connection)
  BY DEF LinkOK, Linked, TypeOK, Sessions
<1>3. (Known /\ Lined /\ Left /\ Held /\ KeptUntilFlushed)'
  BY <1>1, <1>2, LineKept
<1>4. Sessions'
  BY <1>1 DEF LinkOK, Linked, TypeOK, Sessions
<1>5. Announcements'
  BY <1>1, <1>2, AnnouncementsKept
<1>6. Greets'
  BY <1>1, <1>2 DEF LinkOK, Linked, Greets
<1> QED BY <1>3, <1>4, <1>5, <1>6 DEF Linked

LEMMA QuietSteps ==
  ASSUME LinkOK, HeartbeatFails \/ Connect \/ Disconnect \/ StopsRetrying \/ OnStopped
  PROVE  LinkOK'
<1> USE DEF LinkOK
<1>1. CASE HeartbeatFails \/ Connect \/ Disconnect
  <2>1. /\ sender' \in {0, sender} /\ client' \in Clients /\ (client' = "session" <=> client = "session")
        /\ UNCHANGED <<buffer, pendingRemovals, connection, rx, writing, inFlight, mailbox, history>>
    BY <1>1 DEF HeartbeatFails, Connect, Disconnect, task, Clients, TypeOK
  <2>2. Linked'
    BY <2>1, MailboxSame, QuietKept
  <2>3. TypeOK'
    <3>1. CASE HeartbeatFails
      BY <3>1, LinkAssumption DEF HeartbeatFails, task, history, TypeOK
    <3>2. CASE Connect
      BY <3>2 DEF Connect, history, TypeOK, States, Clients
    <3>3. CASE Disconnect
      BY <3>3, LinkAssumption DEF Disconnect, history, TypeOK, States
    <3> QED BY <1>1, <3>1, <3>2, <3>3
  <2> QED BY <2>2, <2>3
<1>2. CASE StopsRetrying
  <2> DEFINE e == [type |-> "stopped"]
  <2>1. e \in Events /\ e.type \notin {"connected", "disconnected"} /\ Post(<<e>>)
    BY <1>2 DEF StopsRetrying, Events
  <2> HIDE DEF e
  <2>2. mailbox' \in Seq(Events) /\ Moved(0) /\ HandedBack' = HandedBack
    BY <2>1, PostsOther
  <2>3. /\ sender' = sender /\ client' \in Clients /\ client = "retrying" /\ client' = "stopped"
        /\ UNCHANGED <<buffer, pendingRemovals, connection, rx, writing, inFlight, history>>
    BY <1>2 DEF StopsRetrying, connector, Clients
  <2>4. Linked'
    BY <2>2, <2>3, QuietKept
  <2>5. TypeOK'
    BY <1>2, <2>2, <2>3 DEF StopsRetrying, connector, history, TypeOK
  <2> QED BY <2>4, <2>5
<1>3. CASE OnStopped
  <2>1. mailbox # <<>> /\ Handled /\ Head(mailbox).type = "stopped"
    BY <1>3 DEF OnStopped, Received
  <2>2. mailbox' \in Seq(Events) /\ Moved(1) /\ HandedBack' = HandedBack
    BY <2>1, Takes
  <2>3. /\ sender' \in {0, sender} /\ client' \in Clients /\ client' = client
        /\ UNCHANGED <<buffer, pendingRemovals, connection, rx, writing, inFlight, history>>
    BY <1>3 DEF OnStopped, task, TypeOK
  <2>4. Linked'
    BY <2>2, <2>3, QuietKept
  <2>5. TypeOK'
    BY <1>3, <2>2, LinkAssumption DEF OnStopped, task, history, TypeOK, States
  <2> QED BY <2>4, <2>5
<1> QED BY <1>1, <1>2, <1>3

LEMMA HubSpeaksKept ==
  ASSUME LinkOK, NEW p \in Protocols \ {"unknown"}, HubSpeaks(p)
  PROVE  LinkOK'
<1> USE DEF LinkOK
<1> DEFINE e == [type |-> "received", protocol |-> p]
<1>1. e \in Events /\ e.type \notin {"connected", "disconnected"} /\ Post(<<e>>)
  BY DEF HubSpeaks, Events
<1> HIDE DEF e
<1>2. mailbox' \in Seq(Events) /\ Moved(0) /\ HandedBack' = HandedBack
  BY <1>1, PostsOther
<1>3. /\ sender' = sender /\ client' \in Clients /\ client' = client
      /\ UNCHANGED <<buffer, pendingRemovals, connection, rx, writing, inFlight, history>>
  BY DEF HubSpeaks, connector, TypeOK
<1>4. Linked'
  BY <1>2, <1>3, QuietKept
<1>5. TypeOK'
  BY <1>2, <1>3 DEF HubSpeaks, connector, history, TypeOK
<1> QED BY <1>4, <1>5

LEMMA ConnectSucceedsKept ==
  ASSUME LinkOK, ConnectSucceeds
  PROVE  LinkOK'
<1> USE DEF LinkOK, Linked
<1> DEFINE c == connection + 1
           e == [type |-> "connected", connection |-> c]
           N == Len(mailbox)
<1>1. /\ client = "retrying" /\ client' = "session" /\ connection' = c
      /\ mailbox' = mailbox \o <<e>> /\ c \in 1 .. MaxConnections /\ connection \in Nat
      /\ UNCHANGED <<connector, rx, writing, inFlight, spoken, shutdown, history>>
  BY LinkAssumption DEF ConnectSucceeds, Post, TypeOK
<1>2. UNCHANGED <<state, sender, buffer, hubProtocol, pendingRemovals,
                  accepted, wrote, flushed, evicted, withdrawn, greeted>>
  BY <1>1 DEF connector, history
<1>3. e \in Events /\ e.type = "connected" /\ e.connection = c
  BY <1>1 DEF Events
<1>4. sender \in Nat /\ greeted \in Nat /\ sender < c /\ greeted < c
  BY <1>1 DEF TypeOK, Sessions
<1>5. rx = <<>> /\ ~ writing
  BY <1>1 DEF Sessions
<1> HIDE DEF e, c
<1>6. /\ mailbox \in Seq(Events) /\ mailbox' \in Seq(Events) /\ N \in Nat
      /\ Len(mailbox') = N + 1 /\ mailbox'[N + 1] = e
      /\ \A i \in 1 .. N : mailbox'[i] = mailbox[i]
  BY <1>1, <1>3 DEF TypeOK
<1>7. \A i \in 1 .. Len(mailbox') : i = N + 1 \/ i \in 1 .. N
  BY <1>6
<1>8. Unsent' = Unsent /\ \A i \in Unsent : i \in 1 .. N /\ mailbox'[i] = mailbox[i]
  <2>1. DOMAIN mailbox' = 1 .. (N + 1) /\ DOMAIN mailbox = 1 .. N
    BY <1>6
  <2> QED BY <1>3, <1>6, <1>7, <2>1 DEF Unsent
<1>9. HandedBack' = HandedBack
  BY <1>8 DEF HandedBack
<1>10. Announced' = {N + 1}
  <2>1. \A i \in 1 .. N : mailbox[i].type = "connected" => mailbox[i].connection # c
    <3> SUFFICES ASSUME NEW i \in 1 .. N, mailbox[i].type = "connected"
                 PROVE  mailbox[i].connection # c
      OBVIOUS
    <3>1. mailbox[i] \in Events
      BY <1>6
    <3>2. mailbox[i].connection \in 1 .. MaxConnections /\ mailbox[i].connection <= connection
      BY <3>1, EventTyped DEF Announcements
    <3> QED BY <1>1, <3>2 DEF c
  <2> QED BY <1>1, <1>3, <1>6, <1>7, <2>1 DEF Announced
<1>11. Known' /\ Left' /\ Held' /\ KeptUntilFlushed'
  <2>1. Stored' = Stored /\ Line' = Line
    BY <1>1, <1>2, <1>9 DEF Stored, Line
  <2> QED BY <1>2, <2>1 DEF Known, Left, Held, KeptUntilFlushed
<1>12. Sessions'
  BY <1>1, <1>2, <1>4, <1>5 DEF Sessions, c
<1>13. Announcements'
  <2>1. \A i \in 1 .. Len(mailbox') :
          mailbox'[i].type = "connected" => mailbox'[i].connection <= connection'
    <3> SUFFICES ASSUME NEW i \in 1 .. Len(mailbox'), mailbox'[i].type = "connected"
                 PROVE  mailbox'[i].connection <= connection'
      OBVIOUS
    <3>1. CASE i = N + 1
      BY <1>1, <1>3, <1>6, <3>1
    <3>2. CASE i \in 1 .. N
      <4>1. mailbox'[i] = mailbox[i] /\ mailbox[i] \in Events
        BY <1>6, <3>2
      <4>2. mailbox[i].connection \in 1 .. MaxConnections /\ mailbox[i].connection <= connection
        BY <3>2, <4>1, EventTyped DEF Announcements
      <4> QED BY <1>1, <4>1, <4>2 DEF c
    <3> QED BY <1>7, <3>1, <3>2
  <2>2. ~ (sender' = connection' \/ rx' # <<>> \/ writing' \/ greeted' = connection')
    BY <1>1, <1>2, <1>4, <1>5
  <2>3. \A i \in Unsent' : i < N + 1
    BY <1>6, <1>8
  <2> QED BY <1>10, <2>1, <2>2, <2>3 DEF Announcements
<1>14. Greets'
  BY <1>1, <1>2, <1>4, <1>5 DEF Greets
<1>15. Lined'
  <2>1. ~ (sender' = connection')
    BY <1>1, <1>2, <1>4
  <2> QED BY <1>1, <1>2, <1>8, <1>9, <2>1 DEF Lined
<1>16. TypeOK'
  <2>1. connection' \in 0 .. MaxConnections
    BY <1>1
  <2> QED BY <1>1, <1>2, <1>6, <2>1 DEF TypeOK, Clients
<1> QED BY <1>11, <1>12, <1>13, <1>14, <1>15, <1>16

-----------------------------------------------------------------------------
(* Batches and the end of a session *)

LEMMA PriorityOf ==
  ASSUME NEW m \in Frames
  PROVE  /\ OnlyPriority(<<m>>) \in Seq(Reports)
         /\ ToSet(OnlyPriority(<<m>>)) = {m} \cap {n \in Frames : IsPriority(n)}
         /\ InOrder(OnlyPriority(<<m>>))
<1> DEFINE s == <<m>>
           T == {n \in ToSet(s) : IsPriority(n)}
           o == OnlyPriority(s)
<1>1. s \in Seq(Frames) /\ InOrder(s) /\ ToSet(s) = {m}
  BY OneInOrder
<1>2. o = Only(s, T)
  BY DEF OnlyPriority
<1> HIDE DEF s
<1>3. o \in Seq(Frames) /\ ToSet(o) = ToSet(s) \cap T /\ InOrder(o)
  BY <1>1, <1>2, OnlyInOrder
<1> HIDE DEF o
<1>4. ToSet(o) = {m} \cap {n \in Frames : IsPriority(n)}
  BY <1>1, <1>3
<1>5. ToSet(o) \subseteq Reports
  BY <1>4 DEF Frames, Registration, IsPriority
<1>6. o \in Seq(ToSet(o))
  BY <1>3, SetOf
<1>7. o \in Seq(Reports)
  BY <1>5, <1>6
<1> QED BY <1>3, <1>4, <1>7 DEF o, s

LEMMA FeedKept ==
  ASSUME LinkOK, Feed
  PROVE  LinkOK' /\ \A m \in wrote' \ wrote, n \in wrote : Follows(m, n)
<1> USE DEF LinkOK, Linked
<1> DEFINE h == Head(rx)
           p == OnlyPriority(<<h>>)
           t == Tail(rx)
<1>1. /\ client = "session" /\ rx # <<>> /\ rx' = t /\ writing' = TRUE
      /\ inFlight' = inFlight \o p /\ wrote' = wrote \cup ({h} \ {Registration})
      /\ greeted' = IF h = Registration THEN connection ELSE greeted
      /\ UNCHANGED <<client, connection, spoken, shutdown, mailbox, accepted, flushed, evicted, withdrawn>>
      /\ UNCHANGED <<state, sender, buffer, hubProtocol, pendingRemovals>>
  BY DEF Feed, connector
<1>2. /\ Unsent = {} /\ Announced = {} /\ Unsent' = Unsent /\ Announced' = Announced
      /\ HandedBack = {} /\ HandedBack' = HandedBack
  <2>1. Unsent = {} /\ Announced = {}
    BY <1>1 DEF Announcements
  <2>2. Unsent' = Unsent /\ Announced' = Announced /\ HandedBack' = HandedBack
    BY <1>1 DEF Unsent, Announced, HandedBack
  <2> QED BY <2>1, <2>2, Back
<1>3. /\ h \in Frames /\ t \in Seq(Frames) /\ ToSet(rx) = {h} \cup ToSet(t)
      /\ InOrder(t) /\ Behind(ToSet(t), {h})
  BY <1>1, TailInOrder DEF TypeOK, Lined
<1>4. /\ p \in Seq(Reports) /\ InOrder(p) /\ ToSet(p) \subseteq {h}
      /\ ToSet(p) = {h} \cap {n \in Frames : IsPriority(n)}
  BY <1>3, PriorityOf
<1> HIDE DEF h, p, t
<1>5. h # Registration => h \in Reports /\ h \in accepted /\ h \notin ToSet(pendingRemovals)
  <2> SUFFICES ASSUME h # Registration
               PROVE  h \in Reports /\ h \in accepted /\ h \notin ToSet(pendingRemovals)
    OBVIOUS
  <2>1. h \in Reports
    BY <1>3 DEF Frames
  <2>2. h \in accepted
    BY <1>3 DEF Known, Stored
  <2>3. h \notin ToSet(pendingRemovals)
    BY <1>3 DEF Held, Line
  <2> QED BY <2>1, <2>2, <2>3
<1>6. /\ inFlight' \in Seq(Reports) /\ ToSet(inFlight') = ToSet(inFlight) \cup ToSet(p)
      /\ InOrder(inFlight')
  <2>1. InOrder(inFlight) /\ inFlight \in Seq(Reports) /\ Behind(ToSet(p), ToSet(inFlight))
    BY <1>3, <1>4 DEF Lined, TypeOK, Behind
  <2>2. inFlight \o p \in Seq(Reports) /\ ToSet(inFlight \o p) = ToSet(inFlight) \cup ToSet(p)
    BY <1>4, <2>1, ConcatInOrder
  <2>3. InOrder(inFlight \o p)
    BY <1>4, <2>1, ConcatInOrder, Zenon
  <2> QED BY <1>1, <2>2, <2>3
<1>7. ToSet(p) \subseteq wrote'
  <2>1. Registration \notin ToSet(p)
    BY <1>4, SetOf, RegistrationApart
  <2> QED BY <1>1, <1>4, <2>1
<1>8. Line' \subseteq Line /\ Line \ Line' \subseteq {h}
  BY <1>1, <1>2, <1>3, <1>4, <1>6 DEF Line
<1>9. Known'
  <2>1. Stored = Line \cup ToSet(pendingRemovals) /\ Stored' = Line' \cup ToSet(pendingRemovals')
    BY DEF Stored, Line
  <2> QED BY <1>1, <1>5, <1>8, <2>1 DEF Known
<1>10. Sessions'
  BY <1>1, <1>6, <1>7 DEF Sessions, TypeOK
<1>11. Announcements'
  BY <1>1, <1>2 DEF Announcements
<1>12. Greets'
  BY <1>1 DEF Greets, h
<1>13. Lined'
  <2>1. Behind(ToSet(rx'), ToSet(inFlight'))
    BY <1>1, <1>3, <1>4, <1>6 DEF Lined, Behind
  <2>2. Behind(ToSet(buffer'), ToSet(inFlight') \cup ToSet(rx') \cup HandedBack')
    BY <1>1, <1>2, <1>3, <1>4, <1>6 DEF Lined, Behind
  <2> QED BY <1>1, <1>2, <1>3, <1>6, <2>1, <2>2 DEF Lined
<1>14. Left'
  <2>1. flushed' \cap Line' = {}
    BY <1>1, <1>8 DEF Left
  <2>2. ASSUME NEW m \in Line' \ wrote', NEW n \in wrote' PROVE Follows(m, n)
    <3>1. m \in Line /\ m \notin wrote
      BY <1>1, <1>8, <2>2
    <3>2. CASE n \in wrote
      BY <3>1, <3>2 DEF Left
    <3>3. CASE n = h
      <4>1. m \in ToSet(t) \cup ToSet(buffer)
        <5>1. m \notin ToSet(inFlight')
          BY <1>6, <1>7, <2>2, <3>1 DEF Sessions
        <5> QED BY <1>1, <1>2, <2>2, <5>1 DEF Line
      <4>2. CASE m \in ToSet(t)
        BY <1>3, <3>3, <4>2 DEF Behind
      <4>3. CASE m \in ToSet(buffer)
        BY <1>3, <3>3, <4>3 DEF Lined, Behind
      <4> QED BY <4>1, <4>2, <4>3
    <3> QED BY <1>1, <3>2, <3>3
  <2> QED BY <2>1, <2>2 DEF Left
<1>15. Held'
  BY <1>1, <1>5, <1>8 DEF Held
<1>16. KeptUntilFlushed'
  <2>1. ASSUME NEW m \in accepted, IsPriority(m), m \in Stored PROVE m \in Stored'
    <3>1. m = h => m \in ToSet(inFlight')
      BY <1>3, <1>4, <1>6, <2>1
    <3> QED BY <1>1, <1>2, <1>3, <1>6, <2>1, <3>1 DEF Stored
  <2> QED BY <1>1, <2>1 DEF KeptUntilFlushed
<1>17. TypeOK'
  <2>1. wrote' \subseteq Reports
    BY <1>1, <1>5 DEF TypeOK
  <2>2. greeted' \in 0 .. MaxConnections
    BY <1>1 DEF TypeOK
  <2> QED BY <1>1, <1>3, <1>6, <2>1, <2>2 DEF TypeOK
<1>18. ASSUME NEW m \in wrote' \ wrote, NEW n \in wrote PROVE Follows(m, n)
  <2>1. m = h /\ h \in Line
    BY <1>1, <1>3, <1>18 DEF Line
  <2> QED BY <1>18, <2>1 DEF Left
<1> QED BY <1>9, <1>10, <1>11, <1>12, <1>13, <1>14, <1>15, <1>16, <1>17, <1>18

LEMMA FlushKept ==
  ASSUME LinkOK, Flush
  PROVE  LinkOK'
<1> USE DEF LinkOK, Linked
<1>1. /\ client = "session" /\ writing /\ writing' = FALSE /\ inFlight' = <<>>
      /\ flushed' = flushed \cup ToSet(inFlight)
      /\ UNCHANGED <<client, connection, rx, spoken, shutdown, mailbox,
                     accepted, wrote, evicted, withdrawn, greeted>>
      /\ UNCHANGED <<state, sender, buffer, hubProtocol, pendingRemovals>>
  BY DEF Flush, connector
<1>2. /\ Unsent = {} /\ Announced = {} /\ Unsent' = Unsent /\ Announced' = Announced
      /\ HandedBack = {} /\ HandedBack' = HandedBack
  <2>1. Unsent = {} /\ Announced = {}
    BY <1>1 DEF Announcements
  <2>2. Unsent' = Unsent /\ Announced' = Announced /\ HandedBack' = HandedBack
    BY <1>1 DEF Unsent, Announced, HandedBack
  <2> QED BY <2>1, <2>2, Back
<1>3. ToSet(inFlight') = {} /\ InOrder(inFlight') /\ inFlight' \in Seq(Reports)
  BY <1>1, EmptyInOrder
<1>4. Line = ToSet(inFlight) \cup Line' /\ Line' = ToSet(rx) \cup ToSet(buffer)
  BY <1>1, <1>2, <1>3 DEF Line
<1>5. Stored = Line \cup ToSet(pendingRemovals) /\ Stored' = Line' \cup ToSet(pendingRemovals')
  BY DEF Stored, Line
<1>6. Known' /\ Sessions' /\ KeptUntilFlushed'
  BY <1>1, <1>3, <1>4, <1>5 DEF Known, Sessions, KeptUntilFlushed
<1>7. Announcements' /\ Greets'
  BY <1>1, <1>2 DEF Announcements, Greets
<1>8. Lined'
  BY <1>1, <1>2, <1>3 DEF Lined, Behind
<1>9. Left' /\ Held'
  <2>1. ToSet(inFlight) \cap Line' = {}
    BY <1>4 DEF Lined, Behind, Follows
  <2>2. Left'
    BY <1>1, <1>4, <2>1 DEF Left
  <2>3. Held'
    BY <1>1, <1>4 DEF Held
  <2> QED BY <2>2, <2>3
<1>10. TypeOK'
  <2>1. ToSet(inFlight) \subseteq Reports
    BY LineTyped
  <2> QED BY <1>1, <1>3, <2>1 DEF TypeOK
<1> QED BY <1>6, <1>7, <1>8, <1>9, <1>10

\* What is handed back keeps its place in the line, before the buffer.
LEMMA EndSessionKept ==
  ASSUME LinkOK, client = "session", NEW unsent \in Seq(Frames), NEW stops \in BOOLEAN,
         EndSession(unsent, stops), InOrder(unsent),
         ToSet(unsent) \subseteq ToSet(inFlight) \cup ToSet(rx),
         \A m \in ToSet(inFlight) \cup ToSet(rx) : IsPriority(m) => m \in ToSet(unsent)
  PROVE  LinkOK'
<1> USE DEF LinkOK, Linked
<1> DEFINE e == [type |-> "disconnected", unsent |-> unsent]
           s == [type |-> "stopped"]
           es == <<e>> \o (IF stops THEN <<s>> ELSE <<>>)
           N == Len(mailbox)
<1>1. /\ client' \in Clients /\ client' # "session" /\ rx' = <<>> /\ writing' = FALSE /\ inFlight' = <<>>
      /\ mailbox' = mailbox \o es
      /\ UNCHANGED <<connection, spoken, shutdown, accepted, wrote, flushed, evicted, withdrawn, greeted>>
      /\ UNCHANGED <<state, sender, buffer, hubProtocol, pendingRemovals>>
  BY DEF EndSession, Post, connector, history, Clients
<1>2. e \in Events /\ e.type = "disconnected" /\ e.unsent = unsent
  BY DEF Events
<1>3. es \in Seq(Events) /\ Len(es) >= 1 /\ es[1] = e /\ \A i \in 2 .. Len(es) : es[i].type = "stopped"
  <2>1. CASE stops
    <3>1. s \in Events /\ s.type = "stopped"
      BY DEF Events
    <3> DEFINE a == <<e>>
               b == <<s>>
    <3>2. es = a \o b
      BY <2>1
    <3> HIDE DEF e, s, es
    <3>3. a \in Seq(Events) /\ Len(a) = 1 /\ a[1] = e /\ b \in Seq(Events) /\ Len(b) = 1 /\ b[1] = s
      BY <1>2, <3>1
    <3> HIDE DEF a, b
    <3>4. /\ a \o b \in Seq(Events) /\ Len(a \o b) = 2
          /\ (a \o b)[1] = a[1] /\ (a \o b)[2] = b[1]
      <4>1. /\ a \o b \in Seq(Events) /\ Len(a \o b) = Len(a) + Len(b)
            /\ \A i \in 1 .. Len(a) : (a \o b)[i] = a[i]
            /\ \A i \in 1 .. Len(b) : (a \o b)[Len(a) + i] = b[i]
        <5>1. a \in Seq(Events) /\ b \in Seq(Events)
          BY <3>3
        <5> QED BY <5>1
      <4> QED BY <3>3, <4>1
    <3> QED BY <3>1, <3>2, <3>3, <3>4
  <2>2. CASE ~ stops
    <3>1. es = <<e>>
      BY <2>2
    <3> HIDE DEF e, es, s
    <3> QED BY <1>2, <3>1
  <2> QED BY <2>1, <2>2
<1> HIDE DEF e, es, s
<1>4. /\ mailbox \in Seq(Events) /\ mailbox' \in Seq(Events) /\ N \in Nat
      /\ Len(mailbox') = N + Len(es) /\ Len(es) \in Nat
      /\ \A i \in 1 .. N : mailbox'[i] = mailbox[i]
      /\ \A i \in 1 .. Len(es) : mailbox'[N + i] = es[i]
  BY <1>1, <1>3 DEF TypeOK
<1>5. \A i \in 1 .. Len(mailbox') :
        \/ i \in 1 .. N /\ mailbox'[i] = mailbox[i]
        \/ i = N + 1 /\ mailbox'[i] = e
        \/ mailbox'[i].type = "stopped"
  <2> SUFFICES ASSUME NEW i \in 1 .. Len(mailbox'), ~ (i \in 1 .. N), i # N + 1
               PROVE  mailbox'[i].type = "stopped"
    <3>1. mailbox'[N + 1] = e
      BY <1>3, <1>4
    <3> QED BY <1>4, <3>1
  <2>1. i - N \in 2 .. Len(es) /\ i - N \in 1 .. Len(es) /\ N + (i - N) = i
    BY <1>4
  <2> QED BY <1>3, <1>4, <2>1
<1>6. N + 1 \in 1 .. Len(mailbox') /\ mailbox'[N + 1] = e
  BY <1>3, <1>4
<1>7. Unsent' = Unsent \cup {N + 1} /\ \A i \in Unsent : i \in 1 .. N /\ mailbox'[i] = mailbox[i]
  <2>1. DOMAIN mailbox' = 1 .. Len(mailbox') /\ DOMAIN mailbox = 1 .. N
    BY <1>4
  <2>2. \A i \in Unsent : i \in 1 .. N /\ mailbox'[i] = mailbox[i] /\ i \in 1 .. Len(mailbox')
    BY <1>4, <2>1 DEF Unsent
  <2>3. Unsent' \subseteq Unsent \cup {N + 1}
    BY <1>5, <2>1 DEF Unsent
  <2>4. Unsent \cup {N + 1} \subseteq Unsent'
    BY <1>2, <1>6, <2>1, <2>2 DEF Unsent
  <2> QED BY <2>2, <2>3, <2>4
<1>8. mailbox'[N + 1].unsent = unsent /\ N + 1 \notin Unsent
  BY <1>2, <1>6, <1>7
<1>9. HandedBack' = HandedBack \cup ToSet(unsent)
  <2>1. HandedBack' = UNION {ToSet(mailbox'[i].unsent) : i \in Unsent'}
    BY DEF HandedBack
  <2>2. ASSUME NEW m \in HandedBack' PROVE m \in HandedBack \cup ToSet(unsent)
    <3>1. PICK i \in Unsent' : m \in ToSet(mailbox'[i].unsent)
      BY <2>1
    <3> QED BY <1>7, <1>8, <3>1, Back
  <2>3. ASSUME NEW m \in HandedBack PROVE m \in HandedBack'
    <3>1. PICK i \in Unsent : m \in ToSet(mailbox[i].unsent)
      BY Back
    <3> QED BY <1>7, <2>1, <3>1
  <2>4. ToSet(unsent) \subseteq HandedBack'
    BY <1>7, <1>8, <2>1
  <2> QED BY <2>2, <2>3, <2>4
<1>10. ToSet(inFlight') = {} /\ ToSet(rx') = {} /\ InOrder(inFlight') /\ InOrder(rx')
  BY <1>1, EmptyInOrder
<1>11. Line' \subseteq Line
  BY <1>1, <1>9, <1>10 DEF Line
<1>12. Unsent # {} => unsent = <<>>
  <2> SUFFICES ASSUME Unsent # {} PROVE unsent = <<>>
    OBVIOUS
  <2>1. rx = <<>> /\ inFlight = <<>>
    BY DEF Announcements, Sessions
  <2>2. ToSet(unsent) = {}
    BY <2>1, EmptyInOrder
  <2> QED BY <2>2, SetOf
<1>13. Known'
  <2>1. Stored = Line \cup ToSet(pendingRemovals) /\ Stored' = Line' \cup ToSet(pendingRemovals')
    BY DEF Stored, Line
  <2> QED BY <1>1, <1>11, <2>1 DEF Known
<1>14. Sessions'
  BY <1>1, <1>10 DEF Sessions
<1>15. Announcements'
  <2>1. \A i \in 1 .. Len(mailbox') :
          mailbox'[i].type = "connected" => i \in 1 .. N /\ mailbox'[i] = mailbox[i]
    BY <1>2, <1>5
  <2>2. Announced' \subseteq Announced
    BY <1>1, <2>1 DEF Announced
  <2> QED BY <1>1, <2>1, <2>2 DEF Announcements
<1>16. Greets'
  BY <1>1 DEF Greets
<1>17. Lined'
  <2>1. \A i, j \in Unsent' : i < j => mailbox'[j].unsent = <<>>
    <3> SUFFICES ASSUME NEW i \in Unsent', NEW j \in Unsent', i < j PROVE mailbox'[j].unsent = <<>>
      OBVIOUS
    <3>1. CASE j = N + 1
      BY <1>7, <1>8, <1>12, <3>1
    <3>2. CASE j \in Unsent
      <4>1. i \in Unsent
        BY <1>4, <1>7, <3>2
      <4> QED BY <1>7, <3>2, <4>1 DEF Lined
    <3> QED BY <1>7, <3>1, <3>2
  <2>2. \A i \in Unsent' : InOrder(mailbox'[i].unsent)
    BY <1>7, <1>8 DEF Lined
  <2>3. Behind(ToSet(rx'), ToSet(inFlight'))
    BY <1>10 DEF Behind
  <2>4. Behind(ToSet(buffer'), ToSet(inFlight') \cup ToSet(rx') \cup HandedBack')
    BY <1>1, <1>9, <1>10 DEF Lined, Behind
  <2> QED BY <1>1, <1>10, <2>1, <2>2, <2>3, <2>4 DEF Lined
<1>18. Left' /\ Held'
  BY <1>1, <1>11 DEF Left, Held
<1>19. KeptUntilFlushed'
  <2>1. \A m \in accepted : IsPriority(m) /\ m \in Stored => m \in Stored'
    BY <1>1, <1>9 DEF Stored
  <2> QED BY <1>1, <2>1 DEF KeptUntilFlushed
<1>20. TypeOK'
  <2>1. <<>> \in Seq(Frames) /\ <<>> \in Seq(Reports)
    OBVIOUS
  <2> QED BY <1>1, <1>4, <2>1 DEF TypeOK
<1> QED BY <1>13, <1>14, <1>15, <1>16, <1>17, <1>18, <1>19, <1>20

LEMMA SessionEnds ==
  ASSUME LinkOK, FlushFails \/ FeedFails \/ ConnectionLost \/ ShutsDown
  PROVE  LinkOK'
<1>1. /\ inFlight \in Seq(Frames) /\ rx \in Seq(Frames) /\ InOrder(inFlight) /\ InOrder(rx)
      /\ Behind(ToSet(rx), ToSet(inFlight)) /\ (~ writing => inFlight = <<>>)
  BY RegistrationApart DEF LinkOK, Linked, TypeOK, Lined, Sessions
<1>2. CASE FlushFails
  <2>1. client = "session" /\ EndSession(inFlight \o rx, FALSE)
    BY <1>2 DEF FlushFails
  <2>2. inFlight \o rx \in Seq(Frames) /\ ToSet(inFlight \o rx) = ToSet(inFlight) \cup ToSet(rx)
    BY <1>1, ConcatInOrder
  <2>3. InOrder(inFlight \o rx)
    BY <1>1, ConcatInOrder, Zenon
  <2> QED BY <2>1, <2>2, <2>3, EndSessionKept
<1>3. CASE ConnectionLost \/ ShutsDown
  <2>1. PICK stops \in BOOLEAN : client = "session" /\ ~ writing /\ EndSession(rx, stops)
    BY <1>3 DEF ConnectionLost, ShutsDown
  <2>2. ToSet(inFlight) = {}
    BY <1>1, <2>1, EmptyInOrder
  <2> QED BY <1>1, <2>1, <2>2, EndSessionKept
<1>4. CASE FeedFails
  <2> DEFINE h == Head(rx)
             p == OnlyPriority(<<h>>)
             t == Tail(rx)
             u == inFlight \o p
  <2>1. client = "session" /\ rx # <<>> /\ EndSession(u \o t, FALSE)
    BY <1>4 DEF FeedFails
  <2>2. /\ h \in Frames /\ t \in Seq(Frames) /\ ToSet(rx) = {h} \cup ToSet(t)
        /\ InOrder(t) /\ Behind(ToSet(t), {h})
    BY <1>1, <2>1, TailInOrder
  <2>3. /\ p \in Seq(Frames) /\ InOrder(p) /\ ToSet(p) \subseteq {h}
        /\ ToSet(p) = {h} \cap {n \in Frames : IsPriority(n)}
    BY <2>2, PriorityOf, RegistrationApart
  <2> HIDE DEF h, p, t
  <2>4. Behind(ToSet(p), ToSet(inFlight)) /\ Behind(ToSet(t), ToSet(inFlight) \cup ToSet(p))
    BY <1>1, <2>2, <2>3 DEF Behind
  <2>5. u \in Seq(Frames) /\ ToSet(u) = ToSet(inFlight) \cup ToSet(p)
    BY <1>1, <2>3, ConcatInOrder
  <2>6. InOrder(u)
    BY <1>1, <2>3, <2>4, ConcatInOrder, Zenon
  <2> HIDE DEF u
  <2>7. u \o t \in Seq(Frames) /\ ToSet(u \o t) = ToSet(u) \cup ToSet(t)
    BY <2>2, <2>5, ConcatInOrder
  <2>8. InOrder(u \o t)
    <3>1. Behind(ToSet(t), ToSet(u))
      BY <2>4, <2>5
    <3> QED BY <2>2, <2>5, <2>6, <3>1, ConcatInOrder, Zenon
  <2>9. ToSet(u \o t) \subseteq ToSet(inFlight) \cup ToSet(rx)
    BY <2>2, <2>3, <2>5, <2>7
  <2>10. \A m \in ToSet(inFlight) \cup ToSet(rx) : IsPriority(m) => m \in ToSet(u \o t)
    BY <2>2, <2>3, <2>5, <2>7
  <2> QED BY <2>1, <2>7, <2>8, <2>9, <2>10, EndSessionKept
<1> QED BY <1>2, <1>3, <1>4

-----------------------------------------------------------------------------
(* The connector handles the client's events *)

LEMMA OnConnectedKept ==
  ASSUME LinkOK, OnConnected
  PROVE  LinkOK'
<1> USE DEF LinkOK, Linked
<1> DEFINE c == Head(mailbox).connection
<1>1. /\ mailbox # <<>> /\ Handled /\ Head(mailbox).type = "connected"
      /\ UNCHANGED <<client, connection, writing, inFlight, spoken, shutdown>>
      /\ UNCHANGED <<accepted, wrote, flushed, evicted, withdrawn, greeted>>
  BY DEF OnConnected, Received, taskButRx, history
<1>2. /\ mailbox' \in Seq(Events) /\ Moved(1) /\ HandedBack' = HandedBack
      /\ Head(mailbox) = mailbox[1] /\ Head(mailbox) \in Events /\ 1 \in 1 .. Len(mailbox)
  BY <1>1, Takes
<1>3. c \in 1 .. MaxConnections /\ c <= connection
  BY <1>1, <1>2, EventTyped DEF Announcements
<1>4. CASE UNCHANGED <<sender, buffer, pendingRemovals, rx, state>> /\ hubProtocol' \in Protocols
  <2>1. Linked'
    <3>1. UNCHANGED history /\ sender' \in {0, sender} /\ client' \in Clients
      BY <1>1, <1>4 DEF history, TypeOK
    <3> QED BY <1>1, <1>2, <1>4, <3>1, QuietKept
  <2>2. TypeOK'
    BY <1>1, <1>2, <1>4 DEF TypeOK
  <2> QED BY <2>1, <2>2
<1>5. CASE /\ state # "shutting_down" /\ IsOpen(c)
           /\ state' = "connected" /\ sender' = c /\ hubProtocol' = "unknown"
           /\ rx' = rx \o <<Registration>> \o buffer /\ buffer' = <<>>
           /\ UNCHANGED pendingRemovals
  <2>1. client = "session" /\ c = connection /\ 1 \in Announced
    BY <1>1, <1>2, <1>5 DEF IsOpen, Announced
  <2>2. /\ rx = <<>> /\ ~ writing /\ inFlight = <<>>
        /\ sender # connection /\ greeted # connection
    BY <2>1 DEF Announcements, Sessions
  <2>3. Unsent = {} /\ Announced = {1}
    <3>1. \A i \in Unsent : i \in Int /\ i >= 1
      BY UnsentIs
    <3>2. Unsent = {}
      BY <2>1, <3>1 DEF Announcements
    <3> QED BY <2>1, <3>2 DEF Announcements
  <2>4. Unsent' = {} /\ Announced' = {}
    <3>1. /\ \A i \in Unsent' : i + 1 \in Unsent
          /\ \A i \in Announced' : i \in Int /\ i > 0 /\ i + 1 \in Announced
      BY <1>1, <1>2, UnsentMoved
    <3> QED BY <2>3, <3>1
  <2>5. HandedBack = {} /\ HandedBack' = {}
    BY <1>2, <2>3, Back
  <2> DEFINE r == <<Registration>>
             q == <<>> \o r
  <2>6. /\ r \in Seq(Frames) /\ InOrder(r) /\ ToSet(r) = {Registration} /\ r # <<>>
        /\ Head(r) = Registration
    BY RegistrationApart, OneInOrder
  <2>7. rx' = q \o buffer
    BY <1>5, <2>2
  <2> HIDE DEF r
  <2>8. q = r
    BY <2>6
  <2>9. /\ buffer \in Seq(Frames) /\ InOrder(buffer) /\ ToSet(buffer) \subseteq Reports
        /\ Registration \notin ToSet(buffer)
    BY RegistrationApart, LineTyped DEF TypeOK, Lined
  <2>10. Behind(ToSet(buffer), ToSet(r))
    BY <2>6, <2>9 DEF Behind, Follows, Tied, Registration
  <2>11. rx' \in Seq(Frames) /\ ToSet(rx') = {Registration} \cup ToSet(buffer)
    BY <2>6, <2>7, <2>8, <2>9, ConcatInOrder
  <2>12. InOrder(rx')
    BY <2>6, <2>7, <2>8, <2>9, <2>10, ConcatInOrder, Zenon
  <2>13. rx' # <<>> /\ Head(rx') = Registration
    BY <2>6, <2>7, <2>8, <2>9
  <2>14. ToSet(buffer') = {} /\ InOrder(buffer') /\ ToSet(inFlight) = {} /\ ToSet(rx) = {}
         /\ buffer' \in Seq(Reports)
    BY <1>5, <2>2, EmptyInOrder
  <2>15. Line = ToSet(buffer) /\ Line' = {Registration} \cup ToSet(buffer)
    BY <1>1, <2>5, <2>11, <2>14 DEF Line
  <2>16. Registration \notin accepted
    BY RegistrationApart DEF TypeOK
  <2>17. Known'
    <3>1. Stored = Line \cup ToSet(pendingRemovals) /\ Stored' = Line' \cup ToSet(pendingRemovals')
      BY DEF Stored, Line
    <3> QED BY <1>1, <1>5, <2>15, <3>1 DEF Known
  <2>18. Sessions'
    BY <1>1, <1>5, <2>1, <2>2 DEF Sessions, TypeOK
  <2>19. Announcements'
    <3>1. \A i \in 1 .. Len(mailbox') :
            mailbox'[i].type = "connected" => mailbox'[i].connection <= connection'
      BY <1>1, <1>2 DEF Moved, Announcements
    <3> QED BY <2>4, <3>1 DEF Announcements
  <2>20. Greets'
    BY <2>13 DEF Greets
  <2>21. Lined'
    BY <1>1, <1>5, <2>4, <2>5, <2>12, <2>14 DEF Lined, Behind
  <2>22. Left'
    <3>1. \A n \in wrote : Follows(Registration, n)
      BY <2>16 DEF Known, Follows, Tied, Registration
    <3> QED BY <1>1, <2>15, <2>16, <3>1 DEF Left, Known
  <2>23. Held'
    <3>1. Registration \notin ToSet(pendingRemovals)
      BY LineTyped, RegistrationApart
    <3> QED BY <1>1, <1>5, <2>15, <3>1 DEF Held
  <2>24. KeptUntilFlushed'
    <3>1. Stored = Line \cup ToSet(pendingRemovals) /\ Stored' = Line' \cup ToSet(pendingRemovals')
      BY DEF Stored, Line
    <3> QED BY <1>1, <1>5, <2>15, <3>1 DEF KeptUntilFlushed
  <2>25. TypeOK'
    <3>1. sender' \in 0 .. MaxConnections
      BY <1>3, <1>5
    <3> QED BY <1>1, <1>2, <1>5, <2>11, <2>14, <3>1 DEF TypeOK, States, Protocols
  <2> QED BY <2>17, <2>18, <2>19, <2>20, <2>21, <2>22, <2>23, <2>24, <2>25
<1>6. \/ UNCHANGED <<sender, buffer, pendingRemovals, rx, state>> /\ hubProtocol' \in Protocols
      \/ /\ state # "shutting_down" /\ IsOpen(c)
         /\ state' = "connected" /\ sender' = c /\ hubProtocol' = "unknown"
         /\ rx' = rx \o <<Registration>> \o buffer /\ buffer' = <<>>
         /\ UNCHANGED pendingRemovals
  <2>1. CASE state = "shutting_down"
    <3>1. UNCHANGED <<connector, rx>>
      BY <2>1 DEF OnConnected
    <3> QED BY <3>1 DEF connector, TypeOK
  <2>2. CASE state # "shutting_down" /\ ~ IsOpen(c)
    <3>1. hubProtocol' = "unknown" /\ UNCHANGED <<state, sender, buffer, pendingRemovals, rx>>
      BY <2>2 DEF OnConnected
    <3> QED BY <3>1 DEF Protocols
  <2>3. CASE state # "shutting_down" /\ IsOpen(c)
    BY <2>3 DEF OnConnected
  <2> QED BY <2>1, <2>2, <2>3
<1> HIDE DEF c
<1> QED BY <1>4, <1>5, <1>6

LEMMA OnDisconnectedKept ==
  ASSUME LinkOK, OnDisconnected
  PROVE  LinkOK'
<1> USE DEF LinkOK, Linked
<1> DEFINE u == Head(mailbox).unsent
           stored == Storable(u) \o buffer
           all == u \o buffer
<1>1. /\ mailbox # <<>> /\ Handled /\ Head(mailbox).type = "disconnected"
      /\ buffer' = Enforced(stored) /\ sender' = 0 /\ hubProtocol' = "unknown"
      /\ evicted' = evicted \cup (ToSet(all) \ (ToSet(buffer') \cup {Registration}))
      /\ state' \in {state, "reconnecting"}
      /\ UNCHANGED <<pendingRemovals, accepted, wrote, flushed, withdrawn, greeted>>
      /\ UNCHANGED <<client, connection, rx, writing, inFlight, spoken, shutdown>>
  BY DEF OnDisconnected, Received, Buffered, RequeuedFront, task
<1>2. /\ mailbox' \in Seq(Events) /\ Moved(1)
      /\ Head(mailbox) = mailbox[1] /\ Head(mailbox) \in Events
      /\ 1 \in Unsent /\ HandedBack = ToSet(u) \cup HandedBack'
  BY <1>1, Takes
<1>3. u \in Seq(Frames) /\ InOrder(u) /\ Behind(ToSet(buffer), ToSet(u))
  BY <1>1, <1>2, EventTyped DEF Lined, Behind
<1>4. /\ rx = <<>> /\ ~ writing /\ inFlight = <<>>
      /\ client = "session" => sender # connection /\ greeted # connection
  BY <1>2 DEF Announcements, Sessions
<1>5. \A i \in Unsent' : i \in Int /\ i + 1 \in Unsent /\ mailbox'[i] = mailbox[i + 1] /\ 1 < i + 1
  <2>1. \A i \in Unsent' : i \in Int /\ i > 0 /\ i + 1 \in Unsent /\ mailbox'[i] = mailbox[i + 1]
    BY <1>2, UnsentMoved
  <2> QED BY <2>1
<1>6. \A i \in Unsent' : mailbox'[i].unsent = <<>>
  BY <1>2, <1>5 DEF Lined
<1>7. HandedBack' = {}
  <2>1. HandedBack' = UNION {ToSet(mailbox'[i].unsent) : i \in Unsent'}
    BY DEF HandedBack
  <2> QED BY <1>6, <2>1, EmptyInOrder
<1> HIDE DEF u
<1>8. Storable(u) \in Seq(Reports) /\ ToSet(Storable(u)) = ToSet(u) \ {Registration} /\ InOrder(Storable(u))
  BY <1>3, StorableIs
<1>9. /\ buffer \in Seq(Reports) /\ buffer \in Seq(Frames) /\ InOrder(buffer)
      /\ Registration \notin ToSet(buffer)
  BY LineTyped, RegistrationApart DEF TypeOK, Lined
<1>10. Behind(ToSet(buffer), ToSet(Storable(u)))
  BY <1>3, <1>8 DEF Behind
<1>11. stored \in Seq(Reports) /\ ToSet(stored) = (ToSet(u) \ {Registration}) \cup ToSet(buffer)
  BY <1>8, <1>9, ConcatInOrder
<1>12. InOrder(stored)
  BY <1>8, <1>9, <1>10, ConcatInOrder, Zenon
<1>13. ToSet(all) = ToSet(u) \cup ToSet(buffer)
  BY <1>3, <1>9, ConcatInOrder
<1> HIDE DEF stored, all
<1>14. /\ buffer' \in Seq(Reports) /\ InOrder(buffer')
       /\ ToSet(buffer') \subseteq (ToSet(u) \ {Registration}) \cup ToSet(buffer)
  BY <1>1, <1>11, <1>12, EnforcedInOrder
<1>15. evicted' = evicted \cup (((ToSet(u) \ {Registration}) \cup ToSet(buffer)) \ ToSet(buffer'))
  BY <1>1, <1>9, <1>13
<1>16. ToSet(inFlight) = {} /\ ToSet(rx) = {} /\ ToSet(inFlight') = {} /\ ToSet(rx') = {}
       /\ InOrder(inFlight') /\ InOrder(rx')
  BY <1>1, <1>4, EmptyInOrder
<1>17. Line = ToSet(u) \cup ToSet(buffer) /\ Line' = ToSet(buffer')
  BY <1>2, <1>7, <1>16 DEF Line
<1>18. Line' \subseteq Line /\ Line \ {Registration} \subseteq Line' \cup evicted'
  BY <1>14, <1>15, <1>17
<1>19. Stored = Line \cup ToSet(pendingRemovals) /\ Stored' = Line' \cup ToSet(pendingRemovals')
  BY DEF Stored, Line
<1>20. client = "session" => connection > 0
  BY DEF Sessions
<1>21. Known'
  BY <1>1, <1>18, <1>19 DEF Known
<1>22. Sessions'
  BY <1>1, <1>16 DEF Sessions, TypeOK
<1>23. Announcements'
  BY <1>1, <1>2, <1>4, <1>20, AnnouncementsKept
<1>24. Greets'
  BY <1>1, <1>4, <1>20 DEF Greets
<1>25. Lined'
  <2>1. Behind(ToSet(rx'), ToSet(inFlight'))
        /\ Behind(ToSet(buffer'), ToSet(inFlight') \cup ToSet(rx') \cup HandedBack')
    BY <1>7, <1>16 DEF Behind
  <2> QED BY <1>1, <1>6, <1>14, <1>16, <1>20, <2>1, EmptyInOrder DEF Lined
<1>26. Left' /\ Held'
  BY <1>1, <1>18 DEF Left, Held
<1>27. KeptUntilFlushed'
  <2>1. Registration \notin accepted
    BY RegistrationApart DEF TypeOK
  <2> QED BY <1>1, <1>15, <1>18, <1>19, <2>1 DEF KeptUntilFlushed
<1>28. TypeOK'
  <2>1. evicted' \subseteq Reports
    <3>1. ToSet(u) \ {Registration} \subseteq Reports /\ ToSet(buffer) \subseteq Reports
      BY <1>3, <1>9, SetOf DEF Frames
    <3> QED BY <1>15, <3>1 DEF TypeOK
  <2>2. sender' \in 0 .. MaxConnections
    BY <1>1, LinkAssumption
  <2> QED BY <1>1, <1>2, <1>14, <2>1, <2>2 DEF TypeOK, States, Protocols
<1> QED BY <1>21, <1>22, <1>23, <1>24, <1>25, <1>26, <1>27, <1>28

LEMMA OnReceivedKept ==
  ASSUME LinkOK, OnReceived
  PROVE  LinkOK'
<1> USE DEF LinkOK, Linked
<1>1. /\ mailbox # <<>> /\ Handled /\ Head(mailbox).type = "received"
      /\ hubProtocol' = Head(mailbox).protocol /\ pendingRemovals' = <<>>
      /\ UNCHANGED <<state, taskButRx, accepted, wrote, flushed, greeted>>
      /\ \/ SendOutbound(pendingRemovals) /\ UNCHANGED withdrawn
         \/ /\ withdrawn' = withdrawn \cup ToSet(pendingRemovals)
            /\ UNCHANGED <<sender, buffer, evicted, rx>>
  BY DEF OnReceived, Received
<1>2. /\ mailbox' \in Seq(Events) /\ Moved(1) /\ HandedBack' = HandedBack
      /\ hubProtocol' \in Protocols
  BY <1>1, Takes, EventTyped DEF Protocols
<1>3. /\ ToSet(pendingRemovals') = {} /\ InOrder(pendingRemovals') /\ pendingRemovals' \in Seq(Reports)
      /\ ToSet(pendingRemovals) \subseteq Reports /\ ToSet(pendingRemovals) \subseteq accepted
  <2>1. Registration \notin ToSet(pendingRemovals)
    BY LineTyped, RegistrationApart
  <2>2. ToSet(pendingRemovals) \subseteq accepted
    BY <2>1 DEF Known, Stored
  <2> QED BY <1>1, <2>2, EmptyInOrder, LineTyped
<1>4. UNCHANGED <<client, connection, writing, inFlight, spoken, shutdown>>
  BY <1>1 DEF taskButRx
<1>5. Stored = Line \cup ToSet(pendingRemovals) /\ Stored' = Line'
  BY <1>3 DEF Stored, Line
<1>6. Held'
  BY <1>3 DEF Held, Behind
<1>7. CASE SendOutbound(pendingRemovals) /\ UNCHANGED withdrawn
  <2>1. Sendable(pendingRemovals)
    <3>1. ASSUME NEW m \in ToSet(pendingRemovals), NEW n \in Line \cup wrote PROVE Follows(m, n)
      <4>1. m # n /\ m.kind = "removal"
        BY DEF Held
      <4>2. n \in accepted \/ n = Registration
        BY <1>5 DEF Known
      <4>3. CASE n = Registration
        BY <4>1, <4>3 DEF Follows, Tied, Registration
      <4>4. CASE n \in accepted /\ n.kind = "status"
        BY <4>4 DEF Held, Behind
      <4>5. CASE n.kind # "status"
        BY <4>1, <4>5 DEF Follows, Tied
      <4> QED BY <4>2, <4>3, <4>4, <4>5
    <3> QED BY <3>1 DEF Sendable, Behind, Held, TypeOK
  <2>2. /\ rx' \in Seq(Frames) /\ buffer' \in Seq(Reports) /\ sender' \in {0, sender}
        /\ evicted' \subseteq Reports
        /\ (Sessions /\ Announcements /\ Greets /\ Lined /\ Left)'
        /\ Line' \subseteq Line \cup ToSet(pendingRemovals)
        /\ Line \cup ToSet(pendingRemovals) \subseteq Line' \cup evicted' /\ evicted \subseteq evicted'
    BY <1>1, <1>2, <1>7, <2>1, Sent
  <2>3. Known'
    BY <1>1, <1>5, <2>2 DEF Known
  <2>4. KeptUntilFlushed'
    BY <1>1, <1>5, <1>7, <2>2 DEF KeptUntilFlushed
  <2>5. TypeOK'
    <3>1. sender' \in 0 .. MaxConnections
      BY <2>2, LinkAssumption DEF TypeOK
    <3> QED BY <1>1, <1>2, <1>3, <1>4, <1>7, <2>2, <3>1 DEF TypeOK
  <2> QED BY <1>6, <2>2, <2>3, <2>4, <2>5
<1>8. CASE /\ withdrawn' = withdrawn \cup ToSet(pendingRemovals)
           /\ UNCHANGED <<sender, buffer, evicted, rx>>
  <2>1. Line' = Line
    BY <1>2, <1>4, <1>8 DEF Line
  <2>2. Known' /\ Left' /\ KeptUntilFlushed'
    BY <1>1, <1>5, <1>8, <2>1 DEF Known, Left, KeptUntilFlushed
  <2>3. Sessions' /\ Greets'
    BY <1>1, <1>4, <1>8 DEF Sessions, Greets
  <2>4. Announcements'
    BY <1>1, <1>2, <1>4, <1>8, AnnouncementsKept
  <2>5. Lined'
    BY <1>2, <1>4, <1>8, UnsentMoved DEF Lined
  <2>6. TypeOK'
    BY <1>1, <1>2, <1>3, <1>4, <1>8 DEF TypeOK
  <2> QED BY <1>6, <2>2, <2>3, <2>4, <2>5, <2>6
<1> QED BY <1>1, <1>7, <1>8

-----------------------------------------------------------------------------
(* The theorems *)

LEMMA InitOK == Init => LinkOK
<1> SUFFICES ASSUME Init PROVE LinkOK
  OBVIOUS
<1>1. TypeOK
  <2>1. 0 \in 0 .. MaxConnections
    BY LinkAssumption
  <2>2. /\ <<>> \in Seq(Reports) /\ <<>> \in Seq(Frames) /\ <<>> \in Seq(Events)
    OBVIOUS
  <2> QED BY <2>1, <2>2 DEF Init, TypeOK, States, Clients, Protocols
<1>2. Unsent = {} /\ Announced = {}
  BY DEF Init, Unsent, Announced
<1>3. HandedBack = {}
  BY <1>2, Back
<1>4. Line = {} /\ Stored = {}
  BY <1>3, EmptyInOrder DEF Init, Line, Stored
<1>5. Known
  BY <1>4, FS_EmptySet DEF Init, Known
<1>6. Sessions /\ Announcements /\ Greets /\ KeptUntilFlushed
  BY <1>2, EmptyInOrder DEF Init, Sessions, Announcements, Greets, KeptUntilFlushed
<1>7. Lined /\ Left /\ Held
  BY <1>2, <1>3, <1>4, EmptyInOrder DEF Init, Lined, Left, Held, Behind
<1> QED BY <1>1, <1>5, <1>6, <1>7 DEF LinkOK, Linked

\* What a step writes for the first time follows what was written.
WritesFollow == \A m \in wrote' \ wrote, n \in wrote : Follows(m, n)

LEMMA NextOK == LinkOK /\ [Next]_vars => LinkOK' /\ WritesFollow
<1> SUFFICES ASSUME LinkOK, [Next]_vars PROVE LinkOK' /\ WritesFollow
  OBVIOUS
<1>1. CASE Feed
  BY <1>1, FeedKept DEF WritesFollow
<1>2. ASSUME wrote' = wrote PROVE WritesFollow
  BY <1>2 DEF WritesFollow
<1>3. ASSUME NEW d \in Polled, DeviceStatus(d) PROVE LinkOK' /\ WritesFollow
  BY <1>2, <1>3, DeviceStatusKept DEF DeviceStatus
<1>4. ASSUME NEW d \in Devices, DeviceRemoved(d) PROVE LinkOK' /\ WritesFollow
  BY <1>2, <1>4, DeviceRemovedKept DEF DeviceRemoved
<1>5. CASE DeviceAlert
  BY <1>2, <1>5, DeviceAlertKept DEF DeviceAlert
<1>6. CASE HeartbeatFails \/ Connect \/ Disconnect \/ StopsRetrying \/ OnStopped
  <2>1. wrote' = wrote
    BY <1>6 DEF HeartbeatFails, Connect, Disconnect, StopsRetrying, OnStopped, history
  <2> QED BY <1>2, <1>6, <2>1, QuietSteps
<1>7. CASE ConnectSucceeds
  BY <1>2, <1>7, ConnectSucceedsKept DEF ConnectSucceeds, history
<1>8. ASSUME NEW p \in Protocols \ {"unknown"}, HubSpeaks(p) PROVE LinkOK' /\ WritesFollow
  BY <1>2, <1>8, HubSpeaksKept DEF HubSpeaks, history
<1>9. CASE Flush
  BY <1>2, <1>9, FlushKept DEF Flush
<1>10. CASE FlushFails \/ FeedFails \/ ConnectionLost \/ ShutsDown
  <2>1. wrote' = wrote
    BY <1>10 DEF FlushFails, FeedFails, ConnectionLost, ShutsDown, EndSession, history
  <2> QED BY <1>2, <1>10, <2>1, SessionEnds
<1>11. CASE OnConnected
  BY <1>2, <1>11, OnConnectedKept DEF OnConnected, history
<1>12. CASE OnDisconnected
  BY <1>2, <1>12, OnDisconnectedKept DEF OnDisconnected
<1>13. CASE OnReceived
  BY <1>2, <1>13, OnReceivedKept DEF OnReceived
<1>14. CASE UNCHANGED vars
  <2>1. /\ UNCHANGED <<state, sender, buffer, hubProtocol, pendingRemovals>>
        /\ UNCHANGED <<client, connection, rx, writing, inFlight, spoken, shutdown, mailbox, history>>
    BY <1>14 DEF vars, connector, task
  <2>2. UNCHANGED <<accepted, wrote, flushed, evicted, withdrawn, greeted>>
    BY <2>1 DEF history
  <2>3. Linked'
    BY <2>1, MailboxSame, QuietKept DEF LinkOK, TypeOK
  <2>4. TypeOK'
    BY <2>1, <2>2 DEF LinkOK, TypeOK
  <2> QED BY <1>2, <2>2, <2>3, <2>4 DEF LinkOK
<1> QED BY <1>1, <1>3, <1>4, <1>5, <1>6, <1>7, <1>8, <1>9, <1>10, <1>11, <1>12, <1>13, <1>14
      DEF Next, Write, Stop, Handle

\* The link's state keeps its types and the invariant.
THEOREM LinkCorrect == Spec => []LinkOK
  BY InitOK, NextOK, PTL DEF Spec

\* The state keeps its types, however many sessions begin and end.
THEOREM TypeCorrect == Spec => []TypeOK
<1>1. LinkOK => TypeOK
  BY DEF LinkOK
<1> QED BY <1>1, LinkCorrect, PTL

LEMMA OnceOnly == LinkOK => KeptOnce
<1> SUFFICES ASSUME LinkOK PROVE KeptOnce
  OBVIOUS
<1> USE DEF LinkOK, Linked
<1>1. flushed \cap Stored = {}
  <2>1. Stored = Line \cup ToSet(pendingRemovals)
    BY DEF Stored, Line
  <2> QED BY <2>1 DEF Left, Held, Known
<1>2. \A s \in {buffer, rx, inFlight, pendingRemovals} : IsInjective(s)
  <2>1. IsInjective(buffer) /\ IsInjective(rx) /\ IsInjective(inFlight) /\ IsInjective(pendingRemovals)
    BY InOrderInjective DEF TypeOK, Lined, Held
  <2> QED BY <2>1
<1>3. ToSet(buffer) \cap (ToSet(rx) \cup ToSet(inFlight) \cup HandedBack) = {}
  BY DEF Lined, Behind, Follows
<1>4. ToSet(rx) \cap (ToSet(inFlight) \cup (HandedBack \ {Registration})) = {}
  <2>1. ToSet(rx) \cap ToSet(inFlight) = {}
    BY DEF Lined, Behind, Follows
  <2>2. CASE rx = <<>>
    BY <2>2, EmptyInOrder
  <2>3. CASE rx # <<>>
    <3>1. Unsent = {}
      BY <2>3 DEF Sessions, Announcements
    <3>2. HandedBack = {}
      BY <3>1, Back
    <3> QED BY <2>1, <3>2
  <2> QED BY <2>2, <2>3
<1> QED BY <1>1, <1>2, <1>3, <1>4 DEF KeptOnce, NeverTwice

\* An alert or removal is in one place until it was flushed, and is not sent again
\* afterwards, for any number of devices, reports, connections and limits.
THEOREM LinkLosesNothing == Spec => []KeptOnce
  BY LinkCorrect, OnceOnly, PTL

\* What is written is in order: the registration first on every connection, and
\* first writes over all of them in the order of the reports.
THEOREM LinkWritesInOrder == Spec => WritesInOrder
<1>1. LinkOK => RegistersFirst
  BY DEF LinkOK, Linked, Sessions, Greets, RegistersFirst
<1>2. WritesFollow =>
        \A m \in wrote' \ wrote, n \in wrote :
          \/ m.kind = "alert" /\ n.kind = "alert"
          \/ m.kind = "removal" /\ n.kind = "status" /\ m.device = n.device
          => n.id < m.id
  BY DEF WritesFollow, Follows, Tied
<1>3. LinkOK /\ [Next]_vars =>
        [\A m \in wrote' \ wrote, n \in wrote :
          \/ m.kind = "alert" /\ n.kind = "alert"
          \/ m.kind = "removal" /\ n.kind = "status" /\ m.device = n.device
          => n.id < m.id]_vars
  BY <1>2, NextOK
<1> QED BY <1>1, <1>3, LinkCorrect, PTL DEF Spec, WritesInOrder, FirstWritesInOrder

-----------------------------------------------------------------------------
(* The simulated edge                                                      *)

SimTypes ==
  /\ scenario \in {"offline", "reconnect"}
  /\ where \in {"connects", "session", "sweeps", "closes", "backs_off", "pauses", "stopped"}
  /\ where = "closes" => after \in {"stopped", "backs_off", "pauses"}
  /\ patience \in Int /\ wait \in Nat
  /\ attempt \in Nat /\ reader \subseteq [old : BOOLEAN, doing : {"wake", "send", "nothing"}]
  /\ left \in Int /\ since \in Nat /\ interval \in Nat \ {0} /\ period \in Nat
  /\ where = "sweeps" => left <= 0 /\ period > 0
  /\ life \in {"active", "silent", "removed"}
  /\ sent \in Seq({"status", "removal", "one_left", "none_left"})

\* What is left of main's wait covers what is left of the edge's.
PatienceCovers ==
  /\ run = "running" \/ where \in {"connects", "session", "sweeps"} => patience = ExitTimeout
  /\ where = "closes" => patience > wait + (IF after = "pauses" THEN Pause ELSE 0)
  /\ where = "pauses" => patience > wait
  /\ where = "backs_off" => patience > 0
  /\ seen => where = "stopped" \/ (where = "closes" /\ after = "stopped")

\* A change of the interval that the loop does not know yet wakes it.
NoWakePending == ~permit /\ \A r \in reader : r.doing # "wake"
IntervalKnown ==
  NoWakePending => /\ where = "session" => left + since <= interval
                   /\ where = "sweeps" => period = interval

\* A snapshot that is on its way.  No time passes until it is sent, in which two sweeps
\* fit, the second when the first was an interval late.
Pending == \E r \in reader : r.doing = "send" /\ ~r.old
SnapshotIsFresh ==
  /\ where \in {"connects", "backs_off", "pauses"} => \A r \in reader : r.old
  /\ Pending /\ where \in {"session", "sweeps"} =>
       \/ life = "active"
       \/ /\ life = "silent" /\ silent = 0
          /\ where = "session" => left >= 0 /\ since = 0
       \/ /\ life = "silent" /\ silent = 1
          /\ where = "session" => left > 0 /\ since = 0
          /\ where = "sweeps" => left = 0

\* The hub's session does not have the device once it took the first n reports.
Unlisted(n) ==
  \/ \E j \in 1 .. n : sent[j] = "removal" /\ \A k \in j .. n : sent[k] # "status"
  \/ ~listed /\ \A k \in 1 .. n : sent[k] # "status"
ReportsInOrder ==
  /\ \A i \in 1 .. Len(sent) : sent[i] = "none_left" => Unlisted(i)
  /\ life = "removed" => Unlisted(Len(sent))
  /\ life # "removed" => \A i \in 1 .. Len(sent) : sent[i] \in {"status", "one_left"}

SimInv == SimTypes /\ PatienceCovers /\ IntervalKnown /\ SnapshotIsFresh /\ ReportsInOrder

LEMMA BackoffIsTime == ASSUME attempt \in Nat PROVE Backoff \in Nat
<1>1. Len(Backoffs) \in Nat /\ Len(Backoffs) # 0
  BY SimAssumption
<1> DEFINE n == IF attempt < Len(Backoffs) THEN attempt + 1 ELSE Len(Backoffs)
<1>2. n \in 1 .. Len(Backoffs)
  BY <1>1
<1>3. \A m \in 1 .. Len(Backoffs) : Backoffs[m] \in Nat
  BY SimAssumption
<1>4. Backoff = Backoffs[n]
  BY DEF Backoff
<1> QED BY <1>2, <1>3, <1>4

LEMMA ReplacedAreOld ==
  ASSUME SimTypes
  PROVE  /\ Replaced \subseteq [old : BOOLEAN, doing : {"wake", "send", "nothing"}]
         /\ \A r \in Replaced : r.old
         /\ \A r \in reader : \E q \in Replaced : q.doing = r.doing
<1>1. ASSUME NEW r \in reader
      PROVE  /\ [r EXCEPT !.old = TRUE] \in [old : BOOLEAN, doing : {"wake", "send", "nothing"}]
             /\ [r EXCEPT !.old = TRUE].old = TRUE
             /\ [r EXCEPT !.old = TRUE].doing = r.doing
  BY DEF SimTypes
<1>2. Replaced \subseteq [old : BOOLEAN, doing : {"wake", "send", "nothing"}]
  BY <1>1 DEF Replaced
<1>3. ASSUME NEW q \in Replaced PROVE q.old
  <2>1. PICK r \in reader : q = [r EXCEPT !.old = TRUE]
    BY DEF Replaced
  <2>2. q.old = TRUE
    BY <1>1, <2>1, Zenon
  <2> QED BY <2>2, Zenon
<1>4. ASSUME NEW r \in reader PROVE \E q \in Replaced : q.doing = r.doing
  <2>1. [r EXCEPT !.old = TRUE] \in Replaced
    BY DEF Replaced
  <2> QED BY <1>1, <2>1, Zenon
<1> QED BY <1>2, <1>3, <1>4

\* What a sweep adds to the reports, one behind the other.
LEMMA DeviceReports ==
  ASSUME SimTypes, Device
  PROVE  \/ scenario = "reconnect" /\ UNCHANGED <<life, silent, sent>>
         \/ /\ scenario = "offline" /\ life = "active" /\ life' = "active"
            /\ sent' = Append(Append(sent, "status"), "one_left")
         \/ /\ scenario = "offline" /\ life = "active" /\ life' = "silent" /\ silent' = 0
            /\ sent' = Append(sent, "one_left")
         \/ /\ life = "silent" /\ life' = "silent" /\ silent' = silent + 1
            /\ sent' = Append(sent, "one_left")
         \/ /\ life = "silent" /\ life' = "removed" /\ silent + 1 >= RemoveAfter
            /\ sent' = Append(Append(sent, "removal"), "none_left")
         \/ /\ life = "removed" /\ life' = "removed"
            /\ sent' = Append(sent, "none_left")
<1>1. /\ sent \o <<>> = sent
      /\ \A x, y : sent \o <<x>> = Append(sent, x)
                 /\ sent \o <<x>> \o <<y>> = Append(Append(sent, x), y)
  BY DEF SimTypes
<1>2. CASE life = "active"
  BY <1>1, <1>2 DEF Device, Lives
<1>3. CASE life = "silent"
  BY <1>1, <1>3 DEF Device, Lives
<1>4. CASE life = "removed"
  BY <1>1, <1>4 DEF Device, Lives
<1> QED BY <1>2, <1>3, <1>4 DEF SimTypes

LEMMA SimTypesStay ==
  ASSUME SimTypes, [SimNext]_simVars PROVE SimTypes'
<1> USE DEF runVars, driveVars, timeVars, deviceVars, reportVars
<1>0. CloseTimeout \in Nat /\ Pause \in Nat /\ ExitTimeout \in Int
  BY SimAssumption
<1>1. CASE UNCHANGED simVars
  BY <1>1 DEF SimTypes, simVars
<1>2. CASE RunEnds \/ OthersFail \/ OldCloses
  BY <1>2 DEF RunEnds, OthersFail, OldCloses, SimTypes
<1>3. CASE Connects
  BY <1>3 DEF Connects, SimTypes
<1>4. CASE ConnectFails
  BY <1>4, BackoffIsTime DEF ConnectFails, Attempted, SimTypes
<1>5. CASE ConnectRefused \/ ConnectStirred \/ BackoffEnds \/ PauseEnds
  BY <1>5 DEF ConnectRefused, ConnectStirred, BackoffEnds, PauseEnds, Again, SimTypes
<1>6. CASE Dropped \/ SessionStops
  BY <1>0, <1>6 DEF Dropped, SessionStops, StartsClose, Settled, Leaves, SimTypes
<1>7. CASE CloseEnded
  <2>1. where' \in {"stopped", "backs_off", "pauses"} /\ wait' \in Nat /\ attempt' \in Nat
    <3>1. CASE after = "stopped"
      BY <1>7, <3>1 DEF CloseEnded, SimTypes
    <3>2. CASE after = "backs_off"
      BY <1>7, <3>2, BackoffIsTime DEF CloseEnded, Attempted, SimTypes
    <3>3. CASE after = "pauses"
      BY <1>0, <1>7, <3>3 DEF CloseEnded, SimTypes
    <3> QED BY <3>1, <3>2, <3>3, <1>7 DEF CloseEnded, SimTypes
  <2> QED BY <1>7, <2>1, ReplacedAreOld DEF CloseEnded, SimTypes
<1>8. CASE Sweeps
  <2>1. life' \in {"active", "silent", "removed"}
        /\ sent' \in Seq({"status", "removal", "one_left", "none_left"})
    BY <1>8, DeviceReports DEF Sweeps, SimTypes
  <2> QED BY <1>8, <2>1 DEF Sweeps, SimTypes
<1>9. CASE SweepDone
  BY <1>0, <1>9, ReplacedAreOld DEF SweepDone, StartsClose, Leaves, Again, SimTypes
<1>10. CASE Wakes
  BY <1>10 DEF Wakes, SimTypes
<1>11. ASSUME NEW isOld \in BOOLEAN, NEW i \in Intervals, ReadsConfig(isOld, i) PROVE SimTypes'
  BY <1>11, SimAssumption DEF ReadsConfig, Reads, SimTypes
<1>12. ASSUME NEW isOld \in BOOLEAN, ReadsResend(isOld) PROVE SimTypes'
  BY <1>12 DEF ReadsResend, Reads, SimTypes
<1>13. ASSUME NEW r \in reader, ReaderWakes(r) \/ ReaderSends(r) PROVE SimTypes'
  <2>1. CASE ReaderWakes(r)
    BY <1>13, <2>1 DEF ReaderWakes, SimTypes
  <2>2. CASE ReaderSends(r)
    <3>1. sent' \in {sent, Append(sent, "status")}
      BY <2>2 DEF ReaderSends
    <3>2. sent' \in Seq({"status", "removal", "one_left", "none_left"})
      BY <3>1 DEF SimTypes
    <3> QED BY <2>2, <3>2 DEF ReaderSends, SimTypes
  <2> QED BY <1>13, <2>1, <2>2
<1>14. CASE HubTakes
  BY <1>14 DEF HubTakes, SimTypes
<1>15. CASE SimTick
  BY <1>15 DEF SimTick, Ready, SimTypes
<1> QED BY <1>1, <1>2, <1>3, <1>4, <1>5, <1>6, <1>7, <1>8, <1>9, <1>10, <1>11, <1>12, <1>13, <1>14,
           <1>15 DEF SimNext

\* What main's wait depends on.
LEMMA PatienceUnseen ==
  ASSUME PatienceCovers, UNCHANGED <<run, where, patience, wait, after, seen>> PROVE PatienceCovers'
BY DEF PatienceCovers

LEMMA PatienceStays ==
  ASSUME SimTypes, PatienceCovers, [SimNext]_simVars PROVE PatienceCovers'
<1> USE DEF runVars, driveVars
<1>0. CloseTimeout \in Nat /\ Pause \in Nat /\ ExitTimeout \in Int
      /\ CloseTimeout + Pause < ExitTimeout
  BY SimAssumption
<1>1. CASE UNCHANGED simVars
  BY <1>1, PatienceUnseen DEF simVars
<1>2. CASE RunEnds \/ OthersFail
  BY <1>2 DEF RunEnds, OthersFail, Fatal, PatienceCovers
<1>3. CASE Connects
  BY <1>3 DEF Connects, PatienceCovers
<1>4. CASE ConnectFails
  BY <1>0, <1>4 DEF ConnectFails, PatienceCovers
<1>5. CASE ConnectRefused \/ ConnectStirred
  BY <1>5 DEF ConnectRefused, ConnectStirred, Again, Fatal, Stirred, Stirs, PatienceCovers
<1>6. CASE BackoffEnds \/ PauseEnds
  BY <1>6 DEF BackoffEnds, PauseEnds, Again, Stirred, Stirs, PatienceCovers
<1>7. CASE Dropped \/ SessionStops
  BY <1>0, <1>7 DEF Dropped, SessionStops, StartsClose, Stirred, Stirs, PatienceCovers
<1>8. CASE CloseEnded
  <2>1. wait \in Nat /\ patience \in Int
    BY DEF SimTypes
  <2>2. CASE after = "stopped"
    BY <1>8, <2>2 DEF CloseEnded, PatienceCovers
  <2>3. CASE after = "backs_off"
    BY <1>8, <2>1, <2>3 DEF CloseEnded, PatienceCovers
  <2>4. CASE after = "pauses"
    BY <1>0, <1>8, <2>1, <2>4 DEF CloseEnded, PatienceCovers
  <2> QED BY <1>8, <2>2, <2>3, <2>4 DEF CloseEnded, SimTypes
<1>9. CASE Sweeps
  BY <1>9 DEF Sweeps, PatienceCovers
<1>10. CASE SweepDone
  <2>1. where = "sweeps" /\ UNCHANGED <<run, seen, patience>>
    BY <1>10 DEF SweepDone, Again
  <2>2. \/ where' = "session"
        \/ where' = IF run = "running" THEN "connects" ELSE "stopped"
        \/ where' = "closes" /\ after' = "pauses" /\ wait' = CloseTimeout
    BY <1>10 DEF SweepDone, Again, StartsClose
  <2> QED BY <1>0, <2>1, <2>2 DEF PatienceCovers
<1>11. CASE OldCloses \/ Wakes \/ HubTakes
  BY <1>11, PatienceUnseen DEF OldCloses, Wakes, HubTakes
<1>12. ASSUME NEW isOld \in BOOLEAN, ReadsResend(isOld) \/ \E i \in Intervals : ReadsConfig(isOld, i)
       PROVE  PatienceCovers'
  BY <1>12, PatienceUnseen DEF ReadsConfig, ReadsResend
<1>13. ASSUME NEW r \in reader, ReaderWakes(r) \/ ReaderSends(r) PROVE PatienceCovers'
  BY <1>13, PatienceUnseen DEF ReaderWakes, ReaderSends
<1>14. CASE SimTick
  <2>1. /\ UNCHANGED <<run, seen, where, after>> /\ ~Ready
        /\ patience' = IF run = "running" THEN patience ELSE patience - 1
        /\ wait' = IF wait > 0 THEN wait - 1 ELSE 0
        /\ where = "closes" => wait > 0
        /\ run # "running" => where # "stopped"
    BY <1>14 DEF SimTick
  <2>2. wait \in Nat /\ patience \in Int
    BY DEF SimTypes
  <2>3. CASE run = "running"
    BY <1>0, <2>1, <2>2, <2>3 DEF PatienceCovers
  <2>4. CASE run # "running"
    <3>1. where \in {"closes", "pauses"} /\ wait > 0
      <4>1. where # "sweeps" /\ (where = "pauses" => wait # 0)
        BY <2>1 DEF Ready
      <4>2. where \notin Listening
        <5>1. where \in Listening => ~seen
          BY DEF PatienceCovers, Listening
        <5> QED BY <2>1, <2>4, <5>1 DEF Ready, Stirs
      <4> QED BY <2>1, <2>2, <2>4, <4>1, <4>2 DEF SimTypes, Listening
    <3> QED BY <1>0, <2>1, <2>2, <2>4, <3>1 DEF PatienceCovers
  <2> QED BY <2>3, <2>4
<1> QED BY <1>1, <1>2, <1>3, <1>4, <1>5, <1>6, <1>7, <1>8, <1>9, <1>10, <1>11, <1>12, <1>13, <1>14
        DEF SimNext

LEMMA IntervalUnseen ==
  ASSUME IntervalKnown, UNCHANGED <<permit, reader, where, left, since, interval, period>>
  PROVE  IntervalKnown'
BY DEF IntervalKnown, NoWakePending

LEMMA IntervalStays ==
  ASSUME SimTypes, IntervalKnown, [SimNext]_simVars PROVE IntervalKnown'
<1> USE DEF driveVars, timeVars
<1>1. CASE UNCHANGED simVars
  BY <1>1, IntervalUnseen DEF simVars
<1>2. CASE RunEnds \/ OthersFail \/ OldCloses \/ HubTakes
  BY <1>2, IntervalUnseen DEF RunEnds, OthersFail, OldCloses, HubTakes
<1>3. CASE Connects
  BY <1>3 DEF Connects, IntervalKnown, NoWakePending, SimTypes
\* Outside a session and a sweep nothing is claimed.
<1>4. CASE where' \notin {"session", "sweeps"}
  BY <1>4 DEF IntervalKnown
<1>5. CASE ConnectFails \/ ConnectRefused \/ ConnectStirred \/ BackoffEnds \/ PauseEnds \/ Dropped
             \/ SessionStops \/ CloseEnded
  <2>1. CASE ConnectFails \/ ConnectRefused \/ Dropped \/ SessionStops
    BY <1>4, <2>1 DEF ConnectFails, ConnectRefused, Dropped, SessionStops, StartsClose
  <2>2. CASE ConnectStirred \/ BackoffEnds \/ PauseEnds
    BY <1>4, <2>2 DEF ConnectStirred, BackoffEnds, PauseEnds, Again
  <2>3. CASE CloseEnded
    <3>1. where' \in {"stopped", "backs_off", "pauses"}
      BY <2>3 DEF CloseEnded, SimTypes
    <3> QED BY <1>4, <3>1
  <2> QED BY <1>5, <2>1, <2>2, <2>3
<1>6. CASE Sweeps
  BY <1>6 DEF Sweeps, IntervalKnown, NoWakePending
<1>7. CASE SweepDone
  <2>1. \/ where' \notin {"session", "sweeps"}
        \/ /\ where' = "session" /\ since' = 0
           /\ left' = IF left + period > 0 THEN left + period ELSE 0
           /\ UNCHANGED <<reader, permit, interval>>
    BY <1>7 DEF SweepDone, Again, StartsClose
  <2>2. where = "sweeps"
    BY <1>7 DEF SweepDone, Again
  <2> QED BY <1>4, <2>1, <2>2 DEF IntervalKnown, NoWakePending, SimTypes
<1>8. CASE Wakes
  BY <1>8 DEF Wakes, IntervalKnown, SimTypes
<1>9. ASSUME NEW isOld \in BOOLEAN, NEW i \in Intervals, ReadsConfig(isOld, i) PROVE IntervalKnown'
  <2>1. PICK r \in reader' : r = [old |-> isOld, doing |-> "wake"]
    BY <1>9 DEF ReadsConfig, Reads
  <2>2. r.doing = "wake"
    BY <2>1
  <2> QED BY <2>2 DEF IntervalKnown, NoWakePending
<1>10. ASSUME NEW isOld \in BOOLEAN, ReadsResend(isOld) PROVE IntervalKnown'
  <2>1. NoWakePending' => NoWakePending
    BY <1>10 DEF ReadsResend, Reads, NoWakePending
  <2> QED BY <1>10, <2>1 DEF ReadsResend, IntervalKnown
<1>11. ASSUME NEW r \in reader, ReaderWakes(r) PROVE IntervalKnown'
  BY <1>11 DEF ReaderWakes, IntervalKnown, NoWakePending
<1>12. ASSUME NEW r \in reader, ReaderSends(r) PROVE IntervalKnown'
  <2>1. NoWakePending' => NoWakePending
    BY <1>12 DEF ReaderSends, NoWakePending
  <2> QED BY <1>12, <2>1 DEF ReaderSends, IntervalKnown
<1>13. CASE SimTick
  <2>1. NoWakePending' => NoWakePending
    BY <1>13 DEF SimTick, NoWakePending
  <2> QED BY <1>13, <2>1 DEF SimTick, Ready, IntervalKnown, SimTypes
<1> QED BY <1>1, <1>2, <1>3, <1>5, <1>6, <1>7, <1>8, <1>9, <1>10, <1>11, <1>12, <1>13 DEF SimNext

LEMMA FreshUnseen ==
  ASSUME SnapshotIsFresh, reader' \subseteq reader,
         UNCHANGED <<where, left, since, life, silent>>
  PROVE  SnapshotIsFresh'
BY DEF SnapshotIsFresh, Pending

\* Once its connection is replaced, what a reader sends is lost.
LEMMA FreshAllOld ==
  ASSUME \A r \in reader' : r.old PROVE SnapshotIsFresh'
BY DEF SnapshotIsFresh, Pending

LEMMA FreshStays ==
  ASSUME SimTypes, SnapshotIsFresh, [SimNext]_simVars PROVE SnapshotIsFresh'
<1> USE DEF driveVars, timeVars, deviceVars
<1>1. CASE UNCHANGED simVars
  BY <1>1, FreshUnseen DEF simVars
<1>2. CASE RunEnds \/ OthersFail \/ OldCloses \/ HubTakes
  BY <1>2, FreshUnseen DEF RunEnds, OthersFail, OldCloses, HubTakes
<1>3. CASE Connects \/ ConnectFails \/ ConnectRefused \/ ConnectStirred \/ BackoffEnds \/ PauseEnds
  <2>1. where \in {"connects", "backs_off", "pauses"} /\ reader' = reader
    BY <1>3 DEF Connects, ConnectFails, ConnectRefused, ConnectStirred, BackoffEnds, PauseEnds, Again
  <2>2. \A r \in reader' : r.old
    BY <2>1 DEF SnapshotIsFresh
  <2> QED BY <2>2, FreshAllOld
<1>4. CASE Dropped \/ SessionStops
  BY <1>4 DEF Dropped, SessionStops, StartsClose, SnapshotIsFresh
<1>5. CASE CloseEnded
  <2>1. reader' = Replaced
    BY <1>5 DEF CloseEnded
  <2>2. \A r \in reader' : r.old
    BY <2>1, ReplacedAreOld
  <2> QED BY <2>2, FreshAllOld
<1>6. CASE Sweeps
  <2>1. where = "session" /\ where' = "sweeps" /\ left <= 0 /\ UNCHANGED <<left, since, reader>>
    BY <1>6 DEF Sweeps
  <2>2. ASSUME Pending
        PROVE  life' = "active" \/ (life' = "silent" /\ silent' = 0)
                 \/ (life' = "silent" /\ silent' = 1 /\ left = 0)
    <3>1. CASE life = "active"
      BY <1>6, <3>1, DeviceReports DEF Sweeps
    <3>2. CASE life = "silent" /\ silent = 0 /\ left >= 0
      <4>1. left = 0
        BY <2>1, <3>2 DEF SimTypes
      <4>2. ~(silent + 1 >= RemoveAfter)
        BY <3>2, SimAssumption
      <4> QED BY <1>6, <3>2, <4>1, <4>2, DeviceReports DEF Sweeps
    <3>3. ~(left > 0)
      BY <2>1 DEF SimTypes
    <3> QED BY <2>1, <2>2, <3>1, <3>2, <3>3 DEF SnapshotIsFresh
  <2>3. Pending' = Pending
    BY <2>1 DEF Pending
  <2> QED BY <2>1, <2>2, <2>3 DEF SnapshotIsFresh
<1>7. CASE SweepDone
  <2>1. /\ where = "sweeps" /\ UNCHANGED <<life, silent>>
        /\ \/ /\ where' = "session" /\ since' = 0 /\ reader' = reader
              /\ left' = IF left + period > 0 THEN left + period ELSE 0
           \/ reader' = Replaced
           \/ where' = "closes"
    BY <1>7 DEF SweepDone, Again, StartsClose
  <2>2. CASE where' = "session" /\ since' = 0 /\ reader' = reader
               /\ left' = IF left + period > 0 THEN left + period ELSE 0
    <3>1. left' >= 0 /\ (left = 0 => left' > 0)
      BY <2>1, <2>2 DEF SimTypes
    <3>2. Pending' = Pending
      BY <2>2 DEF Pending
    <3> QED BY <2>1, <2>2, <3>1, <3>2 DEF SnapshotIsFresh
  <2>3. CASE reader' = Replaced
    <3>1. \A r \in reader' : r.old
      BY <2>3, ReplacedAreOld
    <3> QED BY <3>1, FreshAllOld
  <2>4. CASE where' = "closes"
    BY <2>4 DEF SnapshotIsFresh
  <2> QED BY <2>1, <2>2, <2>3, <2>4
<1>8. CASE Wakes
  <2>1. /\ where = "session" /\ left' = interval - since
        /\ UNCHANGED <<where, since, reader, life, silent>>
    BY <1>8 DEF Wakes
  <2>2. since = 0 => left' > 0 /\ left' >= 0
    BY <2>1 DEF SimTypes
  <2>3. Pending' = Pending
    BY <2>1 DEF Pending
  <2> QED BY <2>1, <2>2, <2>3 DEF SnapshotIsFresh
<1>9. ASSUME NEW isOld \in BOOLEAN, NEW doing \in {"wake", "send", "nothing"},
             Reads(isOld, doing), doing = "send" => life = "active",
             UNCHANGED <<where, left, since, life, silent>>
      PROVE  SnapshotIsFresh'
  <2> DEFINE n == [old |-> isOld, doing |-> doing]
  <2>1. reader' = reader \cup {n} /\ n.doing = doing
    BY <1>9 DEF Reads
  <2>2. CASE isOld = TRUE
    <3>1. n.old = TRUE
      BY <2>2
    <3>2. n.old
      BY <3>1, Zenon
    <3> HIDE DEF n
    <3>3. Pending' => Pending
      BY <2>1, <3>2 DEF Pending
    <3>4. where' \in {"connects", "backs_off", "pauses"} => \A r \in reader' : r.old
      BY <1>9, <2>1, <3>2 DEF SnapshotIsFresh
    <3> QED BY <1>9, <3>3, <3>4 DEF SnapshotIsFresh
  <2>3. CASE isOld = FALSE
    <3>1. where \in {"session", "sweeps"}
      BY <1>9, <2>3 DEF Reads, Hears
    <3> HIDE DEF n
    <3>2. Pending' => Pending \/ doing = "send"
      BY <2>1 DEF Pending
    <3> QED BY <1>9, <3>1, <3>2 DEF SnapshotIsFresh
  <2> QED BY <2>2, <2>3
<1>10. ASSUME NEW isOld \in BOOLEAN, NEW i \in Intervals, ReadsConfig(isOld, i)
       PROVE  SnapshotIsFresh'
  BY <1>9, <1>10 DEF ReadsConfig
<1>11. ASSUME NEW isOld \in BOOLEAN, ReadsResend(isOld) PROVE SnapshotIsFresh'
  <2> DEFINE doing == IF life = "active" /\ scenario = "offline" THEN "send" ELSE "nothing"
  <2>1. Reads(isOld, doing) /\ UNCHANGED <<where, left, since, life, silent>>
    BY <1>11 DEF ReadsResend
  <2>2. doing \in {"wake", "send", "nothing"} /\ (doing = "send" => life = "active")
    OBVIOUS
  <2> HIDE DEF doing
  <2> QED BY <1>9, <2>1, <2>2
<1>12. ASSUME NEW r \in reader, ReaderWakes(r) \/ ReaderSends(r) PROVE SnapshotIsFresh'
  BY <1>12, FreshUnseen DEF ReaderWakes, ReaderSends
<1>13. CASE SimTick
  <2>1. reader' = {}
    BY <1>13 DEF SimTick
  <2> QED BY <2>1, FreshAllOld
<1> QED BY <1>1, <1>2, <1>3, <1>4, <1>5, <1>6, <1>7, <1>8, <1>10, <1>11, <1>12, <1>13 DEF SimNext

SimReports == {"status", "removal", "one_left", "none_left"}

LEMMA ReportsUnseen ==
  ASSUME ReportsInOrder, UNCHANGED <<sent, listed, life>> PROVE ReportsInOrder'
BY DEF ReportsInOrder, Unlisted

\* What a report does at the end of those on the way.
LEMMA ReportAdded ==
  ASSUME NEW q \in Seq(SimReports), NEW x \in SimReports
  PROVE  /\ Append(q, x) \in Seq(SimReports) /\ Len(Append(q, x)) = Len(q) + 1 /\ Len(q) \in Nat
         /\ Append(q, x)[Len(q) + 1] = x
         /\ \A i \in 1 .. Len(q) : Append(q, x)[i] = q[i]
OBVIOUS

\* As long as there is a device to report, no report says otherwise.
LEMMA ReportsOfDevice ==
  ASSUME SimTypes, ReportsInOrder, life # "removed", life' # "removed",
         \A i \in 1 .. Len(sent') : sent'[i] \in {"status", "one_left"}
  PROVE  ReportsInOrder'
BY DEF ReportsInOrder

LEMMA ReportOfDevice ==
  ASSUME SimTypes, ReportsInOrder, life # "removed", NEW x \in {"status", "one_left"}
  PROVE  LET q == Append(sent, x)
         IN  q \in Seq(SimReports) /\ \A i \in 1 .. Len(q) : q[i] \in {"status", "one_left"}
<1>1. sent \in Seq(SimReports) /\ x \in SimReports
  BY DEF SimTypes, SimReports
<1>2. \A i \in 1 .. Len(sent) : sent[i] \in {"status", "one_left"}
  BY DEF ReportsInOrder
<1>3. \A i \in 1 .. Len(sent) + 1 : i \in 1 .. Len(sent) \/ i = Len(sent) + 1
  BY <1>1, ReportAdded
<1> QED BY <1>1, <1>2, <1>3, ReportAdded

LEMMA ReportsSwept ==
  ASSUME SimTypes, ReportsInOrder, Device, listed' = listed PROVE ReportsInOrder'
<1>1. sent \in Seq(SimReports)
  BY DEF SimTypes, SimReports
<1>2. CASE UNCHANGED <<life, sent>>
  BY <1>2, ReportsUnseen
<1>3. CASE life # "removed" /\ life' # "removed" /\ sent' = Append(sent, "one_left")
  BY <1>3, ReportOfDevice, ReportsOfDevice
<1>4. CASE life = "active" /\ life' = "active" /\ sent' = Append(Append(sent, "status"), "one_left")
  <2> DEFINE q == Append(sent, "status")
  <2>1. q \in Seq(SimReports) /\ \A i \in 1 .. Len(q) : q[i] \in {"status", "one_left"}
    BY <1>4, ReportOfDevice
  <2> HIDE DEF q
  <2>2. sent' = Append(q, "one_left")
    BY <1>4 DEF q
  <2>3. Len(sent') = Len(q) + 1 /\ Len(q) \in Nat /\ sent'[Len(q) + 1] = "one_left"
        /\ \A i \in 1 .. Len(q) : sent'[i] = q[i]
    BY <2>1, <2>2, ReportAdded DEF SimReports
  <2>4. \A i \in 1 .. Len(sent') : i \in 1 .. Len(q) \/ i = Len(q) + 1
    BY <2>3
  <2>5. \A i \in 1 .. Len(sent') : sent'[i] \in {"status", "one_left"}
    BY <2>1, <2>3, <2>4
  <2> QED BY <1>4, <2>5, ReportsOfDevice
<1>5. CASE life = "silent" /\ life' = "removed"
             /\ sent' = Append(Append(sent, "removal"), "none_left")
  <2>0. PICK n \in Nat : n = Len(sent)
    BY <1>1, ReportAdded DEF SimReports
  <2> DEFINE q == Append(sent, "removal")
  <2>1. q \in Seq(SimReports) /\ Len(q) = n + 1 /\ n \in Nat /\ q[n + 1] = "removal"
        /\ \A i \in 1 .. n : q[i] = sent[i]
    BY <1>1, <2>0, ReportAdded DEF SimReports
  <2>2. sent' = Append(q, "none_left")
    BY <1>5
  <2> HIDE DEF q
  <2>3. Len(sent') = n + 2 /\ sent'[n + 2] = "none_left" /\ sent'[n + 1] = "removal"
        /\ \A i \in 1 .. n : sent'[i] = sent[i]
    BY <2>1, <2>2, ReportAdded DEF SimReports
  <2>4. \A i \in 1 .. n : sent[i] \in {"status", "one_left"}
    BY <1>5, <2>0 DEF ReportsInOrder
  <2>5. \A k \in n + 1 .. n + 2 : sent'[k] # "status"
    BY <2>1, <2>3
  <2>6. Unlisted(n + 2)'
    BY <2>1, <2>3, <2>5 DEF Unlisted
  <2>7. \A i \in 1 .. n + 2 : sent'[i] = "none_left" => i = n + 2
    BY <2>1, <2>3, <2>4
  <2> QED BY <1>5, <2>3, <2>6, <2>7 DEF ReportsInOrder
<1>6. CASE life = "removed" /\ life' = "removed" /\ sent' = Append(sent, "none_left")
  <2>0. PICK n \in Nat : n = Len(sent)
    BY <1>1, ReportAdded DEF SimReports
  <2>1. n \in Nat /\ Len(sent') = n + 1 /\ sent'[n + 1] = "none_left"
        /\ \A i \in 1 .. n : sent'[i] = sent[i]
    BY <1>1, <1>6, <2>0, ReportAdded DEF SimReports
  <2>2. Unlisted(n) /\ \A i \in 1 .. n : sent[i] = "none_left" => Unlisted(i)
    BY <1>6, <2>0 DEF ReportsInOrder
  <2>3. ASSUME NEW i \in 0 .. n, Unlisted(i) PROVE Unlisted(i)'
    BY <2>1, <2>3 DEF Unlisted
  <2>4. Unlisted(n + 1)'
    <3>1. CASE \E j \in 1 .. n : sent[j] = "removal" /\ \A k \in j .. n : sent[k] # "status"
      <4>1. PICK j \in 1 .. n : sent[j] = "removal" /\ \A k \in j .. n : sent[k] # "status"
        BY <3>1
      <4>2. sent'[j] = "removal" /\ j \in 1 .. n + 1 /\ \A k \in j .. n + 1 : sent'[k] # "status"
        BY <2>1, <4>1
      <4> QED BY <4>2 DEF Unlisted
    <3>2. CASE ~listed /\ \A k \in 1 .. n : sent[k] # "status"
      <4>1. \A k \in 1 .. n + 1 : sent'[k] # "status"
        BY <2>1, <3>2
      <4> QED BY <3>2, <4>1 DEF Unlisted
    <3> QED BY <2>2, <3>1, <3>2 DEF Unlisted
  <2>5. \A i \in 1 .. n + 1 : sent'[i] = "none_left" => Unlisted(i)'
    <3>1. ASSUME NEW i \in 1 .. n, sent'[i] = "none_left" PROVE Unlisted(i)'
      BY <2>1, <2>2, <2>3, <3>1
    <3>2. \A i \in 1 .. n + 1 : i \in 1 .. n \/ i = n + 1
      BY <2>1
    <3> QED BY <2>4, <3>1, <3>2
  <2> QED BY <1>6, <2>1, <2>4, <2>5 DEF ReportsInOrder
<1> QED BY <1>2, <1>3, <1>4, <1>5, <1>6, DeviceReports

\* The hub takes the first report.
LEMMA ReportTaken ==
  ASSUME SimTypes, ReportsInOrder, HubTakes PROVE ReportsInOrder'
<1>0. PICK n \in Nat : n = Len(sent')
  <2>1. sent' \in Seq(SimReports)
    BY DEF HubTakes, SimTypes, SimReports
  <2> QED BY <2>1
<1>1. /\ n \in Nat /\ Len(sent) = n + 1
      /\ \A i \in 1 .. n : sent'[i] = sent[i + 1]
      /\ Head(sent) = sent[1] /\ life' = life
  BY <1>0 DEF HubTakes, SimTypes, deviceVars
<1>2. /\ Head(sent) = "status" => listed' = TRUE
      /\ Head(sent) = "removal" => listed' = FALSE
      /\ Head(sent) \notin {"status", "removal"} => listed' = listed
  BY DEF HubTakes
<1>3. Head(sent) \notin {"status", "removal"} => (~listed => ~listed')
  BY <1>2
<1>4. Head(sent) = "removal" => ~listed'
  BY <1>2
<1>5. ASSUME NEW i \in 1 .. n + 1, Unlisted(i) PROVE Unlisted(i - 1)'
  <2>1. CASE \E j \in 1 .. i : sent[j] = "removal" /\ \A k \in j .. i : sent[k] # "status"
    <3>1. PICK j \in 1 .. i : sent[j] = "removal" /\ \A k \in j .. i : sent[k] # "status"
      BY <2>1
    <3>2. CASE j = 1
      <4>1. \A k \in 1 .. i - 1 : sent'[k] # "status"
        BY <1>1, <3>1, <3>2
      <4>2. ~listed'
        BY <1>1, <1>4, <3>1, <3>2
      <4> QED BY <4>1, <4>2 DEF Unlisted
    <3>3. CASE j # 1
      <4>1. j - 1 \in 1 .. i - 1 /\ sent'[j - 1] = "removal"
        BY <1>1, <3>1, <3>3
      <4>2. \A k \in j - 1 .. i - 1 : sent'[k] # "status"
        BY <1>1, <3>1, <3>3
      <4> QED BY <4>1, <4>2 DEF Unlisted
    <3> QED BY <3>2, <3>3
  <2>2. CASE ~listed /\ \A k \in 1 .. i : sent[k] # "status"
    <3>1. \A k \in 1 .. i - 1 : sent'[k] # "status"
      BY <1>1, <2>2
    <3>2. Head(sent) # "status"
      BY <1>1, <2>2
    <3>3. ~listed'
      BY <1>3, <1>4, <2>2, <3>2
    <3> QED BY <3>1, <3>3 DEF Unlisted
  <2> QED BY <1>5, <2>1, <2>2 DEF Unlisted
<1>6. ASSUME NEW i \in 1 .. n, sent'[i] = "none_left" PROVE Unlisted(i)'
  <2>1. i + 1 \in 1 .. n + 1 /\ sent[i + 1] = "none_left" /\ (i + 1) - 1 = i
    BY <1>1, <1>6
  <2>2. Unlisted(i + 1)
    BY <1>1, <2>1 DEF ReportsInOrder
  <2> QED BY <1>5, <2>1, <2>2
<1>7. life' = "removed" => Unlisted(n)'
  <2>1. n + 1 \in 1 .. n + 1 /\ (n + 1) - 1 = n
    BY <1>1
  <2>2. life' = "removed" => Unlisted(n + 1)
    BY <1>1 DEF ReportsInOrder
  <2> QED BY <1>5, <2>1, <2>2
<1>8. life' # "removed" => \A i \in 1 .. n : sent'[i] \in {"status", "one_left"}
  BY <1>1 DEF ReportsInOrder
<1> QED BY <1>0, <1>6, <1>7, <1>8 DEF ReportsInOrder

LEMMA ReportsStay ==
  ASSUME SimTypes, SnapshotIsFresh, ReportsInOrder, [SimNext]_simVars PROVE ReportsInOrder'
<1> USE DEF deviceVars, reportVars
<1>1. CASE UNCHANGED simVars
  BY <1>1, ReportsUnseen DEF simVars
<1>2. CASE RunEnds \/ OthersFail \/ ConnectFails \/ ConnectRefused \/ ConnectStirred \/ BackoffEnds
             \/ Dropped \/ SessionStops
  BY <1>2, ReportsUnseen DEF RunEnds, OthersFail, ConnectFails, ConnectRefused, ConnectStirred,
        BackoffEnds, Dropped, SessionStops
<1>3. CASE CloseEnded \/ PauseEnds \/ OldCloses \/ SweepDone \/ Wakes \/ SimTick
  BY <1>3, ReportsUnseen DEF CloseEnded, PauseEnds, OldCloses, SweepDone, Wakes, SimTick
<1>4. CASE Connects
  <2>1. sent' = <<>> /\ Len(sent') = 0 /\ listed' = FALSE
    BY <1>4 DEF Connects
  <2>2. ~listed'
    BY <2>1
  <2>3. Unlisted(0)'
    BY <2>2 DEF Unlisted
  <2> QED BY <2>1, <2>3 DEF ReportsInOrder
<1>5. CASE Sweeps
  BY <1>5, ReportsSwept DEF Sweeps
<1>6. ASSUME NEW isOld \in BOOLEAN, ReadsResend(isOld) \/ \E i \in Intervals : ReadsConfig(isOld, i)
      PROVE  ReportsInOrder'
  BY <1>6, ReportsUnseen DEF ReadsResend, ReadsConfig
<1>7. ASSUME NEW r \in reader, ReaderWakes(r) \/ ReaderSends(r) PROVE ReportsInOrder'
  <2>1. CASE UNCHANGED <<sent, listed, life>>
    BY <2>1, ReportsUnseen
  <2>2. CASE ReaderSends(r) /\ r.doing = "send" /\ ~r.old /\ where \in {"session", "sweeps"}
    <3>1. Pending
      BY <2>2 DEF Pending
    <3>2. life # "removed"
      BY <2>2, <3>1 DEF SnapshotIsFresh
    <3>3. sent' = Append(sent, "status") /\ life' = life
      BY <2>2 DEF ReaderSends
    <3> QED BY <3>2, <3>3, ReportOfDevice, ReportsOfDevice
  <2> QED BY <1>7, <2>1, <2>2 DEF ReaderWakes, ReaderSends
<1>8. CASE HubTakes
  BY <1>8, ReportTaken
<1> QED BY <1>1, <1>2, <1>3, <1>4, <1>5, <1>6, <1>7, <1>8 DEF SimNext

LEMMA SimBegins == SimInit => SimInv
<1> SUFFICES ASSUME SimInit PROVE SimInv
  OBVIOUS
<1>1. PICK i \in Intervals : \A j \in Intervals : j <= i
  BY SimAssumption
<1>2. interval \in Intervals
  BY <1>1 DEF SimInit
<1>3. ExitTimeout \in Nat /\ interval \in Nat \ {0} /\ CloseTimeout + Pause < ExitTimeout
  BY <1>2, SimAssumption
<1>4. SimTypes
  BY <1>3 DEF SimInit, SimTypes
<1>5. PatienceCovers
  BY DEF SimInit, PatienceCovers
<1>6. IntervalKnown /\ SnapshotIsFresh
  BY DEF SimInit, IntervalKnown, SnapshotIsFresh
<1>7. ReportsInOrder
  BY DEF SimInit, ReportsInOrder
<1> QED BY <1>4, <1>5, <1>6, <1>7 DEF SimInv

\* While a simulated edge runs: main's wait covers what its edge may still take, an interval
\* the loop does not know wakes it, and what its session at the hub hears ends with
\* the removal (crate nimon-sim).
THEOREM SimulatorCorrect == SimSpec => []SimInv
<1>1. SimInv /\ [SimNext]_simVars => SimInv'
  BY SimTypesStay, PatienceStays, IntervalStays, FreshStays, ReportsStay DEF SimInv
<1> QED BY <1>1, SimBegins, PTL DEF SimSpec

\* For all intervals and timeouts: sweeps are on time, an edge has stopped before main gives
\* up waiting, and no device comes back that was removed (session, run_edge, main).
THEOREM SimulatorHolds == SimSpec => []SimulationHolds
<1>1. SimInv => OnTime
  BY DEF SimInv, IntervalKnown, NoWakePending, OnTime
<1>2. SimInv => StopsInTime
  <2>1. CloseTimeout \in Nat /\ Pause \in Nat /\ ExitTimeout \in Nat /\ CloseTimeout + Pause < ExitTimeout
    BY SimAssumption
  <2> QED BY <2>1 DEF SimInv, SimTypes, PatienceCovers, StopsInTime
<1>3. SimInv => CountAgrees
  <2> SUFFICES ASSUME SimInv, sent # <<>>, Head(sent) = "none_left" PROVE ~listed
    BY DEF CountAgrees
  <2>1. sent[1] = "none_left" /\ 1 \in 1 .. Len(sent)
    BY DEF SimInv, SimTypes
  <2>2. Unlisted(1)
    BY <2>1 DEF SimInv, ReportsInOrder
  <2> QED BY <2>1, <2>2 DEF Unlisted
<1> QED BY <1>1, <1>2, <1>3, SimulatorCorrect, PTL DEF SimulationHolds
=============================================================================
