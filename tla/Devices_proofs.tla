---------------------------- MODULE Devices_proofs ----------------------------
(***************************************************************************)
(* Proofs about the edge's devices.                                        *)
(*                                                                         *)
(* The device manager, for all devices, readings, thresholds, removal      *)
(* sweeps and mailbox sizes: type correctness, and that what goes on to    *)
(* the prediction actor, the connector and the hub follows what the        *)
(* manager holds.                                                          *)
(*                                                                         *)
(* The NI drivers its jobs call, for any number of threads that reset      *)
(* devices, any retry interval and any number of resources: the libraries  *)
(* are loaded by the cache's rules, and no handle is left open or closed   *)
(* twice.                                                                  *)
(***************************************************************************)
EXTENDS DeviceManager, NiDrivers, FiniteSetTheorems, SequenceTheorems, TLAPS

-----------------------------------------------------------------------------
(* Sets as sequences                                                       *)

LEMMA SetAsSeq ==
  ASSUME NEW S, IsFiniteSet(S)
  PROVE  /\ Len(SetToSeq(S)) \in Nat /\ SetToSeq(S) \in [1 .. Len(SetToSeq(S)) -> S]
         /\ \A a, b \in 1 .. Len(SetToSeq(S)) : SetToSeq(S)[a] = SetToSeq(S)[b] => a = b
         /\ \A x \in S : \E i \in 1 .. Len(SetToSeq(S)) : SetToSeq(S)[i] = x
<1> DEFINE n == Cardinality(S)
           f == SetToSeq(S)
<1>1. n \in Nat /\ ExistsBijection(1 .. n, S)
  BY FS_CardinalityType
<1>2. PICK g \in Bijection(1 .. n, S) : TRUE
  BY <1>1 DEF ExistsBijection
<1>3. g \in [1 .. n -> S] /\ IsInjective(g)
  BY <1>2 DEF Bijection, Injection, IsInjective
<1>4. f \in [1 .. n -> S] /\ IsInjective(f)
  BY <1>3 DEF SetToSeq
<1>5. Len(f) = n
  BY <1>1, <1>4, LenProperties, IsASeq
<1>6. IsFiniteSet(1 .. n) /\ Cardinality(1 .. n) = n
  BY <1>1, FS_Interval
<1>7. f \in Injection(1 .. n, S)
  BY <1>4 DEF Injection, IsInjective
<1>8. f \in Surjection(1 .. n, S)
  BY <1>6, <1>7, FS_Injection
<1> QED BY <1>1, <1>4, <1>5, <1>8 DEF IsInjective, Surjection

LEMMA Joined ==
  ASSUME NEW S, NEW s \in Seq(S), NEW t \in Seq(S)
  PROVE  /\ s \o t \in Seq(S) /\ Len(s) \in Nat /\ Len(t) \in Nat /\ Len(s \o t) = Len(s) + Len(t)
         /\ \A i \in 1 .. Len(s) : (s \o t)[i] = s[i]
         /\ \A i \in 1 .. Len(t) : (s \o t)[Len(s) + i] = t[i]
<1>1. Len(s) \in Nat /\ Len(t) \in Nat
  BY LenProperties
<1>2. /\ s \o t \in Seq(S) /\ Len(s \o t) = Len(s) + Len(t)
      /\ \A i \in 1 .. Len(s) + Len(t) :
           (s \o t)[i] = IF i <= Len(s) THEN s[i] ELSE t[i - Len(s)]
  BY ConcatProperties
<1>3. ASSUME NEW i \in 1 .. Len(t)
      PROVE  Len(s) + i \in 1 .. Len(s) + Len(t) /\ ~(Len(s) + i <= Len(s)) /\ Len(s) + i - Len(s) = i
  BY <1>1
<1> QED BY <1>1, <1>2, <1>3

-----------------------------------------------------------------------------
(* What a mailbox says of a device                                         *)

AboutIn(q, d) == {i \in 1 .. Len(q) : IsAbout(q[i], d)}
SaysLast(q, d, v) ==
  \E i \in AboutIn(q, d) : (\A j \in AboutIn(q, d) : j <= i) /\ Said(q[i]) = v

\* `q` goes on with messages none of which is about d.
SilentOn(q, r, d) ==
  /\ AboutIn(r, d) = AboutIn(q, d)
  /\ \A i \in AboutIn(q, d) : r[i] = q[i]

NewsOf(q) == {i \in 1 .. Len(q) : q[i].kind = "thresholds"}
RemovalsIn(q, d) == {i \in 1 .. Len(q) : q[i] = Removal(d)}

UpdatesFit(u) ==
  /\ DOMAIN u \subseteq Ids
  /\ \A d \in DOMAIN u : u[d].status \in Statuses /\ u[d].temperature \in BOOLEAN

Posted(updates, removed) ==
  /\ mailbox' \in Seq(Messages) /\ Len(mailbox') \in Nat
  /\ \A d \in DOMAIN updates : SaysLast(mailbox', d, updates[d].status)
  /\ \A d \in removed : SaysLast(mailbox', d, "removed")
  /\ \A d \in Ids \ (DOMAIN updates \cup removed) : SilentOn(mailbox, mailbox', d)
  /\ NewsOf(mailbox') = NewsOf(mailbox) /\ \A i \in NewsOf(mailbox) : mailbox'[i] = mailbox[i]
  /\ \A d \in Ids : RemovalsIn(mailbox, d) \subseteq RemovalsIn(mailbox', d)
  /\ \A d \in Ids \ removed : RemovalsIn(mailbox', d) = RemovalsIn(mailbox, d)
  /\ \A d \in removed : RemovalsIn(mailbox', d) # {}

LEMMA MessageForms ==
  ASSUME NEW m \in Messages
  PROVE  /\ m.kind \in {"status", "removed", "thresholds"}
         /\ m.kind = "status" => m.device \in Ids /\ m.status \in Statuses
         /\ m.kind = "removed" => m.device \in Ids /\ m = Removal(m.device)
         /\ m.kind = "thresholds" => m.to \in [warning : Int, critical : Int]
         /\ \A d : m = Removal(d) => m.kind = "removed" /\ m.device = d
  BY DEF Messages, Removal

LEMMA PostTells ==
  ASSUME mailbox \in Seq(Messages), NEW updates, NEW removed, UpdatesFit(updates),
         removed \subseteq Ids, removed \cap DOMAIN updates = {}, Post(updates, removed)
  PROVE  Posted(updates, removed)
<1> DEFINE ids == SetToSeq(DOMAIN updates)
           gone == SetToSeq(removed)
           M == [i \in 1 .. Len(ids) |-> StatusOf(ids[i], updates[ids[i]])]
           R == [i \in 1 .. Len(gone) |-> Removal(gone[i])]
           n == Len(mailbox)
           m == Len(ids)
           g == Len(gone)
           r == mailbox'
<1>1. IsFiniteSet(DOMAIN updates) /\ IsFiniteSet(removed)
  BY ManagerAssumption, FS_Subset DEF UpdatesFit
<1>2. /\ m \in Nat /\ ids \in [1 .. m -> DOMAIN updates]
      /\ \A a, b \in 1 .. m : ids[a] = ids[b] => a = b
      /\ \A x \in DOMAIN updates : \E i \in 1 .. m : ids[i] = x
  BY <1>1, SetAsSeq
<1>3. /\ g \in Nat /\ gone \in [1 .. g -> removed]
      /\ \A a, b \in 1 .. g : gone[a] = gone[b] => a = b
      /\ \A x \in removed : \E i \in 1 .. g : gone[i] = x
  BY <1>1, SetAsSeq
<1>4. n \in Nat /\ r = mailbox \o M \o R
  BY LenProperties DEF Post
<1> HIDE DEF ids, gone
<1>5. \A i \in 1 .. m : M[i] \in Messages
  BY <1>2 DEF StatusOf, UpdatesFit, Messages
<1>6. \A i \in 1 .. g : R[i] \in Messages
  BY <1>3 DEF Removal, Messages
<1>7. M \in Seq(Messages) /\ Len(M) = m /\ R \in Seq(Messages) /\ Len(R) = g
  BY <1>2, <1>3, <1>5, <1>6, IsASeq, LenProperties
<1> HIDE DEF M, R
<1>8. /\ mailbox \o M \in Seq(Messages) /\ Len(mailbox \o M) = n + m
      /\ \A i \in 1 .. n : (mailbox \o M)[i] = mailbox[i]
      /\ \A i \in 1 .. m : (mailbox \o M)[n + i] = M[i]
  <2>1. ASSUME NEW a \in Seq(Messages), NEW b \in Seq(Messages)
        PROVE  /\ a \o b \in Seq(Messages) /\ Len(a \o b) = Len(a) + Len(b)
               /\ \A i \in 1 .. Len(a) : (a \o b)[i] = a[i]
               /\ \A i \in 1 .. Len(b) : (a \o b)[Len(a) + i] = b[i]
    BY Joined
  <2>2. /\ mailbox \o M \in Seq(Messages) /\ Len(mailbox \o M) = n + Len(M)
        /\ \A i \in 1 .. n : (mailbox \o M)[i] = mailbox[i]
        /\ \A i \in 1 .. Len(M) : (mailbox \o M)[n + i] = M[i]
    <3> HIDE DEF Messages
    <3>1. M \in Seq(Messages)
      BY <1>7
    <3> QED BY <2>1, <3>1
  <2> QED BY <1>7, <2>2
<1>9. /\ r \in Seq(Messages) /\ Len(r) = n + m + g
      /\ \A i \in 1 .. n + m : r[i] = (mailbox \o M)[i]
      /\ \A i \in 1 .. g : r[n + m + i] = R[i]
  <2> DEFINE q == mailbox \o M
  <2>1. q \in Seq(Messages) /\ Len(q) = n + m /\ r = q \o R
    BY <1>4, <1>8
  <2> HIDE DEF q, r
  <2>2. /\ r \in Seq(Messages) /\ Len(r) = Len(q) + Len(R)
        /\ \A i \in 1 .. Len(q) : r[i] = q[i]
        /\ \A i \in 1 .. Len(R) : r[Len(q) + i] = R[i]
    <3>1. ASSUME NEW a \in Seq(Messages), NEW b \in Seq(Messages)
          PROVE  /\ a \o b \in Seq(Messages) /\ Len(a \o b) = Len(a) + Len(b)
                 /\ \A i \in 1 .. Len(a) : (a \o b)[i] = a[i]
                 /\ \A i \in 1 .. Len(b) : (a \o b)[Len(a) + i] = b[i]
      BY Joined
    <3> QED BY <1>7, <2>1, <3>1
  <2> QED BY <1>7, <2>1, <2>2 DEF q
<1>10. /\ \A i \in 1 .. n : r[i] = mailbox[i]
       /\ \A i \in 1 .. m : r[n + i] = StatusOf(ids[i], updates[ids[i]])
       /\ \A i \in 1 .. g : r[n + m + i] = Removal(gone[i])
  <2>1. \A i \in 1 .. n : i \in 1 .. n + m
    BY <1>2, <1>4
  <2>2. \A i \in 1 .. m : n + i \in 1 .. n + m
    BY <1>2, <1>4
  <2> HIDE DEF r
  <2> QED BY <2>1, <2>2, <1>8, <1>9 DEF M, R
<1>11. ASSUME NEW k \in n + 1 .. n + m + g
       PROVE  \/ \E i \in 1 .. m : k = n + i /\ r[k] = StatusOf(ids[i], updates[ids[i]])
              \/ \E i \in 1 .. g : k = n + m + i /\ r[k] = Removal(gone[i])
  <2>1. CASE k <= n + m
    <3>1. k - n \in 1 .. m /\ n + (k - n) = k
      BY <1>2, <1>3, <1>4, <2>1
    <3> QED BY <3>1, <1>10
  <2>2. CASE ~(k <= n + m)
    <3>1. k - (n + m) \in 1 .. g /\ n + m + (k - (n + m)) = k
      BY <1>2, <1>3, <1>4, <2>2
    <3> QED BY <3>1, <1>10
  <2> QED BY <2>1, <2>2
<1>12. \A k \in 1 .. n + m + g : k \in 1 .. n \/ k \in n + 1 .. n + m + g
  BY <1>2, <1>3, <1>4
<1>13. 1 .. n \subseteq 1 .. n + m + g
  BY <1>2, <1>3, <1>4
<1> HIDE DEF r
<1>14. ASSUME NEW d \in DOMAIN updates PROVE SaysLast(r, d, updates[d].status)
  <2>1. PICK i \in 1 .. m : ids[i] = d
    BY <1>2
  <2>2. n + i \in 1 .. n + m + g /\ r[n + i] = StatusOf(d, updates[d])
    <3>1. n + i \in 1 .. n + m + g
      BY <1>2, <1>3, <1>4
    <3> QED BY <1>10, <2>1, <3>1
  <2>3. ASSUME NEW j \in AboutIn(r, d) PROVE j <= n + i
    <3>1. j \in 1 .. n + m + g /\ IsAbout(r[j], d)
      BY <1>9 DEF AboutIn
    <3>2. CASE j \in 1 .. n
      BY <1>4, <3>2
    <3>3. CASE \E a \in 1 .. m : j = n + a /\ r[j] = StatusOf(ids[a], updates[ids[a]])
      <4>1. PICK a \in 1 .. m : j = n + a /\ r[j] = StatusOf(ids[a], updates[ids[a]])
        BY <3>3
      <4>2. ids[a] = d
        BY <3>1, <4>1 DEF IsAbout, StatusOf
      <4>3. a = i
        BY <1>2, <2>1, <4>2
      <4> QED BY <4>1, <4>3, <1>4, <1>2
    <3>4. CASE \E a \in 1 .. g : j = n + m + a /\ r[j] = Removal(gone[a])
      <4>1. PICK a \in 1 .. g : r[j] = Removal(gone[a])
        BY <3>4
      <4>2. gone[a] = d
        BY <3>1, <4>1 DEF IsAbout, Removal
      <4> QED BY <4>2, <1>3
    <3> QED BY <1>11, <1>12, <3>1, <3>2, <3>3, <3>4
  <2>4. n + i \in AboutIn(r, d) /\ Said(r[n + i]) = updates[d].status
    BY <1>9, <2>2 DEF AboutIn, IsAbout, Said, StatusOf
  <2> QED BY <2>3, <2>4 DEF SaysLast
<1>15. ASSUME NEW d \in removed PROVE SaysLast(r, d, "removed") /\ RemovalsIn(r, d) # {}
  <2>1. PICK i \in 1 .. g : gone[i] = d
    BY <1>3
  <2>2. n + m + i \in 1 .. n + m + g /\ r[n + m + i] = Removal(d)
    <3>1. n + m + i \in 1 .. n + m + g
      BY <1>2, <1>3, <1>4
    <3> QED BY <1>10, <2>1, <3>1
  <2>3. ASSUME NEW j \in AboutIn(r, d) PROVE j <= n + m + i
    <3>1. j \in 1 .. n + m + g /\ IsAbout(r[j], d)
      BY <1>9 DEF AboutIn
    <3>2. CASE j \in 1 .. n
      BY <1>2, <1>3, <1>4, <3>2
    <3>3. CASE \E a \in 1 .. m : j = n + a /\ r[j] = StatusOf(ids[a], updates[ids[a]])
      BY <1>2, <1>3, <1>4, <3>3
    <3>4. CASE \E a \in 1 .. g : j = n + m + a /\ r[j] = Removal(gone[a])
      <4>1. PICK a \in 1 .. g : j = n + m + a /\ r[j] = Removal(gone[a])
        BY <3>4
      <4>2. gone[a] = d
        BY <3>1, <4>1 DEF IsAbout, Removal
      <4>3. a = i
        BY <1>3, <2>1, <4>2
      <4> QED BY <4>1, <4>3, <1>2, <1>3, <1>4
    <3> QED BY <1>11, <1>12, <3>1, <3>2, <3>3, <3>4
  <2>4. n + m + i \in AboutIn(r, d) /\ Said(r[n + m + i]) = "removed" /\ n + m + i \in RemovalsIn(r, d)
    BY <1>9, <2>2 DEF AboutIn, IsAbout, Said, Removal, RemovalsIn
  <2> QED BY <2>3, <2>4 DEF SaysLast
<1>16. ASSUME NEW d \in Ids \ (DOMAIN updates \cup removed) PROVE SilentOn(mailbox, r, d)
  <2>1. ASSUME NEW k \in n + 1 .. n + m + g PROVE ~IsAbout(r[k], d)
    <3>1. \A i \in 1 .. m : ids[i] # d
      BY <1>2
    <3>2. \A i \in 1 .. g : gone[i] # d
      BY <1>3
    <3>3. \A i \in 1 .. m : ~IsAbout(StatusOf(ids[i], updates[ids[i]]), d)
      BY <3>1 DEF IsAbout, StatusOf
    <3>4. \A i \in 1 .. g : ~IsAbout(Removal(gone[i]), d)
      BY <3>2 DEF IsAbout, Removal
    <3> QED BY <1>11, <3>3, <3>4
  <2>2. AboutIn(r, d) = AboutIn(mailbox, d)
    BY <2>1, <1>9, <1>10, <1>12, <1>13 DEF AboutIn
  <2> QED BY <2>2, <1>10 DEF SilentOn, AboutIn
<1>17. NewsOf(r) = NewsOf(mailbox) /\ \A i \in NewsOf(mailbox) : r[i] = mailbox[i]
  <2>1. ASSUME NEW k \in n + 1 .. n + m + g PROVE r[k].kind # "thresholds"
    <3>1. \A i : StatusOf(ids[i], updates[ids[i]]).kind # "thresholds"
      BY DEF StatusOf
    <3>2. \A i : Removal(gone[i]).kind # "thresholds"
      BY DEF Removal
    <3> QED BY <1>11, <3>1, <3>2
  <2> QED BY <2>1, <1>9, <1>10, <1>12, <1>13 DEF NewsOf
<1>18. ASSUME NEW d \in Ids PROVE RemovalsIn(mailbox, d) \subseteq RemovalsIn(r, d)
  BY <1>9, <1>10, <1>13 DEF RemovalsIn
<1>19. ASSUME NEW d \in Ids \ removed PROVE RemovalsIn(r, d) = RemovalsIn(mailbox, d)
  <2>1. ASSUME NEW k \in n + 1 .. n + m + g PROVE r[k] # Removal(d)
    <3>1. \A i \in 1 .. g : gone[i] # d
      BY <1>3
    <3>2. \A i \in 1 .. g : Removal(gone[i]) # Removal(d)
      BY <3>1 DEF Removal
    <3>3. \A i \in 1 .. m : StatusOf(ids[i], updates[ids[i]]) # Removal(d)
      BY DEF Removal, StatusOf
    <3> QED BY <1>11, <3>2, <3>3
  <2> QED BY <2>1, <1>9, <1>10, <1>12, <1>13 DEF RemovalsIn
<1>20. r \in Seq(Messages) /\ Len(r) \in Nat
  BY <1>9, LenProperties
<1> QED BY <1>14, <1>15, <1>16, <1>17, <1>18, <1>19, <1>20 DEF Posted, r

-----------------------------------------------------------------------------
(* What discoveries and timer find                                         *)

Ticks(overdue, due, t) == overdue \subseteq Overdue /\ t \in Samples /\ Tick(overdue, due, t)
Simulated == {d \in SimulatedIds : mode = "simulated" /\ devices[d].source = "simulated"}
Sampled(t) == StatusFromHealth([d \in Simulated |-> t[d]])

LEMMA ClassifyStatus ==
  ASSUME NEW r \in Readings, NEW th
  PROVE  Classify(r, th) \in Statuses /\ (r.reachable => Classify(r, th) # "offline")
<1>1. r.reachable \in BOOLEAN /\ r.fault \in BOOLEAN
  BY ManagerAssumption
<1>2. CASE ~r.reachable
  BY <1>2 DEF Classify, Statuses
<1>3. CASE r.reachable /\ r.fault
  BY <1>3 DEF Classify, Statuses
<1>4. CASE r.reachable /\ ~r.fault /\ r.temperature >= th.critical
  BY <1>4 DEF Classify, Statuses
<1>5. CASE r.reachable /\ ~r.fault /\ ~(r.temperature >= th.critical)
  <2>1. Classify(r, th) \in {"warning", "error", "healthy"}
    BY <1>5 DEF Classify
  <2> QED BY <2>1 DEF Statuses
<1> QED BY <1>1, <1>2, <1>3, <1>4, <1>5

LEMMA SweepUpdatesFit ==
  ASSUME NEW listing \in Listings(SysCfgIds, Readings)
  PROVE  /\ UpdatesFit(StatusFromHealth(listing))
         /\ DOMAIN StatusFromHealth(listing) \subseteq SysCfgIds
<1>1. PICK S \in SUBSET SysCfgIds : listing \in [S -> Readings]
  BY DEF Listings
<1>2. \A d \in S : listing[d] \in Readings
  BY <1>1
<1>3. DOMAIN listing = S /\ DOMAIN StatusFromHealth(listing) = S
  BY <1>1 DEF StatusFromHealth
<1>4. ASSUME NEW d \in S
      PROVE  /\ StatusFromHealth(listing)[d].status = Classify(listing[d], thresholds)
             /\ StatusFromHealth(listing)[d].temperature \in BOOLEAN
  BY <1>3 DEF StatusFromHealth
<1>5. S \subseteq Ids
  BY ManagerAssumption
<1> QED BY <1>2, <1>3, <1>4, <1>5, ClassifyStatus DEF UpdatesFit

LEMMA ScanUpdatesFit ==
  ASSUME NEW listing \in Listings(VisaIds, BOOLEAN)
  PROVE  /\ UpdatesFit(VisaStatus(listing))
         /\ DOMAIN VisaStatus(listing) \subseteq VisaIds
<1>1. PICK S \in SUBSET VisaIds : listing \in [S -> BOOLEAN]
  BY DEF Listings
<1>2. DOMAIN listing = S /\ DOMAIN VisaStatus(listing) = S
  BY <1>1 DEF VisaStatus
<1>3. ASSUME NEW d \in S
      PROVE  /\ VisaStatus(listing)[d].status \in {"healthy", "offline"}
             /\ VisaStatus(listing)[d].temperature \in BOOLEAN
  BY <1>2 DEF VisaStatus
<1>4. S \subseteq Ids
  BY ManagerAssumption
<1> QED BY <1>2, <1>3, <1>4 DEF UpdatesFit, Statuses

LEMMA SampleUpdatesFit ==
  ASSUME NEW t \in Samples
  PROVE  /\ UpdatesFit(Sampled(t)) /\ DOMAIN Sampled(t) = Simulated
         /\ \A d \in Simulated : Sampled(t)[d].status # "offline"
<1>1. \A d \in Simulated : t[d] \in Readings /\ t[d].reachable
  BY DEF Simulated, Samples
<1>2. DOMAIN Sampled(t) = Simulated
  BY DEF Sampled, StatusFromHealth
<1>3. ASSUME NEW d \in Simulated
      PROVE  /\ Sampled(t)[d].status = Classify(t[d], thresholds)
             /\ Sampled(t)[d].temperature \in BOOLEAN
  BY DEF Sampled, StatusFromHealth
<1>4. Simulated \subseteq Ids
  BY ManagerAssumption DEF Simulated
<1> QED BY <1>1, <1>2, <1>3, <1>4, ClassifyStatus DEF UpdatesFit

\* What a tick does to the device, what it posts, and what it starts.
Starting(due) ==
  {j \in Jobs : ~Running(j) /\ (j = "syscfg" => WantsSysCfg(mode)) /\ (j = "visa" => settings.visa /\ due)}

LEMMA TickDoes ==
  ASSUME TypeOK, NEW overdue, NEW due, NEW t, Ticks(overdue, due, t)
  PROVE  /\ life = "running" /\ Posted(Sampled(t), {})
         /\ devices' = [d \in Ids |-> IF d \in Simulated THEN Recorded(devices[d], Sampled(t)[d].status)
                                                       ELSE devices[d]]
         /\ AlertAbout(devices, Sampled(t))
         /\ hubWarnings' = hubWarnings \cup {<<j, "hung">> : j \in overdue}
         /\ jobs' = [j \in Jobs |-> CASE j \in overdue -> [jobs[j] EXCEPT !.phase = "stalled"]
                                      [] j \in Starting(due) -> Started(j)
                                      [] OTHER -> jobs[j]]
         /\ UNCHANGED <<life, settings, mode, registry, thresholds, armed, sessionOpen,
                        health, predictor, hubView>>
         /\ IF overdue # {} THEN NotifyEdgeStatus ELSE UNCHANGED reported
<1>1. /\ life = "running" /\ Post(Sampled(t), {})
      /\ devices' = [d \in Ids |-> IF d \in Simulated THEN Recorded(devices[d], Sampled(t)[d].status)
                                                    ELSE devices[d]]
      /\ AlertAbout(devices, Sampled(t))
      /\ hubWarnings' = hubWarnings \cup {<<j, "hung">> : j \in overdue}
      /\ jobs' = [j \in Jobs |-> CASE j \in overdue -> [jobs[j] EXCEPT !.phase = "stalled"]
                                   [] j \in Starting(due) -> Started(j)
                                   [] OTHER -> jobs[j]]
      /\ UNCHANGED <<life, settings, mode, registry, thresholds, armed, sessionOpen,
                     health, predictor, hubView>>
      /\ IF overdue # {} THEN NotifyEdgeStatus ELSE UNCHANGED reported
  BY DEF Ticks, Tick, Sampled, Simulated, Starting
<1>2. Posted(Sampled(t), {})
  <2>1. UpdatesFit(Sampled(t)) /\ mailbox \in Seq(Messages) /\ {} \subseteq Ids
        /\ {} \cap DOMAIN Sampled(t) = {}
    BY SampleUpdatesFit DEF Ticks, TypeOK
  <2> QED BY <1>1, <2>1, PostTells
<1> QED BY <1>1, <1>2

LEMMA ApplyPosts ==
  ASSUME TypeOK, NEW j \in Jobs, NEW updates, NEW same, UpdatesFit(updates), Apply(j, updates, same)
  PROVE  Posted(updates, Expired(j, DOMAIN updates, same))
BY PostTells DEF Apply, Expired, Missing, Tracked, TypeOK

LEMMA RemovePosts ==
  ASSUME TypeOK, NEW d \in Ids, Post(<< >>, {d})
  PROVE  Posted(<< >>, {d})
<1>1. DOMAIN << >> = {}
  OBVIOUS
<1>2. UpdatesFit(<< >>) /\ {d} \subseteq Ids /\ {d} \cap DOMAIN << >> = {}
  BY <1>1 DEF UpdatesFit
<1>3. mailbox \in Seq(Messages)
  BY DEF TypeOK
<1> QED BY <1>2, <1>3, PostTells

-----------------------------------------------------------------------------
(* Types                                                                   *)

Records == [source : Sources \cup {"none"}, last : Statuses \cup {"none"},
            seen : Jobs \cup {"none"}, missed : 0 .. RemovalSweeps - 1,
            ever : BOOLEAN, alerted : BOOLEAN]

LEMMA UntrackedTyped == Untracked \in Records
BY ManagerAssumption DEF Untracked, Records

LEMMA RecordedTyped ==
  ASSUME NEW t \in Records, NEW status \in Statuses
  PROVE  /\ Recorded(t, status) \in Records
         /\ Recorded(t, status).last = status /\ Recorded(t, status).source = t.source
         /\ Recorded(t, status).ever = (t.ever \/ status # "offline")
         /\ Recorded(t, status).alerted = (status = "offline" /\ (t.ever \/ t.alerted))
BY DEF Recorded, Records

LEMMA RefreshedTyped ==
  ASSUME TypeOK, NEW d \in Ids, NEW j \in Jobs
  PROVE  /\ Refreshed(d, j) \in Records
         /\ d \in Tracked => /\ Refreshed(d, j).source = devices[d].source
                             /\ Refreshed(d, j).ever = devices[d].ever
                             /\ Refreshed(d, j).alerted = devices[d].alerted
         /\ d \notin Tracked => /\ Refreshed(d, j).source = j
                                /\ ~Refreshed(d, j).ever /\ ~Refreshed(d, j).alerted
<1>1. devices[d] \in Records
  BY DEF TypeOK, Records
<1>2. [Untracked EXCEPT !.source = j] \in Records
  BY UntrackedTyped DEF Records, Sources
<1>3. /\ [Untracked EXCEPT !.source = j].source = j
      /\ ~[Untracked EXCEPT !.source = j].ever /\ ~[Untracked EXCEPT !.source = j].alerted
  BY DEF Untracked
<1>4. 0 \in 0 .. RemovalSweeps - 1
  BY ManagerAssumption
<1>5. ASSUME NEW t \in Records
      PROVE  LET u == [t EXCEPT !.seen = j, !.missed = 0]
             IN u \in Records /\ u.source = t.source /\ u.ever = t.ever /\ u.alerted = t.alerted
  BY <1>4 DEF Records
<1> QED BY <1>1, <1>2, <1>3, <1>5 DEF Refreshed

\* What the result of a job does to a device.
Took(j, updates, same, d) ==
  LET gone == Expired(j, DOMAIN updates, same) IN
  /\ d \in DOMAIN updates => /\ devices'[d] = Recorded(Refreshed(d, j), updates[d].status)
                             /\ registry'[d] = IF d \in Tracked THEN registry[d] ELSE j
  /\ d \in gone => d \in Tracked /\ devices'[d] = Untracked /\ registry'[d] = "none"
  /\ d \notin DOMAIN updates \cup gone =>
       /\ devices'[d] \in Records /\ registry'[d] = registry[d]
       /\ devices'[d].source = devices[d].source /\ devices'[d].last = devices[d].last
       /\ devices'[d].ever = devices[d].ever /\ devices'[d].alerted = devices[d].alerted
       /\ devices[d] = Untracked => devices'[d] = Untracked

LEMMA ApplyTakes ==
  ASSUME TypeOK, NEW j \in Jobs, NEW updates, NEW same, UpdatesFit(updates), Apply(j, updates, same)
  PROVE  /\ \A d \in Ids : Took(j, updates, same, d)
         /\ devices' = [d \in Ids |-> devices'[d]] /\ registry' = [d \in Ids |-> registry'[d]]
<1> DEFINE listed == DOMAIN updates
           gone == Expired(j, listed, same)
           unlisted == Missing(j, listed, same)
           seen == [d \in listed |-> Refreshed(d, j)]
<1>1. /\ devices' = [d \in Ids |-> CASE d \in listed -> Recorded(seen[d], updates[d].status)
                                    [] d \in gone -> Untracked
                                    [] d \in unlisted \ gone -> [devices[d] EXCEPT !.missed = @ + 1]
                                    [] OTHER -> devices[d]]
      /\ registry' = [d \in Ids |-> CASE d \in gone -> "none"
                                     [] d \in listed \ Tracked -> j
                                     [] OTHER -> registry[d]]
  BY DEF Apply
<1>2. /\ gone \subseteq unlisted /\ unlisted \subseteq Tracked /\ unlisted \cap listed = {}
      /\ \A d \in unlisted \ gone : ~(devices[d].missed + 1 >= RemovalSweeps)
  BY DEF Expired, Missing
<1>3. ASSUME NEW d \in Ids PROVE Took(j, updates, same, d)
  <2>1. CASE d \in listed
    <3>1. d \notin gone /\ devices'[d] = Recorded(Refreshed(d, j), updates[d].status)
      BY <1>1, <1>2, <2>1
    <3>2. registry'[d] = IF d \in Tracked THEN registry[d] ELSE j
      BY <1>1, <2>1, <3>1
    <3> QED BY <2>1, <3>1, <3>2 DEF Took
  <2>2. CASE d \in gone
    <3>1. d \notin listed /\ d \in Tracked
      BY <1>2, <2>2
    <3>2. devices'[d] = Untracked /\ registry'[d] = "none"
      BY <1>1, <2>2, <3>1
    <3> QED BY <2>2, <3>1, <3>2 DEF Took
  <2>3. CASE d \notin listed /\ d \in unlisted \ gone
    <3>1. devices'[d] = [devices[d] EXCEPT !.missed = @ + 1] /\ registry'[d] = registry[d]
      BY <1>1, <2>3
    <3>2. devices[d] \in Records
      BY DEF TypeOK, Records
    <3>3. devices[d].missed + 1 \in 0 .. RemovalSweeps - 1
      BY <1>2, <2>3, <3>2, ManagerAssumption DEF Records
    <3>4. devices[d] # Untracked
      BY <1>2, <2>3 DEF Tracked, Untracked
    <3>5. /\ devices'[d] \in Records /\ devices'[d].source = devices[d].source
          /\ devices'[d].last = devices[d].last /\ devices'[d].ever = devices[d].ever
          /\ devices'[d].alerted = devices[d].alerted
      BY <3>1, <3>2, <3>3 DEF Records
    <3> QED BY <2>3, <3>1, <3>4, <3>5 DEF Took
  <2>4. CASE d \notin listed /\ d \notin unlisted
    <3>1. d \notin gone /\ devices'[d] = devices[d] /\ registry'[d] = registry[d]
      BY <1>1, <1>2, <2>4
    <3>2. devices[d] \in Records
      BY DEF TypeOK, Records
    <3> QED BY <2>4, <3>1, <3>2 DEF Took
  <2> QED BY <2>1, <2>2, <2>3, <2>4
<1> QED BY <1>1, <1>3

Slots == [phase : {"idle", "running", "stalled"}, lag : Nat]

LEMMA SlotForms ==
  ASSUME NEW s \in Slots
  PROVE  /\ s.phase \in {"idle", "running", "stalled"} /\ s.lag \in Nat
         /\ [s EXCEPT !.phase = "idle"] \in Slots /\ [s EXCEPT !.phase = "stalled"] \in Slots
         /\ [s EXCEPT !.phase = "idle"].lag = s.lag /\ [s EXCEPT !.phase = "stalled"].lag = s.lag
         /\ [s EXCEPT !.phase = "idle"].phase = "idle" /\ [s EXCEPT !.phase = "stalled"].phase = "stalled"
         /\ [s EXCEPT !.lag = IF @ = 0 THEN 0 ELSE @ - 1] \in Slots
         /\ [s EXCEPT !.lag = IF @ = 0 THEN 0 ELSE @ - 1].phase = s.phase
         /\ [s EXCEPT !.lag = IF @ = 0 THEN 0 ELSE @ - 1].lag = IF s.lag = 0 THEN 0 ELSE s.lag - 1
BY DEF Slots

LEMMA JobsTyped ==
  ASSUME TypeOK
  PROVE  /\ jobs \in [Jobs -> Slots] /\ \A j \in Jobs : jobs[j] \in Slots
         /\ \A j \in Jobs : [jobs EXCEPT ![j].phase = "idle"] \in [Jobs -> Slots]
         /\ Len(mailbox') \in Nat => \A j \in Jobs : Started(j) \in Slots
<1>1. jobs \in [Jobs -> Slots]
  BY DEF TypeOK, Slots
<1>2. ASSUME NEW j \in Jobs PROVE [jobs EXCEPT ![j].phase = "idle"] \in [Jobs -> Slots]
  <2>1. jobs[j] \in Slots
    BY <1>1
  <2>2. [jobs[j] EXCEPT !.phase = "idle"] \in Slots
    BY <2>1, SlotForms
  <2> QED BY <1>1, <2>2
<1>3. Len(mailbox') \in Nat => \A j \in Jobs : Started(j) \in Slots
  BY DEF Started, Slots
<1> QED BY <1>1, <1>2, <1>3

LEMMA InitTyped == Init => TypeOK
<1> SUFFICES ASSUME Init PROVE TypeOK
  OBVIOUS
<1>1. devices \in [Ids -> Records] /\ mailbox \in Seq(Messages)
  BY UntrackedTyped DEF Init
<1>2. /\ thresholds \in [warning : Int, critical : Int]
      /\ predictor \in [thresholds : [warning : Int, critical : Int], models : SUBSET Ids]
  BY DEF Init
<1> QED BY <1>1, <1>2 DEF Init, TypeOK, Records, Modes

LEMMA FinishTyped ==
  ASSUME TypeOK, NEW j \in Jobs, Finish(j)
  PROVE  jobs' \in [Jobs -> Slots]
BY JobsTyped DEF Finish

LEMMA HealthTyped ==
  ASSUME TypeOK, NEW j \in Jobs, OnFailure(j) \/ OnSuccess(j)
  PROVE  /\ health' \in [Jobs -> [failing : BOOLEAN, alerted : BOOLEAN]]
         /\ hubWarnings' \subseteq Jobs \X {"hung", "failing"}
<1>1. health' \in [Jobs -> [failing : BOOLEAN, alerted : BOOLEAN]]
  <2>1. \A b \in BOOLEAN : [failing |-> b, alerted |-> b] \in [failing : BOOLEAN, alerted : BOOLEAN]
    OBVIOUS
  <2>2. health \in [Jobs -> [failing : BOOLEAN, alerted : BOOLEAN]]
    BY DEF TypeOK
  <2>3. CASE OnFailure(j)
    BY <2>1, <2>2, <2>3 DEF OnFailure
  <2>4. CASE OnSuccess(j)
    BY <2>1, <2>2, <2>4 DEF OnSuccess
  <2> QED BY <2>3, <2>4
<1>2. hubWarnings \subseteq Jobs \X {"hung", "failing"} /\ <<j, "failing">> \in Jobs \X {"hung", "failing"}
  BY DEF TypeOK
<1>3. hubWarnings' \subseteq hubWarnings \cup {<<j, "failing">>}
  BY DEF OnFailure, OnSuccess
<1> QED BY <1>1, <1>2, <1>3

LEMMA ApplyTyped ==
  ASSUME TypeOK, NEW j \in Jobs, NEW updates, NEW same, UpdatesFit(updates), Apply(j, updates, same)
  PROVE  /\ devices' \in [Ids -> Records] /\ registry' \in [Ids -> Sources \cup {"none"}]
         /\ mailbox' \in Seq(Messages) /\ hubAlerts' \subseteq Ids
<1>1. ASSUME NEW d \in Ids
      PROVE  devices'[d] \in Records /\ registry'[d] \in Sources \cup {"none"}
  <2>1. Took(j, updates, same, d) /\ registry[d] \in Sources \cup {"none"}
    BY ApplyTakes DEF TypeOK
  <2>2. CASE d \in DOMAIN updates
    <3>1. updates[d].status \in Statuses /\ Refreshed(d, j) \in Records
      BY <2>2, RefreshedTyped DEF UpdatesFit
    <3> QED BY <2>1, <2>2, <3>1, RecordedTyped DEF Took, Sources
  <2>3. CASE d \in Expired(j, DOMAIN updates, same)
    BY <2>1, <2>3, UntrackedTyped DEF Took
  <2>4. CASE d \notin DOMAIN updates \cup Expired(j, DOMAIN updates, same)
    BY <2>1, <2>4 DEF Took
  <2> QED BY <2>2, <2>3, <2>4
<1>2. devices' \in [Ids -> Records] /\ registry' \in [Ids -> Sources \cup {"none"}]
  BY <1>1, ApplyTakes
<1>3. mailbox' \in Seq(Messages)
  BY ApplyPosts DEF Posted
<1>4. hubAlerts' \subseteq Ids
  BY DEF Apply, AlertAbout, TypeOK, UpdatesFit
<1> QED BY <1>2, <1>3, <1>4

LEMMA TickTyped ==
  ASSUME TypeOK, NEW overdue, NEW due, NEW t, Ticks(overdue, due, t)
  PROVE  TypeOK'
<1>1. /\ Posted(Sampled(t), {}) /\ UpdatesFit(Sampled(t)) /\ DOMAIN Sampled(t) = Simulated
      /\ overdue \subseteq Jobs
  BY TickDoes, SampleUpdatesFit DEF Ticks, Overdue
<1>2. devices' \in [Ids -> Records]
  <2>1. ASSUME NEW d \in Simulated PROVE Recorded(devices[d], Sampled(t)[d].status) \in Records
    <3>1. d \in Ids /\ Sampled(t)[d].status \in Statuses
      BY <1>1 DEF UpdatesFit
    <3>2. devices[d] \in Records
      BY <3>1 DEF TypeOK, Records
    <3> QED BY <3>1, <3>2, RecordedTyped
  <2>2. devices \in [Ids -> Records]
    BY DEF TypeOK, Records
  <2> QED BY <2>1, <2>2, TickDoes
<1>3. mailbox' \in Seq(Messages) /\ Len(mailbox') \in Nat
  BY <1>1 DEF Posted
<1>4. jobs' \in [Jobs -> Slots]
  <2>1. \A j \in Jobs : [jobs[j] EXCEPT !.phase = "stalled"] \in Slots /\ jobs[j] \in Slots /\ Started(j) \in Slots
    BY <1>3, JobsTyped, SlotForms
  <2>2. \A j \in Jobs : jobs'[j] \in Slots
    BY <2>1, TickDoes
  <2>3. jobs' = [j \in Jobs |-> jobs'[j]]
    BY TickDoes
  <2> QED BY <2>2, <2>3
<1>5. hubAlerts' \subseteq Ids /\ hubWarnings' \subseteq Jobs \X {"hung", "failing"}
  BY <1>1, TickDoes DEF AlertAbout, TypeOK, UpdatesFit
<1> QED BY <1>2, <1>3, <1>4, <1>5, TickDoes DEF TypeOK, Records, Slots

LEMMA ForwardTyped ==
  ASSUME TypeOK, Forward
  PROVE  TypeOK'
<1> DEFINE msg == Head(mailbox)
<1>1. msg \in Messages /\ mailbox' \in Seq(Messages)
  BY HeadTailProperties DEF Forward, TypeOK
<1>2. jobs' \in [Jobs -> Slots]
  BY JobsTyped, SlotForms DEF Forward
<1>3. /\ hubView' \in [Ids -> Statuses \cup {"unknown", "removed"}]
      /\ hubAlerts' \subseteq Ids
      /\ predictor' \in [thresholds : [warning : Int, critical : Int], models : SUBSET Ids]
  <2> HIDE DEF msg
  <2>1. CASE /\ msg.kind = "status"
             /\ hubView' = [hubView EXCEPT ![msg.device] = msg.status]
             /\ hubAlerts' = hubAlerts
             /\ predictor' = IF msg.temperature
                               THEN [predictor EXCEPT !.models = @ \cup {msg.device}]
                               ELSE predictor
    <3>1. msg.device \in Ids /\ msg.status \in Statuses
      BY <1>1, <2>1, MessageForms
    <3> QED BY <2>1, <3>1 DEF TypeOK
  <2>2. CASE /\ msg.kind = "removed"
             /\ hubView' = [hubView EXCEPT ![msg.device] = "removed"]
             /\ hubAlerts' = hubAlerts \ {msg.device}
             /\ predictor' = [predictor EXCEPT !.models = @ \ {msg.device}]
    BY <2>2 DEF TypeOK
  <2>3. CASE /\ msg.kind = "thresholds"
             /\ predictor' = [predictor EXCEPT !.thresholds = msg.to]
             /\ UNCHANGED <<hubView, hubAlerts>>
    <3>1. msg.to \in [warning : Int, critical : Int]
      BY <1>1, <2>3, MessageForms
    <3> QED BY <2>3, <3>1 DEF TypeOK
  <2> QED BY <2>1, <2>2, <2>3 DEF Forward, msg
<1> QED BY <1>1, <1>2, <1>3 DEF Forward, TypeOK, Slots

\* The steps of Next, one by one.
LEMMA Steps ==
  ASSUME Next
  PROVE  \/ Start \/ (armed /\ \E overdue, due, t : Ticks(overdue, due, t))
         \/ (\E listing \in Listings(SysCfgIds, Readings), same \in SUBSET SeenElsewhere("syscfg") :
               SweepOk /\ Apply("syscfg", StatusFromHealth(listing), same))
         \/ SweepUnavailable \/ SweepFailed
         \/ (\E listing \in Listings(VisaIds, BOOLEAN), same \in SUBSET SeenElsewhere("visa") :
               ScanOk /\ Apply("visa", VisaStatus(listing), same))
         \/ ScanFailed \/ (\E j \in Jobs : JobPanicked(j))
         \/ (\E d \in ManualIds : AddDevice(d)) \/ (\E d \in ManualIds : RemoveDevice(d))
         \/ (\E config \in Configs : ApplyConfig(config))
         \/ ResendState \/ StopDeviceManager \/ Forward
<1>1. ASSUME TimerTick PROVE armed /\ \E overdue, due, t : Ticks(overdue, due, t)
  BY <1>1 DEF TimerTick, Ticks
<1>2. SweepOk => \E listing \in Listings(SysCfgIds, Readings), same \in SUBSET SeenElsewhere("syscfg") :
                   SweepOk /\ Apply("syscfg", StatusFromHealth(listing), same)
  BY DEF SweepOk
<1>3. ScanOk => \E listing \in Listings(VisaIds, BOOLEAN), same \in SUBSET SeenElsewhere("visa") :
                   ScanOk /\ Apply("visa", VisaStatus(listing), same)
  BY DEF ScanOk
<1> QED BY <1>1, <1>2, <1>3 DEF Next, JobReturns

LEMMA TypeStep == TypeOK /\ [Next]_vars => TypeOK'
<1> SUFFICES ASSUME TypeOK, [Next]_vars PROVE TypeOK'
  OBVIOUS
<1> "syscfg" \in Jobs /\ "visa" \in Jobs
  BY DEF Jobs
<1>1. CASE Start
  <2>1. Len(mailbox') \in Nat
    BY <1>1, LenProperties DEF Start, TypeOK
  <2>2. jobs' \in [Jobs -> Slots]
    BY <1>1, <2>1, JobsTyped DEF Start, TypeOK
  <2> QED BY <1>1, <2>2 DEF Start, TypeOK, hub, TickInterval, Modes, Slots
<1>2. ASSUME NEW overdue, NEW due, NEW t, Ticks(overdue, due, t) PROVE TypeOK'
  BY <1>2, TickTyped
<1>3. ASSUME NEW listing \in Listings(SysCfgIds, Readings), NEW same,
             SweepOk, Apply("syscfg", StatusFromHealth(listing), same)
      PROVE  TypeOK'
  <2>1. /\ devices' \in [Ids -> Records] /\ registry' \in [Ids -> Sources \cup {"none"}]
        /\ mailbox' \in Seq(Messages) /\ hubAlerts' \subseteq Ids
    BY <1>3, SweepUpdatesFit, ApplyTyped
  <2>2. /\ jobs' \in [Jobs -> Slots]
        /\ health' \in [Jobs -> [failing : BOOLEAN, alerted : BOOLEAN]]
        /\ hubWarnings' \subseteq Jobs \X {"hung", "failing"}
    BY <1>3, FinishTyped, HealthTyped DEF SweepOk
  <2> QED BY <1>3, <2>1, <2>2 DEF SweepOk, TypeOK, Records, Modes, Slots
<1>4. CASE SweepUnavailable
  <2>1. /\ jobs' \in [Jobs -> Slots]
        /\ health' \in [Jobs -> [failing : BOOLEAN, alerted : BOOLEAN]]
        /\ hubWarnings' \subseteq Jobs \X {"hung", "failing"}
    BY <1>4, FinishTyped, HealthTyped DEF SweepUnavailable
  <2>2. /\ devices' \in [Ids -> Records] /\ registry' \in [Ids -> Sources \cup {"none"}]
        /\ mode' \in Modes /\ armed' \in BOOLEAN
    <3>1. devices \in [Ids -> Records] /\ [Untracked EXCEPT !.source = "simulated"] \in Records
      BY UntrackedTyped DEF TypeOK, Records, Sources
    <3>2. CASE mode = "pending"
      <4>1. devices' \in [Ids -> Records]
        BY <1>4, <3>1, <3>2 DEF SweepUnavailable
      <4>2. registry' \in [Ids -> Sources \cup {"none"}]
        BY <1>4, <3>2 DEF SweepUnavailable, TypeOK, Sources
      <4>3. mode' \in Modes /\ armed' \in BOOLEAN
        BY <1>4, <3>2 DEF SweepUnavailable, TypeOK, Modes, TickInterval
      <4> QED BY <4>1, <4>2, <4>3
    <3>3. CASE mode # "pending"
      BY <1>4, <3>1, <3>3 DEF SweepUnavailable, TypeOK
    <3> QED BY <3>2, <3>3
  <2> QED BY <1>4, <2>1, <2>2 DEF SweepUnavailable, TypeOK, Records, Slots
<1>5. CASE SweepFailed
  <2>1. /\ jobs' \in [Jobs -> Slots]
        /\ health' \in [Jobs -> [failing : BOOLEAN, alerted : BOOLEAN]]
        /\ hubWarnings' \subseteq Jobs \X {"hung", "failing"}
    BY <1>5, FinishTyped, HealthTyped DEF SweepFailed
  <2> QED BY <1>5, <2>1 DEF SweepFailed, TypeOK, Slots
<1>6. ASSUME NEW listing \in Listings(VisaIds, BOOLEAN), NEW same,
             ScanOk, Apply("visa", VisaStatus(listing), same)
      PROVE  TypeOK'
  <2>1. /\ devices' \in [Ids -> Records] /\ registry' \in [Ids -> Sources \cup {"none"}]
        /\ mailbox' \in Seq(Messages) /\ hubAlerts' \subseteq Ids
    BY <1>6, ScanUpdatesFit, ApplyTyped
  <2>2. /\ jobs' \in [Jobs -> Slots]
        /\ health' \in [Jobs -> [failing : BOOLEAN, alerted : BOOLEAN]]
        /\ hubWarnings' \subseteq Jobs \X {"hung", "failing"}
    BY <1>6, FinishTyped, HealthTyped DEF ScanOk
  <2> QED BY <1>6, <2>1, <2>2 DEF ScanOk, TypeOK, Records, Slots
<1>7. CASE ScanFailed
  <2>1. /\ jobs' \in [Jobs -> Slots]
        /\ health' \in [Jobs -> [failing : BOOLEAN, alerted : BOOLEAN]]
        /\ hubWarnings' \subseteq Jobs \X {"hung", "failing"}
    BY <1>7, FinishTyped, HealthTyped DEF ScanFailed
  <2> QED BY <1>7, <2>1 DEF ScanFailed, TypeOK, Slots
<1>8. ASSUME NEW j \in Jobs, JobPanicked(j) PROVE TypeOK'
  <2>1. jobs' \in [Jobs -> Slots]
    BY <1>8, FinishTyped DEF JobPanicked
  <2> QED BY <1>8, <2>1 DEF JobPanicked, TypeOK, Slots
<1>9. ASSUME NEW d \in ManualIds, AddDevice(d) PROVE TypeOK'
  <2>1. devices' \in [Ids -> Records]
    <3>1. devices \in [Ids -> Records] /\ [Untracked EXCEPT !.source = "manual"] \in Records
      BY UntrackedTyped DEF TypeOK, Records, Sources
    <3> QED BY <1>9, <3>1 DEF AddDevice
  <2>2. registry' \in [Ids -> Sources \cup {"none"}]
    BY <1>9 DEF AddDevice, TypeOK, Sources
  <2> QED BY <1>9, <2>1, <2>2 DEF AddDevice, TypeOK, Records, hub
<1>10. ASSUME NEW d \in ManualIds, RemoveDevice(d) PROVE TypeOK'
  <2>1. devices' \in [Ids -> Records]
    <3>1. devices \in [Ids -> Records]
      BY DEF TypeOK, Records
    <3> QED BY <1>10, <3>1, UntrackedTyped DEF RemoveDevice
  <2>2. mailbox' \in Seq(Messages)
    <3>1. d \in Ids
      BY ManagerAssumption
    <3> QED BY <1>10, <3>1, RemovePosts DEF RemoveDevice, Posted
  <2>3. registry' \in [Ids -> Sources \cup {"none"}]
    BY <1>10 DEF RemoveDevice, TypeOK
  <2> QED BY <1>10, <2>1, <2>2, <2>3 DEF RemoveDevice, TypeOK, Records, hub
<1>11. ASSUME NEW config \in Configs, ApplyConfig(config) PROVE TypeOK'
  <2>1. thresholds' \in [warning : Int, critical : Int]
    BY <1>11, ManagerAssumption DEF ApplyConfig, Resolve, TypeOK
  <2>2. mailbox' \in Seq(Messages)
    <3>1. NewThresholds(thresholds') \in Messages
      BY <2>1 DEF NewThresholds, Messages
    <3>2. mailbox' = Append(mailbox, NewThresholds(thresholds')) /\ mailbox \in Seq(Messages)
      BY <1>11 DEF ApplyConfig, TypeOK
    <3> QED BY <3>1, <3>2, AppendProperties
  <2> QED BY <1>11, <2>1, <2>2 DEF ApplyConfig, TypeOK, hub
<1>12. CASE ResendState
  <2>1. hubView' \in [Ids -> Statuses \cup {"unknown", "removed"}]
    BY <1>12 DEF ResendState, TypeOK
  <2> QED BY <1>12, <2>1 DEF ResendState, TypeOK
<1>13. CASE StopDeviceManager
  <2>1. devices' \in [Ids -> Records] /\ mailbox' \in Seq(Messages)
    BY <1>13, UntrackedTyped DEF StopDeviceManager
  <2>2. predictor' \in [thresholds : [warning : Int, critical : Int], models : SUBSET Ids]
    BY <1>13 DEF StopDeviceManager, TypeOK
  <2> QED BY <1>13, <2>1, <2>2 DEF StopDeviceManager, TypeOK, Records
<1>14. CASE Forward
  BY <1>14, ForwardTyped
<1>15. CASE UNCHANGED vars
  BY <1>15 DEF vars, manager, hub, TypeOK
<1> QED BY <1>1, <1>2, <1>3, <1>4, <1>5, <1>6, <1>7, <1>8, <1>9, <1>10, <1>11, <1>12, <1>13,
           <1>14, <1>15, Steps

\* Devices, jobs, mailbox and what the connector knows are of their types in every
\* state (device_manager.rs, devices.rs).
THEOREM TypeCorrect == Spec => []TypeOK
<1>1. Init => TypeOK
  BY InitTyped
<1>2. TypeOK /\ [Next]_vars => TypeOK'
  BY TypeStep
<1> QED BY <1>1, <1>2, PTL DEF Spec

-----------------------------------------------------------------------------
(* The inductive invariant                                                 *)

Follows(v, d) == IF devices[d].last # "none" THEN v = devices[d].last ELSE v \in {"unknown", "removed"}

\* What the connector heard last about the device, or will hear last, is what it
\* should know.
Told(d) ==
  \/ About(d) = {} /\ Follows(hubView[d], d)
  \/ \E i \in About(d) : (\A k \in About(d) : k <= i) /\ Follows(Said(mailbox[i]), d)

Informed(d) ==
  /\ registry[d] = devices[d].source
  /\ devices[d].source = "none" => devices[d] = Untracked
  /\ Told(d)
  /\ d \in predictor.models => d \in Tracked \/ About(d) # {}

PredictorFollows ==
  \/ NewsOf(mailbox) = {} /\ predictor.thresholds = thresholds
  \/ \E i \in NewsOf(mailbox) : (\A k \in NewsOf(mailbox) : k <= i) /\ mailbox[i].to = thresholds

Downstream == TypeOK /\ (\A d \in Ids : Informed(d)) /\ PredictorFollows

Lists(j) == IF j = "syscfg" THEN SysCfgIds ELSE VisaIds

\* The job was started before a removal of the device was posted that still
\* waits: it is over before the removal is forwarded, perhaps with the device.
MayOvertake(j, d) ==
  Running(j) /\ d \in Lists(j) /\ \E i \in RemovalsIn(mailbox, d) : jobs[j].lag < i

AlertFollows(d) ==
  IF RemovalsIn(mailbox, d) # {} THEN ~devices[d].alerted ELSE d \in hubAlerts <=> devices[d].alerted

FoundAtMostOnce(d) ==
  \A j \in Jobs : MayOvertake(j, d) =>
    /\ ~devices[d].ever
    /\ \A k \in Jobs : MayOvertake(k, d) => k = j
    /\ j = "visa" /\ d \in SimulatedIds => mode = "hardware"

SweepsWanted == Running("syscfg") => WantsSysCfg(mode)

NewIsBlank ==
  life = "new" => /\ mode = "pending" /\ hubWarnings = {}
                  /\ \A j \in Jobs : jobs[j].phase = "idle" /\ ~health[j].alerted

\* The hub's alerts are the device manager's once no removal waits, and no job can
\* bring back an alert that a waiting removal would clear.
AlertsFollow(d) == AlertFollows(d) /\ FoundAtMostOnce(d)

\* The connector's warnings of a job are those the manager remembers.
Warns(j) ==
  /\ <<j, "hung">> \in hubWarnings <=> jobs[j].phase = "stalled"
  /\ <<j, "failing">> \in hubWarnings <=> health[j].alerted

\* A running manager has reported the edge as it is.
EdgeFollows == life = "running" => reported = Current /\ \A j \in Jobs : Warns(j)

\* What the reports about the edge rest on, with what a start finds.
Edge == SweepsWanted /\ NewIsBlank /\ EdgeFollows

\* The inductive invariant of ReportsCorrect.
Reports == Downstream /\ Edge /\ \A d \in Ids : AlertsFollow(d)

\* A device that is added by message and that NI-VISA lists is found in no other
\* way.  Only tests add and remove devices by message.
ManualApart == ManualIds \cap VisaIds \cap (SysCfgIds \cup SimulatedIds) = {}

-----------------------------------------------------------------------------
(* The predictor and the connector                                         *)

\* How a handler leaves a device informed: nothing about it is said and its
\* status is as it was, or the last that is said is what it is now.
Relays(d) ==
  \/ SilentOn(mailbox, mailbox', d) /\ hubView'[d] = hubView[d] /\ devices'[d].last = devices[d].last
  \/ devices'[d].last # "none" /\ SaysLast(mailbox', d, devices'[d].last)
  \/ devices'[d].last = "none" /\ SaysLast(mailbox', d, "removed")

Handled(d) ==
  /\ Relays(d) /\ predictor' = predictor
  /\ registry'[d] = devices'[d].source
  /\ devices'[d].source = "none" => devices'[d] = Untracked
  /\ d \in Tracked => d \in Tracked' \/ About(d)' # {}

LEMMA HandledInformed ==
  ASSUME NEW d \in Ids, Informed(d), Handled(d)
  PROVE  Informed(d)'
<1>1. About(d) = AboutIn(mailbox, d) /\ About(d)' = AboutIn(mailbox', d)
  BY DEF About, AboutIn
<1>2. CASE SilentOn(mailbox, mailbox', d) /\ hubView'[d] = hubView[d] /\ devices'[d].last = devices[d].last
  <2>1. About(d)' = About(d) /\ \A i \in About(d) : mailbox'[i] = mailbox[i]
    BY <1>1, <1>2 DEF SilentOn
  <2>2. \A v : Follows(v, d)' <=> (IF devices[d].last # "none" THEN v = devices[d].last ELSE v \in {"unknown", "removed"})
    BY <1>2 DEF Follows
  <2>3. Told(d)'
    <3>1. CASE About(d) = {} /\ Follows(hubView[d], d)
      <4>1. About(d)' = {} /\ Follows(hubView[d], d)'
        BY <1>2, <2>1, <3>1 DEF Follows
      <4> QED BY <4>1, <1>2, <2>1, <3>1 DEF Told, Follows
    <3>2. CASE \E i \in About(d) : (\A k \in About(d) : k <= i) /\ Follows(Said(mailbox[i]), d)
      <4>1. PICK i \in About(d) : (\A k \in About(d) : k <= i) /\ Follows(Said(mailbox[i]), d)
        BY <3>2
      <4>2. Said(mailbox'[i]) = Said(mailbox[i])
        BY <2>1
      <4>3. Follows(Said(mailbox[i]), d)'
        BY <1>2, <4>1, <4>2 DEF Follows
      <4> QED BY <2>1, <4>1, <4>3 DEF Told
    <3> QED BY <3>1, <3>2 DEF Informed, Told
  <2> QED BY <2>1, <2>3 DEF Informed, Handled
<1>3. ASSUME NEW v, SaysLast(mailbox', d, v),
             IF devices'[d].last # "none" THEN v = devices'[d].last ELSE v \in {"unknown", "removed"}
      PROVE  Told(d)' /\ About(d)' # {}
  <2>1. PICK i \in About(d)' : (\A k \in About(d)' : k <= i) /\ Said(mailbox'[i]) = v
    BY <1>1, <1>3 DEF SaysLast
  <2> QED BY <1>3, <2>1 DEF Told, Follows
<1>4. CASE devices'[d].last # "none" /\ SaysLast(mailbox', d, devices'[d].last)
  BY <1>3, <1>4 DEF Informed, Handled
<1>5. CASE devices'[d].last = "none" /\ SaysLast(mailbox', d, "removed")
  BY <1>3, <1>5 DEF Informed, Handled
<1> QED BY <1>2, <1>4, <1>5 DEF Handled, Relays

LEMMA TickHandled ==
  ASSUME TypeOK, NEW overdue, NEW due, NEW t, Ticks(overdue, due, t), NEW d \in Ids, Informed(d)
  PROVE  Handled(d)
<1>1. /\ Posted(Sampled(t), {}) /\ UpdatesFit(Sampled(t)) /\ DOMAIN Sampled(t) = Simulated
      /\ devices[d] \in Records
  BY TickDoes, SampleUpdatesFit DEF Ticks, TypeOK, Records
<1>2. CASE d \in Simulated
  <2>1. devices'[d] = Recorded(devices[d], Sampled(t)[d].status) /\ Sampled(t)[d].status \in Statuses
    BY <1>1, <1>2, TickDoes DEF UpdatesFit
  <2>2. devices'[d].source = devices[d].source /\ devices'[d].last = Sampled(t)[d].status
    BY <1>1, <2>1, RecordedTyped
  <2>3. SaysLast(mailbox', d, devices'[d].last) /\ devices'[d].last # "none"
    BY <1>1, <1>2, <2>1, <2>2 DEF Posted, Statuses
  <2>4. devices[d].source = "simulated" /\ registry'[d] = registry[d] /\ predictor' = predictor
    BY <1>2, TickDoes DEF Simulated
  <2> QED BY <2>2, <2>3, <2>4 DEF Handled, Relays, Informed, Tracked
<1>3. CASE d \notin Simulated
  <2>1. devices'[d] = devices[d] /\ registry'[d] = registry[d] /\ predictor' = predictor /\ hubView' = hubView
    BY <1>3, TickDoes
  <2>2. SilentOn(mailbox, mailbox', d)
    BY <1>1, <1>3 DEF Posted
  <2> QED BY <2>1, <2>2 DEF Handled, Relays, Informed, Tracked
<1> QED BY <1>2, <1>3

LEMMA ApplyHandled ==
  ASSUME TypeOK, NEW j \in Jobs, NEW updates, NEW same, UpdatesFit(updates), Apply(j, updates, same),
         hubView' = hubView, predictor' = predictor, NEW d \in Ids, Informed(d)
  PROVE  Handled(d)
<1> DEFINE gone == Expired(j, DOMAIN updates, same)
<1>1. Posted(updates, gone) /\ Took(j, updates, same, d)
  BY ApplyPosts, ApplyTakes
<1>2. CASE d \in DOMAIN updates
  <2>1. updates[d].status \in Statuses
    BY <1>2 DEF UpdatesFit
  <2>2. devices'[d] = Recorded(Refreshed(d, j), updates[d].status) /\ Refreshed(d, j) \in Records
    BY <1>1, <1>2, RefreshedTyped DEF Took
  <2>3. devices'[d].source = Refreshed(d, j).source /\ devices'[d].last = updates[d].status
    BY <2>1, <2>2, RecordedTyped
  <2>4. registry'[d] = (IF d \in Tracked THEN registry[d] ELSE j)
    BY <1>1, <1>2 DEF Took
  <2>5. registry'[d] = devices'[d].source /\ devices'[d].source # "none"
    BY <2>3, <2>4, RefreshedTyped DEF Informed, Tracked, Jobs
  <2>6. SaysLast(mailbox', d, devices'[d].last) /\ devices'[d].last # "none"
    BY <1>1, <1>2, <2>1, <2>3 DEF Posted, Statuses
  <2> QED BY <2>5, <2>6 DEF Handled, Relays, Tracked
<1>3. CASE d \in gone
  <2>1. devices'[d] = Untracked /\ registry'[d] = "none"
    BY <1>1, <1>3 DEF Took
  <2>2. SaysLast(mailbox', d, "removed")
    BY <1>1, <1>3 DEF Posted
  <2>3. About(d)' # {}
    BY <2>2 DEF SaysLast, About, AboutIn
  <2> QED BY <2>1, <2>2, <2>3 DEF Handled, Relays, Untracked
<1>4. CASE d \notin DOMAIN updates \cup gone
  <2>1. /\ registry'[d] = registry[d] /\ devices'[d].source = devices[d].source
        /\ devices'[d].last = devices[d].last /\ (devices[d] = Untracked => devices'[d] = Untracked)
    BY <1>1, <1>4 DEF Took
  <2>2. SilentOn(mailbox, mailbox', d)
    BY <1>1, <1>4 DEF Posted
  <2> QED BY <2>1, <2>2 DEF Handled, Relays, Informed, Tracked
<1> QED BY <1>2, <1>3, <1>4

LEMMA RemoveHandled ==
  ASSUME TypeOK, NEW e \in ManualIds, RemoveDevice(e), NEW d \in Ids, Informed(d)
  PROVE  Handled(d)
<1>1. e \in Ids /\ Posted(<< >>, {e})
  BY ManagerAssumption, RemovePosts DEF RemoveDevice
<1>2. CASE d = e
  <2>1. devices'[d] = Untracked /\ registry'[d] = "none" /\ predictor' = predictor
    BY <1>2, <1>1 DEF RemoveDevice, TypeOK
  <2>2. SaysLast(mailbox', d, "removed")
    BY <1>1, <1>2 DEF Posted
  <2>3. About(d)' # {}
    BY <2>2 DEF SaysLast, About, AboutIn
  <2> QED BY <2>1, <2>2, <2>3 DEF Handled, Relays, Untracked
<1>3. CASE d # e
  <2>1. devices'[d] = devices[d] /\ registry'[d] = registry[d] /\ predictor' = predictor /\ hubView' = hubView
    BY <1>3, <1>1 DEF RemoveDevice, TypeOK, hub
  <2>2. SilentOn(mailbox, mailbox', d)
    BY <1>1, <1>3 DEF Posted
  <2> QED BY <2>1, <2>2 DEF Handled, Relays, Informed, Tracked
<1> QED BY <1>2, <1>3

\* The mailbox and what the connector knows are left alone; a device is new, or
\* as it was.
LEMMA QuietHandled ==
  ASSUME NEW d \in Ids, Informed(d), mailbox' = mailbox, predictor' = predictor, hubView' = hubView,
         \/ devices'[d] = devices[d] /\ registry'[d] = registry[d]
         \/ \E s \in Sources : /\ d \notin Tracked /\ registry'[d] = s
                               /\ devices'[d] = [Untracked EXCEPT !.source = s]
  PROVE  Handled(d)
<1>1. SilentOn(mailbox, mailbox', d)
  BY DEF SilentOn
<1>2. CASE devices'[d] = devices[d] /\ registry'[d] = registry[d]
  BY <1>1, <1>2 DEF Handled, Relays, Informed, Tracked
<1>3. ASSUME NEW s \in Sources, d \notin Tracked, registry'[d] = s,
             devices'[d] = [Untracked EXCEPT !.source = s]
      PROVE  Handled(d)
  <2>1. devices[d] = Untracked
    BY <1>3 DEF Informed, Tracked
  <2>2. devices'[d].source = s /\ devices'[d].last = devices[d].last /\ s # "none"
    BY <1>3, <2>1 DEF Untracked, Sources, Jobs
  <2> QED BY <1>1, <1>3, <2>2 DEF Handled, Relays
<1> QED BY <1>2, <1>3

LEMMA ConfigSilent ==
  ASSUME mailbox \in Seq(Messages), NEW m \in Messages, m.kind = "thresholds", mailbox' = Append(mailbox, m)
  PROVE  /\ \A d \in Ids : SilentOn(mailbox, mailbox', d) /\ RemovalsIn(mailbox', d) = RemovalsIn(mailbox, d)
         /\ Len(mailbox') \in NewsOf(mailbox') /\ mailbox'[Len(mailbox')] = m
<1> DEFINE n == Len(mailbox)
<1>1. /\ n \in Nat /\ Len(mailbox') = n + 1 /\ mailbox'[n + 1] = m
      /\ \A i \in 1 .. n : mailbox'[i] = mailbox[i]
  BY AppendProperties, LenProperties
<1>2. 1 .. n + 1 = (1 .. n) \cup {n + 1}
  BY <1>1
<1>3. ASSUME NEW d \in Ids PROVE ~IsAbout(m, d) /\ m # Removal(d)
  BY DEF IsAbout, Removal
<1> HIDE DEF n
<1>4. ASSUME NEW d \in Ids
      PROVE  AboutIn(mailbox', d) = AboutIn(mailbox, d) /\ RemovalsIn(mailbox', d) = RemovalsIn(mailbox, d)
  BY <1>1, <1>2, <1>3 DEF AboutIn, RemovalsIn, n
<1>5. \A d \in Ids : \A i \in AboutIn(mailbox, d) : mailbox'[i] = mailbox[i]
  BY <1>1 DEF AboutIn, n
<1>6. n + 1 \in 1 .. n + 1
  BY <1>1 DEF n
<1> QED BY <1>1, <1>4, <1>5, <1>6 DEF SilentOn, NewsOf

LEMMA ConfigHandled ==
  ASSUME TypeOK, NEW config \in Configs, ApplyConfig(config), NEW d \in Ids, Informed(d)
  PROVE  Handled(d)
<1>1. thresholds' \in [warning : Int, critical : Int]
  BY ManagerAssumption DEF ApplyConfig, Resolve, TypeOK
<1>2. NewThresholds(thresholds') \in Messages /\ NewThresholds(thresholds').kind = "thresholds"
  BY <1>1 DEF NewThresholds, Messages
<1>3. mailbox' = Append(mailbox, NewThresholds(thresholds')) /\ mailbox \in Seq(Messages)
  BY DEF ApplyConfig, TypeOK
<1>4. SilentOn(mailbox, mailbox', d)
  BY <1>2, <1>3, ConfigSilent
<1>5. devices' = devices /\ registry' = registry /\ predictor' = predictor /\ hubView' = hubView
  BY DEF ApplyConfig, hub
<1> QED BY <1>4, <1>5 DEF Handled, Relays, Informed, Tracked
LEMMA TailOf ==
  ASSUME mailbox \in Seq(Messages), mailbox # << >>, mailbox' = Tail(mailbox)
  PROVE  /\ Len(mailbox) \in Nat \ {0} /\ Len(mailbox') = Len(mailbox) - 1 /\ Head(mailbox) = mailbox[1]
         /\ Head(mailbox) \in Messages /\ mailbox' \in Seq(Messages)
         /\ \A i \in 1 .. Len(mailbox) - 1 : mailbox'[i] = mailbox[i + 1]
BY HeadTailProperties, LenProperties, EmptySeq

\* Forwarding shifts the messages of every kind by one.
LEMMA TailShifts ==
  ASSUME mailbox \in Seq(Messages), mailbox # << >>, mailbox' = Tail(mailbox), NEW d
  PROVE  /\ AboutIn(mailbox', d) = {i \in 1 .. Len(mailbox) - 1 : i + 1 \in AboutIn(mailbox, d)}
         /\ NewsOf(mailbox') = {i \in 1 .. Len(mailbox) - 1 : i + 1 \in NewsOf(mailbox)}
         /\ RemovalsIn(mailbox', d) = {i \in 1 .. Len(mailbox) - 1 : i + 1 \in RemovalsIn(mailbox, d)}
         /\ \A k \in 1 .. Len(mailbox) : k # 1 => k - 1 \in 1 .. Len(mailbox) - 1 /\ (k - 1) + 1 = k /\ mailbox'[k - 1] = mailbox[k]
<1> DEFINE n == Len(mailbox)
<1>1. n \in Nat \ {0} /\ Len(mailbox') = n - 1 /\ \A i \in 1 .. n - 1 : mailbox'[i] = mailbox[i + 1]
  BY TailOf
<1>2. \A i \in 1 .. n - 1 : i + 1 \in 1 .. n
  BY <1>1
<1>3. ASSUME NEW k \in 1 .. n, k # 1 PROVE k - 1 \in 1 .. n - 1 /\ (k - 1) + 1 = k
  BY <1>1, <1>3
<1> HIDE DEF n
<1>4. AboutIn(mailbox', d) = {i \in 1 .. n - 1 : i + 1 \in AboutIn(mailbox, d)}
  BY <1>1, <1>2 DEF AboutIn, n
<1>5. NewsOf(mailbox') = {i \in 1 .. n - 1 : i + 1 \in NewsOf(mailbox)}
  BY <1>1, <1>2 DEF NewsOf, n
<1>6. RemovalsIn(mailbox', d) = {i \in 1 .. n - 1 : i + 1 \in RemovalsIn(mailbox, d)}
  BY <1>1, <1>2 DEF RemovalsIn, n
<1>7. ASSUME NEW k \in 1 .. n, k # 1 PROVE mailbox'[k - 1] = mailbox[k]
  BY <1>1, <1>3, <1>7
<1> QED BY <1>3, <1>4, <1>5, <1>6, <1>7 DEF n

\* What forwarding the oldest message does to a device.
LEMMA ForwardDoes ==
  ASSUME TypeOK, Forward, NEW d \in Ids
  PROVE  LET msg == Head(mailbox) IN
         /\ ~IsAbout(msg, d) => /\ hubView'[d] = hubView[d] /\ (d \in predictor'.models <=> d \in predictor.models)
                                /\ (d \in hubAlerts' <=> d \in hubAlerts) /\ msg # Removal(d)
         /\ IsAbout(msg, d) => hubView'[d] = Said(msg)
         /\ IsAbout(msg, d) /\ msg.kind = "status" =>
              msg.status \in Statuses /\ msg # Removal(d) /\ (d \in hubAlerts' <=> d \in hubAlerts)
         /\ IsAbout(msg, d) /\ msg.kind # "status" =>
              msg = Removal(d) /\ d \notin predictor'.models /\ d \notin hubAlerts'
<1> DEFINE msg == Head(mailbox)
<1>1. msg \in Messages
  BY TailOf DEF Forward, TypeOK
<1>2. /\ hubView \in [Ids -> Statuses \cup {"unknown", "removed"}]
      /\ predictor \in [thresholds : [warning : Int, critical : Int], models : SUBSET Ids]
  BY DEF TypeOK
<1>3. \/ /\ msg.kind = "status"
         /\ hubView' = [hubView EXCEPT ![msg.device] = msg.status]
         /\ hubAlerts' = hubAlerts
         /\ predictor' = IF msg.temperature
                           THEN [predictor EXCEPT !.models = @ \cup {msg.device}]
                           ELSE predictor
      \/ /\ msg.kind = "removed"
         /\ hubView' = [hubView EXCEPT ![msg.device] = "removed"]
         /\ hubAlerts' = hubAlerts \ {msg.device}
         /\ predictor' = [predictor EXCEPT !.models = @ \ {msg.device}]
      \/ /\ msg.kind = "thresholds"
         /\ predictor' = [predictor EXCEPT !.thresholds = msg.to]
         /\ UNCHANGED <<hubView, hubAlerts>>
  BY DEF Forward
<1> HIDE DEF msg
<1>4. CASE msg.kind = "status"
  <2>1. /\ hubView' = [hubView EXCEPT ![msg.device] = msg.status] /\ hubAlerts' = hubAlerts
        /\ \A e : e # msg.device => (e \in predictor'.models <=> e \in predictor.models)
        /\ predictor'.thresholds = predictor.thresholds
    BY <1>2, <1>3, <1>4
  <2>2. msg # Removal(d) /\ msg.status \in Statuses /\ Said(msg) = msg.status /\ msg.kind # "thresholds"
    BY <1>1, <1>4, MessageForms DEF Said
  <2> QED BY <1>2, <1>4, <2>1, <2>2 DEF IsAbout, msg
<1>5. CASE msg.kind = "removed"
  <2>1. /\ hubView' = [hubView EXCEPT ![msg.device] = "removed"] /\ hubAlerts' = hubAlerts \ {msg.device}
        /\ predictor'.models = predictor.models \ {msg.device}
        /\ predictor'.thresholds = predictor.thresholds
    BY <1>2, <1>3, <1>5
  <2>2. msg = Removal(msg.device) /\ Said(msg) = "removed" /\ (msg = Removal(d) => msg.device = d) /\ msg.kind # "thresholds"
    BY <1>1, <1>5, MessageForms DEF Said
  <2> QED BY <1>2, <1>5, <2>1, <2>2 DEF IsAbout, msg
<1>6. CASE msg.kind = "thresholds"
  <2>1. hubView' = hubView /\ hubAlerts' = hubAlerts /\ predictor'.models = predictor.models /\ predictor'.thresholds = msg.to
    BY <1>2, <1>3, <1>6
  <2>2. msg # Removal(d)
    BY <1>1, <1>6, MessageForms
  <2> QED BY <1>6, <2>1, <2>2 DEF IsAbout, msg
<1> QED BY <1>1, <1>4, <1>5, <1>6, MessageForms

LEMMA ForwardInforms ==
  ASSUME TypeOK, Forward, NEW d \in Ids, Informed(d)
  PROVE  Informed(d)'
<1> DEFINE n == Len(mailbox)
           msg == Head(mailbox)
<1>1. /\ n \in Nat \ {0} /\ msg = mailbox[1]
      /\ devices' = devices /\ registry' = registry /\ thresholds' = thresholds
  BY TailOf DEF Forward, TypeOK
<1>2. /\ About(d) = AboutIn(mailbox, d) /\ About(d)' = AboutIn(mailbox', d)
      /\ About(d) \subseteq 1 .. n /\ \A k \in About(d) : IsAbout(mailbox[k], d)
  BY DEF About, AboutIn
<1>3. /\ About(d)' = {i \in 1 .. n - 1 : i + 1 \in About(d)}
      /\ \A k \in 1 .. n : k # 1 => k - 1 \in 1 .. n - 1 /\ (k - 1) + 1 = k /\ mailbox'[k - 1] = mailbox[k]
  BY <1>2, TailShifts DEF Forward, TypeOK
<1>4. \A v : Follows(v, d)' <=> Follows(v, d)
  BY <1>1 DEF Follows
<1>5. 1 \in 1 .. n /\ (1 \in About(d) <=> IsAbout(msg, d))
  BY <1>1 DEF About
<1>6. /\ ~IsAbout(msg, d) => hubView'[d] = hubView[d] /\ (d \in predictor'.models <=> d \in predictor.models)
      /\ IsAbout(msg, d) => hubView'[d] = Said(msg)
      /\ IsAbout(msg, d) /\ msg.kind = "status" => msg.status \in Statuses
      /\ IsAbout(msg, d) /\ msg.kind # "status" => d \notin predictor'.models
  BY ForwardDoes
<1> HIDE DEF n, msg
<1>7. CASE About(d) = {} /\ Follows(hubView[d], d)
  <2>1. About(d)' = {} /\ hubView'[d] = hubView[d] /\ (d \in predictor'.models <=> d \in predictor.models)
    BY <1>3, <1>5, <1>6, <1>7
  <2>2. Follows(hubView[d], d)'
    BY <1>1, <1>7, <2>1 DEF Follows
  <2> QED BY <1>1, <1>7, <2>1, <2>2 DEF Informed, Told, Tracked
<1>8. ASSUME NEW i \in About(d), \A k \in About(d) : k <= i, Follows(Said(mailbox[i]), d)
      PROVE  Informed(d)'
  <2>1. CASE i # 1
    <3>1. i - 1 \in About(d)' /\ mailbox'[i - 1] = mailbox[i]
      BY <1>2, <1>3, <2>1
    <3>2. ASSUME NEW k \in About(d)' PROVE k <= i - 1
      <4>1. k + 1 \in About(d) /\ k \in Int /\ i \in Int
        BY <1>2, <1>3
      <4> QED BY <4>1, <1>8
    <3>3. Follows(Said(mailbox'[i - 1]), d)
      BY <1>8, <3>1
    <3>4. Told(d)' /\ About(d)' # {}
      BY <1>1, <3>1, <3>2, <3>3 DEF Told, Follows
    <3> QED BY <1>1, <3>4 DEF Informed
  <2>2. CASE i = 1
    <3>1. IsAbout(msg, d) /\ mailbox[i] = msg
      BY <1>1, <1>5, <2>2
    <3>2. About(d)' = {}
      <4>1. ASSUME NEW k \in About(d)' PROVE FALSE
        <5>1. k + 1 \in About(d) /\ k \in 1 .. n - 1
          BY <1>3
        <5>2. k + 1 <= 1
          BY <5>1, <1>8, <2>2
        <5> QED BY <1>1, <5>1, <5>2
      <4> QED BY <4>1
    <3>3. Follows(hubView'[d], d) /\ hubView'[d] = Said(msg)
      BY <1>6, <1>8, <3>1
    <3>4. Told(d)'
      BY <1>1, <3>2, <3>3 DEF Told, Follows
    <3>5. d \in predictor'.models => d \in Tracked
      <4>1. ASSUME d \in predictor'.models PROVE devices[d].last # "none"
        <5>1. msg.kind = "status" /\ msg.status \in Statuses
          BY <1>6, <3>1, <4>1
        <5> QED BY <5>1, <3>3 DEF Follows, Said, Statuses
      <4> QED BY <4>1 DEF Informed, Tracked, Untracked
    <3> QED BY <1>1, <3>4, <3>5 DEF Informed, Tracked
  <2> QED BY <2>1, <2>2
<1> QED BY <1>7, <1>8 DEF Informed, Told

LEMMA ForwardTellsPredictor ==
  ASSUME TypeOK, Forward, PredictorFollows
  PROVE  PredictorFollows'
<1> DEFINE n == Len(mailbox)
           msg == Head(mailbox)
<1>1. n \in Nat \ {0} /\ msg = mailbox[1] /\ thresholds' = thresholds
  BY TailOf DEF Forward, TypeOK
<1>2. /\ NewsOf(mailbox') = {i \in 1 .. n - 1 : i + 1 \in NewsOf(mailbox)}
      /\ \A k \in 1 .. n : k # 1 => k - 1 \in 1 .. n - 1 /\ (k - 1) + 1 = k /\ mailbox'[k - 1] = mailbox[k]
  BY TailShifts DEF Forward, TypeOK
<1>3. NewsOf(mailbox) \subseteq 1 .. n /\ (1 \in NewsOf(mailbox) <=> msg.kind = "thresholds")
  BY <1>1 DEF NewsOf
<1>4. /\ msg.kind # "thresholds" => predictor'.thresholds = predictor.thresholds
      /\ msg.kind = "thresholds" => predictor'.thresholds = msg.to
  <2>1. \/ msg.kind = "status" /\ (predictor' = predictor \/ predictor' = [predictor EXCEPT !.models = @ \cup {msg.device}])
        \/ msg.kind = "removed" /\ predictor' = [predictor EXCEPT !.models = @ \ {msg.device}]
        \/ msg.kind = "thresholds" /\ predictor' = [predictor EXCEPT !.thresholds = msg.to]
    BY DEF Forward
  <2>2. predictor \in [thresholds : [warning : Int, critical : Int], models : SUBSET Ids]
    BY DEF TypeOK
  <2> HIDE DEF msg
  <2> QED BY <2>1, <2>2
<1> HIDE DEF n, msg
<1>5. CASE NewsOf(mailbox) = {} /\ predictor.thresholds = thresholds
  BY <1>1, <1>2, <1>3, <1>4, <1>5 DEF PredictorFollows
<1>6. ASSUME NEW i \in NewsOf(mailbox), \A k \in NewsOf(mailbox) : k <= i, mailbox[i].to = thresholds
      PROVE  PredictorFollows'
  <2>1. CASE i # 1
    <3>1. i - 1 \in NewsOf(mailbox') /\ mailbox'[i - 1] = mailbox[i]
      BY <1>2, <1>3, <2>1
    <3>2. ASSUME NEW k \in NewsOf(mailbox') PROVE k <= i - 1
      <4>1. k + 1 \in NewsOf(mailbox) /\ k \in Int /\ i \in Int
        BY <1>2, <1>3
      <4> QED BY <4>1, <1>6
    <3> QED BY <1>1, <1>6, <3>1, <3>2 DEF PredictorFollows
  <2>2. CASE i = 1
    <3>1. ASSUME NEW k \in NewsOf(mailbox') PROVE FALSE
      <4>1. k + 1 \in NewsOf(mailbox) /\ k \in 1 .. n - 1
        BY <1>2
      <4>2. k + 1 <= 1
        BY <4>1, <1>6, <2>2
      <4> QED BY <1>1, <4>1, <4>2
    <3> QED BY <1>1, <1>3, <1>4, <1>6, <2>2, <3>1 DEF PredictorFollows
  <2> QED BY <2>1, <2>2
<1> QED BY <1>5, <1>6 DEF PredictorFollows
LEMMA PostedTellsPredictor ==
  ASSUME NEW updates, NEW removed, Posted(updates, removed), PredictorFollows,
         predictor' = predictor, thresholds' = thresholds
  PROVE  PredictorFollows'
BY DEF Posted, PredictorFollows

LEMMA ConfigTellsPredictor ==
  ASSUME TypeOK, NEW config \in Configs, ApplyConfig(config)
  PROVE  PredictorFollows'
<1>1. thresholds' \in [warning : Int, critical : Int]
  BY ManagerAssumption DEF ApplyConfig, Resolve, TypeOK
<1>2. NewThresholds(thresholds') \in Messages /\ NewThresholds(thresholds').kind = "thresholds"
      /\ NewThresholds(thresholds').to = thresholds'
  BY <1>1 DEF NewThresholds, Messages
<1>3. mailbox' = Append(mailbox, NewThresholds(thresholds')) /\ mailbox \in Seq(Messages)
  BY DEF ApplyConfig, TypeOK
<1>4. Len(mailbox') \in NewsOf(mailbox') /\ mailbox'[Len(mailbox')] = NewThresholds(thresholds')
  BY <1>2, <1>3, ConfigSilent
<1>5. \A k \in NewsOf(mailbox') : k <= Len(mailbox')
  BY DEF NewsOf
<1> QED BY <1>2, <1>4, <1>5 DEF PredictorFollows

LEMMA ResendInforms ==
  ASSUME TypeOK, ResendState, NEW d \in Ids, Informed(d)
  PROVE  Informed(d)'
<1>1. /\ devices' = devices /\ registry' = registry /\ mailbox' = mailbox /\ predictor' = predictor
      /\ hubView'[d] = IF devices[d].last # "none" THEN devices[d].last ELSE hubView[d]
  BY DEF ResendState
<1>2. Told(d)'
  BY <1>1 DEF Informed, Told, Follows, About
<1> QED BY <1>1, <1>2 DEF Informed, Tracked, About

LEMMA StopInforms ==
  ASSUME StopDeviceManager
  PROVE  (\A d \in Ids : Informed(d)') /\ PredictorFollows'
<1>1. mailbox' = << >> /\ Len(mailbox') = 0
  BY DEF StopDeviceManager
<1>2. \A d : About(d)' = {}
  BY <1>1 DEF About
<1>3. NewsOf(mailbox') = {}
  BY <1>1 DEF NewsOf
<1>4. ASSUME NEW d \in Ids PROVE Informed(d)'
  <2>1. devices'[d] = Untracked /\ registry'[d] = "none" /\ hubView'[d] = "unknown" /\ predictor'.models = {}
    BY DEF StopDeviceManager
  <2>2. Told(d)'
    BY <1>2, <2>1 DEF Told, Follows, Untracked
  <2> QED BY <2>1, <2>2 DEF Informed, Untracked
<1>5. PredictorFollows'
  BY <1>3 DEF StopDeviceManager, PredictorFollows
<1> QED BY <1>4, <1>5

LEMMA InitDownstream == Init => Downstream
<1> SUFFICES ASSUME Init PROVE Downstream
  OBVIOUS
<1>1. mailbox = << >> /\ Len(mailbox) = 0
  BY DEF Init
<1>2. (\A d : About(d) = {}) /\ NewsOf(mailbox) = {}
  BY <1>1 DEF About, NewsOf
<1>3. ASSUME NEW d \in Ids PROVE Informed(d)
  <2>1. devices[d] = Untracked /\ registry[d] = "none" /\ hubView[d] = "unknown" /\ predictor.models = {}
    BY DEF Init
  <2> QED BY <1>2, <2>1 DEF Informed, Told, Follows, Untracked
<1>4. PredictorFollows
  BY <1>2 DEF Init, PredictorFollows
<1> QED BY <1>3, <1>4, InitTyped DEF Downstream

LEMMA DownstreamStep == Downstream /\ [Next]_vars => Downstream'
<1> SUFFICES ASSUME Downstream, [Next]_vars
             PROVE  (\A d \in Ids : Informed(d)') /\ PredictorFollows'
  BY TypeStep DEF Downstream
<1> USE DEF Downstream
<1>1. CASE Start
  <2>1. \A d \in Ids : Handled(d)
    BY <1>1, QuietHandled DEF Start, hub
  <2>2. PredictorFollows'
    BY <1>1 DEF Start, PredictorFollows
  <2> QED BY <2>1, <2>2, HandledInformed
<1>2. ASSUME NEW overdue, NEW due, NEW t, Ticks(overdue, due, t)
      PROVE  (\A d \in Ids : Informed(d)') /\ PredictorFollows'
  <2>1. PredictorFollows'
    BY <1>2, TickDoes, PostedTellsPredictor
  <2> QED BY <1>2, <2>1, TickHandled, HandledInformed
<1>3. ASSUME NEW listing \in Listings(SysCfgIds, Readings), NEW same,
             SweepOk, Apply("syscfg", StatusFromHealth(listing), same)
      PROVE  (\A d \in Ids : Informed(d)') /\ PredictorFollows'
  <2>1. "syscfg" \in Jobs /\ UpdatesFit(StatusFromHealth(listing))
        /\ hubView' = hubView /\ predictor' = predictor /\ thresholds' = thresholds
    BY <1>3, SweepUpdatesFit DEF SweepOk, Jobs
  <2>2. \A d \in Ids : Handled(d)
    BY <1>3, <2>1, ApplyHandled
  <2>3. PredictorFollows'
    BY <1>3, <2>1, ApplyPosts, PostedTellsPredictor
  <2> QED BY <2>2, <2>3, HandledInformed
<1>4. CASE SweepUnavailable
  <2>1. ASSUME NEW d \in Ids PROVE Handled(d)
    <3>1. mailbox' = mailbox /\ predictor' = predictor /\ hubView' = hubView
      BY <1>4 DEF SweepUnavailable
    <3>2. CASE mode = "pending" /\ d \in SimulatedIds \ Tracked
      <4>1. registry'[d] = "simulated" /\ devices'[d] = [Untracked EXCEPT !.source = "simulated"]
        BY <1>4, <3>2 DEF SweepUnavailable
      <4> QED BY <3>1, <3>2, <4>1, QuietHandled DEF Sources
    <3>3. CASE ~(mode = "pending" /\ d \in SimulatedIds \ Tracked)
      <4>1. registry'[d] = registry[d] /\ devices'[d] = devices[d]
        BY <1>4, <3>3 DEF SweepUnavailable
      <4> QED BY <3>1, <4>1, QuietHandled
    <3> QED BY <3>2, <3>3
  <2>2. PredictorFollows'
    BY <1>4 DEF SweepUnavailable, PredictorFollows
  <2> QED BY <2>1, <2>2, HandledInformed
<1>5. CASE SweepFailed \/ ScanFailed \/ \E j \in Jobs : JobPanicked(j)
  <2>1. /\ mailbox' = mailbox /\ predictor' = predictor /\ hubView' = hubView
        /\ devices' = devices /\ registry' = registry /\ thresholds' = thresholds
    BY <1>5 DEF SweepFailed, ScanFailed, JobPanicked
  <2>2. \A d \in Ids : Handled(d)
    BY <2>1, QuietHandled
  <2>3. PredictorFollows'
    BY <2>1 DEF PredictorFollows
  <2> QED BY <2>2, <2>3, HandledInformed
<1>6. ASSUME NEW listing \in Listings(VisaIds, BOOLEAN), NEW same,
             ScanOk, Apply("visa", VisaStatus(listing), same)
      PROVE  (\A d \in Ids : Informed(d)') /\ PredictorFollows'
  <2>1. "visa" \in Jobs /\ UpdatesFit(VisaStatus(listing))
        /\ hubView' = hubView /\ predictor' = predictor /\ thresholds' = thresholds
    BY <1>6, ScanUpdatesFit DEF ScanOk, Jobs
  <2>2. \A d \in Ids : Handled(d)
    BY <1>6, <2>1, ApplyHandled
  <2>3. PredictorFollows'
    BY <1>6, <2>1, ApplyPosts, PostedTellsPredictor
  <2> QED BY <2>2, <2>3, HandledInformed
<1>7. ASSUME NEW e \in ManualIds, AddDevice(e)
      PROVE  (\A d \in Ids : Informed(d)') /\ PredictorFollows'
  <2>1. ASSUME NEW d \in Ids PROVE Handled(d)
    <3>1. mailbox' = mailbox /\ predictor' = predictor /\ hubView' = hubView
      BY <1>7 DEF AddDevice, hub
    <3>2. CASE d = e
      <4>1. d \notin Tracked /\ registry'[d] = "manual" /\ devices'[d] = [Untracked EXCEPT !.source = "manual"]
        BY <1>7, <3>2 DEF AddDevice, TypeOK
      <4> QED BY <3>1, <4>1, QuietHandled DEF Sources
    <3>3. CASE d # e
      <4>1. registry'[d] = registry[d] /\ devices'[d] = devices[d]
        BY <1>7, <3>3 DEF AddDevice, TypeOK
      <4> QED BY <3>1, <4>1, QuietHandled
    <3> QED BY <3>2, <3>3
  <2>2. PredictorFollows'
    BY <1>7 DEF AddDevice, PredictorFollows
  <2> QED BY <2>1, <2>2, HandledInformed
<1>8. ASSUME NEW e \in ManualIds, RemoveDevice(e)
      PROVE  (\A d \in Ids : Informed(d)') /\ PredictorFollows'
  <2>1. e \in Ids /\ predictor' = predictor /\ thresholds' = thresholds /\ Post(<< >>, {e})
    BY <1>8, ManagerAssumption DEF RemoveDevice
  <2>2. PredictorFollows'
    BY <2>1, RemovePosts, PostedTellsPredictor
  <2> QED BY <1>8, <2>2, RemoveHandled, HandledInformed
<1>9. ASSUME NEW config \in Configs, ApplyConfig(config)
      PROVE  (\A d \in Ids : Informed(d)') /\ PredictorFollows'
  BY <1>9, ConfigHandled, ConfigTellsPredictor, HandledInformed
<1>10. CASE ResendState
  <2>1. PredictorFollows'
    BY <1>10 DEF ResendState, PredictorFollows
  <2> QED BY <1>10, <2>1, ResendInforms
<1>11. CASE StopDeviceManager
  BY <1>11, StopInforms
<1>12. CASE Forward
  BY <1>12, ForwardInforms, ForwardTellsPredictor
<1>13. CASE UNCHANGED vars
  <2>1. /\ mailbox' = mailbox /\ predictor' = predictor /\ hubView' = hubView
        /\ devices' = devices /\ registry' = registry /\ thresholds' = thresholds
    BY <1>13 DEF vars, manager, hub
  <2>2. \A d \in Ids : Handled(d)
    BY <2>1, QuietHandled
  <2>3. PredictorFollows'
    BY <2>1 DEF PredictorFollows
  <2> QED BY <2>2, <2>3, HandledInformed
<1> QED BY <1>1, <1>2, <1>3, <1>4, <1>5, <1>6, <1>7, <1>8, <1>9, <1>10, <1>11, <1>12, <1>13, Steps

LEMMA DownstreamMeans == Downstream => DownstreamAgrees
<1> SUFFICES ASSUME Downstream PROVE DownstreamAgrees
  OBVIOUS
<1>1. ASSUME NEW d \in Ids
      PROVE  /\ IF devices[d].last # "none" THEN View(d) = devices[d].last
                                            ELSE View(d) \in {"unknown", "removed"}
             /\ registry[d] = devices[d].source
  <2>1. Informed(d)
    BY DEF Downstream
  <2>2. CASE About(d) = {} /\ Follows(hubView[d], d)
    BY <2>1, <2>2 DEF Informed, View, Follows
  <2>3. ASSUME NEW i \in About(d), \A k \in About(d) : k <= i, Follows(Said(mailbox[i]), d)
        PROVE  Follows(View(d), d)
    <3>1. \A k \in About(d) : k \in Int
      BY DEF About
    <3>2. Max(About(d)) = i
      BY <2>3, <3>1 DEF Max
    <3> QED BY <2>3, <3>2 DEF View
  <2> QED BY <2>1, <2>2, <2>3 DEF Informed, Told, Follows
<1>2. ASSUME mailbox = << >>
      PROVE  predictor.models \subseteq Tracked /\ predictor.thresholds = thresholds
  <2>1. (\A d : About(d) = {}) /\ NewsOf(mailbox) = {}
    BY <1>2 DEF About, NewsOf
  <2>2. predictor.models \subseteq Ids
    BY DEF Downstream, TypeOK
  <2> QED BY <2>1, <2>2 DEF Downstream, Informed, PredictorFollows
<1> QED BY <1>1, <1>2 DEF DownstreamAgrees

\* However messages, resent snapshots and job results interleave, what the hub
\* connector hears of a device ends with its latest status or its removal, an empty
\* mailbox leaves the predictor with the models of tracked devices and the
\* thresholds in force, and the action runtime can act on exactly the devices that
\* are tracked (device_manager.rs, prediction_actor.rs).
THEOREM DownstreamCorrect == Spec => []DownstreamAgrees
<1>1. Init => Downstream
  BY InitDownstream
<1>2. Downstream /\ [Next]_vars => Downstream'
  BY DownstreamStep
<1>3. Downstream => DownstreamAgrees
  BY DownstreamMeans
<1> QED BY <1>1, <1>2, <1>3, PTL DEF Spec

-----------------------------------------------------------------------------
(* Alerts about devices                                                    *)

\* The job is over, was just started, or goes on.
GoesOn(j) ==
  \/ jobs'[j].phase = "idle" \/ jobs'[j].lag = Len(mailbox')
  \/ Running(j) /\ jobs'[j].lag = jobs[j].lag

LEMMA KeptOvertakers ==
  ASSUME NEW d, NEW j \in Jobs, GoesOn(j), RemovalsIn(mailbox', d) = RemovalsIn(mailbox, d),
         Len(mailbox') \in Nat, MayOvertake(j, d)'
  PROVE  MayOvertake(j, d)
<1>1. jobs'[j].phase # "idle" /\ d \in Lists(j)
  BY DEF MayOvertake, Running, Lists
<1>2. PICK i \in RemovalsIn(mailbox', d) : jobs'[j].lag < i
  BY DEF MayOvertake
<1>3. i \in 1 .. Len(mailbox')
  BY DEF RemovalsIn
<1>4. jobs'[j].lag # Len(mailbox')
  BY <1>2, <1>3
<1> QED BY <1>1, <1>2, <1>4 DEF GoesOn, MayOvertake

LEMMA QuietAlerts ==
  ASSUME NEW d \in Ids, AlertsFollow(d), RemovalsIn(mailbox', d) = RemovalsIn(mailbox, d),
         Len(mailbox') \in Nat, d \in hubAlerts' <=> d \in hubAlerts,
         devices'[d].alerted = devices[d].alerted, devices'[d].ever = devices[d].ever,
         \A j \in Jobs : GoesOn(j), mode = "hardware" => mode' = "hardware"
  PROVE  AlertsFollow(d)'
<1>1. AlertFollows(d)'
  BY DEF AlertsFollow, AlertFollows
<1>2. \A j \in Jobs : MayOvertake(j, d)' => MayOvertake(j, d)
  BY KeptOvertakers
<1>3. FoundAtMostOnce(d)'
  BY <1>2 DEF AlertsFollow, FoundAtMostOnce
<1> QED BY <1>1, <1>3 DEF AlertsFollow

LEMMA FinishKeeps ==
  ASSUME TypeOK, NEW j \in Jobs, Finish(j)
  PROVE  /\ \A k \in Jobs : GoesOn(k) /\ jobs'[j].phase = "idle" /\ jobs[j].lag = 0 /\ Running(j)
         /\ \A k \in Jobs : k # j => jobs'[k] = jobs[k]
<1>1. jobs \in [Jobs -> Slots] /\ jobs' = [jobs EXCEPT ![j].phase = "idle"]
  BY DEF TypeOK, Slots, Finish
<1>2. jobs'[j] = [jobs[j] EXCEPT !.phase = "idle"] /\ jobs[j] \in Slots
  BY <1>1
<1>3. jobs'[j].phase = "idle"
  BY <1>2, SlotForms
<1>4. \A k \in Jobs : k # j => jobs'[k] = jobs[k]
  BY <1>1
<1>5. \A k \in Jobs : GoesOn(k)
  BY <1>3, <1>4 DEF GoesOn, Running
<1> QED BY <1>3, <1>4, <1>5 DEF Finish

LEMMA TickKeeps ==
  ASSUME TypeOK, NEW overdue, NEW due, NEW t, Ticks(overdue, due, t)
  PROVE  \A j \in Jobs : /\ GoesOn(j)
                         /\ jobs'[j].phase = "stalled" <=> j \in overdue \/ jobs[j].phase = "stalled"
                         /\ Running(j)' => Running(j) \/ (j = "syscfg" => WantsSysCfg(mode))
<1> SUFFICES ASSUME NEW j \in Jobs
             PROVE  /\ GoesOn(j)
                    /\ jobs'[j].phase = "stalled" <=> j \in overdue \/ jobs[j].phase = "stalled"
                    /\ Running(j)' => Running(j) \/ (j = "syscfg" => WantsSysCfg(mode))
  OBVIOUS
<1>1. jobs'[j] = CASE j \in overdue -> [jobs[j] EXCEPT !.phase = "stalled"]
                   [] j \in Starting(due) -> Started(j)
                   [] OTHER -> jobs[j]
  BY TickDoes
<1>2. jobs[j] \in Slots
  BY JobsTyped
<1>3. CASE j \in overdue
  <2>1. jobs[j].phase = "running" /\ j \notin Starting(due)
    BY <1>3 DEF Ticks, Overdue, Starting, Running
  <2>2. jobs'[j] = [jobs[j] EXCEPT !.phase = "stalled"]
    BY <1>1, <1>3, <2>1
  <2> QED BY <1>2, <1>3, <2>1, <2>2, SlotForms DEF GoesOn, Running
<1>4. CASE j \notin overdue /\ j \in Starting(due)
  <2>1. jobs'[j] = Started(j)
    BY <1>1, <1>4
  <2> QED BY <1>4, <2>1 DEF GoesOn, Running, Started, Starting
<1>5. CASE j \notin overdue /\ j \notin Starting(due)
  <2>1. jobs'[j] = jobs[j]
    BY <1>1, <1>5
  <2> QED BY <1>5, <2>1 DEF GoesOn, Running
<1> QED BY <1>3, <1>4, <1>5

LEMMA TickAlerts ==
  ASSUME TypeOK, SweepsWanted, NEW overdue, NEW due, NEW t, Ticks(overdue, due, t),
         NEW d \in Ids, AlertsFollow(d)
  PROVE  AlertsFollow(d)'
<1>1. /\ Posted(Sampled(t), {}) /\ UpdatesFit(Sampled(t)) /\ DOMAIN Sampled(t) = Simulated
      /\ \A e \in Simulated : Sampled(t)[e].status # "offline"
      /\ mode' = mode /\ AlertAbout(devices, Sampled(t)) /\ devices[d] \in Records
  BY TickDoes, SampleUpdatesFit DEF Ticks, TypeOK, Records
<1>2. RemovalsIn(mailbox', d) = RemovalsIn(mailbox, d) /\ Len(mailbox') \in Nat
  BY <1>1 DEF Posted
<1>3. \A j \in Jobs : GoesOn(j)
  BY TickKeeps
<1>4. CASE d \in Simulated
  <2>1. devices'[d] = Recorded(devices[d], Sampled(t)[d].status) /\ Sampled(t)[d].status \in Statuses
    BY <1>1, <1>4, TickDoes DEF UpdatesFit
  <2>2. ~devices'[d].alerted
    <3>1. Sampled(t)[d].status # "offline"
      BY <1>1, <1>4
    <3>2. devices'[d].alerted = (Sampled(t)[d].status = "offline" /\ (devices[d].ever \/ devices[d].alerted))
      BY <1>1, <2>1, RecordedTyped
    <3> QED BY <3>1, <3>2
  <2>3. d \in hubAlerts' <=> d \in hubAlerts /\ ~devices[d].alerted
    BY <1>1, <1>4 DEF AlertAbout, Warned, Cleared
  <2>4. AlertFollows(d)'
    BY <1>2, <2>2, <2>3 DEF AlertsFollow, AlertFollows
  <2>5. ASSUME NEW j \in Jobs, MayOvertake(j, d)' PROVE FALSE
    <3>1. MayOvertake(j, d)
      BY <1>2, <1>3, <2>5, KeptOvertakers
    <3>2. mode = "simulated" /\ d \in SimulatedIds
      BY <1>4 DEF Simulated
    <3>3. CASE j = "visa"
      BY <3>1, <3>2, <3>3 DEF AlertsFollow, FoundAtMostOnce
    <3>4. CASE j = "syscfg"
      BY <3>1, <3>2, <3>4 DEF MayOvertake, SweepsWanted, WantsSysCfg
    <3> QED BY <3>3, <3>4 DEF Jobs
  <2> QED BY <2>4, <2>5 DEF AlertsFollow, FoundAtMostOnce
<1>5. CASE d \notin Simulated
  <2>1. devices'[d] = devices[d]
    BY <1>5, TickDoes
  <2>2. d \in hubAlerts' <=> d \in hubAlerts
    BY <1>1, <1>5 DEF AlertAbout
  <2> QED BY <1>1, <1>2, <1>3, <2>1, <2>2, QuietAlerts
<1> QED BY <1>4, <1>5

LEMMA ApplyAlerts ==
  ASSUME TypeOK, NEW j \in Jobs, NEW updates, NEW same, UpdatesFit(updates), DOMAIN updates \subseteq Lists(j),
         Finish(j), Apply(j, updates, same), mode = "hardware" \/ j = "syscfg" => mode' = "hardware",
         NEW d \in Ids, Informed(d), AlertsFollow(d)
  PROVE  AlertsFollow(d)'
<1> DEFINE gone == Expired(j, DOMAIN updates, same)
           seen == [e \in DOMAIN updates |-> Refreshed(e, j)]
<1>1. /\ Posted(updates, gone) /\ Took(j, updates, same, d) /\ AlertAbout(seen, updates)
      /\ Len(mailbox') \in Nat
  BY ApplyPosts, ApplyTakes DEF Apply, Posted
<1>2. /\ \A k \in Jobs : GoesOn(k)
      /\ jobs'[j].phase = "idle" /\ jobs[j].lag = 0 /\ Running(j)
  BY FinishKeeps
<1>3. \A k \in Jobs : MayOvertake(k, d)' => k # j
  BY <1>2 DEF MayOvertake, Running
<1> HIDE DEF gone, seen
<1>4. CASE d \in DOMAIN updates
  <2>1. /\ updates[d].status \in Statuses /\ devices'[d] = Recorded(Refreshed(d, j), updates[d].status)
        /\ d \notin gone
    <3>1. d \notin gone
      BY <1>4 DEF gone, Expired, Missing
    <3> QED BY <1>1, <1>4, <3>1 DEF UpdatesFit, Took
  <2>2. /\ Refreshed(d, j) \in Records
        /\ Refreshed(d, j).alerted = devices[d].alerted /\ Refreshed(d, j).ever = devices[d].ever
    <3>1. CASE d \in Tracked
      BY <3>1, RefreshedTyped
    <3>2. CASE d \notin Tracked
      <4>1. devices[d] = Untracked
        BY <3>2 DEF Informed, Tracked
      <4>2. devices[d].ever = FALSE /\ devices[d].alerted = FALSE
        BY <4>1 DEF Untracked
      <4>3. Refreshed(d, j).ever \in BOOLEAN /\ Refreshed(d, j).alerted \in BOOLEAN
        BY RefreshedTyped DEF Records
      <4> QED BY <3>2, <4>2, <4>3, RefreshedTyped
    <3> QED BY <3>1, <3>2
  <2>3. devices'[d].alerted = (updates[d].status = "offline" /\ (devices[d].ever \/ devices[d].alerted))
    BY <2>1, <2>2, RecordedTyped
  <2>4. RemovalsIn(mailbox', d) = RemovalsIn(mailbox, d)
    BY <1>1, <2>1 DEF Posted
  <2>5. CASE RemovalsIn(mailbox, d) # {}
    <3>1. MayOvertake(j, d)
      <4>1. PICK i \in RemovalsIn(mailbox, d) : TRUE
        BY <2>5
      <4>2. 0 < i
        BY <4>1 DEF RemovalsIn
      <4> QED BY <1>2, <1>4, <4>1, <4>2 DEF MayOvertake
    <3>2. ~devices[d].ever /\ \A k \in Jobs : MayOvertake(k, d) => k = j
      BY <3>1 DEF AlertsFollow, FoundAtMostOnce
    <3>3. ~devices[d].alerted
      BY <2>5 DEF AlertsFollow, AlertFollows
    <3>4. ~devices'[d].alerted
      BY <2>3, <3>2, <3>3
    <3>5. \A k \in Jobs : ~MayOvertake(k, d)'
      BY <1>1, <1>2, <1>3, <2>4, <3>2, KeptOvertakers
    <3> QED BY <2>4, <2>5, <3>4, <3>5 DEF AlertsFollow, AlertFollows, FoundAtMostOnce
  <2>6. CASE RemovalsIn(mailbox, d) = {}
    <3>1. seen[d] = Refreshed(d, j)
      BY <1>4 DEF seen
    <3>2. d \in hubAlerts' <=> /\ d \in hubAlerts \/ Warned(Refreshed(d, j), updates[d].status)
                               /\ ~Cleared(Refreshed(d, j), updates[d].status)
      BY <1>1, <1>4, <3>1 DEF AlertAbout
    <3>3. d \in hubAlerts <=> devices[d].alerted
      BY <2>6 DEF AlertsFollow, AlertFollows
    <3>4. devices[d].ever \in BOOLEAN /\ devices[d].alerted \in BOOLEAN
      BY DEF TypeOK
    <3>5. d \in hubAlerts' <=> devices'[d].alerted
      BY <2>2, <2>3, <3>2, <3>3, <3>4 DEF Warned, Cleared
    <3>6. \A k \in Jobs : ~MayOvertake(k, d)'
      BY <2>4, <2>6 DEF MayOvertake
    <3> QED BY <2>4, <2>6, <3>5, <3>6 DEF AlertsFollow, AlertFollows, FoundAtMostOnce
  <2> QED BY <2>5, <2>6
<1>5. CASE d \in gone
  <2>1. devices'[d] = Untracked /\ RemovalsIn(mailbox', d) # {}
    BY <1>1, <1>5 DEF Took, gone, Posted
  <2>2. AlertFollows(d)'
    BY <2>1 DEF AlertFollows, Untracked
  <2>3. FoundAtMostOnce(d)'
    BY <1>3, <2>1 DEF FoundAtMostOnce, Untracked, Jobs
  <2> QED BY <2>2, <2>3 DEF AlertsFollow
<1>6. CASE d \notin DOMAIN updates /\ d \notin gone
  <2>1. RemovalsIn(mailbox', d) = RemovalsIn(mailbox, d)
    BY <1>1, <1>6 DEF Posted
  <2>2. devices'[d].ever = devices[d].ever /\ devices'[d].alerted = devices[d].alerted
    BY <1>1, <1>6 DEF Took, gone
  <2>3. d \in hubAlerts' <=> d \in hubAlerts
    BY <1>1, <1>6 DEF AlertAbout
  <2> QED BY <1>1, <1>2, <2>1, <2>2, <2>3, QuietAlerts
<1> QED BY <1>4, <1>5, <1>6

LEMMA RemoveAlerts ==
  ASSUME TypeOK, ManualApart, NEW e \in ManualIds, RemoveDevice(e), NEW d \in Ids, AlertsFollow(d)
  PROVE  AlertsFollow(d)'
<1>1. e \in Ids /\ Posted(<< >>, {e}) /\ Len(mailbox') \in Nat
  BY ManagerAssumption, RemovePosts DEF RemoveDevice, Posted
<1>2. jobs' = jobs /\ mode' = mode /\ hubAlerts' = hubAlerts
  BY DEF RemoveDevice, hub
<1>3. CASE d = e
  <2>1. devices'[d] = Untracked /\ RemovalsIn(mailbox', d) # {}
    BY <1>1, <1>3 DEF RemoveDevice, Posted, TypeOK
  <2>2. AlertFollows(d)'
    BY <2>1 DEF AlertFollows, Untracked
  <2>3. \A j, k \in Jobs : MayOvertake(j, d)' /\ MayOvertake(k, d)' => j = k
    BY <1>3 DEF MayOvertake, Lists, ManualApart, Jobs
  <2>4. MayOvertake("visa", d)' => d \notin SimulatedIds
    BY <1>3 DEF MayOvertake, Lists, ManualApart
  <2>5. FoundAtMostOnce(d)'
    BY <2>1, <2>3, <2>4 DEF FoundAtMostOnce, Untracked
  <2> QED BY <2>2, <2>5 DEF AlertsFollow
<1>4. CASE d # e
  <2>1. devices'[d] = devices[d]
    BY <1>4 DEF RemoveDevice, TypeOK
  <2>2. RemovalsIn(mailbox', d) = RemovalsIn(mailbox, d)
    BY <1>1, <1>4 DEF Posted
  <2>3. \A j \in Jobs : GoesOn(j)
    BY <1>2 DEF GoesOn, Running
  <2> QED BY <1>1, <1>2, <2>1, <2>2, <2>3, QuietAlerts
<1> QED BY <1>3, <1>4

LEMMA ForwardAlerts ==
  ASSUME TypeOK, Forward, NEW d \in Ids, AlertsFollow(d)
  PROVE  AlertsFollow(d)'
<1> DEFINE n == Len(mailbox)
           msg == Head(mailbox)
<1>1. /\ n \in Nat \ {0} /\ msg = mailbox[1]
      /\ devices' = devices /\ mode' = mode
      /\ jobs' = [j \in Jobs |-> [jobs[j] EXCEPT !.lag = IF @ = 0 THEN 0 ELSE @ - 1]]
  BY TailOf DEF Forward, TypeOK
<1>2. /\ RemovalsIn(mailbox', d) = {i \in 1 .. n - 1 : i + 1 \in RemovalsIn(mailbox, d)}
      /\ \A k \in 1 .. n : k # 1 => k - 1 \in 1 .. n - 1 /\ (k - 1) + 1 = k
      /\ RemovalsIn(mailbox, d) \subseteq 1 .. n /\ 1 \in 1 .. n
      /\ (1 \in RemovalsIn(mailbox, d) <=> msg = Removal(d))
  <2>1. 1 \in 1 .. n
    BY <1>1
  <2> QED BY <1>1, <2>1, TailShifts DEF Forward, TypeOK, RemovalsIn
<1>3. /\ msg # Removal(d) => (d \in hubAlerts' <=> d \in hubAlerts)
      /\ msg = Removal(d) => d \notin hubAlerts'
  <2>1. IsAbout(Removal(d), d) /\ Removal(d).kind # "status"
    BY DEF IsAbout, Removal
  <2> QED BY <2>1, ForwardDoes
<1> HIDE DEF n, msg
<1>4. AlertFollows(d)'
  <2>1. CASE RemovalsIn(mailbox, d) = {}
    BY <1>1, <1>2, <1>3, <2>1 DEF AlertsFollow, AlertFollows
  <2>2. CASE RemovalsIn(mailbox, d) # {} /\ RemovalsIn(mailbox', d) # {}
    BY <1>1, <2>2 DEF AlertsFollow, AlertFollows
  <2>3. CASE RemovalsIn(mailbox, d) # {} /\ RemovalsIn(mailbox', d) = {}
    <3>1. 1 \in RemovalsIn(mailbox, d)
      BY <1>2, <2>3
    <3> QED BY <1>1, <1>2, <1>3, <2>3, <3>1 DEF AlertsFollow, AlertFollows
  <2> QED BY <2>1, <2>2, <2>3
<1>5. ASSUME NEW j \in Jobs, MayOvertake(j, d)' PROVE MayOvertake(j, d)
  <2>1. PICK i \in RemovalsIn(mailbox', d) : jobs'[j].lag < i
    BY <1>5 DEF MayOvertake
  <2>2. jobs[j] \in Slots /\ jobs'[j] = [jobs[j] EXCEPT !.lag = IF @ = 0 THEN 0 ELSE @ - 1]
    BY <1>1, JobsTyped
  <2>3. jobs'[j].phase = jobs[j].phase /\ jobs'[j].lag = (IF jobs[j].lag = 0 THEN 0 ELSE jobs[j].lag - 1)
        /\ jobs[j].lag \in Nat
    <3>1. ASSUME NEW s \in Slots, NEW r, r = [s EXCEPT !.lag = IF @ = 0 THEN 0 ELSE @ - 1]
          PROVE  r.phase = s.phase /\ r.lag = (IF s.lag = 0 THEN 0 ELSE s.lag - 1) /\ s.lag \in Nat
      BY <3>1, SlotForms
    <3> QED BY <2>2, <3>1
  <2>4. i \in 1 .. n - 1 /\ i + 1 \in RemovalsIn(mailbox, d)
    BY <1>2, <2>1
  <2>5. jobs[j].lag < i + 1
    BY <1>1, <2>1, <2>3, <2>4
  <2> QED BY <1>5, <2>3, <2>4, <2>5 DEF MayOvertake, Running, Lists
<1>6. FoundAtMostOnce(d)'
  BY <1>1, <1>5 DEF AlertsFollow, FoundAtMostOnce
<1> QED BY <1>4, <1>6 DEF AlertsFollow

-----------------------------------------------------------------------------
(* The edge's own status and warnings                                      *)

LEMMA WarningForms == TypeOK => (EdgeFollows <=> EdgeReported)
<1> SUFFICES ASSUME TypeOK
             PROVE  hubWarnings = {w \in Jobs \X {"hung", "failing"} :
                                     IF w[2] = "hung" THEN jobs[w[1]].phase = "stalled"
                                                      ELSE health[w[1]].alerted}
                    <=> \A j \in Jobs : Warns(j)
  BY DEF EdgeFollows, EdgeReported
<1>1. hubWarnings \subseteq Jobs \X {"hung", "failing"}
  BY DEF TypeOK
<1> DEFINE W == {w \in Jobs \X {"hung", "failing"} :
                   IF w[2] = "hung" THEN jobs[w[1]].phase = "stalled" ELSE health[w[1]].alerted}
<1>2. \A j \in Jobs : /\ <<j, "hung">> \in W <=> jobs[j].phase = "stalled"
                      /\ <<j, "failing">> \in W <=> health[j].alerted
  OBVIOUS
<1>3. W \subseteq Jobs \X {"hung", "failing"}
  OBVIOUS
<1> HIDE DEF W
<1>4. hubWarnings = W => \A j \in Jobs : Warns(j)
  BY <1>2 DEF Warns
<1>5. ASSUME \A j \in Jobs : Warns(j) PROVE hubWarnings = W
  <2>1. \A j \in Jobs : \A x \in {"hung", "failing"} : <<j, x>> \in hubWarnings <=> <<j, x>> \in W
    BY <1>2, <1>5 DEF Warns
  <2>2. ASSUME NEW w \in Jobs \X {"hung", "failing"} PROVE w \in hubWarnings <=> w \in W
    <3>1. PICK j \in Jobs, x \in {"hung", "failing"} : w = <<j, x>>
      OBVIOUS
    <3> QED BY <2>1, <3>1
  <2> QED BY <1>1, <1>3, <2>2
<1> QED BY <1>4, <1>5 DEF W

LEMMA CurrentKept ==
  ASSUME Tracked' = Tracked, mode' = mode, health' = health,
         \A j \in Jobs : jobs'[j].phase = "stalled" <=> jobs[j].phase = "stalled"
  PROVE  Current' = Current
<1>1. "syscfg" \in Jobs /\ "visa" \in Jobs
  BY DEF Jobs
<1>2. DegradedReasons(jobs', mode, health) = DegradedReasons(jobs, mode, health)
  BY <1>1 DEF DegradedReasons
<1> QED BY <1>2 DEF Current

\* A job is over: its warnings are as they should be.
LEMMA JobEdge ==
  ASSUME TypeOK, Edge, NEW j \in Jobs, Finish(j), life' = life, NotifyEdgeStatus,
         \/ OnFailure(j) \/ OnSuccess(j) \/ (health' = health /\ hubWarnings' = hubWarnings \ {<<j, "hung">>}),
         j = "syscfg" \/ mode' = mode
  PROVE  Edge'
<1>1. /\ life = "running" /\ life' = "running" /\ reported' = Current' /\ \A k \in Jobs : Warns(k)
      /\ jobs'[j].phase = "idle" /\ \A k \in Jobs : k # j => jobs'[k] = jobs[k]
  BY FinishKeeps DEF Finish, NotifyEdgeStatus, Edge, EdgeFollows
<1>2. SweepsWanted'
  BY <1>1 DEF Edge, SweepsWanted, Running, WantsSysCfg, Jobs
<1>3. ASSUME NEW k \in Jobs PROVE Warns(k)'
  <2>1. health \in [Jobs -> [failing : BOOLEAN, alerted : BOOLEAN]]
    BY DEF TypeOK
  <2>2. CASE k # j
    <3>1. jobs'[k] = jobs[k] /\ health'[k] = health[k]
      BY <1>1, <2>1, <2>2 DEF OnFailure, OnSuccess
    <3>2. \A x : <<k, x>> \in hubWarnings' <=> <<k, x>> \in hubWarnings
      BY <2>2 DEF OnFailure, OnSuccess
    <3> QED BY <1>1, <3>1, <3>2 DEF Warns
  <2>3. CASE k = j
    <3>1. jobs'[k].phase # "stalled" /\ <<k, "hung">> \notin hubWarnings'
      <4>1. <<j, "hung">> # <<j, "failing">>
        OBVIOUS
      <4> QED BY <1>1, <2>3, <4>1 DEF OnFailure, OnSuccess
    <3>2. <<k, "failing">> \in hubWarnings <=> health[k].alerted
      BY <1>1 DEF Warns
    <3>3. CASE OnFailure(j)
      <4>1. health'[k].alerted = TRUE
        BY <2>1, <2>3, <3>3 DEF OnFailure
      <4>2. <<k, "failing">> \in hubWarnings'
        BY <2>3, <3>2, <3>3 DEF OnFailure
      <4> QED BY <3>1, <4>1, <4>2 DEF Warns
    <3>4. CASE OnSuccess(j)
      <4>1. health'[k].alerted = FALSE
        BY <2>1, <2>3, <3>4 DEF OnSuccess
      <4>2. <<k, "failing">> \notin hubWarnings'
        BY <2>3, <3>2, <3>4 DEF OnSuccess
      <4> QED BY <3>1, <4>1, <4>2 DEF Warns
    <3>5. CASE health' = health /\ hubWarnings' = hubWarnings \ {<<j, "hung">>}
      <4>1. <<k, "failing">> \in hubWarnings' <=> <<k, "failing">> \in hubWarnings
        BY <3>5
      <4> QED BY <3>1, <3>2, <3>5, <4>1 DEF Warns
    <3> QED BY <3>3, <3>4, <3>5
  <2> QED BY <2>2, <2>3
<1> QED BY <1>1, <1>2, <1>3 DEF Edge, NewIsBlank, EdgeFollows

\* A handler that ends with the report of the edge status, or leaves all of it.
LEMMA ReportingEdge ==
  ASSUME Edge, life' = life, life = "running", jobs' = jobs, health' = health,
         mode' = mode, hubWarnings' = hubWarnings,
         reported' = Current' \/ (reported' = reported /\ Tracked' = Tracked)
  PROVE  Edge'
<1>1. reported' = Current'
  BY CurrentKept DEF Edge, EdgeFollows
<1>2. \A j \in Jobs : Warns(j)'
  BY DEF Edge, EdgeFollows, Warns
<1> QED BY <1>1, <1>2 DEF Edge, SweepsWanted, Running, NewIsBlank, EdgeFollows

LEMMA StartEdge ==
  ASSUME TypeOK, Edge, Start
  PROVE  Edge'
<1>1. /\ life' = "running" /\ reported' = Current' /\ health' = health /\ hubWarnings' = hubWarnings
      /\ \A j \in Jobs : jobs[j].phase = "idle" /\ ~health[j].alerted
      /\ hubWarnings = {}
  BY DEF Start, NotifyEdgeStatus, hub, Edge, NewIsBlank
<1>2. /\ jobs' = [jobs EXCEPT !["syscfg"] = IF WantsSysCfg(mode') THEN Started("syscfg") ELSE @,
                              !["visa"] = IF settings.visa THEN Started("visa") ELSE @]
      /\ jobs \in [Jobs -> Slots] /\ "syscfg" \in Jobs /\ "visa" \in Jobs
  BY JobsTyped DEF Start, Jobs
<1>3. ASSUME NEW j \in Jobs
      PROVE  jobs'[j].phase # "stalled" /\ (j = "syscfg" /\ Running(j)' => WantsSysCfg(mode'))
  <2>1. jobs'[j] = jobs[j] \/ (jobs'[j] = Started(j) /\ (j = "syscfg" => WantsSysCfg(mode')))
    BY <1>2 DEF Jobs
  <2> QED BY <1>1, <2>1 DEF Started, Running
<1>4. SweepsWanted'
  BY <1>2, <1>3 DEF SweepsWanted, Running, WantsSysCfg
<1>5. \A j \in Jobs : Warns(j)'
  BY <1>1, <1>3 DEF Warns
<1> QED BY <1>1, <1>4, <1>5 DEF Edge, NewIsBlank, EdgeFollows

LEMMA TickEdge ==
  ASSUME TypeOK, Edge, NEW overdue, NEW due, NEW t, Ticks(overdue, due, t)
  PROVE  Edge'
<1>1. /\ life = "running" /\ life' = "running" /\ mode' = mode /\ health' = health
      /\ hubWarnings' = hubWarnings \cup {<<j, "hung">> : j \in overdue}
      /\ IF overdue # {} THEN NotifyEdgeStatus ELSE UNCHANGED reported
  BY TickDoes
<1>2. \A j \in Jobs : /\ jobs'[j].phase = "stalled" <=> j \in overdue \/ jobs[j].phase = "stalled"
                      /\ Running(j)' => Running(j) \/ (j = "syscfg" => WantsSysCfg(mode))
  BY TickKeeps
<1>3. Tracked' = Tracked
  <2>1. ASSUME NEW d \in Ids PROVE devices'[d].source = devices[d].source
    <3>1. CASE d \in Simulated
      <4>1. Sampled(t)[d].status \in Statuses /\ devices[d] \in Records
        BY <3>1, SampleUpdatesFit DEF Ticks, UpdatesFit, TypeOK, Records
      <4> QED BY <3>1, <4>1, TickDoes, RecordedTyped
    <3>2. CASE d \notin Simulated
      BY <3>2, TickDoes
    <3> QED BY <3>1, <3>2
  <2> QED BY <2>1 DEF Tracked
<1>4. reported' = Current'
  <2>1. CASE overdue # {}
    BY <1>1, <2>1 DEF NotifyEdgeStatus
  <2>2. CASE overdue = {}
    BY <1>1, <1>2, <1>3, <2>2, CurrentKept DEF Edge, EdgeFollows
  <2> QED BY <2>1, <2>2
<1>5. ASSUME NEW j \in Jobs PROVE Warns(j)'
  <2>1. <<j, "hung">> \in hubWarnings' <=> <<j, "hung">> \in hubWarnings \/ j \in overdue
    BY <1>1
  <2>2. <<j, "failing">> \in hubWarnings' <=> <<j, "failing">> \in hubWarnings
    BY <1>1
  <2>3. Warns(j)
    BY <1>1 DEF Edge, EdgeFollows
  <2> QED BY <1>1, <1>2, <2>1, <2>2, <2>3 DEF Warns
<1>6. SweepsWanted'
  BY <1>1, <1>2 DEF Edge, SweepsWanted, WantsSysCfg, Jobs
<1> QED BY <1>1, <1>4, <1>5, <1>6 DEF Edge, NewIsBlank, EdgeFollows

LEMMA ForwardEdge ==
  ASSUME TypeOK, Edge, Forward
  PROVE  Edge'
<1>1. /\ life' = life /\ mode' = mode /\ health' = health /\ hubWarnings' = hubWarnings
      /\ devices' = devices /\ reported' = reported
      /\ jobs' = [j \in Jobs |-> [jobs[j] EXCEPT !.lag = IF @ = 0 THEN 0 ELSE @ - 1]]
  BY DEF Forward
<1>2. ASSUME NEW j \in Jobs PROVE jobs'[j].phase = jobs[j].phase
  BY <1>1, JobsTyped, SlotForms
<1>3. Current' = Current
  BY <1>1, <1>2, CurrentKept DEF Tracked
<1>4. \A j \in Jobs : Warns(j)' <=> Warns(j)
  BY <1>1, <1>2 DEF Warns
<1>5. EdgeFollows' /\ NewIsBlank'
  BY <1>1, <1>2, <1>3, <1>4 DEF Edge, EdgeFollows, NewIsBlank
<1>6. SweepsWanted'
  BY <1>1, <1>2 DEF Edge, SweepsWanted, Running, WantsSysCfg, Jobs
<1> QED BY <1>5, <1>6 DEF Edge
LEMMA InitReports == Init => Reports
<1> SUFFICES ASSUME Init PROVE Reports
  OBVIOUS
<1>1. mailbox = << >> /\ Len(mailbox) = 0
  BY DEF Init
<1>2. \A d : RemovalsIn(mailbox, d) = {}
  BY <1>1 DEF RemovalsIn
<1>3. ASSUME NEW d \in Ids PROVE AlertsFollow(d)
  <2>1. ~devices[d].alerted /\ d \notin hubAlerts
    BY DEF Init, Untracked
  <2>2. \A j \in Jobs : ~MayOvertake(j, d)
    BY <1>2 DEF MayOvertake
  <2> QED BY <1>2, <2>1, <2>2 DEF AlertsFollow, AlertFollows, FoundAtMostOnce
<1>4. Edge
  BY DEF Init, Edge, SweepsWanted, NewIsBlank, EdgeFollows, Running, Jobs
<1> QED BY <1>3, <1>4, InitDownstream DEF Reports

LEMMA EdgeStep == Downstream /\ Edge /\ [Next]_vars => Edge'
<1> SUFFICES ASSUME Downstream, Edge, [Next]_vars PROVE Edge'
  OBVIOUS
<1> USE DEF Downstream
<1>1. CASE Start
  BY <1>1, StartEdge
<1>2. ASSUME NEW overdue, NEW due, NEW t, Ticks(overdue, due, t) PROVE Edge'
  BY <1>2, TickEdge
<1>3. CASE SweepOk
  <2>1. "syscfg" \in Jobs
    BY DEF Jobs
  <2>2. Finish("syscfg") /\ OnSuccess("syscfg") /\ NotifyEdgeStatus /\ life' = life
    BY <1>3 DEF SweepOk
  <2> QED BY <2>1, <2>2, JobEdge
<1>4. CASE SweepUnavailable
  <2>1. "syscfg" \in Jobs
    BY DEF Jobs
  <2>2. Finish("syscfg") /\ OnFailure("syscfg") /\ NotifyEdgeStatus /\ life' = life
    BY <1>4 DEF SweepUnavailable
  <2> QED BY <2>1, <2>2, JobEdge
<1>5. CASE SweepFailed
  <2>1. "syscfg" \in Jobs
    BY DEF Jobs
  <2>2. Finish("syscfg") /\ OnFailure("syscfg") /\ NotifyEdgeStatus /\ life' = life
    BY <1>5 DEF SweepFailed
  <2> QED BY <2>1, <2>2, JobEdge
<1>6. CASE ScanOk
  <2>1. "visa" \in Jobs
    BY DEF Jobs
  <2>2. Finish("visa") /\ OnSuccess("visa") /\ NotifyEdgeStatus /\ life' = life /\ mode' = mode
    BY <1>6 DEF ScanOk
  <2> QED BY <2>1, <2>2, JobEdge
<1>7. CASE ScanFailed
  <2>1. "visa" \in Jobs
    BY DEF Jobs
  <2>2. Finish("visa") /\ OnFailure("visa") /\ NotifyEdgeStatus /\ life' = life /\ mode' = mode
    BY <1>7 DEF ScanFailed
  <2> QED BY <2>1, <2>2, JobEdge
<1>8. ASSUME NEW j \in Jobs, JobPanicked(j) PROVE Edge'
  <2>1. /\ Finish(j) /\ NotifyEdgeStatus /\ life' = life /\ mode' = mode
        /\ health' = health /\ hubWarnings' = hubWarnings \ {<<j, "hung">>}
    BY <1>8 DEF JobPanicked
  <2> QED BY <2>1, JobEdge
<1>9. ASSUME NEW d \in ManualIds, AddDevice(d) \/ RemoveDevice(d) PROVE Edge'
  <2>1. /\ life = "running" /\ life' = life /\ jobs' = jobs /\ health' = health /\ mode' = mode
        /\ hubWarnings' = hubWarnings /\ reported' = Current'
    BY <1>9 DEF AddDevice, RemoveDevice, NotifyEdgeStatus, hub
  <2> QED BY <2>1, ReportingEdge
<1>10. ASSUME NEW config \in Configs, ApplyConfig(config) PROVE Edge'
  <2>1. /\ life = "running" /\ life' = life /\ jobs' = jobs /\ health' = health /\ mode' = mode
        /\ hubWarnings' = hubWarnings /\ reported' = reported /\ Tracked' = Tracked
    BY <1>10 DEF ApplyConfig, hub, Tracked
  <2> QED BY <2>1, ReportingEdge
<1>11. CASE ResendState
  <2>1. /\ life = "running" /\ life' = life /\ jobs' = jobs /\ health' = health /\ mode' = mode
        /\ hubWarnings' = hubWarnings /\ reported' = Current /\ Tracked' = Tracked
    BY <1>11 DEF ResendState, Tracked
  <2>2. reported' = Current'
    BY <2>1, CurrentKept
  <2> QED BY <2>1, <2>2, ReportingEdge
<1>12. CASE StopDeviceManager
  BY <1>12 DEF StopDeviceManager, Edge, SweepsWanted, Running, NewIsBlank, EdgeFollows, Jobs
<1>13. CASE Forward
  BY <1>13, ForwardEdge
<1>14. CASE UNCHANGED vars
  <2>1. /\ life' = life /\ jobs' = jobs /\ health' = health /\ mode' = mode /\ devices' = devices
        /\ hubWarnings' = hubWarnings /\ reported' = reported
    BY <1>14 DEF vars, manager, hub
  <2>2. Current' = Current
    BY <2>1, CurrentKept DEF Tracked
  <2> QED BY <2>1, <2>2 DEF Edge, SweepsWanted, Running, NewIsBlank, EdgeFollows, Warns
<1> QED BY <1>1, <1>2, <1>3, <1>4, <1>5, <1>6, <1>7, <1>8, <1>9, <1>10, <1>11, <1>12, <1>13,
           <1>14, Steps

LEMMA AlertsStep ==
  ASSUME ManualApart, Reports, [Next]_vars
  PROVE  \A d \in Ids : AlertsFollow(d)'
<1> SUFFICES ASSUME NEW d \in Ids PROVE AlertsFollow(d)'
  OBVIOUS
<1>1. TypeOK /\ Informed(d) /\ AlertsFollow(d) /\ SweepsWanted
  BY DEF Reports, Downstream, Edge
<1>2. Len(mailbox') \in Nat /\ (mailbox' = mailbox => RemovalsIn(mailbox', d) = RemovalsIn(mailbox, d))
  <2>1. TypeOK'
    BY <1>1, TypeStep
  <2> QED BY <2>1, LenProperties DEF TypeOK
<1>3. ASSUME mailbox' = mailbox, hubAlerts' = hubAlerts, mode = "hardware" => mode' = "hardware",
             devices'[d].alerted = devices[d].alerted, devices'[d].ever = devices[d].ever,
             jobs' = jobs \/ (\E j \in Jobs : Finish(j))
      PROVE  AlertsFollow(d)'
  <2>1. \A k \in Jobs : GoesOn(k)
    <3>1. CASE jobs' = jobs
      BY <3>1 DEF GoesOn, Running
    <3>2. CASE \E j \in Jobs : Finish(j)
      BY <1>1, <3>2, FinishKeeps
    <3> QED BY <1>3, <3>1, <3>2
  <2> QED BY <1>1, <1>2, <1>3, <2>1, QuietAlerts
<1>4. ASSUME NEW s, d \notin Tracked, devices'[d] = [Untracked EXCEPT !.source = s]
      PROVE  devices'[d].alerted = devices[d].alerted /\ devices'[d].ever = devices[d].ever
  BY <1>1, <1>4 DEF Informed, Tracked, Untracked
<1> "syscfg" \in Jobs /\ "visa" \in Jobs
  BY DEF Jobs
<1>5. CASE Start
  <2>1. /\ mailbox' = mailbox /\ hubAlerts' = hubAlerts /\ devices' = devices /\ mode # "hardware"
        /\ \A j \in Jobs : jobs[j].phase = "idle"
    BY <1>5 DEF Start, hub, Reports, Edge, NewIsBlank
  <2>2. /\ jobs' = [jobs EXCEPT !["syscfg"] = IF WantsSysCfg(mode') THEN Started("syscfg") ELSE @,
                                !["visa"] = IF settings.visa THEN Started("visa") ELSE @]
        /\ jobs \in [Jobs -> Slots]
    BY <1>1, <1>5, JobsTyped DEF Start
  <2>3. \A j \in Jobs : jobs'[j] = jobs[j] \/ jobs'[j] = Started(j)
    BY <2>2 DEF Jobs
  <2>4. \A j \in Jobs : GoesOn(j)
    BY <2>1, <2>3 DEF GoesOn, Started
  <2> QED BY <1>1, <1>2, <2>1, <2>4, QuietAlerts
<1>6. ASSUME NEW overdue, NEW due, NEW t, Ticks(overdue, due, t) PROVE AlertsFollow(d)'
  BY <1>1, <1>6, TickAlerts
<1>7. ASSUME NEW listing \in Listings(SysCfgIds, Readings), NEW same,
             SweepOk, Apply("syscfg", StatusFromHealth(listing), same)
      PROVE  AlertsFollow(d)'
  <2>1. UpdatesFit(StatusFromHealth(listing)) /\ DOMAIN StatusFromHealth(listing) \subseteq Lists("syscfg")
    BY SweepUpdatesFit DEF Lists
  <2>2. Finish("syscfg") /\ mode' = "hardware"
    BY <1>1, <1>7 DEF SweepOk, Finish, SweepsWanted, WantsSysCfg
  <2> QED BY <1>1, <1>7, <2>1, <2>2, ApplyAlerts
<1>8. CASE SweepUnavailable
  <2>1. Finish("syscfg") /\ mailbox' = mailbox /\ hubAlerts' = hubAlerts
        /\ (mode = "hardware" => mode' = "hardware")
    BY <1>8 DEF SweepUnavailable
  <2>2. \/ devices'[d] = devices[d]
        \/ d \notin Tracked /\ devices'[d] = [Untracked EXCEPT !.source = "simulated"]
    BY <1>8 DEF SweepUnavailable
  <2>3. devices'[d].alerted = devices[d].alerted /\ devices'[d].ever = devices[d].ever
    BY <1>4, <2>2
  <2> QED BY <1>3, <2>1, <2>3
<1>9. CASE SweepFailed \/ ScanFailed \/ \E j \in Jobs : JobPanicked(j)
  <2>1. /\ mailbox' = mailbox /\ hubAlerts' = hubAlerts /\ mode' = mode /\ devices' = devices
        /\ \E j \in Jobs : Finish(j)
    BY <1>9 DEF SweepFailed, ScanFailed, JobPanicked
  <2> QED BY <1>3, <2>1
<1>10. ASSUME NEW listing \in Listings(VisaIds, BOOLEAN), NEW same,
             ScanOk, Apply("visa", VisaStatus(listing), same)
      PROVE  AlertsFollow(d)'
  <2>1. UpdatesFit(VisaStatus(listing)) /\ DOMAIN VisaStatus(listing) \subseteq Lists("visa")
    BY ScanUpdatesFit DEF Lists
  <2>2. Finish("visa") /\ mode' = mode
    BY <1>10 DEF ScanOk
  <2> QED BY <1>1, <1>10, <2>1, <2>2, ApplyAlerts
<1>11. ASSUME NEW e \in ManualIds, AddDevice(e) PROVE AlertsFollow(d)'
  <2>1. mailbox' = mailbox /\ hubAlerts' = hubAlerts /\ mode' = mode /\ jobs' = jobs
    BY <1>11 DEF AddDevice, hub
  <2>2. \/ devices'[d] = devices[d]
        \/ d \notin Tracked /\ devices'[d] = [Untracked EXCEPT !.source = "manual"]
    BY <1>1, <1>11 DEF AddDevice, TypeOK
  <2>3. devices'[d].alerted = devices[d].alerted /\ devices'[d].ever = devices[d].ever
    BY <1>4, <2>2
  <2> QED BY <1>3, <2>1, <2>3
<1>12. ASSUME NEW e \in ManualIds, RemoveDevice(e) PROVE AlertsFollow(d)'
  BY <1>1, <1>12, RemoveAlerts
<1>13. ASSUME NEW config \in Configs, ApplyConfig(config) PROVE AlertsFollow(d)'
  <2>1. thresholds' \in [warning : Int, critical : Int]
    BY <1>1, <1>13, ManagerAssumption DEF ApplyConfig, Resolve, TypeOK
  <2>2. NewThresholds(thresholds') \in Messages /\ NewThresholds(thresholds').kind = "thresholds"
    BY <2>1 DEF NewThresholds, Messages
  <2>3. mailbox' = Append(mailbox, NewThresholds(thresholds')) /\ mailbox \in Seq(Messages)
    BY <1>1, <1>13 DEF ApplyConfig, TypeOK
  <2>4. RemovalsIn(mailbox', d) = RemovalsIn(mailbox, d)
    BY <2>2, <2>3, ConfigSilent
  <2>5. devices' = devices /\ jobs' = jobs /\ hubAlerts' = hubAlerts /\ mode' = mode
    BY <1>13 DEF ApplyConfig, hub
  <2>6. \A j \in Jobs : GoesOn(j)
    BY <2>5 DEF GoesOn, Running
  <2> QED BY <1>1, <1>2, <2>4, <2>5, <2>6, QuietAlerts
<1>14. CASE ResendState \/ UNCHANGED vars
  <2>1. mailbox' = mailbox /\ hubAlerts' = hubAlerts /\ mode' = mode /\ devices' = devices /\ jobs' = jobs
    BY <1>14 DEF ResendState, vars, manager, hub
  <2> QED BY <1>3, <2>1
<1>15. CASE StopDeviceManager
  <2>1. devices'[d] = Untracked /\ hubAlerts' = {} /\ mailbox' = << >> /\ Len(mailbox') = 0
        /\ \A j \in Jobs : jobs'[j].phase = "idle"
    BY <1>15 DEF StopDeviceManager
  <2>2. RemovalsIn(mailbox', d) = {} /\ \A j \in Jobs : ~MayOvertake(j, d)'
    BY <2>1 DEF RemovalsIn, MayOvertake
  <2> QED BY <2>1, <2>2 DEF AlertsFollow, AlertFollows, FoundAtMostOnce, Untracked
<1>16. CASE Forward
  BY <1>1, <1>16, ForwardAlerts
<1> QED BY <1>5, <1>6, <1>7, <1>8, <1>9, <1>10, <1>11, <1>12, <1>13, <1>14, <1>15, <1>16, Steps

LEMMA ReportsMeans == Reports => ReportsAgree
<1> SUFFICES ASSUME Reports PROVE ReportsAgree
  OBVIOUS
<1>1. EdgeReported
  BY WarningForms DEF Reports, Downstream, Edge
<1>2. \A d \in Ids : RemovalsIn(mailbox, d) # {} => RemovalQueued(d)
  BY DEF RemovalsIn, RemovalQueued
<1>3. AlertsAgree
  BY <1>2 DEF Reports, AlertsFollow, AlertFollows, AlertsAgree
<1> QED BY <1>1, <1>3 DEF ReportsAgree

\* Statuses and removals queue behind one another, alerts do not: yet the hub holds
\* an unreachable alert exactly for the devices marked so once no removal is on its
\* way, and between two handlers it knows the edge's device count, its reasons for
\* being degraded, and the warnings of hung jobs and failing discoveries
\* (device_manager.rs).  Only a device that is added and removed by message, which
\* none but tests do, could be found twice while its removal waits.
THEOREM ReportsCorrect ==
  ASSUME ManualApart
  PROVE  Spec => []ReportsAgree
<1>1. Init => Reports
  BY InitReports
<1>2. Reports /\ [Next]_vars => Reports'
  BY DownstreamStep, EdgeStep, AlertsStep DEF Reports
<1>3. Reports => ReportsAgree
  BY ReportsMeans
<1> QED BY <1>1, <1>2, <1>3, PTL DEF Spec

-----------------------------------------------------------------------------
(* The NI drivers                                                          *)

CachePlaces == {"look", "wait", "check", "loading", "usable", "unavailable"}
SweepPlaces == {"lock session", "find", "next", "read", "failed", "reopen", "info", "done"}
ScanPlaces == {"find", "probe", "query", "drop"}
Places == {"idle"} \cup CachePlaces \cup SweepPlaces \cup ScanPlaces

NiTyped ==
  /\ library \in {"syscfg", "visa", "daqmx"} /\ installed \in BOOLEAN /\ loaded \in BOOLEAN
  /\ missing \in 0 .. RetryAfter + 1
  /\ failure \in {NoFailure} \cup (0 .. RetryAfter) /\ attempted \in 0 .. RetryAfter
  /\ holder \in Threads \cup {Nobody} /\ at \in [Threads -> Places]

\* The mutex of the cache is held by the one thread that looks again or loads.
LockHeld == \A t \in Threads : at[t] \in {"check", "loading"} <=> holder = t

\* What the cache remembers of failures is the last attempt, and when that failed the
\* driver was not there.
FailureIsLast ==
  /\ failure # NoFailure => failure = attempted
  /\ failure = NoFailure /\ ~ loaded => attempted = RetryAfter
  /\ ~ installed => missing = 0
  /\ failure # NoFailure => missing <= failure \/ failure = RetryAfter

\* Everything open belongs to the session `id`, which is open.
Owned(id) ==
  /\ Session(id) \in open
  /\ \A h \in open : h = Session(id) \/ (h.kind # "session" /\ h.of = id)
Kept == IF session \in SessionIds THEN {Session(session)} ELSE {}

\* What is open wherever the sweep, the scan and the resets are.
SweepFits ==
  library = "syscfg" =>
    /\ at["sweep"] \in {"idle"} \cup CachePlaces \cup SweepPlaces
    /\ session \in {NoSession, Null} \cup SessionIds
    /\ at["sweep"] \in CachePlaces => session = NoSession
    /\ at["sweep"] \in SweepPlaces => session # NoSession
    /\ at["sweep"] \in {"find", "next", "read", "failed"} => session \in SessionIds
    /\ IF at["sweep"] \in {"next", "read"} THEN Owned(session) ELSE open = Kept
ScanFits ==
  library = "visa" =>
    /\ at["scan"] \in {"idle"} \cup CachePlaces \cup ScanPlaces
    /\ session = NoSession
    /\ CASE at["scan"] = "query" -> Owned(1)
         [] at["scan"] \in {"find", "probe", "drop"} -> open = {Session(1)}
         [] OTHER -> open = {}
ResetsFit == library = "daqmx" => session = NoSession /\ open = {}

NiInv == NiTyped /\ LockHeld /\ FailureIsLast /\ SweepFits /\ ScanFits /\ ResetsFit

-----------------------------------------------------------------------------
(* Threads and handles                                                     *)

LEMMA ThreadsAre ==
  ASSUME library \in {"syscfg", "visa", "daqmx"}
  PROVE  /\ library = "syscfg" => Threads = {"sweep"}
         /\ library = "visa" => Threads = {"scan"}
         /\ library = "daqmx" => Threads = Resetters
         /\ Nobody \notin Threads
  BY ResettersAssumption DEF Threads, Nobody

LEMMA HandleFields ==
  ASSUME NEW i, NEW n
  PROVE  /\ Session(i).kind = "session" /\ Session(i).of = i
         /\ List(i).kind = "list" /\ List(i).of = i
         /\ Child(i, n).kind = "child" /\ Child(i, n).of = i
  BY DEF Session, List, Child

LEMMA SessionsDiffer ==
  ASSUME NEW i, NEW j, Session(i) = Session(j)
  PROVE  i = j
  BY HandleFields

\* Handles of a session come and go with it.
LEMMA OwnedGrows ==
  ASSUME NEW id, Owned(id), NEW h, h.kind # "session", h.of = id, open' = open \cup {h}
  PROVE  Owned(id)'
  BY DEF Owned

LEMMA OwnedShrinks ==
  ASSUME NEW id, Owned(id), NEW h, h.kind # "session", open' = open \ {h}
  PROVE  Owned(id)'
  BY HandleFields DEF Owned

LEMMA OwnedAlone ==
  ASSUME NEW id, Owned(id), open' = open \ Children(id)
  PROVE  open' = {Session(id)}
  BY HandleFields DEF Owned, Children

\* A session alone owns what is open.
LEMMA AloneIsOwned ==
  ASSUME NEW id, open = {Session(id)}
  PROVE  Owned(id)
  BY DEF Owned

-----------------------------------------------------------------------------
(* The cache                                                               *)

\* A step moves one thread, by one of the jobs' parts.
JobStep(t) == StartJob(t) \/ LibCacheStep(t) \/ ResetDevice(t)

CacheInv == NiTyped /\ LockHeld /\ FailureIsLast

LEMMA CacheKept ==
  ASSUME CacheInv, NEW t \in Threads, LibCacheStep(t)
  PROVE  CacheInv'
<1>1. /\ at \in [Threads -> Places] /\ Threads' = Threads /\ Nobody \notin Threads
      /\ RetryAfter \in Nat \ {0} /\ NoFailure \notin Nat
  BY ThreadsAre, RetryAssumption DEF CacheInv, NiTyped, LibCacheStep, Look, TakeLock, Check, Load, GiveUp,
     cacheVars, Threads, NoFailure
<1> USE <1>1 DEF CacheInv, NiTyped, LockHeld, FailureIsLast, Goes, Places, CachePlaces
<1>2. CASE Look(t)
  BY <1>2 DEF Look, cacheVars
<1>3. CASE TakeLock(t)
  BY <1>3 DEF TakeLock
<1>4. CASE Check(t)
  BY <1>4 DEF Check
<1>5. CASE Load(t)
  <2>1. /\ UNCHANGED <<library, installed, missing>> /\ holder = t /\ holder' = Nobody
        /\ at' = [at EXCEPT ![t] = IF installed THEN "usable" ELSE "unavailable"]
    BY <1>5 DEF Load
  <2>2. /\ loaded' \in BOOLEAN /\ failure' \in {NoFailure} \cup (0 .. RetryAfter)
        /\ attempted' \in 0 .. RetryAfter
    <3>1. 0 \in 0 .. RetryAfter
      BY <1>1
    <3>2. \/ loaded' = TRUE /\ failure' = NoFailure /\ attempted' = attempted
          \/ failure' = 0 /\ attempted' = 0 /\ loaded' = loaded
      BY <1>5 DEF Load
    <3> QED BY <3>1, <3>2
  <2>3. NiTyped'
    BY <2>1, <2>2
  <2>4. LockHeld'
    BY <2>1
  <2>5. FailureIsLast'
    BY <1>5 DEF Load, NoFailure
  <2> QED BY <2>3, <2>4, <2>5
<1>6. CASE GiveUp(t)
  BY <1>6 DEF GiveUp, cacheVars
<1> QED BY <1>2, <1>3, <1>4, <1>5, <1>6 DEF LibCacheStep

\* Other steps leave the cache alone and take nobody to its lock or from it.
LEMMA CacheLeft ==
  ASSUME CacheInv, UNCHANGED cacheVars, at' \in [Threads -> Places],
         \A t \in Threads : at'[t] \in {"check", "loading"} <=> at[t] \in {"check", "loading"}
  PROVE  CacheInv'
<1>1. Threads' = Threads
  BY DEF Threads, cacheVars
<1> QED BY <1>1 DEF CacheInv, NiTyped, LockHeld, FailureIsLast, cacheVars

LEMMA CacheAges ==
  ASSUME CacheInv, DriverChanges \/ NiTick
  PROVE  CacheInv'
<1>1. Threads' = Threads /\ RetryAfter \in Nat \ {0}
  BY RetryAssumption DEF Threads, DriverChanges, NiTick
<1> USE <1>1 DEF CacheInv, NiTyped, LockHeld, FailureIsLast, NoFailure
<1>2. CASE DriverChanges
  BY <1>2 DEF DriverChanges
<1>3. CASE NiTick
  BY <1>3 DEF NiTick, OneTickOlder
<1> QED BY <1>2, <1>3

\* The sweep and the scan only move through their own places.
LEMMA JobsLeaveCache ==
  ASSUME CacheInv, SweepStep \/ ScanStep \/ (\E t \in Threads : StartJob(t) \/ ResetDevice(t))
  PROVE  CacheInv'
<1>1. /\ at \in [Threads -> Places]
      /\ library = "syscfg" => Threads = {"sweep"}
      /\ library = "visa" => Threads = {"scan"}
  BY ThreadsAre DEF CacheInv, NiTyped
<1> DEFINE Apart == /\ UNCHANGED cacheVars /\ at' \in [Threads -> Places]
                    /\ \A t \in Threads : at'[t] \in {"check", "loading"} <=> at[t] \in {"check", "loading"}
<1> USE <1>1 DEF Goes, Places, CachePlaces, SweepPlaces, ScanPlaces
<1>2. ASSUME NEW t \in Threads, StartJob(t) \/ ResetDevice(t) PROVE Apart
  BY <1>2 DEF StartJob, ResetDevice
<1>3. ASSUME SweepStep PROVE Apart
  <2>0. library = "syscfg"
    BY <1>3 DEF SweepStep
  <2>1. CASE OpenSession \/ LockSession \/ FindHardware
    BY <2>0, <2>1 DEF OpenSession, LockSession, FindHardware
  <2>2. CASE NextResource \/ ReadResources \/ EnumerationFails
    BY <2>0, <2>2 DEF NextResource, ReadResources, EnumerationFails
  <2>3. CASE ReopenToSweep
    BY <2>0, <2>3 DEF ReopenToSweep, Reopen
  <2>4. CASE SystemInfo
    BY <2>0, <2>4 DEF SystemInfo, Reopen
  <2>5. CASE SweepEnds \/ DropSession
    BY <2>0, <2>5 DEF SweepEnds, DropSession
  <2> QED BY <1>3, <2>1, <2>2, <2>3, <2>4, <2>5 DEF SweepStep
<1>4. ASSUME ScanStep PROVE Apart
  BY <1>4 DEF ScanStep, OpenManager, FindResources, OpenInstrument, Query, ProbeEnds, CloseManager
<1> QED BY <1>2, <1>3, <1>4, CacheLeft

-----------------------------------------------------------------------------
(* The sweep                                                               *)

\* While the thread is at the cache, or idle, nothing is opened or closed.
LEMMA SweepAtCache ==
  ASSUME NiTyped, library = "syscfg", SweepFits,
         StartJob("sweep") \/ LibCacheStep("sweep") \/ ResetDevice("sweep")
  PROVE  SweepFits'
<1>1. at \in [{"sweep"} -> Places] /\ library' = library /\ UNCHANGED sessionVars
  BY ThreadsAre DEF NiTyped, StartJob, LibCacheStep, ResetDevice, Look, TakeLock, Check, Load, GiveUp,
     cacheVars
<1>2. \/ at["sweep"] = "idle" /\ at'["sweep"] = IF session = NoSession THEN "look" ELSE "lock session"
      \/ at["sweep"] \in CachePlaces /\ at'["sweep"] \in CachePlaces \cup {"idle"}
  BY <1>1 DEF StartJob, LibCacheStep, ResetDevice, Look, TakeLock, Check, Load, GiveUp, Goes, CachePlaces
<1>3. open' = Kept' /\ at'["sweep"] \notin {"next", "read"}
  BY <1>1, <1>2 DEF SweepFits, Kept, CachePlaces, sessionVars
<1> QED BY <1>1, <1>2, <1>3 DEF SweepFits, CachePlaces, SweepPlaces, sessionVars, NoSession

LEMMA SweepKept ==
  ASSUME NiTyped, library = "syscfg", SweepFits, SweepStep
  PROVE  SweepFits'
<1>1. at \in [{"sweep"} -> Places] /\ SessionIds = {1, 2} /\ NoSession \notin SessionIds /\ Null \notin SessionIds
      /\ NoSession # Null
  BY ThreadsAre DEF NiTyped, SessionIds, NoSession, Null
<1>2. library' = "syscfg"
  BY DEF SweepStep, OpenSession, LockSession, FindHardware, NextResource, ReadResources, EnumerationFails,
     ReopenToSweep, SystemInfo, Reopen, SweepEnds, DropSession, cacheVars
<1> DEFINE Fits ==
      /\ at'["sweep"] \in {"idle"} \cup CachePlaces \cup SweepPlaces
      /\ session' \in {NoSession, Null} \cup SessionIds
      /\ at'["sweep"] \in CachePlaces => session' = NoSession
      /\ at'["sweep"] \in SweepPlaces => session' # NoSession
      /\ at'["sweep"] \in {"find", "next", "read", "failed"} => session' \in SessionIds
      /\ IF at'["sweep"] \in {"next", "read"} THEN Owned(session)' ELSE open' = Kept'
<1>3. SUFFICES Fits
  BY DEF SweepFits
<1>4. /\ session \in {NoSession, Null} \cup SessionIds
      /\ at["sweep"] \in CachePlaces => session = NoSession
      /\ at["sweep"] \in SweepPlaces => session # NoSession
      /\ at["sweep"] \in {"find", "next", "read", "failed"} => session \in SessionIds
      /\ at["sweep"] \in {"next", "read"} => Owned(session)
      /\ at["sweep"] \notin {"next", "read"} => open = Kept
  BY DEF SweepFits
<1> USE <1>1, <1>4 DEF Goes, CachePlaces, SweepPlaces
<1>5. CASE OpenSession
  BY <1>5 DEF OpenSession, Kept
<1>6. CASE LockSession
  BY <1>6 DEF LockSession, Kept
<1>7. CASE FindHardware
  <2>1. session \in SessionIds /\ open = {Session(session)} /\ session' = session /\ at["sweep"] = "find"
    BY <1>7 DEF FindHardware, Kept
  <2>2. Owned(session)
    BY <2>1, AloneIsOwned
  <2>3. CASE at'["sweep"] = "next" /\ open' = open \cup {List(session)}
    <3>1. Owned(session)'
      BY <2>1, <2>2, <2>3, HandleFields DEF Owned
    <3> QED BY <2>1, <2>3, <3>1
  <2>4. CASE at'["sweep"] = "read" /\ open' = open
    <3>1. Owned(session)'
      BY <2>1, <2>2, <2>4 DEF Owned
    <3> QED BY <2>1, <2>4, <3>1
  <2>5. CASE at'["sweep"] = "failed" /\ open' = open
    BY <2>1, <2>5 DEF Kept
  <2> QED BY <1>7, <2>3, <2>4, <2>5 DEF FindHardware
<1>8. CASE NextResource
  <2>1. session \in SessionIds /\ Owned(session) /\ session' = session /\ at["sweep"] = "next"
    BY <1>8 DEF NextResource
  <2>2. CASE at'["sweep"] = "next" /\ open' = open \cup {Child(session, found + 1)}
    <3>1. Owned(session)'
      BY <2>1, <2>2, HandleFields DEF Owned
    <3> QED BY <2>1, <2>2, <3>1
  <2>3. CASE at'["sweep"] = "read" /\ open' = open \ {List(session)}
    <3>1. Owned(session)'
      BY <2>1, <2>3, HandleFields DEF Owned
    <3> QED BY <2>1, <2>3, <3>1
  <2>4. CASE at'["sweep"] = "failed" /\ open' = open \ Children(session)
    <3>1. open' = {Session(session)}
      BY <2>1, <2>4, OwnedAlone
    <3> QED BY <2>1, <2>4, <3>1 DEF Kept
  <2> QED BY <1>8, <2>2, <2>3, <2>4 DEF NextResource
<1>9. CASE ReadResources
  <2>1. session \in SessionIds /\ Owned(session) /\ session' = session /\ at'["sweep"] = "info"
    BY <1>9 DEF ReadResources
  <2>2. open' = {Session(session)}
    BY <1>9, <2>1, OwnedAlone DEF ReadResources
  <2> QED BY <2>1, <2>2 DEF Kept
<1>10. CASE EnumerationFails
  BY <1>10 DEF EnumerationFails, Kept
<1>11. ASSUME NEW from \in {"reopen", "info"}, NEW to \in {"find", "done"}, Reopen(from, to) PROVE Fits
  <2>1. open = Kept /\ session # NoSession /\ Closed = {}
    BY <1>11, SessionsDiffer DEF Reopen, Kept, Closed
  <2>2. at'["sweep"] \in {"find", "info", "done"} /\ (at'["sweep"] = "find" => to = "find")
    BY <1>11 DEF Reopen
  <2>3. CASE at'["sweep"] = to /\ \E id \in SessionIds : session' = id /\ open' = Closed \cup {Session(id)}
    BY <2>1, <2>2, <2>3 DEF Kept
  <2>4. CASE at'["sweep"] \in {"info", "done"} /\ session' = Null /\ open' = Closed
    BY <2>1, <2>4 DEF Kept
  <2> QED BY <1>11, <2>3, <2>4 DEF Reopen
<1>12. CASE ReopenToSweep
  BY <1>11, <1>12 DEF ReopenToSweep
<1>13. CASE SystemInfo
  <2>1. CASE Reopen("info", "done")
    BY <1>11, <2>1
  <2>2. CASE Goes("sweep", "info", "done") /\ UNCHANGED <<cacheVars, sessionVars>>
    BY <2>2 DEF Kept, sessionVars
  <2> QED BY <1>13, <2>1, <2>2 DEF SystemInfo
<1>14. CASE SweepEnds
  BY <1>14 DEF SweepEnds, Kept, sessionVars
<1>15. CASE DropSession
  BY <1>15, SessionsDiffer DEF DropSession, Kept, Closed
<1> QED BY <1>5, <1>6, <1>7, <1>8, <1>9, <1>10, <1>12, <1>13, <1>14, <1>15 DEF SweepStep

-----------------------------------------------------------------------------
(* The scan                                                                *)

LEMMA ScanAtCache ==
  ASSUME NiTyped, library = "visa", ScanFits,
         StartJob("scan") \/ LibCacheStep("scan") \/ ResetDevice("scan")
  PROVE  ScanFits'
<1>1. at \in [{"scan"} -> Places] /\ library' = library /\ UNCHANGED sessionVars
  BY ThreadsAre DEF NiTyped, StartJob, LibCacheStep, ResetDevice, Look, TakeLock, Check, Load, GiveUp,
     cacheVars
<1>2. /\ at["scan"] \in {"idle"} \cup CachePlaces /\ at'["scan"] \in {"idle"} \cup CachePlaces
      /\ session = NoSession
  BY <1>1 DEF StartJob, LibCacheStep, ResetDevice, Look, TakeLock, Check, Load, GiveUp, Goes, CachePlaces,
     ScanFits
<1>3. open = {}
  BY <1>2 DEF ScanFits, CachePlaces
<1> QED BY <1>1, <1>2, <1>3 DEF ScanFits, CachePlaces, sessionVars

LEMMA ScanKept ==
  ASSUME NiTyped, library = "visa", ScanFits, ScanStep
  PROVE  ScanFits'
<1>1. at \in [{"scan"} -> Places]
  BY ThreadsAre DEF NiTyped
<1>2. library' = "visa" /\ session' = session /\ session = NoSession
  BY DEF ScanFits, ScanStep, OpenManager, FindResources, OpenInstrument, Query, ProbeEnds, CloseManager,
     cacheVars, sessionVars
<1> USE <1>1, <1>2 DEF ScanFits, Goes, CachePlaces, ScanPlaces
<1>3. CASE OpenManager
  BY <1>3 DEF OpenManager
<1>4. CASE FindResources
  BY <1>4 DEF FindResources
<1>5. CASE OpenInstrument
  <2>1. open = {Session(1)} /\ at["scan"] = "probe"
    BY <1>5 DEF OpenInstrument
  <2>2. CASE at'["scan"] = "query" /\ open' = open \cup {Child(1, found)}
    <3>1. Owned(1)'
      BY <2>1, <2>2, HandleFields DEF Owned
    <3> QED BY <2>2, <3>1
  <2>3. CASE at'["scan"] = "probe" /\ open' = open
    BY <2>1, <2>3
  <2> QED BY <1>5, <2>2, <2>3 DEF OpenInstrument
<1>6. CASE Query
  <2>1. Owned(1) /\ at'["scan"] = "probe"
    BY <1>6 DEF Query
  <2>2. open' = {Session(1)}
    BY <1>6, <2>1, OwnedAlone DEF Query
  <2> QED BY <2>1, <2>2
<1>7. CASE ProbeEnds
  BY <1>7 DEF ProbeEnds, sessionVars
<1>8. CASE CloseManager
  BY <1>8 DEF CloseManager
<1> QED BY <1>3, <1>4, <1>5, <1>6, <1>7, <1>8 DEF ScanStep

-----------------------------------------------------------------------------
(* The invariant                                                           *)

LEMMA NiInvInitially == NiInit => NiInv
<1> SUFFICES ASSUME NiInit PROVE NiInv
  OBVIOUS
<1> USE RetryAssumption DEF NiInit
<1>1. NiTyped
  <2>1. missing \in 0 .. RetryAfter + 1 /\ attempted \in 0 .. RetryAfter
    BY SMT
  <2>2. at \in [Threads -> Places]
    BY DEF Places
  <2> QED BY <2>1, <2>2 DEF NiTyped
<1>2. LockHeld
  BY ThreadsAre DEF LockHeld
<1>3. FailureIsLast
  BY DEF FailureIsLast
<1>4. SweepFits
  <2>1. library = "syscfg" => at["sweep"] = "idle"
    BY ThreadsAre
  <2>2. NoSession \notin SessionIds
    BY DEF NoSession, SessionIds
  <2> QED BY <2>1, <2>2 DEF SweepFits, CachePlaces, SweepPlaces, Kept
<1>5. ScanFits
  BY ThreadsAre DEF ScanFits, CachePlaces, NoSession
<1>6. ResetsFit
  BY DEF ResetsFit
<1> QED BY <1>1, <1>2, <1>3, <1>4, <1>5, <1>6 DEF NiInv

LEMMA NiInvKept == NiInv /\ [NiNext]_niVars => NiInv'
<1> SUFFICES ASSUME NiInv, [NiNext]_niVars PROVE NiInv'
  OBVIOUS
<1>1. CacheInv /\ NiTyped /\ SweepFits /\ ScanFits /\ ResetsFit
  BY DEF NiInv, CacheInv
<1>2. ASSUME NEW t \in Threads, JobStep(t) PROVE NiInv'
  <2>1. CacheInv'
    BY <1>1, <1>2, CacheKept, JobsLeaveCache DEF JobStep
  <2>2. library' = library /\ UNCHANGED sessionVars
    BY <1>2 DEF JobStep, StartJob, LibCacheStep, ResetDevice, Look, TakeLock, Check, Load, GiveUp, cacheVars
  <2>3. SweepFits'
    <3>1. CASE library = "syscfg"
      <4>1. t = "sweep"
        BY <1>1, <3>1, ThreadsAre DEF NiTyped
      <4> QED BY <1>1, <1>2, <3>1, <4>1, SweepAtCache DEF JobStep
    <3> QED BY <2>2, <3>1 DEF SweepFits
  <2>4. ScanFits'
    <3>1. CASE library = "visa"
      <4>1. t = "scan"
        BY <1>1, <3>1, ThreadsAre DEF NiTyped
      <4> QED BY <1>1, <1>2, <3>1, <4>1, ScanAtCache DEF JobStep
    <3> QED BY <2>2, <3>1 DEF ScanFits
  <2>5. ResetsFit'
    BY <1>1, <2>2 DEF ResetsFit, sessionVars
  <2> QED BY <2>1, <2>3, <2>4, <2>5 DEF NiInv, CacheInv
<1>3. CASE SweepStep
  <2>1. CacheInv' /\ library = "syscfg"
    BY <1>1, <1>3, JobsLeaveCache DEF SweepStep
  <2>2. SweepFits' /\ library' = "syscfg"
    BY <1>1, <1>3, <2>1, SweepKept DEF SweepStep, OpenSession, LockSession, FindHardware, NextResource,
       ReadResources, EnumerationFails, ReopenToSweep, SystemInfo, Reopen, SweepEnds, DropSession, cacheVars
  <2> QED BY <2>1, <2>2 DEF NiInv, CacheInv, ScanFits, ResetsFit
<1>4. CASE ScanStep
  <2>1. CacheInv' /\ library = "visa"
    BY <1>1, <1>4, JobsLeaveCache DEF ScanStep
  <2>2. ScanFits' /\ library' = "visa"
    BY <1>1, <1>4, <2>1, ScanKept DEF ScanStep, OpenManager, FindResources, OpenInstrument, Query,
       ProbeEnds, CloseManager, cacheVars
  <2> QED BY <2>1, <2>2 DEF NiInv, CacheInv, SweepFits, ResetsFit
<1>5. CASE DriverChanges \/ NiTick
  <2>1. CacheInv'
    BY <1>1, <1>5, CacheAges
  <2>2. UNCHANGED <<library, at, sessionVars>>
    BY <1>5 DEF DriverChanges, NiTick
  <2> QED BY <1>1, <2>1, <2>2 DEF NiInv, CacheInv, SweepFits, ScanFits, ResetsFit, Owned, Kept, sessionVars
<1>6. CASE UNCHANGED niVars
  BY <1>1, <1>6 DEF niVars, cacheVars, sessionVars, NiInv, CacheInv, NiTyped, LockHeld, FailureIsLast,
     Threads, SweepFits, ScanFits, ResetsFit, Owned, Kept
<1> QED BY <1>2, <1>3, <1>4, <1>5, <1>6 DEF NiNext, JobStep

-----------------------------------------------------------------------------
(* Results                                                                 *)

LEMMA InvBalances == NiInv => HandlesBalanced
<1> SUFFICES ASSUME NiInv PROVE HandlesBalanced
  OBVIOUS
<1>1. ASSUME NEW id, Owned(id), session \in SessionIds => id = session
      PROVE  /\ \A h \in open : Session(h.of) \in open
             /\ session \in SessionIds => Session(session) \in open
             /\ Cardinality({h \in open : h.kind = "session"}) <= 1
  <2>1. {h \in open : h.kind = "session"} = {Session(id)}
    BY <1>1, HandleFields DEF Owned
  <2>2. Cardinality({Session(id)}) = 1
    BY FS_Singleton
  <2> QED BY <1>1, <2>1, <2>2, HandleFields DEF Owned
<1>2. ASSUME open = {}, session \notin SessionIds PROVE HandlesBalanced
  <2>1. {h \in open : h.kind = "session"} = {}
    BY <1>2
  <2> QED BY <1>2, <2>1, FS_EmptySet DEF HandlesBalanced
<1>3. CASE library = "syscfg"
  <2>1. CASE session \in SessionIds
    <3>1. Owned(session)
      BY <1>3, <2>1, AloneIsOwned DEF NiInv, SweepFits, Kept
    <3>2. (\A t \in Threads : at[t] = "idle") => open = {Session(session)}
      BY <1>3, <2>1, ThreadsAre DEF NiInv, NiTyped, SweepFits, Kept
    <3> QED BY <1>1, <2>1, <3>1, <3>2 DEF HandlesBalanced
  <2>2. CASE session \notin SessionIds
    <3>1. open = {}
      BY <1>3, <2>2 DEF NiInv, SweepFits, Kept
    <3> QED BY <1>2, <2>2, <3>1
  <2> QED BY <2>1, <2>2
<1>4. CASE library = "visa"
  <2>1. session \notin SessionIds
    BY <1>4 DEF NiInv, ScanFits, NoSession, SessionIds
  <2>2. CASE at["scan"] \in {"query", "find", "probe", "drop"}
    <3>1. Owned(1)
      BY <1>4, <2>2, AloneIsOwned DEF NiInv, ScanFits
    <3>2. \E t \in Threads : at[t] # "idle"
      BY <1>4, <2>2, ThreadsAre DEF NiInv, NiTyped
    <3> QED BY <1>1, <2>1, <3>1, <3>2 DEF HandlesBalanced
  <2>3. CASE at["scan"] \notin {"query", "find", "probe", "drop"}
    <3>1. open = {}
      BY <1>4, <2>3 DEF NiInv, ScanFits
    <3> QED BY <1>2, <2>1, <3>1
  <2> QED BY <2>2, <2>3
<1>5. CASE library = "daqmx"
  BY <1>2, <1>5 DEF NiInv, ResetsFit, NoSession, SessionIds
<1> QED BY <1>3, <1>4, <1>5 DEF NiInv, NiTyped

\* Only the second look, with the lock held, decides to load or to give up.
LEMMA CheckDecides ==
  ASSUME NiInv, NiNext, NEW t \in Threads, at[t] = "check", at'[t] # "check"
  PROVE  Check(t)
<1>1. at \in [Threads -> Places] /\ library \in {"syscfg", "visa", "daqmx"}
  BY DEF NiInv, NiTyped
<1>2. CASE DriverChanges \/ NiTick
  BY <1>2 DEF DriverChanges, NiTick
<1>3. ASSUME NEW u \in Threads, JobStep(u) PROVE Check(t)
  <2>1. u = t
    BY <1>1, <1>3 DEF JobStep, StartJob, LibCacheStep, ResetDevice, Look, TakeLock, Check, Load, GiveUp, Goes
  <2> QED BY <1>1, <1>3, <2>1 DEF JobStep, StartJob, LibCacheStep, ResetDevice, Look, TakeLock, Load,
          GiveUp, Goes
<1>4. CASE SweepStep
  <2>1. t = "sweep"
    BY <1>1, <1>4, ThreadsAre DEF SweepStep
  <2> QED BY <1>1, <1>4, <2>1 DEF SweepStep, OpenSession, LockSession, FindHardware, NextResource,
       ReadResources, EnumerationFails, ReopenToSweep, SystemInfo, Reopen, SweepEnds, DropSession, Goes
<1>5. CASE ScanStep
  <2>1. t = "scan"
    BY <1>1, <1>5, ThreadsAre DEF ScanStep
  <2> QED BY <1>1, <1>5, <2>1 DEF ScanStep, OpenManager, FindResources, OpenInstrument, Query,
       ProbeEnds, CloseManager, Goes
<1> QED BY <1>2, <1>3, <1>4, <1>5 DEF NiNext, JobStep

LEMMA StepLoads == NiInv /\ NiNext => LoadPolicy
<1> SUFFICES ASSUME NiInv, NiNext, NEW t \in Threads, at[t] = "check"
             PROVE  /\ at'[t] = "loading" => Loading = {} /\ ~ loaded /\ attempted >= RetryAfter
                    /\ at'[t] = "unavailable" => missing < RetryAfter
  BY DEF LoadPolicy
<1>1. /\ at \in [Threads -> Places] /\ RetryAfter \in Nat \ {0} /\ missing \in 0 .. RetryAfter + 1
      /\ failure \in {NoFailure} \cup (0 .. RetryAfter) /\ attempted \in 0 .. RetryAfter
      /\ FailureIsLast /\ holder = t
  BY RetryAssumption DEF NiInv, NiTyped, LockHeld
<1>2. CASE at'[t] = "loading"
  <2>1. Check(t)
    BY <1>2, CheckDecides
  <2>2. ~ loaded /\ ~ FailureIsFresh
    BY <1>1, <1>2, <2>1 DEF Check, Goes
  <2>3. attempted = RetryAfter
    BY <1>1, <2>2 DEF FailureIsFresh, FailureIsLast
  <2>4. Loading = {}
    BY <1>1 DEF NiInv, LockHeld, Loading
  <2> QED BY <1>1, <1>2, <2>2, <2>3, <2>4
<1>3. CASE at'[t] = "unavailable"
  <2>1. Check(t)
    BY <1>3, CheckDecides
  <2>2. FailureIsFresh
    BY <1>1, <1>3, <2>1 DEF Check, Goes
  <2>3. missing < RetryAfter
    BY <1>1, <2>2 DEF FailureIsFresh, FailureIsLast, NoFailure
  <2> QED BY <1>3, <2>3
<1> QED BY <1>2, <1>3

\* Each NI library is loaded by one thread at a time, once, and after a failure not
\* before its interval is over, however many threads ask (LibCache::get_or_load); and
\* whatever calls the driver fails, its handles are closed once, children before
\* their session, and none is left behind (SysCfgSession, VisaSession).
THEOREM DriversAreSound == NiSpec => DriversSound
<1>1. NiSpec => []NiInv
  BY NiInvInitially, NiInvKept, PTL DEF NiSpec
<1>2. NiInv /\ NiInv' /\ [NiNext]_niVars => [LoadPolicy /\ HandlesBalanced']_niVars
  <2>1. NiInv' => HandlesBalanced'
    BY InvBalances, PTL
  <2> QED BY <2>1, StepLoads
<1> QED BY <1>1, <1>2, InvBalances, NiInvInitially, PTL DEF NiSpec, DriversSound
=============================================================================
