-------------------------- MODULE HubRecords_proofs --------------------------
(***************************************************************************)
(* Theorems about the rows the hub's actors write, for any number of edges,*)
(* devices, connections, alerts and crashes.                               *)
(*                                                                         *)
(* What an operation refers to is in the tables, or an operation before it *)
(* in the priority lane makes it: that is QueueFollows, and Sound adds that*)
(* the tables refer to rows they have.  Both outlive a step of a lane, and *)
(* a producer that hands over another operation keeps them because of what *)
(* it believes: a connection that its edge's row comes, the alert manager  *)
(* that the row of a cached device comes, a run that its alert's row does. *)
(*                                                                         *)
(* What an edge's row will say once the lane has run, OnlineLast, changes  *)
(* with the last operation about it only, which the second half relates to *)
(* the connections and to the list of devices.                             *)
(***************************************************************************)
EXTENDS HubRecords, FiniteSetTheorems, SequenceTheorems, WellFoundedInduction, TLAPS

-----------------------------------------------------------------------------
(* Tables, operations and their types *)

RowNames == {LocalPart[d] : d \in Devices} \cup ReportedNames \cup Devices \cup {NoRow}
            \cup UNION {{names[d] : d \in Devices} : names \in Stored}

Tables ==
  [edges   : [Edges -> {"none", "online", "offline"}],
   names   : [Devices -> RowNames],
   polls   : SUBSET Devices,
   alerts  : [AlertIds -> {"none", "firing", "resolved"}],
   actions : [AlertIds -> {"none", "linked", "unlinked"}]]

EdgeOps == {"edgeUp", "online", "offline"} \X Edges
RowOps == ({"snapshot"} \X Devices) \cup ({"metadata"} \X Devices \X Names)
AlertOps == {"alert", "refire", "resolve", "history"} \X AlertIds
Ops == EdgeOps \cup RowOps \cup AlertOps
LowOps == ({"poll"} \X Devices) \cup {<<"cleanup">>}

Typed == db \in Tables /\ high \in Seq(Ops) /\ low \in Seq(LowOps)

\* What the kinds of operations are about.
LEMMA OpKinds ==
  ASSUME NEW o \in Ops
  PROVE  /\ o[1] \in {"edgeUp", "online", "offline"} => o[2] \in Edges
         /\ o[1] \in {"snapshot", "metadata"} => o[2] \in Devices
         /\ o[1] = "metadata" => o[3] \in Names
         /\ o[1] \in {"alert", "refire", "resolve", "history"} =>
              o[2] \in AlertIds /\ o[2][1] \in Devices
         /\ o[1] \in {"edgeUp", "online", "offline", "snapshot", "metadata",
                      "alert", "refire", "resolve", "history"}
BY DEF Ops, EdgeOps, RowOps, AlertOps, AlertIds

\* The operations there are.
LEMMA OpsMade ==
  /\ \A e \in Edges : \A k \in {"edgeUp", "online", "offline"} : <<k, e>> \in Ops
  /\ \A d \in Devices : <<"snapshot", d>> \in Ops
  /\ \A d \in Devices, name \in Names : <<"metadata", d, name>> \in Ops
  /\ \A a \in AlertIds : \A k \in {"alert", "refire", "resolve", "history"} : <<k, a>> \in Ops
  /\ \A d \in Devices : <<"poll", d>> \in LowOps
  /\ <<"cleanup">> \in LowOps
BY DEF Ops, EdgeOps, RowOps, AlertOps, LowOps

-----------------------------------------------------------------------------
(* Rows and what makes them: in the tables `t`, or by the first n operations *)
(* of the queue q.                                                          *)

EdgeComes(t, q, n, e) ==
  t.edges[e] # "none" \/ \E j \in 1 .. n : q[j][1] = "edgeUp" /\ q[j][2] = e
RowComes(t, q, n, d) ==
  HasRow(t, d) \/ \E j \in 1 .. n : q[j][1] \in {"snapshot", "metadata"} /\ q[j][2] = d
AlertComes(t, q, n, a) ==
  t.alerts[a] # "none" \/ \E j \in 1 .. n : q[j][1] \in {"alert", "refire"} /\ q[j][2] = a

\* What o refers to is there before it runs, after the first n operations.
Follows(t, q, n, o) ==
  /\ o[1] = "online" => EdgeComes(t, q, n, o[2])
  /\ o[1] \in {"snapshot", "metadata"} => EdgeComes(t, q, n, EdgeOf[o[2]])
  /\ o[1] \in {"alert", "refire"} => RowComes(t, q, n, o[2][1])
  /\ o[1] = "history" => AlertComes(t, q, n, o[2])

QueueFollows(t, q) == \A i \in 1 .. Len(q) : Follows(t, q, i - 1, q[i])

TablesRefer(t) ==
  /\ \A d \in Devices : HasRow(t, d) => t.edges[EdgeOf[d]] # "none"
  /\ \A a \in AlertIds : t.alerts[a] # "none" => HasRow(t, a[1])
  /\ \A d \in t.polls : HasRow(t, d)
  /\ \A d \in Devices : t.names[d] \in Devices => t.names[d] = d

\* What is there, or will be, is or will be after a step.
Keeps(t, q, u, r) ==
  /\ \A e \in Edges : EdgeComes(t, q, Len(q), e) => EdgeComes(u, r, Len(r), e)
  /\ \A d \in Devices : RowComes(t, q, Len(q), d) => RowComes(u, r, Len(r), d)
  /\ \A a \in AlertIds : AlertComes(t, q, Len(q), a) => AlertComes(u, r, Len(r), a)

\* One more operation, at the end.
LEMMA Appending ==
  ASSUME NEW t, NEW q \in Seq(Ops), NEW o \in Ops, QueueFollows(t, q), Follows(t, q, Len(q), o)
  PROVE  /\ Append(q, o) \in Seq(Ops) /\ Len(Append(q, o)) = Len(q) + 1
         /\ QueueFollows(t, Append(q, o))
         /\ Keeps(t, q, t, Append(q, o))
         /\ o[1] = "edgeUp" => EdgeComes(t, Append(q, o), Len(q) + 1, o[2])
         /\ o[1] \in {"snapshot", "metadata"} => RowComes(t, Append(q, o), Len(q) + 1, o[2])
         /\ o[1] \in {"alert", "refire"} => AlertComes(t, Append(q, o), Len(q) + 1, o[2])
<1> DEFINE r == Append(q, o)
<1>1. /\ r \in Seq(Ops) /\ Len(r) = Len(q) + 1 /\ Len(q) \in Nat
      /\ \A i \in 1 .. Len(q) : r[i] = q[i]
      /\ r[Len(q) + 1] = o
  OBVIOUS
<1> HIDE DEF r
<1>2. ASSUME NEW n \in 0 .. Len(q)
      PROVE  /\ \A e : EdgeComes(t, q, n, e) => EdgeComes(t, r, n, e) /\ EdgeComes(t, r, Len(r), e)
             /\ \A d : RowComes(t, q, n, d) => RowComes(t, r, n, d) /\ RowComes(t, r, Len(r), d)
             /\ \A a : AlertComes(t, q, n, a) => AlertComes(t, r, n, a) /\ AlertComes(t, r, Len(r), a)
  <2>1. /\ \A j \in 1 .. n : r[j] = q[j] /\ j \in 1 .. Len(r)
    BY <1>1
  <2> QED BY <2>1 DEF EdgeComes, RowComes, AlertComes
<1>3. ASSUME NEW n \in 0 .. Len(q), NEW x, Follows(t, q, n, x) PROVE Follows(t, r, n, x)
  BY <1>2, <1>3 DEF Follows
<1>4. QueueFollows(t, r)
  <2> SUFFICES ASSUME NEW i \in 1 .. Len(r) PROVE Follows(t, r, i - 1, r[i])
    BY DEF QueueFollows
  <2>1. CASE i \in 1 .. Len(q)
    <3>1. Follows(t, q, i - 1, q[i]) /\ i - 1 \in 0 .. Len(q) /\ r[i] = q[i]
      BY <1>1, <2>1 DEF QueueFollows
    <3> QED BY <1>3, <3>1
  <2>2. CASE i = Len(q) + 1
    <3>1. Follows(t, q, Len(q), o) /\ Len(q) \in 0 .. Len(q) /\ i - 1 = Len(q) /\ r[i] = o
      BY <1>1, <2>2
    <3> QED BY <1>3, <3>1
  <2> QED BY <1>1, <2>1, <2>2
<1>5. Keeps(t, q, t, r)
  <2>1. Len(q) \in 0 .. Len(q)
    BY <1>1
  <2> QED BY <1>2, <2>1 DEF Keeps
<1>6. Len(q) + 1 \in 1 .. Len(q) + 1
  BY <1>1
<1>7. /\ o[1] = "edgeUp" => EdgeComes(t, r, Len(q) + 1, o[2])
      /\ o[1] \in {"snapshot", "metadata"} => RowComes(t, r, Len(q) + 1, o[2])
      /\ o[1] \in {"alert", "refire"} => AlertComes(t, r, Len(q) + 1, o[2])
  BY <1>1, <1>6 DEF EdgeComes, RowComes, AlertComes
<1> QED BY <1>1, <1>4, <1>5, <1>7 DEF r

\* Operations behind operations are appended one by one.
LEMMA OneByOne ==
  ASSUME NEW q \in Seq(Ops)
  PROVE  /\ q \o <<>> = q
         /\ \A o \in Ops : q \o <<o>> = Append(q, o)
         /\ \A b \in Seq(Ops), o \in Ops : q \o (b \o <<o>>) = Append(q \o b, o)
<1>1. q \o <<>> = q
  BY ConcatEmptySeq
<1>2. \A s \in Seq(Ops), o \in Ops : s \o <<o>> = Append(s, o)
  OBVIOUS
<1>3. ASSUME NEW b \in Seq(Ops), NEW o \in Ops PROVE q \o (b \o <<o>>) = Append(q \o b, o)
  <2>1. <<o>> \in Seq(Ops) /\ q \o b \in Seq(Ops)
    OBVIOUS
  <2>2. (q \o b) \o <<o>> = q \o (b \o <<o>>)
    BY <2>1, ConcatAssociative
  <2> QED BY <1>2, <2>1, <2>2
<1> QED BY <1>1, <1>2, <1>3

-----------------------------------------------------------------------------
(* What an operation does to the tables *)

\* A name the repositories give: a row's own id or no device's.
GoodName(d, name) == name \in RowNames \ {NoRow} /\ (name \in Devices => name = d)

\* A row gets a name no other device of the edge has.
LEMMA NamesGiven ==
  ASSUME NEW t \in Tables, TablesRefer(t), NEW d \in Devices, NEW name \in Names
  PROVE  /\ GoodName(d, SnapshotName(t, d)) /\ GoodName(d, MetadataName(t, d, name))
         /\ ~ Taken(t, d, UniqueName(t, d, Preferred(d, name)))
<1>1. GoodName(d, LocalPart[d]) /\ GoodName(d, d) /\ GoodName(d, Preferred(d, name))
  BY NamesAssumption DEF GoodName, RowNames, Preferred, Names
<1>2. HasRow(t, d) => GoodName(d, t.names[d])
  BY DEF HasRow, GoodName, Tables, TablesRefer
<1>3. ~ Taken(t, d, d)
  BY DEF Taken, TablesRefer
<1>4. \A p : /\ UniqueName(t, d, p) \in {p, LocalPart[d], d}
             /\ ~ Taken(t, d, UniqueName(t, d, p))
  BY <1>3 DEF UniqueName
<1>5. SnapshotName(t, d) \in {t.names[d], d, LocalPart[d]}
      /\ (SnapshotName(t, d) = t.names[d] => HasRow(t, d) \/ SnapshotName(t, d) \in {d, LocalPart[d]})
  BY DEF SnapshotName
<1>6. \/ MetadataName(t, d, name) = t.names[d] /\ HasRow(t, d)
      \/ MetadataName(t, d, name) = UniqueName(t, d, Preferred(d, name))
  BY DEF MetadataName
<1> QED BY <1>1, <1>2, <1>4, <1>5, <1>6

\* What one table has, the other still has.
More(t, u) ==
  /\ \A e \in Edges : t.edges[e] # "none" => u.edges[e] # "none"
  /\ \A d \in Devices : HasRow(t, d) => HasRow(u, d)
  /\ \A a \in AlertIds : t.alerts[a] # "none" => u.alerts[a] # "none"

Makes(u, o) ==
  /\ o[1] = "edgeUp" => u.edges[o[2]] # "none"
  /\ o[1] \in {"snapshot", "metadata"} => HasRow(u, o[2])
  /\ o[1] \in {"alert", "refire"} => u.alerts[o[2]] # "none"

\* Edge operations: rows of edges are not deleted.
LEMMA EdgeRowWritten ==
  ASSUME NEW t \in Tables, TablesRefer(t), NEW o \in Ops, o[1] \in {"edgeUp", "online", "offline"}
  PROVE  /\ Written(t, o) \in Tables /\ TablesRefer(Written(t, o)) /\ ~ Refuses(t, o)
         /\ More(t, Written(t, o)) /\ Makes(Written(t, o), o)
<1>1. o[2] \in Edges
  BY OpKinds
<1> DEFINE w == IF o[1] = "edgeUp" THEN "online" ELSE IF t.edges[o[2]] = "none" THEN "none" ELSE o[1]
           u == [t EXCEPT !.edges[o[2]] = w]
<1>2. Written(t, o) = u
  BY DEF Written, Tables
<1>3. ~ Refuses(t, o)
  BY DEF Refuses
<1>4. w \in {"none", "online", "offline"} /\ (t.edges[o[2]] # "none" => w # "none")
      /\ (o[1] = "edgeUp" => w # "none")
  OBVIOUS
<1> HIDE DEF w
<1>5. /\ u \in Tables
      /\ u.names = t.names /\ u.polls = t.polls /\ u.alerts = t.alerts
      /\ u.edges = [t.edges EXCEPT ![o[2]] = w]
  BY <1>1, <1>4 DEF Tables
<1>6. \A e \in Edges : u.edges[e] = IF e = o[2] THEN w ELSE t.edges[e]
  BY <1>1, <1>5 DEF Tables
<1> HIDE DEF u
<1>7. More(t, u)
  BY <1>4, <1>5, <1>6 DEF More, HasRow
<1>8. TablesRefer(u)
  BY <1>4, <1>5, <1>6, RecordsAssumption DEF TablesRefer, HasRow
<1>9. Makes(u, o)
  BY <1>1, <1>4, <1>6 DEF Makes
<1> QED BY <1>2, <1>3, <1>5, <1>7, <1>8, <1>9

\* Device rows: their edge is there, and their name is nobody else's.
LEMMA RowWritten ==
  ASSUME NEW t \in Tables, TablesRefer(t), NEW o \in Ops, o[1] \in {"snapshot", "metadata"},
         t.edges[EdgeOf[o[2]]] # "none"
  PROVE  /\ Written(t, o) \in Tables /\ TablesRefer(Written(t, o)) /\ ~ Refuses(t, o)
         /\ More(t, Written(t, o)) /\ Makes(Written(t, o), o) /\ Written(t, o).edges = t.edges
<1>1. o[2] \in Devices /\ (o[1] = "metadata" => o[3] \in Names)
  BY OpKinds
<1> DEFINE w == IF o[1] = "snapshot" THEN SnapshotName(t, o[2]) ELSE MetadataName(t, o[2], o[3])
           u == [t EXCEPT !.names[o[2]] = w]
<1>2. Written(t, o) = u
  BY DEF Written, Tables
<1>3. NoName \in Names
  BY DEF Names
<1>4. ~ Refuses(t, o) /\ GoodName(o[2], w)
  <2>1. CASE o[1] = "snapshot"
    BY <1>1, <1>3, <2>1, NamesGiven DEF Refuses, Orphan
  <2>2. CASE o[1] = "metadata"
    BY <1>1, <2>2, NamesGiven DEF Refuses, Orphan
  <2> QED BY <2>1, <2>2
<1> HIDE DEF w
<1>5. /\ u \in Tables
      /\ u.edges = t.edges /\ u.polls = t.polls /\ u.alerts = t.alerts
      /\ u.names = [t.names EXCEPT ![o[2]] = w]
  BY <1>1, <1>4 DEF Tables, GoodName
<1>6. \A d \in Devices : u.names[d] = IF d = o[2] THEN w ELSE t.names[d]
  BY <1>1, <1>5 DEF Tables
<1> HIDE DEF u
<1>7. \A d \in Devices : HasRow(u, d) <=> HasRow(t, d) \/ d = o[2]
  BY <1>4, <1>6 DEF HasRow, GoodName
<1>8. More(t, u)
  BY <1>5, <1>7 DEF More
<1>9. TablesRefer(u)
  <2>1. \A a \in AlertIds : a[1] \in Devices
    BY DEF AlertIds
  <2>2. t.polls \subseteq Devices
    BY DEF Tables
  <2> QED BY <1>4, <1>5, <1>6, <1>7, <2>1, <2>2 DEF TablesRefer, GoodName
<1>10. Makes(u, o)
  BY <1>1, <1>7 DEF Makes
<1> QED BY <1>2, <1>4, <1>5, <1>8, <1>9, <1>10

\* Alert rows: their device is there.
LEMMA AlertWritten ==
  ASSUME NEW t \in Tables, TablesRefer(t), NEW o \in Ops, o[1] \in {"alert", "refire", "resolve"},
         o[1] \in {"alert", "refire"} => HasRow(t, o[2][1])
  PROVE  /\ Written(t, o) \in Tables /\ TablesRefer(Written(t, o)) /\ ~ Refuses(t, o)
         /\ More(t, Written(t, o)) /\ Makes(Written(t, o), o) /\ Written(t, o).edges = t.edges
<1>1. o[2] \in AlertIds /\ o[2][1] \in Devices
  BY OpKinds
<1> DEFINE w == AlertStatus(t, o)
           u == [t EXCEPT !.alerts[o[2]] = w]
<1>2. Written(t, o) = u
  BY DEF Written, Tables
<1>3. ~ Refuses(t, o)
  BY DEF Refuses
<1>4. /\ w \in {"none", "firing", "resolved"}
      /\ (t.alerts[o[2]] # "none" => w # "none")
      /\ (o[1] \in {"alert", "refire"} => w # "none")
      /\ (w # "none" => t.alerts[o[2]] # "none" \/ o[1] \in {"alert", "refire"})
  BY <1>1 DEF AlertStatus, Tables
<1> HIDE DEF w
<1>5. /\ u \in Tables
      /\ u.edges = t.edges /\ u.polls = t.polls /\ u.names = t.names
      /\ u.alerts = [t.alerts EXCEPT ![o[2]] = w]
  BY <1>1, <1>4 DEF Tables
<1>6. \A a \in AlertIds : u.alerts[a] = IF a = o[2] THEN w ELSE t.alerts[a]
  BY <1>1, <1>5 DEF Tables
<1> HIDE DEF u
<1>7. More(t, u)
  BY <1>4, <1>5, <1>6 DEF More, HasRow
<1>8. TablesRefer(u)
  BY <1>1, <1>4, <1>5, <1>6 DEF TablesRefer, HasRow
<1>9. Makes(u, o)
  BY <1>1, <1>4, <1>6 DEF Makes
<1> QED BY <1>2, <1>3, <1>5, <1>7, <1>8, <1>9

\* An operation whose rows are there is not refused and leaves all others.
LEMMA Ran ==
  ASSUME NEW t \in Tables, TablesRefer(t), NEW o \in Ops, NEW q, Follows(t, q, 0, o)
  PROVE  /\ Written(t, o) \in Tables /\ TablesRefer(Written(t, o)) /\ ~ Refuses(t, o)
         /\ More(t, Written(t, o)) /\ Makes(Written(t, o), o)
         /\ o[1] \notin {"edgeUp", "online", "offline"} => Written(t, o).edges = t.edges
<1>1. CASE o[1] \in {"edgeUp", "online", "offline"}
  BY <1>1, EdgeRowWritten
<1>2. CASE o[1] \in {"snapshot", "metadata"}
  <2>1. t.edges[EdgeOf[o[2]]] # "none"
    BY <1>2 DEF Follows, EdgeComes
  <2> QED BY <1>2, <2>1, RowWritten
<1>3. CASE o[1] \in {"alert", "refire", "resolve"}
  <2>1. o[1] \in {"alert", "refire"} => HasRow(t, o[2][1])
    BY <1>3 DEF Follows, RowComes
  <2> QED BY <1>3, <2>1, AlertWritten
<1>4. CASE o[1] = "history"
  <2>1. o[2] \in AlertIds
    BY <1>4, OpKinds
  <2>2. ~ Refuses(t, o)
    BY <1>4 DEF Refuses, Follows, AlertComes
  <2> DEFINE u == [t EXCEPT !.actions[o[2]] = "linked"]
  <2>3. Written(t, o) = u
    BY <1>4 DEF Written
  <2>4. /\ u \in Tables
        /\ u.edges = t.edges /\ u.polls = t.polls /\ u.names = t.names /\ u.alerts = t.alerts
    BY <2>1 DEF Tables
  <2> HIDE DEF u
  <2>5. More(t, u) /\ TablesRefer(u) /\ Makes(u, o)
    BY <1>4, <2>4 DEF More, TablesRefer, Makes, HasRow
  <2> QED BY <2>2, <2>3, <2>4, <2>5
<1> QED BY <1>1, <1>2, <1>3, <1>4, OpKinds

\* The operation that ran, gone from the head of the queue, is in the tables.
LEMMA Advancing ==
  ASSUME NEW t \in Tables, NEW u \in Tables, NEW q \in Seq(Ops), q # <<>>, More(t, u),
         Makes(u, Head(q)), QueueFollows(t, q)
  PROVE  /\ Tail(q) \in Seq(Ops) /\ QueueFollows(u, Tail(q))
         /\ Keeps(t, q, u, Tail(q))
<1> DEFINE r == Tail(q)
<1>1. /\ r \in Seq(Ops) /\ Len(r) = Len(q) - 1 /\ Len(q) \in Nat \ {0}
      /\ \A i \in 1 .. Len(r) : r[i] = q[i + 1]
      /\ Head(q) = q[1]
  BY HeadTailProperties
<1> HIDE DEF r
<1>2. ASSUME NEW n \in 1 .. Len(q)
      PROVE  /\ \A e \in Edges : EdgeComes(t, q, n, e) => EdgeComes(u, r, n - 1, e)
             /\ \A d \in Devices : RowComes(t, q, n, d) => RowComes(u, r, n - 1, d)
             /\ \A a \in AlertIds : AlertComes(t, q, n, a) => AlertComes(u, r, n - 1, a)
  <2>1. ASSUME NEW j \in 1 .. n, j # 1 PROVE j - 1 \in 1 .. n - 1 /\ r[j - 1] = q[j]
    BY <1>1, <2>1
  <2>2. ASSUME NEW e \in Edges, EdgeComes(t, q, n, e) PROVE EdgeComes(u, r, n - 1, e)
    <3>1. CASE t.edges[e] # "none"
      BY <3>1 DEF EdgeComes, More
    <3>2. ASSUME NEW j \in 1 .. n, q[j][1] = "edgeUp" /\ q[j][2] = e PROVE EdgeComes(u, r, n - 1, e)
      <4>1. CASE j = 1
        BY <1>1, <3>2, <4>1 DEF Makes, EdgeComes
      <4>2. CASE j # 1
        BY <2>1, <3>2, <4>2 DEF EdgeComes
      <4> QED BY <4>1, <4>2
    <3> QED BY <2>2, <3>1, <3>2 DEF EdgeComes
  <2>3. ASSUME NEW d \in Devices, RowComes(t, q, n, d) PROVE RowComes(u, r, n - 1, d)
    <3>1. CASE HasRow(t, d)
      BY <3>1 DEF RowComes, More
    <3>2. ASSUME NEW j \in 1 .. n, q[j][1] \in {"snapshot", "metadata"} /\ q[j][2] = d
          PROVE RowComes(u, r, n - 1, d)
      <4>1. CASE j = 1
        BY <1>1, <3>2, <4>1 DEF Makes, RowComes
      <4>2. CASE j # 1
        BY <2>1, <3>2, <4>2 DEF RowComes
      <4> QED BY <4>1, <4>2
    <3> QED BY <2>3, <3>1, <3>2 DEF RowComes
  <2>4. ASSUME NEW a \in AlertIds, AlertComes(t, q, n, a) PROVE AlertComes(u, r, n - 1, a)
    <3>1. CASE t.alerts[a] # "none"
      BY <3>1 DEF AlertComes, More
    <3>2. ASSUME NEW j \in 1 .. n, q[j][1] \in {"alert", "refire"} /\ q[j][2] = a
          PROVE AlertComes(u, r, n - 1, a)
      <4>1. CASE j = 1
        BY <1>1, <3>2, <4>1 DEF Makes, AlertComes
      <4>2. CASE j # 1
        BY <2>1, <3>2, <4>2 DEF AlertComes
      <4> QED BY <4>1, <4>2
    <3> QED BY <2>4, <3>1, <3>2 DEF AlertComes
  <2> QED BY <2>2, <2>3, <2>4
<1>3. QueueFollows(u, r)
  <2> SUFFICES ASSUME NEW i \in 1 .. Len(r) PROVE Follows(u, r, i - 1, r[i])
    BY DEF QueueFollows
  <2> DEFINE o == q[i + 1]
  <2>1. i + 1 \in 1 .. Len(q) /\ i \in 1 .. Len(q) /\ r[i] = o /\ o \in Ops /\ (i + 1) - 1 = i
    BY <1>1
  <2>2. Follows(t, q, i, o)
    BY <2>1 DEF QueueFollows
  <2> HIDE DEF o
  <2> QED BY <1>2, <2>1, <2>2, OpKinds, RecordsAssumption DEF Follows
<1>4. Len(q) \in 1 .. Len(q) /\ Len(r) = Len(q) - 1
  BY <1>1
<1>5. Keeps(t, q, u, r)
  BY <1>2, <1>4 DEF Keeps
<1> QED BY <1>1, <1>3, <1>5 DEF r

-----------------------------------------------------------------------------
(* Tables and a queue that fit, and the steps of both lanes *)

Sound(t, q) == t \in Tables /\ TablesRefer(t) /\ q \in Seq(Ops) /\ QueueFollows(t, q)

\* The queue is about e's row, and this is what the row says when it has run.
About(o, e) == o[1] \in {"edgeUp", "online", "offline"} /\ o[2] = e
OnlineLast(t, q, e) ==
  \/ t.edges[e] = "online" /\ \A i \in 1 .. Len(q) : ~ About(q[i], e)
  \/ \E i \in 1 .. Len(q) : /\ About(q[i], e) /\ q[i][1] # "offline"
                            /\ \A j \in 1 .. Len(q) : j > i => ~ About(q[j], e)

\* No row of an edge will say anything else.
Quiet(t, q, u, r) == \A e \in Edges : OnlineLast(t, q, e) <=> OnlineLast(u, r, e)

\* Only an operation about e, put last, changes what its row will say.
LEMMA AppendedLast ==
  ASSUME NEW t, NEW q \in Seq(Ops), NEW o \in Ops, NEW e
  PROVE  OnlineLast(t, Append(q, o), e) <=>
           IF About(o, e) THEN o[1] # "offline" ELSE OnlineLast(t, q, e)
<1> DEFINE r == Append(q, o)
           n == Len(q) + 1
<1>1. /\ Len(r) = n /\ Len(q) \in Nat /\ n \in Nat /\ r[n] = o
      /\ \A i \in 1 .. Len(q) : r[i] = q[i] /\ i # n
      /\ \A i \in 1 .. n : i \in 1 .. Len(q) \/ i = n
      /\ n \in 1 .. n /\ 1 .. Len(q) \subseteq 1 .. n
  OBVIOUS
<1> HIDE DEF r
<1>2. CASE About(o, e)
  <2>1. ASSUME OnlineLast(t, r, e) PROVE o[1] # "offline"
    <3>1. PICK i \in 1 .. n : /\ About(r[i], e) /\ r[i][1] # "offline"
                              /\ \A j \in 1 .. n : j > i => ~ About(r[j], e)
      BY <1>1, <1>2, <2>1 DEF OnlineLast
    <3>2. i = n
      <4>1. ~ (n > i)
        BY <1>1, <1>2, <3>1
      <4> QED BY <1>1, <4>1
    <3> QED BY <1>1, <3>1, <3>2
  <2>2. ASSUME o[1] # "offline" PROVE OnlineLast(t, r, e)
    <3>1. \A j \in 1 .. n : ~ (j > n)
      BY <1>1
    <3> QED BY <1>1, <1>2, <2>2, <3>1 DEF OnlineLast
  <2> QED BY <1>2, <2>1, <2>2 DEF r
<1>3. CASE ~ About(o, e)
  <2>1. ASSUME OnlineLast(t, r, e) PROVE OnlineLast(t, q, e)
    <3>1. CASE t.edges[e] = "online" /\ \A i \in 1 .. n : ~ About(r[i], e)
      BY <1>1, <3>1 DEF OnlineLast
    <3>2. CASE \E i \in 1 .. n : /\ About(r[i], e) /\ r[i][1] # "offline"
                                 /\ \A j \in 1 .. n : j > i => ~ About(r[j], e)
      <4>1. PICK i \in 1 .. n : /\ About(r[i], e) /\ r[i][1] # "offline"
                                /\ \A j \in 1 .. n : j > i => ~ About(r[j], e)
        BY <3>2
      <4>2. i \in 1 .. Len(q)
        BY <1>1, <1>3, <4>1
      <4>3. \A j \in 1 .. Len(q) : j > i => ~ About(q[j], e)
        BY <1>1, <4>1
      <4> QED BY <1>1, <4>1, <4>2, <4>3 DEF OnlineLast
    <3> QED BY <1>1, <2>1, <3>1, <3>2 DEF OnlineLast
  <2>2. ASSUME OnlineLast(t, q, e) PROVE OnlineLast(t, r, e)
    <3>1. CASE t.edges[e] = "online" /\ \A i \in 1 .. Len(q) : ~ About(q[i], e)
      BY <1>1, <1>3, <3>1 DEF OnlineLast
    <3>2. CASE \E i \in 1 .. Len(q) : /\ About(q[i], e) /\ q[i][1] # "offline"
                                      /\ \A j \in 1 .. Len(q) : j > i => ~ About(q[j], e)
      <4>1. PICK i \in 1 .. Len(q) : /\ About(q[i], e) /\ q[i][1] # "offline"
                                     /\ \A j \in 1 .. Len(q) : j > i => ~ About(q[j], e)
        BY <3>2
      <4>2. i \in 1 .. n /\ r[i] = q[i]
        BY <1>1
      <4>3. \A j \in 1 .. n : j > i => ~ About(r[j], e)
        BY <1>1, <1>3, <4>1
      <4> QED BY <1>1, <4>1, <4>2, <4>3 DEF OnlineLast
    <3> QED BY <2>2, <3>1, <3>2 DEF OnlineLast
  <2> QED BY <1>3, <2>1, <2>2 DEF r
<1> QED BY <1>2, <1>3

\* What a producer hands over: one operation that follows the queue.
LEMMA Added ==
  ASSUME NEW t, NEW q, Sound(t, q), NEW o \in Ops, Follows(t, q, Len(q), o)
  PROVE  /\ Sound(t, Append(q, o)) /\ Keeps(t, q, t, Append(q, o))
         /\ o[1] \notin {"edgeUp", "online", "offline"} => Quiet(t, q, t, Append(q, o))
         /\ o[1] = "edgeUp" => EdgeComes(t, Append(q, o), Len(Append(q, o)), o[2])
         /\ o[1] \in {"snapshot", "metadata"} => RowComes(t, Append(q, o), Len(Append(q, o)), o[2])
         /\ o[1] \in {"alert", "refire"} => AlertComes(t, Append(q, o), Len(Append(q, o)), o[2])
<1>1. /\ Append(q, o) \in Seq(Ops) /\ Len(Append(q, o)) = Len(q) + 1
      /\ QueueFollows(t, Append(q, o))
      /\ Keeps(t, q, t, Append(q, o))
      /\ o[1] = "edgeUp" => EdgeComes(t, Append(q, o), Len(q) + 1, o[2])
      /\ o[1] \in {"snapshot", "metadata"} => RowComes(t, Append(q, o), Len(q) + 1, o[2])
      /\ o[1] \in {"alert", "refire"} => AlertComes(t, Append(q, o), Len(q) + 1, o[2])
  BY Appending DEF Sound
<1>2. o[1] \notin {"edgeUp", "online", "offline"} => Quiet(t, q, t, Append(q, o))
  <2>1. q \in Seq(Ops)
    BY DEF Sound
  <2>2. \A e : o[1] \notin {"edgeUp", "online", "offline"} => ~ About(o, e)
    BY DEF About
  <2> QED BY <2>1, <2>2, AppendedLast DEF Quiet
<1> QED BY <1>1, <1>2 DEF Sound

\* Running the head of the queue does not change what an edge's row will say.
LEMMA RanLast ==
  ASSUME NEW t, NEW q, Sound(t, q), q # <<>>, NEW e \in Edges
  PROVE  OnlineLast(t, q, e) <=> OnlineLast(Written(t, Head(q)), Tail(q), e)
<1> DEFINE r == Tail(q)
           o == Head(q)
           u == Written(t, o)
<1>1. /\ Len(r) = Len(q) - 1 /\ Len(q) \in Nat \ {0}
      /\ \A i \in 1 .. Len(r) : r[i] = q[i + 1] /\ i + 1 \in 1 .. Len(q)
      /\ o = q[1] /\ o \in Ops /\ 1 \in 1 .. Len(q)
      /\ \A i \in 1 .. Len(q) : i = 1 \/ (i - 1 \in 1 .. Len(r) /\ q[i] = r[i - 1])
  BY HeadTailProperties DEF Sound
<1>2. /\ ~ About(o, e) => u.edges[e] = t.edges[e]
      /\ About(o, e) => (u.edges[e] = "online" <=> o[1] # "offline")
  <2>1. t \in Tables /\ Follows(t, q, 0, o)
    BY <1>1 DEF Sound, QueueFollows
  <2>2. o[1] = "online" => t.edges[o[2]] # "none"
    BY <2>1 DEF Follows, EdgeComes
  <2>3. CASE o[1] = "edgeUp"
    <3>1. u.edges = [t.edges EXCEPT ![o[2]] = "online"]
      BY <2>1, <2>3 DEF Written, Tables
    <3> QED BY <2>1, <2>3, <3>1 DEF About, Tables
  <2>4. CASE o[1] \in {"online", "offline"}
    <3>1. u.edges = [t.edges EXCEPT ![o[2]] = IF @ = "none" THEN @ ELSE o[1]]
      BY <2>1, <2>4 DEF Written, Tables
    <3> QED BY <2>1, <2>2, <2>4, <3>1 DEF About, Tables
  <2>5. CASE o[1] \notin {"edgeUp", "online", "offline"}
    <3>1. TablesRefer(t)
      BY DEF Sound
    <3>2. u.edges = t.edges
      BY <1>1, <2>1, <2>5, <3>1, Ran
    <3> QED BY <2>5, <3>2 DEF About
  <2> QED BY <2>3, <2>4, <2>5
<1> HIDE DEF r, o, u
<1>3. ASSUME OnlineLast(t, q, e) PROVE OnlineLast(u, r, e)
  <2>1. CASE t.edges[e] = "online" /\ \A i \in 1 .. Len(q) : ~ About(q[i], e)
    BY <1>1, <1>2, <2>1 DEF OnlineLast
  <2>2. CASE \E i \in 1 .. Len(q) : /\ About(q[i], e) /\ q[i][1] # "offline"
                                    /\ \A j \in 1 .. Len(q) : j > i => ~ About(q[j], e)
    <3>1. PICK i \in 1 .. Len(q) : /\ About(q[i], e) /\ q[i][1] # "offline"
                                   /\ \A j \in 1 .. Len(q) : j > i => ~ About(q[j], e)
      BY <2>2
    <3>2. ASSUME NEW j \in 1 .. Len(r), j > i - 1 PROVE ~ About(r[j], e)
      <4>1. j + 1 \in 1 .. Len(q) /\ j + 1 > i
        BY <1>1, <3>2
      <4> QED BY <1>1, <3>1, <4>1
    <3>3. CASE i = 1
      <4>1. \A j \in 1 .. Len(r) : j > i - 1
        BY <1>1, <3>3
      <4>2. u.edges[e] = "online"
        BY <1>1, <1>2, <3>1, <3>3
      <4> QED BY <3>2, <4>1, <4>2 DEF OnlineLast
    <3>4. CASE i # 1
      <4>1. i - 1 \in 1 .. Len(r) /\ r[i - 1] = q[i]
        BY <1>1, <3>4
      <4> QED BY <3>1, <3>2, <4>1 DEF OnlineLast
    <3> QED BY <3>3, <3>4
  <2> QED BY <1>3, <2>1, <2>2 DEF OnlineLast
<1>4. ASSUME OnlineLast(u, r, e) PROVE OnlineLast(t, q, e)
  <2>1. CASE u.edges[e] = "online" /\ \A i \in 1 .. Len(r) : ~ About(r[i], e)
    <3>1. \A j \in 1 .. Len(q) : j > 1 => ~ About(q[j], e)
      BY <1>1, <2>1
    <3>2. CASE About(o, e)
      BY <1>1, <1>2, <2>1, <3>1, <3>2 DEF OnlineLast
    <3>3. CASE ~ About(o, e)
      BY <1>1, <1>2, <2>1, <3>1, <3>3 DEF OnlineLast
    <3> QED BY <3>2, <3>3
  <2>2. CASE \E i \in 1 .. Len(r) : /\ About(r[i], e) /\ r[i][1] # "offline"
                                    /\ \A j \in 1 .. Len(r) : j > i => ~ About(r[j], e)
    <3>1. PICK i \in 1 .. Len(r) : /\ About(r[i], e) /\ r[i][1] # "offline"
                                   /\ \A j \in 1 .. Len(r) : j > i => ~ About(r[j], e)
      BY <2>2
    <3>2. ASSUME NEW j \in 1 .. Len(q), j > i + 1 PROVE ~ About(q[j], e)
      <4>1. j - 1 \in 1 .. Len(r) /\ j - 1 > i /\ q[j] = r[j - 1]
        BY <1>1, <3>2
      <4> QED BY <3>1, <4>1
    <3>3. i + 1 \in 1 .. Len(q) /\ q[i + 1] = r[i]
      BY <1>1
    <3> QED BY <3>1, <3>2, <3>3 DEF OnlineLast
  <2> QED BY <1>4, <2>1, <2>2 DEF OnlineLast
<1> QED BY <1>3, <1>4 DEF r, o, u

\* The worker runs the head of the queue.
LEMMA HeadRan ==
  ASSUME NEW t, NEW q, Sound(t, q), q # <<>>
  PROVE  /\ ~ Refuses(t, Head(q))
         /\ Sound(Apply(t, Head(q)), Tail(q)) /\ Keeps(t, q, Apply(t, Head(q)), Tail(q))
         /\ Quiet(t, q, Apply(t, Head(q)), Tail(q))
<1> DEFINE o == Head(q)
<1>1. o \in Ops /\ Follows(t, q, 0, o) /\ t \in Tables /\ TablesRefer(t) /\ q \in Seq(Ops)
      /\ QueueFollows(t, q)
  <2>1. 1 \in 1 .. Len(q) /\ o = q[1] /\ o \in Ops
    BY HeadTailProperties DEF Sound
  <2> QED BY <2>1 DEF Sound, QueueFollows
<1> HIDE DEF o
<1> DEFINE u == Written(t, o)
<1>2. u \in Tables /\ TablesRefer(u) /\ ~ Refuses(t, o) /\ More(t, u) /\ Makes(u, o)
  BY <1>1, Ran
<1>3. Apply(t, o) = u
  BY <1>2 DEF Apply
<1> HIDE DEF u
<1>4. Sound(u, Tail(q)) /\ Keeps(t, q, u, Tail(q))
  BY <1>1, <1>2, Advancing DEF Sound, o
<1>5. Quiet(t, q, u, Tail(q))
  BY RanLast DEF Quiet, u, o
<1> QED BY <1>2, <1>3, <1>4, <1>5 DEF o

\* The low lane changes tables below a queue that waits: rows come, or alerts go
\* that nothing in use refers to.
LEMMA Underneath ==
  ASSUME NEW t, NEW q, Sound(t, q), NEW u \in Tables, TablesRefer(u), u.edges = t.edges,
         \A d \in Devices : HasRow(t, d) => HasRow(u, d),
         NEW U, \A a \in U : t.alerts[a] # "none" => u.alerts[a] # "none",
         \A i \in 1 .. Len(q) : q[i][1] = "history" => q[i][2] \in U
  PROVE  /\ Sound(u, q) /\ Quiet(t, q, u, q)
         /\ \A e \in Edges : EdgeComes(t, q, Len(q), e) => EdgeComes(u, q, Len(q), e)
         /\ \A d \in Devices : RowComes(t, q, Len(q), d) => RowComes(u, q, Len(q), d)
         /\ \A a \in U : AlertComes(t, q, Len(q), a) => AlertComes(u, q, Len(q), a)
<1>1. ASSUME NEW n
      PROVE  /\ \A e \in Edges : EdgeComes(t, q, n, e) => EdgeComes(u, q, n, e)
             /\ \A d \in Devices : RowComes(t, q, n, d) => RowComes(u, q, n, d)
             /\ \A a \in U : AlertComes(t, q, n, a) => AlertComes(u, q, n, a)
  BY DEF EdgeComes, RowComes, AlertComes
<1>2. Quiet(t, q, u, q)
  BY DEF Quiet, OnlineLast
<1>3. QueueFollows(u, q)
  <2> SUFFICES ASSUME NEW i \in 1 .. Len(q) PROVE Follows(u, q, i - 1, q[i])
    BY DEF QueueFollows
  <2>1. q[i] \in Ops /\ Follows(t, q, i - 1, q[i]) /\ (q[i][1] = "history" => q[i][2] \in U)
    BY DEF Sound, QueueFollows
  <2> DEFINE o == q[i]
  <2>2. o \in Ops /\ Follows(t, q, i - 1, o) /\ (o[1] = "history" => o[2] \in U)
    BY <2>1
  <2> HIDE DEF o
  <2>3. Follows(u, q, i - 1, o)
    BY <1>1, <2>2, OpKinds, RecordsAssumption DEF Follows
  <2> QED BY <2>3 DEF o
<1> QED BY <1>1, <1>2, <1>3 DEF Sound

\* A poll's row is its device's.
LEMMA Polled ==
  ASSUME NEW t \in Tables, TablesRefer(t), NEW d \in Devices
  PROVE  /\ Apply(t, <<"poll", d>>) \in Tables /\ TablesRefer(Apply(t, <<"poll", d>>))
         /\ Apply(t, <<"poll", d>>).edges = t.edges
         /\ Apply(t, <<"poll", d>>).names = t.names
         /\ Apply(t, <<"poll", d>>).alerts = t.alerts
<1> DEFINE o == <<"poll", d>>
           u == Written(t, o)
<1>1. (Refuses(t, o) <=> ~ HasRow(t, d)) /\ u = [t EXCEPT !.polls = @ \cup {d}]
  BY DEF Refuses, Written
<1>2. /\ u \in Tables
      /\ u.edges = t.edges /\ u.names = t.names /\ u.alerts = t.alerts /\ u.polls = t.polls \cup {d}
  BY <1>1 DEF Tables
<1>3. CASE Refuses(t, o)
  BY <1>3 DEF Apply
<1>4. CASE ~ Refuses(t, o)
  <2>1. TablesRefer(u)
    BY <1>1, <1>2, <1>4 DEF TablesRefer, HasRow
  <2>2. Apply(t, o) = u
    BY <1>4 DEF Apply
  <2> HIDE DEF u
  <2> QED BY <1>2, <2>1, <2>2
<1> QED BY <1>3, <1>4

\* Pruning leaves tables that refer to rows they have.
LEMMA PrunedTables ==
  ASSUME NEW t \in Tables, TablesRefer(t), NEW S \in SUBSET AlertIds
  PROVE  /\ Pruned(t, S) \in Tables /\ TablesRefer(Pruned(t, S))
         /\ Pruned(t, S).edges = t.edges /\ Pruned(t, S).names = t.names
         /\ \A a \in AlertIds \ S : Pruned(t, S).alerts[a] = t.alerts[a]
<1> DEFINE as == [a \in AlertIds |-> IF a \in S THEN "none" ELSE t.alerts[a]]
           xs == [a \in AlertIds |-> IF a \in S /\ t.actions[a] = "linked" THEN "unlinked"
                                     ELSE t.actions[a]]
           u == [t EXCEPT !.alerts = as, !.actions = xs]
<1>1. Pruned(t, S) = u
  BY DEF Pruned
<1>2. as \in [AlertIds -> {"none", "firing", "resolved"}]
      /\ \A a \in AlertIds : as[a] = IF a \in S THEN "none" ELSE t.alerts[a]
  BY DEF Tables
<1>3. xs \in [AlertIds -> {"none", "linked", "unlinked"}]
  <2>1. ASSUME NEW a \in AlertIds
        PROVE  (IF a \in S /\ t.actions[a] = "linked" THEN "unlinked" ELSE t.actions[a])
                 \in {"none", "linked", "unlinked"}
    BY DEF Tables
  <2> QED BY <2>1
<1> HIDE DEF as, xs
<1>4. /\ u \in Tables
      /\ u.edges = t.edges /\ u.names = t.names /\ u.alerts = as /\ u.polls = t.polls
  BY <1>2, <1>3 DEF Tables
<1> HIDE DEF u
<1>5. TablesRefer(u)
  BY <1>2, <1>4 DEF TablesRefer, HasRow
<1> QED BY <1>1, <1>2, <1>4, <1>5

-----------------------------------------------------------------------------
(* What the actors believe *)

ActorTypes ==
  /\ SessionsTypeOK
  /\ shown \in [Conns -> SUBSET Devices] /\ removed \subseteq Devices
  /\ cache \in [Devices -> Names \cup {NotCached}]
  /\ open \in [Devices -> 0 .. MaxAlerts] /\ ids \in [Devices -> 0 .. MaxAlerts]
  /\ runs \subseteq AlertIds

LowTypes == low \in Seq(LowOps) /\ Len(low) <= LowCapacity

\* A registered connection's edge has its row, or will; a socket that has not
\* registered has no edge, and the end that is still to be reported is an edge's.
SocketsKnow(t, q) ==
  \A c \in Conns :
    /\ Registered(c) => owner[c] \in Edges /\ EdgeComes(t, q, Len(q), owner[c])
    /\ task[c] = "unregistered" => owner[c] = NoEdge
    /\ c \in leaving => owner[c] \in Edges

\* So has a device that is cached, or has an alert.
CacheKnows(t, q) ==
  \A d \in Devices : /\ cache[d] # NotCached => RowComes(t, q, Len(q), d)
                     /\ open[d] # 0 => cache[d] # NotCached

\* And so has the alert of an action that runs.
RunsKnow(t, q) == \A a \in runs : AlertComes(t, q, Len(q), a)

DependInv ==
  /\ ActorTypes /\ LowTypes
  /\ Sound(db, high)
  /\ SocketsKnow(db, high) /\ CacheKnows(db, high) /\ RunsKnow(db, high)
  /\ DependentsFollow

\* The type invariant is a part of it.
LEMMA InvTyped == DependInv => TypeOK
<1> SUFFICES ASSUME DependInv PROVE TypeOK
  OBVIOUS
<1>1. db \in Tables
  BY DEF DependInv, Sound
<1> QED BY <1>1 DEF DependInv, ActorTypes, LowTypes, TypeOK, Tables

-----------------------------------------------------------------------------
(* The outcomes of an evaluation, behind the writes of its handler *)

\* What they leave: the operations that waited, then those of the handler.
Outcome(mid) ==
  /\ open' \in [Devices -> 0 .. MaxAlerts] /\ ids' \in [Devices -> 0 .. MaxAlerts]
  /\ runs' \subseteq AlertIds
  /\ Sound(db, high') /\ Keeps(db, high, db, high') /\ Keeps(db, mid, db, high')
  /\ Quiet(db, high, db, high')
  /\ \A a \in runs' : AlertComes(db, high', Len(high'), a)

\* The queue behind the handler's own writes.
Behind(before, mid) ==
  /\ before \in Seq(Ops) /\ mid = high \o before
  /\ Sound(db, mid) /\ Keeps(db, high, db, mid) /\ Quiet(db, high, db, mid)

\* Two such steps are one.
LEMMA Transitive ==
  ASSUME NEW q, NEW r, NEW s, Keeps(db, q, db, r), Quiet(db, q, db, r),
         Keeps(db, r, db, s), Quiet(db, r, db, s)
  PROVE  Keeps(db, q, db, s) /\ Quiet(db, q, db, s)
BY DEF Keeps, Quiet

\* One alert operation behind `mid`.
LEMMA OneAlert ==
  ASSUME NEW before, NEW mid, Behind(before, mid), Sound(db, high), NEW a \in AlertIds,
         NEW k \in {"alert", "refire", "resolve"},
         k # "resolve" => RowComes(db, mid, Len(mid), a[1]),
         Submit(before \o <<<<k, a>>>>)
  PROVE  /\ Sound(db, high') /\ Keeps(db, high, db, high') /\ Keeps(db, mid, db, high')
         /\ Quiet(db, high, db, high')
         /\ k # "resolve" => AlertComes(db, high', Len(high'), a)
<1> DEFINE o == <<k, a>>
<1>1. o \in Ops /\ o[1] = k /\ o[2] = a
  BY OpsMade
<1>2. Follows(db, mid, Len(mid), o)
  BY <1>1 DEF Follows
<1> HIDE DEF o
<1>3. high' = Append(mid, o)
  <2>1. high' = high \o (before \o <<o>>) /\ high \in Seq(Ops) /\ before \in Seq(Ops)
    BY DEF Submit, Behind, Sound, o
  <2> QED BY <1>1, <2>1, OneByOne DEF Behind
<1>4. Sound(db, mid)
  BY DEF Behind
<1>5. /\ Sound(db, Append(mid, o)) /\ Keeps(db, mid, db, Append(mid, o))
      /\ Quiet(db, mid, db, Append(mid, o))
      /\ k # "resolve" => AlertComes(db, Append(mid, o), Len(Append(mid, o)), a)
  BY <1>1, <1>2, <1>4, Added
<1>6. Keeps(db, high, db, Append(mid, o)) /\ Quiet(db, high, db, Append(mid, o))
  <2>1. Keeps(db, high, db, mid) /\ Quiet(db, high, db, mid)
    BY DEF Behind
  <2> QED BY <1>5, <2>1, Transitive
<1> QED BY <1>3, <1>5, <1>6

\* open_alert: the device's row comes, so the alert's may follow.
LEMMA OpensLeaves ==
  ASSUME DependInv, NEW d \in Devices, NEW before, NEW mid, Behind(before, mid),
         RowComes(db, mid, Len(mid), d), Opens(d, before)
  PROVE  Outcome(mid) /\ (\A x \in Devices \ {d} : open'[x] = open[x])
<1> DEFINE a == <<d, ids[d] + 1>>
<1>1. /\ open \in [Devices -> 0 .. MaxAlerts] /\ ids \in [Devices -> 0 .. MaxAlerts]
      /\ runs \subseteq AlertIds /\ Sound(db, high) /\ RunsKnow(db, high)
  BY DEF DependInv, ActorTypes
<1>2. ids[d] + 1 \in 1 .. MaxAlerts /\ a \in AlertIds /\ a[1] = d
  BY <1>1, RecordsAssumption DEF Opens, AlertIds
<1>3. /\ open' = [open EXCEPT ![d] = ids[d] + 1] /\ ids' = [ids EXCEPT ![d] = ids[d] + 1]
      /\ Submit(before \o <<<<"alert", a>>>>) /\ runs' = runs \cup {a}
  BY DEF Opens
<1> HIDE DEF a
<1>4. /\ Sound(db, high') /\ Keeps(db, high, db, high') /\ Keeps(db, mid, db, high')
      /\ Quiet(db, high, db, high')
      /\ AlertComes(db, high', Len(high'), a)
  BY <1>1, <1>2, <1>3, OneAlert
<1>5. /\ open' \in [Devices -> 0 .. MaxAlerts] /\ ids' \in [Devices -> 0 .. MaxAlerts]
      /\ runs' \subseteq AlertIds /\ (\A x \in Devices \ {d} : open'[x] = open[x])
  <2>1. ids[d] + 1 \in 0 .. MaxAlerts
    BY <1>2, RecordsAssumption
  <2> QED BY <1>1, <1>2, <1>3, <2>1
<1>6. \A x \in runs' : AlertComes(db, high', Len(high'), x)
  BY <1>1, <1>3, <1>4 DEF RunsKnow, Keeps
<1> QED BY <1>4, <1>5, <1>6 DEF Outcome

\* refire: the row of the alert may have been lost, that of its device was not.
LEMMA RefiresLeaves ==
  ASSUME DependInv, NEW d \in Devices, NEW before, NEW mid, Behind(before, mid),
         RowComes(db, mid, Len(mid), d), Refires(d, before)
  PROVE  Outcome(mid) /\ open' = open
<1> DEFINE a == <<d, open[d]>>
<1>1. /\ open \in [Devices -> 0 .. MaxAlerts] /\ ids \in [Devices -> 0 .. MaxAlerts]
      /\ runs \subseteq AlertIds /\ Sound(db, high) /\ RunsKnow(db, high)
  BY DEF DependInv, ActorTypes
<1>2. a \in AlertIds /\ a[1] = d
  <2>1. open[d] \in 1 .. MaxAlerts
    BY <1>1, RecordsAssumption DEF Refires
  <2> QED BY <2>1 DEF AlertIds
<1>3. /\ open' = open /\ ids' = ids
      /\ Submit(before \o <<<<"refire", a>>>>) /\ runs' \subseteq runs \cup {a}
  BY DEF Refires
<1> HIDE DEF a
<1>4. /\ Sound(db, high') /\ Keeps(db, high, db, high') /\ Keeps(db, mid, db, high')
      /\ Quiet(db, high, db, high')
      /\ AlertComes(db, high', Len(high'), a)
  BY <1>1, <1>2, <1>3, OneAlert
<1>6. \A x \in runs' : AlertComes(db, high', Len(high'), x)
  BY <1>1, <1>3, <1>4 DEF RunsKnow, Keeps
<1> QED BY <1>1, <1>2, <1>3, <1>4, <1>6 DEF Outcome

\* No operation but those of the handler.
LEMMA StaysLeaves ==
  ASSUME DependInv, NEW d \in Devices, NEW before, NEW mid, Behind(before, mid), Submit(before),
         UNCHANGED <<ids, runs>>, open' \in [Devices -> 0 .. MaxAlerts]
  PROVE  Outcome(mid)
<1>1. /\ ids \in [Devices -> 0 .. MaxAlerts]
      /\ runs \subseteq AlertIds /\ Sound(db, high) /\ RunsKnow(db, high)
  BY DEF DependInv, ActorTypes
<1>2. high' = mid /\ Sound(db, mid) /\ Keeps(db, high, db, mid) /\ Quiet(db, high, db, mid)
  BY DEF Submit, Behind
<1>3. Keeps(db, mid, db, mid)
  BY DEF Keeps
<1>4. \A x \in runs' : AlertComes(db, high', Len(high'), x)
  BY <1>1, <1>2 DEF RunsKnow, Keeps
<1> QED BY <1>1, <1>2, <1>3, <1>4 DEF Outcome

\* resolve_key: set_status needs no row.
LEMMA ResolvesLeaves ==
  ASSUME DependInv, NEW d \in Devices, NEW before, NEW mid, Behind(before, mid), Resolves(d, before)
  PROVE  Outcome(mid) /\ open'[d] = 0 /\ (\A x \in Devices \ {d} : open'[x] = open[x])
<1> DEFINE a == <<d, open[d]>>
<1>1. /\ open \in [Devices -> 0 .. MaxAlerts] /\ ids \in [Devices -> 0 .. MaxAlerts]
      /\ runs \subseteq AlertIds /\ Sound(db, high) /\ RunsKnow(db, high)
  BY DEF DependInv, ActorTypes
<1>2. /\ open' = [open EXCEPT ![d] = 0] /\ UNCHANGED <<ids, runs>>
  BY DEF Resolves
<1>3. open' \in [Devices -> 0 .. MaxAlerts] /\ open'[d] = 0
      /\ (\A x \in Devices \ {d} : open'[x] = open[x])
  BY <1>1, <1>2, RecordsAssumption
<1>4. CASE open[d] = 0
  <2>1. Submit(before \o <<>>)
    BY <1>4 DEF Resolves, NoOps
  <2>2. before \o <<>> = before
    BY ConcatEmptySeq DEF Behind
  <2>3. Submit(before)
    BY <2>1, <2>2
  <2> QED BY <1>2, <1>3, <2>3, StaysLeaves
<1>5. CASE open[d] # 0
  <2>1. a \in AlertIds /\ a[1] = d
    <3>1. open[d] \in 1 .. MaxAlerts
      BY <1>1, <1>5, RecordsAssumption
    <3> QED BY <3>1 DEF AlertIds
  <2>2. Submit(before \o <<<<"resolve", a>>>>)
    BY <1>5 DEF Resolves
  <2> HIDE DEF a
  <2>3. /\ Sound(db, high') /\ Keeps(db, high, db, high') /\ Keeps(db, mid, db, high')
        /\ Quiet(db, high, db, high')
    BY <1>1, <2>1, <2>2, OneAlert
  <2>4. \A x \in runs' : AlertComes(db, high', Len(high'), x)
    BY <1>1, <1>2, <2>3 DEF RunsKnow, Keeps
  <2> QED BY <1>1, <1>2, <1>3, <2>3, <2>4 DEF Outcome
<1> QED BY <1>3, <1>4, <1>5

\* The writes before an outcome: none, or the device's row.
LEMMA NothingBefore ==
  ASSUME Sound(db, high)
  PROVE  Behind(<<>>, high)
<1>1. high \in Seq(Ops) /\ high \o <<>> = high /\ <<>> \in Seq(Ops)
  BY ConcatEmptySeq DEF Sound
<1> QED BY <1>1 DEF Behind, Keeps, Quiet

\* The device's row is asked for: its edge's comes.
LEMMA RowBefore ==
  ASSUME Sound(db, high), NEW o \in Ops, o[1] \in {"snapshot", "metadata"},
         EdgeComes(db, high, Len(high), EdgeOf[o[2]])
  PROVE  /\ Behind(<<o>>, Append(high, o))
         /\ RowComes(db, Append(high, o), Len(Append(high, o)), o[2])
<1>1. high \in Seq(Ops) /\ <<o>> \in Seq(Ops) /\ high \o <<o>> = Append(high, o)
  BY DEF Sound
<1>2. Follows(db, high, Len(high), o)
  BY DEF Follows
<1> QED BY <1>1, <1>2, Added DEF Behind

-----------------------------------------------------------------------------
(* The alert manager's handlers *)

\* The low lane sheds what it has no room for.
LEMMA LowTaken ==
  ASSUME LowTypes, NEW o \in LowOps, SubmitLow(o)
  PROVE  LowTypes'
<1>1. CASE Len(low) < LowCapacity
  <2>1. low' = Append(low, o) /\ low \in Seq(LowOps)
    BY <1>1 DEF SubmitLow, LowTypes
  <2>2. low' \in Seq(LowOps) /\ Len(low') = Len(low) + 1 /\ Len(low) \in Nat
    BY <2>1
  <2> QED BY <1>1, <2>2, RecordsAssumption DEF LowTypes
<1>2. CASE ~ (Len(low) < LowCapacity)
  BY <1>2 DEF SubmitLow, LowTypes
<1> QED BY <1>1, <1>2

\* What is left of a step of the manager, when its outcome is known.
LEMMA ManagerLeaves ==
  ASSUME DependInv, UNCHANGED <<sessionVars, db, refused>>, NEW mid, Outcome(mid),
         shown' \in [Conns -> SUBSET Devices], removed' \subseteq Devices,
         cache' \in [Devices -> Names \cup {NotCached}], LowTypes', CacheKnows(db, high)'
  PROVE  DependInv' /\ Quiet(db, high, db', high')
<1>1. /\ ActorTypes /\ SocketsKnow(db, high) /\ DependentsFollow
  BY DEF DependInv
<1>2. db' = db /\ refused' = refused /\ task' = task /\ owner' = owner /\ leaving' = leaving
      /\ token' = token /\ session' = session
  BY DEF sessionVars
<1>3. /\ Sound(db, high') /\ Keeps(db, high, db, high') /\ Quiet(db, high, db, high')
      /\ \A a \in runs' : AlertComes(db, high', Len(high'), a)
      /\ open' \in [Devices -> 0 .. MaxAlerts] /\ ids' \in [Devices -> 0 .. MaxAlerts]
      /\ runs' \subseteq AlertIds
  BY DEF Outcome
<1>4. ActorTypes'
  BY <1>1, <1>2, <1>3 DEF ActorTypes, SessionsTypeOK
<1>5. SocketsKnow(db, high)'
  BY <1>1, <1>2, <1>3 DEF SocketsKnow, Keeps, Registered
<1>6. RunsKnow(db, high)'
  BY <1>2, <1>3 DEF RunsKnow
<1>7. Sound(db, high)' /\ DependentsFollow' /\ Quiet(db, high, db', high')
  BY <1>1, <1>2, <1>3 DEF DependentsFollow
<1> QED BY <1>4, <1>5, <1>6, <1>7 DEF DependInv

\* Handler<DeviceStatusUpdate>.
LEMMA StatusHandled ==
  ASSUME DependInv, NEW c \in Conns, NEW d \in Devices, NEW name \in ReportedNames,
         OnDeviceStatus(c, d), DeviceStatusUpdate(d, name)
  PROVE  DependInv' /\ Quiet(db, high, db', high')
<1>1. /\ ActorTypes /\ LowTypes /\ Sound(db, high)
      /\ SocketsKnow(db, high) /\ CacheKnows(db, high)
  BY DEF DependInv
<1>2. /\ EdgeComes(db, high, Len(high), EdgeOf[d])
      /\ UNCHANGED <<sessionVars, db, refused>>
      /\ removed' = removed \ {d} /\ shown' = [shown EXCEPT ![c] = @ \cup {d}]
  BY <1>1 DEF OnDeviceStatus, Frame, SocketsKnow
<1> DEFINE o == <<"metadata", d, name>>
           before == IF cache[d] = name THEN <<>> ELSE <<o>>
           mid == IF cache[d] = name THEN high ELSE Append(high, o)
<1>3. Behind(before, mid) /\ RowComes(db, mid, Len(mid), d)
  <2>1. CASE cache[d] = name
    <3>1. cache[d] # NotCached
      BY <2>1, NamesAssumption DEF Names
    <3>2. RowComes(db, high, Len(high), d)
      BY <1>1, <3>1 DEF CacheKnows
    <3>3. Behind(<<>>, high)
      BY <1>1, NothingBefore
    <3> QED BY <2>1, <3>2, <3>3
  <2>2. CASE cache[d] # name
    <3>1. o \in Ops /\ o[1] = "metadata" /\ o[2] = d
      BY OpsMade DEF Names
    <3> HIDE DEF o
    <3>2. Behind(<<o>>, Append(high, o)) /\ RowComes(db, Append(high, o), Len(Append(high, o)), d)
      BY <1>1, <1>2, <3>1, RowBefore
    <3> QED BY <2>2, <3>2
  <2> QED BY <2>1, <2>2
<1>4. /\ cache' = [cache EXCEPT ![d] = name] /\ SubmitLow(<<"poll", d>>)
      /\ Opens(d, before) \/ Refires(d, before) \/ Resolves(d, before) \/ Stays(d, before)
  BY DEF DeviceStatusUpdate, NoOps
<1> HIDE DEF before, mid
<1>5. Outcome(mid) /\ (\A x \in Devices \ {d} : open'[x] = open[x])
  <2>1. CASE Opens(d, before)
    BY <1>3, <2>1, OpensLeaves
  <2>2. CASE Refires(d, before)
    BY <1>3, <2>2, RefiresLeaves
  <2>3. CASE Resolves(d, before)
    BY <1>3, <2>3, ResolvesLeaves
  <2>4. CASE Stays(d, before)
    BY <1>1, <1>3, <2>4, StaysLeaves DEF Stays, ActorTypes
  <2> QED BY <1>4, <2>1, <2>2, <2>3, <2>4
<1>6. cache' \in [Devices -> Names \cup {NotCached}] /\ cache'[d] = name /\ name # NotCached
      /\ \A x \in Devices \ {d} : cache'[x] = cache[x]
  BY <1>1, <1>4, NamesAssumption DEF ActorTypes, Names
<1>7. /\ shown' \in [Conns -> SUBSET Devices] /\ removed' \subseteq Devices
  BY <1>1, <1>2 DEF ActorTypes
<1>8. LowTypes'
  BY <1>1, <1>4, LowTaken, OpsMade
<1>9. CacheKnows(db, high)'
  <2>1. db' = db /\ Keeps(db, high, db, high') /\ Keeps(db, mid, db, high')
    BY <1>2, <1>5 DEF Outcome
  <2> SUFFICES ASSUME NEW x \in Devices
               PROVE  /\ cache'[x] # NotCached => RowComes(db, high', Len(high'), x)
                      /\ open'[x] # 0 => cache'[x] # NotCached
    BY <2>1 DEF CacheKnows
  <2>2. CASE x = d
    BY <1>3, <1>6, <2>1, <2>2 DEF Keeps
  <2>3. CASE x # d
    BY <1>1, <1>5, <1>6, <2>1, <2>3 DEF CacheKnows, Keeps
  <2> QED BY <2>2, <2>3
<1> QED BY <1>2, <1>5, <1>6, <1>7, <1>8, <1>9, ManagerLeaves

\* Handler<IngestDeviceAlert>.
LEMMA AlertHandled ==
  ASSUME DependInv, NEW c \in Conns, NEW d \in Devices, OnDeviceAlert(c, d), IngestDeviceAlert(d)
  PROVE  DependInv' /\ Quiet(db, high, db', high')
<1>1. /\ ActorTypes /\ LowTypes /\ Sound(db, high)
      /\ SocketsKnow(db, high) /\ CacheKnows(db, high)
  BY DEF DependInv
<1>2. /\ EdgeComes(db, high, Len(high), EdgeOf[d])
      /\ UNCHANGED <<sessionVars, db, refused>> /\ shown' = shown /\ removed' = removed /\ low' = low
  BY <1>1 DEF OnDeviceAlert, Frame, SocketsKnow, IngestDeviceAlert, apiVars
<1>3. /\ shown' \in [Conns -> SUBSET Devices] /\ removed' \subseteq Devices /\ LowTypes'
  BY <1>1, <1>2 DEF ActorTypes, LowTypes
<1>4. CASE /\ Opens(d, EnsureDeviceRow(d))
           /\ cache' = [cache EXCEPT ![d] = IF @ = NotCached THEN NoName ELSE @]
  <2> DEFINE o == <<"snapshot", d>>
             before == EnsureDeviceRow(d)
             mid == IF cache[d] # NotCached THEN high ELSE Append(high, o)
  <2>1. Behind(before, mid) /\ RowComes(db, mid, Len(mid), d)
    <3>1. CASE cache[d] # NotCached
      <4>1. RowComes(db, high, Len(high), d)
        BY <1>1, <3>1 DEF CacheKnows
      <4>2. Behind(<<>>, high)
        BY <1>1, NothingBefore
      <4>3. before = <<>>
        BY <3>1 DEF EnsureDeviceRow, NoOps
      <4> QED BY <3>1, <4>1, <4>2, <4>3
    <3>2. CASE cache[d] = NotCached
      <4>1. o \in Ops /\ o[1] = "snapshot" /\ o[2] = d
        BY OpsMade
      <4>2. before = <<o>>
        BY <3>2 DEF EnsureDeviceRow
      <4> HIDE DEF o
      <4>3. Behind(<<o>>, Append(high, o)) /\ RowComes(db, Append(high, o), Len(Append(high, o)), d)
        BY <1>1, <1>2, <4>1, RowBefore
      <4> QED BY <3>2, <4>2, <4>3
    <3> QED BY <3>1, <3>2
  <2>2. Opens(d, before)
    BY <1>4
  <2> HIDE DEF before, mid
  <2>3. Outcome(mid) /\ (\A x \in Devices \ {d} : open'[x] = open[x])
    BY <2>1, <2>2, OpensLeaves
  <2>4. cache' \in [Devices -> Names \cup {NotCached}] /\ cache'[d] # NotCached
        /\ \A x \in Devices \ {d} : cache'[x] = cache[x]
    BY <1>1, <1>4, NamesAssumption DEF ActorTypes, Names
  <2>5. CacheKnows(db, high)'
    <3>1. db' = db /\ Keeps(db, high, db, high') /\ Keeps(db, mid, db, high')
      BY <1>2, <2>3 DEF Outcome
    <3> SUFFICES ASSUME NEW x \in Devices
                 PROVE  /\ cache'[x] # NotCached => RowComes(db, high', Len(high'), x)
                        /\ open'[x] # 0 => cache'[x] # NotCached
      BY <3>1 DEF CacheKnows
    <3>2. CASE x = d
      BY <2>1, <2>4, <3>1, <3>2 DEF Keeps
    <3>3. CASE x # d
      BY <1>1, <2>3, <2>4, <3>1, <3>3 DEF CacheKnows, Keeps
    <3> QED BY <3>2, <3>3
  <2> QED BY <1>2, <1>3, <2>3, <2>4, <2>5, ManagerLeaves
<1>5. CASE (Refires(d, NoOps) \/ Stays(d, NoOps)) /\ UNCHANGED cache
  <2>1. Behind(<<>>, high)
    BY <1>1, NothingBefore
  <2>2. Outcome(high) /\ open' = open
    <3>1. CASE Refires(d, NoOps)
      <4>1. RowComes(db, high, Len(high), d)
        BY <1>1, <3>1 DEF Refires, CacheKnows
      <4> QED BY <2>1, <3>1, <4>1, RefiresLeaves DEF NoOps
    <3>2. CASE Stays(d, NoOps)
      BY <1>1, <2>1, <3>2, StaysLeaves DEF Stays, ActorTypes, NoOps
    <3> QED BY <1>5, <3>1, <3>2
  <2>3. CacheKnows(db, high)'
    BY <1>1, <1>2, <1>5, <2>2 DEF CacheKnows, Outcome, Keeps
  <2> QED BY <1>1, <1>2, <1>3, <1>5, <2>2, <2>3, ManagerLeaves DEF ActorTypes
<1> QED BY <1>4, <1>5 DEF IngestDeviceAlert

\* Handler<DeviceRemoved>.
LEMMA RemovalHandled ==
  ASSUME DependInv, NEW c \in Conns, NEW d \in Devices, OnDeviceRemoved(c, d), DeviceRemoved(d)
  PROVE  DependInv' /\ Quiet(db, high, db', high')
<1>1. ActorTypes /\ LowTypes /\ Sound(db, high) /\ CacheKnows(db, high)
  BY DEF DependInv
<1>2. /\ UNCHANGED <<sessionVars, db, refused>> /\ low' = low
      /\ removed' = removed \cup {d} /\ shown' = [shown EXCEPT ![c] = @ \ {d}]
      /\ cache' = [cache EXCEPT ![d] = NotCached] /\ Resolves(d, <<>>)
  BY DEF OnDeviceRemoved, Frame, DeviceRemoved, NoOps
<1>3. Outcome(high) /\ open'[d] = 0 /\ (\A x \in Devices \ {d} : open'[x] = open[x])
  <2>1. Behind(<<>>, high)
    BY <1>1, NothingBefore
  <2> DEFINE none == <<>>
  <2>2. Behind(none, high) /\ Resolves(d, none)
    BY <1>2, <2>1
  <2> HIDE DEF none
  <2> QED BY <2>2, ResolvesLeaves
<1>4. /\ shown' \in [Conns -> SUBSET Devices] /\ removed' \subseteq Devices
      /\ cache' \in [Devices -> Names \cup {NotCached}] /\ LowTypes'
  BY <1>1, <1>2 DEF ActorTypes, LowTypes
<1>5. CacheKnows(db, high)'
  BY <1>1, <1>2, <1>3 DEF CacheKnows, Outcome, Keeps, ActorTypes
<1> QED BY <1>2, <1>3, <1>4, <1>5, ManagerLeaves

\* The periodic evaluation.
LEMMA Evaluated ==
  ASSUME DependInv, NEW d \in Devices, Evaluate(d)
  PROVE  DependInv' /\ Quiet(db, high, db', high')
<1>1. ActorTypes /\ LowTypes /\ Sound(db, high) /\ CacheKnows(db, high)
  BY DEF DependInv
<1>2. /\ UNCHANGED <<sessionVars, db, refused>> /\ cache' = cache /\ low' = low
      /\ shown' = shown /\ removed' = removed /\ cache[d] # NotCached
  BY DEF Evaluate, apiVars
<1> DEFINE none == <<>>
<1>3. Opens(d, none) \/ Refires(d, none) \/ Resolves(d, none)
  BY <1>2 DEF Evaluate, NoOps, EnsureDeviceRow
<1>4. Behind(none, high) /\ RowComes(db, high, Len(high), d)
  BY <1>1, <1>2, NothingBefore DEF CacheKnows
<1> HIDE DEF none
<1>5. Outcome(high) /\ (\A x \in Devices \ {d} : open'[x] = open[x])
  BY <1>3, <1>4, OpensLeaves, RefiresLeaves, ResolvesLeaves
<1>6. /\ shown' \in [Conns -> SUBSET Devices] /\ removed' \subseteq Devices
      /\ cache' \in [Devices -> Names \cup {NotCached}] /\ LowTypes'
  BY <1>1, <1>2 DEF ActorTypes, LowTypes
<1>7. CacheKnows(db, high)'
  BY <1>1, <1>2, <1>5 DEF CacheKnows, Outcome, Keeps
<1> QED BY <1>2, <1>5, <1>6, <1>7, ManagerLeaves

\* The sweep forgets a device without an alert.
LEMMA Forgotten ==
  ASSUME DependInv, NEW d \in Devices, ForgetStale(d)
  PROVE  DependInv' /\ Quiet(db, high, db', high')
<1>1. ActorTypes /\ LowTypes /\ Sound(db, high) /\ CacheKnows(db, high) /\ SocketsKnow(db, high)
      /\ RunsKnow(db, high) /\ DependentsFollow
  BY DEF DependInv
<1>2. /\ UNCHANGED <<sessionVars, db, refused, high, low, shown, removed, open, ids, runs>>
      /\ cache' = [cache EXCEPT ![d] = NotCached] /\ open[d] = 0
  BY DEF ForgetStale, writerVars, apiVars
<1>3. ActorTypes' /\ LowTypes'
  BY <1>1, <1>2 DEF ActorTypes, SessionsTypeOK, LowTypes, sessionVars
<1>4. CacheKnows(db, high)'
  BY <1>1, <1>2 DEF CacheKnows, ActorTypes
<1>5. SocketsKnow(db, high)' /\ RunsKnow(db, high)'
  BY <1>1, <1>2 DEF SocketsKnow, RunsKnow, Registered, sessionVars
<1>6. Sound(db, high)' /\ DependentsFollow' /\ Quiet(db, high, db', high')
  BY <1>1, <1>2 DEF DependentsFollow, Quiet
<1> QED BY <1>3, <1>4, <1>5, <1>6 DEF DependInv

-----------------------------------------------------------------------------
(* The writer *)

\* A priority operation runs.
LEMMA HighRan ==
  ASSUME DependInv, RunHigh
  PROVE  DependInv' /\ Quiet(db, high, db', high')
<1>1. ActorTypes /\ LowTypes /\ Sound(db, high) /\ CacheKnows(db, high) /\ SocketsKnow(db, high)
      /\ RunsKnow(db, high) /\ DependentsFollow
  BY DEF DependInv
<1>2. /\ UNCHANGED <<sessionVars, low, shown, removed, cache, open, ids, runs>>
      /\ high # <<>> /\ db' = Apply(db, Head(high)) /\ high' = Tail(high)
      /\ refused' = IF Refuses(db, Head(high)) THEN refused \cup {Head(high)} ELSE refused
  BY DEF RunHigh, apiVars, managerVars
<1>3. /\ ~ Refuses(db, Head(high)) /\ Sound(db', high') /\ Keeps(db, high, db', high')
      /\ Quiet(db, high, db', high')
  BY <1>1, <1>2, HeadRan
<1>4. ActorTypes' /\ LowTypes'
  BY <1>1, <1>2 DEF ActorTypes, SessionsTypeOK, LowTypes, sessionVars
<1>5. CacheKnows(db, high)'
  BY <1>1, <1>2, <1>3 DEF CacheKnows, Keeps
<1>6. SocketsKnow(db, high)'
  BY <1>1, <1>2, <1>3 DEF SocketsKnow, Registered, sessionVars, Keeps
<1>7. RunsKnow(db, high)'
  BY <1>1, <1>2, <1>3 DEF RunsKnow, ActorTypes, Keeps
<1>8. Sound(db, high)' /\ DependentsFollow'
  BY <1>1, <1>2, <1>3 DEF DependentsFollow
<1> QED BY <1>3, <1>4, <1>5, <1>6, <1>7, <1>8 DEF DependInv

\* A low operation runs or fails; the alerts a cleanup prunes are not in use.
LEMMA LowRan ==
  ASSUME DependInv, RunLow
  PROVE  DependInv' /\ Quiet(db, high, db', high')
<1>1. ActorTypes /\ LowTypes /\ Sound(db, high) /\ CacheKnows(db, high) /\ SocketsKnow(db, high)
      /\ RunsKnow(db, high) /\ DependentsFollow
  BY DEF DependInv
<1>2. /\ UNCHANGED <<sessionVars, high, refused, shown, removed, cache, open, ids, runs>>
      /\ low # <<>> /\ low' = Tail(low)
  BY DEF RunLow, apiVars, managerVars
<1>3. db \in Tables /\ TablesRefer(db) /\ high \in Seq(Ops)
  BY <1>1 DEF Sound
<1>4. PICK U : /\ db' \in Tables /\ TablesRefer(db') /\ db'.edges = db.edges
               /\ \A d \in Devices : HasRow(db, d) => HasRow(db', d)
               /\ \A a \in U : db.alerts[a] # "none" => db'.alerts[a] # "none"
               /\ \A i \in 1 .. Len(high) : high[i][1] = "history" => high[i][2] \in U
               /\ runs \subseteq U
  <2>1. /\ Head(low) \in LowOps
    BY <1>1, <1>2, HeadTailProperties DEF LowTypes
  <2>2. \A i \in 1 .. Len(high) : high[i] \in Ops /\ (high[i][1] = "history" => high[i][2] \in AlertIds)
    BY <1>3, OpKinds
  <2>3. runs \subseteq AlertIds
    BY <1>1 DEF ActorTypes
  <2>4. CASE Head(low)[1] = "cleanup" /\ \E S \in SUBSET Prunable : db' = Pruned(db, S)
    <3>1. PICK S \in SUBSET Prunable : db' = Pruned(db, S)
      BY <2>4
    <3>2. S \in SUBSET AlertIds
      BY DEF Prunable
    <3>3. /\ db' \in Tables /\ TablesRefer(db') /\ db'.edges = db.edges /\ db'.names = db.names
          /\ \A a \in AlertIds \ S : db'.alerts[a] = db.alerts[a]
      BY <1>3, <3>1, <3>2, PrunedTables
    <3>4. ASSUME NEW i \in 1 .. Len(high), high[i][1] = "history"
          PROVE  high[i][2] \in AlertIds \ S
      <4>1. high[i] = <<"history", high[i][2]>>
        BY <2>2, <3>4 DEF Ops, EdgeOps, RowOps, AlertOps
      <4>2. i \in DOMAIN high
        BY <1>3
      <4>3. Queued(<<"history", high[i][2]>>)
        BY <4>1, <4>2 DEF Queued
      <4> QED BY <2>2, <3>4, <4>3 DEF Prunable, InUse
    <3>5. runs \subseteq AlertIds \ S
      BY <2>3 DEF Prunable, InUse
    <3> QED BY <3>3, <3>4, <3>5 DEF HasRow
  <2>5. CASE Head(low)[1] # "cleanup" /\ db' = Apply(db, Head(low))
    <3>1. PICK d \in Devices : Head(low) = <<"poll", d>>
      BY <2>1, <2>5 DEF LowOps
    <3>2. /\ db' \in Tables /\ TablesRefer(db') /\ db'.edges = db.edges
          /\ db'.names = db.names /\ db'.alerts = db.alerts
      BY <1>3, <2>5, <3>1, Polled
    <3> QED BY <2>2, <2>3, <3>2 DEF HasRow
  <2>6. CASE db' = db
    BY <1>3, <2>2, <2>3, <2>6
  <2> QED BY <2>4, <2>5, <2>6 DEF RunLow
<1>5. /\ Sound(db', high) /\ Quiet(db, high, db', high)
      /\ \A e \in Edges : EdgeComes(db, high, Len(high), e) => EdgeComes(db', high, Len(high), e)
      /\ \A d \in Devices : RowComes(db, high, Len(high), d) => RowComes(db', high, Len(high), d)
      /\ \A a \in U : AlertComes(db, high, Len(high), a) => AlertComes(db', high, Len(high), a)
  BY <1>1, <1>4, Underneath
<1>6. ActorTypes' /\ LowTypes'
  <2>1. Tail(low) \in Seq(LowOps) /\ Len(Tail(low)) = Len(low) - 1 /\ Len(low) \in Nat
    BY <1>1, <1>2, HeadTailProperties DEF LowTypes
  <2>2. LowTypes'
    BY <1>1, <1>2, <2>1, RecordsAssumption DEF LowTypes
  <2> QED BY <1>1, <1>2, <2>2 DEF ActorTypes, SessionsTypeOK, sessionVars
<1>7. CacheKnows(db, high)'
  BY <1>1, <1>2, <1>5 DEF CacheKnows
<1>8. SocketsKnow(db, high)'
  BY <1>1, <1>2, <1>5 DEF SocketsKnow, Registered, sessionVars
<1>9. RunsKnow(db, high)'
  BY <1>1, <1>2, <1>4, <1>5 DEF RunsKnow
<1>10. Sound(db, high)' /\ DependentsFollow' /\ Quiet(db, high, db', high')
  BY <1>1, <1>2, <1>5 DEF DependentsFollow
<1> QED BY <1>6, <1>7, <1>8, <1>9, <1>10 DEF DependInv

\* A cleanup is submitted.
LEMMA CleanedUp ==
  ASSUME DependInv, RunCleanup
  PROVE  DependInv' /\ Quiet(db, high, db', high')
<1>1. ActorTypes /\ LowTypes /\ Sound(db, high) /\ CacheKnows(db, high) /\ SocketsKnow(db, high)
      /\ RunsKnow(db, high) /\ DependentsFollow
  BY DEF DependInv
<1>2. /\ UNCHANGED <<sessionVars, db, high, refused, shown, removed, cache, open, ids, runs>>
      /\ SubmitLow(<<"cleanup">>)
  BY DEF RunCleanup, apiVars, managerVars
<1>3. ActorTypes' /\ LowTypes'
  BY <1>1, <1>2, LowTaken, OpsMade DEF ActorTypes, SessionsTypeOK, sessionVars
<1>4. CacheKnows(db, high)' /\ SocketsKnow(db, high)' /\ RunsKnow(db, high)'
  BY <1>1, <1>2 DEF CacheKnows, SocketsKnow, RunsKnow, Registered, sessionVars
<1>5. Sound(db, high)' /\ DependentsFollow' /\ Quiet(db, high, db', high')
  BY <1>1, <1>2 DEF DependentsFollow, Quiet
<1> QED BY <1>3, <1>4, <1>5 DEF DependInv

\* A run hands its result over; the row of its alert came before.
LEMMA RunEnded ==
  ASSUME DependInv, NEW a \in AlertIds, RunEnds(a)
  PROVE  DependInv' /\ Quiet(db, high, db', high')
<1>1. ActorTypes /\ LowTypes /\ Sound(db, high) /\ CacheKnows(db, high) /\ SocketsKnow(db, high)
      /\ RunsKnow(db, high) /\ DependentsFollow
  BY DEF DependInv
<1> DEFINE o == <<"history", a>>
<1>2. /\ UNCHANGED <<sessionVars, db, low, refused, shown, removed, cache, open, ids>>
      /\ Submit(<<o>>) /\ runs' = runs \ {a} /\ a \in runs
  BY DEF RunEnds, apiVars, managerVars
<1>3. o \in Ops /\ o[1] = "history" /\ o[2] = a
  BY OpsMade
<1> HIDE DEF o
<1>4. high' = Append(high, o)
  BY <1>1, <1>2, <1>3 DEF Submit, Sound
<1>5. Follows(db, high, Len(high), o)
  BY <1>1, <1>2, <1>3 DEF Follows, RunsKnow
<1>6. Sound(db, high') /\ Keeps(db, high, db, high') /\ Quiet(db, high, db, high')
  BY <1>1, <1>3, <1>4, <1>5, Added
<1>7. ActorTypes' /\ LowTypes'
  BY <1>1, <1>2 DEF ActorTypes, SessionsTypeOK, LowTypes, sessionVars
<1>8. CacheKnows(db, high)' /\ RunsKnow(db, high)'
  BY <1>1, <1>2, <1>6 DEF CacheKnows, RunsKnow, ActorTypes, Keeps
<1>9. SocketsKnow(db, high)'
  BY <1>1, <1>2, <1>6 DEF SocketsKnow, Registered, sessionVars, Keeps
<1>10. Sound(db, high)' /\ DependentsFollow' /\ Quiet(db, high, db', high')
  BY <1>1, <1>2, <1>6 DEF DependentsFollow
<1> QED BY <1>7, <1>8, <1>9, <1>10 DEF DependInv

-----------------------------------------------------------------------------
(* The sockets *)

\* A socket task hands one operation over, or none.
LEMMA SocketLeaves ==
  ASSUME DependInv, SessionsTypeOK', shown' \in [Conns -> SUBSET Devices],
         UNCHANGED <<removed, managerVars, runs, low, db, refused>>,
         Sound(db, high'), Keeps(db, high, db, high'),
         SocketsKnow(db, high)'
  PROVE  DependInv'
<1>1. ActorTypes /\ LowTypes /\ CacheKnows(db, high) /\ RunsKnow(db, high) /\ DependentsFollow
  BY DEF DependInv
<1>2. ActorTypes' /\ LowTypes'
  BY <1>1 DEF ActorTypes, LowTypes, managerVars
<1>3. CacheKnows(db, high)' /\ RunsKnow(db, high)'
  BY <1>1 DEF CacheKnows, RunsKnow, ActorTypes, Keeps, managerVars
<1>4. Sound(db, high)' /\ DependentsFollow'
  BY <1>1 DEF DependentsFollow
<1> QED BY <1>2, <1>3, <1>4 DEF DependInv

\* One operation about an edge, the last one about it.
LEMMA OneEdgeOp ==
  ASSUME Sound(db, high), NEW e \in Edges, NEW k \in {"edgeUp", "online", "offline"},
         k = "online" => EdgeComes(db, high, Len(high), e), Submit(<<<<k, e>>>>)
  PROVE  /\ Sound(db, high') /\ Keeps(db, high, db, high')
         /\ k = "edgeUp" => EdgeComes(db, high', Len(high'), e)
         /\ OnlineLast(db, high', e) <=> k # "offline"
         /\ \A x \in Edges \ {e} : OnlineLast(db, high', x) <=> OnlineLast(db, high, x)
<1> DEFINE o == <<k, e>>
<1>1. o \in Ops /\ o[1] = k /\ o[2] = e /\ high \in Seq(Ops)
  BY OpsMade DEF Sound
<1>2. Submit(<<o>>) /\ (\A x : About(o, x) <=> x = e)
  BY DEF About
<1> HIDE DEF o
<1>3. high' = Append(high, o)
  BY <1>1, <1>2 DEF Submit
<1>4. Follows(db, high, Len(high), o)
  BY <1>1 DEF Follows
<1>5. /\ Sound(db, high') /\ Keeps(db, high, db, high')
      /\ k = "edgeUp" => EdgeComes(db, high', Len(high'), e)
  BY <1>1, <1>3, <1>4, Added
<1>6. \A x : OnlineLast(db, high', x) <=>
               IF About(o, x) THEN k # "offline" ELSE OnlineLast(db, high, x)
  BY <1>1, <1>3, AppendedLast
<1> QED BY <1>2, <1>5, <1>6

\* on_register.
LEMMA Registers ==
  ASSUME DependInv, NEW c \in Conns, NEW e \in Edges, OnRegister(c, e)
  PROVE  DependInv'
<1>1. Sound(db, high) /\ ActorTypes /\ SocketsKnow(db, high)
  BY DEF DependInv
<1>2. /\ UNCHANGED <<removed, managerVars, runs, low, db, refused, shown, leaving>>
      /\ Register(c, e) /\ Submit(<<<<"edgeUp", e>>>>)
  BY DEF OnRegister, Register, apiVars
<1>3. /\ Sound(db, high') /\ Keeps(db, high, db, high') /\ EdgeComes(db, high', Len(high'), e)
  BY <1>1, <1>2, OneEdgeOp
<1>4. SessionsTypeOK'
  BY <1>1, <1>2 DEF Register, ActorTypes, SessionsTypeOK, TaskStates
<1>5. /\ task[c] = "unregistered" /\ task'[c] = "registered" /\ owner'[c] = e
      /\ \A x \in Conns \ {c} : task'[x] = task[x] /\ owner'[x] = owner[x]
  BY <1>1, <1>2 DEF Register, ActorTypes, SessionsTypeOK
<1>6. SocketsKnow(db, high)'
  <2> SUFFICES ASSUME NEW x \in Conns
               PROVE  /\ Registered(x)' => owner'[x] \in Edges /\ EdgeComes(db', high', Len(high'), owner'[x])
                      /\ task'[x] = "unregistered" => owner'[x] = NoEdge
                      /\ x \in leaving' => owner'[x] \in Edges
    BY DEF SocketsKnow
  <2>1. CASE x = c
    BY <1>2, <1>3, <1>5, <2>1
  <2>2. CASE x # c
    BY <1>1, <1>2, <1>3, <1>5, <2>2 DEF SocketsKnow, Registered, Keeps
  <2> QED BY <2>1, <2>2
<1> QED BY <1>1, <1>2, <1>3, <1>4, <1>6, SocketLeaves DEF ActorTypes

\* A heartbeat.
LEMMA HeartbeatHandled ==
  ASSUME DependInv, NEW c \in Conns, Heartbeat(c)
  PROVE  DependInv'
<1> DEFINE e == owner[c]
<1>1. Sound(db, high) /\ ActorTypes /\ SocketsKnow(db, high)
  BY DEF DependInv
<1>2. /\ UNCHANGED <<removed, managerVars, runs, low, db, refused, shown, sessionVars>>
      /\ Registered(c) /\ Submit(<<<<"online", e>>>>)
  BY DEF Heartbeat, apiVars
<1>3. e \in Edges /\ EdgeComes(db, high, Len(high), e)
  BY <1>1, <1>2 DEF SocketsKnow
<1> HIDE DEF e
<1>4. /\ Sound(db, high') /\ Keeps(db, high, db, high')
  BY <1>1, <1>2, <1>3, OneEdgeOp
<1>5. SessionsTypeOK'
  BY <1>1, <1>2 DEF ActorTypes, SessionsTypeOK, sessionVars
<1>6. SocketsKnow(db, high)'
  BY <1>1, <1>2, <1>4 DEF SocketsKnow, Registered, sessionVars, Keeps
<1> QED BY <1>1, <1>2, <1>4, <1>5, <1>6, SocketLeaves DEF ActorTypes

\* A connection ends, or is swept.
LEMMA Ended ==
  ASSUME DependInv, NEW c \in Conns, Ends(c)
  PROVE  DependInv' /\ Quiet(db, high, db', high')
<1>1. Sound(db, high) /\ ActorTypes /\ SocketsKnow(db, high)
  BY DEF DependInv
<1>2. /\ UNCHANGED <<removed, managerVars, runs, low, db, refused, high, owner>>
      /\ (task' = task \/ task' = [task EXCEPT ![c] = "closed"])
      /\ RemoveIfCurrent(c)
      /\ (token' = token \/ token' = token \cup {c})
      /\ (shown' = shown \/ shown' = [shown EXCEPT ![c] = {}])
  BY DEF Ends, Close, RemoveStale, writerVars
<1>3. /\ session' \in [Edges -> Conns \cup {NoConn}]
      /\ leaving' \subseteq Conns
      /\ \A x \in leaving' : x \in leaving \/ owner[x] \in Edges
  BY <1>1, <1>2 DEF RemoveIfCurrent, IsCurrent, ActorTypes, SessionsTypeOK
<1>4. /\ task' \in [Conns -> TaskStates]
      /\ \A x \in Conns : task'[x] = task[x] \/ task'[x] = "closed"
  BY <1>1, <1>2 DEF ActorTypes, SessionsTypeOK, TaskStates
<1>5. SessionsTypeOK' /\ shown' \in [Conns -> SUBSET Devices]
  <2>1. token' \subseteq Conns
    BY <1>1, <1>2 DEF ActorTypes, SessionsTypeOK
  <2>2. shown' \in [Conns -> SUBSET Devices]
    BY <1>1, <1>2 DEF ActorTypes
  <2> QED BY <1>1, <1>2, <1>3, <1>4, <2>1, <2>2 DEF ActorTypes, SessionsTypeOK
<1>6. SocketsKnow(db, high)'
  BY <1>1, <1>2, <1>3, <1>4 DEF SocketsKnow, Registered
<1>7. Keeps(db, high, db, high') /\ Quiet(db, high, db', high') /\ Sound(db, high')
  BY <1>1, <1>2 DEF Keeps, Quiet
<1> QED BY <1>2, <1>5, <1>6, <1>7, SocketLeaves

\* mark_edge_offline.
LEMMA EndReported ==
  ASSUME DependInv, NEW c \in Conns, ReportEnd(c)
  PROVE  DependInv'
<1> DEFINE e == owner[c]
<1>1. Sound(db, high) /\ ActorTypes /\ SocketsKnow(db, high)
  BY DEF DependInv
<1>2. /\ UNCHANGED <<removed, managerVars, runs, low, db, refused, shown, task, owner, token, session>>
      /\ c \in leaving /\ leaving' = leaving \ {c} /\ Submit(<<<<"offline", e>>>>)
  BY DEF ReportEnd, MarkOffline, apiVars
<1>3. e \in Edges
  BY <1>1, <1>2 DEF SocketsKnow
<1> HIDE DEF e
<1>4. /\ Sound(db, high') /\ Keeps(db, high, db, high')
  BY <1>1, <1>2, <1>3, OneEdgeOp
<1>5. SessionsTypeOK'
  BY <1>1, <1>2 DEF ActorTypes, SessionsTypeOK
<1>6. SocketsKnow(db, high)'
  BY <1>1, <1>2, <1>4 DEF SocketsKnow, Registered, Keeps
<1> QED BY <1>1, <1>2, <1>4, <1>5, <1>6, SocketLeaves DEF ActorTypes

-----------------------------------------------------------------------------
(* Start and restart *)

\* A set of alert numbers has a greatest one.
LEMMA GreatestOpen ==
  ASSUME NEW S \in SUBSET (1 .. MaxAlerts), S # {}
  PROVE  \E m \in S : \A n \in S : n <= m
<1> DEFINE Above == {(n + 1) .. MaxAlerts : n \in S}
           R == StrictSubsetOrdering(Nat)
<1>1. IsWellFoundedOn(R, FiniteSubsetsOf(Nat))
  BY FS_StrictSubsetOrderingWellFounded
<1>2. MaxAlerts \in Nat
  BY RecordsAssumption
<1>3. Above \subseteq FiniteSubsetsOf(Nat) /\ Above # {}
  <2>1. ASSUME NEW n \in S PROVE (n + 1) .. MaxAlerts \in FiniteSubsetsOf(Nat)
    <3>1. n + 1 \in Int /\ MaxAlerts \in Int /\ (n + 1) .. MaxAlerts \subseteq Nat
      BY <1>2
    <3>2. IsFiniteSet((n + 1) .. MaxAlerts)
      BY <3>1, FS_Interval
    <3> QED BY <3>1, <3>2 DEF FiniteSubsetsOf
  <2> QED BY <2>1
<1> HIDE DEF Above, R
<1>4. PICK x \in Above : \A y \in Above : ~ (<<y, x>> \in R)
  BY <1>1, <1>3, WFMin
<1>5. PICK m \in S : x = (m + 1) .. MaxAlerts
  BY DEF Above
<1>6. ASSUME NEW n \in S, ~ (n <= m) PROVE FALSE
  <2>1. (n + 1) .. MaxAlerts \in Above
    BY DEF Above
  <2>2. /\ (n + 1) .. MaxAlerts \subseteq Nat /\ x \subseteq Nat
        /\ (n + 1) .. MaxAlerts \subseteq x
        /\ n \in x /\ n \notin (n + 1) .. MaxAlerts
    BY <1>2, <1>5, <1>6
  <2>3. <<(n + 1) .. MaxAlerts, x>> \in R
    BY <2>2 DEF R, StrictSubsetOrdering
  <2> QED BY <1>4, <2>1, <2>3
<1> QED BY <1>6

\* restore_state keeps an open row, if there is one.
LEMMA NewestIs ==
  ASSUME NEW d \in Devices
  PROVE  Newest(d) = 0 \/ (Newest(d) \in 1 .. MaxAlerts /\ db.alerts[<<d, Newest(d)>>] = "firing")
<1>1. CASE OpenRows(d) = {}
  BY <1>1 DEF Newest
<1>2. CASE OpenRows(d) # {}
  <2>1. OpenRows(d) \in SUBSET (1 .. MaxAlerts)
    BY DEF OpenRows
  <2>2. \E m \in OpenRows(d) : \A n \in OpenRows(d) : n <= m
    BY <1>2, <2>1, GreatestOpen
  <2>3. Newest(d) \in OpenRows(d)
    BY <1>2, <2>2 DEF Newest
  <2> QED BY <2>3 DEF OpenRows
<1> QED BY <1>1, <1>2

\* A restart: what is read from the tables has its rows.
LEMMA Restarted ==
  ASSUME DependInv, Restart
  PROVE  DependInv'
<1>1. ActorTypes /\ Sound(db, high) /\ DependentsFollow
  BY DEF DependInv
<1>2. db \in Tables /\ TablesRefer(db)
  BY <1>1 DEF Sound
<1>3. ActorTypes'
  <2>1. SessionsTypeOK'
    BY DEF Restart, SessionsTypeOK, TaskStates
  <2>2. /\ shown' \in [Conns -> SUBSET Devices] /\ removed' \subseteq Devices /\ runs' \subseteq AlertIds
        /\ ids' \in [Devices -> 0 .. MaxAlerts]
    BY <1>1 DEF Restart, ActorTypes
  <2>3. cache' \in [Devices -> Names \cup {NotCached}]
    BY DEF Restart, Names
  <2>4. open' \in [Devices -> 0 .. MaxAlerts]
    <3>1. ASSUME NEW d \in Devices PROVE Newest(d) \in 0 .. MaxAlerts
      <4>1. Newest(d) = 0 \/ Newest(d) \in 1 .. MaxAlerts
        BY NewestIs
      <4> HIDE DEF Newest
      <4> QED BY <4>1, RecordsAssumption
    <3> QED BY <3>1 DEF Restart
  <2> QED BY <2>1, <2>2, <2>3, <2>4 DEF ActorTypes
<1>4. LowTypes'
  <2>1. low' = <<>>
    BY DEF Restart
  <2>2. <<>> \in Seq(LowOps) /\ Len(<<>>) = 0
    OBVIOUS
  <2> QED BY <2>1, <2>2, RecordsAssumption DEF LowTypes
<1>5. high' = <<>> /\ db' = db /\ refused' = refused
  BY DEF Restart
<1>6. Sound(db, high)'
  <2>1. <<>> \in Seq(Ops) /\ Len(<<>>) = 0
    OBVIOUS
  <2>2. QueueFollows(db, <<>>)
    BY <2>1 DEF QueueFollows
  <2> QED BY <1>2, <1>5, <2>1, <2>2 DEF Sound
<1>7. SocketsKnow(db, high)' /\ RunsKnow(db, high)'
  BY DEF Restart, SocketsKnow, RunsKnow, Registered
<1>8. CacheKnows(db, high)'
  <2>1. ASSUME NEW d \in Devices, d \in db.polls \/ Newest(d) # 0
        PROVE  HasRow(db, d)
    <3>1. CASE d \in db.polls
      BY <1>2, <3>1 DEF TablesRefer
    <3>2. CASE Newest(d) # 0
      <4>1. <<d, Newest(d)>> \in AlertIds /\ <<d, Newest(d)>>[1] = d
            /\ db.alerts[<<d, Newest(d)>>] # "none"
        BY <3>2, NewestIs DEF AlertIds
      <4> QED BY <1>2, <4>1 DEF TablesRefer
    <3> QED BY <2>1, <3>1, <3>2
  <2>2. NoName # NotCached
    BY NamesAssumption DEF Names
  <2>3. \A d \in Devices : /\ cache'[d] = IF d \in db.polls \/ Newest(d) # 0 THEN NoName ELSE NotCached
                           /\ open'[d] = Newest(d)
    BY DEF Restart
  <2> QED BY <1>5, <2>1, <2>2, <2>3 DEF CacheKnows, RowComes
<1>9. DependentsFollow'
  BY <1>1, <1>5 DEF DependentsFollow
<1> QED BY <1>3, <1>4, <1>6, <1>7, <1>8, <1>9 DEF DependInv

\* The tables an earlier hub left.
LEMMA Started == Init => DependInv
<1> SUFFICES ASSUME Init PROVE DependInv
  OBVIOUS
<1>1. ActorTypes
  <2>1. SessionsTypeOK
    BY DEF Init, SessionsTypeOK, TaskStates
  <2>2. cache \in [Devices -> Names \cup {NotCached}]
    BY DEF Init
  <2>3. open \in [Devices -> 0 .. MaxAlerts] /\ ids \in [Devices -> 0 .. MaxAlerts]
    BY RecordsAssumption DEF Init
  <2>4. shown \in [Conns -> SUBSET Devices] /\ removed \subseteq Devices /\ runs \subseteq AlertIds
    BY DEF Init
  <2> QED BY <2>1, <2>2, <2>3, <2>4 DEF ActorTypes
<1>2. LowTypes
  <2>1. low = <<>>
    BY DEF Init
  <2>2. <<>> \in Seq(LowOps) /\ Len(<<>>) = 0
    OBVIOUS
  <2> QED BY <2>1, <2>2, RecordsAssumption DEF LowTypes
<1>3. PICK names \in Stored : db = FirstTables(names)
  BY DEF Init
<1>4. names = [d \in Devices |-> names[d]]
  BY RecordsAssumption
<1>5. /\ db.names = names /\ db.polls = {}
      /\ db.alerts = [a \in AlertIds |-> "none"] /\ db.actions = [a \in AlertIds |-> "none"]
      /\ db.edges = [e \in Edges |->
           IF \E d \in Devices : EdgeOf[d] = e /\ names[d] # NoRow THEN "offline" ELSE "none"]
  BY <1>3 DEF FirstTables
<1>6. db \in Tables
  <2>1. \A d \in Devices : names[d] \in RowNames
    BY DEF RowNames
  <2>2. names \in [Devices -> RowNames]
    BY <1>4, <2>1
  <2> QED BY <1>3, <2>2 DEF Tables, FirstTables
<1>7. TablesRefer(db)
  BY <1>5, RecordsAssumption, NamesAssumption DEF TablesRefer, HasRow
<1>8. high = <<>>
  BY DEF Init
<1>9. Sound(db, high)
  <2>1. <<>> \in Seq(Ops) /\ Len(<<>>) = 0
    OBVIOUS
  <2>2. QueueFollows(db, <<>>)
    BY <2>1 DEF QueueFollows
  <2> QED BY <1>6, <1>7, <1>8, <2>1, <2>2 DEF Sound
<1>10. SocketsKnow(db, high) /\ CacheKnows(db, high) /\ RunsKnow(db, high) /\ DependentsFollow
  BY DEF Init, SocketsKnow, CacheKnows, RunsKnow, Registered, DependentsFollow
<1> QED BY <1>1, <1>2, <1>9, <1>10 DEF DependInv

-----------------------------------------------------------------------------
(* Dependent rows follow *)

\* Nothing happens.
LEMMA Stutters ==
  ASSUME DependInv, UNCHANGED vars
  PROVE  DependInv' /\ Quiet(db, high, db', high')
<1>1. /\ UNCHANGED <<task, owner, token, session, leaving, shown, removed, cache, open, ids, runs>>
      /\ UNCHANGED <<high, low, db, refused>>
  BY DEF vars, sessionVars, apiVars, managerVars, writerVars
<1>2. ActorTypes' /\ LowTypes' /\ Sound(db, high)' /\ DependentsFollow'
  BY <1>1 DEF DependInv, ActorTypes, SessionsTypeOK, LowTypes, DependentsFollow
<1>3. SocketsKnow(db, high)' /\ CacheKnows(db, high)' /\ RunsKnow(db, high)'
  BY <1>1 DEF DependInv, SocketsKnow, CacheKnows, RunsKnow, Registered
<1>4. Quiet(db, high, db', high')
  BY <1>1 DEF Quiet
<1> QED BY <1>2, <1>3, <1>4 DEF DependInv

\* Nothing but a registration, a heartbeat, the report of an end or a restart
\* changes what the rows of edges will say.
LEMMA EdgeQuiet ==
  ASSUME DependInv, [Next]_vars
  PROVE  \/ DependInv' /\ Quiet(db, high, db', high')
         \/ \E c \in Conns : ReportEnd(c) \/ Heartbeat(c) \/ \E e \in Edges : OnRegister(c, e)
         \/ Restart
<1>1. Reporting \subseteq Devices
  BY RecordsAssumption
<1>2. CASE Sockets
  <2>1. PICK c \in Conns :
          \/ Ends(c) \/ ReportEnd(c) \/ Heartbeat(c)
          \/ \E e \in Edges : OnRegister(c, e)
          \/ \E d \in Reporting :
               \/ OnDeviceRemoved(c, d) /\ DeviceRemoved(d)
               \/ OnDeviceAlert(c, d) /\ IngestDeviceAlert(d)
               \/ OnDeviceStatus(c, d) /\ \E name \in ReportedNames : DeviceStatusUpdate(d, name)
    BY <1>2 DEF Sockets
  <2> QED BY <1>1, <2>1, Ended, RemovalHandled, AlertHandled, StatusHandled
<1>3. CASE Manager
  BY <1>3, Forgotten, Evaluated, CleanedUp DEF Manager
<1>4. CASE Writer
  BY <1>4, HighRan, LowRan DEF Writer
<1>5. CASE \E a \in AlertIds : RunEnds(a)
  BY <1>5, RunEnded
<1> QED BY <1>2, <1>3, <1>4, <1>5, Stutters DEF Next

\* The invariant of the writes, step by step.
LEMMA DependStep ==
  ASSUME DependInv, [Next]_vars
  PROVE  DependInv'
BY EdgeQuiet, EndReported, HeartbeatHandled, Registers, Restarted

\* And always.
LEMMA DependAlways == Spec => []DependInv
<1>1. DependInv /\ [Next]_vars => DependInv'
  BY DependStep
<1> QED BY Started, <1>1, PTL DEF Spec

\* Type correctness of the producers, both lanes and the tables.
THEOREM TypeCorrect == Spec => []TypeOK
BY DependAlways, InvTyped, PTL

\* No foreign key and no unique name ever refuses an operation of the priority
\* lane (the order db_writer.rs:5 promises; unique_name_sql, ensure_device_row).
THEOREM DependentsFollowed == Spec => []DependentsFollow
<1>1. DependInv => DependentsFollow
  BY DEF DependInv
<1> QED BY DependAlways, <1>1, PTL

-----------------------------------------------------------------------------
(* Edges and devices are shown as what they last were *)

\* The row of an edge will say "online" while a session is in the store, unless
\* the end of an older one was reported late; and not without one, unless the
\* edge was heard without session, or its end is still to be reported.
EdgesInv ==
  \A e \in Edges :
    /\ session[e] # NoConn /\ e \notin lateEnd => OnlineLast(db, high, e)
    /\ session[e] = NoConn /\ e \notin ghost /\ (\A c \in leaving : owner[c] # e)
         => ~ OnlineLast(db, high, e)

ListInv ==
  /\ \A c \in Conns : ~ Registered(c) => shown[c] = {}
  /\ \A d \in gone : /\ d \in removed /\ d \in Devices
                     /\ session[EdgeOf[d]] # NoConn => d \notin shown[session[EdgeOf[d]]]
  /\ here \cap removed = {}

ShownInv == DependInv /\ EdgesInv /\ ListInv

\* It says what the dashboard shows.
LEMMA ShownAgree == ShownInv => RecordsAgree
<1> SUFFICES ASSUME ShownInv PROVE RecordsAgree
  OBVIOUS
<1>1. DependInv /\ EdgesInv /\ ListInv /\ high \in Seq(Ops)
  BY DEF ShownInv, DependInv, Sound
<1>2. ASSUME NEW e \in Edges, EdgeWritten(e)
      PROVE  OnlineLast(db, high, e) <=> db.edges[e] = "online"
  <2>1. ASSUME NEW i \in 1 .. Len(high) PROVE ~ About(high[i], e)
    <3> SUFFICES ASSUME About(high[i], e) PROVE FALSE
      OBVIOUS
    <3>1. high[i] \in Ops /\ i \in DOMAIN high
      BY <1>1
    <3>2. high[i] = <<high[i][1], e>> /\ high[i][1] \in {"edgeUp", "online", "offline"}
      BY <3>1 DEF About, Ops, EdgeOps, RowOps, AlertOps
    <3>3. ~ Queued(<<high[i][1], e>>)
      BY <1>2, <3>2 DEF EdgeWritten
    <3> QED BY <3>1, <3>2, <3>3 DEF Queued
  <2> QED BY <2>1 DEF OnlineLast
<1>3. EdgeRowAgrees
  <2>1. leaving = {} => \A e : \A c \in leaving : owner[c] # e
    OBVIOUS
  <2> QED BY <1>1, <1>2, <2>1 DEF EdgeRowAgrees, EdgesInv
<1>4. ListAgrees
  BY <1>1 DEF ListAgrees, Listed, ListInv
<1> QED BY <1>3, <1>4 DEF RecordsAgree

\* An earlier hub left no edge online.
LEMMA ShownInit == Init => ShownInv
<1> SUFFICES ASSUME Init PROVE ShownInv
  OBVIOUS
<1>1. PICK names \in Stored : db = FirstTables(names)
  BY DEF Init
<1>2. \A e \in Edges : db.edges[e] # "online"
  BY <1>1 DEF FirstTables
<1>3. high = <<>> /\ (\A e \in Edges : session[e] = NoConn)
  BY DEF Init
<1>4. \A e \in Edges : ~ OnlineLast(db, high, e)
  BY <1>2, <1>3 DEF OnlineLast
<1>5. EdgesInv
  BY <1>3, <1>4 DEF EdgesInv
<1>6. ListInv
  BY DEF Init, ListInv
<1> QED BY <1>5, <1>6, Started DEF ShownInv

-----------------------------------------------------------------------------
(* The steps *)

\* A step that leaves the sockets alone.
LEMMA Elsewhere ==
  ASSUME ShownInv, Quiet(db, high, db', high'), UNCHANGED <<sessionVars, markVars, apiVars>>
  PROVE  EdgesInv' /\ ListInv'
<1>1. /\ UNCHANGED <<task, owner, session, leaving, lateEnd, ghost, gone, here, shown, removed>>
  BY DEF sessionVars, markVars, apiVars
<1>2. EdgesInv'
  BY <1>1 DEF ShownInv, EdgesInv, Quiet
<1>3. ListInv'
  BY <1>1 DEF ShownInv, ListInv, Registered
<1> QED BY <1>2, <1>3

\* What the three handlers of device frames do to the list.
LEMMA FrameShown ==
  ASSUME ShownInv, Quiet(db, high, db', high'), NEW c \in Conns, NEW d \in Devices,
         OnDeviceStatus(c, d) \/ OnDeviceRemoved(c, d) \/ OnDeviceAlert(c, d)
  PROVE  EdgesInv' /\ ListInv'
<1>1. /\ UNCHANGED <<task, owner, token, session, leaving, lateEnd, ghost>>
      /\ Registered(c) /\ owner[c] = EdgeOf[d]
  BY DEF OnDeviceStatus, OnDeviceRemoved, OnDeviceAlert, Frame, sessionVars
<1>2. EdgesInv'
  BY <1>1 DEF ShownInv, EdgesInv, Quiet
<1>3. ListInv /\ shown \in [Conns -> SUBSET Devices] /\ session \in [Edges -> Conns \cup {NoConn}]
  BY DEF ShownInv, DependInv, ActorTypes, SessionsTypeOK
<1>4. EdgeOf[d] \in Edges
  BY RecordsAssumption
<1>5. CASE OnDeviceStatus(c, d)
  <2>1. /\ removed' = removed \ {d} /\ shown' = [shown EXCEPT ![c] = shown[c] \cup {d}]
        /\ gone' = gone \ {d} /\ here' \subseteq here \cup {d}
    BY <1>5 DEF OnDeviceStatus, Reported
  <2>2. \A x \in Conns, y \in gone' : y \in shown'[x] => y \in shown[x]
    BY <1>3, <2>1
  <2>3. \A x \in Conns : ~ Registered(x)' => shown'[x] = {}
    BY <1>1, <1>3, <2>1 DEF ListInv, Registered
  <2>4. ASSUME NEW y \in gone'
        PROVE  /\ y \in removed' /\ y \in Devices
               /\ session'[EdgeOf[y]] # NoConn => y \notin shown'[session'[EdgeOf[y]]]
    <3>1. y \in gone /\ y # d /\ y \in Devices /\ EdgeOf[y] \in Edges /\ y \in removed
          /\ (session[EdgeOf[y]] # NoConn => y \notin shown[session[EdgeOf[y]]])
      BY <1>3, <2>1, <2>4, RecordsAssumption DEF ListInv
    <3> QED BY <1>1, <1>3, <2>1, <2>2, <3>1
  <2>5. here' \cap removed' = {}
    BY <1>3, <2>1 DEF ListInv
  <2> QED BY <1>2, <2>3, <2>4, <2>5 DEF ListInv
<1>6. CASE OnDeviceRemoved(c, d)
  <2>1. /\ removed' = removed \cup {d} /\ shown' = [shown EXCEPT ![c] = shown[c] \ {d}]
        /\ gone' \subseteq gone \cup {d} /\ (d \in gone' => IsCurrent(c))
        /\ here' = here \ {d}
    BY <1>6 DEF OnDeviceRemoved, ReportedGone
  <2>2. \A x \in Conns : shown'[x] \subseteq shown[x] /\ d \notin shown'[c]
    BY <1>3, <2>1
  <2>3. \A x \in Conns : ~ Registered(x)' => shown'[x] = {}
    BY <1>1, <1>3, <2>2 DEF ListInv, Registered
  <2>4. ASSUME NEW y \in gone'
        PROVE  /\ y \in removed' /\ y \in Devices
               /\ session'[EdgeOf[y]] # NoConn => y \notin shown'[session'[EdgeOf[y]]]
    <3>1. CASE y = d
      <4>1. session[EdgeOf[d]] = c
        BY <1>1, <2>1, <3>1 DEF IsCurrent
      <4> QED BY <1>1, <2>1, <2>2, <3>1, <4>1
    <3>2. CASE y # d
      <4>1. y \in gone /\ y \in Devices /\ EdgeOf[y] \in Edges /\ y \in removed
            /\ (session[EdgeOf[y]] # NoConn => y \notin shown[session[EdgeOf[y]]])
        BY <1>3, <2>1, <2>4, <3>2, RecordsAssumption DEF ListInv
      <4> QED BY <1>1, <1>3, <2>1, <2>2, <4>1
    <3> QED BY <3>1, <3>2
  <2>5. here' \cap removed' = {}
    BY <1>3, <2>1 DEF ListInv
  <2> QED BY <1>2, <2>3, <2>4, <2>5 DEF ListInv
<1>7. CASE OnDeviceAlert(c, d)
  BY <1>1, <1>2, <1>3, <1>7 DEF OnDeviceAlert, ListInv, apiVars, Registered
<1> QED BY <1>5, <1>6, <1>7

\* A connection ends: nothing is listed for it, and its end is to be reported.
LEMMA EndShown ==
  ASSUME ShownInv, Quiet(db, high, db', high'), NEW c \in Conns, Ends(c)
  PROVE  EdgesInv' /\ ListInv'
<1>1. /\ EdgesInv /\ ListInv /\ session \in [Edges -> Conns \cup {NoConn}]
      /\ shown \in [Conns -> SUBSET Devices] /\ task \in [Conns -> TaskStates]
  BY DEF ShownInv, DependInv, ActorTypes, SessionsTypeOK
<1>2. /\ UNCHANGED <<removed, lateEnd, ghost, gone, here, owner>> /\ RemoveIfCurrent(c)
      /\ \/ task' = task /\ shown' = shown
         \/ task' = [task EXCEPT ![c] = "closed"] /\ shown' = [shown EXCEPT ![c] = {}]
  BY DEF Ends, Close, RemoveStale, markVars
<1>3. \A x \in Conns : /\ shown'[x] \subseteq shown[x]
                       /\ ~ Registered(x)' => ~ Registered(x) \/ shown'[x] = {}
  BY <1>1, <1>2 DEF Registered
<1>4. ASSUME NEW e \in Edges
      PROVE  \/ /\ session'[e] = session[e]
                /\ (\A x \in leaving' : owner[x] # e) => (\A x \in leaving : owner[x] # e)
             \/ session'[e] = NoConn /\ c \in leaving' /\ owner[c] = e
  BY <1>1, <1>2 DEF RemoveIfCurrent, IsCurrent
<1>5. EdgesInv'
  BY <1>1, <1>2, <1>4 DEF EdgesInv, Quiet
<1>6. ASSUME NEW d \in gone
      PROVE  session'[EdgeOf[d]] # NoConn => d \notin shown'[session'[EdgeOf[d]]]
  <2>1. d \in Devices /\ EdgeOf[d] \in Edges
        /\ (session[EdgeOf[d]] # NoConn => d \notin shown[session[EdgeOf[d]]])
    BY <1>1, RecordsAssumption DEF ListInv
  <2> QED BY <1>1, <1>3, <1>4, <2>1
<1>7. ListInv'
  <2>1. \A x \in Conns : ~ Registered(x)' => shown'[x] = {}
    BY <1>1, <1>3 DEF ListInv
  <2> QED BY <1>1, <1>2, <1>6, <2>1 DEF ListInv
<1> QED BY <1>5, <1>7

\* mark_edge_offline, late or not.
LEMMA ReportShown ==
  ASSUME ShownInv, NEW c \in Conns, ReportEnd(c)
  PROVE  EdgesInv' /\ ListInv'
<1> DEFINE e == owner[c]
<1>1. EdgesInv /\ ListInv /\ SocketsKnow(db, high) /\ Sound(db, high)
  BY DEF ShownInv, DependInv
<1>2. /\ UNCHANGED <<task, owner, session, shown, removed, gone, here, db>>
      /\ c \in leaving /\ leaving' = leaving \ {c} /\ Submit(<<<<"offline", e>>>>)
      /\ lateEnd' = IF session[e] # NoConn THEN lateEnd \cup {e} ELSE lateEnd
      /\ ghost' = ghost \ {e}
  BY DEF ReportEnd, MarkOffline, apiVars
<1>3. e \in Edges
  BY <1>1, <1>2 DEF SocketsKnow
<1>4. ListInv'
  BY <1>1, <1>2 DEF ListInv, Registered
<1>5. \A x \in Edges \ {e} :
        (\A y \in leaving' : owner'[y] # x) => (\A y \in leaving : owner[y] # x)
  BY <1>2
<1> HIDE DEF e
<1>6. /\ ~ OnlineLast(db, high', e)
      /\ \A x \in Edges \ {e} : OnlineLast(db, high', x) <=> OnlineLast(db, high, x)
  BY <1>1, <1>2, <1>3, OneEdgeOp
<1>7. EdgesInv'
  <2> SUFFICES ASSUME NEW x \in Edges
               PROVE  /\ session'[x] # NoConn /\ x \notin lateEnd' => OnlineLast(db', high', x)
                      /\ session'[x] = NoConn /\ x \notin ghost' /\ (\A y \in leaving' : owner'[y] # x)
                           => ~ OnlineLast(db', high', x)
    BY DEF EdgesInv
  <2>1. CASE x = e
    BY <1>2, <1>6, <2>1
  <2>2. CASE x # e
    BY <1>1, <1>2, <1>5, <1>6, <2>2 DEF EdgesInv
  <2> QED BY <2>1, <2>2
<1> QED BY <1>4, <1>7

\* A heartbeat, with or without session.
LEMMA HeartbeatShown ==
  ASSUME ShownInv, NEW c \in Conns, Heartbeat(c)
  PROVE  EdgesInv' /\ ListInv'
<1> DEFINE e == owner[c]
<1>1. EdgesInv /\ ListInv /\ SocketsKnow(db, high) /\ Sound(db, high)
  BY DEF ShownInv, DependInv
<1>2. /\ UNCHANGED <<task, owner, session, leaving, shown, removed, gone, here, db>>
      /\ Registered(c) /\ Submit(<<<<"online", e>>>>)
      /\ lateEnd' = lateEnd \ {e}
      /\ ghost' = IF IsCurrent(c) THEN ghost ELSE ghost \cup {e}
  BY DEF Heartbeat, sessionVars, apiVars
<1>3. e \in Edges /\ EdgeComes(db, high, Len(high), e)
  BY <1>1, <1>2 DEF SocketsKnow
<1>4. ListInv'
  BY <1>1, <1>2 DEF ListInv, Registered
<1>5. session[e] = NoConn => e \in ghost'
  BY <1>2, NoneAssumption DEF IsCurrent
<1>6. \A x \in Edges \ {e} : (x \in lateEnd' <=> x \in lateEnd) /\ (x \in ghost' <=> x \in ghost)
  BY <1>2
<1> HIDE DEF e
<1>7. /\ OnlineLast(db, high', e)
      /\ \A x \in Edges \ {e} : OnlineLast(db, high', x) <=> OnlineLast(db, high, x)
  BY <1>1, <1>2, <1>3, OneEdgeOp
<1>8. EdgesInv'
  <2> SUFFICES ASSUME NEW x \in Edges
               PROVE  /\ session'[x] # NoConn /\ x \notin lateEnd' => OnlineLast(db', high', x)
                      /\ session'[x] = NoConn /\ x \notin ghost' /\ (\A y \in leaving' : owner'[y] # x)
                           => ~ OnlineLast(db', high', x)
    BY DEF EdgesInv
  <2>1. CASE x = e
    BY <1>2, <1>5, <1>7, <2>1
  <2>2. CASE x # e
    BY <1>1, <1>2, <1>6, <1>7, <2>2 DEF EdgesInv
  <2> QED BY <2>1, <2>2
<1> QED BY <1>4, <1>8

\* A registration: the new session lists no device yet.
LEMMA RegisterShown ==
  ASSUME ShownInv, NEW c \in Conns, NEW e \in Edges, OnRegister(c, e)
  PROVE  EdgesInv' /\ ListInv'
<1>1. /\ EdgesInv /\ ListInv /\ SocketsKnow(db, high) /\ Sound(db, high)
      /\ task \in [Conns -> TaskStates] /\ session \in [Edges -> Conns \cup {NoConn}]
      /\ owner \in [Conns -> Edges \cup {NoEdge}]
  BY DEF ShownInv, DependInv, ActorTypes, SessionsTypeOK
<1>2. /\ UNCHANGED <<leaving, shown, removed, gone, here, db, lateEnd>>
      /\ task[c] = "unregistered" /\ task' = [task EXCEPT ![c] = "registered"]
      /\ owner' = [owner EXCEPT ![c] = e] /\ session' = [session EXCEPT ![e] = c]
      /\ ghost' = ghost \ {e} /\ Submit(<<<<"edgeUp", e>>>>)
  BY DEF OnRegister, Register, apiVars
<1>3. /\ OnlineLast(db, high', e)
      /\ \A x \in Edges \ {e} : OnlineLast(db, high', x) <=> OnlineLast(db, high, x)
  BY <1>1, <1>2, OneEdgeOp
<1>4. shown[c] = {} /\ owner[c] = NoEdge
  BY <1>1, <1>2 DEF ListInv, SocketsKnow, Registered
<1>5. EdgesInv'
  <2> SUFFICES ASSUME NEW x \in Edges
               PROVE  /\ session'[x] # NoConn /\ x \notin lateEnd' => OnlineLast(db', high', x)
                      /\ session'[x] = NoConn /\ x \notin ghost' /\ (\A y \in leaving' : owner'[y] # x)
                           => ~ OnlineLast(db', high', x)
    BY DEF EdgesInv
  <2>1. CASE x = e
    BY <1>1, <1>2, <1>3, <2>1, NoneAssumption
  <2>2. CASE x # e
    <3>1. session'[x] = session[x] /\ (x \in ghost' <=> x \in ghost)
      BY <1>1, <1>2, <2>2
    <3>2. ASSUME \A y \in leaving' : owner'[y] # x PROVE \A y \in leaving : owner[y] # x
      <4> SUFFICES ASSUME NEW y \in leaving PROVE owner[y] # x
        OBVIOUS
      <4>1. CASE y = c
        BY <1>4, <4>1, NoneAssumption
      <4>2. CASE y # c
        BY <1>1, <1>2, <3>2, <4>2
      <4> QED BY <4>1, <4>2
    <3> QED BY <1>1, <1>2, <1>3, <2>2, <3>1, <3>2 DEF EdgesInv
  <2> QED BY <2>1, <2>2
<1>6. ListInv'
  <2>1. \A x \in Conns : ~ Registered(x)' => shown'[x] = {}
    BY <1>1, <1>2 DEF ListInv, Registered
  <2>2. ASSUME NEW d \in gone
        PROVE  session'[EdgeOf[d]] # NoConn => d \notin shown'[session'[EdgeOf[d]]]
    <3>1. d \in Devices /\ EdgeOf[d] \in Edges
          /\ (session[EdgeOf[d]] # NoConn => d \notin shown[session[EdgeOf[d]]])
      BY <1>1, RecordsAssumption DEF ListInv
    <3>2. CASE EdgeOf[d] = e
      BY <1>1, <1>2, <1>4, <3>1, <3>2
    <3>3. CASE EdgeOf[d] # e
      BY <1>1, <1>2, <3>1, <3>3
    <3> QED BY <3>2, <3>3
  <2> QED BY <1>1, <1>2, <2>1, <2>2 DEF ListInv
<1> QED BY <1>5, <1>6

\* A restart: nothing is marked, and no session is in the store.
LEMMA RestartShown ==
  ASSUME ShownInv, Restart
  PROVE  EdgesInv' /\ ListInv'
<1>1. EdgesInv'
  BY DEF Restart, EdgesInv
<1>2. ListInv'
  BY DEF Restart, ListInv
<1> QED BY <1>1, <1>2

\* The invariant of what is shown, step by step.
LEMMA ShownStep ==
  ASSUME ShownInv, [Next]_vars
  PROVE  ShownInv'
<1>1. DependInv /\ DependInv'
  BY DependStep DEF ShownInv
<1>2. Reporting \subseteq Devices
  BY RecordsAssumption
<1>3. EdgesInv' /\ ListInv'
  <2>1. CASE Sockets
    <3>1. PICK c \in Conns :
            \/ Ends(c) \/ ReportEnd(c) \/ Heartbeat(c)
            \/ \E e \in Edges : OnRegister(c, e)
            \/ \E d \in Reporting :
                 \/ OnDeviceRemoved(c, d) /\ DeviceRemoved(d)
                 \/ OnDeviceAlert(c, d) /\ IngestDeviceAlert(d)
                 \/ OnDeviceStatus(c, d) /\ \E name \in ReportedNames : DeviceStatusUpdate(d, name)
      BY <2>1 DEF Sockets
    <3>2. CASE Ends(c)
      BY <1>1, <3>2, Ended, EndShown
    <3>3. CASE ReportEnd(c) \/ Heartbeat(c) \/ \E e \in Edges : OnRegister(c, e)
      BY <3>3, ReportShown, HeartbeatShown, RegisterShown
    <3>4. ASSUME NEW d \in Devices,
                 \/ OnDeviceRemoved(c, d) /\ DeviceRemoved(d)
                 \/ OnDeviceAlert(c, d) /\ IngestDeviceAlert(d)
                 \/ OnDeviceStatus(c, d) /\ \E name \in ReportedNames : DeviceStatusUpdate(d, name)
          PROVE  EdgesInv' /\ ListInv'
      <4>1. Quiet(db, high, db', high')
        BY <1>1, <3>4, RemovalHandled, AlertHandled, StatusHandled
      <4> QED BY <3>4, <4>1, FrameShown
    <3> QED BY <1>2, <3>1, <3>2, <3>3, <3>4
  <2>2. CASE Manager \/ Writer \/ \E a \in AlertIds : RunEnds(a)
    <3>1. Quiet(db, high, db', high')
      BY <1>1, <2>2, Forgotten, Evaluated, CleanedUp, HighRan, LowRan, RunEnded DEF Manager, Writer
    <3>2. UNCHANGED <<sessionVars, markVars, apiVars>>
      BY <2>2 DEF Manager, Writer, ForgetStale, Evaluate, RunCleanup, RunHigh, RunLow, RunEnds
    <3> QED BY <3>1, <3>2, Elsewhere
  <2>3. CASE Restart
    BY <2>3, RestartShown
  <2>4. CASE UNCHANGED vars
    <3>1. Quiet(db, high, db', high') /\ UNCHANGED <<sessionVars, markVars, apiVars>>
      BY <1>1, <2>4, Stutters DEF vars
    <3> QED BY <3>1, Elsewhere
  <2> QED BY <2>1, <2>2, <2>3, <2>4 DEF Next
<1> QED BY <1>1, <1>3 DEF ShownInv

\* The dashboard shows edges and devices as what they last were (on_register,
\* mark_edge_offline, the heartbeat's write, HubState.removed_devices and
\* collect_devices).
THEOREM RecordsAgreed == Spec => []RecordsAgree
<1>1. ShownInv /\ [Next]_vars => ShownInv'
  BY ShownStep
<1> QED BY ShownInit, <1>1, ShownAgree, PTL DEF Spec

-----------------------------------------------------------------------------
(* Live connections are reached *)

\* The types of the sessions.
LEMMA SessionsTyped == DependInv => SessionsTypeOK
BY DEF DependInv, ActorTypes

\* Whoever takes a session from the store cancels or ends its socket.
LEMMA ReachedStep ==
  ASSUME SessionsTypeOK, LiveIsReached, [Next]_vars
  PROVE  LiveIsReached'
<1>1. \/ UNCHANGED sessionVars
      \/ \E c \in Conns : Close(c) \/ RemoveStale(c) \/ MarkOffline(c) \/ \E e \in Edges : Register(c, e)
      \/ task' = [c \in Conns |-> "unregistered"]
  BY DEF Next, Sockets, Manager, Writer, Ends, ReportEnd, Heartbeat, OnRegister, OnDeviceRemoved,
         OnDeviceAlert, OnDeviceStatus, Frame, ForgetStale, Evaluate, RunCleanup, RunHigh, RunLow,
         RunEnds, Restart, vars
<1>2. CASE UNCHANGED sessionVars
  BY <1>2 DEF LiveIsReached, Registered, IsCurrent, sessionVars
<1>3. ASSUME NEW c \in Conns, Close(c) \/ RemoveStale(c) PROVE LiveIsReached'
  <2>1. /\ owner' = owner /\ RemoveIfCurrent(c) /\ token \subseteq token'
        /\ \A x \in Conns \ {c} : task'[x] = task[x]
        /\ ~ Registered(c)' \/ c \in token'
    BY <1>3 DEF Close, RemoveStale, SessionsTypeOK, Registered
  <2>2. \A x \in Conns \ {c} : IsCurrent(x) => IsCurrent(x)'
    BY <2>1 DEF RemoveIfCurrent, IsCurrent, SessionsTypeOK
  <2> QED BY <2>1, <2>2 DEF LiveIsReached, Registered
<1>4. ASSUME NEW c \in Conns, MarkOffline(c) PROVE LiveIsReached'
  BY <1>4 DEF MarkOffline, LiveIsReached, Registered, IsCurrent
<1>5. ASSUME NEW c \in Conns, NEW e \in Edges, Register(c, e) PROVE LiveIsReached'
  <2>1. IsCurrent(c)'
    BY <1>5 DEF Register, IsCurrent, SessionsTypeOK
  <2>2. ASSUME NEW x \in Conns \ {c}, Registered(x)', x \notin token' PROVE IsCurrent(x)'
    <3>1. Registered(x) /\ x \notin token /\ owner'[x] = owner[x]
      BY <1>5, <2>2 DEF Register, Registered, SessionsTypeOK
    <3>2. owner[x] \in Edges /\ session[owner[x]] = x
      BY <3>1 DEF LiveIsReached, IsCurrent
    <3>3. owner[x] # e
      BY <1>5, <2>2, <3>2, NoneAssumption DEF Register
    <3> QED BY <1>5, <3>1, <3>2, <3>3 DEF Register, IsCurrent, SessionsTypeOK
  <2> QED BY <2>1, <2>2 DEF LiveIsReached
<1>6. CASE task' = [c \in Conns |-> "unregistered"]
  BY <1>6 DEF LiveIsReached, Registered
<1> QED BY <1>1, <1>2, <1>3, <1>4, <1>5, <1>6

\* A live socket is its edge's session (register, remove_if_current, remove_stale).
THEOREM LiveAreReached == Spec => []LiveIsReached
<1>1. Init => LiveIsReached
  BY DEF Init, LiveIsReached, Registered
<1>2. SessionsTypeOK /\ LiveIsReached /\ [Next]_vars => LiveIsReached'
  BY ReachedStep
<1> QED BY DependAlways, SessionsTyped, <1>1, <1>2, PTL DEF Spec
=============================================================================
