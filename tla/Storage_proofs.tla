--------------------------- MODULE Storage_proofs ---------------------------
(***************************************************************************)
(* Proofs about what the hub keeps in its database:                        *)
(*                                                                         *)
(*   - the writer (DbWriter), for every capacity of the low lane and every *)
(*     number of operations: type correctness, the order within and        *)
(*     across the lanes, what a flush covers, what the end leaves behind;  *)
(*   - the migrations (SchemaMigration), for every set of original         *)
(*     databases and of processes: history is kept, and whoever is in      *)
(*     finds a whole schema;                                               *)
(*   - the end of the hub under each of its hosts (Widget), for every      *)
(*     length of the waits, of the lane and of the reports: a stop loses   *)
(*     nothing.                                                            *)
(***************************************************************************)
EXTENDS DbWriter, SchemaMigration, Widget,
        FiniteSetTheorems, SequenceTheorems, WellFoundedInduction, TLAPS

-----------------------------------------------------------------------------
(* The writer                                                              *)

\* Operations are numbered without gaps.
Numbered ==
  \A o \in OpIds : /\ o > issued => kind[o] = "none" /\ fate[o] = "none"
                   /\ o <= issued => kind[o] # "none" /\ fate[o] # "none"

\* The priority lane holds exactly the priority writes that wait, in order.
HighLane ==
  /\ \A i \in 1 .. Len(high) : kind[high[i]] = "high" /\ fate[high[i]] = "queued"
  /\ \A i, j \in 1 .. Len(high) : i < j => high[i] < high[j]
  /\ \A o \in OpIds : kind[o] = "high" /\ fate[o] = "queued"
                        => \E i \in 1 .. Len(high) : high[i] = o
  /\ \A o \in OpIds : kind[o] = "high" => fate[o] \in {"queued", "running"} \cup Finished

\* The low lane holds the low writes that wait, in order, and barriers.
LowLane ==
  /\ \A i \in 1 .. Len(low) : kind[low[i]] \in {"low", "barrier"}
  /\ \A i \in 1 .. Len(low) : kind[low[i]] = "low" => fate[low[i]] = "queued"
  /\ \A i, j \in 1 .. Len(low) :
       i < j /\ kind[low[i]] = "low" /\ kind[low[j]] = "low" => low[i] < low[j]
  /\ \A o \in OpIds : kind[o] = "low" /\ fate[o] = "queued"
                        => \E i \in 1 .. Len(low) : low[i] = o
  /\ \A o \in OpIds : kind[o] = "low" => fate[o] \in {"queued", "running", "shed"} \cup Finished

\* The low writes submitted before a queued barrier are queued ahead of it.
AheadOfBarrier ==
  \A j \in 1 .. Len(low), a \in OpIds :
    kind[low[j]] = "barrier" /\ a < low[j] /\ kind[a] = "low" /\ fate[a] = "queued"
      => \E i \in 1 .. Len(low) : i < j /\ low[i] = a

\* A flush is a barrier; one that is queued has its place.
Flushes ==
  /\ \A b \in waiting \cup granted : kind[b] = "barrier"
  /\ \A o \in OpIds : kind[o] = "barrier" /\ fate[o] = "queued"
       => o \in waiting \cup granted \/ \E i \in 1 .. Len(low) : low[i] = o

\* The worker runs one operation at a time.
OneRuns ==
  /\ \A o \in OpIds : fate[o] = "running" => pc = "run" /\ o = current
  /\ pc = "run" => current \in OpIds /\ kind[current] # "none"
  /\ pc = "run" /\ kind[current] # "barrier" => fate[current] = "running"

\* What remains to be done once the last handle is gone.
Closing ==
  /\ ~ open => waiting = {} /\ granted = {}
  /\ pc \in {"drain", "stopped"} => ~ open /\ high = <<>>
  /\ pc = "stopped" => low = <<>>

\* A barrier that began, or that the worker holds, covers every low write
\* submitted before it.
Covered ==
  \A a, b \in OpIds :
    a < b /\ kind[a] = "low" /\ kind[b] = "barrier"
        /\ (Began(b) \/ (pc = "run" /\ current = b))
      => fate[a] \in Finished \cup {"shed"}

IInv == /\ TypeOK /\ Numbered /\ HighLane /\ LowLane /\ AheadOfBarrier /\ Flushes
        /\ OneRuns /\ Closing /\ PriorityInOrder /\ LowInOrder /\ Covered

LEMMA Tags == /\ {"none", "queued", "running", "shed", "abandoned"} \subseteq Fates
              /\ Finished \subseteq Fates
              /\ {"high", "low", "barrier"} \subseteq Kinds
              /\ "ok" \in Finished /\ "panicked" \in Finished /\ "aborted" \in Finished
  BY DEF Fates, Finished, Kinds

LEMMA TypeInit == Init => TypeOK
  BY MaxOpsAssumption, Tags DEF Init, TypeOK, Kinds

LEMMA SubmittedType ==
  ASSUME TypeOK, NEW k \in Kinds, NEW f \in Fates, Submitted(k, f)
  PROVE  /\ issued + 1 \in OpIds /\ issued' = issued + 1 /\ issued' \in 0 .. MaxOps
         /\ kind' \in [OpIds -> Kinds] /\ fate' \in [OpIds -> Fates]
<1>1. issued + 1 \in OpIds /\ issued' = issued + 1 /\ issued' \in 0 .. MaxOps
  BY MaxOpsAssumption DEF TypeOK, Submitted, OpIds
<1>2. kind' \in [OpIds -> Kinds] /\ fate' \in [OpIds -> Fates]
  BY DEF TypeOK, Submitted
<1> QED BY <1>1, <1>2

LEMMA TakeLowType ==
  ASSUME TypeOK, TakeLow
  PROVE  /\ low' \in Seq(OpIds) /\ waiting' \subseteq OpIds /\ granted' \subseteq OpIds
         /\ current' \in OpIds /\ fate' \in [OpIds -> Fates] /\ pc' = "run"
<1>1. Head(low) \in OpIds /\ low' \in Seq(OpIds)
  BY DEF TypeOK, TakeLow
<1>2. waiting' \subseteq OpIds /\ granted' \subseteq OpIds
  BY DEF TypeOK, TakeLow, ReleaseSlot
<1> QED BY <1>1, <1>2, Tags DEF TypeOK, TakeLow, Run

LEMMA EndedType ==
  ASSUME TypeOK, NEW f \in Finished, Ended(f)
  PROVE  /\ pc' = "high" /\ current' = 0 /\ fate' \in [OpIds -> Fates]
         /\ UNCHANGED <<issued, kind, high, low, waiting, granted, open, shed>>
<1>1. fate' \in [OpIds -> Fates] BY Tags DEF TypeOK, Ended
<1>2. UNCHANGED <<issued, kind, high, low, waiting, granted, open, shed>>
  BY DEF Ended, lanes
<1> QED BY <1>1, <1>2 DEF Ended

LEMMA TypeNext == TypeOK /\ [Next]_vars => TypeOK'
<1> SUFFICES ASSUME TypeOK, [Next]_vars PROVE TypeOK'
  OBVIOUS
<1> USE MaxOpsAssumption, Tags DEF lanes, stats
<1>0. OpIds \subseteq 0 .. MaxOps BY DEF OpIds
<1>1. CASE Submit
  <2>1. Submitted("high", "queued") BY <1>1 DEF Submit
  <2> QED BY <1>1, <2>1, SubmittedType DEF Submit, TypeOK
<1>2. CASE SubmitLow
  <2>1. ASSUME FreeSlots > 0, Submitted("low", "queued"), low' = Append(low, issued + 1),
               UNCHANGED <<high, waiting, granted, open, pc, current, stats, shed>>
        PROVE  TypeOK'
    BY <2>1, SubmittedType DEF TypeOK
  <2>2. ASSUME Submitted("low", "shed"), shed' = shed + 1,
               UNCHANGED <<lanes, open, pc, current, stats>>
        PROVE  TypeOK'
    BY <2>2, SubmittedType DEF TypeOK
  <2> QED BY <1>2, <2>1, <2>2 DEF SubmitLow
<1>3. CASE Flush
  <2>1. Submitted("barrier", "queued") BY <1>3 DEF Flush
  <2> QED BY <1>3, <2>1, SubmittedType DEF Flush, TypeOK
<1>4. CASE SendBarrier BY <1>4 DEF SendBarrier, TypeOK
<1>5. CASE GiveUp BY <1>5 DEF GiveUp, TypeOK
<1>6. CASE Close BY <1>6 DEF Close, TypeOK
<1>7. CASE PollHigh
  <2>1. CASE high # <<>>
    <3>1. Head(high) \in OpIds /\ Tail(high) \in Seq(OpIds) BY <2>1 DEF TypeOK
    <3> QED BY <1>0, <1>7, <2>1, <3>1 DEF PollHigh, Run, TypeOK
  <2>2. CASE high = <<>> BY <1>7, <2>2 DEF PollHigh, TypeOK
  <2> QED BY <2>1, <2>2
<1>8. CASE PollLow
  <2>1. CASE TakeLow BY <1>0, <1>8, <2>1, TakeLowType DEF PollLow, TypeOK
  <2> QED BY <1>8, <2>1 DEF PollLow, TypeOK
<1>9. CASE Drain
  <2>1. CASE TakeLow BY <1>0, <1>9, <2>1, TakeLowType DEF Drain, TypeOK
  <2> QED BY <1>9, <2>1 DEF Drain, TypeOK
<1>10. CASE Succeed BY <1>10, EndedType DEF Succeed, TypeOK
<1>11. CASE Panic BY <1>11, EndedType DEF Panic, TypeOK
<1>12. CASE Abort BY <1>12, EndedType DEF Abort, TypeOK
<1>13. CASE UNCHANGED vars BY <1>13 DEF vars, TypeOK
<1> QED
  BY <1>1, <1>2, <1>3, <1>4, <1>5, <1>6, <1>7, <1>8, <1>9, <1>10, <1>11, <1>12, <1>13
     DEF Next, Handles, Worker

-----------------------------------------------------------------------------
(* What the operators on lanes and on the tables of operations do, point by *)
(* point.                                                                   *)

LEMMA Appended ==
  ASSUME NEW S, NEW s \in Seq(S), NEW x \in S
  PROVE  /\ Len(Append(s, x)) = Len(s) + 1 /\ Len(s) \in Nat
         /\ \A i \in 1 .. Len(s) : Append(s, x)[i] = s[i]
         /\ Append(s, x)[Len(s) + 1] = x
  OBVIOUS

LEMMA Removed ==
  ASSUME NEW S, NEW s \in Seq(S), s # <<>>
  PROVE  /\ Len(s) \in Nat \ {0} /\ Head(s) = s[1] /\ s[1] \in S
         /\ Len(Tail(s)) = Len(s) - 1
         /\ \A i \in 1 .. Len(s) - 1 : Tail(s)[i] = s[i + 1]
  OBVIOUS

LEMMA Members ==
  ASSUME NEW S, NEW s \in Seq(S)
  PROVE  Len(s) \in Nat /\ \A i \in 1 .. Len(s) : s[i] \in S
  OBVIOUS

LEMMA SubmittedAt ==
  ASSUME TypeOK, Numbered, NEW k \in Kinds, NEW f \in Fates, Submitted(k, f)
  PROVE  /\ open /\ issued \in Nat /\ issued + 1 \in OpIds /\ issued' = issued + 1
         /\ kind[issued + 1] = "none" /\ fate[issued + 1] = "none"
         /\ kind'[issued + 1] = k /\ fate'[issued + 1] = f
         /\ \A o \in OpIds : o # issued + 1 => kind'[o] = kind[o] /\ fate'[o] = fate[o]
         /\ \A o \in OpIds : o > issued + 1 => kind'[o] = "none" /\ fate'[o] = "none"
         /\ \A o \in OpIds : kind[o] # "none" => o # issued + 1 /\ o < issued + 1
<1>1. issued + 1 \in OpIds /\ issued' = issued + 1 /\ issued \in Nat
  BY SubmittedType DEF TypeOK
<1>2. \A o \in OpIds : o \in Nat
  BY MaxOpsAssumption DEF OpIds
<1>3. kind[issued + 1] = "none" /\ fate[issued + 1] = "none"
  BY <1>1 DEF Numbered
<1>4. kind'[issued + 1] = k /\ fate'[issued + 1] = f
  BY <1>1 DEF Submitted, TypeOK
<1>5. \A o \in OpIds : o # issued + 1 => kind'[o] = kind[o] /\ fate'[o] = fate[o]
  BY <1>1 DEF Submitted, TypeOK
<1>6. \A o \in OpIds : o > issued + 1 => kind'[o] = "none" /\ fate'[o] = "none"
  BY <1>1, <1>2, <1>5 DEF Numbered
<1>7. \A o \in OpIds : kind[o] # "none" => o # issued + 1 /\ o < issued + 1
  BY <1>1, <1>2, <1>3 DEF Numbered
<1> QED BY <1>1, <1>3, <1>4, <1>5, <1>6, <1>7 DEF Submitted

-----------------------------------------------------------------------------
(* One lemma per action.  Each keeps the invariant, part by part. *)

LEMMA InitInv == Init => IInv
<1> SUFFICES ASSUME Init PROVE IInv
  OBVIOUS
<1>1. \A o \in OpIds : kind[o] = "none" /\ fate[o] = "none" /\ o > issued /\ ~ (o <= issued)
  BY MaxOpsAssumption DEF Init, OpIds
<1>2. Len(high) = 0 /\ Len(low) = 0 /\ waiting = {} /\ granted = {} /\ pc = "high" /\ open
  BY DEF Init
<1> QED
  BY <1>1, <1>2, TypeInit DEF IInv, Numbered, HighLane, LowLane, AheadOfBarrier, Flushes,
     OneRuns, Closing, PriorityInOrder, LowInOrder, Covered, Began, Finished

LEMMA SubmitInv == ASSUME IInv, TypeOK', Submit PROVE IInv'
<1> DEFINE new == issued + 1
<1> USE DEF IInv
<1>1. Submitted("high", "queued") /\ high' = Append(high, new)
  BY DEF Submit
<1>2. UNCHANGED <<low, waiting, granted, open, pc, current>>
  BY DEF Submit
<1>3. /\ open /\ new \in OpIds /\ issued \in Nat /\ issued' = new
      /\ kind[new] = "none" /\ fate[new] = "none" /\ kind'[new] = "high" /\ fate'[new] = "queued"
      /\ \A o \in OpIds : o # new => kind'[o] = kind[o] /\ fate'[o] = fate[o]
      /\ \A o \in OpIds : o > new => kind'[o] = "none" /\ fate'[o] = "none"
      /\ \A o \in OpIds : kind[o] # "none" => o # new /\ o < new
  BY <1>1, Tags, SubmittedAt
<1>4. /\ Len(high) \in Nat /\ Len(high') = Len(high) + 1 /\ high'[Len(high) + 1] = new
      /\ \A i \in 1 .. Len(high) : high'[i] = high[i] /\ high[i] \in OpIds
  BY <1>1, <1>3, Appended, Members DEF TypeOK
<1>5. Len(low) \in Nat /\ \A i \in 1 .. Len(low) : low[i] \in OpIds
  BY Members DEF TypeOK
<1>6. \A o \in OpIds : o \in Nat
  BY MaxOpsAssumption DEF OpIds
<1> HIDE DEF new
<1>11. Numbered' BY <1>3, <1>6 DEF Numbered, new
<1>12. HighLane'
  <2>1. \A i \in 1 .. Len(high') : kind'[high'[i]] = "high" /\ fate'[high'[i]] = "queued"
    BY <1>3, <1>4 DEF HighLane
  <2>2. \A i, j \in 1 .. Len(high') : i < j => high'[i] < high'[j]
    BY <1>3, <1>4 DEF HighLane
  <2>3. \A o \in OpIds : kind'[o] = "high" /\ fate'[o] = "queued"
                        => \E i \in 1 .. Len(high') : high'[i] = o
    BY <1>3, <1>4 DEF HighLane
  <2>4. \A o \in OpIds : kind'[o] = "high" => fate'[o] \in {"queued", "running"} \cup Finished
    BY <1>3 DEF HighLane
  <2> QED BY <2>1, <2>2, <2>3, <2>4 DEF HighLane
<1>13. LowLane' BY <1>2, <1>3, <1>5 DEF LowLane
<1>14. AheadOfBarrier' BY <1>2, <1>3, <1>5 DEF AheadOfBarrier, LowLane
<1>15. Flushes' BY <1>2, <1>3, <1>5 DEF Flushes, TypeOK
<1>16. OneRuns' BY <1>2, <1>3 DEF OneRuns
<1>17. Closing' BY <1>2, <1>3 DEF Closing
<1>18. PriorityInOrder' BY <1>3, <1>6 DEF PriorityInOrder, Began, Finished
<1>19. LowInOrder' BY <1>3, <1>6 DEF LowInOrder, Began, Finished
<1>20. Covered'
  <2> SUFFICES ASSUME NEW a \in OpIds, NEW b \in OpIds, a < b, kind'[a] = "low",
                      kind'[b] = "barrier", Began(b)' \/ (pc' = "run" /\ current' = b)
               PROVE  fate'[a] \in Finished \cup {"shed"}
    BY DEF Covered
  <2>1. a # new /\ b # new
    BY <1>3, <1>6
  <2> QED BY <1>2, <1>3, <2>1 DEF Covered, Began
<1> QED BY <1>11, <1>12, <1>13, <1>14, <1>15, <1>16, <1>17, <1>18, <1>19, <1>20

LEMMA SubmitLowInv == ASSUME IInv, TypeOK', SubmitLow, ~ Submitted("low", "shed") PROVE IInv'
<1> DEFINE new == issued + 1
<1> USE DEF IInv
<1>1. Submitted("low", "queued") /\ low' = Append(low, new)
  BY DEF SubmitLow
<1>2. UNCHANGED <<high, waiting, granted, open, pc, current>>
  BY DEF SubmitLow
<1>3. /\ open /\ new \in OpIds /\ issued \in Nat /\ issued' = new
      /\ kind[new] = "none" /\ fate[new] = "none" /\ kind'[new] = "low" /\ fate'[new] = "queued"
      /\ \A o \in OpIds : o # new => kind'[o] = kind[o] /\ fate'[o] = fate[o]
      /\ \A o \in OpIds : o > new => kind'[o] = "none" /\ fate'[o] = "none"
      /\ \A o \in OpIds : kind[o] # "none" => o # new /\ o < new
  BY <1>1, Tags, SubmittedAt
<1>4. Len(high) \in Nat /\ \A i \in 1 .. Len(high) : high[i] \in OpIds
  BY Members DEF TypeOK
<1>5. /\ Len(low) \in Nat /\ Len(low') = Len(low) + 1 /\ low'[Len(low) + 1] = new
      /\ \A i \in 1 .. Len(low) : low'[i] = low[i] /\ low[i] \in OpIds
  BY <1>1, <1>3, Appended, Members DEF TypeOK
<1>6. \A o \in OpIds : o \in Nat
  BY MaxOpsAssumption DEF OpIds
<1> HIDE DEF new
<1>11. Numbered' BY <1>3, <1>6 DEF Numbered, new
<1>12. HighLane' BY <1>2, <1>3, <1>4 DEF HighLane
<1>13. LowLane'
  <2>1. \A i \in 1 .. Len(low) : kind[low[i]] # "none" /\ low[i] # new /\ low[i] < new
    BY <1>3, <1>5 DEF LowLane
  <2>2. \A i \in 1 .. Len(low') : kind'[low'[i]] \in {"low", "barrier"}
    BY <1>3, <1>5, <2>1 DEF LowLane
  <2>3. \A i \in 1 .. Len(low') : kind'[low'[i]] = "low" => fate'[low'[i]] = "queued"
    BY <1>3, <1>5, <2>1 DEF LowLane
  <2>4. \A i, j \in 1 .. Len(low') :
          i < j /\ kind'[low'[i]] = "low" /\ kind'[low'[j]] = "low" => low'[i] < low'[j]
    BY <1>3, <1>5, <2>1 DEF LowLane
  <2>5. \A o \in OpIds : kind'[o] = "low" /\ fate'[o] = "queued"
                        => \E i \in 1 .. Len(low') : low'[i] = o
    BY <1>3, <1>5 DEF LowLane
  <2>6. \A o \in OpIds : kind'[o] = "low" => fate'[o] \in {"queued", "running", "shed"} \cup Finished
    BY <1>3 DEF LowLane
  <2> QED BY <2>2, <2>3, <2>4, <2>5, <2>6 DEF LowLane
<1>14. AheadOfBarrier'
  <2>1. \A i \in 1 .. Len(low) : kind[low[i]] # "none" /\ low[i] # new /\ low[i] < new
    BY <1>3, <1>5 DEF LowLane
  <2> SUFFICES ASSUME NEW j \in 1 .. Len(low'), NEW a \in OpIds, kind'[low'[j]] = "barrier",
                      a < low'[j], kind'[a] = "low", fate'[a] = "queued"
               PROVE  \E i \in 1 .. Len(low') : i < j /\ low'[i] = a
    BY DEF AheadOfBarrier
  <2>2. j \in 1 .. Len(low) /\ low'[j] = low[j] /\ a # new
    BY <1>3, <1>5, <1>6, <2>1
  <2>3. PICK i \in 1 .. Len(low) : i < j /\ low[i] = a
    <3>1. kind[low[j]] = "barrier" /\ a < low[j] /\ kind[a] = "low" /\ fate[a] = "queued"
      BY <1>3, <1>5, <2>1, <2>2
    <3> QED BY <2>2, <3>1 DEF AheadOfBarrier
  <2>4. i \in 1 .. Len(low') /\ low'[i] = a
    BY <1>5, <2>3
  <2> QED BY <2>3, <2>4
<1>15. Flushes'
  <2>1. \A b \in waiting \cup granted : kind'[b] = "barrier"
    BY <1>3 DEF Flushes, TypeOK
  <2>2. \A o \in OpIds : kind'[o] = "barrier" /\ fate'[o] = "queued"
          => o \in waiting \cup granted \/ \E i \in 1 .. Len(low) : low[i] = o
    BY <1>3 DEF Flushes
  <2>3. \A i \in 1 .. Len(low) : i \in 1 .. Len(low') /\ low'[i] = low[i]
    BY <1>5
  <2>4. \A o \in OpIds : kind'[o] = "barrier" /\ fate'[o] = "queued"
          => o \in waiting \cup granted \/ \E i \in 1 .. Len(low') : low'[i] = o
    BY <2>2, <2>3
  <2> QED BY <1>2, <2>1, <2>4 DEF Flushes
<1>16. OneRuns' BY <1>2, <1>3 DEF OneRuns
<1>17. Closing' BY <1>1, <1>2, <1>3 DEF Closing
<1>18. PriorityInOrder' BY <1>3, <1>6 DEF PriorityInOrder, Began, Finished
<1>19. LowInOrder' BY <1>3, <1>6 DEF LowInOrder, Began, Finished
<1>20. Covered'
  <2> SUFFICES ASSUME NEW a \in OpIds, NEW b \in OpIds, a < b, kind'[a] = "low",
                      kind'[b] = "barrier", Began(b)' \/ (pc' = "run" /\ current' = b)
               PROVE  fate'[a] \in Finished \cup {"shed"}
    BY DEF Covered
  <2>1. kind[b] = "barrier"
    BY <1>2, <1>3, <1>6 DEF OneRuns, Began, Finished
  <2>2. a # new /\ b # new
    BY <1>3, <1>6, <2>1
  <2> QED BY <1>2, <1>3, <2>2 DEF Covered, Began
<1> QED BY <1>11, <1>12, <1>13, <1>14, <1>15, <1>16, <1>17, <1>18, <1>19, <1>20

LEMMA ShedInv == ASSUME IInv, TypeOK', SubmitLow, Submitted("low", "shed") PROVE IInv'
<1> DEFINE new == issued + 1
<1> USE DEF IInv
<1>1. Submitted("low", "shed")
  OBVIOUS
<1>3. /\ open /\ new \in OpIds /\ issued \in Nat /\ issued' = new
      /\ kind[new] = "none" /\ fate[new] = "none" /\ kind'[new] = "low" /\ fate'[new] = "shed"
      /\ \A o \in OpIds : o # new => kind'[o] = kind[o] /\ fate'[o] = fate[o]
      /\ \A o \in OpIds : o > new => kind'[o] = "none" /\ fate'[o] = "none"
      /\ \A o \in OpIds : kind[o] # "none" => o # new /\ o < new
  BY <1>1, Tags, SubmittedAt
<1>2. UNCHANGED <<high, low, waiting, granted, open, pc, current>>
  <2>1. fate'[new] # "queued"
    BY <1>3
  <2>2. ~ Submitted("low", "queued")
    BY <2>1, Tags, SubmittedAt
  <2> QED BY <2>2 DEF SubmitLow, lanes
<1>4. Len(high) \in Nat /\ \A i \in 1 .. Len(high) : high[i] \in OpIds
  BY Members DEF TypeOK
<1>5. Len(low) \in Nat /\ \A i \in 1 .. Len(low) : low[i] \in OpIds
  BY Members DEF TypeOK
<1>6. \A o \in OpIds : o \in Nat
  BY MaxOpsAssumption DEF OpIds
<1> HIDE DEF new
<1>11. Numbered' BY <1>3, <1>6 DEF Numbered, new
<1>12. HighLane' BY <1>2, <1>3, <1>4 DEF HighLane
<1>13. LowLane' BY <1>2, <1>3, <1>5 DEF LowLane
<1>14. AheadOfBarrier' BY <1>2, <1>3, <1>5 DEF AheadOfBarrier, LowLane
<1>15. Flushes' BY <1>2, <1>3, <1>5 DEF Flushes, TypeOK
<1>16. OneRuns' BY <1>2, <1>3 DEF OneRuns
<1>17. Closing' BY <1>2, <1>3 DEF Closing
<1>18. PriorityInOrder' BY <1>3, <1>6 DEF PriorityInOrder, Began, Finished
<1>19. LowInOrder' BY <1>3, <1>6 DEF LowInOrder, Began, Finished
<1>20. Covered'
  <2> SUFFICES ASSUME NEW a \in OpIds, NEW b \in OpIds, a < b, kind'[a] = "low",
                      kind'[b] = "barrier", Began(b)' \/ (pc' = "run" /\ current' = b)
               PROVE  fate'[a] \in Finished \cup {"shed"}
    BY DEF Covered
  <2>1. kind[b] = "barrier"
    BY <1>2, <1>3, <1>6 DEF OneRuns, Began, Finished
  <2>2. a # new /\ b # new
    BY <1>3, <1>6, <2>1
  <2> QED BY <1>2, <1>3, <2>2 DEF Covered, Began
<1> QED BY <1>11, <1>12, <1>13, <1>14, <1>15, <1>16, <1>17, <1>18, <1>19, <1>20

LEMMA FlushInv == ASSUME IInv, TypeOK', Flush PROVE IInv'
<1> DEFINE new == issued + 1
<1> USE DEF IInv
<1>1. Submitted("barrier", "queued")
  BY DEF Flush
<1>2. /\ UNCHANGED <<high, low, open, pc, current>>
      /\ waiting' \cup granted' = waiting \cup granted \cup {new}
  BY DEF Flush
<1>3. /\ open /\ new \in OpIds /\ issued \in Nat /\ issued' = new
      /\ kind[new] = "none" /\ fate[new] = "none" /\ kind'[new] = "barrier" /\ fate'[new] = "queued"
      /\ \A o \in OpIds : o # new => kind'[o] = kind[o] /\ fate'[o] = fate[o]
      /\ \A o \in OpIds : o > new => kind'[o] = "none" /\ fate'[o] = "none"
      /\ \A o \in OpIds : kind[o] # "none" => o # new /\ o < new
  BY <1>1, Tags, SubmittedAt
<1>4. Len(high) \in Nat /\ \A i \in 1 .. Len(high) : high[i] \in OpIds
  BY Members DEF TypeOK
<1>5. Len(low) \in Nat /\ \A i \in 1 .. Len(low) : low[i] \in OpIds
  BY Members DEF TypeOK
<1>6. \A o \in OpIds : o \in Nat
  BY MaxOpsAssumption DEF OpIds
<1> HIDE DEF new
<1>11. Numbered' BY <1>3, <1>6 DEF Numbered, new
<1>12. HighLane' BY <1>2, <1>3, <1>4 DEF HighLane
<1>13. LowLane' BY <1>2, <1>3, <1>5 DEF LowLane
<1>14. AheadOfBarrier' BY <1>2, <1>3, <1>5 DEF AheadOfBarrier, LowLane
<1>15. Flushes'
  <2>1. \A b \in waiting' \cup granted' : kind'[b] = "barrier"
    BY <1>2, <1>3 DEF Flushes, TypeOK
  <2>2. \A o \in OpIds : kind'[o] = "barrier" /\ fate'[o] = "queued"
          => o \in waiting' \cup granted' \/ \E i \in 1 .. Len(low') : low'[i] = o
    BY <1>2, <1>3 DEF Flushes
  <2> QED BY <2>1, <2>2 DEF Flushes
<1>16. OneRuns' BY <1>2, <1>3 DEF OneRuns
<1>17. Closing' BY <1>2, <1>3 DEF Closing
<1>18. PriorityInOrder' BY <1>3, <1>6 DEF PriorityInOrder, Began, Finished
<1>19. LowInOrder' BY <1>3, <1>6 DEF LowInOrder, Began, Finished
<1>20. Covered'
  <2> SUFFICES ASSUME NEW a \in OpIds, NEW b \in OpIds, a < b, kind'[a] = "low",
                      kind'[b] = "barrier", Began(b)' \/ (pc' = "run" /\ current' = b)
               PROVE  fate'[a] \in Finished \cup {"shed"}
    BY DEF Covered
  <2>1. kind[b] = "barrier"
    BY <1>2, <1>3, <1>6 DEF OneRuns, Began, Finished
  <2>2. a # new /\ b # new
    BY <1>3, <1>6, <2>1
  <2> QED BY <1>2, <1>3, <2>2 DEF Covered, Began
<1> QED BY <1>11, <1>12, <1>13, <1>14, <1>15, <1>16, <1>17, <1>18, <1>19, <1>20

LEMMA SendBarrierInv == ASSUME IInv, TypeOK', SendBarrier PROVE IInv'
<1> USE DEF IInv
<1>1. PICK b \in granted : granted' = granted \ {b} /\ low' = Append(low, b)
  BY DEF SendBarrier
<1>2. UNCHANGED <<issued, kind, fate, high, waiting, open, pc, current>>
  BY DEF SendBarrier
<1>3. b \in OpIds /\ kind[b] = "barrier"
  BY <1>1 DEF Flushes, TypeOK
<1>4. /\ Len(low) \in Nat /\ Len(low') = Len(low) + 1 /\ low'[Len(low) + 1] = b
      /\ \A i \in 1 .. Len(low) : i \in 1 .. Len(low') /\ low'[i] = low[i] /\ low[i] \in OpIds
  BY <1>1, <1>3, Appended, Members DEF TypeOK
<1>5. \A i \in 1 .. Len(low') : i \in 1 .. Len(low) \/ low'[i] = b
  BY <1>4
<1>11. Numbered' BY <1>2 DEF Numbered
<1>12. HighLane' BY <1>2 DEF HighLane
<1>13. LowLane'
  <2>1. \A i \in 1 .. Len(low') : kind'[low'[i]] \in {"low", "barrier"}
    BY <1>2, <1>3, <1>4, <1>5 DEF LowLane
  <2>2. \A i \in 1 .. Len(low') : kind'[low'[i]] = "low" => fate'[low'[i]] = "queued"
    BY <1>2, <1>3, <1>4, <1>5 DEF LowLane
  <2>3. \A i, j \in 1 .. Len(low') :
          i < j /\ kind'[low'[i]] = "low" /\ kind'[low'[j]] = "low" => low'[i] < low'[j]
    BY <1>2, <1>3, <1>4, <1>5 DEF LowLane
  <2>4. \A o \in OpIds : kind'[o] = "low" /\ fate'[o] = "queued"
                        => \E i \in 1 .. Len(low') : low'[i] = o
    BY <1>2, <1>4 DEF LowLane
  <2>5. \A o \in OpIds : kind'[o] = "low" => fate'[o] \in {"queued", "running", "shed"} \cup Finished
    BY <1>2 DEF LowLane
  <2> QED BY <2>1, <2>2, <2>3, <2>4, <2>5 DEF LowLane
<1>14. AheadOfBarrier'
  <2> SUFFICES ASSUME NEW j \in 1 .. Len(low'), NEW a \in OpIds, kind[low'[j]] = "barrier",
                      a < low'[j], kind[a] = "low", fate[a] = "queued"
               PROVE  \E i \in 1 .. Len(low') : i < j /\ low'[i] = a
    BY <1>2 DEF AheadOfBarrier
  <2>1. CASE j \in 1 .. Len(low)
    <3>1. PICK i \in 1 .. Len(low) : i < j /\ low[i] = a
      BY <1>4, <2>1 DEF AheadOfBarrier
    <3> QED BY <1>4, <3>1
  <2>2. CASE j = Len(low) + 1
    <3>1. PICK i \in 1 .. Len(low) : low[i] = a
      BY DEF LowLane
    <3> QED BY <1>4, <2>2, <3>1
  <2> QED BY <1>4, <2>1, <2>2
<1>15. Flushes'
  <2>1. \A c \in waiting' \cup granted' : kind'[c] = "barrier"
    BY <1>1, <1>2 DEF Flushes
  <2>2. Len(low) + 1 \in 1 .. Len(low')
    BY <1>4
  <2>3. \A o \in OpIds : kind[o] = "barrier" /\ fate[o] = "queued"
          => o \in waiting' \cup granted' \/ \E i \in 1 .. Len(low') : low'[i] = o
    BY <1>1, <1>2, <1>4, <2>2 DEF Flushes
  <2> QED BY <1>2, <2>1, <2>3 DEF Flushes
<1>16. OneRuns' BY <1>2 DEF OneRuns
<1>17. Closing'
  <2>1. open
    BY <1>1 DEF Closing
  <2> QED BY <1>2, <2>1 DEF Closing
<1>18. PriorityInOrder' BY <1>2 DEF PriorityInOrder, Began
<1>19. LowInOrder' BY <1>2 DEF LowInOrder, Began
<1>20. Covered' BY <1>2 DEF Covered, Began
<1> QED BY <1>11, <1>12, <1>13, <1>14, <1>15, <1>16, <1>17, <1>18, <1>19, <1>20

LEMMA GiveUpInv == ASSUME IInv, TypeOK', GiveUp PROVE IInv'
<1> USE DEF IInv
<1>1. PICK b \in waiting : /\ fate' = [fate EXCEPT ![b] = "abandoned"]
                          /\ waiting' = waiting \ {b}
  BY DEF GiveUp
<1>2. UNCHANGED <<issued, kind, high, low, granted, open, pc, current>>
  BY DEF GiveUp
<1>3. b \in OpIds /\ kind[b] = "barrier" /\ fate'[b] = "abandoned"
  BY <1>1 DEF Flushes, TypeOK
<1>4. \A o \in OpIds : o # b => fate'[o] = fate[o]
  BY <1>1 DEF TypeOK
<1>5. Len(low) \in Nat /\ \A i \in 1 .. Len(low) : low[i] \in OpIds
  BY Members DEF TypeOK
<1>6. Len(high) \in Nat /\ \A i \in 1 .. Len(high) : high[i] \in OpIds
  BY Members DEF TypeOK
<1>11. Numbered' BY <1>2, <1>3, <1>4 DEF Numbered
<1>12. HighLane' BY <1>2, <1>3, <1>4, <1>6 DEF HighLane
<1>13. LowLane' BY <1>2, <1>3, <1>4, <1>5 DEF LowLane
<1>14. AheadOfBarrier' BY <1>2, <1>3, <1>4, <1>5 DEF AheadOfBarrier
<1>15. Flushes' BY <1>1, <1>2, <1>3, <1>4 DEF Flushes
<1>16. OneRuns' BY <1>2, <1>3, <1>4 DEF OneRuns
<1>17. Closing' BY <1>1, <1>2 DEF Closing
<1>18. PriorityInOrder' BY <1>2, <1>3, <1>4 DEF PriorityInOrder, Began
<1>19. LowInOrder' BY <1>2, <1>3, <1>4 DEF LowInOrder, Began
<1>20. Covered' BY <1>2, <1>3, <1>4 DEF Covered, Began, Finished
<1> QED BY <1>11, <1>12, <1>13, <1>14, <1>15, <1>16, <1>17, <1>18, <1>19, <1>20

LEMMA CloseInv == ASSUME IInv, TypeOK', Close PROVE IInv'
<1> USE DEF IInv
<1>1. UNCHANGED <<issued, kind, fate, high, low, waiting, granted, pc, current>>
  BY DEF Close, lanes
<1>2. Closing' BY <1>1 DEF Close, Closing
<1> QED
  BY <1>1, <1>2 DEF Numbered, HighLane, LowLane, AheadOfBarrier, Flushes, OneRuns,
     PriorityInOrder, LowInOrder, Covered, Began

\* The worker begins a priority write.
LEMMA TakeHighInv ==
  ASSUME IInv, TypeOK', pc = "high", high # <<>>, high' = Tail(high), Run(Head(high)),
         UNCHANGED <<issued, kind, low, waiting, granted, open>>
  PROVE  IInv'
<1> USE DEF IInv
<1> DEFINE op == Head(high)
<1>1. /\ Len(high) \in Nat \ {0} /\ op = high[1] /\ op \in OpIds
      /\ Len(high') = Len(high) - 1
      /\ \A i \in 1 .. Len(high') : i + 1 \in 1 .. Len(high) /\ high'[i] = high[i + 1]
      /\ \A i \in 1 .. Len(high) : high[i] \in OpIds
  BY Removed, Members DEF TypeOK
<1>2. kind[op] = "high" /\ fate[op] = "queued"
  BY <1>1 DEF HighLane
<1>3. pc' = "run" /\ current' = op /\ fate'[op] = "running"
  BY <1>1 DEF Run, TypeOK
<1>4. \A o \in OpIds : o # op => fate'[o] = fate[o]
  BY DEF Run, TypeOK
<1>5. Len(low) \in Nat /\ \A i \in 1 .. Len(low) : low[i] \in OpIds
  BY Members DEF TypeOK
<1>6. \A o \in OpIds : fate[o] # "running"
  BY DEF OneRuns
<1>7. \A o \in OpIds : o \in Nat
  BY MaxOpsAssumption DEF OpIds
<1> HIDE DEF op
<1>8. \A i \in 1 .. Len(high) : i # 1 => high[i] # op /\ op < high[i]
  BY <1>1, <1>7 DEF HighLane
<1>11. Numbered' BY <1>2, <1>3, <1>4 DEF Numbered
<1>12. HighLane'
  <2>1. \A i \in 1 .. Len(high') : kind[high'[i]] = "high" /\ fate'[high'[i]] = "queued"
    BY <1>1, <1>4, <1>8 DEF HighLane
  <2>2. \A i, j \in 1 .. Len(high') : i < j => high'[i] < high'[j]
    BY <1>1 DEF HighLane
  <2>3. \A o \in OpIds : kind[o] = "high" /\ fate'[o] = "queued"
                        => \E i \in 1 .. Len(high') : high'[i] = o
    <3> SUFFICES ASSUME NEW o \in OpIds, kind[o] = "high", fate'[o] = "queued"
                 PROVE  \E i \in 1 .. Len(high') : high'[i] = o
      OBVIOUS
    <3>1. PICK k \in 1 .. Len(high) : high[k] = o
      BY <1>3, <1>4 DEF HighLane
    <3>2. k # 1
      BY <1>1, <1>3, <3>1
    <3>3. k - 1 \in 1 .. Len(high') /\ high'[k - 1] = high[k]
      BY <1>1, <3>2
    <3> QED BY <3>1, <3>3
  <2>4. \A o \in OpIds : kind[o] = "high" => fate'[o] \in {"queued", "running"} \cup Finished
    BY <1>3, <1>4 DEF HighLane
  <2> QED BY <2>1, <2>2, <2>3, <2>4 DEF HighLane
<1>13. LowLane' BY <1>2, <1>3, <1>4, <1>5 DEF LowLane
<1>14. AheadOfBarrier' BY <1>2, <1>3, <1>4, <1>5 DEF AheadOfBarrier
<1>15. Flushes' BY <1>2, <1>3, <1>4 DEF Flushes
<1>16. OneRuns' BY <1>1, <1>2, <1>3, <1>4, <1>6 DEF OneRuns
<1>17. Closing' BY <1>3 DEF Closing
<1>18. PriorityInOrder'
  <2> SUFFICES ASSUME NEW a \in OpIds, NEW b \in OpIds, a < b, kind[a] = "high",
                      kind[b] = "high", Began(b)'
               PROVE  Began(a)'
    BY DEF PriorityInOrder
  <2>1. CASE b = op
    <3>1. fate[a] # "queued"
      <4> SUFFICES ASSUME fate[a] = "queued" PROVE FALSE
        OBVIOUS
      <4>1. PICK i \in 1 .. Len(high) : high[i] = a
        BY DEF HighLane
      <4> QED BY <1>7, <1>8, <1>1, <2>1, <4>1
    <3>2. a # op
      BY <1>7, <2>1
    <3> QED BY <1>4, <1>6, <3>1, <3>2 DEF HighLane, Began
  <2>2. CASE b # op
    BY <1>3, <1>4, <2>2 DEF PriorityInOrder, Began
  <2> QED BY <2>1, <2>2
<1>19. LowInOrder' BY <1>2, <1>3, <1>4 DEF LowInOrder, Began
<1>20. Covered' BY <1>2, <1>3, <1>4 DEF Covered, Began
<1> QED BY <1>11, <1>12, <1>13, <1>14, <1>15, <1>16, <1>17, <1>18, <1>19, <1>20

\* The worker begins a low write or a barrier.
LEMMA TakeLowInv ==
  ASSUME IInv, TypeOK', pc \in {"low", "drain"}, TakeLow, UNCHANGED <<issued, kind, high, open>>
  PROVE  IInv'
<1> USE DEF IInv
<1> DEFINE op == Head(low)
<1>1. /\ Len(low) \in Nat \ {0} /\ op = low[1] /\ op \in OpIds
      /\ Len(low') = Len(low) - 1
      /\ \A i \in 1 .. Len(low') : i + 1 \in 1 .. Len(low) /\ low'[i] = low[i + 1]
      /\ \A i \in 1 .. Len(low) : low[i] \in OpIds
  BY Removed, Members DEF TypeOK, TakeLow
<1>2. /\ kind[op] \in {"low", "barrier"} /\ (kind[op] = "low" => fate[op] = "queued")
      /\ (waiting = {} /\ granted = {} => waiting' = {} /\ granted' = {})
      /\ waiting' \cup granted' = waiting \cup granted
  <2>1. kind[op] \in {"low", "barrier"} /\ (kind[op] = "low" => fate[op] = "queued")
    BY <1>1 DEF LowLane
  <2>2. /\ (waiting = {} /\ granted = {} => waiting' = {} /\ granted' = {})
        /\ waiting' \cup granted' = waiting \cup granted
    BY DEF TakeLow, ReleaseSlot
  <2> QED BY <2>1, <2>2
<1>3. pc' = "run" /\ current' = op /\ fate'[op] = "running"
  BY <1>1 DEF TakeLow, Run, TypeOK
<1>4. \A o \in OpIds : o # op => fate'[o] = fate[o]
  BY DEF TakeLow, Run, TypeOK
<1>5. Len(high) \in Nat /\ \A i \in 1 .. Len(high) : high[i] \in OpIds
  BY Members DEF TypeOK
<1>6. \A o \in OpIds : fate[o] # "running"
  BY DEF OneRuns
<1>7. \A o \in OpIds : o \in Nat
  BY MaxOpsAssumption DEF OpIds
<1> HIDE DEF op
<1>8. \A o \in OpIds : fate'[o] = "queued" => fate[o] = "queued" /\ o # op
  BY <1>3, <1>4
\* Whatever is still queued was not at the head.
<1>9. \A i \in 1 .. Len(low) : low[i] # op => i - 1 \in 1 .. Len(low') /\ low'[i - 1] = low[i]
  BY <1>1
<1>10. \A i \in 1 .. Len(low) : i # 1 /\ kind[low[i]] = "low" /\ kind[op] = "low"
                                => low[i] # op /\ op < low[i]
  BY <1>1, <1>7 DEF LowLane
<1>11. Numbered' BY <1>2, <1>3, <1>4 DEF Numbered
<1>12. HighLane' BY <1>2, <1>3, <1>4, <1>5 DEF HighLane
<1>13. LowLane'
  <2>1. \A i \in 1 .. Len(low') : kind[low'[i]] \in {"low", "barrier"}
    BY <1>1 DEF LowLane
  <2>2. \A i \in 1 .. Len(low') : kind[low'[i]] = "low" => fate'[low'[i]] = "queued"
    <3> SUFFICES ASSUME NEW i \in 1 .. Len(low'), kind[low'[i]] = "low"
                 PROVE  fate'[low'[i]] = "queued"
      OBVIOUS
    <3>1. low'[i] = low[i + 1] /\ i + 1 \in 1 .. Len(low) /\ i + 1 # 1 /\ low'[i] \in OpIds
      BY <1>1
    <3>2. fate[low'[i]] = "queued"
      BY <3>1 DEF LowLane
    <3>3. low'[i] # op
      BY <1>2, <1>10, <3>1
    <3> QED BY <1>4, <3>1, <3>2, <3>3
  <2>3. \A i, j \in 1 .. Len(low') :
          i < j /\ kind[low'[i]] = "low" /\ kind[low'[j]] = "low" => low'[i] < low'[j]
    BY <1>1 DEF LowLane
  <2>4. \A o \in OpIds : kind[o] = "low" /\ fate'[o] = "queued"
                        => \E i \in 1 .. Len(low') : low'[i] = o
    <3> SUFFICES ASSUME NEW o \in OpIds, kind[o] = "low", fate'[o] = "queued"
                 PROVE  \E i \in 1 .. Len(low') : low'[i] = o
      OBVIOUS
    <3>1. PICK k \in 1 .. Len(low) : low[k] = o
      BY <1>8 DEF LowLane
    <3> QED BY <1>8, <1>9, <3>1
  <2>5. \A o \in OpIds : kind[o] = "low" => fate'[o] \in {"queued", "running", "shed"} \cup Finished
    BY <1>3, <1>4 DEF LowLane
  <2> QED BY <2>1, <2>2, <2>3, <2>4, <2>5 DEF LowLane
<1>14. AheadOfBarrier'
  <2> SUFFICES ASSUME NEW j \in 1 .. Len(low'), NEW a \in OpIds, kind[low'[j]] = "barrier",
                      a < low'[j], kind[a] = "low", fate'[a] = "queued"
               PROVE  \E i \in 1 .. Len(low') : i < j /\ low'[i] = a
    BY DEF AheadOfBarrier
  <2>1. j + 1 \in 1 .. Len(low) /\ low'[j] = low[j + 1] /\ fate[a] = "queued" /\ a # op
    BY <1>1, <1>8
  <2>2. PICK k \in 1 .. Len(low) : k < j + 1 /\ low[k] = a
    BY <2>1 DEF AheadOfBarrier
  <2>3. k - 1 \in 1 .. Len(low') /\ low'[k - 1] = a
    BY <1>9, <2>1, <2>2
  <2>4. k - 1 < j
    BY <1>1, <2>2
  <2> QED BY <2>3, <2>4
<1>15. Flushes'
  <2>1. \A b \in waiting' \cup granted' : kind[b] = "barrier"
    BY <1>2 DEF Flushes
  <2>2. \A o \in OpIds : kind[o] = "barrier" /\ fate'[o] = "queued"
          => o \in waiting' \cup granted' \/ \E i \in 1 .. Len(low') : low'[i] = o
    <3> SUFFICES ASSUME NEW o \in OpIds, kind[o] = "barrier", fate'[o] = "queued",
                        o \notin waiting' \cup granted'
                 PROVE  \E i \in 1 .. Len(low') : low'[i] = o
      OBVIOUS
    <3>1. PICK k \in 1 .. Len(low) : low[k] = o
      BY <1>2, <1>8 DEF Flushes
    <3> QED BY <1>8, <1>9, <3>1
  <2> QED BY <2>1, <2>2 DEF Flushes
<1>16. OneRuns' BY <1>1, <1>2, <1>3, <1>4, <1>6 DEF OneRuns
<1>17. Closing' BY <1>2, <1>3 DEF Closing
<1>18. PriorityInOrder' BY <1>2, <1>3, <1>4 DEF PriorityInOrder, Began
<1>19. LowInOrder'
  <2> SUFFICES ASSUME NEW a \in OpIds, NEW b \in OpIds, a < b, kind[a] = "low",
                      kind[b] = "low", Began(b)', fate'[a] # "shed"
               PROVE  Began(a)'
    BY DEF LowInOrder
  <2>1. CASE b = op
    <3>1. a # op
      BY <1>7, <2>1
    <3>2. fate[a] # "queued"
      <4> SUFFICES ASSUME fate[a] = "queued" PROVE FALSE
        OBVIOUS
      <4>1. PICK i \in 1 .. Len(low) : low[i] = a
        BY DEF LowLane
      <4> QED BY <1>1, <1>7, <1>10, <2>1, <3>1, <4>1
    <3> QED BY <1>4, <1>6, <3>1, <3>2 DEF LowLane, Began
  <2>2. CASE b # op
    BY <1>3, <1>4, <2>2 DEF LowInOrder, Began
  <2> QED BY <2>1, <2>2
<1>20. Covered'
  <2> SUFFICES ASSUME NEW a \in OpIds, NEW b \in OpIds, a < b, kind[a] = "low",
                      kind[b] = "barrier", Began(b)' \/ (pc' = "run" /\ current' = b)
               PROVE  fate'[a] \in Finished \cup {"shed"}
    BY DEF Covered
  <2>1. fate[a] \in Finished \cup {"shed"}
    <3>1. CASE b = op
      <4>1. fate[a] # "queued"
        <5> SUFFICES ASSUME fate[a] = "queued" PROVE FALSE
          OBVIOUS
        <5>1. PICK i \in 1 .. Len(low) : i < 1 /\ low[i] = a
          BY <1>1, <3>1 DEF AheadOfBarrier
        <5> QED BY <1>1, <5>1
      <4> QED BY <1>6, <4>1 DEF LowLane
    <3>2. CASE b # op
      BY <1>3, <1>4, <3>2 DEF Covered, Began
    <3> QED BY <3>1, <3>2
  <2>2. a # op
    BY <1>2, <2>1 DEF Finished
  <2> QED BY <1>4, <2>1, <2>2
<1> QED BY <1>11, <1>12, <1>13, <1>14, <1>15, <1>16, <1>17, <1>18, <1>19, <1>20

LEMMA EndedInv ==
  ASSUME IInv, TypeOK', NEW f \in Finished, Ended(f)
  PROVE  IInv'
<1> USE DEF IInv
<1>1. /\ pc = "run" /\ current \in OpIds /\ kind[current] # "none"
      /\ pc' = "high" /\ UNCHANGED <<issued, kind, high, low, waiting, granted, open>>
  BY EndedType DEF OneRuns, Ended
<1>2. fate'[current] = f /\ \A o \in OpIds : o # current => fate'[o] = fate[o]
  BY <1>1 DEF Ended, TypeOK
<1>3. f \notin {"none", "queued", "running", "shed"}
  BY DEF Finished
<1>4. Len(high) \in Nat /\ \A i \in 1 .. Len(high) : high[i] \in OpIds
  BY Members DEF TypeOK
<1>5. Len(low) \in Nat /\ \A i \in 1 .. Len(low) : low[i] \in OpIds
  BY Members DEF TypeOK
<1>6. kind[current] # "barrier" => fate[current] = "running"
  BY <1>1 DEF OneRuns
<1>7. \A o \in OpIds : fate'[o] = "queued" => fate[o] = "queued" /\ o # current
  BY <1>2, <1>3
<1>8. \A o \in OpIds : kind[o] # "barrier" /\ fate[o] = "queued" => fate'[o] = "queued"
  BY <1>2, <1>6
<1>9. \A o \in OpIds : kind[o] # "barrier" => (Began(o)' <=> Began(o))
  BY <1>2, <1>6 DEF Began
<1>11. Numbered' BY <1>1, <1>2, <1>3 DEF Numbered
<1>12. HighLane'
  <2>1. \A o \in OpIds : kind[o] = "high" => fate'[o] \in {"queued", "running"} \cup Finished
    BY <1>2 DEF HighLane
  <2> QED BY <1>1, <1>4, <1>7, <1>8, <2>1 DEF HighLane
<1>13. LowLane'
  <2>1. \A o \in OpIds : kind[o] = "low" => fate'[o] \in {"queued", "running", "shed"} \cup Finished
    BY <1>2 DEF LowLane
  <2> QED BY <1>1, <1>5, <1>7, <1>8, <2>1 DEF LowLane
<1>14. AheadOfBarrier' BY <1>1, <1>7 DEF AheadOfBarrier
<1>15. Flushes' BY <1>1, <1>7 DEF Flushes
<1>16. OneRuns' BY <1>1, <1>2, <1>3 DEF OneRuns
<1>17. Closing' BY <1>1 DEF Closing
<1>18. PriorityInOrder' BY <1>1, <1>9 DEF PriorityInOrder
<1>19. LowInOrder'
  <2>1. \A o \in OpIds : kind[o] = "low" /\ fate[o] = "shed" => fate'[o] = "shed"
    BY <1>2, <1>6
  <2> QED BY <1>1, <1>9, <2>1 DEF LowInOrder
<1>20. Covered'
  <2> SUFFICES ASSUME NEW a \in OpIds, NEW b \in OpIds, a < b, kind[a] = "low",
                      kind[b] = "barrier", Began(b)'
               PROVE  fate'[a] \in Finished \cup {"shed"}
    BY <1>1 DEF Covered
  <2>1. fate[a] \in Finished \cup {"shed"}
    BY <1>1, <1>2 DEF Covered, Began
  <2> QED BY <1>2, <2>1
<1> QED BY <1>11, <1>12, <1>13, <1>14, <1>15, <1>16, <1>17, <1>18, <1>19, <1>20

\* The worker goes from one poll to the next, or stops.
LEMMA PolledInv ==
  ASSUME IInv, TypeOK', UNCHANGED <<issued, kind, fate, high, low, waiting, granted, open, current>>,
         pc # "run", pc' # "run",
         pc' \in {"drain", "stopped"} => ~ open /\ high = <<>>,
         pc' = "stopped" => low = <<>>
  PROVE  IInv'
<1>1. Closing'
  BY DEF IInv, Closing
<1> QED
  BY <1>1 DEF IInv, Numbered, HighLane, LowLane, AheadOfBarrier, Flushes, OneRuns,
     PriorityInOrder, LowInOrder, Covered, Began

LEMMA InvNext == IInv /\ [Next]_vars => IInv'
<1> SUFFICES ASSUME IInv, [Next]_vars PROVE IInv'
  OBVIOUS
<1>0. TypeOK'
  BY TypeNext DEF IInv
<1>1. CASE Submit BY <1>0, <1>1, SubmitInv
<1>2. CASE SubmitLow BY <1>0, <1>2, SubmitLowInv, ShedInv
<1>3. CASE Flush BY <1>0, <1>3, FlushInv
<1>4. CASE SendBarrier BY <1>0, <1>4, SendBarrierInv
<1>5. CASE GiveUp BY <1>0, <1>5, GiveUpInv
<1>6. CASE Close BY <1>0, <1>6, CloseInv
<1>7. CASE PollHigh
  <2>1. CASE high # <<>> BY <1>0, <1>7, <2>1, TakeHighInv DEF PollHigh
  <2>2. CASE high = <<>> BY <1>0, <1>7, <2>2, PolledInv DEF PollHigh
  <2> QED BY <2>1, <2>2
<1>8. CASE PollLow
  <2>1. CASE TakeLow BY <1>0, <1>8, <2>1, TakeLowInv DEF PollLow
  <2>2. CASE ~ TakeLow BY <1>0, <1>8, <2>2, PolledInv DEF PollLow
  <2> QED BY <2>1, <2>2
<1>9. CASE Drain
  <2>1. CASE TakeLow BY <1>0, <1>9, <2>1, TakeLowInv DEF Drain
  <2>2. CASE ~ TakeLow BY <1>0, <1>9, <2>2, PolledInv DEF Drain, IInv, Closing
  <2> QED BY <2>1, <2>2
<1>10. CASE Succeed BY <1>0, <1>10, Tags, EndedInv DEF Succeed
<1>11. CASE Panic BY <1>0, <1>11, Tags, EndedInv DEF Panic
<1>12. CASE Abort BY <1>0, <1>12, Tags, EndedInv DEF Abort
<1>13. CASE UNCHANGED vars
  BY <1>13 DEF vars, lanes, stats, IInv, TypeOK, Numbered, HighLane, LowLane, AheadOfBarrier,
     Flushes, OneRuns, Closing, PriorityInOrder, LowInOrder, Covered, Began
<1> QED
  BY <1>1, <1>2, <1>3, <1>4, <1>5, <1>6, <1>7, <1>8, <1>9, <1>10, <1>11, <1>12, <1>13
     DEF Next, Handles, Worker

-----------------------------------------------------------------------------
(* Theorems *)

\* Every variable keeps its type, whatever the capacity and the number of
\* operations.
THEOREM TypeCorrect == Spec => []TypeOK
<1>1. Init => TypeOK BY TypeInit
<1>2. TypeOK /\ [Next]_vars => TypeOK' BY TypeNext
<1> QED BY <1>1, <1>2, PTL DEF Spec

LEMMA Invariance == Spec => []IInv
<1>1. Init => IInv BY InitInv
<1>2. IInv /\ [Next]_vars => IInv' BY InvNext
<1> QED BY <1>1, <1>2, PTL DEF Spec

\* Priority writes begin in the order of their submission.
THEOREM PriorityOrder == Spec => []PriorityInOrder
<1>1. IInv => PriorityInOrder BY DEF IInv
<1> QED BY <1>1, Invariance, PTL

\* Low writes begin in the order of their submission, except for those shed.
THEOREM LowOrder == Spec => []LowInOrder
<1>1. IInv => LowInOrder BY DEF IInv
<1> QED BY <1>1, Invariance, PTL

\* An operation of the low lane that began, or that the worker holds, before a
\* priority write that waits.  When the worker turns to the low lane there is none:
\* the priority lane was empty, and what came since has waited for this poll only.
Passes(b, a) ==
  /\ kind[a] = "high" /\ fate[a] = "queued" /\ kind[b] \in {"low", "barrier"} /\ a < b
  /\ Began(b) \/ (pc = "run" /\ current = b)
Overtaken ==
  /\ \A a, b, c \in OpIds : Passes(b, a) /\ Passes(c, a) => b = c
  /\ pc = "low" => \A a, b \in OpIds : ~ Passes(b, a)

LEMMA TakenPasses ==
  ASSUME IInv, Overtaken, pc \in {"low", "drain"}, TakeLow, UNCHANGED kind
  PROVE  Overtaken'
<1>1. /\ Head(low) \in OpIds /\ pc' = "run" /\ fate' = [fate EXCEPT ![Head(low)] = "running"]
      /\ current' = Head(low) /\ fate \in [OpIds -> Fates]
  BY DEF IInv, TypeOK, TakeLow, Run
<1>2. ASSUME NEW a \in OpIds, NEW b \in OpIds, Passes(b, a)' PROVE b = Head(low)
  <2>1. kind[a] = "high" /\ fate[a] = "queued"
    BY <1>1, <1>2 DEF Passes
  <2>2. pc = "low"
    BY <2>1 DEF IInv, Closing, HighLane
  <2>3. ~ Passes(b, a)
    BY <2>2 DEF Overtaken
  <2>4. ~ Began(b) /\ (Began(b)' \/ b = Head(low))
    BY <1>1, <1>2, <2>1, <2>3 DEF Passes
  <2> QED BY <1>1, <2>4 DEF Began
<1> QED BY <1>1, <1>2 DEF Overtaken

\* No other step has an operation pass a priority write.
LEMMA NoneElsePasses ==
  ASSUME IInv, IInv', [Next]_vars, NEW a \in OpIds, NEW b \in OpIds, Passes(b, a)',
         ~ ((PollLow \/ Drain) /\ TakeLow)
  PROVE  Passes(b, a)
<1> USE DEF Passes, Began, IInv, TypeOK
<1>0. \A o \in OpIds : o \in Nat
  BY MaxOpsAssumption DEF OpIds
<1>1. ASSUME NEW k \in Kinds, NEW f \in {"queued", "shed"}, Submitted(k, f), UNCHANGED <<pc, current>>
      PROVE  Passes(b, a)
  <2>1. /\ issued \in Nat /\ fate'[issued + 1] = f /\ kind[issued + 1] = "none"
        /\ \A o \in OpIds : o # issued + 1 => kind'[o] = kind[o] /\ fate'[o] = fate[o]
        /\ \A o \in OpIds : o > issued + 1 => kind'[o] = "none" /\ fate'[o] = "none"
    BY <1>1, SubmittedAt, Tags
  <2>2. pc = "run" => current # issued + 1
    BY <2>1 DEF OneRuns
  <2>3. a \in Nat /\ b \in Nat /\ a < b /\ kind'[b] # "none"
    BY <1>0
  <2>4. b # issued + 1
    BY <1>1, <2>1, <2>2 DEF Finished
  <2>5. a # issued + 1
    BY <2>1, <2>3
  <2> QED BY <1>1, <2>1, <2>4, <2>5
<1>2. CASE Submit \/ SubmitLow \/ Flush
  BY <1>1, <1>2, Tags DEF Submit, SubmitLow, Flush, lanes
<1>3. CASE SendBarrier \/ Close
  BY <1>3 DEF SendBarrier, Close
<1>4. CASE GiveUp
  BY <1>4 DEF GiveUp, Finished
<1>5. CASE PollHigh
  <2>1. CASE high # <<>>
    <3>1. Head(high) \in OpIds /\ kind[Head(high)] = "high"
      BY <2>1, Removed DEF HighLane
    <3>2. /\ fate' = [fate EXCEPT ![Head(high)] = "running"] /\ kind' = kind
          /\ current' = Head(high)
      BY <1>5, <2>1 DEF PollHigh, Run
    <3>3. b # Head(high)
      BY <3>1, <3>2
    <3> QED BY <3>1, <3>2, <3>3
  <2>2. CASE high = <<>>
    BY <1>5, <2>2 DEF PollHigh
  <2> QED BY <2>1, <2>2
<1>6. CASE PollLow \/ Drain
  BY <1>6 DEF PollLow, Drain
<1>7. CASE Succeed \/ Panic \/ Abort
  <2>1. PICK f \in Finished : Ended(f)
    BY <1>7, Tags DEF Succeed, Panic, Abort
  <2>2. pc = "run" /\ fate' = [fate EXCEPT ![current] = f] /\ kind' = kind
    BY <2>1 DEF Ended
  <2>3. current \in OpIds
    BY <2>2 DEF OneRuns
  <2>4. kind[a] = "high" /\ fate[a] = "queued" /\ kind[b] \in {"low", "barrier"} /\ a < b
    BY <2>1, <2>2, <2>3 DEF Finished
  <2>5. CASE b # current
    BY <2>1, <2>2, <2>3, <2>4, <2>5 DEF Ended
  <2> QED BY <2>2, <2>4, <2>5
<1>8. CASE UNCHANGED vars
  BY <1>8 DEF vars
<1> QED BY <1>2, <1>3, <1>4, <1>5, <1>6, <1>7, <1>8 DEF Next, Handles, Worker

LEMMA OvertakenNext == IInv /\ IInv' /\ Overtaken /\ [Next]_vars => Overtaken'
<1> SUFFICES ASSUME IInv, IInv', Overtaken, [Next]_vars PROVE Overtaken'
  OBVIOUS
<1>1. CASE (PollLow \/ Drain) /\ TakeLow
  BY <1>1, TakenPasses DEF PollLow, Drain
<1>2. CASE ~ ((PollLow \/ Drain) /\ TakeLow)
  <2>1. \A a, b \in OpIds : Passes(b, a)' => Passes(b, a)
    BY <1>2, NoneElsePasses
  <2>2. ASSUME pc' = "low" PROVE pc = "low" \/ high = <<>>
    BY <2>2 DEF Next, Handles, Worker, Submit, SubmitLow, Flush, SendBarrier, GiveUp, Close, PollHigh,
       PollLow, Drain, TakeLow, Run, Succeed, Panic, Abort, Ended, vars
  <2>3. high = <<>> => \A a, b \in OpIds : ~ Passes(b, a)
    BY DEF IInv, HighLane, Passes
  <2> QED BY <2>1, <2>2, <2>3 DEF Overtaken
<1> QED BY <1>1, <1>2

\* Both lanes keep the order of submission, and a priority write is overtaken at most
\* once, by what the worker takes between its two polls (DbWriter::spawn_with).
THEOREM LaneOrder == Spec => []LanesInOrder
<1>1. Init => Overtaken
  BY DEF Init, Overtaken, Passes
<1>2. Spec => []OvertakenOnce
  <2>1. Overtaken => OvertakenOnce
    BY DEF Overtaken, OvertakenOnce, Overtakes, Passes
  <2> QED BY <1>1, <2>1, Invariance, OvertakenNext, PTL DEF Spec
<1> QED BY <1>2, PriorityOrder, LowOrder, PTL DEF LanesInOrder

\* A flush returns only after the low writes submitted before it ended.
THEOREM FlushCovers == Spec => []FlushCoversLow
<1>1. IInv => FlushCoversLow BY DEF IInv, Covered, FlushCoversLow
<1> QED BY <1>1, Invariance, PTL

\* The worker that stops leaves no accepted write behind.
THEOREM StopsDrained == Spec => []StoppedMeansDrained
<1>1. IInv => StoppedMeansDrained
  <2> SUFFICES ASSUME IInv, pc = "stopped", NEW o \in 1 .. issued
               PROVE  fate[o] \in Finished \cup {"shed", "abandoned"}
    BY DEF StoppedMeansDrained
  <2> USE DEF IInv
  <2>1. o \in OpIds /\ o <= issued
    BY MaxOpsAssumption DEF OpIds, TypeOK
  <2>2. fate[o] \in Fates /\ fate[o] # "none" /\ kind[o] \in Kinds /\ kind[o] # "none"
    BY <2>1 DEF Numbered, TypeOK
  <2>3. fate[o] # "running"
    BY <2>1 DEF OneRuns
  <2>4. high = <<>> /\ low = <<>> /\ waiting = {} /\ granted = {}
    BY DEF Closing
  <2>5. fate[o] # "queued"
    BY <2>1, <2>2, <2>4 DEF HighLane, LowLane, Flushes, Kinds
  <2> QED BY <2>2, <2>3, <2>5 DEF Fates
<1> QED BY <1>1, Invariance, PTL

\* A flush's barrier begins only when every low write submitted before it has ended or
\* was shed, and the worker stops only when that holds of every write it accepted
\* (DbWriter::flush, spawn_with).  A flush may leave a priority write behind.
THEOREM NoneLeftBehind == Spec => []NothingLeftBehind
BY FlushCovers, StopsDrained, PTL DEF NothingLeftBehind

\* What a set of granted slots counts.
LEMMA Granted ==
  ASSUME TypeOK
  PROVE  /\ IsFiniteSet(granted) /\ Cardinality(granted) \in Nat /\ Len(low) \in Nat
         /\ \A b : Cardinality(granted \cup {b}) <= Cardinality(granted) + 1
         /\ \A b \in granted : Cardinality(granted \ {b}) = Cardinality(granted) - 1
<1>1. IsFiniteSet(granted)
  <2>1. IsFiniteSet(OpIds)
    BY MaxOpsAssumption, FS_Interval DEF OpIds
  <2>2. granted \in SUBSET OpIds
    BY DEF TypeOK
  <2> QED BY <2>1, <2>2, FS_Subset
<1>2. Cardinality(granted) \in Nat
  BY <1>1, FS_CardinalityType
<1>3. \A b : Cardinality(granted \cup {b}) <= Cardinality(granted) + 1
  BY <1>1, <1>2, FS_AddElement
<1>4. \A b \in granted : Cardinality(granted \ {b}) = Cardinality(granted) - 1
  <2> TAKE b \in granted
  <2> QED BY <1>1, FS_RemoveElement
<1>5. Len(low) \in Nat
  BY DEF TypeOK
<1> QED BY <1>1, <1>2, <1>3, <1>4, <1>5

LEMMA BoundNext == TypeOK /\ LowBounded /\ [Next]_vars => LowBounded'
<1> SUFFICES ASSUME TypeOK, LowBounded, [Next]_vars PROVE LowBounded'
  OBVIOUS
<1>0. /\ IsFiniteSet(granted) /\ Cardinality(granted) \in Nat /\ Len(low) \in Nat /\ LowCapacity \in Nat
      /\ \A b : Cardinality(granted \cup {b}) <= Cardinality(granted) + 1
      /\ Len(low) + Cardinality(granted) <= LowCapacity
  BY Granted, CapacityAssumption DEF LowBounded
\* Both counts stay for most actions.
<1>1. CASE UNCHANGED <<low, granted>> BY <1>1 DEF LowBounded
<1>2. CASE SubmitLow
  <2>1. CASE FreeSlots > 0 /\ low' = Append(low, issued + 1) /\ UNCHANGED granted
    <3>1. Len(low') = Len(low) + 1
      BY <2>1 DEF TypeOK
    <3> QED BY <1>0, <2>1, <3>1 DEF LowBounded, FreeSlots
  <2> QED BY <1>1, <1>2, <2>1 DEF SubmitLow, lanes
<1>3. CASE Flush
  <2>1. CASE FreeSlots > 0
    <3>1. granted' = granted \cup {issued + 1} /\ low' = low
      BY <1>3, <2>1 DEF Flush
    <3>2. Cardinality(granted') \in Nat
      BY <1>0, <3>1, FS_AddElement, FS_CardinalityType
    <3>3. Cardinality(granted') <= Cardinality(granted) + 1
      BY <1>0, <3>1
    <3> QED BY <1>0, <2>1, <3>1, <3>2, <3>3 DEF LowBounded, FreeSlots
  <2> QED BY <1>1, <1>3, <2>1 DEF Flush
<1>4. CASE SendBarrier
  <2>1. PICK b \in granted : granted' = granted \ {b} /\ low' = Append(low, b)
    BY <1>4 DEF SendBarrier
  <2>2. Len(low') = Len(low) + 1 /\ Cardinality(granted') = Cardinality(granted) - 1
    BY <2>1, Granted DEF TypeOK
  <2> QED BY <1>0, <2>2 DEF LowBounded
<1>5. CASE TakeLow
  <2>1. Len(low') = Len(low) - 1
    BY <1>5 DEF TakeLow, TypeOK
  <2>2. Cardinality(granted') <= Cardinality(granted) + 1 /\ Cardinality(granted') \in Nat
    <3>1. granted' = granted \/ \E b \in waiting : granted' = granted \cup {b}
      BY <1>5 DEF TakeLow, ReleaseSlot
    <3>2. CASE granted' = granted BY <1>0, <3>2
    <3>3. ASSUME NEW b \in waiting, granted' = granted \cup {b}
          PROVE  Cardinality(granted') <= Cardinality(granted) + 1 /\ Cardinality(granted') \in Nat
      <4>1. IsFiniteSet(granted')
        BY <1>0, <3>3, FS_AddElement
      <4> QED BY <1>0, <3>3, <4>1, FS_CardinalityType
    <3> QED BY <3>1, <3>2, <3>3
  <2> QED BY <1>0, <2>1, <2>2 DEF LowBounded
<1> QED
  BY <1>1, <1>2, <1>3, <1>4, <1>5 DEF Next, Handles, Worker, Submit, GiveUp, Close, PollHigh,
     PollLow, Drain, Succeed, Panic, Abort, Ended, vars, lanes

\* The low lane, with the slots promised to flushes, never exceeds its capacity.
THEOREM LowLaneBounded == Spec => []LowBounded
<1>1. Init => LowBounded
  BY CapacityAssumption, FS_EmptySet DEF Init, LowBounded
<1>2. TypeOK /\ LowBounded /\ [Next]_vars => LowBounded' BY BoundNext
<1> QED BY <1>1, <1>2, TypeCorrect, PTL DEF Spec

-----------------------------------------------------------------------------
(* The migrations                                                          *)

\* What is committed: the form of its version.
Whole(d) ==
  /\ IsDatabase(d)
  /\ d.version = 0 => HasSomeTables(d)
  /\ d.version \in 1 .. SchemaVersion => HasTables(d)
  /\ d.version = SchemaVersion => TablesAreNew(d)

\* What the statements of the second migration leave behind.
InOneFormat(d) ==
  /\ \A i \in DOMAIN d.alerts.rows :
       LET a == d.alerts.rows[i] IN {a.created, a.triggered, a.resolved} \subseteq {"rfc", Null}
  /\ \A i \in DOMAIN d.actions.rows : d.actions.rows[i].executed \in {"rfc", Null}
Triggered(d) ==
  \A i \in DOMAIN d.alerts.rows :
    LET a == d.alerts.rows[i] IN a.triggered # Null /\ (a.status = "resolved" => a.resolved # Null)
Fired(d) ==
  /\ d.alerts.shape = "v2"
  /\ \A i \in DOMAIN d.alerts.rows : d.alerts.rows[i].lastFired # Null
ActionsRebuilt(d) ==
  /\ d.actions.setNull
  /\ \A i \in DOMAIN d.actions.rows :
       /\ d.actions.rows[i].executed = "rfc"
       /\ d.actions.rows[i].alert \in DOMAIN d.alerts.rows \cup {NoId}

\* What a transaction sees before its n-th statement.
At(n, d) ==
  /\ IsDatabase(d)
  /\ n \in 1 .. 4 => d.version = 0
  /\ n \in 1 .. 3 => HasSomeTables(d)
  /\ n \in 2 .. 3 => d.alertsNew = NoTable
  /\ n = 3 => d.alerts = NoTable \/ IsAlerts(d.alerts)
  /\ n \in 4 .. 11 => HasTables(d)
  /\ n \in 5 .. 11 => d.version = 1
  /\ n \in 6 .. 11 => InOneFormat(d)
  /\ n \in 7 .. 11 => Triggered(d)
  /\ n \in 8 .. 11 => Fired(d)
  /\ n \in 9 .. 11 => ActionsRebuilt(d)
  /\ n \in 10 .. 11 => ~ d.predictions.fk
  /\ n = 11 => d.indexes
  /\ n = 12 => d.version >= SchemaVersion /\ Whole(d)

LEMMA LeftoversCleared ==
  ASSUME NEW d, At(1, d)
  PROVE  At(2, Leftovers(d)) /\ Keeps(d, Leftovers(d))
<1> DEFINE e == Leftovers(d)
<1>1. IsDatabase(d) /\ HasSomeTables(d) /\ d.version = 0
  BY DEF At
<1>2. NoTable.shape = "none"
  BY DEF NoTable
<1>3. CASE d.alerts = NoTable /\ d.alertsNew # NoTable
  <2>1. e = [d EXCEPT !.alerts = d.alertsNew, !.alertsNew = NoTable]
    BY <1>3 DEF Leftovers
  <2>2. IsDatabase(e) /\ e.alerts = d.alertsNew /\ e.alertsNew = NoTable /\ e.version = 0
        /\ e.actions = d.actions /\ e.predictions = d.predictions /\ e.actionSeq = d.actionSeq
    BY <1>1, <2>1 DEF IsDatabase
  <2> HIDE DEF e
  <2>3. IsAlerts(e.alerts) /\ e.alerts # NoTable
    BY <1>1, <1>2, <1>3, <2>2 DEF HasSomeTables, IsAlerts
  <2>4. At(2, e)
    BY <1>1, <2>2, <2>3 DEF At, HasSomeTables
  <2>5. Keeps(d, e)
    BY <1>1, <1>3, <2>2, <2>3 DEF Keeps, Alerts, Actions, IsDatabase
  <2> QED BY <2>4, <2>5 DEF e
<1>4. CASE ~ (d.alerts = NoTable /\ d.alertsNew # NoTable)
  <2>1. e = [d EXCEPT !.alertsNew = NoTable]
    BY <1>4 DEF Leftovers
  <2>2. IsDatabase(e) /\ e.alerts = d.alerts /\ e.alertsNew = NoTable /\ e.version = 0
        /\ e.actions = d.actions /\ e.predictions = d.predictions /\ e.actionSeq = d.actionSeq
    BY <1>1, <2>1 DEF IsDatabase
  <2> HIDE DEF e
  <2>4. At(2, e)
    BY <1>1, <2>2 DEF At, HasSomeTables
  <2>5. Keeps(d, e)
    BY <1>1, <1>4, <2>2 DEF Keeps, Alerts, Actions, IsDatabase
  <2> QED BY <2>4, <2>5 DEF e
<1> QED BY <1>3, <1>4

LEMMA RowForms ==
  /\ \A a \in AlertRows : IsOpen(a) = (a.status # "resolved")
  /\ \A a \in LegacyRows : IsOpen(a) = ~ LegacyResolved(a)
  /\ \A a \in LegacyRows :
       /\ FromLegacy(a) \in AlertRows
       /\ FromLegacy(a).status = "resolved" <=> LegacyResolved(a)
<1>1. ASSUME NEW a \in AlertRows PROVE "triggered" \in DOMAIN a
  BY DEF AlertRows
<1>2. ASSUME NEW a \in LegacyRows PROVE "triggered" \notin DOMAIN a
  BY DEF LegacyRows
<1>3. ASSUME NEW a \in LegacyRows
      PROVE  /\ FromLegacy(a) \in AlertRows
             /\ FromLegacy(a).status = "resolved" <=> LegacyResolved(a)
  <2>1. a.status \in LegacyWords /\ a.created \in Times /\ a.resolved \in Times
    BY DEF LegacyRows
  <2>2. LegacyStatus(a) \in Statuses /\ (LegacyStatus(a) = "resolved" <=> LegacyResolved(a))
    <3>1. CASE LegacyResolved(a)
      BY <3>1 DEF LegacyStatus, Statuses
    <3>2. CASE ~ LegacyResolved(a) /\ a.status \in {"acknowledged", "acked", "ack"}
      BY <3>2 DEF LegacyStatus, Statuses
    <3>3. CASE ~ LegacyResolved(a) /\ a.status = "suppressed"
      BY <3>3 DEF LegacyStatus, Statuses
    <3>4. CASE ~ LegacyResolved(a) /\ a.status \notin {"acknowledged", "acked", "ack", "suppressed"}
      BY <3>4 DEF LegacyStatus, Statuses
    <3> QED BY <3>1, <3>2, <3>3, <3>4
  <2>3. \A t, u \in Times : Rfc(t) \in Times /\ Coalesce(t, u) \in Times
    BY DEF Rfc, Coalesce, Times
  <2>4. Now \in Times /\ Null \in Times
    BY DEF Now, Times
  <2> QED BY <2>1, <2>2, <2>3, <2>4 DEF FromLegacy, AlertRows
<1> QED BY <1>1, <1>2, <1>3 DEF IsOpen

LEMMA LegacyConverted ==
  ASSUME NEW d, At(2, d)
  PROVE  At(3, LegacyAlerts(d)) /\ Keeps(d, LegacyAlerts(d))
<1> DEFINE e == LegacyAlerts(d)
<1>1. IsDatabase(d) /\ HasSomeTables(d) /\ d.version = 0 /\ d.alertsNew = NoTable
  BY DEF At
<1>2. CASE ~ IsLegacyAlerts(d.alerts)
  <2>1. d.alerts = NoTable \/ IsAlerts(d.alerts)
    BY <1>1, <1>2 DEF HasSomeTables
  <2>2. e = d
    BY <2>1 DEF LegacyAlerts, IsAlerts, NoTable
  <2>3. At(3, d)
    BY <1>1, <2>1 DEF At
  <2>4. Keeps(d, d)
    BY <1>1 DEF Keeps, IsDatabase
  <2> QED BY <2>2, <2>3, <2>4
<1>3. CASE IsLegacyAlerts(d.alerts)
  <2> DEFINE rows == [i \in DOMAIN d.alerts.rows |-> FromLegacy(d.alerts.rows[i])]
             t == [shape |-> "v1", rows |-> rows]
  <2>1. d.alerts # NoTable /\ e = [d EXCEPT !.alerts = t]
    BY <1>3 DEF LegacyAlerts, IsLegacyAlerts, NoTable
  <2>2. \A i \in DOMAIN d.alerts.rows : d.alerts.rows[i] \in LegacyRows
    BY <1>3 DEF IsLegacyAlerts, IsTableOf
  <2>3. DOMAIN rows = DOMAIN d.alerts.rows /\ IsTableOf(rows, AlertRows)
    BY <1>3, <2>2, RowForms DEF IsLegacyAlerts, IsTableOf
  <2>4. \A i \in DOMAIN rows : IsOpen(rows[i]) = IsOpen(d.alerts.rows[i])
    BY <2>2, RowForms
  <2> HIDE DEF rows
  <2>5. IsAlerts(t) /\ t # NoTable /\ t.rows = rows
    BY <2>3 DEF IsAlerts, NoTable
  <2>6. IsDatabase(e) /\ e.alerts = t /\ e.alertsNew = NoTable /\ e.version = 0
        /\ e.actions = d.actions /\ e.predictions = d.predictions /\ e.actionSeq = d.actionSeq
    BY <1>1, <2>1 DEF IsDatabase
  <2> HIDE DEF e, t
  <2>7. At(3, e)
    BY <1>1, <2>5, <2>6 DEF At, HasSomeTables
  <2>8. Keeps(d, e)
    BY <1>1, <2>1, <2>3, <2>4, <2>5, <2>6 DEF Keeps, Alerts, Actions, IsDatabase
  <2> QED BY <2>7, <2>8 DEF e
<1> QED BY <1>2, <1>3

LEMMA BaselineCreated ==
  ASSUME NEW d, At(3, d)
  PROVE  At(4, Baseline(d)) /\ Keeps(d, Baseline(d))
<1> DEFINE e == Baseline(d)
           alerts == IF d.alerts = NoTable THEN [shape |-> "v1", rows |-> << >>] ELSE d.alerts
           actions == IF d.actions = NoTable THEN [setNull |-> FALSE, rows |-> << >>] ELSE d.actions
           predictions == IF d.predictions = NoTable THEN [fk |-> FALSE, rows |-> {}] ELSE d.predictions
<1>1. /\ IsDatabase(d) /\ HasSomeTables(d) /\ d.version = 0 /\ d.alertsNew = NoTable
      /\ d.alerts = NoTable \/ IsAlerts(d.alerts)
  BY DEF At
<1>2. DOMAIN << >> = {} /\ IsFiniteSet({}) /\ \A R : << >> \in [{} -> R]
  BY FS_EmptySet
<1>3. \A R : IsTableOf(<< >>, R)
  BY <1>2 DEF IsTableOf
<1>4. IsAlerts(alerts) /\ IsActions(actions) /\ IsPredictions(predictions)
  <2>1. IsAlerts([shape |-> "v1", rows |-> << >>])
    BY <1>3 DEF IsAlerts
  <2>2. IsActions([setNull |-> FALSE, rows |-> << >>])
    BY <1>3 DEF IsActions
  <2>3. IsPredictions([fk |-> FALSE, rows |-> {}])
    BY DEF IsPredictions
  <2> QED BY <1>1, <2>1, <2>2, <2>3 DEF HasSomeTables
<1>5. /\ IsDatabase(e) /\ e.alerts = alerts /\ e.alertsNew = NoTable /\ e.version = 0
      /\ e.actions = actions /\ e.predictions = predictions /\ e.actionSeq = d.actionSeq
      /\ e.simulated
  <2>1. e = [version |-> d.version, alerts |-> alerts, alertsNew |-> d.alertsNew,
             actions |-> actions, actionSeq |-> d.actionSeq, predictions |-> predictions,
             simulated |-> TRUE, indexes |-> d.indexes]
    <3>1. e = [d EXCEPT !.alerts = alerts, !.actions = actions, !.predictions = predictions,
                        !.simulated = TRUE]
      BY DEF Baseline
    <3> HIDE DEF e, alerts, actions, predictions
    <3> QED BY <1>1, <3>1 DEF IsDatabase
  <2> HIDE DEF e, alerts, actions, predictions
  <2> QED BY <1>1, <2>1 DEF IsDatabase
<1>6. alerts.rows = Alerts(d) /\ actions.rows = Actions(d)
  BY <1>1 DEF Alerts, Actions
<1>7. alerts # NoTable /\ actions # NoTable
  BY <1>4 DEF IsAlerts, NoTable
<1> HIDE DEF e, alerts, actions, predictions
<1>8. At(4, e)
  BY <1>4, <1>5 DEF At, HasTables
<1>9. Keeps(d, e)
  BY <1>1, <1>5, <1>6, <1>7 DEF Keeps, Alerts, Actions, IsDatabase
<1> QED BY <1>8, <1>9 DEF e

LEMMA FirstBumped ==
  ASSUME NEW d, At(4, d)
  PROVE  At(5, Bumped(d)) /\ Keeps(d, Bumped(d))
<1> DEFINE e == Bumped(d)
<1>1. IsDatabase(d) /\ HasTables(d) /\ d.version = 0
  BY DEF At
<1>2. /\ IsDatabase(e) /\ e.alerts = d.alerts /\ e.alertsNew = d.alertsNew /\ e.version = 1
      /\ e.actions = d.actions /\ e.predictions = d.predictions /\ e.actionSeq = d.actionSeq
      /\ e.simulated = d.simulated
  BY <1>1 DEF IsDatabase, Bumped
<1> HIDE DEF e
<1>3. At(5, e)
  BY <1>1, <1>2 DEF At, HasTables
<1>4. Keeps(d, e)
  BY <1>1, <1>2 DEF Keeps, Alerts, Actions, IsDatabase
<1> QED BY <1>3, <1>4 DEF e

LEMMA TablesAreThere ==
  ASSUME NEW t
  PROVE  /\ IsAlerts(t) => t # NoTable
         /\ IsActions(t) => t # NoTable
<1>1. DOMAIN NoTable = {"shape"} /\ NoTable.shape = "none"
  BY DEF NoTable
<1>2. ASSUME IsActions(t) PROVE DOMAIN t = {"setNull", "rows"}
  BY <1>2 DEF IsActions
<1>3. {"setNull", "rows"} # {"shape"}
  OBVIOUS
<1> QED BY <1>1, <1>2, <1>3 DEF IsAlerts

\* What the statements of the second migration have in common: they rewrite rows, and
\* what makes an alert open, or an action somebody's, stays.
RewritesRows(d, R, A) ==
  /\ DOMAIN R = DOMAIN d.alerts.rows /\ R \in [DOMAIN R -> AlertRows]
  /\ \A i \in DOMAIN R : R[i].status = d.alerts.rows[i].status
  /\ DOMAIN A = DOMAIN d.actions.rows /\ A \in [DOMAIN A -> ActionRows]
  /\ \A i \in DOMAIN A : d.actions.rows[i].alert \in DOMAIN R
                         => A[i].alert = d.actions.rows[i].alert

Rewritten(d, shape, R, setNull, A, seq) ==
  [d EXCEPT !.alerts = [shape |-> shape, rows |-> R],
            !.actions = [setNull |-> setNull, rows |-> A], !.actionSeq = seq]

LEMMA RowsRewritten ==
  ASSUME NEW d, IsDatabase(d), HasTables(d), NEW R, NEW A, RewritesRows(d, R, A),
         NEW shape \in {"v1", "v2"}, NEW setNull \in BOOLEAN,
         NEW seq \in Nat, seq >= d.actionSeq
  PROVE  LET e == Rewritten(d, shape, R, setNull, A, seq)
         IN  /\ IsDatabase(e) /\ HasTables(e) /\ Keeps(d, e)
             /\ e.version = d.version /\ e.predictions = d.predictions /\ e.indexes = d.indexes
             /\ e.alerts.shape = shape /\ e.alerts.rows = R
             /\ e.actions.setNull = setNull /\ e.actions.rows = A
<1> DEFINE e == Rewritten(d, shape, R, setNull, A, seq)
           alerts == [shape |-> shape, rows |-> R]
           actions == [setNull |-> setNull, rows |-> A]
<1>1. e = [d EXCEPT !.alerts = alerts, !.actions = actions, !.actionSeq = seq]
  BY DEF Rewritten
<1>2. /\ alerts.shape = shape /\ alerts.rows = R
      /\ actions.setNull = setNull /\ actions.rows = A
      /\ alerts = [shape |-> alerts.shape, rows |-> alerts.rows]
      /\ actions = [setNull |-> actions.setNull, rows |-> actions.rows]
  OBVIOUS
<1> HIDE DEF e, alerts, actions
<1>3. e = [version |-> d.version, alerts |-> alerts, alertsNew |-> d.alertsNew,
           actions |-> actions, actionSeq |-> seq, predictions |-> d.predictions,
           simulated |-> d.simulated, indexes |-> d.indexes]
  BY <1>1 DEF IsDatabase
<1>4. /\ IsDatabase(e) /\ e.version = d.version /\ e.predictions = d.predictions
      /\ e.indexes = d.indexes /\ e.alerts = alerts /\ e.actions = actions
      /\ e.alertsNew = d.alertsNew /\ e.simulated = d.simulated /\ e.actionSeq = seq
  BY <1>3 DEF IsDatabase
<1>5. IsTableOf(R, AlertRows) /\ IsTableOf(A, ActionRows)
  BY DEF RewritesRows, IsTableOf, HasTables, IsAlerts, IsActions
<1>6. HasTables(e)
  BY <1>2, <1>4, <1>5 DEF HasTables, IsAlerts, IsActions
<1>7. Keeps(d, e)
  <2>1. Alerts(e) = R /\ Alerts(d) = d.alerts.rows /\ Actions(e) = A /\ Actions(d) = d.actions.rows
    <3>1. alerts # NoTable /\ d.alerts # NoTable
      BY <1>2 DEF HasTables, IsAlerts, NoTable
    <3>3. actions # NoTable /\ d.actions # NoTable
      BY <1>4, <1>6, TablesAreThere DEF HasTables
    <3> QED BY <1>2, <1>4, <3>1, <3>3 DEF Alerts, Actions
  <2>2. \A i \in DOMAIN R : R[i] \in AlertRows /\ d.alerts.rows[i] \in AlertRows
    BY DEF RewritesRows, HasTables, IsAlerts, IsTableOf
  <2>3. \A i \in DOMAIN R : IsOpen(R[i]) = IsOpen(d.alerts.rows[i])
    BY <2>2, RowForms DEF RewritesRows
  <2> QED BY <1>4, <2>1, <2>3 DEF Keeps, RewritesRows
<1> QED BY <1>2, <1>4, <1>6, <1>7 DEF e

LEMMA TimesNormalized ==
  ASSUME NEW d, At(5, d)
  PROVE  At(6, NormalizeTimes(d)) /\ Keeps(d, NormalizeTimes(d))
<1> DEFINE e == NormalizeTimes(d)
           old == d.alerts.rows
           R == [i \in DOMAIN old |->
                  [old[i] EXCEPT !.created = Rfc(@), !.triggered = Rfc(@), !.resolved = Rfc(@)]]
           A == [i \in DOMAIN d.actions.rows |-> [d.actions.rows[i] EXCEPT !.executed = Rfc(@)]]
<1>1. IsDatabase(d) /\ HasTables(d) /\ d.version = 1
  BY DEF At
<1>2. IsAlerts(d.alerts) /\ IsActions(d.actions)
  BY <1>1 DEF HasTables
<1>3. e = Rewritten(d, d.alerts.shape, R, d.actions.setNull, A, d.actionSeq)
  <2>1. e = [d EXCEPT !.alerts.rows = R, !.actions.rows = A]
    BY <1>1 DEF NormalizeTimes, IsDatabase
  <2> HIDE DEF e, R, A, old
  <2>2. [d.alerts EXCEPT !.rows = R] = [shape |-> d.alerts.shape, rows |-> R]
    BY <1>2 DEF IsAlerts
  <2>3. [d.actions EXCEPT !.rows = A] = [setNull |-> d.actions.setNull, rows |-> A]
    BY <1>2 DEF IsActions
  <2>4. e = [d EXCEPT !.alerts = [d.alerts EXCEPT !.rows = R],
                      !.actions = [d.actions EXCEPT !.rows = A]]
    BY <1>1, <2>1 DEF IsDatabase
  <2> QED BY <1>1, <2>2, <2>3, <2>4 DEF IsDatabase, Rewritten
<1>4. \A t \in Times : Rfc(t) \in Times /\ Rfc(t) \in {"rfc", Null}
  BY DEF Times, Rfc
<1>5. \A i \in DOMAIN old : old[i] \in AlertRows
  BY <1>2 DEF IsAlerts, IsTableOf
<1>6. \A i \in DOMAIN old :
        /\ R[i] \in AlertRows /\ R[i].status = old[i].status
        /\ {R[i].created, R[i].triggered, R[i].resolved} \subseteq {"rfc", Null}
  BY <1>4, <1>5 DEF AlertRows
<1>7. \A i \in DOMAIN d.actions.rows : d.actions.rows[i] \in ActionRows
  BY <1>2 DEF IsActions, IsTableOf
<1>8. \A i \in DOMAIN d.actions.rows :
        /\ A[i] \in ActionRows /\ A[i].alert = d.actions.rows[i].alert
        /\ A[i].executed \in {"rfc", Null}
  BY <1>4, <1>7 DEF ActionRows
<1>9. /\ DOMAIN R = DOMAIN old /\ DOMAIN A = DOMAIN d.actions.rows
      /\ R \in [DOMAIN R -> AlertRows] /\ A \in [DOMAIN A -> ActionRows]
  <2>1. DOMAIN R = DOMAIN old /\ DOMAIN A = DOMAIN d.actions.rows
    OBVIOUS
  <2> QED BY <1>6, <1>8, <2>1
<1> HIDE DEF e, R, A
<1>12. /\ d.alerts.shape \in {"v1", "v2"} /\ d.actions.setNull \in BOOLEAN
       /\ d.actionSeq \in Nat /\ d.actionSeq >= d.actionSeq
  BY <1>1, <1>2 DEF IsAlerts, IsActions, IsDatabase
<1>10. /\ IsDatabase(e) /\ HasTables(e) /\ Keeps(d, e)
       /\ e.version = d.version /\ e.alerts.rows = R /\ e.actions.rows = A
  <2>1. RewritesRows(d, R, A)
    BY <1>6, <1>8, <1>9 DEF RewritesRows
  <2> QED BY <1>1, <1>3, <1>12, <2>1, RowsRewritten
<1>11. At(6, e)
  BY <1>1, <1>6, <1>8, <1>9, <1>10 DEF At, InOneFormat
<1> QED BY <1>10, <1>11 DEF e

LEMMA TriggersFilled ==
  ASSUME NEW d, At(6, d)
  PROVE  At(7, TriggerTimes(d)) /\ Keeps(d, TriggerTimes(d))
<1> DEFINE e == TriggerTimes(d)
           old == d.alerts.rows
           R == [i \in DOMAIN old |->
                  [old[i] EXCEPT !.triggered = Trigger(old[i]),
                                 !.resolved = IF old[i].status = "resolved"
                                              THEN Coalesce(@, Trigger(old[i])) ELSE @]]
           A == d.actions.rows
<1>1. IsDatabase(d) /\ HasTables(d) /\ d.version = 1 /\ InOneFormat(d)
  BY DEF At
<1>2. IsAlerts(d.alerts) /\ IsActions(d.actions)
  BY <1>1 DEF HasTables
<1>3. e = Rewritten(d, d.alerts.shape, R, d.actions.setNull, A, d.actionSeq)
  <2>1. e = [d EXCEPT !.alerts.rows = R]
    BY <1>1 DEF TriggerTimes
  <2> HIDE DEF e, R, old
  <2>2. [d.alerts EXCEPT !.rows = R] = [shape |-> d.alerts.shape, rows |-> R]
    BY <1>2 DEF IsAlerts
  <2>3. d.actions = [setNull |-> d.actions.setNull, rows |-> A]
    BY <1>2 DEF IsActions
  <2>4. e = [d EXCEPT !.alerts = [d.alerts EXCEPT !.rows = R]]
    BY <2>1
  <2>5. e = [d EXCEPT !.alerts = [shape |-> d.alerts.shape, rows |-> R]]
    BY <2>2, <2>4
  <2> HIDE DEF A
  <2> QED BY <1>1, <2>3, <2>5 DEF IsDatabase, Rewritten
<1>4. \A i \in DOMAIN old : /\ old[i] \in AlertRows
                            /\ {old[i].created, old[i].triggered, old[i].resolved} \subseteq {"rfc", Null}
  BY <1>1, <1>2 DEF IsAlerts, IsTableOf, InOneFormat
<1>5. ASSUME NEW a \in AlertRows,
             {a.created, a.triggered, a.resolved} \subseteq {"rfc", Null}
      PROVE  Trigger(a) = "rfc" /\ Coalesce(a.resolved, Trigger(a)) = "rfc"
  BY <1>5 DEF Trigger, Coalesce, Now, Null
<1>6. \A i \in DOMAIN old :
        /\ R[i].triggered = "rfc" /\ R[i].created = old[i].created
        /\ R[i].resolved = IF old[i].status = "resolved" THEN "rfc" ELSE old[i].resolved
        /\ R[i] \in AlertRows /\ R[i].status = old[i].status
  <2>1. ASSUME NEW i \in DOMAIN old
        PROVE  /\ R[i].triggered = "rfc" /\ R[i].created = old[i].created
               /\ R[i].resolved = IF old[i].status = "resolved" THEN "rfc" ELSE old[i].resolved
               /\ R[i] \in AlertRows /\ R[i].status = old[i].status
    <3>1. R[i] = [old[i] EXCEPT !.triggered = "rfc",
                                !.resolved = IF old[i].status = "resolved" THEN "rfc" ELSE @]
      BY <1>4, <1>5
    <3>2. "rfc" \in Times
      BY DEF Times
    <3> HIDE DEF R
    <3> QED BY <1>4, <3>1, <3>2 DEF AlertRows
  <2> QED BY <2>1
<1>7. DOMAIN R = DOMAIN old
  OBVIOUS
<1> HIDE DEF e, R
<1>8. RewritesRows(d, R, A)
  <2>1. R \in [DOMAIN R -> AlertRows]
    <3>1. R = [i \in DOMAIN R |-> R[i]]
      BY DEF R
    <3> QED BY <1>6, <1>7, <3>1
  <2>2. A \in [DOMAIN A -> ActionRows]
    BY <1>2 DEF IsActions, IsTableOf
  <2> QED BY <1>6, <1>7, <2>1, <2>2 DEF RewritesRows
<1>9. /\ d.alerts.shape \in {"v1", "v2"} /\ d.actions.setNull \in BOOLEAN
      /\ d.actionSeq \in Nat /\ d.actionSeq >= d.actionSeq
  BY <1>1, <1>2 DEF IsAlerts, IsActions, IsDatabase
<1>10. /\ IsDatabase(e) /\ HasTables(e) /\ Keeps(d, e)
       /\ e.version = d.version /\ e.alerts.rows = R /\ e.actions.rows = A
  BY <1>1, <1>3, <1>8, <1>9, RowsRewritten
<1>11. InOneFormat(e)
  BY <1>1, <1>4, <1>6, <1>7, <1>10 DEF InOneFormat
<1>12. Triggered(e)
  BY <1>6, <1>7, <1>10 DEF Triggered, Null
<1>13. At(7, e)
  BY <1>1, <1>10, <1>11, <1>12 DEF At
<1> QED BY <1>10, <1>13 DEF e

LEMMA LifecycleAdded ==
  ASSUME NEW d, At(7, d)
  PROVE  At(8, Lifecycle(d)) /\ Keeps(d, Lifecycle(d))
<1> DEFINE e == Lifecycle(d)
           old == d.alerts.rows
           R == [i \in DOMAIN old |->
                  [old[i] EXCEPT !.lastFired = Coalesce(@, old[i].triggered)]]
           A == d.actions.rows
<1>1. IsDatabase(d) /\ HasTables(d) /\ d.version = 1 /\ InOneFormat(d) /\ Triggered(d)
  BY DEF At
<1>2. IsAlerts(d.alerts) /\ IsActions(d.actions)
  BY <1>1 DEF HasTables
<1>3. e = Rewritten(d, "v2", R, d.actions.setNull, A, d.actionSeq)
  <2>5. e = [d EXCEPT !.alerts = [shape |-> "v2", rows |-> R]]
    BY DEF Lifecycle
  <2> HIDE DEF e, R, old
  <2>3. d.actions = [setNull |-> d.actions.setNull, rows |-> A]
    BY <1>2 DEF IsActions
  <2> HIDE DEF A
  <2> QED BY <1>1, <2>3, <2>5 DEF IsDatabase, Rewritten
<1>4. \A i \in DOMAIN old :
        /\ old[i] \in AlertRows
        /\ {old[i].created, old[i].triggered, old[i].resolved} \subseteq {"rfc", Null}
        /\ old[i].triggered # Null /\ (old[i].status = "resolved" => old[i].resolved # Null)
  BY <1>1, <1>2 DEF IsAlerts, IsTableOf, InOneFormat, Triggered
<1>6. \A i \in DOMAIN old :
        /\ R[i].triggered = old[i].triggered /\ R[i].created = old[i].created
        /\ R[i].resolved = old[i].resolved /\ R[i].lastFired = "rfc"
        /\ R[i] \in AlertRows /\ R[i].status = old[i].status
  <2>1. ASSUME NEW i \in DOMAIN old
        PROVE  /\ R[i].triggered = old[i].triggered /\ R[i].created = old[i].created
               /\ R[i].resolved = old[i].resolved /\ R[i].lastFired = "rfc"
               /\ R[i] \in AlertRows /\ R[i].status = old[i].status
    <3>1. old[i].lastFired \in {Null, "rfc"}
      BY <1>4 DEF AlertRows
    <3>2. Coalesce(old[i].lastFired, old[i].triggered) = "rfc"
      BY <1>4, <3>1 DEF Coalesce, Null
    <3>3. R[i] = [old[i] EXCEPT !.lastFired = "rfc"]
      BY <3>2
    <3> HIDE DEF R
    <3> QED BY <1>4, <3>3 DEF AlertRows
  <2> QED BY <2>1
<1>7. DOMAIN R = DOMAIN old
  OBVIOUS
<1> HIDE DEF e, R
<1>8. RewritesRows(d, R, A)
  <2>1. R \in [DOMAIN R -> AlertRows]
    <3>1. R = [i \in DOMAIN R |-> R[i]]
      BY DEF R
    <3> QED BY <1>6, <1>7, <3>1
  <2>2. A \in [DOMAIN A -> ActionRows]
    BY <1>2 DEF IsActions, IsTableOf
  <2> QED BY <1>6, <1>7, <2>1, <2>2 DEF RewritesRows
<1>9. /\ d.actions.setNull \in BOOLEAN
      /\ d.actionSeq \in Nat /\ d.actionSeq >= d.actionSeq
  BY <1>1, <1>2 DEF IsActions, IsDatabase
<1>10. /\ IsDatabase(e) /\ HasTables(e) /\ Keeps(d, e)
       /\ e.version = d.version /\ e.alerts.rows = R /\ e.actions.rows = A
       /\ e.alerts.shape = "v2"
  BY <1>1, <1>3, <1>8, <1>9, RowsRewritten
<1>11. InOneFormat(e)
  BY <1>1, <1>4, <1>6, <1>7, <1>10 DEF InOneFormat
<1>12. Triggered(e) /\ Fired(e)
  BY <1>4, <1>6, <1>7, <1>10 DEF Triggered, Fired, Null
<1>13. At(8, e)
  BY <1>1, <1>10, <1>11, <1>12 DEF At
<1> QED BY <1>10, <1>13 DEF e

LEMMA GreatestId ==
  ASSUME NEW S \in SUBSET Nat, IsFiniteSet(S), S # {}
  PROVE  Max(S) \in S /\ \A n \in S : Max(S) >= n
<1> DEFINE Above(m) == {n \in S : n > m}
           Aboves == {Above(m) : m \in S}
           R == StrictSubsetOrdering(S)
<1>1. IsWellFoundedOn(R, FiniteSubsetsOf(S))
  BY FS_StrictSubsetOrderingWellFounded
<1>2. Aboves \subseteq FiniteSubsetsOf(S) /\ Aboves # {}
  <2>1. ASSUME NEW m \in S PROVE Above(m) \in FiniteSubsetsOf(S)
    <3>1. IsFiniteSet(Above(m))
      BY FS_Subset
    <3> QED BY <3>1 DEF FiniteSubsetsOf
  <2> QED BY <2>1
<1> HIDE DEF Aboves, R
<1>3. PICK x \in Aboves : \A y \in Aboves : ~ (<<y, x>> \in R)
  BY <1>1, <1>2, WFMin
<1>4. PICK m \in S : x = Above(m)
  BY DEF Aboves
<1>5. ASSUME NEW n \in S, ~ (m >= n) PROVE FALSE
  <2>1. Above(n) \in Aboves
    BY DEF Aboves
  <2>2. Above(n) \subseteq x /\ x \subseteq S /\ n \in x /\ n \notin Above(n)
    <3>1. n > m /\ \A k \in S : k \in Nat
      BY <1>5
    <3>2. (\A k \in S : k > n => k > m) /\ ~ (n > n)
      BY <3>1
    <3>3. n \in Above(m) /\ n \notin Above(n) /\ Above(m) \subseteq S
      BY <3>1, <3>2, Zenon
    <3>4. Above(n) \subseteq Above(m)
      BY <3>2, Zenon
    <3> QED BY <1>4, <3>3, <3>4, Zenon
  <2>3. <<Above(n), x>> \in R
    BY <2>2 DEF R, StrictSubsetOrdering
  <2> QED BY <1>3, <2>1, <2>3
<1> QED BY <1>5 DEF Max

LEMMA SequenceCarried ==
  ASSUME NEW old \in Nat, NEW rows, IsTableOf(rows, ActionRows)
  PROVE  CarrySequence(old, rows) \in Nat /\ CarrySequence(old, rows) >= old
<1>1. IsFiniteSet(DOMAIN rows \cup {NoId}) /\ DOMAIN rows \cup {NoId} \subseteq Nat
  BY FS_AddElement DEF IsTableOf, NoId
<1>2. Copied(rows) \in Nat
  BY <1>1, GreatestId DEF Copied
<1>3. IsFiniteSet({old, Copied(rows)})
  <2>1. IsFiniteSet({old})
    BY FS_Singleton
  <2>2. {old, Copied(rows)} = {old} \cup {Copied(rows)}
    OBVIOUS
  <2> QED BY <2>1, <2>2, FS_AddElement
<1> QED BY <1>2, <1>3, GreatestId DEF CarrySequence

LEMMA ActionsRebuiltOnce ==
  ASSUME NEW d, At(8, d)
  PROVE  At(9, RebuildActions(d)) /\ Keeps(d, RebuildActions(d))
<1> DEFINE e == RebuildActions(d)
           R == d.alerts.rows
           old == d.actions.rows
           A == [i \in DOMAIN old |->
                  [alert |-> IF old[i].alert \in DOMAIN R THEN old[i].alert ELSE NoId,
                   executed |-> Coalesce(old[i].executed, Now)]]
           seq == CarrySequence(d.actionSeq, old)
<1>1. /\ IsDatabase(d) /\ HasTables(d) /\ d.version = 1 /\ InOneFormat(d)
      /\ Triggered(d) /\ Fired(d)
  BY DEF At
<1>2. IsAlerts(d.alerts) /\ IsActions(d.actions)
  BY <1>1 DEF HasTables
<1>3. e = Rewritten(d, d.alerts.shape, R, TRUE, A, seq)
  <2>1. e = [d EXCEPT !.actions = [setNull |-> TRUE, rows |-> A], !.actionSeq = seq]
    BY DEF RebuildActions
  <2> HIDE DEF e, A, old, seq
  <2>2. d.alerts = [shape |-> d.alerts.shape, rows |-> R]
    BY <1>2 DEF IsAlerts
  <2> HIDE DEF R
  <2> QED BY <1>1, <2>1, <2>2 DEF IsDatabase, Rewritten
<1>4. \A i \in DOMAIN old : old[i] \in ActionRows /\ old[i].executed \in {"rfc", Null}
  BY <1>1, <1>2 DEF IsActions, IsTableOf, InOneFormat
<1>5. \A i \in DOMAIN old :
        /\ A[i] \in ActionRows /\ A[i].executed = "rfc" /\ A[i].alert \in DOMAIN R \cup {NoId}
        /\ old[i].alert \in DOMAIN R => A[i].alert = old[i].alert
  BY <1>4 DEF ActionRows, Coalesce, Now, Times, NoId
<1>6. DOMAIN A = DOMAIN old /\ A \in [DOMAIN A -> ActionRows]
  <2>1. DOMAIN A = DOMAIN old /\ A = [i \in DOMAIN A |-> A[i]]
    OBVIOUS
  <2> HIDE DEF A
  <2> QED BY <1>5, <2>1
<1> HIDE DEF e, A
<1>7. RewritesRows(d, R, A)
  <2>1. R \in [DOMAIN R -> AlertRows]
    BY <1>2 DEF IsAlerts, IsTableOf
  <2> QED BY <1>5, <1>6, <2>1 DEF RewritesRows
<1>8. d.alerts.shape \in {"v1", "v2"} /\ seq \in Nat /\ seq >= d.actionSeq
  BY <1>1, <1>2, SequenceCarried DEF IsAlerts, IsActions, IsDatabase
<1> HIDE DEF seq
<1>9. /\ IsDatabase(e) /\ HasTables(e) /\ Keeps(d, e)
      /\ e.version = d.version /\ e.alerts.rows = R /\ e.actions.rows = A
      /\ e.alerts.shape = d.alerts.shape /\ e.actions.setNull
  <2>1. PICK setNull \in BOOLEAN : setNull = TRUE
    OBVIOUS
  <2>2. e = Rewritten(d, d.alerts.shape, R, setNull, A, seq)
    BY <1>3, <2>1, Zenon
  <2>3. /\ IsDatabase(e) /\ HasTables(e) /\ Keeps(d, e)
        /\ e.version = d.version /\ e.alerts.rows = R /\ e.actions.rows = A
        /\ e.alerts.shape = d.alerts.shape /\ e.actions.setNull = setNull
    BY <1>1, <1>7, <1>8, <2>2, RowsRewritten
  <2> QED BY <2>1, <2>3, Zenon
<1>10. InOneFormat(e) /\ Triggered(e) /\ Fired(e)
  BY <1>1, <1>5, <1>6, <1>9 DEF InOneFormat, Triggered, Fired
<1>11. ActionsRebuilt(e)
  BY <1>5, <1>6, <1>9 DEF ActionsRebuilt
<1>12. At(9, e)
  BY <1>1, <1>9, <1>10, <1>11 DEF At
<1> QED BY <1>9, <1>12 DEF e

LEMMA PredictionsRebuilt ==
  ASSUME NEW d, At(9, d)
  PROVE  At(10, RebuildPredictions(d)) /\ Keeps(d, RebuildPredictions(d))
<1> DEFINE e == RebuildPredictions(d)
           predictions == [fk |-> FALSE, rows |-> d.predictions.rows]
<1>1. /\ IsDatabase(d) /\ HasTables(d) /\ d.version = 1 /\ InOneFormat(d)
      /\ Triggered(d) /\ Fired(d) /\ ActionsRebuilt(d)
  BY DEF At
<1>2. CASE d.predictions.fk
  <2>1. e = [d EXCEPT !.predictions = predictions]
    BY <1>2 DEF RebuildPredictions
  <2>2. IsPredictions(predictions) /\ ~ predictions.fk
    BY DEF IsPredictions
  <2> HIDE DEF predictions
  <2>3. /\ IsDatabase(e) /\ e.version = d.version /\ e.alerts = d.alerts /\ e.actions = d.actions
        /\ e.predictions = predictions /\ e.alertsNew = d.alertsNew
        /\ e.simulated = d.simulated /\ e.actionSeq = d.actionSeq
    BY <1>1, <2>1 DEF IsDatabase
  <2> HIDE DEF e
  <2>4. At(10, e)
    BY <1>1, <2>2, <2>3 DEF At, HasTables, InOneFormat, Triggered, Fired, ActionsRebuilt
  <2>5. Keeps(d, e)
    BY <1>1, <2>3 DEF Keeps, Alerts, Actions, IsDatabase
  <2> QED BY <2>4, <2>5 DEF e
<1>3. CASE ~ d.predictions.fk
  <2>1. e = d
    BY <1>3 DEF RebuildPredictions
  <2>2. At(10, d) /\ Keeps(d, d)
    BY <1>1, <1>3 DEF At, Keeps, IsDatabase
  <2> QED BY <2>1, <2>2
<1> QED BY <1>2, <1>3

LEMMA IndexesCreated ==
  ASSUME NEW d, At(10, d)
  PROVE  At(11, Indexes(d)) /\ Keeps(d, Indexes(d))
<1> DEFINE e == Indexes(d)
<1>1. /\ IsDatabase(d) /\ HasTables(d) /\ d.version = 1 /\ InOneFormat(d)
      /\ Triggered(d) /\ Fired(d) /\ ActionsRebuilt(d) /\ ~ d.predictions.fk
  BY DEF At
<1>2. /\ IsDatabase(e) /\ e.version = d.version /\ e.alerts = d.alerts /\ e.actions = d.actions
      /\ e.predictions = d.predictions /\ e.alertsNew = d.alertsNew /\ e.indexes
      /\ e.simulated = d.simulated /\ e.actionSeq = d.actionSeq
  <2>1. e = [d EXCEPT !.indexes = TRUE] /\ IsDatabase(d)
    BY <1>1 DEF Indexes
  <2> HIDE DEF e
  <2>2. IsDatabase(e) /\ e.version = d.version /\ e.alerts = d.alerts /\ e.actions = d.actions
        /\ e.predictions = d.predictions /\ e.alertsNew = d.alertsNew
        /\ e.simulated = d.simulated /\ e.actionSeq = d.actionSeq
    BY <2>1 DEF IsDatabase
  <2>3. e.indexes = TRUE
    BY <2>1 DEF IsDatabase
  <2> QED BY <2>2, <2>3
<1> HIDE DEF e
<1>3. At(11, e)
  BY <1>1, <1>2 DEF At, HasTables, InOneFormat, Triggered, Fired, ActionsRebuilt
<1>4. Keeps(d, e)
  BY <1>1, <1>2 DEF Keeps, Alerts, Actions, IsDatabase
<1> QED BY <1>3, <1>4 DEF e

LEMMA SecondBumped ==
  ASSUME NEW d, At(11, d)
  PROVE  At(12, Bumped(d)) /\ Keeps(d, Bumped(d))
<1> DEFINE e == Bumped(d)
<1>1. /\ IsDatabase(d) /\ HasTables(d) /\ d.version = 1 /\ InOneFormat(d)
      /\ Triggered(d) /\ Fired(d) /\ ActionsRebuilt(d) /\ ~ d.predictions.fk /\ d.indexes
  BY DEF At
<1>2. /\ IsDatabase(e) /\ e.version = 2 /\ e.alerts = d.alerts /\ e.actions = d.actions
      /\ e.predictions = d.predictions /\ e.alertsNew = d.alertsNew /\ e.indexes
      /\ e.simulated = d.simulated /\ e.actionSeq = d.actionSeq
  <2>1. e = [d EXCEPT !.version = @ + 1] /\ IsDatabase(d) /\ d.version = 1
    BY <1>1 DEF Bumped
  <2> HIDE DEF e
  <2>2. IsDatabase(e) /\ e.version = 2 /\ e.alerts = d.alerts /\ e.actions = d.actions
        /\ e.predictions = d.predictions /\ e.alertsNew = d.alertsNew
        /\ e.simulated = d.simulated /\ e.actionSeq = d.actionSeq
    BY <2>1 DEF IsDatabase
  <2>3. e.indexes = d.indexes
    BY <2>1 DEF IsDatabase
  <2> QED BY <1>1, <2>2, <2>3
<1> HIDE DEF e
<1>3. HasTables(e)
  BY <1>1, <1>2 DEF HasTables
<1>4. TablesAreNew(e)
  <2>1. e.alerts.shape = "v2" /\ e.simulated /\ e.indexes /\ e.actions.setNull
        /\ ~ e.predictions.fk /\ e.alertsNew = NoTable
    BY <1>1, <1>2 DEF HasTables, Fired, ActionsRebuilt
  <2>2. ASSUME NEW i \in DOMAIN e.alerts.rows
        PROVE  LET a == e.alerts.rows[i]
               IN /\ {a.created, a.triggered, a.resolved, a.lastFired} \subseteq {"rfc", Null}
                  /\ a.triggered # Null /\ a.lastFired # Null
                  /\ a.status = "resolved" => a.resolved # Null
    <3> DEFINE a == e.alerts.rows[i]
    <3>1. a \in AlertRows
      BY <1>3 DEF HasTables, IsAlerts, IsTableOf
    <3>2. a.lastFired \in {Null, "rfc"}
      BY <3>1 DEF AlertRows
    <3>3. /\ {a.created, a.triggered, a.resolved} \subseteq {"rfc", Null}
          /\ a.triggered # Null /\ (a.status = "resolved" => a.resolved # Null)
          /\ a.lastFired # Null
      BY <1>1, <1>2 DEF InOneFormat, Triggered, Fired
    <3> HIDE DEF a
    <3>4. /\ {a.created, a.triggered, a.resolved, a.lastFired} \subseteq {"rfc", Null}
          /\ a.triggered # Null /\ a.lastFired # Null
          /\ a.status = "resolved" => a.resolved # Null
      BY <3>2, <3>3
    <3> QED BY <3>4 DEF a
  <2>3. \A i \in DOMAIN e.actions.rows :
          /\ e.actions.rows[i].executed = "rfc"
          /\ e.actions.rows[i].alert \in DOMAIN e.alerts.rows \cup {NoId}
    BY <1>1, <1>2 DEF ActionsRebuilt
  <2> QED BY <2>1, <2>2, <2>3 DEF TablesAreNew
<1>5. At(12, e)
  BY <1>2, <1>3, <1>4 DEF At, Whole, SchemaVersion
<1>6. Keeps(d, e)
  BY <1>1, <1>2 DEF Keeps, Alerts, Actions, IsDatabase
<1> QED BY <1>5, <1>6 DEF e

\* Every statement does its part and keeps the history.
LEMMA StatementsMigrate ==
  ASSUME NEW n \in 1 .. 11, NEW d, At(n, d)
  PROVE  At(n + 1, Executed(Statements[n], d)) /\ Keeps(d, Executed(Statements[n], d))
<1>1. CASE n = 1
  <2>1. Executed(Statements[n], d) = Leftovers(d)
    BY <1>1 DEF Statements, Executed
  <2> QED BY <1>1, <2>1, LeftoversCleared
<1>2. CASE n = 2
  <2>1. Executed(Statements[n], d) = LegacyAlerts(d)
    BY <1>2 DEF Statements, Executed
  <2> QED BY <1>2, <2>1, LegacyConverted
<1>3. CASE n = 3
  <2>1. Executed(Statements[n], d) = Baseline(d)
    BY <1>3 DEF Statements, Executed
  <2> QED BY <1>3, <2>1, BaselineCreated
<1>4. CASE n = 4
  <2>1. Executed(Statements[n], d) = Bumped(d)
    BY <1>4 DEF Statements, Executed
  <2> QED BY <1>4, <2>1, FirstBumped
<1>5. CASE n = 5
  <2>1. Executed(Statements[n], d) = NormalizeTimes(d)
    BY <1>5 DEF Statements, Executed
  <2> QED BY <1>5, <2>1, TimesNormalized
<1>6. CASE n = 6
  <2>1. Executed(Statements[n], d) = TriggerTimes(d)
    BY <1>6 DEF Statements, Executed
  <2> QED BY <1>6, <2>1, TriggersFilled
<1>7. CASE n = 7
  <2>1. Executed(Statements[n], d) = Lifecycle(d)
    BY <1>7 DEF Statements, Executed
  <2> QED BY <1>7, <2>1, LifecycleAdded
<1>8. CASE n = 8
  <2>1. Executed(Statements[n], d) = RebuildActions(d)
    BY <1>8 DEF Statements, Executed
  <2> QED BY <1>8, <2>1, ActionsRebuiltOnce
<1>9. CASE n = 9
  <2>1. Executed(Statements[n], d) = RebuildPredictions(d)
    BY <1>9 DEF Statements, Executed
  <2> QED BY <1>9, <2>1, PredictionsRebuilt
<1>10. CASE n = 10
  <2>1. Executed(Statements[n], d) = Indexes(d)
    BY <1>10 DEF Statements, Executed
  <2> QED BY <1>10, <2>1, IndexesCreated
<1>11. CASE n = 11
  <2>1. Executed(Statements[n], d) = Bumped(d)
    BY <1>11 DEF Statements, Executed
  <2> QED BY <1>11, <2>1, SecondBumped
<1> QED BY <1>1, <1>2, <1>3, <1>4, <1>5, <1>6, <1>7, <1>8, <1>9, <1>10, <1>11

\* What is committed has the form of its version and keeps the history.
Committed == first \in Originals /\ Whole(db) /\ Keeps(first, db)

\* A transaction holds the lock, sees what its statements have made so far, and ends
\* before its process is let in.
Transactions ==
  \A p \in Processes :
    /\ stage[p] = "steps" => lock = p /\ At(next[p], work) /\ Keeps(first, work)
    /\ lock = p => stage[p] \in {"steps", "restore"}
    /\ result[p] = "ok" => db.version >= SchemaVersion
    /\ stage[p] = "in" => result[p] = "ok"
    /\ stage[p] \in {"in", "failed"} => enforced[p]

MigrationTypes ==
  /\ lock \in Processes \cup {NobodysLock}
  /\ next \in [Processes -> 1 .. 12]
  /\ stage \in [Processes -> {"out", "begin", "steps", "restore", "in", "failed"}]
  /\ result \in [Processes -> {"none", "ok", "error"}]
  /\ enforced \in [Processes -> BOOLEAN]

MigrationInv == MigrationTypes /\ Committed /\ Transactions

LEMMA KeepsOn ==
  ASSUME NEW a, NEW b, NEW c, IsDatabase(a), IsDatabase(b), IsDatabase(c),
         Keeps(a, b), Keeps(b, c)
  PROVE  Keeps(a, c)
<1>1. c.actionSeq >= a.actionSeq
  BY DEF Keeps, IsDatabase
<1>2. DOMAIN Alerts(c) = DOMAIN Alerts(a) /\ DOMAIN Actions(c) = DOMAIN Actions(a)
  BY Zenon DEF Keeps
<1>3. \A i \in DOMAIN Alerts(a) : IsOpen(Alerts(c)[i]) = IsOpen(Alerts(a)[i])
  <2>1. ASSUME NEW i \in DOMAIN Alerts(a) PROVE IsOpen(Alerts(c)[i]) = IsOpen(Alerts(a)[i])
    <3>1. IsOpen(Alerts(b)[i]) = IsOpen(Alerts(a)[i]) /\ i \in DOMAIN Alerts(b)
      BY Zenon DEF Keeps
    <3>2. IsOpen(Alerts(c)[i]) = IsOpen(Alerts(b)[i])
      BY <3>1, Zenon DEF Keeps
    <3> QED BY <3>1, <3>2, Zenon
  <2> QED BY <2>1
<1>4. \A i \in DOMAIN Actions(a) :
        Actions(a)[i].alert \in DOMAIN Alerts(a) => Actions(c)[i].alert = Actions(a)[i].alert
  BY DEF Keeps
<1> QED BY <1>1, <1>2, <1>3, <1>4 DEF Keeps

\* Where the transaction starts.
LEMMA StartsWhole ==
  ASSUME NEW d, Whole(d)
  PROVE  FirstStatement(d.version) \in 1 .. 12 /\ At(FirstStatement(d.version), d)
<1>1. IsDatabase(d) /\ d.version \in Nat
  BY DEF Whole, IsDatabase
<1>2. Len(Statements) = 11
  BY DEF Statements
<1>3. CASE d.version = 0
  <2>1. FirstStatement(d.version) = 1
    BY <1>3 DEF FirstStatement
  <2> QED BY <1>1, <1>3, <2>1 DEF At, Whole
<1>4. CASE d.version = 1
  <2>1. FirstStatement(d.version) = 5
    BY <1>4 DEF FirstStatement
  <2> QED BY <1>1, <1>4, <2>1 DEF At, Whole, SchemaVersion
<1>5. CASE d.version >= 2
  <2>1. FirstStatement(d.version) = 12
    BY <1>1, <1>2, <1>5 DEF FirstStatement
  <2> QED BY <1>1, <1>5, <2>1 DEF At, Whole, SchemaVersion
<1> QED BY <1>1, <1>3, <1>4, <1>5

LEMMA MigrationBegins ==
  MigrationInit => MigrationInv
<1> SUFFICES ASSUME MigrationInit PROVE MigrationInv
  OBVIOUS
<1>1. MigrationTypes
  BY DEF MigrationInit, MigrationTypes
<1>2. Committed
  <2>1. Whole(first) /\ IsDatabase(first)
    BY OriginalsAssumption DEF MigrationInit, Whole
  <2>2. Keeps(first, first)
    BY <2>1 DEF Keeps, IsDatabase
  <2> QED BY <2>1, <2>2 DEF MigrationInit, Committed
<1>3. Transactions
  BY ProcessesAssumption DEF MigrationInit, Transactions
<1> QED BY <1>1, <1>2, <1>3 DEF MigrationInv

LEMMA MigrationStays ==
  MigrationInv /\ [MigrationNext]_migrationVars => MigrationInv'
<1> SUFFICES ASSUME MigrationInv, [MigrationNext]_migrationVars PROVE MigrationInv'
  OBVIOUS
<1>0. MigrationTypes /\ Committed /\ Transactions
  BY DEF MigrationInv
<1>1. CASE UNCHANGED migrationVars
  BY <1>0, <1>1 DEF MigrationInv, MigrationTypes, Committed, Transactions, migrationVars, proc
<1>2. ASSUME NEW p \in Processes, Step(p) PROVE MigrationInv'
  <2>1. CASE Open(p)
    BY <1>0, <2>1 DEF Open, Goto, MigrationInv, MigrationTypes, Committed, Transactions
  <2>2. CASE Begin(p)
    <3>1. FirstStatement(db.version) \in 1 .. 12 /\ At(FirstStatement(db.version), db)
      BY <1>0, StartsWhole DEF Committed
    <3>2. MigrationTypes'
      BY <1>0, <2>2, <3>1 DEF Begin, Goto, MigrationTypes
    <3>3. Committed'
      BY <1>0, <2>2 DEF Begin, Committed
    <3>4. \A q \in Processes \ {p} : stage[q] # "steps"
      BY <1>0, <2>2, ProcessesAssumption DEF Begin, Transactions
    <3>5. Transactions'
      BY <1>0, <2>2, <3>1, <3>4 DEF Begin, Goto, Transactions, MigrationTypes, Committed
    <3> QED BY <3>2, <3>3, <3>5 DEF MigrationInv
  <2>3. CASE Busy(p)
    BY <1>0, <2>3 DEF Busy, Goto, MigrationInv, MigrationTypes, Committed, Transactions
  <2>4. CASE Statement(p)
    <3>1. stage[p] = "steps" /\ next[p] \in 1 .. 11
      BY <1>0, <2>4 DEF Statement, Statements
    <3>2. lock = p /\ At(next[p], work) /\ Keeps(first, work)
      BY <1>0, <3>1 DEF Transactions
    <3> DEFINE made == Executed(Statements[next[p]], work)
    <3>3. At(next[p] + 1, made) /\ Keeps(work, made)
      BY <3>1, <3>2, StatementsMigrate
    <3> HIDE DEF made
    <3>4. IsDatabase(first) /\ IsDatabase(work) /\ IsDatabase(made)
      BY <1>0, <3>2, <3>3, OriginalsAssumption DEF Committed, At
    <3>5. Keeps(first, made)
      BY <3>2, <3>3, <3>4, KeepsOn
    <3>6. work' = made /\ next' = [next EXCEPT ![p] = @ + 1]
          /\ UNCHANGED <<first, db, lock, stage, result, enforced>>
      BY <2>4 DEF Statement, made
    <3>7. MigrationTypes'
      BY <1>0, <3>1, <3>6 DEF MigrationTypes
    <3>8. Committed'
      BY <1>0, <3>6 DEF Committed
    <3>9. \A q \in Processes \ {p} : stage[q] # "steps"
      BY <1>0, <3>2 DEF Transactions
    <3>10. Transactions'
      BY <1>0, <3>2, <3>3, <3>5, <3>6, <3>9 DEF Transactions, MigrationTypes
    <3> QED BY <3>7, <3>8, <3>10 DEF MigrationInv
  <2>5. CASE Fails(p)
    <3>1. \A q \in Processes \ {p} : stage[q] # "steps"
      BY <1>0, <2>5 DEF Fails, Transactions
    <3>2. lock = p
      BY <1>0, <2>5 DEF Fails, Transactions
    <3>3. MigrationTypes'
      BY <1>0, <2>5 DEF Fails, Goto, MigrationTypes
    <3>4. Committed'
      BY <1>0, <2>5 DEF Fails, Committed
    <3>5. Transactions'
      BY <1>0, <2>5, <3>1, <3>2, ProcessesAssumption DEF Fails, Goto, Transactions, MigrationTypes
    <3> QED BY <3>3, <3>4, <3>5 DEF MigrationInv
  <2>6. CASE Commit(p)
    <3>1. stage[p] = "steps" /\ next[p] = 12
      BY <1>0, <2>6 DEF Commit, Statements, MigrationTypes
    <3>2. lock = p /\ At(12, work) /\ Keeps(first, work)
      BY <1>0, <3>1 DEF Transactions
    <3>3. Whole(work) /\ work.version >= SchemaVersion
      BY <3>2 DEF At
    <3>4. \A q \in Processes \ {p} : stage[q] # "steps"
      BY <1>0, <3>2 DEF Transactions
    <3>5. MigrationTypes'
      BY <1>0, <2>6 DEF Commit, Goto, MigrationTypes
    <3>6. Committed'
      BY <1>0, <2>6, <3>2, <3>3 DEF Commit, Committed
    <3>7. Transactions'
      BY <1>0, <2>6, <3>2, <3>3, <3>4, ProcessesAssumption
         DEF Commit, Goto, Transactions, MigrationTypes
    <3> QED BY <3>5, <3>6, <3>7 DEF MigrationInv
  <2>7. CASE Restore(p)
    <3>1. MigrationTypes'
      BY <1>0, <2>7 DEF Restore, Goto, MigrationTypes
    <3>2. Committed'
      BY <1>0, <2>7 DEF Restore, Committed
    <3>3. Transactions'
      BY <1>0, <2>7, ProcessesAssumption DEF Restore, Goto, Transactions, MigrationTypes
    <3> QED BY <3>1, <3>2, <3>3 DEF MigrationInv
  <2>8. CASE Crash(p)
    <3>1. MigrationTypes'
      BY <1>0, <2>8 DEF Crash, Goto, MigrationTypes
    <3>2. Committed'
      BY <1>0, <2>8 DEF Crash, Committed
    <3>3. Transactions'
      BY <1>0, <2>8, ProcessesAssumption DEF Crash, Goto, Transactions, MigrationTypes
    <3> QED BY <3>1, <3>2, <3>3 DEF MigrationInv
  <2> QED BY <1>2, <2>1, <2>2, <2>3, <2>4, <2>5, <2>6, <2>7, <2>8 DEF Step
<1> QED BY <1>1, <1>2 DEF MigrationNext

\* Between any two statements of a migration, whoever runs it and whoever waits for
\* the lock, what is committed has the form of its version, and what a transaction
\* sees has the form its next statement relies on.
THEOREM MigrationCorrect == MigrationSpec => []MigrationInv
<1> QED BY MigrationBegins, MigrationStays, PTL DEF MigrationSpec

\* No upgrade, crash, failed foreign key check or second process loses an alert or an
\* action of the database that was there first, or reopens an alert that had ended.
THEOREM MigrationKeepsHistory == MigrationSpec => []HistoryKept
<1>1. MigrationInv => HistoryKept
  BY DEF MigrationInv, Committed, HistoryKept
<1> QED BY <1>1, MigrationCorrect, PTL

\* A process for which run_migrations returned Ok has a database of the current
\* version with its tables whole, also when another process migrated it.
THEOREM MigrationReady == MigrationSpec => []ReadyWhenIn
<1>1. MigrationInv => ReadyWhenIn
  BY DEF MigrationInv, Committed, Transactions, Whole, ReadyWhenIn
<1> QED BY <1>1, MigrationCorrect, PTL

-----------------------------------------------------------------------------
(* The end of the hub                                                      *)

InLane(s) == \E k \in 1 .. Len(lane) : s \in lane[k]

\* What is owed while the alert manager is asked for its buffer: it is written or
\* in the lane, or it is in the buffer or ahead of the request in the mailbox.
ManagerCovers ==
  \A s \in owed :
    \/ s \in stored \cup dropped
    \/ InLane(s)
    \/ /\ FlushPending
       /\ \/ s \in buffer
          \/ \E j \in 1 .. Len(mailbox) :
               /\ mailbox[j] = s
               /\ \A i \in 1 .. Len(mailbox) : mailbox[i] = FlushMetrics => j < i

LaneCovers == \A s \in owed : s \in stored \cup dropped \/ InLane(s)

\* And while the writer is waited for: written, or ahead of the barrier.
BarrierCovers ==
  \A s \in owed :
    \/ s \in stored \cup dropped
    \/ /\ BarrierPending
       /\ \E k \in 1 .. Len(lane) :
            /\ s \in lane[k]
            /\ \A i \in 1 .. Len(lane) : lane[i] = Barrier => k < i

Phases == Starting \cup Ending \cup {"down", "serving"}

SamplesFollowed ==
  /\ phase \in Phases
  /\ mailbox \in Seq(Nat) /\ lane \in Seq(SUBSET Nat) /\ buffer \in SUBSET Nat
  /\ 0 \notin stored /\ 0 \notin dropped /\ 0 \notin buffer /\ 0 \notin owed
  /\ FlushPending => phase \in {"flushing", "slot", "draining", "returned"}
  /\ BarrierPending => phase \in {"draining", "returned"}
  /\ phase = "flushing" => ManagerCovers
  /\ phase = "slot" /\ ~ late => LaneCovers
  /\ phase = "draining" /\ ~ late => BarrierCovers
  /\ outcome = "ok" => phase \in {"returned", "down"}
  /\ outcome = "ok" /\ ~ late => owed \subseteq stored \cup dropped

JoinTypes == waited \in Nat /\ joined \in Nat /\ closedAt \in Int

\* The widget asks its hub to stop once, then joins it.
HubClosed == closedAt # -1
JoinStages ==
  /\ app = "absent" <=> host # "widget"
  /\ app = "launching" => phase = "down" /\ outcome = "none" /\ stopping = "no"
  /\ app = "gone" => phase = "down"
  /\ HubClosed => host = "widget"
  /\ host = "widget" =>
       /\ outcome = "killed" => app = "gone"
       /\ stopping # "no" => stopped
       /\ asked => stopping \in {"join hub", "done"}
       /\ phase \in Ending \ {"returned"} => asked
       /\ phase \in Starting \cup {"serving", "closing"} => ~ HubClosed
       /\ HubClosed => stopping \in {"join hub", "done"}

\* A hub whose server closed as the join began has waited as long as the join, which
\* is longer than its own two waits.
JoinClock ==
  host = "widget" =>
    /\ stopping = "done" => phase = "down" \/ joined >= HubStopTimeout
    /\ closedAt = 0 /\ stopping = "join hub" =>
         /\ phase = "flushing" => joined = waited /\ waited <= FlushWait
         /\ phase \in {"slot", "draining"} => joined <= FlushWait + waited /\ waited <= DrainWait
    /\ closedAt = 0 /\ stopping = "done" => phase \in {"returned", "down"} /\ outcome # "killed"

HubJoined == JoinTypes /\ JoinStages /\ JoinClock

WidgetInv == SamplesFollowed /\ HubJoined

LEMMA EndsOfSeq ==
  ASSUME NEW S, NEW q \in Seq(S), NEW x \in S
  PROVE  /\ DOMAIN q = 1 .. Len(q) /\ Len(q) \in Nat
         /\ Append(q, x) \in Seq(S) /\ Len(Append(q, x)) = Len(q) + 1
         /\ Append(q, x)[Len(q) + 1] = x
         /\ \A i \in 1 .. Len(q) : Append(q, x)[i] = q[i] /\ q[i] \in S
         /\ q # <<>> => /\ Tail(q) \in Seq(S) /\ Len(Tail(q)) = Len(q) - 1 /\ Len(q) >= 1
                        /\ \A i \in 1 .. Len(Tail(q)) : Tail(q)[i] = q[i + 1]
                        /\ Head(q) = q[1]
<1>1. /\ DOMAIN q = 1 .. Len(q) /\ Len(q) \in Nat
      /\ Append(q, x) \in Seq(S) /\ Len(Append(q, x)) = Len(q) + 1
      /\ Append(q, x)[Len(q) + 1] = x
      /\ \A i \in 1 .. Len(q) : Append(q, x)[i] = q[i] /\ q[i] \in S
  OBVIOUS
<1>2. ASSUME q # <<>>
      PROVE  /\ Tail(q) \in Seq(S) /\ Len(Tail(q)) = Len(q) - 1 /\ Len(q) >= 1
             /\ \A i \in 1 .. Len(Tail(q)) : Tail(q)[i] = q[i + 1]
             /\ Head(q) = q[1]
  BY <1>2
<1> QED BY <1>1, <1>2

\* What FlushBuffer does: the buffer goes to the end of the lane, or is shed.
LEMMA BufferGoes ==
  ASSUME lane \in Seq(SUBSET Nat), buffer \in SUBSET Nat, 0 \notin buffer, 0 \notin dropped,
         FlushBuffer
  PROVE  /\ lane' \in Seq(SUBSET Nat) /\ buffer' = {}
         /\ 0 \notin dropped' /\ dropped \subseteq dropped'
         /\ \A s \in buffer : s \in dropped' \/ \E k \in 1 .. Len(lane') : s \in lane'[k]
         /\ Len(lane) \in Nat /\ Len(lane') \in Nat /\ Len(lane) <= Len(lane')
         /\ \A k \in 1 .. Len(lane) : lane'[k] = lane[k]
         /\ \A k \in 1 .. Len(lane') : lane'[k] = Barrier => k \in 1 .. Len(lane)
<1>1. CASE buffer # {} /\ Len(lane) < LaneSize
  <2>1. lane' = Append(lane, buffer) /\ buffer' = {} /\ dropped' = dropped
    BY <1>1 DEF FlushBuffer
  <2>2. buffer # Barrier
    BY DEF Barrier
  <2>3. \A k \in 1 .. Len(lane') : k \in 1 .. Len(lane) \/ lane'[k] = buffer
    BY <2>1, EndsOfSeq
  <2> QED BY <2>1, <2>2, <2>3, EndsOfSeq
<1>2. CASE ~ (buffer # {} /\ Len(lane) < LaneSize)
  <2>1. lane' = lane /\ buffer' = {} /\ dropped' = dropped \cup buffer
    BY <1>2 DEF FlushBuffer
  <2>2. Len(lane) \in Nat
    BY EndsOfSeq
  <2> QED BY <2>1, <2>2
<1> QED BY <1>1, <1>2

LEMMA BufferCovered ==
  ASSUME lane \in Seq(SUBSET Nat), buffer \in SUBSET Nat, 0 \notin buffer, 0 \notin dropped,
         FlushBuffer, UNCHANGED <<stored, owed>>
  PROVE  /\ lane' \in Seq(SUBSET Nat) /\ buffer' = {}
         /\ 0 \notin dropped' /\ dropped \subseteq dropped'
         /\ BarrierPending' = BarrierPending
         /\ \A s : InLane(s) => InLane(s)'
         /\ \A s \in buffer : s \in dropped' \/ InLane(s)'
         /\ LaneCovers => LaneCovers'
         /\ BarrierCovers => BarrierCovers'
<1>2. /\ lane' \in Seq(SUBSET Nat) /\ buffer' = {}
      /\ 0 \notin dropped' /\ dropped \subseteq dropped'
      /\ \A s \in buffer : s \in dropped' \/ \E k \in 1 .. Len(lane') : s \in lane'[k]
      /\ Len(lane) \in Nat /\ Len(lane') \in Nat /\ Len(lane) <= Len(lane')
      /\ \A k \in 1 .. Len(lane) : lane'[k] = lane[k]
      /\ \A k \in 1 .. Len(lane') : lane'[k] = Barrier => k \in 1 .. Len(lane)
  BY BufferGoes
<1>3. DOMAIN lane = 1 .. Len(lane) /\ DOMAIN lane' = 1 .. Len(lane')
  BY <1>2
<1>4. BarrierPending' = BarrierPending
  BY <1>2, <1>3 DEF BarrierPending
<1>5. \A s : InLane(s) => InLane(s)'
  BY <1>2 DEF InLane
<1>6. \A s \in buffer : s \in dropped' \/ InLane(s)'
  BY <1>2 DEF InLane
<1>8. LaneCovers => LaneCovers'
  BY <1>2, <1>5 DEF LaneCovers
<1>9. BarrierCovers => BarrierCovers'
  BY <1>2, <1>4 DEF BarrierCovers
<1> QED BY <1>2, <1>4, <1>5, <1>6, <1>8, <1>9

dataSeen == <<phase, outcome, mailbox, buffer, lane, stored, dropped, owed, late>>
dataKept == <<mailbox, buffer, lane, stored, dropped, owed, late>>

LEMMA FollowedUnseen ==
  SamplesFollowed /\ UNCHANGED dataSeen => SamplesFollowed'
BY DEF SamplesFollowed, dataSeen, FlushPending, BarrierPending, ManagerCovers, LaneCovers,
       BarrierCovers, InLane

\* Before the end of the hub nothing is owed.
LEMMA FollowedBefore ==
  ASSUME SamplesFollowed, UNCHANGED dataKept,
         phase \in Phases \ {"flushing", "slot", "draining", "returned"},
         phase' \in Phases \ {"flushing", "slot", "draining"},
         outcome' # "ok"
  PROVE  SamplesFollowed'
<1>1. ~ FlushPending /\ ~ BarrierPending
  BY DEF SamplesFollowed
<1>2. FlushPending' = FlushPending /\ BarrierPending' = BarrierPending
  BY DEF FlushPending, BarrierPending, dataKept
<1> QED BY <1>1, <1>2 DEF SamplesFollowed, dataKept

LEMMA FollowedGone ==
  ASSUME SamplesFollowed, Gone, phase \in Phases,
         outcome' \in {outcome, "killed"}
  PROVE  SamplesFollowed'
<1>1. <<>> \in Seq(Nat) /\ <<>> \in Seq(SUBSET Nat) /\ DOMAIN <<>> = {}
  OBVIOUS
<1>2. ~ FlushPending' /\ ~ BarrierPending'
  BY <1>1 DEF FlushPending, BarrierPending, Gone
<1> QED BY <1>1, <1>2 DEF SamplesFollowed, Gone, Phases

LEMMA FollowedStart ==
  ASSUME SamplesFollowed, StartProcess PROVE SamplesFollowed'
<1>1. ~ FlushPending /\ ~ BarrierPending
  BY DEF SamplesFollowed, StartProcess
<1>2. FlushPending' = FlushPending /\ BarrierPending' = BarrierPending
  BY DEF FlushPending, BarrierPending, StartProcess
<1> QED BY <1>1, <1>2 DEF SamplesFollowed, StartProcess, Phases, Starting

\* The alert manager and the timer.
LEMMA FollowedFlush ==
  ASSUME SamplesFollowed, FlushOnTimer PROVE SamplesFollowed'
<1>1. /\ lane \in Seq(SUBSET Nat) /\ buffer \in SUBSET Nat /\ 0 \notin buffer /\ 0 \notin dropped
      /\ FlushBuffer
      /\ UNCHANGED <<phase, outcome, mailbox, stored, owed, late>>
      /\ phase \notin {"returned", "down"}
  BY DEF SamplesFollowed, FlushOnTimer, process, clock, Running, Ending
<1>2. /\ lane' \in Seq(SUBSET Nat) /\ buffer' = {}
      /\ 0 \notin dropped' /\ dropped \subseteq dropped'
      /\ BarrierPending' = BarrierPending
      /\ \A s : InLane(s) => InLane(s)'
      /\ \A s \in buffer : s \in dropped' \/ InLane(s)'
      /\ LaneCovers => LaneCovers'
      /\ BarrierCovers => BarrierCovers'
  BY <1>1, BufferCovered
<1>3. FlushPending' = FlushPending
  BY <1>1 DEF FlushPending
<1>4. ManagerCovers => ManagerCovers'
  BY <1>1, <1>2, <1>3 DEF ManagerCovers
<1> QED BY <1>1, <1>2, <1>3, <1>4 DEF SamplesFollowed

LEMMA FollowedSample ==
  ASSUME SamplesFollowed, NEW s \in Samples, ReportSample(s) PROVE SamplesFollowed'
<1>1. s \in Nat /\ s # 0
  BY DEF Samples
<1>2. /\ mailbox' = Append(mailbox, s)
      /\ UNCHANGED <<phase, outcome, buffer, lane, stored, dropped, owed, late>>
  BY DEF ReportSample, process, clock
<1>3. mailbox \in Seq(Nat)
  BY DEF SamplesFollowed
<1>4. /\ mailbox' \in Seq(Nat) /\ Len(mailbox') = Len(mailbox) + 1 /\ Len(mailbox) \in Nat
      /\ \A i \in 1 .. Len(mailbox) : mailbox'[i] = mailbox[i]
      /\ mailbox'[Len(mailbox) + 1] = s
      /\ DOMAIN mailbox = 1 .. Len(mailbox) /\ DOMAIN mailbox' = 1 .. Len(mailbox')
  BY <1>1, <1>2, <1>3, EndsOfSeq
<1>5. \A i \in 1 .. Len(mailbox') : mailbox'[i] = FlushMetrics => i \in 1 .. Len(mailbox)
  BY <1>1, <1>4 DEF FlushMetrics
<1>6. FlushPending' = FlushPending /\ BarrierPending' = BarrierPending
  BY <1>2, <1>4, <1>5 DEF FlushPending, BarrierPending
<1>7. ManagerCovers => ManagerCovers'
  BY <1>2, <1>4, <1>5, <1>6 DEF ManagerCovers, InLane
<1>8. LaneCovers' = LaneCovers /\ BarrierCovers' = BarrierCovers
  BY <1>2, <1>6 DEF LaneCovers, BarrierCovers, InLane
<1> QED BY <1>2, <1>4, <1>6, <1>7, <1>8 DEF SamplesFollowed

LEMMA FollowedManager ==
  ASSUME SamplesFollowed, ManagerHandles PROVE SamplesFollowed'
<1>1. /\ mailbox # <<>> /\ mailbox' = Tail(mailbox)
      /\ UNCHANGED <<phase, outcome, stored, owed, late>>
      /\ phase \notin {"returned", "down"}
  BY DEF ManagerHandles, process, clock, Running, Ending
<1>2. /\ mailbox \in Seq(Nat) /\ lane \in Seq(SUBSET Nat) /\ buffer \in SUBSET Nat
      /\ 0 \notin buffer /\ 0 \notin dropped
  BY DEF SamplesFollowed
<1>3. /\ mailbox' \in Seq(Nat) /\ Len(mailbox') = Len(mailbox) - 1
      /\ Len(mailbox) \in Nat /\ Len(mailbox) >= 1
      /\ \A i \in 1 .. Len(mailbox') : mailbox'[i] = mailbox[i + 1]
      /\ Head(mailbox) = mailbox[1] /\ mailbox[1] \in Nat
      /\ DOMAIN mailbox = 1 .. Len(mailbox) /\ DOMAIN mailbox' = 1 .. Len(mailbox')
  <2>1. PICK x \in Nat : TRUE
    OBVIOUS
  <2> QED BY <1>1, <1>2, <2>1, EndsOfSeq
<1>4. FlushPending' => FlushPending
  <2>1. ASSUME NEW i \in 1 .. Len(mailbox'), mailbox'[i] = FlushMetrics PROVE FlushPending
    <3>1. i + 1 \in 1 .. Len(mailbox) /\ mailbox[i + 1] = FlushMetrics
      BY <1>3, <2>1
    <3> QED BY <1>3, <3>1 DEF FlushPending
  <2> QED BY <1>3, <2>1 DEF FlushPending
<1>5. CASE Head(mailbox) = FlushMetrics
  <2>1. FlushBuffer
    BY <1>5 DEF ManagerHandles
  <2>2. /\ lane' \in Seq(SUBSET Nat) /\ buffer' = {}
        /\ 0 \notin dropped' /\ dropped \subseteq dropped'
        /\ BarrierPending' = BarrierPending
        /\ \A s : InLane(s) => InLane(s)'
        /\ \A s \in buffer : s \in dropped' \/ InLane(s)'
        /\ LaneCovers => LaneCovers'
        /\ BarrierCovers => BarrierCovers'
    BY <1>1, <1>2, <2>1, BufferCovered
  <2>7. ASSUME ManagerCovers PROVE ManagerCovers'
    <3>1. \A s \in owed : s \in stored \cup dropped \/ InLane(s) \/ s \in buffer
      <4>1. ~ \E j \in 1 .. Len(mailbox) :
                \A i \in 1 .. Len(mailbox) : mailbox[i] = FlushMetrics => j < i
        BY <1>3, <1>5
      <4> QED BY <2>7, <4>1 DEF ManagerCovers
    <3>2. \A s \in owed : s \in stored \cup dropped' \/ InLane(s)'
      BY <2>2, <3>1
    <3> QED BY <1>1, <3>2 DEF ManagerCovers
  <2> QED BY <1>1, <1>3, <1>4, <2>2, <2>7 DEF SamplesFollowed
<1>6. CASE Head(mailbox) # FlushMetrics
  <2>1. buffer' = buffer \cup {Head(mailbox)} /\ UNCHANGED <<lane, dropped>>
    BY <1>6 DEF ManagerHandles
  <2>2. buffer' \in SUBSET Nat /\ 0 \notin buffer'
    BY <1>2, <1>3, <1>6, <2>1 DEF FlushMetrics
  <2>3. FlushPending => FlushPending'
    <3>1. ASSUME NEW i \in 1 .. Len(mailbox), mailbox[i] = FlushMetrics PROVE FlushPending'
      <4>1. i # 1 /\ i - 1 \in 1 .. Len(mailbox') /\ mailbox'[i - 1] = mailbox[i]
        BY <1>3, <1>6, <3>1
      <4> QED BY <1>3, <3>1, <4>1 DEF FlushPending
    <3> QED BY <1>3, <3>1 DEF FlushPending
  <2>4. BarrierPending' = BarrierPending /\ \A s : InLane(s)' = InLane(s)
    BY <2>1 DEF BarrierPending, InLane
  <2>5. ASSUME ManagerCovers PROVE ManagerCovers'
    <3>1. ASSUME NEW s, NEW j \in 1 .. Len(mailbox), mailbox[j] = s,
                 \A i \in 1 .. Len(mailbox) : mailbox[i] = FlushMetrics => j < i
          PROVE  \/ s \in buffer'
                 \/ \E k \in 1 .. Len(mailbox') :
                      /\ mailbox'[k] = s
                      /\ \A i \in 1 .. Len(mailbox') : mailbox'[i] = FlushMetrics => k < i
      <4>1. CASE j = 1
        BY <1>3, <2>1, <3>1, <4>1
      <4>2. CASE j # 1
        <5>1. j - 1 \in 1 .. Len(mailbox') /\ mailbox'[j - 1] = s
          BY <1>3, <3>1, <4>2
        <5>2. \A i \in 1 .. Len(mailbox') : mailbox'[i] = FlushMetrics => j - 1 < i
          <6>1. ASSUME NEW i \in 1 .. Len(mailbox'), mailbox'[i] = FlushMetrics PROVE j - 1 < i
            <7>1. i + 1 \in 1 .. Len(mailbox) /\ mailbox[i + 1] = FlushMetrics
              BY <1>3, <6>1
            <7>2. j < i + 1
              BY <3>1, <7>1
            <7> QED BY <7>2
          <6> QED BY <6>1
        <5> QED BY <5>1, <5>2
      <4> QED BY <4>1, <4>2
    <3>2. buffer \subseteq buffer'
      BY <2>1
    <3> QED BY <1>1, <2>1, <2>3, <2>4, <2>5, <3>1, <3>2 DEF ManagerCovers
  <2>6. LaneCovers' = LaneCovers /\ BarrierCovers' = BarrierCovers
    BY <1>1, <2>1, <2>4 DEF LaneCovers, BarrierCovers
  <2> QED BY <1>1, <1>3, <1>4, <2>1, <2>2, <2>4, <2>5, <2>6 DEF SamplesFollowed
<1> QED BY <1>5, <1>6

\* The writer.
LEMMA FollowedWriter ==
  ASSUME SamplesFollowed, WriterRuns PROVE SamplesFollowed'
<1>1. /\ lane # <<>> /\ lane' = Tail(lane)
      /\ UNCHANGED <<phase, outcome, mailbox, buffer, owed, late>>
      /\ phase \notin {"returned", "down"}
      /\ stored \subseteq stored' /\ dropped \subseteq dropped'
      /\ Head(lane) \ {0} \subseteq stored' \cup dropped'
      /\ stored' \subseteq stored \cup (Head(lane) \ {0})
      /\ dropped' \subseteq dropped \cup (Head(lane) \ {0})
  BY DEF WriterRuns, process, clock, Running, Ending, Barrier
<1>2. /\ lane \in Seq(SUBSET Nat) /\ 0 \notin owed /\ 0 \notin stored' /\ 0 \notin dropped'
  BY <1>1 DEF SamplesFollowed
<1>3. /\ lane' \in Seq(SUBSET Nat) /\ Len(lane') = Len(lane) - 1
      /\ Len(lane) \in Nat /\ Len(lane) >= 1
      /\ \A i \in 1 .. Len(lane') : lane'[i] = lane[i + 1]
      /\ Head(lane) = lane[1]
      /\ DOMAIN lane = 1 .. Len(lane) /\ DOMAIN lane' = 1 .. Len(lane')
  <2>1. PICK x \in SUBSET Nat : TRUE
    OBVIOUS
  <2> QED BY <1>1, <1>2, <2>1, EndsOfSeq
<1>4. BarrierPending' => BarrierPending
  BY <1>3 DEF BarrierPending
<1>5. FlushPending' = FlushPending
  BY <1>1 DEF FlushPending
<1>6. ASSUME NEW s \in owed, InLane(s) PROVE s \in stored' \cup dropped' \/ InLane(s)'
  <2>1. PICK k \in 1 .. Len(lane) : s \in lane[k]
    BY <1>6 DEF InLane
  <2>2. CASE k = 1
    BY <1>1, <1>2, <1>3, <2>1, <2>2
  <2>3. CASE k # 1
    <3>1. k - 1 \in 1 .. Len(lane') /\ lane'[k - 1] = lane[k]
      BY <1>3, <2>3
    <3> QED BY <2>1, <3>1 DEF InLane
  <2> QED BY <2>2, <2>3
<1>7. ManagerCovers => ManagerCovers'
  BY <1>1, <1>5, <1>6 DEF ManagerCovers
<1>8. LaneCovers => LaneCovers'
  BY <1>1, <1>6 DEF LaneCovers
<1>9. ASSUME BarrierCovers PROVE BarrierCovers'
  <2>1. SUFFICES ASSUME NEW s \in owed, s \notin stored' \cup dropped'
                 PROVE  /\ BarrierPending'
                        /\ \E k \in 1 .. Len(lane') :
                             /\ s \in lane'[k]
                             /\ \A i \in 1 .. Len(lane') : lane'[i] = Barrier => k < i
    BY <1>1 DEF BarrierCovers
  <2>2. PICK k \in 1 .. Len(lane) :
          s \in lane[k] /\ \A i \in 1 .. Len(lane) : lane[i] = Barrier => k < i
    BY <1>1, <1>9, <2>1 DEF BarrierCovers
  <2>3. PICK b \in 1 .. Len(lane) : lane[b] = Barrier
    BY <1>1, <1>3, <1>9, <2>1 DEF BarrierCovers, BarrierPending
  <2>4. k # 1
    BY <1>1, <1>2, <1>3, <2>1, <2>2
  <2>5. k < b
    BY <2>2, <2>3
  <2>6. b - 1 \in 1 .. Len(lane') /\ lane'[b - 1] = Barrier
    BY <1>3, <2>3, <2>5
  <2>7. k - 1 \in 1 .. Len(lane') /\ s \in lane'[k - 1]
    BY <1>3, <2>2, <2>4
  <2>8. ASSUME NEW i \in 1 .. Len(lane'), lane'[i] = Barrier PROVE k - 1 < i
    <3>1. i + 1 \in 1 .. Len(lane) /\ lane[i + 1] = Barrier
      BY <1>3, <2>8
    <3>2. k < i + 1
      BY <2>2, <3>1
    <3> QED BY <3>2
  <2> QED BY <1>3, <2>6, <2>7, <2>8 DEF BarrierPending
<1> QED BY <1>1, <1>2, <1>3, <1>4, <1>5, <1>7, <1>8, <1>9 DEF SamplesFollowed

\* The server has closed: what was reported is owed.
LEMMA FollowedClose ==
  ASSUME SamplesFollowed, CloseEnds PROVE SamplesFollowed'
<1>1. /\ phase = "closing" /\ phase' = "flushing" /\ mailbox' = Append(mailbox, FlushMetrics)
      /\ owed' = Reported /\ UNCHANGED <<outcome, buffer, lane, stored, dropped, late>>
  BY DEF CloseEnds
<1>2. /\ mailbox \in Seq(Nat) /\ lane \in Seq(SUBSET Nat)
      /\ ~ FlushPending /\ ~ BarrierPending /\ outcome # "ok"
      /\ 0 \notin stored /\ 0 \notin dropped /\ 0 \notin buffer
  BY <1>1 DEF SamplesFollowed
<1>3. /\ mailbox' \in Seq(Nat) /\ Len(mailbox') = Len(mailbox) + 1 /\ Len(mailbox) \in Nat
      /\ \A i \in 1 .. Len(mailbox) : mailbox'[i] = mailbox[i]
      /\ mailbox'[Len(mailbox) + 1] = FlushMetrics
      /\ DOMAIN mailbox = 1 .. Len(mailbox) /\ DOMAIN mailbox' = 1 .. Len(mailbox')
  <2>1. FlushMetrics \in Nat
    BY DEF FlushMetrics
  <2> QED BY <1>1, <1>2, <2>1, EndsOfSeq
<1>4. DOMAIN lane = 1 .. Len(lane)
  BY <1>2
<1>5. 0 \notin Reported
  <2> DEFINE A == {mailbox[i] : i \in DOMAIN mailbox} \ {FlushMetrics}
             B == (UNION {lane[i] : i \in DOMAIN lane}) \ {FlushMetrics}
  <2>1. 0 \notin A /\ 0 \notin B
    BY DEF FlushMetrics
  <2>2. Reported = UNION {stored, dropped, buffer, A, B}
    BY DEF Reported
  <2> HIDE DEF A, B
  <2> QED BY <1>2, <2>1, <2>2
<1>9. ASSUME NEW s \in Reported
      PROVE  \/ s \in stored \cup dropped \cup buffer
             \/ \E j \in 1 .. Len(mailbox) : mailbox[j] = s
             \/ InLane(s)
  BY <1>3, <1>4 DEF Reported, InLane
<1>6. FlushPending' /\ ~ BarrierPending'
  BY <1>1, <1>2, <1>3 DEF FlushPending, BarrierPending
<1>7. ASSUME NEW i \in 1 .. Len(mailbox'), mailbox'[i] = FlushMetrics PROVE i = Len(mailbox) + 1
  BY <1>2, <1>3, <1>7 DEF FlushPending
<1>8. ManagerCovers'
  <2>1. \A s : InLane(s)' = InLane(s)
    BY <1>1 DEF InLane
  <2>2. ASSUME NEW j \in 1 .. Len(mailbox)
        PROVE  /\ j \in 1 .. Len(mailbox') /\ mailbox'[j] = mailbox[j]
               /\ \A i \in 1 .. Len(mailbox') : mailbox'[i] = FlushMetrics => j < i
    BY <1>3, <1>7
  <2> QED BY <1>1, <1>6, <1>9, <2>1, <2>2 DEF ManagerCovers
<1> QED BY <1>1, <1>2, <1>3, <1>5, <1>6, <1>8 DEF SamplesFollowed, Phases, Ending

LEMMA FollowedFlushed ==
  ASSUME SamplesFollowed, FlushEnds PROVE SamplesFollowed'
<1>1. /\ phase = "flushing" /\ phase' = "slot"
      /\ UNCHANGED <<outcome, mailbox, buffer, lane, stored, dropped, owed>>
      /\ \/ ~ FlushPending /\ late' = late
         \/ late' = TRUE
  BY DEF FlushEnds, data
<1>2. FlushPending' = FlushPending /\ BarrierPending' = BarrierPending
  BY <1>1 DEF FlushPending, BarrierPending
<1>3. ~ late' => LaneCovers'
  BY <1>1 DEF SamplesFollowed, ManagerCovers, LaneCovers, InLane
<1> QED BY <1>1, <1>2, <1>3 DEF SamplesFollowed, Phases, Ending

LEMMA FollowedBarrier ==
  ASSUME SamplesFollowed, PlaceBarrier PROVE SamplesFollowed'
<1>1. /\ phase = "slot" /\ phase' = "draining" /\ lane' = Append(lane, Barrier)
      /\ UNCHANGED <<outcome, mailbox, buffer, stored, dropped, owed, late>>
  BY DEF PlaceBarrier, clock
<1>2. lane \in Seq(SUBSET Nat) /\ ~ BarrierPending
  BY <1>1 DEF SamplesFollowed
<1>3. /\ lane' \in Seq(SUBSET Nat) /\ Len(lane') = Len(lane) + 1 /\ Len(lane) \in Nat
      /\ \A i \in 1 .. Len(lane) : lane'[i] = lane[i]
      /\ lane'[Len(lane) + 1] = Barrier
      /\ DOMAIN lane = 1 .. Len(lane) /\ DOMAIN lane' = 1 .. Len(lane')
  <2>1. Barrier \in SUBSET Nat
    BY DEF Barrier
  <2> QED BY <1>1, <1>2, <2>1, EndsOfSeq
<1>4. FlushPending' = FlushPending /\ BarrierPending'
  BY <1>1, <1>3 DEF FlushPending, BarrierPending
<1>5. ASSUME NEW i \in 1 .. Len(lane'), lane'[i] = Barrier PROVE i = Len(lane) + 1
  BY <1>2, <1>3, <1>5 DEF BarrierPending
<1>6. ASSUME LaneCovers PROVE BarrierCovers'
  <2>1. ASSUME NEW k \in 1 .. Len(lane)
        PROVE  /\ k \in 1 .. Len(lane') /\ lane'[k] = lane[k]
               /\ \A i \in 1 .. Len(lane') : lane'[i] = Barrier => k < i
    BY <1>3, <1>5
  <2> QED BY <1>1, <1>4, <1>6, <2>1 DEF LaneCovers, BarrierCovers, InLane
<1> QED BY <1>1, <1>3, <1>4, <1>6 DEF SamplesFollowed, Phases, Ending

LEMMA FollowedDrained ==
  ASSUME SamplesFollowed, DrainEnds PROVE SamplesFollowed'
<1>1. /\ phase \in {"slot", "draining"} /\ phase' = "returned" /\ outcome' = "ok"
      /\ UNCHANGED <<mailbox, buffer, lane, stored, dropped, owed>>
      /\ \/ phase = "draining" /\ ~ BarrierPending /\ late' = late
         \/ late' = TRUE
  BY DEF DrainEnds, data
<1>2. FlushPending' = FlushPending /\ BarrierPending' = BarrierPending
  BY <1>1 DEF FlushPending, BarrierPending
<1>3. ~ late' => owed \subseteq stored \cup dropped
  BY <1>1 DEF SamplesFollowed, BarrierCovers
<1> QED BY <1>1, <1>2, <1>3 DEF SamplesFollowed, Phases, Ending

LEMMA FollowedByHub ==
  ASSUME SamplesFollowed, HubStep \/ CloseEnds PROVE SamplesFollowed'
<1>1. CASE Startup
  BY <1>1, FollowedBefore
     DEF Startup, LoadConfig, CheckConfig, OpenDatabase, BindAndStart, Proceed,
         SamplesFollowed, dataKept, data, clock, Phases, Starting, Ending
<1>2. CASE Connect \/ SocketEnds \/ Requests \/ RestoreEnds
  BY <1>2, FollowedUnseen
     DEF Connect, SocketEnds, Requests, RequestBegins, RequestEnds, RestoreEnds,
         dataSeen, process, serving, data, clock
<1>3. CASE BeginClose
  BY <1>3, FollowedBefore
     DEF BeginClose, SamplesFollowed, dataKept, data, clock, Phases, Starting, Ending
<1> QED BY <1>1, <1>2, <1>3, FollowedSample, FollowedManager, FollowedFlush, FollowedWriter,
           FollowedFlushed, FollowedBarrier, FollowedDrained, FollowedClose
        DEF HubStep, Edges, Manager, Stops

-----------------------------------------------------------------------------

LEMMA FollowedFirst == WidgetInit => SamplesFollowed
<1>1. <<>> \in Seq(Nat) /\ <<>> \in Seq(SUBSET Nat) /\ DOMAIN <<>> = {}
  OBVIOUS
<1> QED BY <1>1 DEF WidgetInit, HostInit, SamplesFollowed, FlushPending, BarrierPending, Phases

LEMMA FollowedStays ==
  ASSUME SamplesFollowed, HubJoined, [WidgetNext]_widgetVars PROVE SamplesFollowed'
<1>1. CASE UNCHANGED widgetVars
  BY <1>1, FollowedUnseen
     DEF widgetVars, hostVars, process, data, clock, dataSeen
<1>2. CASE HubStep \/ Closes
  BY <1>2, FollowedByHub DEF Closes
<1>3. CASE OtherHostStep
  <2>1. CASE Register \/ StopService \/ Tick
    BY <2>1, FollowedUnseen DEF Register, StopService, Tick, Elapse, dataSeen, process, data, clock
  <2>2. CASE StartProcess
    BY <2>2, FollowedStart
  <2>3. CASE Interrupt
    <3>1. CASE phase \in Starting
      BY <2>3, <3>1, FollowedBefore
         DEF Interrupt, SamplesFollowed, dataKept, data, clock, Phases, Starting, Ending
    <3>2. CASE phase \notin Starting
      BY <2>3, <3>2, FollowedUnseen DEF Interrupt, dataSeen, data, clock
    <3> QED BY <3>1, <3>2
  <2>4. CASE EndProcess
    BY <2>4, FollowedGone DEF EndProcess, SamplesFollowed
  <2> QED BY <1>3, <2>1, <2>2, <2>3, <2>4 DEF OtherHostStep, Operators
<1>4. CASE WidgetStep
  <2>1. CASE Launch
    BY <2>1, FollowedBefore
       DEF Launch, HubJoined, JoinStages, SamplesFollowed, dataKept, data, clock, Phases, Starting, Ending
  <2>2. CASE HubThreadEnds
    BY <2>2, FollowedGone DEF HubThreadEnds, SamplesFollowed
  <2>3. CASE Supervisor
    BY <2>3, FollowedUnseen
       DEF Supervisor, ThreadsRun, SupervisorLooks, SupervisorAsks, EdgeStarts, EdgeStopsAsAsked,
           SupervisorResumes, EdgeFails, Supervise, dataSeen, hostVars, process, data, clock
  <2>4. CASE RequestQuit \/ ExitEvent \/ QuitterStops \/ StopEdge \/ JoinEdge \/ JoinHub
    BY <2>4, FollowedUnseen
       DEF RequestQuit, ExitEvent, QuitterStops, StopEdge, JoinEdge, JoinHub,
           dataSeen, hostVars, process, data, clock
  <2>5. CASE StopHub \/ WidgetTick
    BY <2>5, FollowedUnseen DEF StopHub, WidgetTick, dataSeen, process, data, clock
  <2>6. CASE Exit
    BY <2>6, FollowedGone DEF Exit, SamplesFollowed
  <2> QED BY <1>4, <2>1, <2>2, <2>3, <2>4, <2>5, <2>6 DEF WidgetStep, Leave
<1> QED BY <1>1, <1>2, <1>3, <1>4 DEF WidgetNext

LEMMA WaitsPositive ==
  FlushWait \in Int /\ FlushWait > 0 /\ DrainWait \in Int /\ DrainWait > 0
BY WaitAssumption

LEMMA JoinedFirst == WidgetInit => HubJoined
BY DEF WidgetInit, HostInit, HubJoined, JoinTypes, JoinStages, JoinClock, HubClosed, Starting, Ending

\* Steps of the hub, before its end and at it.
LEMMA JoinedStartup ==
  ASSUME SamplesFollowed, HubJoined, Apart, Startup PROVE HubJoined'
<1>1. /\ phase \in Starting
      /\ \/ phase' \in Starting \cup {"serving"} /\ outcome' = outcome
         \/ phase' = "returned" /\ outcome' = "error"
      /\ UNCHANGED <<host, asked, waited, stopped, app, stopping, joined, closedAt>>
  BY DEF Apart, services, threads, Startup, LoadConfig, CheckConfig, OpenDatabase, BindAndStart,
         Proceed, serving, clock, Starting
<1> QED BY <1>1 DEF HubJoined, JoinTypes, JoinStages, JoinClock, HubClosed, Starting, Ending

LEMMA JoinedClosing ==
  ASSUME SamplesFollowed, HubJoined, Apart, BeginClose PROVE HubJoined'
BY DEF Apart, services, threads, BeginClose, data, clock, HubJoined, JoinTypes, JoinStages,
   JoinClock, HubClosed, Starting, Ending

LEMMA JoinedFlushed ==
  ASSUME SamplesFollowed, HubJoined, Apart, FlushEnds PROVE HubJoined'
<1>1. /\ phase = "flushing" /\ phase' = "slot" /\ waited' = 0
      /\ UNCHANGED <<host, outcome, asked, stopped, app, stopping, joined, closedAt>>
  BY DEF Apart, services, threads, FlushEnds
<1>2. ASSUME host = "widget", closedAt = 0, stopping = "join hub"
      PROVE  joined <= FlushWait + 0 /\ 0 <= DrainWait
  <2>1. joined = waited /\ waited <= FlushWait /\ waited \in Nat
    BY <1>1, <1>2 DEF HubJoined, JoinTypes, JoinStages, JoinClock, HubClosed
  <2> QED BY <2>1, WaitAssumption
<1> QED BY <1>1, <1>2 DEF HubJoined, JoinTypes, JoinStages, JoinClock, HubClosed, Starting, Ending

LEMMA JoinedBarrier ==
  ASSUME SamplesFollowed, HubJoined, Apart, PlaceBarrier PROVE HubJoined'
BY DEF Apart, services, threads, PlaceBarrier, serving, clock, HubJoined, JoinTypes, JoinStages,
   JoinClock, HubClosed, Starting, Ending

LEMMA JoinedDrained ==
  ASSUME SamplesFollowed, HubJoined, Apart, DrainEnds PROVE HubJoined'
BY DEF Apart, services, threads, DrainEnds, serving, data, HubJoined, JoinTypes, JoinStages,
   JoinClock, HubClosed, Starting, Ending

LEMMA JoinedUnseen ==
  ASSUME HubJoined, UNCHANGED <<process, waited, app, services, threads, joined, closedAt>>
  PROVE  HubJoined'
BY DEF process, services, threads, HubJoined, JoinTypes, JoinStages, JoinClock, HubClosed

LEMMA JoinedClose ==
  ASSUME SamplesFollowed, HubJoined, Closes PROVE HubJoined'
<1>1. /\ phase = "closing" /\ phase' = "flushing" /\ waited' = 0
      /\ closedAt' = (IF host = "widget" THEN joined ELSE closedAt)
      /\ UNCHANGED <<host, outcome, asked, stopped, app, stopping, joined>>
  BY DEF Closes, CloseEnds, services, threads
<1>2. JoinTypes /\ JoinStages /\ JoinClock
  BY DEF HubJoined
<1>3. waited \in Nat /\ joined \in Nat /\ closedAt \in Int
  BY <1>2 DEF JoinTypes
<1>4. host = "widget" => stopping \in {"join hub", "done"}
  BY <1>1, <1>2 DEF JoinStages, Ending
<1>5. host = "widget" /\ stopping = "done" => joined >= HubStopTimeout /\ joined # 0
  <2>1. host = "widget" /\ stopping = "done" => joined >= HubStopTimeout
    BY <1>1, <1>2 DEF JoinClock
  <2> QED BY <2>1, <1>3, WaitAssumption DEF HubStopTimeout
<1>6. JoinTypes'
  BY <1>1, <1>3 DEF JoinTypes
<1>7. JoinStages'
  BY <1>1, <1>2, <1>4 DEF JoinStages, HubClosed, Starting, Ending
<1>8. JoinClock'
  <2>1. host = "widget" => closedAt' = joined
    BY <1>1
  <2>2. waited' = 0 /\ 0 <= FlushWait
    BY <1>1, WaitAssumption
  <2>3. HubStopTimeout' = HubStopTimeout
    BY DEF HubStopTimeout
  <2> QED BY <1>1, <1>3, <1>5, <2>1, <2>2, <2>3 DEF JoinClock
<1> QED BY <1>6, <1>7, <1>8 DEF HubJoined

LEMMA JoinedStays ==
  ASSUME SamplesFollowed, HubJoined, [WidgetNext]_widgetVars PROVE HubJoined'
<1>1. CASE UNCHANGED widgetVars
  BY <1>1, JoinedUnseen DEF widgetVars, hostVars, clock
<1>2. CASE HubStep
  <2>1. CASE Edges \/ Requests \/ Manager \/ WriterRuns
    BY <1>2, <2>1, JoinedUnseen
       DEF HubStep, Apart, Edges, Connect, SocketEnds, ReportSample, Requests, RequestBegins,
           RequestEnds, Manager, RestoreEnds, ManagerHandles, FlushOnTimer, WriterRuns, clock
  <2> QED BY <1>2, <2>1, JoinedStartup, JoinedClosing, JoinedFlushed, JoinedBarrier, JoinedDrained
          DEF HubStep, Stops
<1>3. CASE Closes
  BY <1>3, JoinedClose
<1>4. CASE OtherHostStep
  <2>1. /\ host # "widget" /\ UNCHANGED <<app, stopping, joined, closedAt>>
        /\ Operators \/ EndProcess \/ Tick
    BY <1>4 DEF OtherHostStep, Apart, threads
  <2>2. host' = host /\ waited' \in Nat
    <3>1. host' = host /\ waited' \in {waited, 0, waited + 1}
      BY <2>1 DEF Operators, Register, StartProcess, StopService, Interrupt, EndProcess, Tick, Elapse,
                  Gone, process, clock
    <3>2. waited \in Nat
      BY DEF HubJoined, JoinTypes
    <3> QED BY <3>1, <3>2
  <2> QED BY <2>1, <2>2 DEF HubJoined, JoinTypes, JoinStages, JoinClock, HubClosed
<1>5. CASE WidgetStep
  <2>1. CASE Launch
    BY <2>1 DEF Launch, data, clock, HubJoined, JoinTypes, JoinStages, JoinClock, HubClosed,
       Starting, Ending
  <2>2. CASE HubThreadEnds
    BY <2>2 DEF HubThreadEnds, Gone, threads, HubJoined, JoinTypes, JoinStages, JoinClock,
       HubClosed, Starting, Ending
  <2>3. CASE Supervisor
    <3>1. UNCHANGED <<host, phase, outcome, asked, waited, stopped, app, stopping, joined, closedAt>>
      BY <2>3
         DEF Supervisor, ThreadsRun, SupervisorLooks, SupervisorAsks, EdgeStarts, EdgeStopsAsAsked,
             SupervisorResumes, EdgeFails, Supervise, services, hostVars, process, clock
    <3> QED BY <3>1 DEF HubJoined, JoinTypes, JoinStages, JoinClock, HubClosed
  <2>4. CASE RequestQuit
    BY <2>4 DEF RequestQuit, hostVars, process, clock, HubJoined, JoinTypes, JoinStages,
       JoinClock, HubClosed
  <2>5. CASE ExitEvent \/ QuitterStops
    <3>1. /\ app = "up" /\ stopped' = TRUE /\ stopping' = (IF stopped THEN stopping ELSE "edge")
          /\ UNCHANGED <<host, phase, outcome, asked, waited, app, joined, closedAt>>
      BY <2>5 DEF ExitEvent, QuitterStops, Enter, hostVars, process, clock
    <3> QED BY <3>1 DEF HubJoined, JoinTypes, JoinStages, JoinClock, HubClosed
  <2>6. CASE StopEdge \/ JoinEdge
    <3>1. /\ app = "up" /\ stopping \in {"edge", "join edge"} /\ stopping' \in {"join edge", "hub"}
          /\ joined' = 0
          /\ UNCHANGED <<host, phase, outcome, asked, waited, stopped, app, closedAt>>
      BY <2>6 DEF StopEdge, JoinEdge, services, hostVars, process, clock
    <3> QED BY <3>1 DEF HubJoined, JoinTypes, JoinStages, JoinClock, HubClosed
  <2>7. CASE StopHub
    <3>1. /\ app = "up" /\ stopping = "hub" /\ stopping' = "join hub"
          /\ UNCHANGED <<host, phase, outcome, waited, stopped, app, joined, closedAt>>
      BY <2>7 DEF StopHub, clock
    <3>2. JoinTypes /\ JoinStages /\ JoinClock
      BY DEF HubJoined
    <3>3. JoinTypes'
      BY <3>1, <3>2 DEF JoinTypes
    <3>4. HubClosed' = HubClosed
      BY <3>1 DEF HubClosed
    <3>5. ~ (host = "widget" /\ HubClosed) /\ JoinStages'
      BY <3>1, <3>2, <3>4 DEF JoinStages
    <3>6. ~ (host = "widget" /\ closedAt = 0)
      BY <3>5 DEF HubClosed
    <3>7. JoinClock'
      BY <3>1, <3>6 DEF JoinClock
    <3> QED BY <3>3, <3>5, <3>7 DEF HubJoined
  <2>8. CASE JoinHub
    <3>1. /\ app = "up" /\ stopping = "join hub" /\ stopping' = "done"
          /\ phase = "down" \/ joined >= HubStopTimeout
          /\ UNCHANGED <<host, phase, outcome, asked, waited, stopped, app, joined, closedAt>>
      BY <2>8 DEF JoinHub, services, hostVars, process, clock
    <3>2. JoinTypes /\ JoinStages /\ JoinClock
      BY DEF HubJoined
    <3>3. waited \in Nat /\ joined \in Nat
      BY <3>2 DEF JoinTypes
    <3>4. ASSUME host = "widget", closedAt = 0 PROVE phase \in {"returned", "down"}
      <4>1. phase \notin Starting \cup {"serving", "closing"}
        <5>1. HubClosed
          BY <3>4 DEF HubClosed
        <5> QED BY <3>2, <3>4, <5>1, Zenon DEF JoinStages
      <4>2. phase # "flushing"
        <5>1. phase = "flushing" => joined = waited /\ waited <= FlushWait
          BY <3>1, <3>2, <3>4 DEF JoinClock
        <5>2. phase = "flushing" => joined >= FlushWait + DrainWait + 1
          BY <3>1 DEF HubStopTimeout
        <5> QED BY <3>3, <5>1, <5>2, WaitAssumption
      <4>3. phase \notin {"slot", "draining"}
        <5>1. phase \in {"slot", "draining"} => joined <= FlushWait + waited /\ waited <= DrainWait
          BY <3>1, <3>2, <3>4 DEF JoinClock
        <5>2. phase \in {"slot", "draining"} => joined >= FlushWait + DrainWait + 1
          BY <3>1 DEF HubStopTimeout
        <5> QED BY <3>3, <5>1, <5>2, WaitAssumption
      <4> QED BY <4>1, <4>2, <4>3 DEF SamplesFollowed, Phases, Ending
    <3>5. host = "widget" => outcome # "killed"
      BY <3>1, <3>2 DEF JoinStages
    <3>6. HubStopTimeout' = HubStopTimeout /\ HubClosed' = HubClosed
      BY <3>1 DEF HubStopTimeout, HubClosed
    <3>7. JoinTypes'
      BY <3>1, <3>2 DEF JoinTypes
    <3>8. JoinStages'
      BY <3>1, <3>2, <3>6 DEF JoinStages
    <3>9. JoinClock'
      BY <3>1, <3>4, <3>5, <3>6 DEF JoinClock
    <3> QED BY <3>7, <3>8, <3>9 DEF HubJoined
  <2>9. CASE Exit
    BY <2>9 DEF Exit, Gone, services, HubJoined, JoinTypes, JoinStages, JoinClock, HubClosed,
       Starting, Ending
  <2>10. CASE WidgetTick
    <3>1. /\ app = "up" /\ (Limit > 0 => waited < Limit) /\ (JoinLimit > 0 => joined < JoinLimit)
          /\ waited' = (IF Limit > 0 THEN waited + 1 ELSE waited)
          /\ joined' = (IF JoinLimit > 0 THEN joined + 1 ELSE joined)
          /\ UNCHANGED <<host, phase, outcome, asked, stopped, app, stopping, closedAt>>
      BY <2>10 DEF WidgetTick, process, services, threads
    <3>2. JoinTypes /\ JoinStages /\ JoinClock
      BY DEF HubJoined
    <3>3. waited \in Nat /\ joined \in Nat /\ closedAt \in Int
      BY <3>2 DEF JoinTypes
    <3>4. waited' \in {waited, waited + 1} /\ joined' \in {joined, joined + 1}
      BY <3>1
    <3>5. /\ phase = "flushing" => Limit = FlushWait
          /\ phase \in {"slot", "draining"} => Limit = DrainWait
          /\ stopping = "join hub" => JoinLimit = FlushWait + DrainWait + 1
      BY DEF Limit, JoinLimit, HubStopTimeout
    <3>6. ASSUME phase = "flushing", stopping = "join hub"
          PROVE  waited' = waited + 1 /\ joined' = joined + 1 /\ waited < FlushWait
      <4>1. Limit = FlushWait /\ Limit > 0 /\ JoinLimit > 0
        <5>1. Limit = FlushWait /\ JoinLimit = FlushWait + DrainWait + 1
          BY <3>5, <3>6, Zenon
        <5> QED BY <5>1, WaitsPositive
      <4> QED BY <3>1, <4>1
    <3>7. ASSUME phase \in {"slot", "draining"}, stopping = "join hub"
          PROVE  waited' = waited + 1 /\ joined' = joined + 1 /\ waited < DrainWait
      <4>1. Limit = DrainWait /\ Limit > 0 /\ JoinLimit > 0
        <5>1. Limit = DrainWait /\ JoinLimit = FlushWait + DrainWait + 1
          BY <3>5, <3>7, Zenon
        <5> QED BY <5>1, WaitsPositive
      <4> QED BY <3>1, <4>1
    <3>8. ASSUME host = "widget", closedAt = 0, stopping = "join hub", phase = "flushing"
          PROVE  joined' = waited' /\ waited' <= FlushWait
      <4>1. joined = waited
        BY <3>2, <3>8 DEF JoinClock
      <4>2. waited' = waited + 1 /\ joined' = joined + 1 /\ waited < FlushWait
        BY <3>6, <3>8, Zenon
      <4> QED BY <3>3, <4>1, <4>2, WaitsPositive
    <3>9. ASSUME host = "widget", closedAt = 0, stopping = "join hub",
                 phase \in {"slot", "draining"}
          PROVE  joined' <= FlushWait + waited' /\ waited' <= DrainWait
      <4>1. joined <= FlushWait + waited
        BY <3>2, <3>9 DEF JoinClock
      <4>2. waited' = waited + 1 /\ joined' = joined + 1 /\ waited < DrainWait
        BY <3>7, <3>9, Zenon
      <4> QED BY <3>3, <4>1, <4>2, WaitsPositive
    <3>10. HubStopTimeout' = HubStopTimeout /\ HubStopTimeout \in Nat /\ HubClosed' = HubClosed
      BY <3>1, WaitAssumption DEF HubStopTimeout, HubClosed
    <3>11. joined >= HubStopTimeout => joined' >= HubStopTimeout
      BY <3>3, <3>4, <3>10
    <3>12. JoinTypes'
      BY <3>1, <3>3, <3>4 DEF JoinTypes
    <3>13. JoinStages'
      BY <3>1, <3>2, <3>10 DEF JoinStages
    <3>14. JoinClock'
      BY <3>1, <3>2, <3>8, <3>9, <3>10, <3>11 DEF JoinClock
    <3> QED BY <3>12, <3>13, <3>14 DEF HubJoined
  <2> QED BY <1>5, <2>1, <2>2, <2>3, <2>4, <2>5, <2>6, <2>7, <2>8, <2>9, <2>10
          DEF WidgetStep, Leave
<1> QED BY <1>1, <1>2, <1>3, <1>4, <1>5 DEF WidgetNext

\* Under every host: from the request to flush on, each sample that was reported is
\* written, shed, or ahead of the request in the mailbox or of the barrier in the lane;
\* and the widget's join of its hub has lasted as long as the hub's own two waits.
THEOREM WidgetCorrect == WidgetSpec => []WidgetInv
<1>1. WidgetInit => WidgetInv
  BY FollowedFirst, JoinedFirst DEF WidgetInv
<1>2. WidgetInv /\ [WidgetNext]_widgetVars => WidgetInv'
  BY FollowedStays, JoinedStays DEF WidgetInv
<1> QED BY <1>1, <1>2, PTL DEF WidgetSpec

\* A stop in which neither wait ran out loses no sample the full lane did not shed, and
\* the widget does not cut off a hub whose server closed as the join began.
THEOREM WidgetStopLosesNothing == WidgetSpec => []StopLosesNothing
<1>1. WidgetInv => StopLosesNothing
  BY DEF WidgetInv, SamplesFollowed, HubJoined, JoinStages, JoinClock, StopLosesNothing,
         StopKeepsMetrics, ExitWaitsForHub
<1> QED BY <1>1, WidgetCorrect, PTL
=============================================================================
