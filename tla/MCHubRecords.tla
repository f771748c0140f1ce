---------------------------- MODULE MCHubRecords ----------------------------
(***************************************************************************)
(* Constants of the model-checking run of HubRecords: two identical        *)
(* products on one edge, the second with the suffix of its id.  The first  *)
(* of them is reported; the second may be in the table under the name both *)
(* of them prefer.                                                         *)
(***************************************************************************)
EXTENDS HubRecords, TLC

CONSTANTS e1, d1, d2, c1, c2

OnOneEdge == [d \in Devices |-> e1]
Suffixed == [d \in Devices |-> IF d = d1 THEN "PXIe-6368" ELSE "PXIe-6368#2"]
NothingStored == [d \in Devices |-> NoRow]
FreshOrTaken == {NothingStored, [NothingStored EXCEPT ![d2] = "PXIe-6368"]}
\* Whether the token of a socket task that ended is cancelled bears on nothing.
View == <<task, owner, session, leaving, {c \in token : Registered(c)}, apiVars, managerVars, runs, writerVars,
          markVars, restarts, frames>>
Symmetry == Permutations({c1, c2})
====
