------------------------------ MODULE MCHubLink ------------------------------
(***************************************************************************)
(* Constants of the model-checking runs of HubLink.                        *)
(***************************************************************************)
EXTENDS HubLink

\* A removal is twice as long as the others.
Sizes == [k \in Kinds |-> IF k = "removal" THEN 2 ELSE 1]
====
