-------------------------- MODULE MCActionExecutor --------------------------
(***************************************************************************)
(* Constants of the model-checking run of ActionExecutor.                  *)
(***************************************************************************)
EXTENDS ActionExecutor, TLC

CONSTANTS e1, d1, c1, c2, r1, r2

OnOneEdge == [d \in Devices |-> e1]

Kinds == [a \in Actions |->
  CASE a = "reset" -> "edge" [] a = "restart" -> "restart" [] OTHER -> "script"]
ResetTwice == [a \in Actions |-> IF a = "reset" THEN 2 ELSE 1]
ScriptAfterReset == [a \in Actions |-> IF a = "reset" THEN "script" ELSE NoAction]
====
