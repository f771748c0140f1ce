----------------------------- MODULE MCEdgeConfig -----------------------------
(* Three requests, only some orders of which are accepted, over two           *)
(* connections of an edge whose critical threshold the hub's file raises.     *)
EXTENDS EdgeConfig

Of(i, w, c) == [interval |-> i, warning |-> w, critical |-> c]
MCBody == [warn |-> Of(0, 72, 0), lower |-> Of(9, 0, 70), both |-> Of(0, 60, 90)]
MCRequests == DOMAIN MCBody
MCDefaults == Of(7, 0, 85)
MCOverride == Of(0, 0, 80)
MCOwn == Of(5, 65, 75)
=============================================================================
