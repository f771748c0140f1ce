---------------------------- MODULE MCEdgeActions ----------------------------
(* Two resets of one device under both forms of its id, a script for another *)
(* device, and two restarts of the same service for the one and the other.   *)
EXTENDS EdgeActions

Of(d, f, t, w, ss, sc) == [device |-> d, form |-> f, type |-> t, delay |-> w,
                           services |-> ss, script |-> sc]
MCRequest ==
  [cycle |-> Of("d", "full", "power_cycle", 1, << >>, "fix"),
   reset |-> Of("d", "local", "reset_driver", 0, << >>, "fix"),
   script |-> Of("e", "local", "custom_script", 0, << >>, "fix"),
   restart |-> Of("d", "full", "restart_services", 0, <<"spooler">>, "fix"),
   again |-> Of("e", "full", "restart_services", 0, <<"spooler">>, "fix")]
MCRequests == DOMAIN MCRequest
MCBecomes == [d |-> {"named", "none"}, e |-> {}]
=============================================================================
