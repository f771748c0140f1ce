--------------------------- MODULE MCDeviceManager ---------------------------
(* A small edge: one device both discoveries can list, one simulated.       *)
EXTENDS DeviceManager

Reading(r, f, t) == [reachable |-> r, fault |-> f, temperature |-> t]
MCReadings == {Reading(FALSE, FALSE, NoTemperature), Reading(TRUE, FALSE, 1)}
MCConfigs == {[warning |-> None, critical |-> 1], [warning |-> 2, critical |-> 3]}
=============================================================================
