---------------------------- MODULE MCSolarRooms ----------------------------
(* A group and a direct message, a handler for each, the periodic wake and  *)
(* one operator.                                                            *)
EXTENDS SolarRooms

=============================================================================
