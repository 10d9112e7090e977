------------------------- MODULE MCScheduledTasks -------------------------
(* Small instances of ScheduledTasks for TLC.                               *)
EXTENDS ScheduledTasks, TLC

CONSTANTS a, b, e1
=============================================================================
