-------------------------- MODULE MCSolarInbound --------------------------
(* Small instances of SolarInbound for TLC.                                 *)
EXTENDS SolarInbound, TLC

CONSTANTS x, y, f1, f2

\* The goroutines that handle batches are alike.
Symmetry == Permutations(Flushers)
=============================================================================
