----------------------------- MODULE MCMemory -----------------------------
(* Small instances of Memory for TLC.                                       *)
EXTENDS Memory, TLC

CONSTANTS name, note, c1, c2, g1, j1, j2

Interchangeable == Permutations({c1, c2}) \cup Permutations({j1, j2})
=============================================================================
