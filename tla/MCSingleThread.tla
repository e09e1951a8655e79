---------------------------- MODULE MCSingleThread ----------------------------
(* Small instances of SingleThread for TLC. *)
EXTENDS SingleThread, TLC

CONSTANTS t1, t2, t3

Symmetry == Permutations(Start)
==============================================================================
