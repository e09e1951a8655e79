------------------------------ MODULE MCTimer --------------------------------
(* Timers that may be started in any order.                                    *)
EXTENDS Timer, TLC

Sym == Permutations(Timers)
==============================================================================
