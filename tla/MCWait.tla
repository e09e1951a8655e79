------------------------------- MODULE MCWait --------------------------------
(* Two threads that share a cpu and a wait queue.                              *)
EXTENDS Wait, TLC

CONSTANTS a, b, c1

SameCpu == a :> c1 @@ b :> c1
==============================================================================
