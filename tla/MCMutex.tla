------------------------------ MODULE MCMutex --------------------------------
(* Four threads and one mutex: a holder, a sleeper, a woken thread and one     *)
(* that takes the lock in front of it.                                         *)
EXTENDS Mutex, TLC
==============================================================================
