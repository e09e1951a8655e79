---------------------------- MODULE MCTimekeep -------------------------------
(* One reader at a time is enough: readers do not change what they read.       *)
EXTENDS Timekeep
==============================================================================
