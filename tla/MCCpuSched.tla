----------------------------- MODULE MCCpuSched ------------------------------
(* Two threads that run, sleep and exit, and the async thread.                 *)
EXTENDS CpuSched, TLC

CONSTANTS a, b
==============================================================================
