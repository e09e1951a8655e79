------------------------------- MODULE MCPhys --------------------------------
(* A segment that begins and ends within a block, with a frame reserved in it. *)
EXTENDS Phys
==============================================================================
