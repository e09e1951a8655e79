------------------------------- MODULE MCBlock -------------------------------
(* Small instances of Block for TLC.                                            *)
EXTENDS Block, TLC

Symmetry == Permutations(Users) \cup Permutations(Chans)
==============================================================================
