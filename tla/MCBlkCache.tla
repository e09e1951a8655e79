------------------------------ MODULE MCBlkCache -----------------------------
(* Small instances of BlkCache for TLC.                                         *)
EXTENDS BlkCache

\* A part of a block, a block, and a part of one block with the next.
PartAndWhole == {<<0, 1>>, <<0, 2>>, <<1, 3>>}
Symmetry == Permutations(Threads) \cup Permutations(Bufs)
==============================================================================
