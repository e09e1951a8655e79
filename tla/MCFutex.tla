------------------------------- MODULE MCFutex -------------------------------
(* Small instances of Futex for TLC: every address of a program hashes to one   *)
(* bucket, so does every address of the kernel.                                 *)
EXTENDS Futex, TLC

CONSTANTS khash, uhash, p1, p2, t1, t2, t3

TwoSpaces == [t \in Threads |-> IF t = t1 THEN p1 ELSE p2]
Hash == [a \in Addrs |-> IF a.ptr = kvas THEN khash ELSE uhash]

Sym == Permutations({t2, t3})
==============================================================================
