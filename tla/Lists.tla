-------------------------------- MODULE Lists --------------------------------
(* list_t (include/elos/list.h) as the sequence of the values on it.  A node   *)
(* is on at most one list, and at most once on it.                             *)
EXTENDS Integers, Sequences, Functions

list_append(s, e) == Append(s, e)

\* Only defined for a node that is on the list, as __list_check_inserted demands.
list_remove(s, e) ==
    LET i == CHOOSE i \in DOMAIN s : s[i] = e
    IN  SubSeq(s, 1, i - 1) \o SubSeq(s, i + 1, Len(s))
==============================================================================
