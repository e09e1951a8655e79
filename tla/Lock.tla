-------------------------------- MODULE Lock ---------------------------------
(* What a mutex promises its users: one owner at a time, which only gives the  *)
(* lock up itself, and which was seeking the lock from its call on.  The       *)
(* models of code that runs under a mutex take one the way this module does,   *)
(* in one step when it is free; Mutex shows that sync.c implements it.         *)

CONSTANTS Threads, NULL

VARIABLES
    owner,
    seeking     \* the threads inside sync_acquire

lockVars == <<owner, seeking>>

LockInit == owner = NULL /\ seeking = {}

Seek(t) == t \notin seeking /\ owner # t /\ seeking' = seeking \cup {t} /\ UNCHANGED owner

Take(t) == t \in seeking /\ owner = NULL /\ owner' = t /\ seeking' = seeking \ {t}

Try(t) == t \notin seeking /\ owner = NULL /\ owner' = t /\ UNCHANGED seeking

Release(t) == owner = t /\ owner' = NULL /\ UNCHANGED seeking

LockNext == \E t \in Threads : Seek(t) \/ Take(t) \/ Try(t) \/ Release(t)

LockSpec == LockInit /\ [][LockNext]_lockVars
==============================================================================
