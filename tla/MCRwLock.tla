----------------------------- MODULE MCRwLock --------------------------------
(* A few threads that lock one rwlock for reading and for writing.             *)
EXTENDS RwLock, TLC
==============================================================================
