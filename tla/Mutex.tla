------------------------------- MODULE Mutex ---------------------------------
(* A sleeping lock (kern/sync.c, SYNC_MUTEX) on top of kern_wait and kern_wake *)
(* (kern/futex.c).  Every access to sync->thread and to sync->waiting is a     *)
(* step of its own.  kern_wake only wakes waiters of its own address, so the   *)
(* lock word behaves as a wait queue even where it shares a hash bucket.       *)
EXTENDS WaitQueue, Integers, FiniteSets

CONSTANTS
    sync,       \* the address of sync->thread
    Width,      \* sync->waiting counts modulo this number
    NULL

ASSUME SyncAssumption == Queues = {sync}
ASSUME NullAssumption == NULL \notin Threads
ASSUME WidthAssumption == /\ IsFiniteSet(Threads)
                          /\ Width \in Nat
                          /\ Cardinality(Threads) < Width

VARIABLES
    thread,     \* sync->thread, the owner
    waiting,    \* sync->waiting
    pc,         \* the statement a thread is at
    lock        \* the owner __sync_acquire saw

syncVars == <<thread, waiting, pc, lock>>
vars == <<wqVars, syncVars>>

Pcs == {"out", "cmpxchg", "inc", "prep", "load", "sleep", "dec", "in",
        "released", "wake"}

MutexTypeOK ==
    /\ WqTypeOK
    /\ thread \in Threads \cup {NULL}
    /\ waiting \in 0..Width - 1
    /\ pc \in [Threads -> Pcs]
    /\ lock \in [Threads -> Threads \cup {NULL}]

MutexInit ==
    /\ WqInit
    /\ thread = NULL
    /\ waiting = 0
    /\ pc = [t \in Threads |-> "out"]
    /\ lock = [t \in Threads |-> NULL]

Goto(t, l) == pc' = [pc EXCEPT ![t] = l]

sync_trylock(t) ==
    /\ pc[t] = "out"
    /\ thread = NULL
    /\ thread' = t
    /\ Goto(t, "in")
    /\ UNCHANGED <<wqVars, waiting, lock>>

sync_acquire(t) ==
    /\ pc[t] = "out"
    /\ Goto(t, "cmpxchg")
    /\ UNCHANGED <<wqVars, thread, waiting, lock>>

\* Stores without comparing.
Cmpxchg_blind(t) ==
    /\ pc[t] = "cmpxchg"
    /\ thread' = t
    /\ Goto(t, "in")
    /\ UNCHANGED <<wqVars, waiting, lock>>

\* Stands back as long as sync->waiting says that others wait.
Cmpxchg_stands_back(t) ==
    /\ pc[t] = "cmpxchg"
    /\ IF thread = NULL
       THEN IF waiting # 0
            THEN UNCHANGED <<pc, thread, lock>>
            ELSE thread' = t /\ Goto(t, "in") /\ UNCHANGED lock
       ELSE Goto(t, "inc") /\ lock' = [lock EXCEPT ![t] = thread] /\ UNCHANGED thread
    /\ UNCHANGED <<wqVars, waiting>>

Cmpxchg(t) ==
    /\ pc[t] = "cmpxchg"
    /\ IF thread = NULL
       THEN thread' = t /\ Goto(t, "in") /\ UNCHANGED lock
       ELSE Goto(t, "inc") /\ lock' = [lock EXCEPT ![t] = thread] /\ UNCHANGED thread
    /\ UNCHANGED <<wqVars, waiting>>

IncWaiting(t) ==
    /\ pc[t] = "inc"
    /\ waiting' = (waiting + 1) % Width
    /\ Goto(t, "prep")
    /\ UNCHANGED <<wqVars, thread, lock>>

\* __kern_wait puts its waiter on the queue before it looks at the word.
KernWaitPrep(t) ==
    /\ pc[t] = "prep"
    /\ Prep(t, sync)
    /\ Goto(t, "load")
    /\ UNCHANGED <<thread, waiting, lock>>

\* Sleeps without comparing.
KernWaitLoad_no_compare(t) ==
    /\ pc[t] = "load"
    /\ Bind(t, sync) /\ Goto(t, "sleep")
    /\ lock' = [lock EXCEPT ![t] = NULL]
    /\ UNCHANGED <<thread, waiting>>

KernWaitLoad(t) ==
    /\ pc[t] = "load"
    /\ IF thread = lock[t]
       THEN Bind(t, sync) /\ Goto(t, "sleep")
       ELSE Leave(t, sync) /\ Goto(t, "dec")
    /\ lock' = [lock EXCEPT ![t] = NULL]
    /\ UNCHANGED <<thread, waiting>>

KernWaitSleep(t) ==
    /\ pc[t] = "sleep"
    /\ Leave(t, sync)
    /\ Goto(t, "dec")
    /\ UNCHANGED <<thread, waiting, lock>>

\* Returns after the first sleep, without another try.
DecWaiting_no_loop(t) ==
    /\ pc[t] = "dec"
    /\ waiting' = (waiting - 1) % Width
    /\ Goto(t, "out")
    /\ UNCHANGED <<wqVars, thread, lock>>

DecWaiting(t) ==
    /\ pc[t] = "dec"
    /\ waiting' = (waiting - 1) % Width
    /\ Goto(t, "cmpxchg")
    /\ UNCHANGED <<wqVars, thread, lock>>

sync_release(t) ==
    /\ pc[t] = "in"
    /\ thread' = NULL
    /\ Goto(t, "released")
    /\ UNCHANGED <<wqVars, waiting, lock>>

LoadWaiting(t) ==
    /\ pc[t] = "released"
    /\ Goto(t, IF waiting # 0 THEN "wake" ELSE "out")
    /\ UNCHANGED <<wqVars, thread, waiting, lock>>

\* kern_wake(&sync->thread, 1, 0)
kern_wake(t) ==
    /\ pc[t] = "wake"
    /\ \/ \E u \in pending[sync] : Wake(sync, {u})
       \/ pending[sync] = {} /\ UNCHANGED wqVars
    /\ Goto(t, "out")
    /\ UNCHANGED <<thread, waiting, lock>>

\* A thread inside one of the three calls goes on.
Step(t) ==
    \/ Cmpxchg(t) \/ IncWaiting(t) \/ KernWaitPrep(t) \/ KernWaitLoad(t)
    \/ KernWaitSleep(t) \/ DecWaiting(t) \/ LoadWaiting(t) \/ kern_wake(t)

Next == \E t \in Threads : sync_trylock(t) \/ sync_acquire(t) \/ Step(t)
                           \/ sync_release(t)

Spec == MutexInit /\ [][Next]_vars

\* A thread inside a call runs on, and no thread keeps the lock for good.
FairSpec == Spec /\ \A t \in Threads : WF_vars(Step(t)) /\ WF_vars(sync_release(t))
------------------------------------------------------------------------------
Holders == {t \in Threads : pc[t] = "in"}

\* sync->thread is the one thread between its acquire and its release: no two
\* threads hold the lock, and the panics "double lock" and "unlocking a lock not
\* locked" of sync.c:114 and 160 are out of reach.
MutualExclusion == Holders = IF thread = NULL THEN {} ELSE {thread}

\* Threads that will try for the lock, or wake one that will, without anybody's
\* help.
Active ==
    {t \in Threads : \/ pc[t] \in {"cmpxchg", "inc", "prep", "load", "dec",
                                   "released", "wake"}
                     \/ pc[t] = "sleep" /\ t \in woken[sync]}

\* While the lock is free and a thread sleeps for it, some other thread is still
\* on its way to taking the lock or to waking a sleeper (sync.c:132-134 against
\* sync.c:159-168): the one wakeup of a release is never lost for good, although
\* it may go to a thread that finds the lock taken by a third.
NoStrandedWaiter ==
    thread = NULL /\ (\E t \in Threads : pc[t] = "sleep") => Active # {}

\* sync->waiting counts the threads inside kern_wait; it neither wraps nor
\* stays up after an aborted wait (sync.c:132, 134).
WaitingCounts ==
    waiting = Cardinality({t \in Threads : pc[t] \in {"prep", "load", "sleep", "dec"}})

\* The threads inside sync_acquire, whether or not they sleep.
Seeking == {t \in Threads : pc[t] \in {"cmpxchg", "inc", "prep", "load", "sleep", "dec"}}

L == INSTANCE Lock WITH owner <- thread, seeking <- Seeking

\* The mutex implements the lock its users rely on: however the loop of
\* sync_acquire (sync.c:110-142) sleeps, is woken and tries again, a thread
\* comes out of it as the owner of a lock that was free, and only the owner
\* itself gives it up (sync.c:159), never a thread that was woken late.
ImplementsLock == L!LockSpec

\* A free lock that somebody waits for is taken again.
FreeLockTaken ==
    (thread = NULL /\ \E t \in Threads : pc[t] \in {"cmpxchg", "sleep"})
        ~> thread # NULL
==============================================================================
