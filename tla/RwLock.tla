------------------------------- MODULE RwLock --------------------------------
(* The sleeping reader-writer lock (kern/rwlock.c) on top of kern_wait and     *)
(* kern_wake.  Its fields are written under lock->lock, but both futex words   *)
(* are loaded by kern_wait and both counters by rwunlock without it, so every  *)
(* write that such a load may see in the middle of a section is a step.        *)
EXTENDS WaitQueue, Integers, FiniteSets

CONSTANTS
    rfutex, wfutex,     \* the addresses of the two futex words
    Width,              \* the 16 bit counters count modulo this number
    NULL

ASSUME FutexAssumption == rfutex # wfutex /\ Queues = {rfutex, wfutex}
ASSUME NullAssumption == NULL \notin Threads
ASSUME WidthAssumption == /\ IsFiniteSet(Threads)
                          /\ Width \in Nat
                          /\ Cardinality(Threads) < Width

VARIABLES
    spin,       \* the holder of lock->lock
    rdnum, rdwait, wrwait,
    wrlock, wrlock2,
    pc,         \* the statement a thread is at
    val         \* the futex word it is going to wait on

rwVars == <<spin, rdnum, rdwait, wrwait, wrlock, wrlock2, pc, val>>
vars == <<wqVars, rwVars>>

\* The two unions of rwlock_t: wrlock is stored in both words.
rword == <<wrwait, wrlock>>
wword == <<rdnum, wrlock2>>

Pcs == {"out", "un2", "unwr", "wakew", "unrd", "waker",
        "wtest", "wset2", "wprep", "wload", "wsleep", "wagain", "win",
        "rtest", "rprep", "rload", "rsleep", "ragain", "rin"}

RwTypeOK ==
    /\ WqTypeOK
    /\ spin \in Threads \cup {NULL}
    /\ {rdnum, rdwait, wrwait} \subseteq 0..Width - 1
    /\ {wrlock, wrlock2} \subseteq {0, 1}
    /\ pc \in [Threads -> Pcs]
    /\ val \in [Threads -> (0..Width - 1) \X {0, 1}]

RwInit ==
    /\ WqInit
    /\ spin = NULL
    /\ rdnum = 0 /\ rdwait = 0 /\ wrwait = 0
    /\ wrlock = 0 /\ wrlock2 = 0
    /\ pc = [t \in Threads |-> "out"]
    /\ val = [t \in Threads |-> <<0, 0>>]

Inc(n) == (n + 1) % Width
Dec(n) == (n - 1) % Width

Goto(t, from, to) == pc[t] = from /\ pc' = [pc EXCEPT ![t] = to]

spin_lock(t) == spin = NULL /\ spin' = t
spin_unlock(t) == spin' = NULL
------------------------------------------------------------------------------
wrlock_enter(t) ==
    /\ Goto(t, "out", "wtest")
    /\ spin_lock(t)
    /\ UNCHANGED <<wqVars, rdnum, rdwait, wrwait, wrlock, wrlock2, val>>

\* Looks at the readers only.
WrTest_readers_only(t) ==
    \/ /\ rdnum # 0
       /\ Goto(t, "wtest", "wprep")
       /\ val' = [val EXCEPT ![t] = wword]
       /\ wrwait' = Inc(wrwait)
       /\ spin_unlock(t)
       /\ UNCHANGED <<wqVars, rdnum, rdwait, wrlock, wrlock2>>
    \/ /\ rdnum = 0
       /\ Goto(t, "wtest", "wset2")
       /\ wrlock' = 1
       /\ UNCHANGED <<wqVars, spin, rdnum, rdwait, wrwait, wrlock2, val>>

WrTest(t) ==
    \/ /\ rdnum # 0 \/ wrlock # 0
       /\ Goto(t, "wtest", "wprep")
       /\ val' = [val EXCEPT ![t] = wword]
       /\ wrwait' = Inc(wrwait)
       /\ spin_unlock(t)
       /\ UNCHANGED <<wqVars, rdnum, rdwait, wrlock, wrlock2>>
    \/ /\ rdnum = 0 /\ wrlock = 0
       /\ Goto(t, "wtest", "wset2")
       /\ wrlock' = 1
       /\ UNCHANGED <<wqVars, spin, rdnum, rdwait, wrwait, wrlock2, val>>

WrSet2(t) ==
    /\ Goto(t, "wset2", "win")
    /\ wrlock2' = 1
    /\ spin_unlock(t)
    /\ UNCHANGED <<wqVars, rdnum, rdwait, wrwait, wrlock, val>>

WrAgain(t) ==
    /\ Goto(t, "wagain", "wtest")
    /\ spin_lock(t)
    /\ wrwait' = Dec(wrwait)
    /\ UNCHANGED <<wqVars, rdnum, rdwait, wrlock, wrlock2, val>>

rdlock_enter(t) ==
    /\ Goto(t, "out", "rtest")
    /\ spin_lock(t)
    /\ UNCHANGED <<wqVars, rdnum, rdwait, wrwait, wrlock, wrlock2, val>>

\* Does not give way to waiting writers.
RdTest_no_preference(t) ==
    /\ spin_unlock(t)
    /\ IF wrlock # 0
       THEN /\ Goto(t, "rtest", "rprep")
            /\ val' = [val EXCEPT ![t] = rword]
            /\ rdwait' = Inc(rdwait)
            /\ UNCHANGED rdnum
       ELSE /\ Goto(t, "rtest", "rin")
            /\ rdnum' = Inc(rdnum)
            /\ UNCHANGED <<val, rdwait>>
    /\ UNCHANGED <<wqVars, wrwait, wrlock, wrlock2>>

RdTest(t) ==
    /\ spin_unlock(t)
    /\ \/ /\ wrlock # 0 \/ wrwait # 0
          /\ Goto(t, "rtest", "rprep")
          /\ val' = [val EXCEPT ![t] = rword]
          /\ rdwait' = Inc(rdwait)
          /\ UNCHANGED rdnum
       \/ /\ wrlock = 0 /\ wrwait = 0
          /\ Goto(t, "rtest", "rin")
          /\ rdnum' = Inc(rdnum)
          /\ UNCHANGED <<val, rdwait>>
    /\ UNCHANGED <<wqVars, wrwait, wrlock, wrlock2>>

RdAgain(t) ==
    /\ Goto(t, "ragain", "rtest")
    /\ spin_lock(t)
    /\ rdwait' = Dec(rdwait)
    /\ UNCHANGED <<wqVars, rdnum, wrwait, wrlock, wrlock2, val>>
------------------------------------------------------------------------------
\* kern_wait(&lock->rfutex, val, 0) and kern_wait(&lock->wfutex, val, 0): the
\* waiter is put on the queue before the word is loaded.
KernWaitPrep(t) ==
    /\ \/ Goto(t, "rprep", "rload") /\ Prep(t, rfutex)
       \/ Goto(t, "wprep", "wload") /\ Prep(t, wfutex)
    /\ UNCHANGED <<spin, rdnum, rdwait, wrwait, wrlock, wrlock2, val>>

\* Sleeps whatever the word has become.
KernWaitLoad_no_compare(t) ==
    /\ \/ Goto(t, "rload", "rsleep") /\ Bind(t, rfutex)
       \/ Goto(t, "wload", "wsleep") /\ Bind(t, wfutex)
    /\ val' = [val EXCEPT ![t] = <<0, 0>>]
    /\ UNCHANGED <<spin, rdnum, rdwait, wrwait, wrlock, wrlock2>>

KernWaitLoad(t) ==
    /\ \/ val[t] = rword /\ Goto(t, "rload", "rsleep") /\ Bind(t, rfutex)
       \/ val[t] # rword /\ Goto(t, "rload", "ragain") /\ Leave(t, rfutex)
       \/ val[t] = wword /\ Goto(t, "wload", "wsleep") /\ Bind(t, wfutex)
       \/ val[t] # wword /\ Goto(t, "wload", "wagain") /\ Leave(t, wfutex)
    /\ val' = [val EXCEPT ![t] = <<0, 0>>]
    /\ UNCHANGED <<spin, rdnum, rdwait, wrwait, wrlock, wrlock2>>

KernWaitSleep(t) ==
    /\ \/ Goto(t, "rsleep", "ragain") /\ Leave(t, rfutex)
       \/ Goto(t, "wsleep", "wagain") /\ Leave(t, wfutex)
    /\ UNCHANGED <<spin, rdnum, rdwait, wrwait, wrlock, wrlock2, val>>
------------------------------------------------------------------------------
\* rwunlock tells a reader from a writer by rdnum.
rwunlock(t) ==
    /\ pc[t] \in {"rin", "win"}
    /\ \/ /\ rdnum # 0
          /\ spin = NULL
          /\ rdnum' = Dec(rdnum)
          /\ Goto(t, pc[t], IF rdnum' # 0 THEN "out" ELSE "unwr")
          /\ UNCHANGED <<spin, wrlock>>
       \/ /\ rdnum = 0
          /\ spin_lock(t)
          /\ wrlock' = 0
          /\ Goto(t, pc[t], "un2")
          /\ UNCHANGED rdnum
    /\ UNCHANGED <<wqVars, rdwait, wrwait, wrlock2, val>>

Unlock2(t) ==
    /\ Goto(t, "un2", "unwr")
    /\ wrlock2' = 0
    /\ spin_unlock(t)
    /\ UNCHANGED <<wqVars, rdnum, rdwait, wrwait, wrlock, val>>

LoadWrwait(t) ==
    /\ Goto(t, "unwr", IF wrwait # 0 THEN "wakew" ELSE "unrd")
    /\ UNCHANGED <<wqVars, spin, rdnum, rdwait, wrwait, wrlock, wrlock2, val>>

WakeWriter(t) ==
    /\ \/ Goto(t, "wakew", "out") /\ \E u \in pending[wfutex] : Wake(wfutex, {u})
       \/ Goto(t, "wakew", "unrd") /\ pending[wfutex] = {} /\ UNCHANGED wqVars
    /\ UNCHANGED <<spin, rdnum, rdwait, wrwait, wrlock, wrlock2, val>>

LoadRdwait(t) ==
    /\ Goto(t, "unrd", IF rdwait # 0 THEN "waker" ELSE "out")
    /\ UNCHANGED <<wqVars, spin, rdnum, rdwait, wrwait, wrlock, wrlock2, val>>

WakeReaders(t) ==
    /\ Goto(t, "waker", "out")
    /\ Wake(rfutex, pending[rfutex])
    /\ UNCHANGED <<spin, rdnum, rdwait, wrwait, wrlock, wrlock2, val>>
------------------------------------------------------------------------------
\* A thread inside one of the calls goes on.
Step(t) ==
    \/ WrTest(t) \/ WrSet2(t) \/ WrAgain(t) \/ RdTest(t) \/ RdAgain(t)
    \/ KernWaitPrep(t) \/ KernWaitLoad(t) \/ KernWaitSleep(t)
    \/ Unlock2(t) \/ LoadWrwait(t) \/ WakeWriter(t) \/ LoadRdwait(t) \/ WakeReaders(t)

Next == \E t \in Threads : wrlock_enter(t) \/ rdlock_enter(t) \/ rwunlock(t) \/ Step(t)

Spec == RwInit /\ [][Next]_vars

\* A thread inside a call runs on and gets the spin lock at some time although
\* others contend for it, and nobody keeps the lock for good.
FairSpec == Spec /\ \A t \in Threads : SF_vars(Step(t)) /\ SF_vars(rwunlock(t))
------------------------------------------------------------------------------
Readers == {t \in Threads : pc[t] = "rin"}
Writers == {t \in Threads : pc[t] \in {"win", "wset2"}}

\* A writer is alone: there is at most one and no reader beside it, and
\* rwunlock, which looks at rdnum and not at who calls it, releases what its
\* caller holds (rwlock.c:97-111).
RwExclusion ==
    /\ Cardinality(Writers) <= 1
    /\ Writers # {} => Readers = {}
    /\ rdnum = Cardinality(Readers)
    /\ wrlock = Cardinality(Writers)

\* Both futex words and the reader counter tell the truth about who waits, also
\* after a wait that was aborted because its word had changed.
WaitersCounted ==
    /\ wrwait = Cardinality({t \in Threads : pc[t] \in {"wprep", "wload", "wsleep", "wagain"}})
    /\ rdwait = Cardinality({t \in Threads : pc[t] \in {"rprep", "rload", "rsleep", "ragain"}})

\* Somebody who needs nobody's help to go on, holders of the lock included.
Active ==
    {t \in Threads : \/ pc[t] \notin {"out", "rsleep", "wsleep"}
                     \/ pc[t] = "rsleep" /\ t \in woken[rfutex]
                     \/ pc[t] = "wsleep" /\ t \in woken[wfutex]}

\* A thread that sleeps for the lock is not alone: some thread holds the lock or
\* is on its way to take it or to wake one of the sleepers.  rwunlock looks at
\* wrwait and rdwait after it has released the spin lock, and wakes readers only
\* when its wakeup found no writer (rwlock.c:113-131).
RwNoStrandedSleeper ==
    (\E t \in Threads : pc[t] \in {"rsleep", "wsleep"}) => Active # {}

\* Readers do not sleep on a lock that is free and has no writer in line, except
\* for the time their wakeup takes.
ReadersReleased ==
    (\E t \in Threads : pc[t] = "rsleep" /\ t \in pending[rfutex])
        /\ wrlock = 0 /\ wrwait = 0
        => \E t \in Threads : pc[t] \in {"un2", "unwr", "wakew", "unrd", "waker", "wtest"}

\* While a writer waits, readers that keep coming cannot keep all writers out:
\* some writer gets the lock.
WriterGetsLock ==
    (\E t \in Threads : pc[t] \in {"wprep", "wsleep"}) ~> Writers # {}
==============================================================================
