----------------------------- MODULE MutexProofs -----------------------------
(* Proofs about the mutex for any number of threads below the width of         *)
(* sync->waiting.                                                              *)
EXTENDS Mutex, FiniteSetTheorems, TLAPS

Counted == {t \in Threads : pc[t] \in {"prep", "load", "sleep", "dec"}}

\* Where the waiter of t is, by the statement t is at.
WaiterInv(t) ==
    /\ t \in pending[sync] => pc[t] \in {"load", "sleep"} /\ t \notin woken[sync]
    /\ t \in woken[sync] => pc[t] \in {"load", "sleep"}
    /\ pc[t] \in {"load", "sleep"} => In(t, sync)
    /\ t \in bound[sync] <=> pc[t] = "sleep"
    /\ pc[t] \in {"inc", "prep", "load"} => lock[t] # NULL

OwnerInv == \A t \in Threads : pc[t] = "in" <=> thread = t

IInv ==
    /\ MutexTypeOK
    /\ \A t \in Threads : WaiterInv(t)
    /\ OwnerInv
    /\ WaitingCounts
    /\ NoStrandedWaiter
------------------------------------------------------------------------------
USE SyncAssumption, NullAssumption

\* The initial state satisfies the invariant.
LEMMA InitInv == MutexInit => IInv
<1> SUFFICES ASSUME MutexInit PROVE IInv
  OBVIOUS
<1> USE DEF MutexInit, WqInit
<1>1. MutexTypeOK
  BY WidthAssumption, FS_CardinalityType DEF MutexTypeOK, WqTypeOK, Pcs
<1>2. \A t \in Threads : WaiterInv(t)
  BY Zenon DEF WaiterInv, In
<1>3. OwnerInv /\ NoStrandedWaiter
  BY DEF OwnerInv, NoStrandedWaiter
<1>4. {t \in Threads : pc[t] \in {"prep", "load", "sleep", "dec"}} = {}
  OBVIOUS
<1>5. WaitingCounts
  BY <1>4, FS_EmptySet DEF WaitingCounts
<1> QED BY <1>1, <1>2, <1>3, <1>5 DEF IInv
------------------------------------------------------------------------------
\* Arithmetic of a counter that stays below its width.
LEMMA NoWrap ==
    ASSUME NEW n \in Nat, n < Width
    PROVE  n % Width = n
  BY WidthAssumption

\* The number of counted threads is a natural number below the width.
LEMMA CountedBound ==
    ASSUME NEW S, S \subseteq Threads
    PROVE  /\ IsFiniteSet(S)
           /\ Cardinality(S) \in Nat
           /\ Cardinality(S) < Width
<1>1. IsFiniteSet(S) /\ Cardinality(S) <= Cardinality(Threads)
  BY WidthAssumption, FS_Subset
<1>2. Cardinality(S) \in Nat /\ Cardinality(Threads) \in Nat
  BY <1>1, WidthAssumption, FS_CardinalityType
<1> QED BY <1>1, <1>2, WidthAssumption

\* sync->waiting keeps counting the threads inside kern_wait.
LEMMA CountsPreserved == IInv /\ Next => WaitingCounts' /\ waiting' \in 0..Width-1
<1> SUFFICES ASSUME IInv, Next PROVE WaitingCounts' /\ waiting' \in 0..Width-1
  OBVIOUS
<1>1. /\ waiting = Cardinality(Counted)
      /\ pc \in [Threads -> Pcs]
  BY DEF IInv, WaitingCounts, Counted, MutexTypeOK
<1>2. Counted \subseteq Threads /\ Counted' \subseteq Threads
  BY DEF Counted
<1>3. SUFFICES waiting' = Cardinality(Counted')
  BY <1>2, CountedBound, WidthAssumption DEF WaitingCounts, Counted
<1> PICK t \in Threads : sync_trylock(t) \/ sync_acquire(t) \/ Step(t) \/ sync_release(t)
  BY DEF Next
<1>4. CASE IncWaiting(t)
  <2>1. Counted' = Counted \cup {t} /\ t \notin Counted
    BY <1>4, <1>1 DEF IncWaiting, Goto, Counted
  <2>2. Cardinality(Counted') = Cardinality(Counted) + 1
    BY <2>1, <1>2, CountedBound, FS_AddElement
  <2> QED BY <2>2, <1>4, <1>1, <1>2, CountedBound, NoWrap DEF IncWaiting
<1>5. CASE DecWaiting(t)
  <2>1. Counted' = Counted \ {t} /\ t \in Counted
    BY <1>5, <1>1 DEF DecWaiting, Goto, Counted
  <2>2. Cardinality(Counted') = Cardinality(Counted) - 1
    BY <2>1, <1>2, CountedBound, FS_RemoveElement
  <2> QED BY <2>2, <1>5, <1>1, <1>2, CountedBound, NoWrap DEF DecWaiting
<1>6. CASE ~IncWaiting(t) /\ ~DecWaiting(t)
  <2>1. waiting' = waiting /\ Counted' = Counted
    BY <1>6, <1>1 DEF sync_trylock, sync_acquire, Step, Cmpxchg, KernWaitPrep,
         KernWaitLoad, KernWaitSleep, LoadWaiting, kern_wake, sync_release, Goto, Counted
  <2> QED BY <2>1, <1>1
<1> QED BY <1>4, <1>5, <1>6

\* A free lock with a sleeper has an active thread after every step.
LEMMA StrandedPreserved == IInv /\ Next => NoStrandedWaiter'
<1> SUFFICES ASSUME IInv, Next,
                    thread' = NULL, NEW s \in Threads, pc'[s] = "sleep"
             PROVE  Active' # {}
  BY DEF NoStrandedWaiter
<1> PICK t \in Threads : sync_trylock(t) \/ sync_acquire(t) \/ Step(t) \/ sync_release(t)
  BY DEF Next
<1> USE DEF Goto
<1>0. /\ pc \in [Threads -> Pcs]
      /\ WaiterInv(t) /\ WaiterInv(s)
      /\ \A u \in Threads : u \in pending[sync] => pc[u] \in {"load", "sleep"}
      /\ \A u \in Threads : pc[u] = "sleep" => u \in pending[sync] \cup woken[sync]
      /\ sync \in Queues
      /\ woken \in [Queues -> SUBSET Threads]
      /\ pending \in [Queues -> SUBSET Threads]
  BY DEF IInv, MutexTypeOK, WqTypeOK, WaiterInv, In
<1>1. CASE pc'[t] \in {"cmpxchg", "inc", "prep", "load", "dec", "released", "wake"}
  BY <1>1 DEF Active
<1>2. CASE sync_trylock(t)
  BY <1>2 DEF sync_trylock
<1>3. CASE Cmpxchg(t)
  BY <1>3, <1>1, <1>0 DEF Cmpxchg
<1>4. CASE KernWaitLoad(t)
  BY <1>4, <1>1, <1>0 DEF KernWaitLoad, WaiterInv
<1>5. CASE LoadWaiting(t)
  <2>1. CASE waiting # 0
    BY <2>1, <1>5, <1>1, <1>0 DEF LoadWaiting
  <2>2. CASE waiting = 0
    <3>1. Counted = {}
      BY <2>2, CountedBound, FS_EmptySet DEF IInv, WaitingCounts, Counted
    <3>2. pc[s] = "sleep"
      BY <1>5, <1>0 DEF LoadWaiting
    <3> QED BY <3>1, <3>2 DEF Counted
  <2> QED BY <2>1, <2>2
<1>6. CASE kern_wake(t)
  <2>1. CASE \E u \in pending[sync] : Wake(sync, {u})
    <3> PICK u \in pending[sync] : Wake(sync, {u})
      BY <2>1, Zenon
    <3>1. u \in Threads /\ u \in woken'[sync]
      BY <1>0 DEF Wake
    <3>2. pc'[u] \in {"load", "sleep"}
      BY <3>1, <1>0, <1>6 DEF kern_wake
    <3> QED BY <3>1, <3>2 DEF Active
  <2>2. CASE pending[sync] = {} /\ UNCHANGED wqVars
    <3>1. pc[s] = "sleep"
      BY <1>6, <1>0 DEF kern_wake
    <3>2. s \in woken'[sync]
      BY <3>1, <2>2, <1>0 DEF wqVars
    <3> QED BY <3>2 DEF Active
  <2> QED BY <2>1, <2>2, <1>6, Zenon DEF kern_wake
<1>7. CASE sync_acquire(t) \/ IncWaiting(t) \/ KernWaitPrep(t) \/ KernWaitSleep(t)
           \/ DecWaiting(t) \/ sync_release(t)
  BY <1>7, <1>1, <1>0 DEF sync_acquire, IncWaiting, KernWaitPrep, KernWaitSleep,
     DecWaiting, sync_release
<1> QED BY <1>2, <1>3, <1>4, <1>5, <1>6, <1>7 DEF Step
\* A step of t changes the waiter of no other thread, except that kern_wake
\* takes one off the queue.
LEMMA WaiterPreserved == IInv /\ Next => \A u \in Threads : WaiterInv(u)'
<1> SUFFICES ASSUME IInv, Next, NEW u \in Threads PROVE WaiterInv(u)'
  OBVIOUS
<1> PICK t \in Threads : sync_trylock(t) \/ sync_acquire(t) \/ Step(t) \/ sync_release(t)
  BY DEF Next
<1> USE DEF Goto, In
<1>0. /\ pc \in [Threads -> Pcs] /\ lock \in [Threads -> Threads \cup {NULL}]
      /\ thread \in Threads \cup {NULL}
      /\ WaiterInv(t) /\ WaiterInv(u)
      /\ sync \in Queues
      /\ woken \in [Queues -> SUBSET Threads]
      /\ pending \in [Queues -> SUBSET Threads]
      /\ bound \in [Queues -> SUBSET Threads]
  BY DEF IInv, MutexTypeOK, WqTypeOK
<1>1. CASE sync_trylock(t) \/ sync_acquire(t) \/ IncWaiting(t) \/ DecWaiting(t)
           \/ sync_release(t) \/ LoadWaiting(t)
  BY <1>0, <1>1 DEF sync_trylock, sync_acquire, IncWaiting, DecWaiting, sync_release,
     LoadWaiting, WaiterInv, wqVars
<1>2. CASE Cmpxchg(t)
  BY <1>0, <1>2 DEF Cmpxchg, WaiterInv, wqVars
<1>3. CASE KernWaitPrep(t)
  BY <1>0, <1>3 DEF KernWaitPrep, Prep, WaiterInv
<1>4. CASE KernWaitLoad(t)
  <2>1. CASE Bind(t, sync) /\ Goto(t, "sleep")
    BY <1>0, <1>4, <2>1 DEF KernWaitLoad, Bind, WaiterInv
  <2>2. CASE Leave(t, sync) /\ Goto(t, "dec")
    BY <1>0, <1>4, <2>2 DEF KernWaitLoad, Leave, WaiterInv
  <2> QED BY <1>4, <2>1, <2>2 DEF KernWaitLoad
<1>5. CASE KernWaitSleep(t)
  BY <1>0, <1>5 DEF KernWaitSleep, Leave, WaiterInv
<1>6. CASE kern_wake(t)
  BY <1>0, <1>6 DEF kern_wake, Wake, WaiterInv, wqVars
<1> QED BY <1>1, <1>2, <1>3, <1>4, <1>5, <1>6 DEF Step

\* The owner is the thread inside, whatever the others do.
LEMMA OwnerPreserved == IInv /\ Next => OwnerInv'
<1> SUFFICES ASSUME IInv, Next PROVE OwnerInv'
  OBVIOUS
<1> PICK t \in Threads : sync_trylock(t) \/ sync_acquire(t) \/ Step(t) \/ sync_release(t)
  BY DEF Next
<1> USE DEF Goto, OwnerInv
<1>0. pc \in [Threads -> Pcs] /\ OwnerInv
  BY DEF IInv, MutexTypeOK
<1>1. CASE sync_trylock(t)
  BY <1>0, <1>1 DEF sync_trylock
<1>2. CASE Cmpxchg(t)
  BY <1>0, <1>2 DEF Cmpxchg
<1>3. CASE sync_release(t)
  BY <1>0, <1>3 DEF sync_release
<1>4. CASE sync_acquire(t) \/ IncWaiting(t) \/ KernWaitPrep(t) \/ KernWaitLoad(t)
           \/ KernWaitSleep(t) \/ DecWaiting(t) \/ LoadWaiting(t) \/ kern_wake(t)
  BY <1>0, <1>4 DEF sync_acquire, IncWaiting, KernWaitPrep, KernWaitLoad,
     KernWaitSleep, DecWaiting, LoadWaiting, kern_wake
<1> QED BY <1>1, <1>2, <1>3, <1>4 DEF Step

\* Type correctness of a step.
LEMMA TypePreserved == IInv /\ Next => MutexTypeOK'
<1> SUFFICES ASSUME IInv, Next PROVE MutexTypeOK'
  OBVIOUS
<1> PICK t \in Threads : sync_trylock(t) \/ sync_acquire(t) \/ Step(t) \/ sync_release(t)
  BY DEF Next
<1>0. MutexTypeOK
  BY DEF IInv
<1>1. waiting' \in 0..Width - 1
  BY CountsPreserved
<1>2. pc' \in [Threads -> Pcs] /\ thread' \in Threads \cup {NULL}
      /\ lock' \in [Threads -> Threads \cup {NULL}]
  BY <1>0 DEF MutexTypeOK, Pcs, Goto, sync_trylock, sync_acquire, Step, Cmpxchg,
     IncWaiting, KernWaitPrep, KernWaitLoad, KernWaitSleep, DecWaiting,
     LoadWaiting, kern_wake, sync_release
<1>3. WqTypeOK'
  BY <1>0 DEF MutexTypeOK, WqTypeOK, wqVars, Prep, Bind, Leave, Wake, sync_trylock,
     sync_acquire, Step, Cmpxchg, IncWaiting, KernWaitPrep, KernWaitLoad,
     KernWaitSleep, DecWaiting, LoadWaiting, kern_wake, sync_release
<1> QED BY <1>1, <1>2, <1>3 DEF MutexTypeOK

\* The invariant holds in every state of the mutex.
THEOREM MutexInvariant == Spec => []IInv
<1>1. IInv /\ UNCHANGED vars => IInv'
  BY DEF IInv, MutexTypeOK, WqTypeOK, WaiterInv, In, OwnerInv, WaitingCounts,
     NoStrandedWaiter, Active, vars, wqVars, syncVars
<1>2. IInv /\ Next => IInv'
  BY TypePreserved, WaiterPreserved, OwnerPreserved, CountsPreserved,
     StrandedPreserved DEF IInv
<1> QED BY InitInv, <1>1, <1>2, PTL DEF Spec

\* Type correctness of the mutex; in particular sync->waiting never wraps.
THEOREM MutexTypes == Spec => []MutexTypeOK
<1>1. IInv => MutexTypeOK
  BY DEF IInv
<1> QED BY <1>1, MutexInvariant, PTL

\* At most one thread is between sync_acquire and sync_release, and it is the
\* one sync->thread names.
THEOREM Exclusion == Spec => []MutualExclusion
<1>1. IInv => MutualExclusion
  BY DEF IInv, OwnerInv, MutualExclusion, Holders, MutexTypeOK
<1> QED BY <1>1, MutexInvariant, PTL

\* No wakeup of a release is lost: a free lock never has only sleepers.
THEOREM NoneStranded == Spec => []NoStrandedWaiter
<1>1. IInv => NoStrandedWaiter
  BY DEF IInv
<1> QED BY <1>1, MutexInvariant, PTL

\* sync->waiting is the number of threads inside kern_wait.
THEOREM CounterExact == Spec => []WaitingCounts
<1>1. IInv => WaitingCounts
  BY DEF IInv
<1> QED BY <1>1, MutexInvariant, PTL
------------------------------------------------------------------------------
\* Every step of the mutex is a step of the lock or leaves it alone: calling
\* sync_acquire is Seek, the exchange that finds the lock free is Take, and
\* whatever a thread does between two exchanges keeps it seeking.
LEMMA StepIsLockStep ==
    ASSUME IInv, NEW t \in Threads, sync_trylock(t) \/ sync_acquire(t) \/ Step(t) \/ sync_release(t)
    PROVE  L!LockNext \/ UNCHANGED L!lockVars
<1> USE DEF L!LockNext, L!lockVars
<1>0. /\ pc \in [Threads -> Pcs] /\ thread \in Threads \cup {NULL}
      /\ \A u \in Threads : pc[u] = "in" <=> thread = u
  BY DEF IInv, MutexTypeOK, OwnerInv
<1>1. CASE sync_trylock(t)
  <2>1. t \notin Seeking /\ Seeking' = Seeking
    BY <1>0, <1>1 DEF sync_trylock, Goto, Seeking
  <2> QED BY <1>1, <2>1 DEF sync_trylock, L!Try
<1>2. CASE sync_acquire(t)
  <2>1. t \notin Seeking /\ Seeking' = Seeking \cup {t} /\ thread # t
    BY <1>0, <1>2 DEF sync_acquire, Goto, Seeking
  <2> QED BY <1>2, <2>1 DEF sync_acquire, L!Seek
<1>3. CASE Cmpxchg(t)
  <2>1. CASE thread = NULL
    <3>1. t \in Seeking /\ Seeking' = Seeking \ {t}
      BY <1>0, <1>3, <2>1 DEF Cmpxchg, Goto, Seeking
    <3> QED BY <1>3, <2>1, <3>1 DEF Cmpxchg, L!Take
  <2>2. CASE thread # NULL
    BY <1>0, <1>3, <2>2 DEF Cmpxchg, Goto, Seeking
  <2> QED BY <2>1, <2>2
<1>4. CASE IncWaiting(t) \/ KernWaitPrep(t) \/ KernWaitSleep(t) \/ DecWaiting(t)
  BY <1>0, <1>4 DEF IncWaiting, KernWaitPrep, KernWaitSleep, DecWaiting, Goto, Seeking
<1>5. CASE KernWaitLoad(t)
  BY <1>0, <1>5 DEF KernWaitLoad, Goto, Seeking
<1>6. CASE LoadWaiting(t) \/ kern_wake(t)
  BY <1>0, <1>6 DEF LoadWaiting, kern_wake, Goto, Seeking
<1>7. CASE sync_release(t)
  <2>1. thread = t /\ Seeking' = Seeking
    BY <1>0, <1>7 DEF sync_release, Goto, Seeking
  <2> QED BY <1>7, <2>1 DEF sync_release, L!Release
<1> QED BY <1>1, <1>2, <1>3, <1>4, <1>5, <1>6, <1>7 DEF Step

\* The mutex implements the lock that its users take in one step.
THEOREM MutexImplementsLock == Spec => ImplementsLock
<1>1. MutexInit => L!LockInit
  BY DEF MutexInit, L!LockInit, Seeking
<1>2. IInv /\ [Next]_vars => [L!LockNext]_(L!lockVars)
  <2>1. IInv /\ Next => L!LockNext \/ UNCHANGED L!lockVars
    BY StepIsLockStep DEF Next
  <2>2. UNCHANGED vars => UNCHANGED L!lockVars
    BY DEF vars, syncVars, L!lockVars, Seeking
  <2> QED BY <2>1, <2>2
<1> QED BY <1>1, <1>2, MutexInvariant, PTL DEF Spec, ImplementsLock, L!LockSpec
==============================================================================
