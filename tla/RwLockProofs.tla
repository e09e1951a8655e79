---------------------------- MODULE RwLockProofs -----------------------------
(* Proofs about the reader-writer lock for any number of threads below the     *)
(* width of its counters.                                                      *)
EXTENDS RwLock, FiniteSetTheorems, TLAPS

Locking == {"wtest", "wset2", "rtest", "un2"}
Writing == {"win", "wset2", "un2"}
WWaiting == {"wprep", "wload", "wsleep", "wagain"}
RWaiting == {"rprep", "rload", "rsleep", "ragain"}

At(S) == {t \in Threads : pc[t] \in S}

\* The spin lock is held inside its sections, and the two copies of wrlock
\* differ only while the writer that is changing them holds it.
LockInv ==
    /\ \A t \in Threads : spin = t <=> pc[t] \in Locking
    /\ \A t, u \in At(Writing) : t = u
    /\ At(Writing) # {} => At({"rin"}) = {}
    /\ wrlock = 1 <=> At({"win", "wset2"}) # {}
    /\ wrlock2 = 1 <=> At({"win", "un2"}) # {}

CountInv ==
    /\ rdnum = Cardinality(At({"rin"}))
    /\ wrwait = Cardinality(At(WWaiting))
    /\ rdwait = Cardinality(At(RWaiting))

\* Where the waiters of t are, by the statement t is at, and that the word a
\* thread waits on was not that of a free lock.
WaiterInv(t) ==
    /\ t \in pending[wfutex] \cup woken[wfutex] <=> pc[t] \in {"wload", "wsleep"}
    /\ t \in pending[rfutex] \cup woken[rfutex] <=> pc[t] \in {"rload", "rsleep"}
    /\ pc[t] \in {"wprep", "wload", "rprep", "rload"} => val[t] # <<0, 0>>

\* The threads that will look for a sleeping writer, or are writers themselves
\* that will.
Pushing ==
    {t \in Threads :
        \/ pc[t] \in {"rin", "win", "wset2", "un2", "unwr", "wakew",
                      "wtest", "wprep", "wload", "wagain"}
        \/ pc[t] = "wsleep" /\ t \in woken[wfutex]}

SleepInv ==
    /\ \A s \in Threads :
           pc[s] = "wsleep" /\ s \in pending[wfutex] => Pushing # {}
    /\ \A s \in Threads :
           pc[s] = "rsleep" /\ s \in pending[rfutex]
               => Pushing \cup At({"unrd", "waker"}) # {}

IInv ==
    /\ RwTypeOK
    /\ LockInv
    /\ CountInv
    /\ \A t \in Threads : WaiterInv(t)
    /\ SleepInv
------------------------------------------------------------------------------
USE FutexAssumption, NullAssumption

\* The initial state satisfies the invariant.
LEMMA InitInv == RwInit => IInv
<1> SUFFICES ASSUME RwInit PROVE IInv
  OBVIOUS
<1>0. 0 \in 0..Width - 1
  BY WidthAssumption, FS_CardinalityType
<1>1. RwTypeOK
  BY <1>0 DEF RwInit, WqInit, RwTypeOK, WqTypeOK, Pcs
<1>2. \A S : "out" \notin S => At(S) = {}
  BY DEF RwInit, At
<1>3. LockInv
  BY <1>2 DEF RwInit, LockInv, Locking, Writing
<1>4. CountInv
  BY <1>2, FS_EmptySet, Zenon DEF RwInit, CountInv, WWaiting, RWaiting
<1>5. (\A t \in Threads : WaiterInv(t)) /\ SleepInv
  BY DEF RwInit, WqInit, WaiterInv, SleepInv
<1> QED BY <1>1, <1>3, <1>4, <1>5 DEF IInv
------------------------------------------------------------------------------
\* A set of threads is finite and smaller than the width of a counter.
LEMMA AtBound ==
    ASSUME NEW S
    PROVE  /\ IsFiniteSet(At(S))
           /\ Cardinality(At(S)) \in Nat
           /\ Cardinality(At(S)) < Width
<1>1. IsFiniteSet(At(S)) /\ Cardinality(At(S)) <= Cardinality(Threads)
  BY WidthAssumption, FS_Subset DEF At
<1>2. Cardinality(At(S)) \in Nat /\ Cardinality(Threads) \in Nat
  BY <1>1, WidthAssumption, FS_CardinalityType
<1> QED BY <1>1, <1>2, WidthAssumption

LEMMA AtEmpty ==
    ASSUME NEW S
    PROVE  Cardinality(At(S)) = 0 <=> At(S) = {}
  BY AtBound, FS_EmptySet

\* A thread that goes from a statement outside S to one inside adds one to
\* those at S, and the counters do not wrap.
LEMMA Enters ==
    ASSUME NEW t \in Threads, NEW S, NEW to, pc \in [Threads -> Pcs],
           pc' = [pc EXCEPT ![t] = to], pc[t] \notin S, to \in S
    PROVE  Cardinality(At(S)') = Inc(Cardinality(At(S)))
<1>1. At(S)' = At(S) \cup {t} /\ t \notin At(S)
  BY DEF At
<1>2. Cardinality(At(S)') = Cardinality(At(S)) + 1
  BY <1>1, AtBound, FS_AddElement, Zenon
<1>3. At(S)' \subseteq Threads
  BY DEF At
<1>4. Cardinality(At(S)') <= Cardinality(Threads) /\ Cardinality(Threads) \in Nat
  BY <1>3, WidthAssumption, FS_Subset, FS_CardinalityType
<1>5. Cardinality(At(S)) + 1 \in 0..Width - 1 /\ Width \in Nat
  BY <1>2, <1>4, AtBound, WidthAssumption
<1>6. \A n \in 0..Width - 1 : n % Width = n
  BY WidthAssumption
<1> QED BY <1>2, <1>5, <1>6 DEF Inc

LEMMA Leaves ==
    ASSUME NEW t \in Threads, NEW S, NEW to, pc \in [Threads -> Pcs],
           pc' = [pc EXCEPT ![t] = to], pc[t] \in S, to \notin S
    PROVE  Cardinality(At(S)') = Dec(Cardinality(At(S)))
<1>1. At(S)' = At(S) \ {t} /\ t \in At(S)
  BY DEF At
<1>2. Cardinality(At(S)') = Cardinality(At(S)) - 1
  BY <1>1, AtBound, FS_RemoveElement, Zenon
<1>3. Cardinality(At(S)) # 0
  BY <1>1, AtEmpty
<1>4. Cardinality(At(S)) - 1 \in 0..Width - 1 /\ Width \in Nat
  BY <1>3, AtBound, WidthAssumption
<1>5. \A n \in 0..Width - 1 : n % Width = n
  BY WidthAssumption
<1> QED BY <1>2, <1>4, <1>5 DEF Dec

LEMMA Stays ==
    ASSUME NEW t \in Threads, NEW S, NEW to, pc \in [Threads -> Pcs],
           pc' = [pc EXCEPT ![t] = to], pc[t] \in S <=> to \in S
    PROVE  At(S)' = At(S)
  BY DEF At

\* What a step of t does to the number of threads at S.
LEMMA Counts ==
    ASSUME NEW t \in Threads, NEW S, NEW to, pc \in [Threads -> Pcs],
           pc' = [pc EXCEPT ![t] = to]
    PROVE  Cardinality(At(S)') = IF pc[t] \in S
                                 THEN IF to \in S THEN Cardinality(At(S))
                                                 ELSE Dec(Cardinality(At(S)))
                                 ELSE IF to \in S THEN Inc(Cardinality(At(S)))
                                                 ELSE Cardinality(At(S))
  BY Enters, Leaves, Stays, Zenon

\* rwunlock takes the branch of what its caller holds.
LEMMA UnlockBranch ==
    ASSUME RwTypeOK, LockInv, CountInv, NEW t \in Threads
    PROVE  /\ pc[t] = "rin" => rdnum # 0
           /\ pc[t] \in Writing => rdnum = 0
<1>1. rdnum = 0 <=> At({"rin"}) = {}
  BY AtEmpty DEF CountInv
<1> QED BY <1>1 DEF At, LockInv

\* A thread is counted from the section that decides to wait to the one that
\* looks again, whichever way its wait ends.
LEMMA CountPreserved == IInv /\ Next => CountInv'
<1> SUFFICES ASSUME IInv, NEW t \in Threads,
                    wrlock_enter(t) \/ rdlock_enter(t) \/ rwunlock(t) \/ Step(t)
             PROVE  CountInv'
  BY DEF Next
<1>0. /\ pc \in [Threads -> Pcs]
      /\ rdnum = Cardinality(At({"rin"}))
      /\ wrwait = Cardinality(At(WWaiting))
      /\ rdwait = Cardinality(At(RWaiting))
  BY DEF IInv, RwTypeOK, CountInv
<1>1. ASSUME NEW to, pc' = [pc EXCEPT ![t] = to],
             rdnum' = IF pc[t] = "rin" THEN Dec(rdnum)
                      ELSE IF to = "rin" THEN Inc(rdnum) ELSE rdnum,
             wrwait' = IF pc[t] \in WWaiting
                       THEN IF to \in WWaiting THEN wrwait ELSE Dec(wrwait)
                       ELSE IF to \in WWaiting THEN Inc(wrwait) ELSE wrwait,
             rdwait' = IF pc[t] \in RWaiting
                       THEN IF to \in RWaiting THEN rdwait ELSE Dec(rdwait)
                       ELSE IF to \in RWaiting THEN Inc(rdwait) ELSE rdwait,
             ~(pc[t] = "rin" /\ to = "rin")
      PROVE  CountInv'
  <2>1. rdnum' = Cardinality(At({"rin"})')
    BY <1>0, <1>1, Counts, Zenon
  <2>2. wrwait' = Cardinality(At(WWaiting)')
    BY <1>0, <1>1, Counts, Zenon
  <2>3. rdwait' = Cardinality(At(RWaiting)')
    BY <1>0, <1>1, Counts, Zenon
  <2> QED BY <2>1, <2>2, <2>3 DEF CountInv
<1> USE DEF Goto
<1>2. CASE wrlock_enter(t)
  BY <1>0, <1>1, <1>2, Zenon DEF wrlock_enter, WWaiting, RWaiting
<1>3. CASE rdlock_enter(t)
  BY <1>0, <1>1, <1>3, Zenon DEF rdlock_enter, WWaiting, RWaiting
<1>4. CASE rwunlock(t)
  <2>1. /\ pc[t] = "rin" => rdnum # 0
        /\ pc[t] = "win" => rdnum = 0
    BY UnlockBranch DEF IInv, Writing
  <2> QED BY <2>1, <1>0, <1>1, <1>4 DEF rwunlock, WWaiting, RWaiting
<1>5. CASE WrTest(t)
  BY <1>0, <1>1, <1>5 DEF WrTest, WWaiting, RWaiting
<1>6. CASE RdTest(t)
  BY <1>0, <1>1, <1>6 DEF RdTest, WWaiting, RWaiting
<1>7. CASE WrAgain(t)
  BY <1>0, <1>1, <1>7, Zenon DEF WrAgain, WWaiting, RWaiting
<1>8. CASE RdAgain(t)
  BY <1>0, <1>1, <1>8, Zenon DEF RdAgain, WWaiting, RWaiting
<1>9. CASE WrSet2(t) \/ Unlock2(t)
  BY <1>0, <1>1, <1>9 DEF WrSet2, Unlock2, WWaiting, RWaiting
<1>10. CASE KernWaitPrep(t)
  BY <1>0, <1>1, <1>10 DEF KernWaitPrep, WWaiting, RWaiting
<1>11. CASE KernWaitLoad(t)
  BY <1>0, <1>1, <1>11 DEF KernWaitLoad, WWaiting, RWaiting
<1>12. CASE KernWaitSleep(t)
  BY <1>0, <1>1, <1>12 DEF KernWaitSleep, WWaiting, RWaiting
<1>13. CASE LoadWrwait(t) \/ LoadRdwait(t)
  BY <1>0, <1>1, <1>13 DEF LoadWrwait, LoadRdwait, WWaiting, RWaiting
<1>14. CASE WakeWriter(t) \/ WakeReaders(t)
  BY <1>0, <1>1, <1>14 DEF WakeWriter, WakeReaders, WWaiting, RWaiting
<1> QED BY <1>2, <1>3, <1>4, <1>5, <1>6, <1>7, <1>8, <1>9, <1>10, <1>11, <1>12,
           <1>13, <1>14 DEF Step

\* The spin lock and the two copies of wrlock tell who is where.
LEMMA LockPreserved == IInv /\ Next => LockInv'
<1> SUFFICES ASSUME IInv, NEW t \in Threads,
                    wrlock_enter(t) \/ rdlock_enter(t) \/ rwunlock(t) \/ Step(t)
             PROVE  LockInv'
  BY DEF Next
<1>0. /\ pc \in [Threads -> Pcs] /\ spin \in Threads \cup {NULL}
      /\ wrlock \in {0, 1} /\ wrlock2 \in {0, 1}
      /\ LockInv
      /\ rdnum = 0 <=> At({"rin"}) = {}
  BY AtEmpty DEF IInv, RwTypeOK, CountInv
<1> USE DEF Goto, Locking, Writing, At, LockInv
<1>1. CASE wrlock_enter(t)
  BY <1>0, <1>1 DEF wrlock_enter, spin_lock
<1>2. CASE rdlock_enter(t)
  BY <1>0, <1>2 DEF rdlock_enter, spin_lock
<1>3. CASE rwunlock(t)
  <2>1. CASE rdnum = 0
    BY <1>0, <1>3, <2>1 DEF rwunlock, spin_lock
  <2>2. CASE rdnum # 0
    BY <1>0, <1>3, <2>2 DEF rwunlock
  <2> QED BY <2>1, <2>2
<1>4. CASE WrTest(t)
  <2>1. CASE rdnum = 0 /\ wrlock = 0
    BY <1>0, <1>4, <2>1 DEF WrTest
  <2>2. CASE rdnum # 0 \/ wrlock # 0
    BY <1>0, <1>4, <2>2 DEF WrTest, spin_unlock
  <2> QED BY <2>1, <2>2
<1>5. CASE RdTest(t)
  <2>1. CASE wrlock = 0 /\ wrwait = 0
    BY <1>0, <1>5, <2>1 DEF RdTest, spin_unlock
  <2>2. CASE wrlock # 0 \/ wrwait # 0
    BY <1>0, <1>5, <2>2 DEF RdTest, spin_unlock
  <2> QED BY <2>1, <2>2
<1>6. CASE WrAgain(t)
  BY <1>0, <1>6 DEF WrAgain, spin_lock
<1>7. CASE RdAgain(t)
  BY <1>0, <1>7 DEF RdAgain, spin_lock
<1>8. CASE WrSet2(t)
  BY <1>0, <1>8 DEF WrSet2, spin_unlock
<1>9. CASE Unlock2(t)
  BY <1>0, <1>9 DEF Unlock2, spin_unlock
<1>10. CASE KernWaitPrep(t) \/ KernWaitLoad(t) \/ KernWaitSleep(t)
  BY <1>0, <1>10 DEF KernWaitPrep, KernWaitLoad, KernWaitSleep
<1>11. CASE LoadWrwait(t) \/ LoadRdwait(t) \/ WakeWriter(t) \/ WakeReaders(t)
  BY <1>0, <1>11 DEF LoadWrwait, LoadRdwait, WakeWriter, WakeReaders
<1> QED BY <1>1, <1>2, <1>3, <1>4, <1>5, <1>6, <1>7, <1>8, <1>9, <1>10, <1>11
        DEF Step

\* What a step of t does to the wait queues.
LEMMA WqSteps ==
    ASSUME WqTypeOK, NEW t \in Threads,
           wrlock_enter(t) \/ rdlock_enter(t) \/ rwunlock(t) \/ Step(t)
    PROVE  \/ UNCHANGED wqVars
           \/ KernWaitPrep(t) /\ \E q \in Queues : Prep(t, q)
           \/ \E q \in Queues : Bind(t, q) \/ Leave(t, q)
           \/ \E q \in Queues : \E W \in SUBSET Threads : Wake(q, W)
<1>1. CASE WakeWriter(t) \/ WakeReaders(t)
  <2>1. pending[rfutex] \in SUBSET Threads /\ pending[wfutex] \in SUBSET Threads
    BY DEF WqTypeOK
  <2> QED BY <1>1, <2>1, Zenon DEF WakeWriter, WakeReaders
<1>2. CASE KernWaitPrep(t) \/ KernWaitLoad(t) \/ KernWaitSleep(t)
  BY <1>2 DEF KernWaitPrep, KernWaitLoad, KernWaitSleep
<1> QED BY <1>1, <1>2 DEF Step, wrlock_enter, rdlock_enter, rwunlock, WrTest,
           WrSet2, WrAgain, RdTest, RdAgain, Unlock2, LoadWrwait, LoadRdwait

\* Type correctness of a step; the counters stay inside their width.
LEMMA TypePreserved == IInv /\ Next => RwTypeOK'
<1> SUFFICES ASSUME IInv, Next PROVE RwTypeOK'
  OBVIOUS
<1> PICK t \in Threads : wrlock_enter(t) \/ rdlock_enter(t) \/ rwunlock(t) \/ Step(t)
  BY DEF Next
<1>0. RwTypeOK
  BY DEF IInv
<1>1. {rdnum', rdwait', wrwait'} \subseteq 0..Width - 1
  <2>1. \A S : Cardinality(At(S))' \in 0..Width - 1
    <3> TAKE S
    <3>1. At(S)' \subseteq Threads
      BY DEF At
    <3>2. Cardinality(At(S)') <= Cardinality(Threads) /\ Cardinality(At(S)') \in Nat
      BY <3>1, WidthAssumption, FS_Subset, FS_CardinalityType
    <3> QED BY <3>2, WidthAssumption, FS_CardinalityType
  <2> QED BY <2>1, CountPreserved DEF CountInv
<1>2. pc' \in [Threads -> Pcs]
  <2>1. \E to \in Pcs : pc' = [pc EXCEPT ![t] = to]
    BY DEF Pcs, Goto, Step, wrlock_enter, rdlock_enter, rwunlock, WrTest, WrSet2, WrAgain,
       RdTest, RdAgain, KernWaitPrep, KernWaitLoad, KernWaitSleep, Unlock2, LoadWrwait,
       WakeWriter, LoadRdwait, WakeReaders
  <2> QED BY <2>1, <1>0 DEF RwTypeOK
<1>3. spin' \in Threads \cup {NULL}
  <2>1. spin \in Threads \cup {NULL}
    BY <1>0 DEF RwTypeOK
  <2>2. spin' \in {spin, t, NULL}
    BY DEF Step, wrlock_enter, rdlock_enter, rwunlock, WrTest, WrSet2, WrAgain, RdTest,
       RdAgain, KernWaitPrep, KernWaitLoad, KernWaitSleep, Unlock2, LoadWrwait,
       WakeWriter, LoadRdwait, WakeReaders, spin_lock, spin_unlock
  <2> QED BY <2>1, <2>2
<1>4. {wrlock', wrlock2'} \subseteq {0, 1}
  <2>1. wrlock' \in {wrlock, 0, 1} /\ wrlock2' \in {wrlock2, 0, 1}
    BY DEF Step, wrlock_enter, rdlock_enter, rwunlock, WrTest, WrSet2, WrAgain, RdTest,
       RdAgain, KernWaitPrep, KernWaitLoad, KernWaitSleep, Unlock2, LoadWrwait,
       WakeWriter, LoadRdwait, WakeReaders
  <2> QED BY <2>1, <1>0 DEF RwTypeOK
<1>5. val' \in [Threads -> (0..Width - 1) \X {0, 1}]
  <2>1. rword \in (0..Width - 1) \X {0, 1} /\ wword \in (0..Width - 1) \X {0, 1}
        /\ <<0, 0>> \in (0..Width - 1) \X {0, 1}
    BY <1>0, WidthAssumption, FS_CardinalityType DEF RwTypeOK, rword, wword
  <2>2. \/ val' = val
        \/ \E v \in {rword, wword, <<0, 0>>} : val' = [val EXCEPT ![t] = v]
    BY DEF Step, wrlock_enter, rdlock_enter, rwunlock, WrTest, WrSet2, WrAgain, RdTest,
       RdAgain, KernWaitPrep, KernWaitLoad, KernWaitSleep, Unlock2, LoadWrwait,
       WakeWriter, LoadRdwait, WakeReaders
  <2>3. val \in [Threads -> (0..Width - 1) \X {0, 1}]
    BY <1>0 DEF RwTypeOK
  <2>4. CASE val' = val
    BY <2>3, <2>4
  <2>5. CASE \E v \in {rword, wword, <<0, 0>>} : val' = [val EXCEPT ![t] = v]
    <3> PICK v \in {rword, wword, <<0, 0>>} : val' = [val EXCEPT ![t] = v]
      BY <2>5, Zenon
    <3>1. v \in (0..Width - 1) \X {0, 1}
      BY <2>1
    <3> QED BY <2>3, <3>1
  <2> QED BY <2>2, <2>4, <2>5
<1>6. WqTypeOK'
  <2>1. WqTypeOK
    BY <1>0 DEF RwTypeOK
  <2>2. CASE UNCHANGED wqVars
    BY <2>1, <2>2 DEF WqTypeOK, wqVars
  <2>3. CASE \E q \in Queues : Prep(t, q) \/ Bind(t, q) \/ Leave(t, q)
    BY <2>1, <2>3 DEF WqTypeOK, Prep, Bind, Leave
  <2>4. CASE \E q \in Queues : \E W \in SUBSET Threads : Wake(q, W)
    BY <2>1, <2>4 DEF WqTypeOK, Wake
  <2> QED BY <2>1, <2>2, <2>3, <2>4, WqSteps
<1> QED BY <1>1, <1>2, <1>3, <1>4, <1>5, <1>6 DEF RwTypeOK
\* A step of t moves the waiter of no other thread off a list, except that a
\* wakeup marks it, and no thread waits on the word of a free lock.
LEMMA WaiterPreserved == IInv /\ Next => \A u \in Threads : WaiterInv(u)'
<1> SUFFICES ASSUME IInv, NEW u \in Threads, NEW t \in Threads,
                    wrlock_enter(t) \/ rdlock_enter(t) \/ rwunlock(t) \/ Step(t)
             PROVE  WaiterInv(u)'
  BY DEF Next
<1>0. /\ pc \in [Threads -> Pcs]
      /\ DOMAIN val = Threads
      /\ val = [x \in Threads |-> val[x]]
      /\ pending \in [Queues -> SUBSET Threads]
      /\ woken \in [Queues -> SUBSET Threads]
      /\ WaiterInv(t) /\ WaiterInv(u)
      /\ rfutex # wfutex /\ Queues = {rfutex, wfutex}
  BY DEF IInv, RwTypeOK, WqTypeOK
<1>1. CASE /\ UNCHANGED <<pending, woken, val>>
           /\ \E to : /\ pc' = [pc EXCEPT ![t] = to]
                      /\ {pc[t], to} \cap {"wprep", "wload", "wsleep",
                                           "rprep", "rload", "rsleep"} = {}
  <2> PICK to : /\ pc' = [pc EXCEPT ![t] = to]
                /\ {pc[t], to} \cap {"wprep", "wload", "wsleep",
                                     "rprep", "rload", "rsleep"} = {}
    BY <1>1, Zenon
  <2> QED BY <1>0, <1>1, Zenon DEF WaiterInv
<1> USE DEF Goto
<1>2. CASE wrlock_enter(t) \/ rdlock_enter(t) \/ WrSet2(t) \/ WrAgain(t) \/ RdAgain(t)
           \/ Unlock2(t)
  BY <1>1, <1>2 DEF wrlock_enter, rdlock_enter, WrSet2, WrAgain, RdAgain, Unlock2, wqVars
<1>3. CASE rwunlock(t) \/ LoadWrwait(t) \/ LoadRdwait(t)
  BY <1>1, <1>3 DEF rwunlock, LoadWrwait, LoadRdwait, wqVars
<1>4. CASE WrTest(t)
  <2>1. CASE rdnum = 0 /\ wrlock = 0
    BY <1>1, <1>4, <2>1 DEF WrTest, wqVars
  <2>2. CASE rdnum # 0 \/ wrlock # 0
    <3>1. wword # <<0, 0>>
      <4>1. CASE rdnum # 0
        BY <4>1 DEF wword
      <4>2. CASE wrlock # 0
        <5>1. pc[t] = "wtest" /\ spin = t
          BY <1>4 DEF WrTest, IInv, LockInv, Locking
        <5>2. wrlock2 = 1
          BY <4>2, <5>1 DEF IInv, RwTypeOK, LockInv, At, Locking
        <5> QED BY <5>2 DEF wword
      <4> QED BY <2>2, <4>1, <4>2
    <3> QED BY <1>0, <1>4, <2>2, <3>1 DEF WrTest, wqVars, WaiterInv
  <2> QED BY <2>1, <2>2
<1>5. CASE RdTest(t)
  <2>1. CASE wrlock = 0 /\ wrwait = 0
    BY <1>1, <1>5, <2>1 DEF RdTest, wqVars
  <2>2. CASE wrlock # 0 \/ wrwait # 0
    <3>1. rword # <<0, 0>>
      BY <2>2 DEF rword
    <3> QED BY <1>0, <1>5, <2>2, <3>1 DEF RdTest, wqVars, WaiterInv
  <2> QED BY <2>1, <2>2
<1>6. CASE KernWaitPrep(t)
  BY <1>0, <1>6 DEF KernWaitPrep, Prep, WaiterInv
<1>7. CASE KernWaitLoad(t)
  <2>1. CASE \E q \in Queues : Bind(t, q)
    BY <1>0, <1>7, <2>1 DEF KernWaitLoad, Bind, Leave, WaiterInv
  <2>2. CASE Goto(t, "rload", "ragain") /\ Leave(t, rfutex)
    BY <1>0, <1>7, <2>2 DEF KernWaitLoad, Leave, WaiterInv
  <2>3. CASE Goto(t, "wload", "wagain") /\ Leave(t, wfutex)
    BY <1>0, <1>7, <2>3 DEF KernWaitLoad, Leave, WaiterInv
  <2> QED BY <1>7, <2>1, <2>2, <2>3 DEF KernWaitLoad
<1>8. CASE KernWaitSleep(t)
  BY <1>0, <1>8 DEF KernWaitSleep, Leave, WaiterInv
<1>9. CASE WakeWriter(t)
  BY <1>0, <1>9 DEF WakeWriter, Wake, wqVars, WaiterInv
<1>10. CASE WakeReaders(t)
  BY <1>0, <1>10 DEF WakeReaders, Wake, WaiterInv
<1> QED BY <1>2, <1>3, <1>4, <1>5, <1>6, <1>7, <1>8, <1>9, <1>10 DEF Step
\* A held lock, or a writer in line, means that somebody will look for writers.
LEMMA Pushed ==
    ASSUME IInv
    PROVE  /\ wword # <<0, 0>> => At({"rin", "win", "un2"}) # {}
           /\ rword # <<0, 0>> => Pushing # {}
<1>1. wword # <<0, 0>> => At({"rin", "win", "un2"}) # {}
  <2>1. rdnum = 0 <=> At({"rin"}) = {}
    BY AtEmpty DEF IInv, CountInv
  <2>2. wrlock2 = 1 => At({"win", "un2"}) # {}
    BY DEF IInv, LockInv
  <2>3. wrlock2 \in {0, 1}
    BY DEF IInv, RwTypeOK
  <2> QED BY <2>1, <2>2, <2>3 DEF wword, At
<1>2. rword # <<0, 0>> => Pushing # {}
  <2>1. wrwait = 0 <=> At(WWaiting) = {}
    BY AtEmpty DEF IInv, CountInv
  <2>2. wrlock # 0 => At({"win", "wset2"}) # {}
    BY DEF IInv, LockInv, RwTypeOK
  <2>3. At({"win", "wset2"}) # {} => Pushing # {}
    BY DEF At, Pushing
  <2>4. At(WWaiting) # {} => Pushing # {}
    <3> SUFFICES ASSUME NEW w \in Threads, pc[w] \in WWaiting PROVE Pushing # {}
      BY DEF At
    <3>1. CASE pc[w] = "wsleep"
      <4>1. w \in pending[wfutex] \cup woken[wfutex]
        BY <3>1 DEF IInv, WaiterInv
      <4> QED BY <3>1, <4>1 DEF IInv, SleepInv, Pushing
    <3>2. CASE pc[w] # "wsleep"
      BY <3>2 DEF WWaiting, Pushing
    <3> QED BY <3>1, <3>2
  <2> QED BY <2>1, <2>2, <2>3, <2>4 DEF rword
<1> QED BY <1>1, <1>2

\* Which action a thread can take, and where it goes, by the statement it is at.
LEMMA Moves ==
    ASSUME pc \in [Threads -> Pcs], NEW t \in Threads,
           wrlock_enter(t) \/ rdlock_enter(t) \/ rwunlock(t) \/ Step(t)
    PROVE  /\ \A u \in Threads \ {t} : pc'[u] = pc[u]
           /\ pc[t] \in {"rin", "win"} => rwunlock(t)
           /\ pc[t] = "unwr" => LoadWrwait(t)
           /\ pc[t] = "wakew" => WakeWriter(t)
           /\ pc[t] = "unrd" => LoadRdwait(t)
           /\ pc[t] = "waker" => WakeReaders(t)
           /\ pc[t] \in {"rload", "wload"} => KernWaitLoad(t)
           /\ pc[t] \in {"wset2", "un2", "wtest", "wprep", "wagain", "wsleep"}
                => pc'[t] \in {"win", "unwr", "wprep", "wset2", "wload", "wtest", "wagain"}
           /\ pc'[t] = "rsleep" => KernWaitLoad(t) /\ pc[t] = "rload"
           /\ pc'[t] = "wsleep" => KernWaitLoad(t) /\ pc[t] = "wload"
<1> USE DEF Goto
<1>1. CASE wrlock_enter(t) \/ rdlock_enter(t)
  BY <1>1 DEF wrlock_enter, rdlock_enter
<1>2. CASE rwunlock(t)
  BY <1>2 DEF rwunlock
<1>3. CASE WrTest(t) \/ RdTest(t)
  BY <1>3 DEF WrTest, RdTest
<1>4. CASE WrSet2(t) \/ WrAgain(t) \/ RdAgain(t) \/ Unlock2(t)
  BY <1>4 DEF WrSet2, WrAgain, RdAgain, Unlock2
<1>5. CASE KernWaitPrep(t) \/ KernWaitSleep(t)
  BY <1>5 DEF KernWaitPrep, KernWaitSleep
<1>6. CASE KernWaitLoad(t)
  BY <1>6 DEF KernWaitLoad
<1>7. CASE LoadWrwait(t) \/ LoadRdwait(t) \/ WakeWriter(t) \/ WakeReaders(t)
  BY <1>7, Zenon DEF LoadWrwait, LoadRdwait, WakeWriter, WakeReaders
<1> QED BY <1>1, <1>2, <1>3, <1>4, <1>5, <1>6, <1>7 DEF Step

\* A reader that leaves others behind is not the last one.
LEMMA ReadersRemain ==
    ASSUME IInv, NEW t \in Threads, rwunlock(t), rdnum # 0, Dec(rdnum) # 0
    PROVE  At({"rin"})' # {}
<1>1. pc[t] = "rin" /\ pc' = [pc EXCEPT ![t] = "out"]
  <2>1. pc[t] # "win"
    BY UnlockBranch DEF IInv, Writing
  <2> QED BY <2>1 DEF rwunlock, Goto
<1>2. Cardinality(At({"rin"})') # 0
  <2>1. rdnum = Cardinality(At({"rin"})) /\ pc \in [Threads -> Pcs]
    BY DEF IInv, CountInv, RwTypeOK
  <2>2. Cardinality(At({"rin"})') = Dec(Cardinality(At({"rin"})))
    BY <1>1, <2>1, Leaves, Zenon
  <2> QED BY <2>1, <2>2
<1>3. IsFiniteSet(At({"rin"})')
  BY WidthAssumption, FS_Subset DEF At
<1> QED BY <1>2, <1>3, FS_EmptySet

\* A waiter that is on a list and asleep after a step was so before it, unless
\* the step was the last one before its sleep.
LEMMA AsleepBefore ==
    ASSUME IInv, NEW t \in Threads, NEW s \in Threads, NEW q \in Queues,
           wrlock_enter(t) \/ rdlock_enter(t) \/ rwunlock(t) \/ Step(t),
           pc'[s] \in {"rsleep", "wsleep"}, s \in pending'[q],
           ~(KernWaitLoad(t) /\ s = t)
    PROVE  pc[s] = pc'[s] /\ s \in pending[q]
<1>0. /\ pc \in [Threads -> Pcs]
      /\ pending \in [Queues -> SUBSET Threads]
  BY DEF IInv, RwTypeOK, WqTypeOK
<1>1. s # t /\ pc[s] = pc'[s]
  BY <1>0, Moves
<1>2. \/ UNCHANGED wqVars
      \/ \E p \in Queues : Prep(t, p) \/ Bind(t, p) \/ Leave(t, p)
      \/ \E p \in Queues : \E W \in SUBSET Threads : Wake(p, W)
  BY WqSteps DEF IInv, RwTypeOK
<1>3. s \in pending[q]
  BY <1>0, <1>1, <1>2 DEF wqVars, Prep, Bind, Leave, Wake
<1> QED BY <1>1, <1>3

\* A step of another thread keeps h in Pushing.
LEMMA PushingStays ==
    ASSUME IInv, NEW t \in Threads, NEW h \in Pushing, h # t,
           wrlock_enter(t) \/ rdlock_enter(t) \/ rwunlock(t) \/ Step(t)
    PROVE  h \in Pushing'
<1>0. /\ pc \in [Threads -> Pcs]
      /\ woken \in [Queues -> SUBSET Threads]
      /\ h \in Threads
  BY DEF IInv, RwTypeOK, WqTypeOK, Pushing
<1>1. pc'[h] = pc[h]
  BY <1>0, Moves
<1>2. \/ UNCHANGED wqVars
      \/ \E p \in Queues : Prep(t, p) \/ Bind(t, p) \/ Leave(t, p)
      \/ \E p \in Queues : \E W \in SUBSET Threads : Wake(p, W)
  BY WqSteps DEF IInv, RwTypeOK
<1>3. h \in woken[wfutex] => h \in woken'[wfutex]
  BY <1>0, <1>2 DEF wqVars, Prep, Bind, Leave, Wake
<1> QED BY <1>0, <1>1, <1>3 DEF Pushing

\* A thread in Pushing leaves another one there, or looks for readers next,
\* which it does only when it has found no writer to wake.
LEMMA PushingStep ==
    ASSUME IInv, NEW t \in Pushing,
           wrlock_enter(t) \/ rdlock_enter(t) \/ rwunlock(t) \/ Step(t)
    PROVE  \/ Pushing' # {}
           \/ /\ pc'[t] = "unrd"
              /\ \/ wrwait = 0
                 \/ pending[wfutex] = {} /\ UNCHANGED pending
<1>0. /\ pc \in [Threads -> Pcs]
      /\ pending \in [Queues -> SUBSET Threads]
      /\ woken \in [Queues -> SUBSET Threads]
      /\ rfutex # wfutex /\ Queues = {rfutex, wfutex}
      /\ t \in Threads /\ WaiterInv(t)
  BY DEF IInv, RwTypeOK, WqTypeOK, Pushing
<1>1. CASE pc[t] \in {"rin", "win"}
  <2>0. rwunlock(t)
    BY <1>0, <1>1, Moves
  <2>1. CASE pc'[t] \in {"unwr", "un2"}
    BY <2>1, <1>0 DEF Pushing
  <2>2. CASE rdnum # 0 /\ Dec(rdnum) # 0
    BY <2>0, <2>2, <1>0, ReadersRemain DEF At, Pushing
  <2> QED BY <2>0, <2>1, <2>2, <1>0 DEF rwunlock, Goto
<1>2. CASE pc[t] = "unwr"
  <2>1. LoadWrwait(t)
    BY <1>0, <1>2, Moves
  <2>2. CASE wrwait # 0
    <3>1. pc'[t] = "wakew"
      BY <2>1, <2>2, <1>0 DEF LoadWrwait, Goto
    <3> QED BY <3>1, <1>0 DEF Pushing
  <2>3. CASE wrwait = 0
    <3>1. pc'[t] = "unrd"
      BY <2>1, <2>3, <1>0 DEF LoadWrwait, Goto
    <3> QED BY <3>1, <2>3
  <2> QED BY <2>2, <2>3
<1>3. CASE pc[t] = "wakew"
  <2>0. WakeWriter(t)
    BY <1>0, <1>3, Moves
  <2>1. CASE pending[wfutex] = {}
    BY <2>0, <2>1, <1>0 DEF WakeWriter, Goto, wqVars
  <2>2. CASE pending[wfutex] # {}
    <3>1. PICK u \in pending[wfutex] : Wake(wfutex, {u})
      BY <2>0, <2>2 DEF WakeWriter
    <3>2. u \in Threads /\ u \in woken'[wfutex]
      BY <3>1, <1>0 DEF Wake
    <3>3. WaiterInv(u)
      BY <3>2 DEF IInv
    <3>4. pc[u] \in {"wload", "wsleep"}
      BY <3>1, <3>3 DEF WaiterInv
    <3>5. pc'[u] = pc[u]
      BY <1>0, <1>3, <3>2, <3>4, Moves
    <3> QED BY <3>2, <3>4, <3>5 DEF Pushing
  <2> QED BY <2>1, <2>2
<1>4. CASE pc[t] = "wload"
  <2>0. KernWaitLoad(t)
    BY <1>0, <1>4, Moves
  <2>1. CASE pc'[t] = "wsleep"
    <3>1. wword # <<0, 0>>
      BY <1>0, <1>4, <2>0, <2>1 DEF KernWaitLoad, Goto, WaiterInv
    <3>2. PICK x \in Threads : pc[x] \in {"rin", "win", "un2"}
      BY <3>1, Pushed DEF At
    <3>3. pc'[x] = pc[x]
      BY <1>0, <1>4, <3>2, Moves
    <3> QED BY <3>2, <3>3 DEF Pushing
  <2>2. CASE pc'[t] # "wsleep"
    BY <1>0, <1>4, <2>0, <2>2 DEF KernWaitLoad, Goto, Pushing
  <2> QED BY <2>1, <2>2
<1>5. CASE pc[t] \in {"wset2", "un2", "wtest", "wprep", "wagain", "wsleep"}
  <2>1. pc'[t] \in {"win", "unwr", "wprep", "wset2", "wload", "wtest", "wagain"}
    BY <1>0, <1>5, Moves
  <2> QED BY <2>1, <1>0 DEF Pushing
<1> QED BY <1>1, <1>2, <1>3, <1>4, <1>5 DEF Pushing

\* While a writer sleeps and no wakeup has reached it, a step leaves somebody
\* who will look for it.
LEMMA WriterSleepPreserved ==
    ASSUME IInv, NEW t \in Threads, NEW s \in Threads,
           wrlock_enter(t) \/ rdlock_enter(t) \/ rwunlock(t) \/ Step(t),
           pc'[s] = "wsleep", s \in pending'[wfutex]
    PROVE  Pushing' # {}
<1>0. pc \in [Threads -> Pcs] /\ wfutex \in Queues
  BY DEF IInv, RwTypeOK
<1>1. CASE KernWaitLoad(t) /\ s = t
  <2>1. t \in Pushing /\ pc'[t] # "unrd"
    BY <1>0, <1>1, Moves DEF Pushing
  <2> QED BY <2>1, PushingStep
<1>2. CASE ~(KernWaitLoad(t) /\ s = t)
  <2>1. pc[s] = "wsleep" /\ s \in pending[wfutex]
    BY <1>0, <1>2, AsleepBefore
  <2>2. PICK h \in Pushing : TRUE
    BY <2>1 DEF IInv, SleepInv
  <2>3. CASE h # t
    BY <2>2, <2>3, PushingStays
  <2>4. CASE h = t
    <3>1. s \in At(WWaiting)
      BY <2>1 DEF At, WWaiting
    <3>2. wrwait # 0
      BY <3>1, AtEmpty DEF IInv, CountInv
    <3> QED BY <2>2, <2>4, <2>1, <3>2, PushingStep
  <2> QED BY <2>3, <2>4
<1> QED BY <1>1, <1>2

\* The same for a sleeping reader, which the threads that look for readers
\* next may also wake.
LEMMA ReaderSleepPreserved ==
    ASSUME IInv, NEW t \in Threads, NEW s \in Threads,
           wrlock_enter(t) \/ rdlock_enter(t) \/ rwunlock(t) \/ Step(t),
           pc'[s] = "rsleep", s \in pending'[rfutex]
    PROVE  Pushing' \cup At({"unrd", "waker"})' # {}
<1>0. /\ pc \in [Threads -> Pcs] /\ rfutex \in Queues
      /\ pending \in [Queues -> SUBSET Threads]
      /\ WaiterInv(t)
  BY DEF IInv, RwTypeOK, WqTypeOK
<1>1. CASE KernWaitLoad(t) /\ s = t
  <2>1. rword # <<0, 0>>
    BY <1>0, <1>1 DEF KernWaitLoad, Goto, WaiterInv
  <2>2. PICK h \in Pushing : TRUE
    BY <2>1, Pushed
  <2>3. h # t
    BY <1>0, <1>1, <2>2, Moves DEF Pushing
  <2> QED BY <2>2, <2>3, PushingStays
<1>2. CASE ~(KernWaitLoad(t) /\ s = t)
  <2>1. pc[s] = "rsleep" /\ s \in pending[rfutex]
    BY <1>0, <1>2, AsleepBefore
  <2>2. PICK h \in Pushing \cup At({"unrd", "waker"}) : TRUE
    BY <2>1 DEF IInv, SleepInv
  <2>3. CASE h \in Pushing
    <3>1. CASE h # t
      BY <2>3, <3>1, PushingStays
    <3>2. CASE h = t
      BY <2>3, <3>2, PushingStep DEF At
    <3> QED BY <3>1, <3>2
  <2>4. CASE h \in At({"unrd", "waker"})
    <3>0. h \in Threads /\ pc[h] \in {"unrd", "waker"}
      BY <2>4 DEF At
    <3>1. CASE h # t
      <4>1. pc'[h] = pc[h]
        BY <1>0, <3>0, <3>1, Moves
      <4> QED BY <3>0, <4>1 DEF At
    <3>2. CASE h = t /\ pc[t] = "unrd"
      <4>1. s \in At(RWaiting)
        BY <2>1 DEF At, RWaiting
      <4>2. rdwait # 0
        BY <4>1, AtEmpty DEF IInv, CountInv
      <4>3. LoadRdwait(t)
        BY <1>0, <3>2, Moves
      <4> QED BY <1>0, <4>2, <4>3 DEF LoadRdwait, Goto, At
    <3>3. CASE h = t /\ pc[t] = "waker"
      <4>1. WakeReaders(t)
        BY <1>0, <3>3, Moves
      <4> QED BY <1>0, <4>1 DEF WakeReaders, Wake
    <3> QED BY <3>0, <3>1, <3>2, <3>3
  <2> QED BY <2>2, <2>3, <2>4
<1> QED BY <1>1, <1>2
------------------------------------------------------------------------------
\* The invariant holds in every state of the lock.
THEOREM RwInvariant == Spec => []IInv
<1>1. IInv /\ UNCHANGED vars => IInv'
  BY DEF IInv, RwTypeOK, WqTypeOK, LockInv, CountInv, WaiterInv, SleepInv, Pushing, At,
     vars, wqVars, rwVars
<1>2. IInv /\ Next => SleepInv'
  <2> SUFFICES ASSUME IInv, NEW t \in Threads,
                      wrlock_enter(t) \/ rdlock_enter(t) \/ rwunlock(t) \/ Step(t)
               PROVE  SleepInv'
    BY DEF Next
  <2> QED BY WriterSleepPreserved, ReaderSleepPreserved, Zenon DEF SleepInv
<1>3. IInv /\ Next => IInv'
  BY <1>2, TypePreserved, LockPreserved, CountPreserved, WaiterPreserved DEF IInv
<1> QED BY InitInv, <1>1, <1>3, PTL DEF Spec

\* Type correctness; in particular none of the three counters ever wraps.
THEOREM RwTypes == Spec => []RwTypeOK
<1>1. IInv => RwTypeOK
  BY DEF IInv
<1> QED BY <1>1, RwInvariant, PTL

\* A writer excludes readers and other writers, and rdnum and wrlock tell the
\* readers and the writer, for any number of threads.
THEOREM RwExcludes == Spec => []RwExclusion
<1>1. IInv => RwExclusion
  <2> SUFFICES ASSUME IInv PROVE RwExclusion
    OBVIOUS
  <2>1. Readers = At({"rin"}) /\ Writers = At({"win", "wset2"})
    BY DEF Readers, Writers, At
  <2>2. Writers # {} => Readers = {}
    BY <2>1 DEF IInv, LockInv, At, Writing
  <2>3. wrlock = Cardinality(Writers)
    <3>1. CASE Writers = {}
      BY <3>1, <2>1, FS_EmptySet DEF IInv, LockInv, RwTypeOK
    <3>2. CASE Writers # {}
      <4>1. PICK w \in Threads : Writers = {w}
        BY <3>2, <2>1 DEF IInv, LockInv, At, Writing
      <4>2. Cardinality({w}) = 1
        BY FS_Singleton
      <4> QED BY <3>2, <4>1, <4>2, <2>1 DEF IInv, LockInv
    <3> QED BY <3>1, <3>2
  <2>4. Cardinality(Writers) <= 1
    BY <2>3 DEF IInv, RwTypeOK
  <2> QED BY <2>1, <2>2, <2>3, <2>4 DEF RwExclusion, IInv, CountInv
<1> QED BY <1>1, RwInvariant, PTL

\* wrwait and rdwait count the threads between the decision to wait and the
\* second look, whether they slept or the word had changed.
THEOREM RwCountsExact == Spec => []WaitersCounted
<1>1. IInv => WaitersCounted
  BY DEF IInv, CountInv, WaitersCounted, At, WWaiting, RWaiting
<1> QED BY <1>1, RwInvariant, PTL

\* Nobody sleeps for the lock with no thread left that holds it, is on its way
\* to take it or is going to wake somebody.
THEOREM RwNoneStranded == Spec => []RwNoStrandedSleeper
<1>1. IInv => RwNoStrandedSleeper
  <2> SUFFICES ASSUME IInv, NEW s \in Threads, pc[s] \in {"rsleep", "wsleep"}
               PROVE  Active # {}
    BY DEF RwNoStrandedSleeper
  <2>1. /\ pc[s] = "wsleep" => s \in pending[wfutex] \cup woken[wfutex]
        /\ pc[s] = "rsleep" => s \in pending[rfutex] \cup woken[rfutex]
    BY DEF IInv, WaiterInv
  <2>2. Pushing \cup At({"unrd", "waker"}) \subseteq Active
    BY DEF Pushing, At, Active
  <2> QED BY <2>1, <2>2 DEF IInv, SleepInv, Active
<1> QED BY <1>1, RwInvariant, PTL
==============================================================================
