-------------------------------- MODULE Futex --------------------------------
(* Waiting for a word of memory to change (kern/futex.c), for the kernel itself *)
(* and for programs (sys_futex).  A word has the same name in every address     *)
(* space that maps it; a word in Shared is a shared mapping of a vm object.     *)
EXTENDS WaitQueue, Integers, FiniteSets

CONSTANTS
    KernWords,  \* words of the kernel
    Private,    \* words of private mappings, one per address space
    Shared,     \* words of shared mappings
    Vas,        \* the address space of each thread
    kvas,       \* vm_kern_vas
    FHT_HASH,   \* the bucket of a futex_addr; the kernel and programs have their own
    Values,
    INT_MAX,
    Nums,       \* the numbers of waiters programs ask to be woken
    ExitWords,  \* words that are the clear_child_tid of some thread
    NULL

Words == KernWords \cup Private \cup Shared
KWAIT_USR == "KWAIT_USR"
KWAIT_INTR == "KWAIT_INTR"
KWAIT_PRIV == "KWAIT_PRIV"
Flags == {KWAIT_USR, KWAIT_INTR, KWAIT_PRIV}

\* What is behind word w when thread t names it: a private word is another piece
\* of memory in every address space.
Cells == (KernWords \X {kvas}) \cup (Private \X {Vas[t] : t \in Threads}) \cup (Shared \X {NULL})
Cell(t, w) == IF w \in KernWords THEN <<w, kvas>>
              ELSE IF w \in Shared THEN <<w, NULL>> ELSE <<w, Vas[t]>>

\* futex_addr_t: the object stands for a shared word, which is all of it.
Addrs == [shared : {TRUE}, ptr : Shared, addr : Shared]
         \cup [shared : {FALSE}, ptr : {kvas} \cup {Vas[t] : t \in Threads}, addr : Words]

ASSUME FutexAssumption ==
    /\ FHT_HASH \in [Addrs -> Queues]
    /\ IsFiniteSet(Threads) /\ INT_MAX \in Nat /\ Cardinality(Threads) < INT_MAX
    /\ KernWords \cap (Private \cup Shared) = {}
    /\ 0 \in Values /\ Nums \subseteq 0..INT_MAX /\ ExitWords \subseteq Private \cup Shared

VARIABLES
    mem,        \* the contents of a cell
    ref,        \* references futex_addr took to the objects of shared words
    pc,
    call,       \* the arguments of the call and the address they resolve to
    panic       \* an assertion has failed

futexVars == <<mem, ref, pc, call, panic>>
vars == <<wqVars, futexVars>>

NoAddr == [shared |-> FALSE, ptr |-> NULL, addr |-> NULL]
NoCall == [word |-> NULL, val |-> 0, flags |-> {}, timeout |-> FALSE, num |-> 0,
           faddr |-> NoAddr]
Call == [word : Words \cup {NULL}, val : Values \cup {0}, flags : SUBSET Flags,
         timeout : BOOLEAN, num : 0..INT_MAX, faddr : Addrs \cup {NoAddr}]

Pcs == {"out", "addr", "prep", "load", "sleep", "stored", "wake"}

FutexTypeOK ==
    /\ WqTypeOK
    /\ mem \in [Cells -> Values]
    /\ ref \in [Shared -> 0..Cardinality(Threads)]
    /\ pc \in [Threads -> Pcs]
    /\ call \in [Threads -> Call]
    /\ panic \in BOOLEAN

FutexInit ==
    /\ WqInit
    /\ mem \in [Cells -> {CHOOSE v \in Values : TRUE}]
    /\ ref = [w \in Shared |-> 0]
    /\ pc = [t \in Threads |-> "out"]
    /\ call = [t \in Threads |-> NoCall]
    /\ panic = FALSE

Goto(t, from, to) == pc[t] = from /\ pc' = [pc EXCEPT ![t] = to]
------------------------------------------------------------------------------
futex_addr(t, w, flags) ==
    IF KWAIT_USR \in flags /\ KWAIT_PRIV \notin flags /\ w \in Shared
    THEN [shared |-> TRUE, ptr |-> w, addr |-> w]
    ELSE [shared |-> FALSE, ptr |-> IF KWAIT_USR \in flags THEN Vas[t] ELSE kvas,
          addr |-> w]

futex_waitq(faddr) == FHT_HASH[faddr]

\* Compares the address within the space but not the space.
futex_addr_cmp_no_space(a, b) == a.shared = b.shared /\ a.addr = b.addr

futex_addr_cmp(a, b) == a = b

Ref(faddr) == IF faddr.shared THEN [ref EXCEPT ![faddr.ptr] = @ + 1] ELSE ref

futex_addr_done(faddr) == IF faddr.shared THEN [ref EXCEPT ![faddr.ptr] = @ - 1] ELSE ref
------------------------------------------------------------------------------
\* kern_wait and kern_wait_timeout with the value the caller has seen.
kern_wait(t, w, flags, timeout) ==
    /\ Goto(t, "out", "addr")
    /\ call' = [call EXCEPT ![t] = [word |-> w, val |-> mem[Cell(t, w)], flags |-> flags,
                                    timeout |-> timeout, num |-> 0, faddr |-> NoAddr]]
    /\ UNCHANGED <<wqVars, mem, ref, panic>>

\* Neither the kernel nor sys_futex calls __kern_wait with an address that is
\* looked up, so futex_addr does not fail here.
WaitAddr(t) ==
    /\ Goto(t, "addr", "prep")
    /\ LET a == futex_addr(t, call[t].word, call[t].flags) IN
       /\ call' = [call EXCEPT ![t].faddr = a]
       /\ ref' = Ref(a)
    /\ UNCHANGED <<wqVars, mem, panic>>

WaitPrep(t) ==
    /\ Goto(t, "prep", "load")
    /\ Prep(t, futex_waitq(call[t].faddr))
    /\ UNCHANGED <<mem, ref, call, panic>>

\* The label "out" of __kern_wait, after wait_abort or wait_sleep_timeout.
WaitOut(t, from) ==
    /\ Goto(t, from, "out")
    /\ Leave(t, futex_waitq(call[t].faddr))
    /\ ref' = futex_addr_done(call[t].faddr)
    /\ call' = [call EXCEPT ![t] = NoCall]
    /\ UNCHANGED <<mem, panic>>

\* A sleep that an interrupt may end is not bound to a wakeup.
WaitSleep(t) ==
    /\ Goto(t, "load", "sleep")
    /\ IF KWAIT_INTR \notin call[t].flags
       THEN Bind(t, futex_waitq(call[t].faddr)) ELSE UNCHANGED wqVars
    /\ UNCHANGED <<mem, ref, call, panic>>

\* copyin_atomic faults.
WaitFault(t) == KWAIT_USR \in call[t].flags /\ WaitOut(t, "load")

\* The assertion on entry to wait_sleep_timeout.
WaitPanic(t) ==
    /\ Goto(t, "load", "out")
    /\ panic' = TRUE
    /\ UNCHANGED <<wqVars, mem, ref, call>>

\* The contents are compared with the waiter already on the queue.
WaitLoad(t) ==
    /\ pc[t] = "load"
    /\ IF mem[Cell(t, call[t].word)] # call[t].val
       THEN WaitOut(t, "load")
       ELSE IF call[t].timeout /\ KWAIT_INTR \notin call[t].flags
       THEN WaitPanic(t)
       ELSE WaitSleep(t)

WaitWoken(t) ==
    /\ pc[t] = "sleep"
    /\ t \in woken[futex_waitq(call[t].faddr)]
    /\ WaitOut(t, "sleep")

WaitIntr(t) == pc[t] = "sleep" /\ KWAIT_INTR \in call[t].flags /\ WaitOut(t, "sleep")

------------------------------------------------------------------------------
\* The caller of kern_wake changes the word first.
Store(t, w, v, flags, num) ==
    /\ Goto(t, "out", "stored")
    /\ mem[Cell(t, w)] # v
    /\ mem' = [mem EXCEPT ![Cell(t, w)] = v]
    /\ call' = [call EXCEPT ![t] = [word |-> w, val |-> 0, flags |-> flags,
                                    timeout |-> FALSE, num |-> num, faddr |-> NoAddr]]
    /\ UNCHANGED <<wqVars, ref, panic>>

WakeAddr(t) ==
    /\ Goto(t, "stored", "wake")
    /\ LET a == futex_addr(t, call[t].word, call[t].flags) IN
       /\ call' = [call EXCEPT ![t].faddr = a]
       /\ ref' = Ref(a)
    /\ UNCHANGED <<wqVars, mem, panic>>

\* vm_vas_lookup finds no mapping.
WakeFault(t) ==
    /\ call[t].flags = {KWAIT_USR}
    /\ Goto(t, "stored", "out")
    /\ call' = [call EXCEPT ![t] = NoCall]
    /\ UNCHANGED <<wqVars, mem, ref, panic>>

\* The waiters of the address that are on the queue.
Matching(faddr) == {u \in pending[futex_waitq(faddr)] : futex_addr_cmp(faddr, call[u].faddr)}

\* Stops after the first waiter of the bucket, whatever its address.
kern_wake_first(t) ==
    /\ Goto(t, "wake", "out")
    /\ LET a == call[t].faddr
           q == futex_waitq(a) IN
       /\ \/ pending[q] = {} /\ UNCHANGED wqVars
          \/ \E u \in pending[q] : Wake(q, {u} \cap Matching(a))
       /\ ref' = futex_addr_done(a)
    /\ call' = [call EXCEPT ![t] = NoCall]
    /\ UNCHANGED <<mem, panic>>

\* Keeps the object of the word.
kern_wake_leak(t) ==
    /\ Goto(t, "wake", "out")
    /\ Wake(futex_waitq(call[t].faddr), Matching(call[t].faddr))
    /\ call' = [call EXCEPT ![t] = NoCall]
    /\ UNCHANGED <<mem, ref, panic>>

\* One section of the queue's lock wakes num waiters of the address, or all; with
\* num zero it still wakes one.
kern_wake(t) ==
    /\ Goto(t, "wake", "out")
    /\ LET a == call[t].faddr
           n == IF call[t].num = 0 THEN 1 ELSE call[t].num IN
       /\ \E W \in SUBSET Matching(a) :
             /\ Cardinality(W) = IF Cardinality(Matching(a)) < n
                                 THEN Cardinality(Matching(a)) ELSE n
             /\ Wake(futex_waitq(a), W)
       /\ ref' = futex_addr_done(a)
    /\ call' = [call EXCEPT ![t] = NoCall]
    /\ UNCHANGED <<mem, panic>>
------------------------------------------------------------------------------
\* What sys_futex passes on, whether or not the program said FUTEX_PRIVATE.
SysFlags == {KWAIT_USR, KWAIT_PRIV}

FUTEX_WAIT(t, w, timeout) == kern_wait(t, w, SysFlags, timeout)
FUTEX_WAKE(t, w, v, num) == Store(t, w, v, SysFlags, num)

\* A thread that exits clears its word and wakes one waiter.
thread_clear_tid(t, w) == Store(t, w, 0, {KWAIT_USR}, 1)

Step(t) ==
    \/ WaitAddr(t) \/ WaitPrep(t) \/ WaitLoad(t) \/ WaitWoken(t)
    \/ WakeAddr(t) \/ kern_wake(t)

\* What the threads may begin.  The kernel wakes all the waiters of a word of its own,
\* or one of a word that has one waiter or that module Mutex or RwLock is about.
Env(t) ==
    \/ WaitFault(t) \/ WaitIntr(t) \/ WakeFault(t)
    \/ \E w \in KernWords :
          \/ \E f \in {{}, {KWAIT_INTR}} : kern_wait(t, w, f, FALSE)
          \/ \E v \in Values : Store(t, w, v, {}, INT_MAX)
    \/ \E w \in Private \cup Shared :
          \/ \E timeout \in BOOLEAN : FUTEX_WAIT(t, w, timeout)
          \/ \E v \in Values, num \in Nums : FUTEX_WAKE(t, w, v, num)
    \/ \E w \in ExitWords : thread_clear_tid(t, w)

Next == ~panic /\ \E t \in Threads : Step(t) \/ Env(t)

Spec == FutexInit /\ [][Next]_vars
------------------------------------------------------------------------------
\* A call that is about to wake the waiters of cell c.
Waking(c) == \E u \in Threads : pc[u] \in {"stored", "wake"} /\ Cell(u, call[u].word) = c

\* A thread never sleeps on a word that has changed, unless whoever changed it
\* has still to call kern_wake: the waiter is on the queue before the word is
\* read, whatever else hashes to the same bucket.  Words of shared mappings are
\* left out: sys_futex looks them up as private ones (futex.c:252).
NoLostWake ==
    \A t \in Threads :
        /\ pc[t] \in {"load", "sleep"} /\ call[t].word \notin Shared
        /\ t \in pending[futex_waitq(call[t].faddr)]
        /\ mem[Cell(t, call[t].word)] # call[t].val
        => pc[t] = "load" \/ Waking(Cell(t, call[t].word))

\* A thread is only woken by a kern_wake for its own word: a waiter of another word
\* or of the same address in another address space does not get the wakeup, nor is
\* one of those kern_wake may wake spent on it (futex.c:232-239).
WokenByOwnWord ==
    [][\A q \in Queues : \A t \in woken'[q] \ woken[q] :
         \E u \in Threads : pc[u] = "wake" /\ pc'[u] = "out"
                             /\ Cell(u, call[u].word) = Cell(t, call[t].word)]_vars

\* The references to objects are those of the calls that are under way.
RefsBalanced ==
    \A w \in Shared :
        ref[w] = Cardinality({t \in Threads : call[t].faddr.shared /\ call[t].faddr.ptr = w})

==============================================================================
