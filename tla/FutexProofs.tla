----------------------------- MODULE FutexProofs ------------------------------
(* Proofs about waiting for a word of memory, for any number of threads, words *)
(* and address spaces, and any way the addresses hash to the queues.           *)
EXTENDS Futex, FiniteSetTheorems, TLAPS

\* The waiters of the kernel's own words: what the modules for code that sleeps
\* in kern_wait rely on.  kern_wake is told to wake all of them (INT_MAX).
KernNoLostWake ==
    \A t \in Threads :
        /\ pc[t] = "sleep" /\ call[t].word \in KernWords
        /\ t \in pending[futex_waitq(call[t].faddr)]
        /\ mem[Cell(t, call[t].word)] # call[t].val
        => Waking(Cell(t, call[t].word))

Typed ==
    /\ WqTypeOK
    /\ mem \in [Cells -> Values]
    /\ ref \in [Shared -> Int]
    /\ pc \in [Threads -> Pcs]
    /\ call \in [Threads -> Call]

\* What a thread t at place p has in hand, its arguments being c.
CallInv(t, p, c) ==
    /\ p # "out" => c.word \in Words
    /\ p # "out" /\ c.word \notin KernWords => KWAIT_USR \in c.flags
    /\ p # "out" /\ c.word \in KernWords => KWAIT_USR \notin c.flags
    /\ p \in {"stored", "wake"} /\ c.word \in KernWords => c.num = INT_MAX
    /\ p \in {"prep", "load", "sleep", "wake"} => c.faddr = futex_addr(t, c.word, c.flags)
    /\ p \in {"addr", "stored"} => c.faddr = NoAddr

\* The waiter of a thread is on the queue of its address, and nowhere else.
WaitInv(t, p, c) ==
    \A q \in Queues : In(t, q) => p \in {"load", "sleep"} /\ q = futex_waitq(c.faddr)

IInv ==
    /\ Typed
    /\ \A t \in Threads : CallInv(t, pc[t], call[t])
    /\ ~panic => \A t \in Threads : /\ WaitInv(t, pc[t], call[t])
                                    /\ pc[t] = "out" => call[t].faddr = NoAddr
    /\ RefsBalanced
    /\ KernNoLostWake
------------------------------------------------------------------------------
(* Addresses.                                                                  *)

LEMMA AddrTyped ==
    ASSUME NEW t \in Threads, NEW w \in Words, NEW flags \in SUBSET Flags
    PROVE  /\ futex_addr(t, w, flags) \in Addrs
           /\ futex_addr(t, w, flags).addr = w
           /\ futex_addr(t, w, flags).shared \in BOOLEAN
           /\ futex_addr(t, w, flags).shared => futex_addr(t, w, flags).ptr \in Shared
           /\ ~futex_addr(t, w, flags).shared =>
                futex_addr(t, w, flags).ptr = IF KWAIT_USR \in flags THEN Vas[t] ELSE kvas
<1>1. CASE KWAIT_USR \in flags /\ KWAIT_PRIV \notin flags /\ w \in Shared
  BY <1>1 DEF futex_addr, Addrs
<1>2. CASE ~(KWAIT_USR \in flags /\ KWAIT_PRIV \notin flags /\ w \in Shared)
  <2>1. futex_addr(t, w, flags)
          = [shared |-> FALSE, ptr |-> IF KWAIT_USR \in flags THEN Vas[t] ELSE kvas, addr |-> w]
    BY <1>2 DEF futex_addr
  <2> QED BY <2>1 DEF Addrs
<1> QED BY <1>1, <1>2

\* Two calls with the same address are for the same piece of memory.
LEMMA SameAddrSameCell ==
    ASSUME NEW t, NEW u, NEW v, NEW w, NEW f, NEW g,
           v \notin KernWords => KWAIT_USR \in f,
           w \notin KernWords => KWAIT_USR \in g,
           futex_addr(t, v, f) = futex_addr(u, w, g)
    PROVE  Cell(t, v) = Cell(u, w)
<1>1. v = w
  <2>1. futex_addr(t, v, f).addr = v /\ futex_addr(u, w, g).addr = w
    BY DEF futex_addr
  <2> QED BY <2>1
<1>2. CASE w \in KernWords \/ w \in Shared
  BY <1>1, <1>2 DEF Cell
<1>3. CASE w \notin KernWords /\ w \notin Shared
  <2>1. futex_addr(t, v, f).ptr = Vas[t]
    BY <1>1, <1>3 DEF futex_addr
  <2>2. futex_addr(u, w, g).ptr = Vas[u]
    BY <1>3 DEF futex_addr
  <2>3. Vas[t] = Vas[u]
    BY <2>1, <2>2
  <2> QED BY <1>1, <1>3, <2>3 DEF Cell
<1> QED BY <1>2, <1>3

\* A word of the kernel has one address.
LEMMA KernAddr ==
    ASSUME NEW t, NEW u, NEW v \in KernWords, NEW w, NEW f, NEW g,
           KWAIT_USR \notin f, w \in KernWords => KWAIT_USR \notin g,
           Cell(t, v) = Cell(u, w)
    PROVE  v = w /\ futex_addr(t, v, f) = futex_addr(u, w, g)
<1>1. v = w
  BY DEF Cell
<1> QED BY <1>1 DEF futex_addr
------------------------------------------------------------------------------
(* References.  Only the calling thread's own call changes.                    *)

Holders(w) == {t \in Threads : call[t].faddr.shared /\ call[t].faddr.ptr = w}

LEMMA HoldersFinite ==
    ASSUME NEW w
    PROVE  IsFiniteSet(Holders(w)) /\ Cardinality(Holders(w)) \in Nat
<1>1. IsFiniteSet(Threads)
  BY FutexAssumption
<1>2. Holders(w) \subseteq Threads
  BY DEF Holders
<1>3. IsFiniteSet(Holders(w))
  BY <1>1, <1>2, FS_Subset
<1> QED BY <1>3, FS_CardinalityType

LEMMA RefsSame ==
    ASSUME Typed, RefsBalanced, NEW t \in Threads, NEW c \in Call,
           call' = [call EXCEPT ![t] = c], ref' = ref,
           c.faddr = call[t].faddr
    PROVE  RefsBalanced'
<1>1. \A w : Holders(w)' = Holders(w)
  BY DEF Holders, Typed
<1> QED BY <1>1 DEF RefsBalanced, Holders

LEMMA RefsGain ==
    ASSUME Typed, RefsBalanced, NEW t \in Threads, NEW c \in Call,
           call[t].faddr = NoAddr, c.faddr \in Addrs,
           call' = [call EXCEPT ![t] = c], ref' = Ref(c.faddr)
    PROVE  RefsBalanced' /\ ref' \in [Shared -> Int]
<1>1. \A u \in Threads : u # t => call'[u] = call[u]
  BY DEF Typed
<1>2. call'[t] = c
  BY DEF Typed
<1>3. ~call[t].faddr.shared
  BY DEF NoAddr
<1>4. CASE ~c.faddr.shared
  <2>1. \A w : Holders(w)' = Holders(w)
    BY <1>1, <1>2, <1>3, <1>4 DEF Holders
  <2>2. ref' = ref
    BY <1>4 DEF Ref
  <2> QED BY <2>1, <2>2, Zenon DEF RefsBalanced, Holders, Typed
<1>5. CASE c.faddr.shared
  <2>1. c.faddr.ptr \in Shared
    BY <1>5, Zenon DEF Addrs
  <2>2. ref' = [ref EXCEPT ![c.faddr.ptr] = ref[c.faddr.ptr] + 1]
    BY <1>5 DEF Ref
  <2>3. \A w \in Shared : w # c.faddr.ptr => Holders(w)' = Holders(w)
    BY <1>1, <1>2, <1>3, <1>5 DEF Holders
  <2>4. Holders(c.faddr.ptr)' = Holders(c.faddr.ptr) \cup {t}
    BY <1>1, <1>2, <1>5 DEF Holders
  <2>5. t \notin Holders(c.faddr.ptr)
    BY <1>3 DEF Holders
  <2>6. Cardinality(Holders(c.faddr.ptr)') = Cardinality(Holders(c.faddr.ptr)) + 1
    BY <2>4, <2>5, HoldersFinite, FS_AddElement, Zenon
  <2>7. \A w \in Shared : ref[w] = Cardinality(Holders(w))
    BY DEF RefsBalanced, Holders
  <2>8. \A w \in Shared : ref'[w] = Cardinality(Holders(w)')
    BY <2>1, <2>2, <2>3, <2>6, <2>7 DEF Typed
  <2> QED BY <2>1, <2>2, <2>8 DEF RefsBalanced, Holders, Typed
<1> QED BY <1>4, <1>5

LEMMA RefsDrop ==
    ASSUME Typed, RefsBalanced, NEW t \in Threads, NEW c \in Call,
           call[t].faddr \in Addrs, c.faddr = NoAddr,
           call' = [call EXCEPT ![t] = c], ref' = futex_addr_done(call[t].faddr)
    PROVE  RefsBalanced' /\ ref' \in [Shared -> Int]
<1>1. \A u \in Threads : u # t => call'[u] = call[u]
  BY DEF Typed
<1>2. call'[t] = c /\ ~c.faddr.shared
  BY DEF Typed, NoAddr
<1>3. PICK a \in Addrs : a = call[t].faddr
  OBVIOUS
<1>4. CASE ~a.shared
  <2>1. \A w : Holders(w)' = Holders(w)
    BY <1>1, <1>2, <1>3, <1>4 DEF Holders
  <2>2. ref' = ref
    BY <1>3, <1>4 DEF futex_addr_done
  <2> QED BY <2>1, <2>2, Zenon DEF RefsBalanced, Holders, Typed
<1>5. CASE a.shared
  <2>1. a.ptr \in Shared
    BY <1>5, Zenon DEF Addrs
  <2>2. ref' = [ref EXCEPT ![a.ptr] = ref[a.ptr] - 1]
    BY <1>3, <1>5 DEF futex_addr_done
  <2>3. \A w \in Shared : w # a.ptr => Holders(w)' = Holders(w)
    BY <1>1, <1>2, <1>3 DEF Holders
  <2>4. Holders(a.ptr)' = Holders(a.ptr) \ {t}
    BY <1>1, <1>2 DEF Holders
  <2>5. t \in Holders(a.ptr)
    BY <1>3, <1>5 DEF Holders
  <2>6. Cardinality(Holders(a.ptr)') = Cardinality(Holders(a.ptr)) - 1
    BY <2>4, <2>5, HoldersFinite, FS_RemoveElement, Zenon
  <2>7. \A w \in Shared : ref[w] = Cardinality(Holders(w))
    BY DEF RefsBalanced, Holders
  <2>8. \A w \in Shared : ref'[w] = Cardinality(Holders(w)')
    BY <2>1, <2>2, <2>3, <2>6, <2>7 DEF Typed
  <2> QED BY <2>1, <2>2, <2>8 DEF RefsBalanced, Holders, Typed
<1> QED BY <1>4, <1>5
------------------------------------------------------------------------------
(* What a step of thread t to place n with arguments c has to keep.            *)

LEMMA CellTyped ==
    ASSUME NEW t \in Threads, NEW w \in Words
    PROVE  Cell(t, w) \in Cells
BY DEF Cell, Cells, Words

LEMMA StepKeeps ==
    ASSUME IInv, ~panic, NEW t \in Threads, NEW n \in Pcs, NEW c \in Call,
           pc' = [pc EXCEPT ![t] = n], call' = [call EXCEPT ![t] = c], ~panic',
           CallInv(t, n, c), n = "out" => c.faddr = NoAddr,
           \A q \in Queues : In(t, q)' => n \in {"load", "sleep"} /\ q = futex_waitq(c.faddr),
           \A u \in Threads : u # t => \A q \in Queues : In(u, q)' => In(u, q),
           WqTypeOK', mem' \in [Cells -> Values], ref' \in [Shared -> Int],
           RefsBalanced', KernNoLostWake'
    PROVE  IInv'
<1>1. Typed'
  BY DEF IInv, Typed
<1>2. \A u \in Threads : u # t => pc'[u] = pc[u] /\ call'[u] = call[u]
  BY DEF IInv, Typed
<1>3. pc'[t] = n /\ call'[t] = c
  BY DEF IInv, Typed
<1>4. \A u \in Threads : CallInv(u, pc[u], call[u])'
  <2> TAKE u \in Threads
  <2>1. CASE u = t
    BY <1>3, <2>1 DEF CallInv
  <2>2. CASE u # t
    BY <1>2, <2>2 DEF CallInv, IInv
  <2> QED BY <2>1, <2>2
<1>5. \A u \in Threads : WaitInv(u, pc[u], call[u])'
  <2> TAKE u \in Threads
  <2>1. CASE u = t
    BY <1>3, <2>1 DEF WaitInv
  <2>2. CASE u # t
    BY <1>2, <2>2 DEF WaitInv, IInv
  <2> QED BY <2>1, <2>2
<1>6. \A u \in Threads : pc'[u] = "out" => call'[u].faddr = NoAddr
  BY <1>2, <1>3 DEF IInv
<1> QED BY <1>1, <1>4, <1>5, <1>6 DEF IInv

\* A step that changes no word and is not the end of a wakeup for a word of the
\* kernel.
LEMMA KernKeeps ==
    ASSUME IInv, NEW t \in Threads, NEW n \in Pcs, NEW c \in Call,
           pc' = [pc EXCEPT ![t] = n], call' = [call EXCEPT ![t] = c], mem' = mem,
           \A q \in Queues : pending'[q] \subseteq pending[q] \cup {t},
           n = "sleep" => c.word \in Words /\ mem[Cell(t, c.word)] = c.val,
           pc[t] \in {"stored", "wake"} /\ call[t].word \in KernWords
              => n = "wake" /\ c.word = call[t].word
    PROVE  KernNoLostWake'
<1> SUFFICES ASSUME NEW u \in Threads,
                    pc'[u] = "sleep", call'[u].word \in KernWords,
                    u \in pending'[futex_waitq(call'[u].faddr)],
                    mem'[Cell(u, call'[u].word)] # call'[u].val
             PROVE  \E v \in Threads : /\ pc'[v] \in {"stored", "wake"}
                                       /\ Cell(v, call'[v].word) = Cell(u, call'[u].word)
  BY Zenon DEF KernNoLostWake, Waking, Cell
<1>1. pc'[t] = n /\ call'[t] = c
  BY DEF IInv, Typed
<1>2. \A v \in Threads : v # t => pc'[v] = pc[v] /\ call'[v] = call[v]
  BY DEF IInv, Typed
<1>3. u # t
  BY <1>1
<1>4. pc[u] = "sleep" /\ call'[u] = call[u]
  BY <1>2, <1>3
<1>5. call[u].faddr = futex_addr(u, call[u].word, call[u].flags)
  BY <1>4 DEF IInv, CallInv
<1>6. futex_waitq(call[u].faddr) \in Queues
  <2>1. call[u].flags \in SUBSET Flags /\ call[u].word \in Words
    BY <1>4 DEF IInv, Typed, Call, Words
  <2>2. call[u].faddr \in Addrs
    BY <1>5, <2>1, AddrTyped
  <2> QED BY <2>2, FutexAssumption DEF futex_waitq
<1>7. u \in pending[futex_waitq(call[u].faddr)]
  BY <1>3, <1>4, <1>6
<1>8. PICK v \in Threads : pc[v] \in {"stored", "wake"}
                           /\ Cell(v, call[v].word) = Cell(u, call[u].word)
  BY <1>4, <1>7 DEF IInv, KernNoLostWake, Waking
<1>9. CASE v # t
  BY <1>2, <1>4, <1>8, <1>9
<1>10. CASE v = t
  <2>1. call[t].word \in KernWords
    BY <1>4, <1>8, <1>10 DEF Cell
  <2> QED BY <1>1, <1>4, <1>8, <1>10, <2>1
<1> QED BY <1>9, <1>10
------------------------------------------------------------------------------
(* The actions.                                                                *)

LEMMA NoCallTyped ==
    NoCall \in Call /\ NoCall.faddr = NoAddr
BY FutexAssumption DEF NoCall, Call, NoAddr

LEMMA StartTyped ==
    ASSUME NEW w \in Words, NEW v \in Values \cup {0}, NEW flags \in SUBSET Flags,
           NEW timeout \in BOOLEAN, NEW num \in 0..INT_MAX
    PROVE  [word |-> w, val |-> v, flags |-> flags, timeout |-> timeout, num |-> num,
            faddr |-> NoAddr] \in Call
BY DEF Call

\* A thread that is in no queue's hands is in none.
LEMMA OutOfQueues ==
    ASSUME IInv, ~panic, NEW t \in Threads, pc[t] \notin {"load", "sleep"}, NEW q \in Queues
    PROVE  ~In(t, q)
BY DEF IInv, WaitInv

LEMMA kern_waitKeeps ==
    ASSUME IInv, ~panic, NEW t \in Threads, NEW w \in Words, NEW flags \in SUBSET Flags,
           NEW timeout \in BOOLEAN, kern_wait(t, w, flags, timeout),
           w \in KernWords => KWAIT_USR \notin flags, w \notin KernWords => KWAIT_USR \in flags
    PROVE  IInv'
<1>1. PICK c : c = [word |-> w, val |-> mem[Cell(t, w)], flags |-> flags, timeout |-> timeout,
                num |-> 0, faddr |-> NoAddr]
  BY Zenon
<1>2. mem[Cell(t, w)] \in Values
  BY CellTyped DEF IInv, Typed
<1>3. c \in Call
  <2>1. 0 \in 0..INT_MAX
    BY FutexAssumption
  <2> QED BY <1>1, <1>2, <2>1, StartTyped, Zenon
<1>4. c.word = w /\ c.flags = flags /\ c.faddr = NoAddr
  BY <1>1
<1>5. /\ pc[t] = "out" /\ pc' = [pc EXCEPT ![t] = "addr"]
      /\ call' = [call EXCEPT ![t] = c]
      /\ UNCHANGED <<pending, woken, bound, mem, ref, panic>>
  BY <1>1 DEF kern_wait, Goto, wqVars
<1>6. call[t].faddr = NoAddr
  BY <1>5 DEF IInv
<1>7. RefsBalanced'
  BY <1>3, <1>4, <1>5, <1>6, RefsSame, Zenon DEF IInv
<1>8. KernNoLostWake'
  <2>1. \A q \in Queues : pending'[q] \subseteq pending[q] \cup {t}
    BY <1>5
  <2> QED BY <1>3, <1>5, <2>1, KernKeeps, Zenon DEF Pcs
<1>9. CallInv(t, "addr", c)
  BY <1>4 DEF CallInv
<1>10. \A u \in Threads, q \in Queues : In(u, q)' = In(u, q)
  BY <1>5 DEF In
<1>11. \A q \in Queues : ~In(t, q)'
  BY <1>5, <1>10, OutOfQueues
<1>12. "addr" \in Pcs
  BY DEF Pcs
<1>13. WqTypeOK' /\ mem' \in [Cells -> Values] /\ ref' \in [Shared -> Int]
  BY <1>5 DEF IInv, Typed, WqTypeOK
<1> QED BY <1>3, <1>4, <1>5, <1>7, <1>8, <1>9, <1>10, <1>11, <1>12, <1>13, StepKeeps, Zenon

\* WaitAddr and WakeAddr: the address is looked up.
LEMMA AddrKeeps ==
    ASSUME IInv, ~panic, NEW t \in Threads, NEW n \in {"prep", "wake"},
           pc[t] = IF n = "prep" THEN "addr" ELSE "stored", pc' = [pc EXCEPT ![t] = n],
           call' = [call EXCEPT ![t].faddr = futex_addr(t, call[t].word, call[t].flags)],
           ref' = Ref(futex_addr(t, call[t].word, call[t].flags)),
           UNCHANGED <<wqVars, mem, panic>>
    PROVE  IInv'
<1>1. PICK d \in Call : d = call[t]
  BY DEF IInv, Typed
<1>2. CallInv(t, pc[t], d)
  BY <1>1 DEF IInv
<1>3. PICK a : a = futex_addr(t, d.word, d.flags)
  OBVIOUS
<1>4. d.word \in Words /\ d.flags \in SUBSET Flags /\ d.faddr = NoAddr
  BY <1>2 DEF CallInv, Call
<1>5. a \in Addrs
  BY <1>3, <1>4, AddrTyped
<1>6. PICK c : c = [d EXCEPT !.faddr = a]
  BY Zenon
<1>7. c \in Call
  BY <1>5, <1>6 DEF Call
<1>8. /\ c.word = d.word /\ c.val = d.val /\ c.flags = d.flags
      /\ c.num = d.num /\ c.faddr = a
  BY <1>6 DEF Call
<1>9. call' = [call EXCEPT ![t] = c]
  BY <1>1, <1>3, <1>6
<1>10. RefsBalanced' /\ ref' \in [Shared -> Int]
  <2>1. call[t].faddr = NoAddr /\ c.faddr \in Addrs /\ ref' = Ref(c.faddr)
    BY <1>1, <1>3, <1>4, <1>5, <1>8
  <2>2. Typed /\ RefsBalanced
    BY DEF IInv
  <2> QED BY <1>7, <1>9, <2>1, <2>2, RefsGain, Zenon
<1>11. CallInv(t, n, c)
  BY <1>2, <1>3, <1>4, <1>8 DEF CallInv
<1>12. n \in Pcs /\ n # "out"
  BY DEF Pcs
<1>13. UNCHANGED <<pending, woken, bound>>
  BY DEF wqVars
<1>14. KernNoLostWake'
  <2>1. \A q \in Queues : pending'[q] \subseteq pending[q] \cup {t}
    BY <1>13
  <2> QED BY <1>1, <1>7, <1>8, <1>9, <1>12, <2>1, KernKeeps, Zenon
<1>15. \A u \in Threads, q \in Queues : In(u, q)' = In(u, q)
  BY <1>13 DEF In
<1>16. \A q \in Queues : ~In(t, q)'
  BY <1>15, OutOfQueues
<1>17. WqTypeOK' /\ mem' \in [Cells -> Values]
  BY <1>13 DEF IInv, Typed, WqTypeOK
<1> QED BY <1>7, <1>8, <1>9, <1>10, <1>11, <1>12, <1>14, <1>15, <1>16, <1>17, StepKeeps, Zenon

\* The arguments of a thread that has looked its address up.
LEMMA AddrOf ==
    ASSUME IInv, NEW t \in Threads, pc[t] \in {"prep", "load", "sleep", "wake"}
    PROVE  /\ call[t].word \in Words /\ call[t].flags \in SUBSET Flags
           /\ call[t].faddr = futex_addr(t, call[t].word, call[t].flags)
           /\ call[t].faddr \in Addrs
           /\ futex_waitq(call[t].faddr) \in Queues
<1>1. /\ call[t].word \in Words
      /\ call[t].faddr = futex_addr(t, call[t].word, call[t].flags)
  BY DEF IInv, CallInv
<1>2. call[t].flags \in SUBSET Flags
  BY DEF IInv, Typed, Call
<1>3. call[t].faddr \in Addrs
  BY <1>1, <1>2, AddrTyped
<1>4. futex_waitq(call[t].faddr) \in Queues
  BY <1>3, FutexAssumption DEF futex_waitq
<1> QED BY <1>1, <1>2, <1>3, <1>4

\* A step within the call: the arguments stay, the references with them.
LEMMA WithinKeeps ==
    ASSUME IInv, ~panic, NEW t \in Threads, NEW n \in {"load", "sleep"},
           pc[t] \in {"prep", "load"}, pc' = [pc EXCEPT ![t] = n],
           n = "sleep" => mem[Cell(t, call[t].word)] = call[t].val,
           \A q \in Queues : In(t, q)' => q = futex_waitq(call[t].faddr),
           \A q \in Queues : pending'[q] \subseteq pending[q] \cup {t},
           \A u \in Threads : u # t => \A q \in Queues : In(u, q)' => In(u, q),
           WqTypeOK', UNCHANGED <<mem, ref, call, panic>>
    PROVE  IInv'
<1>1. PICK c \in Call : c = call[t]
  BY DEF IInv, Typed
<1>2. call' = [call EXCEPT ![t] = c]
  BY <1>1 DEF IInv, Typed
<1>3. RefsBalanced'
  BY <1>1, <1>2, RefsSame, Zenon DEF IInv
<1>4. n \in Pcs /\ n # "out"
  BY DEF Pcs
<1>5. KernNoLostWake'
  BY <1>1, <1>2, <1>4, AddrOf, KernKeeps, Zenon
<1>6. CallInv(t, n, c)
  BY <1>1, Zenon DEF CallInv, IInv
<1>7. mem' \in [Cells -> Values] /\ ref' \in [Shared -> Int]
  BY Zenon DEF IInv, Typed
<1> QED BY <1>1, <1>2, <1>3, <1>4, <1>5, <1>6, <1>7, StepKeeps, Zenon

LEMMA WaitPrepKeeps ==
    ASSUME IInv, ~panic, NEW t \in Threads, WaitPrep(t)
    PROVE  IInv'
<1>1. PICK q \in Queues : q = futex_waitq(call[t].faddr)
  BY AddrOf DEF WaitPrep, Goto
<1>2. /\ pc[t] = "prep" /\ pc' = [pc EXCEPT ![t] = "load"]
      /\ pending' = [pending EXCEPT ![q] = @ \cup {t}]
      /\ UNCHANGED <<woken, bound, mem, ref, call, panic>>
  BY <1>1 DEF WaitPrep, Goto, Prep
<1>3. WqTypeOK'
  BY <1>2 DEF IInv, Typed, WqTypeOK
<1>4. /\ \A r \in Queues : pending'[r] \subseteq pending[r] \cup {t}
      /\ \A r \in Queues : r # q => pending'[r] = pending[r]
  BY <1>2 DEF IInv, Typed, WqTypeOK
<1>5. \A r \in Queues : In(t, r)' => r = q
  BY <1>2, <1>4, OutOfQueues DEF In
<1>6. \A u \in Threads : u # t => \A r \in Queues : In(u, r)' => In(u, r)
  BY <1>2, <1>4 DEF In
<1> QED BY <1>1, <1>2, <1>3, <1>4, <1>5, <1>6, WithinKeeps, Zenon

LEMMA WaitSleepKeeps ==
    ASSUME IInv, ~panic, NEW t \in Threads, WaitSleep(t),
           mem[Cell(t, call[t].word)] = call[t].val
    PROVE  IInv'
<1>1. PICK q \in Queues : q = futex_waitq(call[t].faddr)
  BY AddrOf DEF WaitSleep, Goto
<1>2. /\ pc[t] = "load" /\ pc' = [pc EXCEPT ![t] = "sleep"]
      /\ UNCHANGED <<pending, woken, mem, ref, call, panic>>
  BY DEF WaitSleep, Goto, Bind, wqVars
<1>3. bound' = bound \/ bound' = [bound EXCEPT ![q] = @ \cup {t}]
  BY <1>1 DEF WaitSleep, Bind, wqVars
<1>4. WqTypeOK'
  BY <1>2, <1>3 DEF IInv, Typed, WqTypeOK
<1>5. \A u \in Threads, r \in Queues : In(u, r)' = In(u, r)
  BY <1>2 DEF In
<1>6. \A r \in Queues : In(t, r) => r = q
  BY <1>1 DEF IInv, WaitInv
<1>7. \A r \in Queues : pending'[r] \subseteq pending[r] \cup {t}
  BY <1>2
<1> QED BY <1>1, <1>2, <1>4, <1>5, <1>6, <1>7, WithinKeeps, Zenon

\* A call that has looked its address up returns.
LEMMA ReturnKeeps ==
    ASSUME IInv, ~panic, NEW t \in Threads, pc[t] \in {"load", "sleep", "wake"},
           pc' = [pc EXCEPT ![t] = "out"], call' = [call EXCEPT ![t] = NoCall],
           ref' = futex_addr_done(call[t].faddr), UNCHANGED <<mem, panic>>,
           \A q \in Queues : ~In(t, q)',
           \A u \in Threads : u # t => \A q \in Queues : In(u, q)' => In(u, q),
           WqTypeOK', KernNoLostWake'
    PROVE  IInv'
<1>1. call[t].faddr \in Addrs
  BY AddrOf
<1>2. Typed /\ RefsBalanced
  BY DEF IInv
<1>3. RefsBalanced' /\ ref' \in [Shared -> Int]
  BY <1>1, <1>2, NoCallTyped, RefsDrop, Zenon
<1>4. CallInv(t, "out", NoCall) /\ "out" \in Pcs
  BY DEF CallInv, Pcs
<1>5. mem' \in [Cells -> Values]
  BY <1>2 DEF Typed
<1> QED BY <1>3, <1>4, <1>5, NoCallTyped, StepKeeps, Zenon

LEMMA WaitOutKeeps ==
    ASSUME IInv, ~panic, NEW t \in Threads, NEW from \in {"load", "sleep"}, WaitOut(t, from)
    PROVE  IInv'
<1>1. pc[t] = from
  BY DEF WaitOut, Goto
<1>2. PICK q \in Queues : q = futex_waitq(call[t].faddr)
  BY <1>1, AddrOf
<1>3. /\ pc' = [pc EXCEPT ![t] = "out"] /\ call' = [call EXCEPT ![t] = NoCall]
      /\ ref' = futex_addr_done(call[t].faddr) /\ UNCHANGED <<mem, panic>>
      /\ pending' = [pending EXCEPT ![q] = @ \ {t}]
      /\ woken' = [woken EXCEPT ![q] = @ \ {t}]
      /\ bound' = [bound EXCEPT ![q] = @ \ {t}]
  BY <1>2 DEF WaitOut, Goto, Leave
<1>4. WqTypeOK'
  BY <1>3 DEF IInv, Typed, WqTypeOK
<1>5. /\ \A r \in Queues : pending'[r] \subseteq pending[r] /\ woken'[r] \subseteq woken[r]
      /\ t \notin pending'[q] /\ t \notin woken'[q]
  BY <1>3 DEF IInv, Typed, WqTypeOK
<1>6. \A r \in Queues : In(t, r) => r = q
  BY <1>2 DEF IInv, WaitInv
<1>7. \A r \in Queues : ~In(t, r)'
  BY <1>5, <1>6 DEF In
<1>8. \A u \in Threads : u # t => \A r \in Queues : In(u, r)' => In(u, r)
  BY <1>5 DEF In
<1>9. KernNoLostWake'
  <2>1. \A r \in Queues : pending'[r] \subseteq pending[r] \cup {t}
    BY <1>5
  <2>2. "out" \in Pcs
    BY DEF Pcs
  <2> QED BY <1>1, <1>3, <2>1, <2>2, NoCallTyped, KernKeeps, Zenon
<1> QED BY <1>1, <1>3, <1>4, <1>7, <1>8, <1>9, ReturnKeeps, Zenon

\* The assertion stops the system: the waiter stays where it is.
LEMMA WaitPanicKeeps ==
    ASSUME IInv, NEW t \in Threads, WaitPanic(t)
    PROVE  IInv'
<1>1. /\ pc[t] = "load" /\ pc' = [pc EXCEPT ![t] = "out"] /\ panic'
      /\ UNCHANGED <<pending, woken, bound, mem, ref, call>>
  BY DEF WaitPanic, Goto, wqVars
<1>2. PICK c \in Call : c = call[t]
  BY DEF IInv, Typed
<1>3. call' = [call EXCEPT ![t] = c]
  BY <1>1, <1>2 DEF IInv, Typed
<1>4. "out" \in Pcs
  BY DEF Pcs
<1>5. Typed'
  BY <1>1, <1>4 DEF IInv, Typed, WqTypeOK
<1>6. RefsBalanced'
  BY <1>1, <1>2, <1>3, RefsSame, Zenon DEF IInv
<1>7. \A q \in Queues : pending'[q] \subseteq pending[q] \cup {t}
  BY <1>1, Zenon
<1>8. KernNoLostWake'
  BY <1>1, <1>2, <1>3, <1>4, <1>7, KernKeeps, Zenon
<1>9. \A u \in Threads : CallInv(u, pc[u], call[u])'
  <2> TAKE u \in Threads
  <2>1. call'[u] = call[u] /\ (pc'[u] = pc[u] \/ pc'[u] = "out")
    BY <1>1 DEF IInv, Typed
  <2>2. CallInv(u, pc[u], call[u])
    BY DEF IInv
  <2> QED BY <2>1, <2>2 DEF CallInv
<1> QED BY <1>1, <1>5, <1>6, <1>8, <1>9, Zenon DEF IInv

LEMMA WakeFaultKeeps ==
    ASSUME IInv, ~panic, NEW t \in Threads, WakeFault(t)
    PROVE  IInv'
<1>1. /\ pc[t] = "stored" /\ pc' = [pc EXCEPT ![t] = "out"]
      /\ call' = [call EXCEPT ![t] = NoCall] /\ call[t].flags = {KWAIT_USR}
      /\ UNCHANGED <<pending, woken, bound, mem, ref, panic>>
  BY DEF WakeFault, Goto, wqVars
<1>2. CallInv(t, "stored", call[t])
  BY <1>1, Zenon DEF IInv
<1>3. call[t].faddr = NoAddr /\ call[t].word \notin KernWords
  BY <1>1, <1>2 DEF CallInv
<1>4. RefsBalanced'
  BY <1>1, <1>3, NoCallTyped, RefsSame, Zenon DEF IInv
<1>5. CallInv(t, "out", NoCall) /\ "out" \in Pcs
  BY DEF CallInv, Pcs
<1>6. \A q \in Queues : pending'[q] \subseteq pending[q] \cup {t}
  BY <1>1
<1>7. KernNoLostWake'
  BY <1>1, <1>3, <1>5, <1>6, NoCallTyped, KernKeeps, Zenon
<1>8. \A u \in Threads, q \in Queues : In(u, q)' = In(u, q)
  BY <1>1, Zenon DEF In
<1>9. \A q \in Queues : ~In(t, q)'
  BY <1>1, <1>8, OutOfQueues
<1>10. WqTypeOK' /\ mem' \in [Cells -> Values] /\ ref' \in [Shared -> Int]
  BY <1>1 DEF IInv, Typed, WqTypeOK
<1> QED BY <1>1, <1>4, <1>5, <1>7, <1>8, <1>9, <1>10, NoCallTyped, StepKeeps, Zenon

\* Whoever sleeps on the word has a wakeup to come.
LEMMA StoreKeeps ==
    ASSUME IInv, ~panic, NEW t \in Threads, NEW w \in Words, NEW v \in Values,
           NEW flags \in SUBSET Flags, NEW num \in 0..INT_MAX, Store(t, w, v, flags, num),
           w \in KernWords => KWAIT_USR \notin flags /\ num = INT_MAX,
           w \notin KernWords => KWAIT_USR \in flags
    PROVE  IInv'
<1>1. PICK c : c = [word |-> w, val |-> 0, flags |-> flags, timeout |-> FALSE, num |-> num,
                    faddr |-> NoAddr]
  BY Zenon
<1>2. c \in Call
  BY <1>1, StartTyped, Zenon
<1>3. c.word = w /\ c.flags = flags /\ c.faddr = NoAddr /\ c.num = num
  BY <1>1
<1>4. /\ pc[t] = "out" /\ pc' = [pc EXCEPT ![t] = "stored"]
      /\ mem' = [mem EXCEPT ![Cell(t, w)] = v] /\ call' = [call EXCEPT ![t] = c]
      /\ UNCHANGED <<pending, woken, bound, ref, panic>>
  BY <1>1 DEF Store, Goto, wqVars
<1>5. call[t].faddr = NoAddr
  BY <1>4 DEF IInv
<1>6. RefsBalanced'
  BY <1>2, <1>3, <1>4, <1>5, RefsSame, Zenon DEF IInv
<1>7. CallInv(t, "stored", c) /\ "stored" \in Pcs
  BY <1>3, Zenon DEF CallInv, Pcs
<1>8. \A u \in Threads, q \in Queues : In(u, q)' = In(u, q)
  BY <1>4, Zenon DEF In
<1>9. \A q \in Queues : ~In(t, q)'
  BY <1>4, <1>8, OutOfQueues
<1>10. WqTypeOK' /\ mem' \in [Cells -> Values] /\ ref' \in [Shared -> Int]
  BY <1>4, CellTyped DEF IInv, Typed, WqTypeOK
<1>11. KernNoLostWake'
  <2> SUFFICES ASSUME NEW u \in Threads,
                      pc'[u] = "sleep", call'[u].word \in KernWords,
                      u \in pending'[futex_waitq(call'[u].faddr)],
                      mem'[Cell(u, call'[u].word)] # call'[u].val
               PROVE  \E x \in Threads : /\ pc'[x] \in {"stored", "wake"}
                                         /\ Cell(x, call'[x].word) = Cell(u, call'[u].word)
    BY Zenon DEF KernNoLostWake, Waking, Cell
  <2>1. pc'[t] = "stored" /\ call'[t] = c
    BY <1>4, Zenon DEF IInv, Typed
  <2>2. \A x \in Threads : x # t => pc'[x] = pc[x] /\ call'[x] = call[x]
    BY <1>4, Zenon DEF IInv, Typed
  <2>3. u # t /\ pc[u] = "sleep" /\ call'[u] = call[u]
    BY <2>1, <2>2, Zenon
  <2>4. CASE Cell(u, call[u].word) = Cell(t, w)
    BY <1>3, <2>1, <2>3, <2>4, Zenon
  <2>5. CASE Cell(u, call[u].word) # Cell(t, w)
    <3>1. Cell(u, call[u].word) \in Cells
      BY <2>3, CellTyped, Zenon DEF Words
    <3>2. mem'[Cell(u, call[u].word)] = mem[Cell(u, call[u].word)]
      BY <1>4, <2>5, <3>1, Zenon DEF IInv, Typed
    <3>3. PICK x \in Threads : pc[x] \in {"stored", "wake"}
                               /\ Cell(x, call[x].word) = Cell(u, call[u].word)
      BY <1>4, <2>3, <3>2, Zenon DEF IInv, KernNoLostWake, Waking
    <3> QED BY <1>4, <2>2, <2>3, <3>3, Zenon
  <2> QED BY <2>4, <2>5, Zenon
<1> QED BY <1>2, <1>3, <1>4, <1>6, <1>7, <1>8, <1>9, <1>10, <1>11, StepKeeps, Zenon

LEMMA MatchingFinite ==
    ASSUME Typed, NEW a, futex_waitq(a) \in Queues
    PROVE  /\ Matching(a) \subseteq Threads /\ IsFiniteSet(Matching(a))
           /\ Cardinality(Matching(a)) \in Nat
           /\ Cardinality(Matching(a)) < INT_MAX
<1>1. IsFiniteSet(Threads) /\ Cardinality(Threads) < INT_MAX /\ INT_MAX \in Nat
  BY FutexAssumption
<1>2. Matching(a) \subseteq Threads
  BY DEF Matching, Typed, WqTypeOK
<1>3. IsFiniteSet(Matching(a)) /\ Cardinality(Matching(a)) <= Cardinality(Threads)
  BY <1>1, <1>2, FS_Subset
<1>4. Cardinality(Matching(a)) \in Nat /\ Cardinality(Threads) \in Nat
  BY <1>1, <1>3, FS_CardinalityType
<1> QED BY <1>1, <1>2, <1>3, <1>4

LEMMA kern_wakeKeeps ==
    ASSUME IInv, ~panic, NEW t \in Threads, kern_wake(t)
    PROVE  IInv'
<1>1. pc[t] = "wake" /\ pc' = [pc EXCEPT ![t] = "out"]
      /\ call' = [call EXCEPT ![t] = NoCall] /\ ref' = futex_addr_done(call[t].faddr)
      /\ UNCHANGED <<mem, panic>>
  BY DEF kern_wake, Goto
<1>2. PICK a \in Addrs : a = call[t].faddr
  BY <1>1, AddrOf
<1>3. PICK q \in Queues : q = futex_waitq(a)
  BY <1>1, <1>2, AddrOf
<1>4. PICK W \in SUBSET Matching(a) :
         /\ Wake(q, W)
         /\ call[t].num = INT_MAX => Cardinality(W) = Cardinality(Matching(a))
  <2>1. PICK n : n = IF call[t].num = 0 THEN 1 ELSE call[t].num
    OBVIOUS
  <2>2. PICK W \in SUBSET Matching(a) :
           /\ Cardinality(W) = IF Cardinality(Matching(a)) < n
                               THEN Cardinality(Matching(a)) ELSE n
           /\ Wake(q, W)
    BY <1>2, <1>3, <2>1 DEF kern_wake
  <2>3. Cardinality(Matching(a)) \in Nat /\ Cardinality(Matching(a)) < INT_MAX
    BY <1>3, MatchingFinite, Zenon DEF IInv
  <2>4. call[t].num = INT_MAX => n = INT_MAX
    BY <2>1, <2>3, FutexAssumption
  <2> QED BY <2>2, <2>3, <2>4
<1>5. call[t].num = INT_MAX => W = Matching(a)
  BY <1>3, <1>4, MatchingFinite, FS_Subset, Zenon DEF IInv
<1>6. /\ W \subseteq pending[q] /\ bound' = bound
      /\ pending' = [pending EXCEPT ![q] = @ \ W]
      /\ woken' = [woken EXCEPT ![q] = @ \cup W]
  BY <1>4 DEF Wake
<1>7. WqTypeOK'
  BY <1>6 DEF IInv, Typed, WqTypeOK
<1>8. \A u \in Threads, r \in Queues : In(u, r)' => In(u, r)
  BY <1>6 DEF IInv, Typed, WqTypeOK, In
<1>9. \A r \in Queues : ~In(t, r)'
  BY <1>1, <1>8, OutOfQueues
<1>10. KernNoLostWake'
  <2> SUFFICES ASSUME NEW u \in Threads,
                      pc'[u] = "sleep", call'[u].word \in KernWords,
                      u \in pending'[futex_waitq(call'[u].faddr)],
                      mem'[Cell(u, call'[u].word)] # call'[u].val
               PROVE  \E x \in Threads : /\ pc'[x] \in {"stored", "wake"}
                                         /\ Cell(x, call'[x].word) = Cell(u, call'[u].word)
    BY Zenon DEF KernNoLostWake, Waking, Cell
  <2>1. pc'[t] = "out" /\ \A x \in Threads : x # t => pc'[x] = pc[x] /\ call'[x] = call[x]
    BY <1>1, Zenon DEF IInv, Typed
  <2>2. u # t /\ pc[u] = "sleep" /\ call'[u] = call[u]
    BY <2>1
  <2>3. /\ call[u].faddr = futex_addr(u, call[u].word, call[u].flags)
        /\ futex_waitq(call[u].faddr) \in Queues /\ call[u].flags \in SUBSET Flags
    BY <2>2, AddrOf, Zenon
  <2>4. u \in pending[futex_waitq(call[u].faddr)]
    BY <1>6, <2>2, <2>3, Zenon DEF IInv, Typed, WqTypeOK
  <2>5. PICK x \in Threads : pc[x] \in {"stored", "wake"}
                             /\ Cell(x, call[x].word) = Cell(u, call[u].word)
    BY <1>1, <2>2, <2>4, Zenon DEF IInv, KernNoLostWake, Waking
  <2>6. x # t
    <3> SUFFICES ASSUME x = t PROVE FALSE
      BY Zenon
    <3>1. /\ call[t].word \in Words /\ call[t].flags \in SUBSET Flags
          /\ a = futex_addr(t, call[t].word, call[t].flags)
      BY <1>1, <1>2, AddrOf, Zenon
    <3>2. CallInv(t, "wake", call[t]) /\ CallInv(u, "sleep", call[u])
      BY <1>1, <2>2, Zenon DEF IInv
    <3>3. KWAIT_USR \notin call[u].flags
      BY <2>2, <3>2, Zenon DEF CallInv
    <3>4. call[t].word \in KernWords => KWAIT_USR \notin call[t].flags /\ call[t].num = INT_MAX
      BY <3>2, Zenon DEF CallInv
    <3>5. call[u].word = call[t].word /\ call[u].faddr = a
      <4>1. call[u].word \in KernWords /\ Cell(u, call[u].word) = Cell(t, call[t].word)
        BY <2>2, <2>5, Zenon
      <4>2. /\ call[u].word = call[t].word
            /\ futex_addr(u, call[u].word, call[u].flags)
                 = futex_addr(t, call[t].word, call[t].flags)
        <5>1. PICK v, w, f, g : /\ v = call[u].word /\ w = call[t].word
                                /\ f = call[u].flags /\ g = call[t].flags
          BY <4>1, Zenon
        <5>2. /\ v \in KernWords /\ KWAIT_USR \notin f /\ Cell(u, v) = Cell(t, w)
              /\ w \in KernWords => KWAIT_USR \notin g
          BY <3>3, <3>4, <4>1, <5>1, Zenon
        <5>3. v = w /\ futex_addr(u, v, f) = futex_addr(t, w, g)
          BY <5>2, KernAddr
        <5> QED BY <5>1, <5>3, Zenon
      <4> QED BY <2>3, <3>1, <4>2
    <3>6. u \in Matching(a) /\ futex_waitq(call[u].faddr) = q
      BY <1>3, <2>4, <3>5 DEF Matching, futex_addr_cmp
    <3>7. u \in W
      BY <1>5, <2>2, <3>4, <3>5, <3>6, Zenon
    <3> QED BY <1>6, <2>2, <3>6, <3>7, Zenon DEF IInv, Typed, WqTypeOK
  <2> QED BY <2>1, <2>2, <2>5, <2>6, Zenon
<1> QED BY <1>1, <1>7, <1>8, <1>9, <1>10, ReturnKeeps, Zenon
------------------------------------------------------------------------------
(* The theorems.                                                               *)

LEMMA StepKept ==
    ASSUME IInv, ~panic, NEW t \in Threads, Step(t)
    PROVE  IInv'
<1>1. CASE WaitAddr(t)
  <2>1. /\ pc[t] = "addr" /\ pc' = [pc EXCEPT ![t] = "prep"]
        /\ call' = [call EXCEPT ![t].faddr = futex_addr(t, call[t].word, call[t].flags)]
        /\ ref' = Ref(futex_addr(t, call[t].word, call[t].flags))
        /\ UNCHANGED <<wqVars, mem, panic>>
    BY <1>1 DEF WaitAddr, Goto
  <2> QED BY <2>1, AddrKeeps, Zenon
<1>2. CASE WakeAddr(t)
  <2>1. /\ pc[t] = "stored" /\ pc' = [pc EXCEPT ![t] = "wake"]
        /\ call' = [call EXCEPT ![t].faddr = futex_addr(t, call[t].word, call[t].flags)]
        /\ ref' = Ref(futex_addr(t, call[t].word, call[t].flags))
        /\ UNCHANGED <<wqVars, mem, panic>>
    BY <1>2 DEF WakeAddr, Goto
  <2> QED BY <2>1, AddrKeeps, Zenon
<1>3. CASE WaitPrep(t)
  BY <1>3, WaitPrepKeeps
<1>4. CASE WaitLoad(t)
  <2>1. CASE WaitOut(t, "load")
    BY <2>1, WaitOutKeeps
  <2>2. CASE WaitPanic(t)
    BY <2>2, WaitPanicKeeps
  <2>3. CASE WaitSleep(t) /\ mem[Cell(t, call[t].word)] = call[t].val
    BY <2>3, WaitSleepKeeps
  <2> QED BY <1>4, <2>1, <2>2, <2>3 DEF WaitLoad
<1>5. CASE WaitWoken(t)
  BY <1>5, WaitOutKeeps DEF WaitWoken
<1>6. CASE kern_wake(t)
  BY <1>6, kern_wakeKeeps
<1> QED BY <1>1, <1>2, <1>3, <1>4, <1>5, <1>6 DEF Step

LEMMA EnvKept ==
    ASSUME IInv, ~panic, NEW t \in Threads, Env(t)
    PROVE  IInv'
<1>1. CASE WaitFault(t) \/ WaitIntr(t)
  BY <1>1, WaitOutKeeps DEF WaitFault, WaitIntr
<1>2. CASE WakeFault(t)
  BY <1>2, WakeFaultKeeps
<1>3. ASSUME NEW w \in KernWords, NEW f \in {{}, {KWAIT_INTR}}, kern_wait(t, w, f, FALSE)
      PROVE  IInv'
  <2>1. w \in Words /\ f \in SUBSET Flags /\ KWAIT_USR \notin f /\ FALSE \in BOOLEAN
    BY DEF Words, Flags, KWAIT_USR, KWAIT_INTR
  <2> QED BY <1>3, <2>1, kern_waitKeeps, Zenon
<1>4. ASSUME NEW w \in KernWords, NEW v \in Values, Store(t, w, v, {}, INT_MAX)
      PROVE  IInv'
  <2>1. w \in Words /\ {} \in SUBSET Flags /\ KWAIT_USR \notin {} /\ INT_MAX \in 0..INT_MAX
    BY FutexAssumption DEF Words
  <2> QED BY <1>4, <2>1, StoreKeeps
<1>5. ASSUME NEW w \in Private \cup Shared
      PROVE  w \in Words /\ w \notin KernWords
  BY FutexAssumption DEF Words
<1>6. SysFlags \in SUBSET Flags /\ KWAIT_USR \in SysFlags
  BY DEF SysFlags, Flags
<1>7. ASSUME NEW w \in Private \cup Shared, NEW timeout \in BOOLEAN, FUTEX_WAIT(t, w, timeout)
      PROVE  IInv'
  BY <1>5, <1>6, <1>7, kern_waitKeeps DEF FUTEX_WAIT
<1>8. ASSUME NEW w \in Private \cup Shared, NEW v \in Values, NEW num \in Nums,
             FUTEX_WAKE(t, w, v, num)
      PROVE  IInv'
  <2>1. num \in 0..INT_MAX
    BY FutexAssumption
  <2> QED BY <1>5, <1>6, <1>8, <2>1, StoreKeeps DEF FUTEX_WAKE
<1>9. ASSUME NEW w \in ExitWords, thread_clear_tid(t, w)
      PROVE  IInv'
  <2>1. w \in Private \cup Shared /\ 0 \in Values /\ 1 \in 0..INT_MAX
    <3>1. Cardinality(Threads) \in Nat
      BY FutexAssumption, FS_CardinalityType
    <3> QED BY <3>1, FutexAssumption
  <2>2. {KWAIT_USR} \in SUBSET Flags /\ KWAIT_USR \in {KWAIT_USR}
    BY DEF Flags
  <2> QED BY <1>5, <1>9, <2>1, <2>2, StoreKeeps DEF thread_clear_tid
<1> QED BY <1>1, <1>2, <1>3, <1>4, <1>7, <1>8, <1>9, Zenon DEF Env

\* The inductive invariant of kern_wait and kern_wake: a waiter is on the queue
\* of its address only, a call past futex_addr has the address of its word, and a
\* wakeup for a word of the kernel is for all its waiters.
THEOREM FutexInvariant == Spec => []IInv
<1>1. FutexInit => IInv
  <2> SUFFICES ASSUME FutexInit PROVE IInv
    OBVIOUS
  <2>1. /\ pending = [q \in Queues |-> {}] /\ woken = [q \in Queues |-> {}]
        /\ bound = [q \in Queues |-> {}]
        /\ mem \in [Cells -> {CHOOSE v \in Values : TRUE}]
        /\ ref = [w \in Shared |-> 0] /\ pc = [t \in Threads |-> "out"]
        /\ call = [t \in Threads |-> NoCall] /\ panic = FALSE
    BY DEF FutexInit, WqInit
  <2>2. (CHOOSE v \in Values : TRUE) \in Values
    BY FutexAssumption
  <2>3. mem \in [Cells -> Values]
    BY <2>1, <2>2
  <2>4. Typed
    BY <2>1, <2>3, NoCallTyped DEF Typed, WqTypeOK, Pcs
  <2>5. \A t \in Threads : CallInv(t, pc[t], call[t])
    BY <2>1, Zenon DEF CallInv
  <2>6. \A t \in Threads : WaitInv(t, pc[t], call[t]) /\ call[t].faddr = NoAddr
    BY <2>1, NoCallTyped, Zenon DEF WaitInv, In
  <2>7. RefsBalanced
    <3>1. \A w : Holders(w) = {}
      BY <2>1 DEF Holders, NoCall, NoAddr
    <3>2. \A w \in Shared : ref[w] = Cardinality(Holders(w))
      BY <2>1, <3>1, FS_EmptySet, Zenon
    <3> QED BY <3>2, Zenon DEF RefsBalanced, Holders
  <2>8. KernNoLostWake
    BY <2>1 DEF KernNoLostWake
  <2> QED BY <2>4, <2>5, <2>6, <2>7, <2>8 DEF IInv
<1>2. IInv /\ [Next]_vars => IInv'
  <2>1. ASSUME IInv, Next PROVE IInv'
    <3>1. PICK t \in Threads : ~panic /\ (Step(t) \/ Env(t))
      BY <2>1 DEF Next
    <3> QED BY <2>1, <3>1, StepKept, EnvKept
  <2>2. ASSUME IInv, UNCHANGED vars PROVE IInv'
    <3>1. UNCHANGED <<pending, woken, bound, mem, ref, pc, call, panic>>
      BY <2>2 DEF vars, wqVars, futexVars
    <3>2. Typed' /\ RefsBalanced'
      BY <2>2, <3>1 DEF IInv, Typed, WqTypeOK, RefsBalanced
    <3>3. KernNoLostWake'
      BY <2>2, <3>1, Zenon DEF IInv, KernNoLostWake, Waking, Cell, futex_waitq
    <3>4. \A t \in Threads : CallInv(t, pc[t], call[t])'
      BY <2>2, <3>1, Zenon DEF IInv, CallInv
    <3>5. \A t \in Threads : WaitInv(t, pc[t], call[t]) => WaitInv(t, pc[t], call[t])'
      BY <3>1 DEF WaitInv, In
    <3> QED BY <2>2, <3>1, <3>2, <3>3, <3>4, <3>5, Zenon DEF IInv
  <2> QED BY <2>1, <2>2
<1> QED BY <1>1, <1>2, PTL DEF Spec

\* The references to the objects of shared words are those of the calls that are
\* under way (futex_addr, futex_addr_done), on every path out of a call.
THEOREM FutexRefs == Spec => []RefsBalanced
<1>1. IInv => RefsBalanced
  BY DEF IInv
<1> QED BY <1>1, FutexInvariant, PTL

\* No thread sleeps on a word of the kernel that has changed unless whoever
\* changed it has still to call kern_wake: any number of threads may wait for
\* the word and share the bucket.
THEOREM KernWakesAll == Spec => []KernNoLostWake
<1>1. IInv => KernNoLostWake
  BY DEF IInv
<1> QED BY <1>1, FutexInvariant, PTL

\* kern_wake wakes no waiter of another word, nor of the same address in another
\* address space, however the addresses hash.
THEOREM WakesOwnWord == Spec => WokenByOwnWord
<1> DEFINE Own == \A q \in Queues : \A t \in woken'[q] \ woken[q] :
                     \E u \in Threads : pc[u] = "wake" /\ pc'[u] = "out"
                                        /\ Cell(u, call[u].word) = Cell(t, call[t].word)
<1>1. ASSUME IInv, IInv', Next PROVE Own
  <2>1. PICK u \in Threads : ~panic /\ (Step(u) \/ Env(u))
    BY <1>1 DEF Next
  <2>2. CASE kern_wake(u)
    <3>1. pc[u] = "wake" /\ pc'[u] = "out"
      BY <1>1, <2>2, Zenon DEF kern_wake, Goto, IInv, Typed
    <3>2. PICK a \in Addrs : a = call[u].faddr
      BY <1>1, <3>1, AddrOf, Zenon
    <3>3. PICK r \in Queues : r = futex_waitq(a)
      BY <1>1, <3>1, <3>2, AddrOf, Zenon
    <3>4. PICK W \in SUBSET Matching(a) : Wake(r, W)
      BY <2>2, <3>2, <3>3 DEF kern_wake
    <3> SUFFICES ASSUME NEW q \in Queues, NEW t \in woken'[q] \ woken[q]
                 PROVE  Cell(u, call[u].word) = Cell(t, call[t].word)
      BY <3>1, Zenon
    <3>5. q = r /\ t \in W
      BY <1>1, <3>4, Zenon DEF Wake, IInv, Typed, WqTypeOK
    <3>6. t \in pending[r] /\ call[t].faddr = a
      BY <3>3, <3>4, <3>5 DEF Matching, futex_addr_cmp
    <3>7. t \in Threads
      BY <1>1, <3>6, Zenon DEF IInv, Typed, WqTypeOK
    <3>8. pc[t] \in {"load", "sleep"}
      BY <1>1, <2>1, <3>6, <3>7, Zenon DEF IInv, WaitInv, In
    <3>9. /\ call[t].word \in Words /\ call[t].flags \in SUBSET Flags
          /\ a = futex_addr(t, call[t].word, call[t].flags)
      BY <1>1, <3>6, <3>7, <3>8, AddrOf, Zenon
    <3>10. /\ call[u].word \in Words /\ call[u].flags \in SUBSET Flags
           /\ a = futex_addr(u, call[u].word, call[u].flags)
      BY <1>1, <3>1, <3>2, AddrOf, Zenon
    <3>11. CallInv(u, "wake", call[u]) /\ CallInv(t, pc[t], call[t])
      BY <1>1, <3>1, <3>7, Zenon DEF IInv
    <3>12. /\ call[u].word \notin KernWords => KWAIT_USR \in call[u].flags
           /\ call[t].word \notin KernWords => KWAIT_USR \in call[t].flags
      BY <3>8, <3>11, Zenon DEF CallInv
    <3>13. futex_addr(u, call[u].word, call[u].flags) = futex_addr(t, call[t].word, call[t].flags)
      BY <3>9, <3>10, Zenon
    <3>14. PICK v, w, f, g : /\ v = call[u].word /\ w = call[t].word
                             /\ f = call[u].flags /\ g = call[t].flags
      BY Zenon
    <3>15. /\ v \notin KernWords => KWAIT_USR \in f
           /\ w \notin KernWords => KWAIT_USR \in g
           /\ futex_addr(u, v, f) = futex_addr(t, w, g)
      BY <3>12, <3>13, <3>14, Zenon
    <3>16. Cell(u, v) = Cell(t, w)
      BY <3>15, SameAddrSameCell
    <3> QED BY <3>14, <3>16, Zenon
  <2>3. CASE ~kern_wake(u)
    <3> SUFFICES \A q \in Queues : woken'[q] \subseteq woken[q]
      OBVIOUS
    <3>1. ASSUME NEW from \in {"load", "sleep"}, WaitOut(u, from)
          PROVE  \A q \in Queues : woken'[q] \subseteq woken[q]
      BY <1>1, <3>1, Zenon DEF WaitOut, Leave, IInv, Typed, WqTypeOK
    <3>2. CASE woken' = woken
      BY <3>2
    <3>3. woken' = woken \/ \E from \in {"load", "sleep"} : WaitOut(u, from)
      <4>1. CASE Step(u)
        BY <2>3, <4>1 DEF Step, WaitAddr, WaitPrep, Prep, WaitLoad, WaitSleep, WaitPanic, Bind,
                          WaitWoken, WakeAddr, wqVars
      <4>2. CASE Env(u)
        BY <4>2, Zenon DEF Env, WaitFault, WaitIntr, WakeFault, kern_wait, Store, FUTEX_WAIT,
                    FUTEX_WAKE, thread_clear_tid, wqVars
      <4> QED BY <2>1, <4>1, <4>2
    <3> QED BY <3>1, <3>2, <3>3, Zenon
  <2> QED BY <2>2, <2>3, Zenon
<1>2. IInv /\ IInv' /\ [Next]_vars => [Own]_vars
  BY <1>1, Zenon
<1> QED BY <1>2, FutexInvariant, PTL DEF Spec, WokenByOwnWord
==============================================================================
