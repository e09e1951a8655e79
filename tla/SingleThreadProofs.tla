-------------------------- MODULE SingleThreadProofs ---------------------------
(* Proofs about single-thread mode and the exit of a process, for any number   *)
(* of threads and any of the system calls.                                     *)
EXTENDS SingleThread, FiniteSetTheorems, TLAPS

Modes == {PROC_ST_WAIT, PROC_ST_KILL}
Flags == {PROC_EXIT, PROC_STOP, PROC_FREE, PROC_ST}
Intrs == {THREAD_KILL, THREAD_PROC}
CallType == [op : {NULL, "execve", "vfork", "exit_group"}, mode : Modes \cup {NULL},
             exit : BOOLEAN, seen : SUBSET Flags, num : Int, pending : SUBSET Intrs]

Typed ==
    /\ threads \subseteq Threads /\ flags \subseteq Flags
    /\ st_thread \in Threads \cup {NULL} /\ st_mode \in Modes
    /\ intr \in [Threads -> SUBSET Intrs]
    /\ pc \in [Threads -> Pcs]
    /\ call \in [Threads -> CallType]
    /\ woken \subseteq Threads

\* Where a thread waits in proc_singlethread for the others, and in thread_uret
\* for the end of single-thread mode.
Loop == {"wait", "waitasleep", "kill", "killasleep", "again"}
Uret == {"stwait", "stasleep", "stagain"}

\* The thread that exits the process, from the moment it has set PROC_EXIT.
ExitPcs == {"exitst", "exitfix", "exitwake", "exitretry", "exiterr", "exitfinal"}
Exits(p, c) == p \in ExitPcs \/ (p \in Loop /\ c.op = "exit_group")

\* Thread t has single-thread mode.
Held(t, mode) == PROC_ST \in flags /\ st_thread = t /\ st_mode = mode

\* What a thread t at place p has in hand, its locals being c.
CallInv(t, p, c) ==
    /\ p \notin {"none", "dead"} => t \in threads
    /\ p \in {"request", "alone"} => c.op \in {"execve", "vfork"} /\ ~c.exit
    /\ p \in {"exit", "exitst", "exitfix"} => c.op = "exit_group" /\ c.exit
    /\ p \in {"exitwake", "exitretry"} => c.op = "exit_group" /\ ~c.exit
    /\ p \in Loop => /\ c.mode \in Modes /\ c.op \in {"execve", "vfork", "exit_group"}
                     /\ c.op = "exit_group" <=> c.exit
                     /\ c.op = "exit_group" => c.mode = PROC_ST_KILL
    /\ p = "stwait" => PROC_ST \in c.seen
    /\ p = "stop" => PROC_STOP \in c.seen

\* A thread that waits for single-thread mode has it, unless an exit took it away.
LoopInv(t, p, c) ==
    p \in Loop => Held(t, c.mode) \/ (PROC_EXIT \in flags /\ ~c.exit)

AloneInv(t, p) == p = "alone" => Held(t, PROC_ST_WAIT) /\ threads \ {t} \subseteq InUret

ExitInv(t, p, c) ==
    /\ Exits(p, c) => PROC_EXIT \in flags
    /\ p = "exitfinal" => threads = {t}
    /\ p = "exitwake" => PROC_ST \notin flags

ThreadInv(t, p, c) ==
    CallInv(t, p, c) /\ LoopInv(t, p, c) /\ AloneInv(t, p) /\ ExitInv(t, p, c)

OneExits ==
    \A t, u \in Threads : Exits(pc[t], call[t]) /\ Exits(pc[u], call[u]) => t = u

\* Nobody is in the waiting loop of thread_uret in PROC_ST_KILL mode, nor while
\* an exit takes such a mode away.
KillInv ==
    panic = NULL =>
        /\ st_mode = PROC_ST_KILL /\ PROC_ST \in flags => InUret = {}
        /\ \A t \in Threads : pc[t] = "exitfix" /\ st_mode = PROC_ST_KILL => InUret = {}
        /\ \A t \in Threads : pc[t] = "exitwake" /\ call[t].mode # PROC_ST_WAIT => InUret = {}

IInv ==
    /\ Typed
    /\ st_waiting = Cardinality(InUret)
    /\ \A t \in Threads : ThreadInv(t, pc[t], call[t])
    /\ OneExits
    /\ KillInv
    /\ NoStrandedThread
------------------------------------------------------------------------------
(* The steps of a thread, but for sys_clone.                                   *)

Sleeps(t) == UretWait(t) \/ UretStop(t) \/ StKill(t) \/ StWait(t)
Wakes(t) ==
    \/ Wakeup(t, "stasleep", "stagain") \/ Wakeup(t, "stopasleep", "stopagain")
    \/ Wakeup(t, "killasleep", "again") \/ Wakeup(t, "waitasleep", "again")
Enters(t) == Trap(t) \/ thread_uret(t) \/ kern_execve(t) \/ sys_vfork(t) \/ kern_exitproc(t)
Asks(t) ==
    \/ proc_singlethread(t, "request", PROC_ST_WAIT, FALSE)
    \/ proc_singlethread(t, "exitst", PROC_ST_KILL, TRUE)
    \/ proc_singlethread(t, "exitretry", PROC_ST_KILL, FALSE)
    \/ ExecKill(t)

ThreadStep(t) ==
    \/ Sleeps(t) \/ Wakes(t) \/ Enters(t) \/ Asks(t)
    \/ UretProc(t) \/ UretAgain(t) \/ StopAgain(t)
    \/ StAgain(t) \/ StEnd(t)
    \/ kern_exit(t) \/ proc_exit(t) \/ ExitFix(t) \/ ExitWake(t) \/ ExitError(t) \/ ExitFinal(t)

LEMMA Steps ==
    Next => \/ \E t \in Threads : ThreadStep(t) \/ sys_clone(t)
            \/ proc_stop \/ proc_cont
BY Zenon DEF Next, Step, ThreadStep, Sleeps, Wakes, Enters, Asks

\* The two ways through proc_singlethread: the request fails, or the thread takes
\* single-thread mode.
Beaten(t, from, exit) ==
    /\ At(t, from)
    /\ (~exit /\ PROC_EXIT \in flags) \/ (PROC_ST \in flags /\ st_thread # t)
    /\ pc' = [pc EXCEPT ![t] = Failed(t)]
    /\ UNCHANGED <<threads, flags, stVars, intr, call, woken>>

Takes(t, from, mode, exit) ==
    /\ At(t, from)
    /\ exit \/ PROC_EXIT \notin flags
    /\ PROC_ST \notin flags \/ st_thread = t
    /\ panic' = NULL => st_waiting = 0
    /\ st_mode' = mode
    /\ Interrupt(t, mode)
    /\ woken' = woken \/ woken' = woken \cup FlagSleepers
    /\ StLoop(t, mode, flags \cup {PROC_ST}, t)
    /\ UNCHANGED <<threads, st_waiting>>

LEMMA Ask ==
    ASSUME NEW t, NEW from, NEW mode, NEW exit \in BOOLEAN,
           proc_singlethread(t, from, mode, exit)
    PROVE  Beaten(t, from, exit) \/ Takes(t, from, mode, exit)
<1>1. CASE ~exit /\ PROC_EXIT \in flags
  BY <1>1 DEF proc_singlethread, Beaten
<1>2. CASE ~(~exit /\ PROC_EXIT \in flags) /\ PROC_ST \in flags /\ st_thread # t
  BY <1>2 DEF proc_singlethread, Beaten
<1>3. CASE ~(~exit /\ PROC_EXIT \in flags) /\ ~(PROC_ST \in flags /\ st_thread # t)
  <2>1. panic' = NULL => st_waiting = 0
    BY <1>3, StAssumption DEF proc_singlethread, Asserts
  <2> QED BY <1>3, <2>1 DEF proc_singlethread, Takes, WakeFlags
<1> QED BY <1>1, <1>2, <1>3

\* The ways through the head of the loops: the thread waits, or it is alone.
LoopOn(t, mode) ==
    /\ \E n \in {list_length, st_waiting} :
           call' = [call EXCEPT ![t].num = n, ![t].mode = mode]
    /\ pc' = [pc EXCEPT ![t] = IF mode = PROC_ST_KILL THEN "kill" ELSE "wait"]
    /\ flags' = flags \cup {PROC_ST} /\ st_thread' = t

LoopEnd(t, mode) ==
    /\ call' = call
    /\ pc' = [pc EXCEPT ![t] = Granted(t, mode)]
    /\ IF mode = PROC_ST_KILL
       THEN ~(list_length > 1) /\ flags' = flags \ {PROC_ST} /\ st_thread' = NULL
       ELSE st_waiting = list_length - 1 /\ flags' = flags \cup {PROC_ST} /\ st_thread' = t

LEMMA LoopHead ==
    ASSUME NEW t, NEW mode, StLoop(t, mode, flags \cup {PROC_ST}, t)
    PROVE  LoopOn(t, mode) \/ LoopEnd(t, mode)
<1>1. CASE mode = PROC_ST_KILL
  <2>1. (flags \cup {PROC_ST}) \ {PROC_ST} = flags \ {PROC_ST}
    OBVIOUS
  <2> QED BY <1>1, <2>1 DEF StLoop, LoopOn, LoopEnd
<1>2. CASE mode # PROC_ST_KILL
  BY <1>2 DEF StLoop, LoopOn, LoopEnd
<1> QED BY <1>1, <1>2
------------------------------------------------------------------------------
LEMMA Names ==
    /\ PROC_EXIT # PROC_ST /\ PROC_STOP # PROC_ST /\ PROC_FREE # PROC_ST
    /\ PROC_EXIT # PROC_STOP
    /\ PROC_ST_WAIT # PROC_ST_KILL
    /\ PROC_ST_WAIT \in Modes /\ PROC_ST_KILL \in Modes
    /\ \A m \in Modes : m = PROC_ST_WAIT \/ m = PROC_ST_KILL
BY DEF PROC_EXIT, PROC_ST, PROC_STOP, PROC_FREE, PROC_ST_WAIT, PROC_ST_KILL, Modes

LEMMA Placed ==
    ASSUME NEW t \in Threads
    PROVE  /\ Failed(t) \in {"exitfix", "exiterr", "ret"}
           /\ \A mode : Granted(t, mode) \in {"exitfinal", "alone", "ret"}
BY DEF Failed, Granted

LEMMA Calling ==
    ASSUME NEW c \in CallType
    PROVE  /\ NoCall \in CallType
           /\ \A op \in {"execve", "vfork", "exit_group"}, e \in BOOLEAN :
                [NoCall EXCEPT !.op = op, !.exit = e] \in CallType
           /\ \A p \in SUBSET Intrs : [NoCall EXCEPT !.pending = p] \in CallType
           /\ \A n \in Int, m \in Modes : [c EXCEPT !.num = n, !.mode = m] \in CallType
           /\ \A s \in SUBSET Flags : [c EXCEPT !.seen = s] \in CallType
           /\ \A m \in Modes, e \in BOOLEAN : [c EXCEPT !.mode = m, !.exit = e] \in CallType
<1>1. NoCall \in CallType
  BY DEF NoCall, CallType
<1>2. ASSUME NEW op \in {"execve", "vfork", "exit_group"}, NEW e \in BOOLEAN
      PROVE  [NoCall EXCEPT !.op = op, !.exit = e] \in CallType
  <2>1. PICK d : d = [NoCall EXCEPT !.op = op]
    BY Zenon
  <2>2. d \in CallType
    BY <1>1, <2>1 DEF CallType
  <2>3. [d EXCEPT !.exit = e] \in CallType
    BY <2>2 DEF CallType
  <2> QED BY <2>1, <2>3
<1>3. ASSUME NEW p \in SUBSET Intrs
      PROVE  [NoCall EXCEPT !.pending = p] \in CallType
  BY <1>1 DEF CallType
<1>4. ASSUME NEW n \in Int, NEW m \in Modes
      PROVE  [c EXCEPT !.num = n, !.mode = m] \in CallType
  <2>1. PICK d : d = [c EXCEPT !.num = n]
    BY Zenon
  <2>2. d \in CallType
    BY <2>1 DEF CallType
  <2>3. [d EXCEPT !.mode = m] \in CallType
    BY <2>2 DEF CallType
  <2> QED BY <2>1, <2>3
<1>5. \A s \in SUBSET Flags : [c EXCEPT !.seen = s] \in CallType
  BY DEF CallType
<1>6. ASSUME NEW m \in Modes, NEW e \in BOOLEAN
      PROVE  [c EXCEPT !.mode = m, !.exit = e] \in CallType
  <2>1. PICK d : d = [c EXCEPT !.mode = m]
    BY Zenon
  <2>2. d \in CallType
    BY <2>1 DEF CallType
  <2>3. [d EXCEPT !.exit = e] \in CallType
    BY <2>2 DEF CallType
  <2> QED BY <2>1, <2>3
<1> QED BY <1>1, <1>2, <1>3, <1>4, <1>5, <1>6, Zenon

\* A step of thread t moves t alone.
Moved(t, p, c) == pc' = [pc EXCEPT ![t] = p] /\ call' = [call EXCEPT ![t] = c]

LEMMA MovedOn ==
    ASSUME Typed, NEW t \in Threads, NEW p \in Pcs, NEW c \in CallType, Moved(t, p, c)
    PROVE  /\ pc' \in [Threads -> Pcs] /\ call' \in [Threads -> CallType]
           /\ pc'[t] = p /\ call'[t] = c
           /\ \A u \in Threads \ {t} : pc'[u] = pc[u] /\ call'[u] = call[u]
BY DEF Moved, Typed
------------------------------------------------------------------------------
(* What every step of a thread respects, and why that is enough.               *)

Kept ==
    /\ PROC_ST \in flags' <=> PROC_ST \in flags
    /\ st_thread' = st_thread /\ st_mode' = st_mode

\* Single-thread mode belongs to whoever has it, but for the thread that exits.
LockRule(t) ==
    /\ PROC_EXIT \in flags => PROC_EXIT \in flags'
    /\ Kept \/ PROC_ST \notin flags \/ st_thread = t \/ Exits(pc[t], call[t])
    /\ PROC_ST \in flags' => \/ PROC_ST \in flags
                             \/ PROC_EXIT \notin flags
                             \/ Exits(pc[t], call[t])

\* A thread that waits in thread_uret leaves when the mode is over.
UretRule(t, p) ==
    /\ pc[t] \in Uret /\ PROC_ST \in flags /\ st_mode = PROC_ST_WAIT =>
           p \in Uret /\ Kept /\ threads' = threads
    /\ st_waiting' = IF pc[t] \in Uret THEN IF p \in Uret THEN st_waiting ELSE st_waiting - 1
                     ELSE IF p \in Uret THEN st_waiting + 1 ELSE st_waiting

\* No thread starts to wait in, and no mode that is waited for turns into,
\* PROC_ST_KILL.
KillRule(t, p, c) ==
    panic' = NULL =>
        /\ p \in Uret /\ pc[t] \notin Uret => Kept /\ PROC_ST \in flags /\ st_mode = PROC_ST_WAIT
        /\ Kept \/ InUret = {} \/ (PROC_ST \notin flags' /\ st_mode' = st_mode)
        /\ p = "exitfix" /\ st_mode' = PROC_ST_KILL => InUret = {}
        /\ p = "exitwake" /\ c.mode # PROC_ST_WAIT => InUret = {}

\* Whoever ends a mode wakes those who sleep for its end.
WakeRule(t, p) ==
    panic' = NULL =>
        /\ woken \ {t} \subseteq woken'
        /\ Kept \/ InUret = {} \/ FlagSleepers \subseteq woken' \/ p = "exitwake"
        /\ pc[t] = "exitwake" => InUret = {} \/ FlagSleepers \subseteq woken'
        /\ p = "stasleep" => PROC_ST \in flags' /\ st_mode' = PROC_ST_WAIT
        /\ p = "stopasleep" => PROC_STOP \in flags'
        /\ PROC_STOP \in flags => PROC_STOP \in flags'

Orderly(t, p, c) ==
    /\ panic = NULL /\ pc[t] \notin {"none", "dead"}
    /\ Moved(t, p, c)
    /\ threads' = threads \/ (threads' = threads \ {t} /\ p = "dead")
    /\ LockRule(t) /\ UretRule(t, p) /\ KillRule(t, p, c) /\ WakeRule(t, p)
    /\ Exits(p, c) => Exits(pc[t], call[t]) \/ PROC_EXIT \notin flags
    /\ ThreadInv(t, p, c)'

\* The types of what is not local to a thread.
TypedRest ==
    /\ threads \subseteq Threads /\ flags \subseteq Flags
    /\ st_thread \in Threads \cup {NULL} /\ st_mode \in Modes
    /\ intr \in [Threads -> SUBSET Intrs]
    /\ woken \subseteq Threads

LEMMA UretSets ==
    ASSUME Typed, NEW t \in Threads, NEW p \in Pcs, NEW c \in CallType, Moved(t, p, c)
    PROVE  /\ InUret = {u \in Threads : pc[u] \in Uret}
           /\ InUret' = IF p \in Uret THEN InUret \cup {t} ELSE InUret \ {t}
<1>1. InUret = {u \in Threads : pc[u] \in Uret} /\ InUret' = {u \in Threads : pc'[u] \in Uret}
  BY DEF InUret, Uret
<1>2. \A u \in Threads : pc'[u] = IF u = t THEN p ELSE pc[u]
  BY DEF Moved, Typed
<1> QED BY <1>1, <1>2

LEMMA UretCount ==
    ASSUME Typed, NEW t \in Threads, NEW p \in Pcs, NEW c \in CallType, Moved(t, p, c),
           st_waiting = Cardinality(InUret), UretRule(t, p)
    PROVE  st_waiting' = Cardinality(InUret')
<1>1. InUret \subseteq Threads /\ IsFiniteSet(Threads)
  BY StAssumption DEF InUret
<1>2. IsFiniteSet(InUret) /\ Cardinality(InUret) \in Nat
  BY <1>1, FS_Subset, FS_CardinalityType
<1>3. /\ t \in InUret <=> pc[t] \in Uret
      /\ InUret' = IF p \in Uret THEN InUret \cup {t} ELSE InUret \ {t}
  BY UretSets
<1>4. CASE p \in Uret /\ pc[t] \in Uret
  <2>1. InUret' = InUret
    BY <1>3, <1>4
  <2> QED BY <1>4, <2>1 DEF UretRule
<1>5. CASE p \in Uret /\ pc[t] \notin Uret
  <2>1. Cardinality(InUret \cup {t}) = Cardinality(InUret) + 1
    BY <1>2, <1>3, <1>5, FS_AddElement, Zenon
  <2> QED BY <1>3, <1>5, <2>1 DEF UretRule
<1>6. CASE p \notin Uret /\ pc[t] \in Uret
  <2>1. Cardinality(InUret \ {t}) = Cardinality(InUret) - 1
    BY <1>2, <1>3, <1>6, FS_RemoveElement, Zenon
  <2> QED BY <1>3, <1>6, <2>1 DEF UretRule
<1>7. CASE p \notin Uret /\ pc[t] \notin Uret
  <2>1. InUret' = InUret
    BY <1>3, <1>7
  <2> QED BY <1>7, <2>1 DEF UretRule
<1> QED BY <1>4, <1>5, <1>6, <1>7

LEMMA OthersKeep ==
    ASSUME IInv, NEW t \in Threads, NEW p \in Pcs, NEW c \in CallType, Orderly(t, p, c),
           NEW u \in Threads, u # t, NEW q, NEW d, q = pc[u], d = call[u]
    PROVE  ThreadInv(u, q, d)'
<1>0. Typed /\ ThreadInv(u, q, d) /\ ThreadInv(t, pc[t], call[t]) /\ OneExits
  BY DEF IInv
<1>1. LockRule(t) /\ UretRule(t, p) /\ Moved(t, p, c)
  BY DEF Orderly
<1>2. t \in threads
  BY <1>0 DEF Orderly, ThreadInv, CallInv
<1>3. u \in threads => u \in threads'
  BY DEF Orderly
<1>4. CallInv(u, q, d)'
  BY <1>0, <1>3 DEF ThreadInv, CallInv
<1>5. LoopInv(u, q, d)'
  <2> SUFFICES ASSUME q \in Loop PROVE Held(u, d.mode)' \/ (PROC_EXIT \in flags' /\ ~d.exit)
    BY DEF LoopInv
  <2>1. CASE PROC_EXIT \in flags /\ ~d.exit
    BY <1>1, <2>1 DEF LockRule
  <2>2. CASE Held(u, d.mode) /\ Kept
    BY <2>2 DEF Held, Kept
  <2>3. CASE Held(u, d.mode) /\ ~Kept
    <3>1. Exits(pc[t], call[t])
      BY <1>1, <2>3 DEF Held, LockRule
    <3>2. ~Exits(q, d)
      BY <1>0, <3>1 DEF OneExits
    <3>3. ~d.exit
      BY <1>0, <3>2 DEF Exits, ThreadInv, CallInv
    <3>4. PROC_EXIT \in flags
      BY <1>0, <3>1 DEF ThreadInv, ExitInv
    <3> QED BY <1>1, <3>3, <3>4 DEF LockRule
  <2> QED BY <1>0, <2>1, <2>2, <2>3 DEF ThreadInv, LoopInv
<1>6. AloneInv(u, q)'
  <2> SUFFICES ASSUME q = "alone"
               PROVE  Held(u, PROC_ST_WAIT)' /\ threads' \ {u} \subseteq InUret'
    BY DEF AloneInv
  <2>1. Held(u, PROC_ST_WAIT) /\ threads \ {u} \subseteq InUret
    BY <1>0 DEF ThreadInv, AloneInv
  <2>2. pc[t] \in Uret
    BY <1>0, <1>1, <1>2, <2>1, UretSets
  <2>3. p \in Uret /\ Kept /\ threads' = threads
    BY <1>1, <2>1, <2>2 DEF UretRule, Held
  <2>4. InUret' = InUret \cup {t}
    BY <1>0, <1>1, <2>3, UretSets
  <2> QED BY <2>1, <2>3, <2>4 DEF Held, Kept
<1>7. ExitInv(u, q, d)'
  <2>1. Exits(q, d) => PROC_EXIT \in flags'
    BY <1>0, <1>1 DEF ThreadInv, ExitInv, LockRule
  <2>2. q # "exitfinal"
    BY <1>0, <1>2 DEF ThreadInv, ExitInv
  <2>3. ASSUME q = "exitwake" PROVE PROC_ST \notin flags'
    <3>1. Exits(q, d)
      BY <2>3 DEF Exits, ExitPcs
    <3>2. ~Exits(pc[t], call[t])
      BY <1>0, <3>1 DEF OneExits
    <3>3. PROC_ST \notin flags /\ PROC_EXIT \in flags
      BY <1>0, <2>3, <3>1 DEF ThreadInv, ExitInv
    <3> QED BY <1>1, <3>2, <3>3 DEF LockRule
  <2> QED BY <2>1, <2>2, <2>3 DEF ExitInv
<1> QED BY <1>4, <1>5, <1>6, <1>7 DEF ThreadInv

LEMMA OrderlyKeeps ==
    ASSUME IInv, NEW t \in Threads, NEW p \in Pcs, NEW c \in CallType, Orderly(t, p, c),
           TypedRest'
    PROVE  IInv'
<1>0. /\ Typed /\ OneExits /\ KillInv /\ NoStrandedThread
      /\ \A u \in Threads : ThreadInv(u, pc[u], call[u])
      /\ Moved(t, p, c) /\ panic = NULL
  BY DEF IInv, Orderly
<1>1. /\ pc' \in [Threads -> Pcs] /\ call' \in [Threads -> CallType]
      /\ pc'[t] = p /\ call'[t] = c
      /\ \A u \in Threads \ {t} : pc'[u] = pc[u] /\ call'[u] = call[u]
  BY <1>0, MovedOn
<1>2. Typed'
  BY <1>1 DEF Typed, TypedRest
<1>3. st_waiting' = Cardinality(InUret')
  BY <1>0, UretCount DEF IInv, Orderly
<1>4. ASSUME NEW u \in Threads PROVE ThreadInv(u, pc[u], call[u])'
  <2>1. PICK q, d : q = pc'[u] /\ d = call'[u]
    OBVIOUS
  <2>2. CASE u = t
    <3>1. q = p /\ d = c
      BY <1>1, <2>1, <2>2
    <3>2. ThreadInv(u, q, d)'
      BY <2>2, <3>1 DEF Orderly
    <3> QED BY <2>1, <3>2 DEF ThreadInv, CallInv, LoopInv, AloneInv, ExitInv
  <2>3. CASE u # t
    <3>1. q = pc[u] /\ d = call[u]
      BY <1>1, <2>1, <2>3
    <3>2. ThreadInv(u, q, d)'
      BY <2>3, <3>1, OthersKeep
    <3> QED BY <2>1, <3>2 DEF ThreadInv, CallInv, LoopInv, AloneInv, ExitInv
  <2> QED BY <2>2, <2>3
<1>5. OneExits'
  <2> SUFFICES ASSUME NEW u \in Threads, NEW v \in Threads,
                      Exits(pc'[u], call'[u]), Exits(pc'[v], call'[v])
               PROVE  u = v
    BY DEF OneExits
  <2>1. \A w \in Threads : Exits(pc[w], call[w]) => PROC_EXIT \in flags
    BY <1>0 DEF ThreadInv, ExitInv
  <2>2. Exits(p, c) => Exits(pc[t], call[t]) \/ PROC_EXIT \notin flags
    BY DEF Orderly
  <2>3. \A w \in Threads \ {t} : Exits(pc'[w], call'[w]) => Exits(pc[w], call[w])
    BY <1>1
  <2>4. Exits(pc'[t], call'[t]) => Exits(pc[t], call[t]) \/ PROC_EXIT \notin flags
    BY <1>1, <2>2
  <2> QED BY <1>0, <2>1, <2>3, <2>4 DEF OneExits
<1>6. KillInv'
  <2> SUFFICES ASSUME panic' = NULL
               PROVE  /\ st_mode' = PROC_ST_KILL /\ PROC_ST \in flags' => InUret' = {}
                      /\ \A u \in Threads : pc'[u] = "exitfix" /\ st_mode' = PROC_ST_KILL
                                              => InUret' = {}
                      /\ \A u \in Threads : pc'[u] = "exitwake" /\ call'[u].mode # PROC_ST_WAIT
                                              => InUret' = {}
    BY DEF KillInv
  <2>1. KillRule(t, p, c)
    BY DEF Orderly
  <2>2. InUret' = IF p \in Uret THEN InUret \cup {t} ELSE InUret \ {t}
    BY <1>0, UretSets
  <2>3. t \in InUret <=> pc[t] \in Uret
    BY <1>0, UretSets
  <2>4. CASE p \in Uret /\ pc[t] \notin Uret
    <3>1. Kept /\ PROC_ST \in flags /\ st_mode = PROC_ST_WAIT
      BY <2>1, <2>4 DEF KillRule
    <3>2. st_mode' # PROC_ST_KILL
      BY <3>1, Names DEF Kept
    <3>3. ASSUME NEW u \in Threads PROVE pc'[u] # "exitwake"
      <4>1. pc[u] # "exitwake"
        BY <1>0, <3>1 DEF ThreadInv, ExitInv
      <4> QED BY <1>1, <2>4, <4>1 DEF Uret
    <3> QED BY <3>2, <3>3
  <2>5. CASE ~(p \in Uret /\ pc[t] \notin Uret)
    <3>1. InUret = {} => InUret' = {}
      BY <2>2, <2>3, <2>5
    <3>2. st_mode' = PROC_ST_KILL /\ PROC_ST \in flags' => InUret = {}
      BY <1>0, <2>1 DEF KillRule, KillInv, Kept
    <3>3. ASSUME NEW u \in Threads, pc'[u] = "exitfix", st_mode' = PROC_ST_KILL
          PROVE  InUret = {}
      <4>1. CASE u = t
        BY <1>1, <2>1, <3>3, <4>1 DEF KillRule
      <4>2. CASE u # t
        BY <1>0, <1>1, <2>1, <3>3, <4>2 DEF KillRule, KillInv, Kept
      <4> QED BY <4>1, <4>2
    <3>4. ASSUME NEW u \in Threads, pc'[u] = "exitwake", call'[u].mode # PROC_ST_WAIT
          PROVE  InUret = {}
      <4>1. CASE u = t
        BY <1>1, <2>1, <3>4, <4>1 DEF KillRule
      <4>2. CASE u # t
        BY <1>0, <1>1, <3>4, <4>2 DEF KillInv
      <4> QED BY <4>1, <4>2
    <3> QED BY <3>1, <3>2, <3>3, <3>4
  <2> QED BY <2>4, <2>5
<1>7. NoStrandedThread'
  <2> SUFFICES ASSUME panic' = NULL, NEW u \in Threads \ woken'
               PROVE  /\ pc'[u] = "stasleep" =>
                           \/ PROC_ST \in flags' /\ st_mode' = PROC_ST_WAIT
                           \/ \E v \in Threads : pc'[v] = "exitwake"
                      /\ pc'[u] = "stopasleep" => PROC_STOP \in flags'
    BY DEF NoStrandedThread
  <2>1. WakeRule(t, p)
    BY DEF Orderly
  <2>2. CASE u = t
    BY <1>1, <2>1, <2>2 DEF WakeRule
  <2>3. CASE u # t
    <3>1. pc'[u] = pc[u] /\ u \notin woken
      BY <1>1, <2>1, <2>3 DEF WakeRule
    <3>2. pc[u] = "stopasleep" => PROC_STOP \in flags'
      BY <1>0, <2>1, <3>1 DEF WakeRule, NoStrandedThread
    <3>3. ASSUME pc[u] = "stasleep"
          PROVE  \/ PROC_ST \in flags' /\ st_mode' = PROC_ST_WAIT
                 \/ \E v \in Threads : pc'[v] = "exitwake"
      <4>1. u \in InUret /\ u \in FlagSleepers
        BY <3>3 DEF InUret, FlagSleepers
      <4>2. Kept \/ p = "exitwake"
        BY <2>1, <4>1 DEF WakeRule
      <4>3. pc[t] # "exitwake"
        BY <2>1, <4>1 DEF WakeRule
      <4>4. \/ PROC_ST \in flags /\ st_mode = PROC_ST_WAIT
            \/ \E v \in Threads : pc[v] = "exitwake"
        BY <1>0, <3>1, <3>3 DEF NoStrandedThread
      <4> QED BY <1>1, <4>2, <4>3, <4>4 DEF Kept
    <3> QED BY <3>1, <3>2, <3>3
  <2> QED BY <2>2, <2>3
<1> QED BY <1>2, <1>3, <1>4, <1>5, <1>6, <1>7 DEF IInv
------------------------------------------------------------------------------
(* The steps, one by one.                                                      *)

\* What is known of the thread that takes a step.
LEMMA Own ==
    ASSUME IInv, NEW t \in Threads
    PROVE  /\ Typed /\ pc[t] \in Pcs /\ call[t] \in CallType
           /\ call[t].op \in {NULL, "execve", "vfork", "exit_group"}
           /\ call[t].exit \in BOOLEAN /\ call[t].seen \in SUBSET Flags
           /\ call[t].pending \in SUBSET Intrs
           /\ CallInv(t, pc[t], call[t]) /\ LoopInv(t, pc[t], call[t])
           /\ AloneInv(t, pc[t]) /\ ExitInv(t, pc[t], call[t])
<1>1. Typed /\ pc[t] \in Pcs /\ call[t] \in CallType
  BY DEF IInv, Typed
<1>2. /\ call[t].op \in {NULL, "execve", "vfork", "exit_group"}
      /\ call[t].exit \in BOOLEAN /\ call[t].seen \in SUBSET Flags
      /\ call[t].pending \in SUBSET Intrs
  BY <1>1 DEF CallType
<1> QED BY <1>1, <1>2 DEF IInv, ThreadInv

\* A step that leaves the state of the process alone.
LEMMA QuietKeeps ==
    ASSUME IInv, panic = NULL, NEW t \in Threads, NEW p \in Pcs, NEW c \in CallType,
           pc[t] \notin {"none", "dead"}, Moved(t, p, c),
           UNCHANGED <<threads, flags, stVars>>,
           p \in Uret <=> pc[t] \in Uret,
           p \notin {"alone", "exitwake", "exitfinal"},
           p = "exitfix" /\ st_mode = PROC_ST_KILL => InUret = {},
           Exits(p, c) => Exits(pc[t], call[t]),
           CallInv(t, p, c), LoopInv(t, p, c),
           woken \ {t} \subseteq woken', woken' \subseteq Threads,
           intr' \in [Threads -> SUBSET Intrs],
           pc[t] = "exitwake" => InUret = {} \/ FlagSleepers \subseteq woken',
           p = "stasleep" => PROC_ST \in flags /\ st_mode = PROC_ST_WAIT,
           p = "stopasleep" => PROC_STOP \in flags
    PROVE  IInv'
<1>1. Kept /\ UNCHANGED <<threads, flags, st_thread, st_mode, st_waiting>>
  BY DEF Kept, stVars
<1>2. LockRule(t) /\ UretRule(t, p) /\ KillRule(t, p, c) /\ WakeRule(t, p)
  <2>1. LockRule(t)
    BY <1>1 DEF LockRule
  <2>2. UretRule(t, p)
    BY <1>1 DEF UretRule
  <2>3. KillRule(t, p, c)
    BY <1>1 DEF KillRule
  <2>4. WakeRule(t, p)
    BY <1>1 DEF WakeRule
  <2> QED BY <2>1, <2>2, <2>3, <2>4
<1>3. ThreadInv(t, p, c)'
  <2>1. CallInv(t, p, c)'
    BY <1>1 DEF CallInv
  <2>2. LoopInv(t, p, c)'
    BY <1>1 DEF LoopInv, Held
  <2>3. AloneInv(t, p)'
    BY DEF AloneInv
  <2>4. ExitInv(t, p, c)'
    BY <1>1, Own DEF ExitInv
  <2> QED BY <2>1, <2>2, <2>3, <2>4 DEF ThreadInv
<1>4. Orderly(t, p, c)
  BY <1>1, <1>2, <1>3 DEF Orderly
<1>5. TypedRest'
  BY <1>1 DEF TypedRest, IInv, Typed
<1> QED BY <1>4, <1>5, OrderlyKeeps

LEMMA SleepsKeeps ==
    ASSUME IInv, NEW t \in Threads, Sleeps(t)
    PROVE  IInv'
<1> DEFINE c == call[t]
<1>0. /\ Typed /\ c \in CallType /\ CallInv(t, pc[t], c) /\ LoopInv(t, pc[t], c)
  BY Own
<1>1. PICK p \in {"stasleep", "stagain", "stopasleep", "stopagain", "killasleep", "again",
                  "waitasleep"} :
         /\ panic = NULL /\ pc' = [pc EXCEPT ![t] = p]
         /\ UNCHANGED <<threads, flags, stVars, intr, call, woken, panic>>
         /\ p \in {"stasleep", "stagain"} => pc[t] = "stwait"
         /\ p \in {"stopasleep", "stopagain"} => pc[t] = "stop"
         /\ p = "killasleep" => pc[t] = "kill"
         /\ p = "waitasleep" => pc[t] = "wait"
         /\ p = "again" => pc[t] \in {"kill", "wait"}
         /\ p \in {"stasleep", "stopasleep"} => flags = c.seen
  BY DEF Sleeps, UretWait, UretStop, StKill, StWait, kern_wait, Goto, At
<1>2. p \in Pcs /\ Moved(t, p, c) /\ pc[t] \notin {"none", "dead", "exitwake"}
  BY <1>0, <1>1 DEF Pcs, Moved, Typed
<1>3. /\ p \in Uret <=> pc[t] \in Uret
      /\ p \in Loop <=> pc[t] \in Loop
      /\ p \notin ExitPcs /\ p # "alone"
  BY <1>1 DEF Uret, Loop, ExitPcs
<1>4. CallInv(t, p, c)
  BY <1>0, <1>1, <1>3 DEF CallInv
<1>5. LoopInv(t, p, c) /\ (Exits(p, c) => Exits(pc[t], c))
  BY <1>0, <1>3 DEF LoopInv, Exits
<1>6. p = "stasleep" => PROC_ST \in flags /\ st_mode = PROC_ST_WAIT
  <2> SUFFICES ASSUME p = "stasleep" PROVE PROC_ST \in flags /\ st_mode = PROC_ST_WAIT
    OBVIOUS
  <2>1. PROC_ST \in flags /\ t \in InUret
    BY <1>0, <1>1 DEF CallInv, InUret
  <2>2. st_mode # PROC_ST_KILL
    BY <1>1, <2>1 DEF IInv, KillInv
  <2> QED BY <1>0, <2>1, <2>2, Names DEF Typed
<1>7. p = "stopasleep" => PROC_STOP \in flags
  BY <1>0, <1>1 DEF CallInv
<1>8. woken \ {t} \subseteq woken' /\ woken' \subseteq Threads /\ intr' \in [Threads -> SUBSET Intrs]
  BY <1>0, <1>1 DEF Typed
<1> QED BY <1>0, <1>1, <1>2, <1>3, <1>4, <1>5, <1>6, <1>7, <1>8, QuietKeeps DEF ExitPcs

LEMMA WakesKeeps ==
    ASSUME IInv, NEW t \in Threads, Wakes(t)
    PROVE  IInv'
<1> DEFINE c == call[t]
<1>0. /\ Typed /\ c \in CallType /\ CallInv(t, pc[t], c) /\ LoopInv(t, pc[t], c)
  BY Own
<1>1. PICK p \in {"stagain", "stopagain", "again"} :
         /\ panic = NULL /\ pc' = [pc EXCEPT ![t] = p]
         /\ UNCHANGED <<threads, flags, stVars, intr, call, panic>>
         /\ woken' = woken \ {t}
         /\ p = "stagain" => pc[t] = "stasleep"
         /\ p = "stopagain" => pc[t] = "stopasleep"
         /\ p = "again" => pc[t] \in {"killasleep", "waitasleep"}
  BY DEF Wakes, Wakeup, Goto, At
<1>2. p \in Pcs /\ Moved(t, p, c) /\ pc[t] \notin {"none", "dead", "exitwake"}
  BY <1>0, <1>1 DEF Pcs, Moved, Typed
<1>3. /\ p \in Uret <=> pc[t] \in Uret
      /\ p \in Loop <=> pc[t] \in Loop
      /\ p \notin ExitPcs /\ p \notin {"alone", "stasleep", "stopasleep"}
  BY <1>1 DEF Uret, Loop, ExitPcs
<1>4. CallInv(t, p, c)
  BY <1>0, <1>1, <1>3 DEF CallInv
<1>5. LoopInv(t, p, c) /\ (Exits(p, c) => Exits(pc[t], c))
  BY <1>0, <1>3 DEF LoopInv, Exits
<1>6. woken \ {t} \subseteq woken' /\ woken' \subseteq Threads /\ intr' \in [Threads -> SUBSET Intrs]
  BY <1>0, <1>1 DEF Typed
<1> QED BY <1>0, <1>1, <1>2, <1>3, <1>4, <1>5, <1>6, QuietKeeps DEF ExitPcs

\* A step to a place where nothing but a thread of the process is asked for.
LEMMA PlainKeeps ==
    ASSUME IInv, panic = NULL, NEW t \in Threads, NEW p, NEW c \in CallType,
           p \in {"user", "ret", "uret", "request", "exit", "stop"},
           p = "request" => c.op \in {"execve", "vfork"} /\ ~c.exit,
           p = "exit" => c.op = "exit_group" /\ c.exit,
           p = "stop" => PROC_STOP \in c.seen,
           pc[t] \in {"user", "ret", "uret", "stopagain"}, Moved(t, p, c),
           UNCHANGED <<threads, flags, stVars, woken>>,
           intr' \in [Threads -> SUBSET Intrs]
    PROVE  IInv'
<1>0. /\ Typed /\ CallInv(t, pc[t], call[t])
  BY Own
<1>1. /\ p \in Pcs /\ p \notin Uret /\ p \notin Loop /\ p \notin ExitPcs
      /\ pc[t] \notin Uret /\ pc[t] \notin {"none", "dead", "exitwake"}
  BY DEF Pcs, Uret, Loop, ExitPcs
<1>2. CallInv(t, p, c)
  BY <1>0, <1>1 DEF CallInv
<1>3. LoopInv(t, p, c) /\ ~Exits(p, c)
  BY <1>1 DEF LoopInv, Exits
<1>4. woken \ {t} \subseteq woken' /\ woken' \subseteq Threads
  BY <1>0 DEF Typed
<1> QED BY <1>1, <1>2, <1>3, <1>4, QuietKeeps DEF ExitPcs

LEMMA EntersKeeps ==
    ASSUME IInv, NEW t \in Threads, Enters(t) \/ StopAgain(t)
    PROVE  IInv'
<1>0. /\ Typed /\ call[t] \in CallType /\ DOMAIN call = Threads /\ DOMAIN pc = Threads
      /\ DOMAIN intr = Threads /\ intr[t] \in SUBSET Intrs /\ flags \in SUBSET Flags
  BY Own DEF Typed
<1>1. CASE Trap(t)
  <2>1. Moved(t, "ret", call[t])
    BY <1>0, <1>1 DEF Trap, Goto, Moved, Typed
  <2> QED BY <1>0, <1>1, <2>1, PlainKeeps DEF Trap, Goto, At, Typed
<1>2. CASE thread_uret(t)
  <2>1. PICK c : c = [NoCall EXCEPT !.pending = intr[t]]
    BY Zenon
  <2>2. c \in CallType
    BY <1>0, <2>1, Calling, Zenon
  <2>3. PICK p \in {"user", "uret"} : Moved(t, p, c)
    <3>1. pc' = [pc EXCEPT ![t] = IF intr[t] = {} THEN "user" ELSE "uret"]
      BY <1>2 DEF thread_uret, Goto
    <3> QED BY <1>2, <2>1, <3>1, Zenon DEF thread_uret, Moved
  <2>4. intr' \in [Threads -> SUBSET Intrs]
    BY <1>0, <1>2 DEF thread_uret, Typed
  <2> QED BY <1>0, <1>2, <2>2, <2>3, <2>4, PlainKeeps DEF thread_uret, Goto, At
<1>3. ASSUME NEW op \in {"execve", "vfork", "exit_group"}, NEW to, Begin(t, op, to),
             to = IF op = "exit_group" THEN "exit" ELSE "request"
      PROVE  IInv'
  <2>1. PICK e \in BOOLEAN : e <=> op = "exit_group"
    BY Zenon
  <2>2. PICK c : c = [NoCall EXCEPT !.op = op, !.exit = e]
    OBVIOUS
  <2>3. c \in CallType
    BY <1>0, <2>1, <2>2, Calling, Zenon
  <2>4. c.op = op /\ c.exit = e
    BY <2>2 DEF NoCall
  <2>5. e = (op = "exit_group")
    BY <2>1
  <2>6. Moved(t, to, c)
    BY <1>3, <2>2, <2>5 DEF Begin, Goto, Moved
  <2>7. pc[t] = "user" /\ panic = NULL /\ UNCHANGED <<threads, flags, stVars, woken, intr>>
    BY <1>3 DEF Begin, Goto, At
  <2> QED BY <1>0, <1>3, <2>1, <2>3, <2>4, <2>6, <2>7, PlainKeeps DEF Typed
<1>4. CASE kern_execve(t) \/ sys_vfork(t) \/ kern_exitproc(t)
  BY <1>3, <1>4 DEF kern_execve, sys_vfork, kern_exitproc
<1>5. CASE StopAgain(t)
  <2>1. CASE PROC_STOP \in flags
    <3>1. PICK c : c = [call[t] EXCEPT !.seen = flags]
      BY Zenon
    <3>2. c \in CallType
      BY <1>0, <3>1, Calling, Zenon
    <3>3. c.seen = flags
      BY <1>0, <3>1 DEF CallType
    <3>4. Moved(t, "stop", c)
      BY <1>0, <1>5, <2>1, <3>1 DEF StopAgain, StopLoop, Moved
    <3> QED BY <1>0, <1>5, <2>1, <3>2, <3>3, <3>4, PlainKeeps DEF StopAgain, At, Typed
  <2>2. CASE PROC_STOP \notin flags
    <3>1. Moved(t, "ret", NoCall)
      BY <1>5, <2>2 DEF StopAgain, StopLoop, Moved
    <3> QED BY <1>0, <1>5, <3>1, Calling, PlainKeeps, Zenon DEF StopAgain, At, Typed
  <2> QED BY <2>1, <2>2
<1> QED BY <1>1, <1>2, <1>4, <1>5 DEF Enters

LEMMA ExitWakeKeeps ==
    ASSUME IInv, NEW t \in Threads, ExitWake(t) \/ ExitError(t)
    PROVE  IInv'
<1> DEFINE c == call[t]
<1>0. /\ Typed /\ c \in CallType /\ CallInv(t, pc[t], c) /\ LoopInv(t, pc[t], c)
      /\ pc[t] \in Pcs /\ DOMAIN call = Threads /\ DOMAIN pc = Threads
  BY Own DEF Typed
<1>1. CASE ExitWake(t)
  <2>1. /\ panic = NULL /\ pc[t] = "exitwake" /\ Moved(t, "exitretry", c)
        /\ UNCHANGED <<threads, flags, stVars, intr, panic>>
        /\ c.mode = PROC_ST_WAIT => woken' = woken \cup FlagSleepers
        /\ c.mode # PROC_ST_WAIT => woken' = woken
    <3>1. Moved(t, "exitretry", c)
      BY <1>0, <1>1 DEF ExitWake, Goto, Moved, Typed
    <3> QED BY <1>1, <3>1 DEF ExitWake, Goto, At, WakeFlags
  <2>2. "exitretry" \in Pcs /\ "exitretry" \notin Loop /\ "exitretry" \notin Uret
    BY DEF Pcs, Loop, Uret
  <2>3. CallInv(t, "exitretry", c) /\ LoopInv(t, "exitretry", c)
    BY <1>0, <2>1, <2>2 DEF CallInv, LoopInv
  <2>4. Exits(pc[t], c) /\ pc[t] \notin Uret
    BY <2>1 DEF Exits, ExitPcs, Uret
  <2>5. InUret = {} \/ FlagSleepers \subseteq woken'
    BY <2>1 DEF IInv, KillInv
  <2>6. woken \subseteq woken' /\ woken' \subseteq Threads /\ intr' \in [Threads -> SUBSET Intrs]
    BY <1>0, <2>1 DEF Typed, FlagSleepers
  <2> QED BY <1>0, <2>1, <2>2, <2>3, <2>4, <2>5, <2>6, QuietKeeps
<1>2. CASE ExitError(t)
  <2>1. /\ panic = NULL /\ pc[t] = "exiterr" /\ Moved(t, pc[t], c)
        /\ UNCHANGED <<threads, flags, stVars, intr, woken>>
    BY <1>0, <1>2 DEF ExitError, At, Moved, Typed
  <2> QED BY <1>0, <2>1, QuietKeeps DEF Typed
<1> QED BY <1>1, <1>2

\* The end of thread_handle_intr.
LEMMA StopLoops ==
    ASSUME Typed, NEW t \in Threads, StopLoop(t)
    PROVE  \E p \in {"stop", "ret"}, c \in CallType :
             /\ Moved(t, p, c)
             /\ p = "stop" => PROC_STOP \in c.seen
<1>0. call[t] \in CallType /\ flags \in SUBSET Flags /\ DOMAIN call = Threads
  BY DEF Typed
<1>1. CASE PROC_STOP \in flags
  <2>1. PICK c : c = [call[t] EXCEPT !.seen = flags]
    BY Zenon
  <2>2. c \in CallType
    BY <1>0, <2>1, Calling, Zenon
  <2>3. c.seen = flags
    BY <1>0, <2>1 DEF CallType
  <2>4. Moved(t, "stop", c)
    BY <1>0, <1>1, <2>1 DEF StopLoop, Moved
  <2> QED BY <1>1, <2>2, <2>3, <2>4
<1>2. CASE PROC_STOP \notin flags
  <2>1. Moved(t, "ret", NoCall) /\ NoCall \in CallType
    BY <1>0, <1>2, Calling, Zenon DEF StopLoop, Moved
  <2> QED BY <2>1
<1> QED BY <1>1, <1>2

LEMMA WakesSome ==
    ASSUME Typed, proc_wakeup_st_waiter
    PROVE  woken \subseteq woken' /\ woken' \subseteq Threads
<1>1. \A S \in SUBSET Threads : WakeOne(S) => woken \subseteq woken' /\ woken' \subseteq Threads
  BY DEF WakeOne, Typed
<1>2. LengthSleepers \in SUBSET Threads /\ WaitingSleepers \in SUBSET Threads
  BY DEF LengthSleepers, WaitingSleepers
<1>3. CASE PROC_ST \notin flags
  BY <1>3 DEF proc_wakeup_st_waiter, Typed
<1>4. CASE PROC_ST \in flags /\ st_mode = PROC_ST_KILL
  BY <1>1, <1>2, <1>4 DEF proc_wakeup_st_waiter
<1>5. CASE PROC_ST \in flags /\ st_mode # PROC_ST_KILL
  BY <1>1, <1>2, <1>5 DEF proc_wakeup_st_waiter
<1> QED BY <1>3, <1>4, <1>5

LEMMA UretProcKeeps ==
    ASSUME IInv, NEW t \in Threads, UretProc(t)
    PROVE  IInv'
<1>0. /\ Typed /\ call[t] \in CallType /\ CallInv(t, pc[t], call[t])
      /\ flags \in SUBSET Flags /\ DOMAIN call = Threads
  BY Own DEF Typed
<1>1. pc[t] = "uret" /\ panic = NULL /\ UNCHANGED <<threads, flags, st_thread, st_mode, intr>>
  BY DEF UretProc, At
<1>2. CASE PROC_ST \in flags
  <2>1. PICK c : c = [call[t] EXCEPT !.seen = flags]
    BY Zenon
  <2>2. c \in CallType /\ c.seen = flags
    <3>1. c \in CallType
      BY <1>0, <2>1, Calling, Zenon
    <3> QED BY <1>0, <2>1, <3>1 DEF CallType
  <2>3. /\ Moved(t, "stwait", c)
        /\ st_waiting' = st_waiting + 1
        /\ proc_wakeup_st_waiter
        /\ panic' = NULL => st_mode = PROC_ST_WAIT
    <3>1. Moved(t, "stwait", c)
      BY <1>0, <1>2, <2>1 DEF UretProc, Moved
    <3>2. panic' = NULL => st_mode = PROC_ST_WAIT
      BY <1>2, StAssumption DEF UretProc, Asserts
    <3> QED BY <1>2, <3>1, <3>2 DEF UretProc
  <2>4. woken \subseteq woken' /\ woken' \subseteq Threads
    BY <1>0, <2>3, WakesSome
  <2>5. Kept
    BY <1>1 DEF Kept
  <2>6. /\ "stwait" \in Pcs /\ "stwait" \in Uret /\ "stwait" \notin Loop
        /\ "stwait" \notin ExitPcs /\ pc[t] \notin Uret
    BY <1>1 DEF Pcs, Uret, Loop, ExitPcs
  <2>7. LockRule(t)
    BY <1>1, <2>5 DEF LockRule
  <2>8. UretRule(t, "stwait")
    BY <2>3, <2>6 DEF UretRule
  <2>9. KillRule(t, "stwait", c)
    BY <1>2, <2>3, <2>5 DEF KillRule
  <2>10. WakeRule(t, "stwait")
    BY <1>1, <2>4, <2>5 DEF WakeRule
  <2>11. ThreadInv(t, "stwait", c)'
    <3>1. CallInv(t, "stwait", c)'
      BY <1>0, <1>1, <1>2, <2>2, <2>6 DEF CallInv
    <3>2. LoopInv(t, "stwait", c)' /\ AloneInv(t, "stwait")' /\ ExitInv(t, "stwait", c)'
      BY <2>6 DEF LoopInv, AloneInv, ExitInv, Exits
    <3> QED BY <3>1, <3>2 DEF ThreadInv
  <2>12. Orderly(t, "stwait", c)
    BY <1>1, <2>3, <2>6, <2>7, <2>8, <2>9, <2>10, <2>11 DEF Orderly, Exits
  <2>13. TypedRest'
    BY <1>0, <1>1, <2>4 DEF TypedRest, Typed
  <2> QED BY <2>2, <2>6, <2>12, <2>13, OrderlyKeeps
<1>3. CASE PROC_ST \notin flags
  <2>1. StopLoop(t) /\ UNCHANGED <<st_waiting, woken, panic>>
    BY <1>3 DEF UretProc
  <2>2. PICK p \in {"stop", "ret"}, c \in CallType :
           Moved(t, p, c) /\ (p = "stop" => PROC_STOP \in c.seen)
    BY <1>0, <2>1, StopLoops
  <2> QED BY <1>0, <1>1, <2>1, <2>2, PlainKeeps DEF Typed, stVars
<1> QED BY <1>2, <1>3

LEMMA UretAgainKeeps ==
    ASSUME IInv, NEW t \in Threads, UretAgain(t)
    PROVE  IInv'
<1>0. /\ Typed /\ call[t] \in CallType /\ CallInv(t, pc[t], call[t])
      /\ flags \in SUBSET Flags /\ DOMAIN call = Threads
  BY Own DEF Typed
<1>1. /\ pc[t] = "stagain" /\ panic = NULL
      /\ UNCHANGED <<threads, flags, st_thread, st_mode, intr, woken, panic>>
  BY DEF UretAgain, At
<1>2. CASE PROC_ST \in flags /\ st_mode = PROC_ST_WAIT
  <2>1. PICK c : c = [call[t] EXCEPT !.seen = flags]
    BY Zenon
  <2>2. c \in CallType /\ c.seen = flags
    <3>1. c \in CallType
      BY <1>0, <2>1, Calling, Zenon
    <3> QED BY <1>0, <2>1, <3>1 DEF CallType
  <2>3. Moved(t, "stwait", c) /\ UNCHANGED st_waiting
    BY <1>0, <1>2, <2>1 DEF UretAgain, Moved
  <2>4. /\ "stwait" \in Pcs /\ "stwait" \in Uret /\ "stwait" \notin Loop
        /\ "stwait" \notin ExitPcs /\ pc[t] \in Uret
    BY <1>1 DEF Pcs, Uret, Loop, ExitPcs
  <2>5. CallInv(t, "stwait", c) /\ LoopInv(t, "stwait", c) /\ ~Exits("stwait", c)
    BY <1>0, <1>1, <1>2, <2>2, <2>4 DEF CallInv, LoopInv, Exits
  <2>6. woken' \subseteq Threads /\ intr' \in [Threads -> SUBSET Intrs]
    BY <1>0, <1>1 DEF Typed
  <2> QED BY <1>1, <2>2, <2>3, <2>4, <2>5, <2>6, QuietKeeps DEF stVars
<1>3. CASE ~(PROC_ST \in flags /\ st_mode = PROC_ST_WAIT)
  <2>1. StopLoop(t) /\ st_waiting' = st_waiting - 1
    BY <1>3 DEF UretAgain
  <2>2. PICK p \in {"stop", "ret"}, c \in CallType :
           Moved(t, p, c) /\ (p = "stop" => PROC_STOP \in c.seen)
    BY <1>0, <2>1, StopLoops
  <2>3. p \in Pcs /\ p \notin Uret /\ p \notin Loop /\ p \notin ExitPcs /\ pc[t] \in Uret
    BY <1>1 DEF Pcs, Uret, Loop, ExitPcs
  <2>4. Kept
    BY <1>1 DEF Kept
  <2>5. LockRule(t) /\ UretRule(t, p) /\ KillRule(t, p, c) /\ WakeRule(t, p)
    <3>1. LockRule(t)
      BY <1>1, <2>4 DEF LockRule
    <3>2. UretRule(t, p)
      BY <1>3, <2>1, <2>3 DEF UretRule
    <3>3. KillRule(t, p, c)
      BY <2>3, <2>4 DEF KillRule
    <3>4. WakeRule(t, p)
      BY <1>1, <2>4 DEF WakeRule
    <3> QED BY <3>1, <3>2, <3>3, <3>4
  <2>6. ThreadInv(t, p, c)'
    <3>1. CallInv(t, p, c)'
      BY <1>0, <1>1, <2>2, <2>3 DEF CallInv
    <3>2. LoopInv(t, p, c)' /\ AloneInv(t, p)' /\ ExitInv(t, p, c)'
      BY <2>3 DEF LoopInv, AloneInv, ExitInv, Exits
    <3> QED BY <3>1, <3>2 DEF ThreadInv
  <2>7. Orderly(t, p, c)
    BY <1>1, <2>2, <2>3, <2>5, <2>6 DEF Orderly, Exits
  <2>8. TypedRest'
    BY <1>0, <1>1 DEF TypedRest, Typed
  <2> QED BY <2>2, <2>3, <2>7, <2>8, OrderlyKeeps
<1> QED BY <1>2, <1>3

LEMMA BeatenKeeps ==
    ASSUME IInv, NEW t \in Threads, NEW exit \in BOOLEAN,
           NEW from \in {"request", "exitst", "exitretry", "alone"}, exit <=> from = "exitst",
           Beaten(t, from, exit)
    PROVE  IInv'
<1> DEFINE c == call[t]
<1>0. /\ Typed /\ c \in CallType /\ CallInv(t, pc[t], c) /\ c.exit \in BOOLEAN
      /\ woken \subseteq Threads
  BY Own DEF Typed
<1>1. /\ pc[t] = from /\ panic = NULL /\ UNCHANGED <<threads, flags, stVars, intr, call, woken>>
      /\ from = "exitst" => PROC_ST \in flags
  BY DEF Beaten, At
<1>2. PICK p : p = Failed(t)
  OBVIOUS
<1>3. Moved(t, p, c)
  BY <1>0, <1>2 DEF Beaten, Moved, Typed
<1>4. CASE from \in {"request", "alone"}
  <2>1. p = "ret"
    BY <1>0, <1>1, <1>2, <1>4 DEF Failed, CallInv
  <2>2. /\ p \in Pcs /\ p \notin Uret /\ p \notin Loop /\ p \notin ExitPcs /\ pc[t] \notin Uret
    BY <1>1, <1>4, <2>1 DEF Pcs, Uret, Loop, ExitPcs
  <2>3. CallInv(t, p, c) /\ LoopInv(t, p, c) /\ ~Exits(p, c)
    BY <1>0, <1>1, <1>4, <2>1, <2>2 DEF CallInv, LoopInv, Exits
  <2> QED BY <1>0, <1>1, <1>3, <1>4, <2>1, <2>2, <2>3, QuietKeeps DEF Typed
<1>5. CASE from \in {"exitst", "exitretry"}
  <2>1. p = IF from = "exitst" THEN "exitfix" ELSE "exiterr"
    BY <1>0, <1>1, <1>2, <1>5 DEF Failed, CallInv
  <2>2. /\ p \in Pcs /\ p \notin Uret /\ p \notin Loop /\ p \in ExitPcs /\ pc[t] \notin Uret
        /\ pc[t] \in ExitPcs
    BY <1>1, <1>5, <2>1 DEF Pcs, Uret, Loop, ExitPcs
  <2>3. CallInv(t, p, c) /\ LoopInv(t, p, c) /\ Exits(pc[t], c)
    BY <1>0, <1>1, <1>5, <2>1, <2>2 DEF CallInv, LoopInv, Exits
  <2>4. p = "exitfix" /\ st_mode = PROC_ST_KILL => InUret = {}
    BY <1>1, <1>5, <2>1 DEF IInv, KillInv
  <2> QED BY <1>0, <1>1, <1>3, <1>5, <2>1, <2>2, <2>3, <2>4, QuietKeeps DEF Typed
<1> QED BY <1>4, <1>5

\* Only threads of the process wait in thread_uret.
LEMMA UretThreads ==
    ASSUME IInv
    PROVE  /\ InUret \subseteq threads /\ IsFiniteSet(threads) /\ IsFiniteSet(InUret)
           /\ Cardinality(threads) \in Nat /\ Cardinality(InUret) \in Nat
           /\ st_waiting = Cardinality(InUret)
           /\ st_waiting = 0 => InUret = {}
<1>1. threads \subseteq Threads /\ InUret \subseteq Threads /\ IsFiniteSet(Threads)
  BY StAssumption DEF IInv, Typed, InUret
<1>2. IsFiniteSet(threads) /\ IsFiniteSet(InUret)
  BY <1>1, FS_Subset
<1>3. Cardinality(threads) \in Nat /\ Cardinality(InUret) \in Nat
  BY <1>2, FS_CardinalityType
<1>4. ASSUME NEW u \in InUret PROVE u \in threads
  <2>1. u \in Threads /\ pc[u] \notin {"none", "dead"}
    BY <1>4 DEF InUret
  <2> QED BY <2>1, Own DEF CallInv
<1>5. st_waiting = Cardinality(InUret)
  BY DEF IInv
<1>6. st_waiting = 0 => InUret = {}
  BY <1>2, <1>5, FS_EmptySet, Zenon
<1> QED BY <1>2, <1>3, <1>4, <1>5, <1>6

\* When all but one of the threads are counted as waiting, they wait.
LEMMA OthersWait ==
    ASSUME IInv, NEW t \in threads, t \notin InUret, st_waiting = list_length - 1
    PROVE  threads \ {t} \subseteq InUret
<1>1. /\ InUret \subseteq threads \ {t} /\ IsFiniteSet(threads)
      /\ Cardinality(InUret) = Cardinality(threads) - 1
  BY UretThreads DEF list_length
<1>2. /\ IsFiniteSet(threads \ {t}) /\ Cardinality(threads \ {t}) = Cardinality(threads) - 1
  BY <1>1, FS_RemoveElement
<1> QED BY <1>1, <1>2, FS_Subset

\* When the list has no second thread, the thread is the only one.
LEMMA OnlyThread ==
    ASSUME IInv, NEW t \in threads, ~(list_length > 1)
    PROVE  threads = {t}
<1>1. IsFiniteSet(threads) /\ Cardinality(threads) \in Nat /\ ~(Cardinality(threads) > 1)
  BY UretThreads DEF list_length
<1>2. /\ IsFiniteSet(threads \ {t}) /\ Cardinality(threads \ {t}) = Cardinality(threads) - 1
  BY <1>1, FS_RemoveElement
<1>3. Cardinality(threads \ {t}) \in Nat
  BY <1>2, FS_CardinalityType
<1>4. Cardinality(threads \ {t}) = 0
  BY <1>1, <1>2, <1>3
<1>5. threads \ {t} = {}
  BY <1>2, <1>4, FS_EmptySet
<1> QED BY <1>5

\* What a thread t that reaches the head of the loops brings along.
AtHead(t, mode) ==
    /\ panic = NULL
    /\ pc[t] \in {"request", "exitst", "alone", "again"}
    /\ call[t].op = "exit_group" => mode = PROC_ST_KILL /\ PROC_EXIT \in flags
    /\ call[t].op # "exit_group" => PROC_EXIT \notin flags \/ Held(t, mode)
    /\ PROC_ST \notin flags \/ st_thread = t
    /\ panic' = NULL => InUret = {} \/ (Held(t, mode) /\ mode = PROC_ST_WAIT)
    /\ st_mode' = mode /\ UNCHANGED <<threads, st_waiting>>
    /\ intr' \in [Threads -> SUBSET Intrs]
    /\ woken \subseteq woken' /\ woken' \subseteq Threads

\* The head of the loops respects the rules, wherever it leads.
LEMMA HeadOrderly ==
    ASSUME IInv, NEW t \in Threads, NEW mode \in Modes, AtHead(t, mode),
           NEW p \in {"kill", "wait", "alone", "exitfinal", "ret"}, NEW c \in CallType,
           Moved(t, p, c), c.op = call[t].op, p = "exitfinal" => c.op = "exit_group",
           \/ flags' = flags \cup {PROC_ST} /\ st_thread' = t
           \/ flags' = flags \ {PROC_ST} /\ st_thread' = NULL /\ mode = PROC_ST_KILL,
           ThreadInv(t, p, c)'
    PROVE  IInv'
<1>0. Typed /\ CallInv(t, pc[t], call[t]) /\ threads' = threads /\ st_waiting' = st_waiting
  BY Own DEF AtHead
<1>1. /\ pc[t] \notin Uret /\ p \notin Uret /\ p \in Pcs /\ pc[t] \notin {"none", "dead", "exitwake"}
      /\ p \notin {"exitfix", "exitwake", "stasleep", "stopasleep"}
  BY DEF AtHead, Uret, Pcs
<1>2. Held(t, mode) /\ mode = PROC_ST_WAIT => Kept
  BY Names DEF AtHead, Held, Kept
<1>3. Exits(p, c) => Exits(pc[t], call[t]) \/ PROC_EXIT \notin flags
  <2> SUFFICES ASSUME Exits(p, c) PROVE Exits(pc[t], call[t])
    OBVIOUS
  <2>1. call[t].op = "exit_group"
    BY DEF Exits, ExitPcs
  <2>2. pc[t] \in {"exitst", "again"}
    BY <1>0, <2>1 DEF AtHead, CallInv
  <2> QED BY <2>1, <2>2 DEF Exits, ExitPcs, Loop
<1>4. PROC_EXIT \in flags => PROC_ST \in flags \/ Exits(pc[t], call[t])
  <2>1. CASE call[t].op = "exit_group"
    <3>1. pc[t] \in {"exitst", "again"}
      BY <1>0, <2>1 DEF AtHead, CallInv
    <3> QED BY <2>1, <3>1 DEF Exits, ExitPcs, Loop
  <2>2. CASE call[t].op # "exit_group"
    BY <2>2 DEF AtHead, Held
  <2> QED BY <2>1, <2>2
<1>5. LockRule(t)
  BY <1>4, Names DEF LockRule, AtHead
<1>6. UretRule(t, p)
  BY <1>0, <1>1 DEF UretRule
<1>7. KillRule(t, p, c)
  BY <1>1, <1>2 DEF KillRule, AtHead
<1>8. WakeRule(t, p)
  BY <1>1, <1>2, Names DEF WakeRule, AtHead
<1>9. Orderly(t, p, c)
  BY <1>0, <1>1, <1>3, <1>5, <1>6, <1>7, <1>8 DEF Orderly, AtHead
<1>10. TypedRest'
  <2>1. flags' \subseteq Flags
    BY <1>0 DEF Typed, Flags
  <2> QED BY <1>0, <2>1 DEF TypedRest, Typed, AtHead
<1> QED BY <1>1, <1>9, <1>10, OrderlyKeeps

LEMMA HeadKeeps ==
    ASSUME IInv, NEW t \in Threads, NEW mode \in Modes, AtHead(t, mode),
           StLoop(t, mode, flags \cup {PROC_ST}, t)
    PROVE  IInv'
<1>0. /\ Typed /\ call[t] \in CallType /\ CallInv(t, pc[t], call[t])
      /\ DOMAIN call = Threads
      /\ threads' = threads /\ st_waiting' = st_waiting
  BY Own DEF Typed, AtHead
<1>1. /\ t \in threads /\ t \notin InUret
      /\ call[t].op = "exit_group" <=> call[t].exit
      /\ call[t].op \in {"execve", "vfork", "exit_group"}
      /\ "again" \in Loop
  BY <1>0 DEF CallInv, AtHead, InUret, Loop
<1>2. CASE LoopOn(t, mode)
  <2>1. PICK n \in {list_length, st_waiting} : call' = [call EXCEPT ![t].num = n, ![t].mode = mode]
    BY <1>2, Zenon DEF LoopOn
  <2>2. n \in Int
    BY UretThreads DEF list_length
  <2>3. PICK c : c = [call[t] EXCEPT !.num = n, !.mode = mode]
    OBVIOUS
  <2>4. c \in CallType
    BY <1>0, <2>2, <2>3, Calling, Zenon
  <2>5. c.op = call[t].op /\ c.exit = call[t].exit /\ c.mode = mode
    BY <1>0, <2>3 DEF CallType
  <2>6. PICK p \in {"kill", "wait"} : pc' = [pc EXCEPT ![t] = p]
    BY <1>2, Zenon DEF LoopOn
  <2>7. Moved(t, p, c)
    BY <1>0, <2>1, <2>3, <2>6, Zenon DEF Moved
  <2>8. flags' = flags \cup {PROC_ST} /\ st_thread' = t /\ st_mode' = mode
    BY <1>2 DEF LoopOn, AtHead
  <2>9. p \in Loop /\ p \notin ExitPcs
    BY <2>6 DEF Loop, ExitPcs
  <2>10. ThreadInv(t, p, c)'
    <3>1. CallInv(t, p, c)'
      BY <1>0, <1>1, <2>5, <2>6, <2>9, Zenon DEF CallInv, AtHead
    <3>2. LoopInv(t, p, c)'
      BY <2>5, <2>8 DEF LoopInv, Held
    <3>3. AloneInv(t, p)'
      BY <2>6 DEF AloneInv
    <3>4. ExitInv(t, p, c)'
      BY <2>5, <2>6, <2>8, <2>9 DEF ExitInv, Exits, AtHead
    <3> QED BY <3>1, <3>2, <3>3, <3>4 DEF ThreadInv
  <2> QED BY <2>4, <2>5, <2>6, <2>7, <2>8, <2>10, HeadOrderly
<1>3. CASE LoopEnd(t, mode)
  <2>0. PICK c : c = call[t]
    OBVIOUS
  <2>1. PICK p : p = Granted(t, mode)
    OBVIOUS
  <2>2. Moved(t, p, c)
    BY <1>0, <1>3, <2>0, <2>1 DEF LoopEnd, Moved, Typed
  <2>3. CASE c.op = "exit_group"
    <3>1. p = "exitfinal" /\ mode = PROC_ST_KILL /\ PROC_EXIT \in flags
      BY <2>0, <2>1, <2>3, Names DEF Granted, AtHead
    <3>2. flags' = flags \ {PROC_ST} /\ st_thread' = NULL /\ ~(list_length > 1)
      BY <1>3, <3>1 DEF LoopEnd
    <3>3. threads' = {t} /\ PROC_EXIT \in flags'
      BY <1>0, <1>1, <3>1, <3>2, OnlyThread, Names
    <3>4. p \notin Loop
      BY <3>1 DEF Loop
    <3>5. ThreadInv(t, p, c)'
      BY <3>1, <3>3, <3>4 DEF ThreadInv, CallInv, LoopInv, AloneInv, ExitInv
    <3> QED BY <1>0, <2>0, <2>2, <2>3, <3>1, <3>2, <3>5, HeadOrderly
  <2>4. CASE c.op # "exit_group" /\ mode = PROC_ST_WAIT
    <3>1. p = "alone" /\ mode # PROC_ST_KILL
      BY <2>0, <2>1, <2>4, Names DEF Granted
    <3>2. /\ flags' = flags \cup {PROC_ST} /\ st_thread' = t /\ st_mode' = mode
          /\ st_waiting = list_length - 1
      BY <1>3, <3>1 DEF LoopEnd, AtHead
    <3>3. threads \ {t} \subseteq InUret
      BY <1>1, <3>2, OthersWait
    <3>4. p \notin Loop /\ p \notin ExitPcs /\ p \notin Uret /\ p \in Pcs
      BY <3>1 DEF Loop, ExitPcs, Uret, Pcs
    <3>5. InUret' = InUret \ {t}
      BY <1>0, <2>0, <2>2, <3>4, UretSets
    <3>6. ThreadInv(t, p, c)'
      <4>1. CallInv(t, p, c)'
        BY <1>0, <1>1, <2>0, <2>4, <3>1, <3>4 DEF CallInv
      <4>2. AloneInv(t, p)'
        BY <1>0, <2>4, <3>2, <3>3, <3>5 DEF AloneInv, Held
      <4>3. LoopInv(t, p, c)' /\ ExitInv(t, p, c)'
        BY <3>1, <3>4 DEF LoopInv, ExitInv, Exits
      <4> QED BY <4>1, <4>2, <4>3 DEF ThreadInv
    <3> QED BY <1>0, <2>0, <2>2, <3>1, <3>2, <3>6, HeadOrderly
  <2>5. CASE c.op # "exit_group" /\ mode # PROC_ST_WAIT
    <3>1. p = "ret" /\ mode = PROC_ST_KILL
      BY <2>0, <2>1, <2>5, Names DEF Granted
    <3>2. flags' = flags \ {PROC_ST} /\ st_thread' = NULL
      BY <1>3, <3>1 DEF LoopEnd
    <3>3. p \notin Loop /\ p \notin ExitPcs
      BY <3>1 DEF Loop, ExitPcs
    <3>4. ThreadInv(t, p, c)'
      BY <1>0, <1>1, <2>0, <3>1, <3>3, Zenon DEF ThreadInv, CallInv, LoopInv, AloneInv, ExitInv, Exits
    <3> QED BY <1>0, <2>0, <2>2, <3>1, <3>2, <3>4, HeadOrderly, Zenon
  <2> QED BY <2>3, <2>4, <2>5
<1> QED BY <1>2, <1>3, LoopHead

LEMMA AsksKeeps ==
    ASSUME IInv, NEW t \in Threads, Asks(t)
    PROVE  IInv'
<1>0. Typed /\ CallInv(t, pc[t], call[t]) /\ ExitInv(t, pc[t], call[t])
  BY Own
<1>1. PICK from \in {"request", "exitst", "exitretry", "alone"}, mode \in Modes, exit \in BOOLEAN :
         /\ proc_singlethread(t, from, mode, exit)
         /\ exit <=> from = "exitst"
         /\ from # "request" => mode = PROC_ST_KILL
  BY Names, Zenon DEF Asks, ExecKill
<1>2. CASE Beaten(t, from, exit)
  BY <1>1, <1>2, BeatenKeeps
<1>3. CASE Takes(t, from, mode, exit)
  <2>1. /\ panic = NULL /\ pc[t] = from /\ (exit \/ PROC_EXIT \notin flags)
        /\ PROC_ST \notin flags \/ st_thread = t
        /\ panic' = NULL => st_waiting = 0
        /\ st_mode' = mode /\ UNCHANGED <<threads, st_waiting>>
        /\ StLoop(t, mode, flags \cup {PROC_ST}, t)
    BY <1>3 DEF Takes, At
  <2>2. from # "exitretry"
    BY <1>0, <1>1, <2>1 DEF ExitInv, Exits, ExitPcs
  <2>3. intr' \in [Threads -> SUBSET Intrs]
    BY <1>0, <1>3 DEF Takes, Interrupt, Typed, Intrs
  <2>4. woken \subseteq woken' /\ woken' \subseteq Threads
    BY <1>0, <1>3 DEF Takes, FlagSleepers, Typed
  <2>5. panic' = NULL => InUret = {}
    BY <2>1, UretThreads
  <2>6. call[t].op = "exit_group" => mode = PROC_ST_KILL /\ PROC_EXIT \in flags
    <3>1. call[t].op = "exit_group" => from = "exitst"
      BY <1>0, <1>1, <2>1, <2>2 DEF CallInv
    <3>2. from = "exitst" => PROC_EXIT \in flags
      BY <1>0, <2>1, Zenon DEF ExitInv, Exits, ExitPcs
    <3> QED BY <1>1, <3>1, <3>2
  <2>7. call[t].op # "exit_group" => PROC_EXIT \notin flags
    BY <1>0, <1>1, <2>1, Zenon DEF CallInv
  <2>8. AtHead(t, mode)
    BY <1>1, <2>1, <2>2, <2>3, <2>4, <2>5, <2>6, <2>7 DEF AtHead
  <2> QED BY <2>1, <2>8, HeadKeeps
<1> QED BY <1>1, <1>2, <1>3, Ask

LEMMA StAgainKeeps ==
    ASSUME IInv, NEW t \in Threads, StAgain(t)
    PROVE  IInv'
<1> DEFINE c == call[t]
<1>0. /\ Typed /\ c \in CallType /\ CallInv(t, pc[t], c) /\ LoopInv(t, pc[t], c)
      /\ ExitInv(t, pc[t], c) /\ c.exit \in BOOLEAN
  BY Own
<1>1. /\ panic = NULL /\ pc[t] = "again" /\ pc[t] \in Loop
      /\ UNCHANGED <<threads, st_mode, st_waiting, intr, woken, panic>>
  BY DEF StAgain, At, Loop
<1>2. CASE ~c.exit /\ PROC_EXIT \in flags
  <2>1. Moved(t, "ret", c) /\ UNCHANGED <<flags, st_thread>>
    <3>1. Failed(t) = "ret"
      BY <1>0, <1>1, <1>2 DEF Failed, CallInv
    <3> QED BY <1>0, <1>2, <3>1 DEF StAgain, Moved, Typed
  <2>2. /\ "ret" \in Pcs /\ "ret" \notin Uret /\ "ret" \notin Loop /\ "ret" \notin ExitPcs
        /\ pc[t] \notin Uret
    BY <1>1 DEF Pcs, Uret, Loop, ExitPcs
  <2>3. CallInv(t, "ret", c) /\ LoopInv(t, "ret", c) /\ ~Exits("ret", c)
    BY <1>0, <1>1, <2>2 DEF CallInv, LoopInv, Exits
  <2> QED BY <1>0, <1>1, <2>1, <2>2, <2>3, QuietKeeps DEF Typed, stVars
<1>3. CASE ~(~c.exit /\ PROC_EXIT \in flags)
  <2>1. PICK mode \in Modes : mode = c.mode
    BY <1>0, <1>1 DEF CallInv
  <2>2. Held(t, mode) /\ StLoop(t, mode, flags \cup {PROC_ST}, t)
    <3>1. Held(t, mode) /\ StLoop(t, mode, flags, st_thread)
      BY <1>0, <1>1, <1>3, <2>1 DEF LoopInv, StAgain
    <3>2. flags \cup {PROC_ST} = flags /\ st_thread = t
      BY <3>1 DEF Held
    <3> QED BY <3>1, <3>2
  <2>3. c.op = "exit_group" => mode = PROC_ST_KILL /\ PROC_EXIT \in flags
    BY <1>0, <1>1, <2>1 DEF CallInv, ExitInv, Exits
  <2>4. InUret = {} \/ mode = PROC_ST_WAIT
    BY <1>1, <2>2, Names, Zenon DEF IInv, KillInv, Held
  <2>5. AtHead(t, mode)
    BY <1>0, <1>1, <2>2, <2>3, <2>4 DEF AtHead, Held, Typed
  <2> QED BY <2>2, <2>5, HeadKeeps
<1> QED BY <1>2, <1>3

\* The end of single-thread mode wakes those who sleep for it.
LEMMA StEndKeeps ==
    ASSUME IInv, NEW t \in Threads, StEnd(t)
    PROVE  IInv'
<1>0. Typed /\ call[t] \in CallType /\ CallInv(t, pc[t], call[t]) /\ AloneInv(t, pc[t])
  BY Own
<1>1. /\ panic = NULL /\ pc[t] = "alone" /\ Moved(t, "ret", NoCall)
      /\ flags' = flags \ {PROC_ST} /\ st_thread' = NULL
      /\ woken' = woken \cup FlagSleepers
      /\ UNCHANGED <<threads, st_mode, st_waiting, intr>>
  BY DEF StEnd, Goto, At, Moved, WakeFlags
<1>2. Held(t, PROC_ST_WAIT)
  BY <1>0, <1>1 DEF AloneInv
<1>3. /\ "ret" \in Pcs /\ "ret" \notin Uret /\ "ret" \notin Loop /\ "ret" \notin ExitPcs
      /\ pc[t] \notin Uret
  BY <1>1 DEF Pcs, Uret, Loop, ExitPcs
<1>4. NoCall \in CallType /\ ~Exits("ret", NoCall)
  BY <1>0, <1>3, Calling, Zenon DEF Exits
<1>5. PICK c : c = NoCall
  OBVIOUS
<1>6. LockRule(t)
  BY <1>1, <1>2, Names DEF LockRule, Held
<1>7. UretRule(t, "ret")
  BY <1>1, <1>3 DEF UretRule
<1>8. KillRule(t, "ret", c)
  BY <1>1, <1>3 DEF KillRule
<1>9. WakeRule(t, "ret")
  BY <1>1, Names DEF WakeRule
<1>10. ThreadInv(t, "ret", c)'
  <2>1. CallInv(t, "ret", c)'
    BY <1>0, <1>1, <1>3 DEF CallInv
  <2>2. LoopInv(t, "ret", c)' /\ AloneInv(t, "ret")' /\ ExitInv(t, "ret", c)'
    BY <1>3 DEF LoopInv, AloneInv, ExitInv, Exits
  <2> QED BY <2>1, <2>2 DEF ThreadInv
<1>11. Orderly(t, "ret", c)
  BY <1>1, <1>4, <1>5, <1>6, <1>7, <1>8, <1>9, <1>10 DEF Orderly
<1>12. TypedRest'
  BY <1>0, <1>1 DEF TypedRest, Typed, FlagSleepers
<1> QED BY <1>3, <1>4, <1>5, <1>11, <1>12, OrderlyKeeps

\* The thread that exits the process sets single-thread mode free.
LEMMA ExitFixKeeps ==
    ASSUME IInv, NEW t \in Threads, ExitFix(t)
    PROVE  IInv'
<1>0. /\ Typed /\ call[t] \in CallType /\ CallInv(t, pc[t], call[t])
      /\ ExitInv(t, pc[t], call[t]) /\ DOMAIN call = Threads /\ st_mode \in Modes
  BY Own DEF Typed
<1>1. /\ panic = NULL /\ pc[t] = "exitfix"
      /\ flags' = flags \ {PROC_ST} /\ st_thread' = NULL
      /\ UNCHANGED <<threads, st_mode, st_waiting, intr>>
  BY DEF ExitFix, Goto, At
<1>2. woken \subseteq woken' /\ woken' \subseteq Threads
  BY <1>0, WakesSome DEF ExitFix
<1>3. PICK c : c = [call[t] EXCEPT !.mode = st_mode, !.exit = FALSE]
  OBVIOUS
<1>4. c \in CallType
  BY <1>0, <1>3, Calling, Zenon
<1>5. c.op = call[t].op /\ c.exit = FALSE /\ c.mode = st_mode
  BY <1>0, <1>3 DEF CallType
<1>6. Moved(t, "exitwake", c)
  BY <1>0, <1>3, Zenon DEF ExitFix, Goto, Moved
<1>7. /\ "exitwake" \in Pcs /\ "exitwake" \notin Uret /\ "exitwake" \notin Loop
      /\ pc[t] \notin Uret /\ pc[t] \in ExitPcs
  BY <1>1 DEF Pcs, Uret, Loop, ExitPcs
<1>8. Exits(pc[t], call[t]) /\ PROC_EXIT \in flags
  BY <1>0, <1>7 DEF Exits, ExitInv
<1>9. LockRule(t)
  BY <1>1, <1>8, Names DEF LockRule
<1>10. UretRule(t, "exitwake")
  BY <1>1, <1>7 DEF UretRule
<1>11. KillRule(t, "exitwake", c)
  <2>1. st_mode = PROC_ST_KILL => InUret = {}
    BY <1>1 DEF IInv, KillInv
  <2> QED BY <1>0, <1>1, <1>5, <1>7, <2>1, Names DEF KillRule
<1>12. WakeRule(t, "exitwake")
  BY <1>1, <1>2, Names DEF WakeRule
<1>13. ThreadInv(t, "exitwake", c)'
  <2>1. CallInv(t, "exitwake", c)'
    BY <1>0, <1>1, <1>5, <1>7 DEF CallInv
  <2>2. LoopInv(t, "exitwake", c)' /\ AloneInv(t, "exitwake")'
    BY <1>7 DEF LoopInv, AloneInv
  <2>3. ExitInv(t, "exitwake", c)'
    BY <1>1, <1>8, Names DEF ExitInv
  <2> QED BY <2>1, <2>2, <2>3 DEF ThreadInv
<1>14. Orderly(t, "exitwake", c)
  BY <1>1, <1>6, <1>8, <1>9, <1>10, <1>11, <1>12, <1>13 DEF Orderly
<1>15. TypedRest'
  BY <1>0, <1>1, <1>2 DEF TypedRest, Typed
<1> QED BY <1>4, <1>7, <1>14, <1>15, OrderlyKeeps

\* A thread that has exited leaves single-thread mode as it was.
LEMMA DeadKeeps ==
    ASSUME IInv, panic = NULL, NEW t \in Threads, NEW c \in CallType,
           pc[t] \in {"user", "uret", "exit", "exitfinal"}, Moved(t, "dead", c),
           threads' = threads \/ threads' = threads \ {t},
           flags' = flags \/ flags' = flags \cup {PROC_FREE},
           UNCHANGED stVars, UNCHANGED intr,
           woken \subseteq woken', woken' \subseteq Threads
    PROVE  IInv'
<1>0. Typed
  BY Own
<1>1. /\ "dead" \in Pcs /\ "dead" \notin Uret /\ "dead" \notin Loop /\ "dead" \notin ExitPcs
      /\ pc[t] \notin Uret /\ pc[t] \notin {"none", "dead", "exitwake"}
  BY DEF Pcs, Uret, Loop, ExitPcs
<1>2. Kept /\ UNCHANGED <<st_thread, st_mode, st_waiting>>
  BY Names DEF Kept, stVars
<1>3. LockRule(t)
  BY <1>2 DEF LockRule, Kept
<1>4. UretRule(t, "dead")
  BY <1>1, <1>2 DEF UretRule
<1>5. KillRule(t, "dead", c)
  BY <1>1, <1>2 DEF KillRule
<1>6. WakeRule(t, "dead")
  BY <1>1, <1>2 DEF WakeRule
<1>7. ThreadInv(t, "dead", c)'
  BY <1>1 DEF ThreadInv, CallInv, LoopInv, AloneInv, ExitInv, Exits
<1>8. Orderly(t, "dead", c)
  BY <1>1, <1>3, <1>4, <1>5, <1>6, <1>7, Zenon DEF Orderly, Exits
<1>9. TypedRest'
  BY <1>0, <1>2 DEF TypedRest, Typed, Flags
<1> QED BY <1>1, <1>8, <1>9, OrderlyKeeps

LEMMA ExitsKeep ==
    ASSUME IInv, NEW t \in Threads, kern_exit(t) \/ proc_exit(t) \/ ExitFinal(t)
    PROVE  IInv'
<1>0. /\ Typed /\ call[t] \in CallType /\ CallInv(t, pc[t], call[t])
      /\ intr \in [Threads -> SUBSET Intrs] /\ woken \subseteq Threads /\ DOMAIN call = Threads
  BY Own, Zenon DEF Typed
<1>1. NoCall \in CallType
  BY <1>0, Calling, Zenon
<1>2. CASE kern_exit(t)
  <2>1. panic = NULL /\ pc[t] \in {"user", "uret"} /\ UNCHANGED <<flags, stVars, intr>>
    BY <1>2 DEF kern_exit, At
  <2>2. CASE list_length = 1
    <3>1. PICK c : c = [NoCall EXCEPT !.op = "exit_group", !.exit = TRUE]
      OBVIOUS
    <3>2. c \in CallType
      BY <1>0, <3>1, Calling, Zenon
    <3>3. c.op = "exit_group" /\ c.exit
      BY <3>1 DEF NoCall
    <3>4. Moved(t, "exit", c) /\ UNCHANGED <<threads, woken>>
      BY <1>2, <2>2, <3>1 DEF kern_exit, Moved
    <3> QED BY <1>0, <2>1, <3>2, <3>3, <3>4, PlainKeeps
  <2>3. CASE list_length # 1
    <3>1. Moved(t, "dead", NoCall) /\ threads' = threads \ {t} /\ proc_wakeup_st_waiter
      BY <1>2, <2>3 DEF kern_exit, Moved
    <3>2. woken \subseteq woken' /\ woken' \subseteq Threads
      BY <1>0, <3>1, WakesSome
    <3> QED BY <1>1, <2>1, <3>1, <3>2, DeadKeeps
  <2> QED BY <2>2, <2>3
<1>3. CASE proc_exit(t)
  <2>1. /\ panic = NULL /\ pc[t] = "exit"
        /\ UNCHANGED <<threads, stVars, intr, call, woken>>
    BY <1>3, Zenon DEF proc_exit, At
  <2>2. CASE PROC_EXIT \in flags
    <3>1. Moved(t, "dead", call[t]) /\ flags' = flags
      BY <1>0, <1>3, <2>2 DEF proc_exit, Moved, Typed
    <3> QED BY <1>0, <2>1, <3>1, DeadKeeps
  <2>3. CASE PROC_EXIT \notin flags
    <3>1. PICK c : c = call[t]
      OBVIOUS
    <3>2. /\ Moved(t, "exitst", c) /\ flags' = flags \cup {PROC_EXIT}
          /\ UNCHANGED <<st_thread, st_mode, st_waiting>>
      BY <1>0, <1>3, <2>1, <2>3, <3>1 DEF proc_exit, Moved, Typed, stVars
    <3>3. /\ "exitst" \in Pcs /\ "exitst" \notin Uret /\ "exitst" \notin Loop /\ pc[t] \notin Uret
      BY <2>1 DEF Pcs, Uret, Loop
    <3>4. Kept
      BY <3>2, Names DEF Kept
    <3>5. LockRule(t)
      BY <3>2, <3>4 DEF LockRule, Kept
    <3>6. UretRule(t, "exitst")
      BY <3>2, <3>3 DEF UretRule
    <3>7. KillRule(t, "exitst", c)
      BY <3>3, <3>4 DEF KillRule
    <3>8. WakeRule(t, "exitst")
      BY <2>1, <3>2, <3>4 DEF WakeRule
    <3>9. ThreadInv(t, "exitst", c)'
      <4>1. CallInv(t, "exitst", c)'
        BY <1>0, <2>1, <3>1, <3>3, Zenon DEF CallInv
      <4>2. LoopInv(t, "exitst", c)' /\ AloneInv(t, "exitst")' /\ ExitInv(t, "exitst", c)'
        BY <3>2, <3>3 DEF LoopInv, AloneInv, ExitInv
      <4> QED BY <4>1, <4>2 DEF ThreadInv
    <3>10. Orderly(t, "exitst", c)
      BY <2>1, <2>3, <3>2, <3>5, <3>6, <3>7, <3>8, <3>9 DEF Orderly
    <3>11. TypedRest'
      BY <1>0, <2>1, <3>2 DEF TypedRest, Typed, Flags
    <3> QED BY <1>0, <3>1, <3>3, <3>10, <3>11, OrderlyKeeps
  <2> QED BY <2>2, <2>3
<1>4. CASE ExitFinal(t)
  <2>1. /\ panic = NULL /\ pc[t] = "exitfinal" /\ Moved(t, "dead", NoCall)
        /\ threads' = threads \ {t} /\ flags' = flags \cup {PROC_FREE}
        /\ UNCHANGED <<stVars, intr, woken>>
    BY <1>4 DEF ExitFinal, Goto, At, Moved
  <2> QED BY <1>0, <1>1, <2>1, DeadKeeps, Zenon
<1> QED BY <1>2, <1>3, <1>4

\* No thread is created beside one that runs alone.
LEMMA CloneKeeps ==
    ASSUME IInv, NEW t \in Threads, sys_clone(t)
    PROVE  IInv'
<1>0. Typed /\ CallInv(t, pc[t], call[t])
  BY Own
<1>1. PICK u \in Threads : /\ pc[u] = "none" /\ pc' = [pc EXCEPT ![u] = "user"]
                           /\ threads' = threads \cup {u}
  BY Zenon DEF sys_clone
<1>2. /\ pc[t] = "user" /\ panic' = panic
      /\ UNCHANGED <<flags, st_thread, st_mode, st_waiting, intr, call, woken>>
  BY DEF sys_clone, At, stVars
<1>3. t \in threads
  BY <1>0, <1>2 DEF CallInv
<1>4. /\ pc' \in [Threads -> Pcs] /\ pc'[u] = "user"
      /\ \A v \in Threads \ {u} : pc'[v] = pc[v]
  BY <1>0, <1>1 DEF Typed, Pcs
<1>5. Typed'
  BY <1>0, <1>1, <1>2, <1>4 DEF Typed
<1>6. InUret' = InUret
  BY <1>1, <1>4 DEF InUret
<1>7. ASSUME NEW v \in Threads PROVE ThreadInv(v, pc[v], call[v])'
  <2>1. PICK q, d : q = pc'[v] /\ d = call'[v]
    BY Zenon
  <2>2. ThreadInv(v, q, d)'
    <3>1. CASE v = u
      <4>1. q = "user" /\ q \notin Loop /\ q \notin ExitPcs
        BY <1>4, <2>1, <3>1 DEF Loop, ExitPcs
      <4>2. v \in threads'
        BY <1>1, <3>1
      <4> QED BY <4>1, <4>2 DEF ThreadInv, CallInv, LoopInv, AloneInv, ExitInv, Exits
    <3>2. CASE v # u
      <4>1. q = pc[v] /\ d = call[v]
        BY <1>2, <1>4, <2>1, <3>2
      <4>2. CallInv(v, q, d) /\ LoopInv(v, q, d) /\ AloneInv(v, q) /\ ExitInv(v, q, d)
        BY <4>1, Own, Zenon
      <4>3. CallInv(v, q, d)'
        BY <1>1, <4>2, Zenon DEF CallInv
      <4>4. LoopInv(v, q, d)'
        BY <1>2, <4>2 DEF LoopInv, Held
      <4>5. q # "alone" /\ q # "exitfinal"
        BY <1>2, <1>3, <4>1, <4>2 DEF AloneInv, ExitInv, InUret
      <4>6. AloneInv(v, q)' /\ ExitInv(v, q, d)'
        BY <1>2, <4>2, <4>5 DEF AloneInv, ExitInv
      <4> QED BY <4>3, <4>4, <4>6 DEF ThreadInv
    <3> QED BY <3>1, <3>2
  <2> QED BY <2>1, <2>2, Zenon DEF ThreadInv, CallInv, LoopInv, AloneInv, ExitInv
<1>8. OneExits'
  <2>1. \A v \in Threads : Exits(pc'[v], call'[v]) => Exits(pc[v], call[v])
    <3>1. \A v \in Threads : pc'[v] = pc[v] \/ pc'[v] = "user"
      BY <1>4
    <3> QED BY <1>2, <3>1 DEF Exits, ExitPcs, Loop
  <2> QED BY <2>1 DEF OneExits, IInv
<1>9. KillInv'
  <2>1. \A v \in Threads : pc'[v] \in {"exitfix", "exitwake"} => pc[v] = pc'[v]
    BY <1>4
  <2> QED BY <1>2, <1>6, <2>1, Zenon DEF KillInv, IInv
<1>10. NoStrandedThread'
  <2>1. \A v \in Threads : pc[v] = "exitwake" => pc'[v] = "exitwake"
    BY <1>1, <1>4
  <2>2. \A v \in Threads : pc'[v] \in {"stasleep", "stopasleep"} => pc[v] = pc'[v]
    BY <1>4
  <2> QED BY <1>2, <2>1, <2>2 DEF NoStrandedThread, IInv
<1>11. st_waiting' = Cardinality(InUret')
  BY <1>2, <1>6 DEF IInv
<1> QED BY <1>5, <1>7, <1>8, <1>9, <1>10, <1>11 DEF IInv

\* A stop signal, SIGCONT, and no step at all.
LEMMA SignalKeeps ==
    ASSUME IInv, proc_stop \/ proc_cont \/ UNCHANGED vars
    PROVE  IInv'
<1>0. Typed
  BY DEF IInv
<1>1. /\ UNCHANGED <<threads, st_thread, st_mode, st_waiting, pc, call, panic>>
      /\ PROC_ST \in flags' <=> PROC_ST \in flags
      /\ PROC_EXIT \in flags' <=> PROC_EXIT \in flags
  BY Names DEF proc_stop, proc_cont, vars, stVars
<1>2. Typed'
  <2>1. flags' \subseteq Flags
    BY <1>0 DEF Typed, proc_stop, proc_cont, vars, Flags
  <2>2. intr' \in [Threads -> SUBSET Intrs]
    BY <1>0 DEF Typed, proc_stop, proc_cont, vars, Intrs
  <2>3. woken' \subseteq Threads
    BY <1>0 DEF Typed, proc_stop, proc_cont, vars, WakeFlags, FlagSleepers
  <2> QED BY <1>0, <1>1, <2>1, <2>2, <2>3 DEF Typed
<1>3. InUret' = InUret
  BY <1>1 DEF InUret
<1>4. ASSUME NEW v \in Threads PROVE ThreadInv(v, pc[v], call[v])'
  <2>1. PICK q, d : q = pc'[v] /\ d = call'[v]
    OBVIOUS
  <2>2. CallInv(v, q, d) /\ LoopInv(v, q, d) /\ AloneInv(v, q) /\ ExitInv(v, q, d)
    BY <1>1, <2>1, Own, Zenon
  <2>3. CallInv(v, q, d)' /\ LoopInv(v, q, d)' /\ AloneInv(v, q)' /\ ExitInv(v, q, d)'
    <3>1. CallInv(v, q, d)'
      BY <1>1, <2>2, Zenon DEF CallInv
    <3>2. LoopInv(v, q, d)'
      BY <1>1, <2>2 DEF LoopInv, Held
    <3>3. AloneInv(v, q)'
      BY <1>1, <1>3, <2>2 DEF AloneInv, Held
    <3>4. ExitInv(v, q, d)'
      BY <1>1, <2>2 DEF ExitInv
    <3> QED BY <3>1, <3>2, <3>3, <3>4
  <2> QED BY <2>1, <2>3, Zenon DEF ThreadInv, CallInv, LoopInv, AloneInv, ExitInv
<1>5. OneExits' /\ st_waiting' = Cardinality(InUret')
  BY <1>1, <1>3 DEF IInv, OneExits
<1>6. KillInv'
  BY <1>1, <1>3 DEF IInv, KillInv
<1>7. NoStrandedThread'
  <2>1. CASE proc_stop
    BY <1>1, <2>1 DEF IInv, NoStrandedThread, proc_stop
  <2>2. CASE proc_cont
    <3>1. \A v \in Threads \ woken' : pc'[v] \notin {"stasleep", "stopasleep"}
      BY <1>1, <2>2 DEF proc_cont, WakeFlags, FlagSleepers
    <3> QED BY <3>1 DEF NoStrandedThread
  <2>3. CASE UNCHANGED vars
    BY <1>1, <2>3 DEF IInv, NoStrandedThread, vars
  <2> QED BY <2>1, <2>2, <2>3
<1> QED BY <1>2, <1>4, <1>5, <1>6, <1>7 DEF IInv

LEMMA InitInv == StInit => IInv
<1> SUFFICES ASSUME StInit PROVE IInv
  OBVIOUS
<1>1. NoCall \in CallType
  BY DEF NoCall, CallType, Flags, Intrs
<1>2. Typed
  BY <1>1, StAssumption DEF StInit, Typed, Pcs, Modes
<1>3. \A t \in Threads : pc[t] \in {"none", "user"}
  BY DEF StInit
<1>4. InUret = {} /\ panic = NULL
  BY <1>3 DEF InUret, StInit
<1>5. st_waiting = Cardinality(InUret)
  BY <1>4, FS_EmptySet DEF StInit
<1>6. ASSUME NEW t \in Threads PROVE ThreadInv(t, pc[t], call[t])
  <2>1. pc[t] \in {"none", "user"} /\ (pc[t] = "user" => t \in threads)
    BY DEF StInit
  <2>2. pc[t] \notin Loop /\ pc[t] \notin ExitPcs
    BY <2>1 DEF Loop, ExitPcs
  <2> QED BY <2>1, <2>2 DEF ThreadInv, CallInv, LoopInv, AloneInv, ExitInv, Exits
<1>7. OneExits
  BY <1>3 DEF OneExits, Exits, ExitPcs, Loop
<1>8. KillInv /\ NoStrandedThread
  BY <1>3, <1>4 DEF KillInv, NoStrandedThread
<1> QED BY <1>2, <1>5, <1>6, <1>7, <1>8 DEF IInv

LEMMA NextInv == IInv /\ [Next]_vars => IInv'
<1> SUFFICES ASSUME IInv, [Next]_vars PROVE IInv'
  OBVIOUS
<1>1. ASSUME NEW t \in Threads, ThreadStep(t) PROVE IInv'
  <2>1. CASE Sleeps(t)
    BY <2>1, SleepsKeeps
  <2>2. CASE Wakes(t)
    BY <2>2, WakesKeeps
  <2>3. CASE Enters(t) \/ StopAgain(t)
    BY <2>3, EntersKeeps
  <2>4. CASE Asks(t)
    BY <2>4, AsksKeeps
  <2>5. CASE UretProc(t)
    BY <2>5, UretProcKeeps
  <2>6. CASE UretAgain(t)
    BY <2>6, UretAgainKeeps
  <2>7. CASE StAgain(t)
    BY <2>7, StAgainKeeps
  <2>8. CASE StEnd(t)
    BY <2>8, StEndKeeps
  <2>9. CASE kern_exit(t) \/ proc_exit(t) \/ ExitFinal(t)
    BY <2>9, ExitsKeep
  <2>10. CASE ExitFix(t)
    BY <2>10, ExitFixKeeps
  <2>11. CASE ExitWake(t) \/ ExitError(t)
    BY <2>11, ExitWakeKeeps
  <2> QED
    BY <1>1, <2>1, <2>2, <2>3, <2>4, <2>5, <2>6, <2>7, <2>8, <2>9, <2>10, <2>11 DEF ThreadStep
<1>2. ASSUME NEW t \in Threads, sys_clone(t) PROVE IInv'
  BY <1>2, CloneKeeps
<1>3. CASE proc_stop \/ proc_cont \/ UNCHANGED vars
  BY <1>3, SignalKeeps
<1> QED BY <1>1, <1>2, <1>3, Steps
------------------------------------------------------------------------------
\* The inductive invariant holds in every state.
THEOREM StInvariant == Spec => []IInv
BY InitInv, NextInv, PTL DEF Spec

\* The variables keep their types; st_waiting stays between 0 and the number of
\* threads.
THEOREM StTypes == Spec => []StTypeOK
<1>1. IInv => StTypeOK
  <2> SUFFICES ASSUME IInv PROVE StTypeOK
    OBVIOUS
  <2>1. Typed /\ st_waiting = Cardinality(InUret) /\ InUret \subseteq Threads /\ IsFiniteSet(Threads)
    BY StAssumption DEF IInv, InUret
  <2>2. Cardinality(InUret) \in Nat /\ Cardinality(Threads) \in Nat
    BY <2>1, FS_Subset, FS_CardinalityType
  <2>3. Cardinality(InUret) <= Cardinality(Threads)
    BY <2>1, FS_Subset
  <2>4. st_waiting \in 0..Cardinality(Threads)
    BY <2>1, <2>2, <2>3
  <2> QED BY <2>1, <2>4 DEF Typed, StTypeOK, Flags, Modes, Intrs
<1> QED BY <1>1, StInvariant, PTL

\* While execve or vfork runs in single-thread mode, every other thread of the
\* process is in the waiting loop of thread_uret (proc.c:291-294, thread.c:221-243).
THEOREM RunsAlone == Spec => []Alone
<1>1. IInv => Alone
  BY DEF IInv, ThreadInv, AloneInv, Alone
<1> QED BY <1>1, StInvariant, PTL

\* One thread exits the process, and it does the final part as the last one
\* (proc.c:1148-1213).
THEOREM OneExitsLast == Spec => []LastExits
<1>1. IInv => LastExits
  <2> SUFFICES ASSUME IInv PROVE LastExits
    OBVIOUS
  <2>1. \A t \in Threads : pc[t] \in {"exitst", "exitfinal"} => Exits(pc[t], call[t])
    BY DEF Exits, ExitPcs
  <2>2. \A t \in Threads : pc[t] = "exitfinal" => threads = {t}
    BY DEF IInv, ThreadInv, ExitInv
  <2> QED BY <2>1, <2>2 DEF IInv, OneExits, LastExits
<1> QED BY <1>1, StInvariant, PTL

\* Nobody sleeps in thread_uret for a mode that is over (proc.c:246, 317, 439, 1182).
THEOREM NoneStranded == Spec => []NoStrandedThread
<1>1. IInv => NoStrandedThread
  BY DEF IInv
<1> QED BY <1>1, StInvariant, PTL

\* proc->st_waiting is the number of threads in the waiting loop of thread_uret
\* (thread.c:231, 242).
THEOREM CountExact == Spec => []WaitingExact
<1>1. IInv => WaitingExact
  BY DEF IInv, WaitingExact
<1> QED BY <1>1, StInvariant, PTL
==============================================================================
