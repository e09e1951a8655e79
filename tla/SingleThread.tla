----------------------------- MODULE SingleThread -----------------------------
(* The threads of one process: single-thread mode (kern/proc.c), what threads   *)
(* do about it on their way back to user mode (kern/thread.c), and the exit of  *)
(* threads and of the process.  The state is protected by proc->lock, so every  *)
(* section of the code between two releases of that lock is one step; kern_wait *)
(* compares its word and goes to sleep in one step (FutexProofs!KernWakesAll).  *)
EXTENDS Integers, FiniteSets

CONSTANTS
    Threads,    \* every thread the process may ever have
    Start,      \* those it has at first
    Calls,      \* the system calls they make
    Stops,      \* whether stop signals arrive
    NULL

PROC_EXIT == "PROC_EXIT"
PROC_STOP == "PROC_STOP"
PROC_FREE == "PROC_FREE"
PROC_ST == "PROC_ST"
PROC_ST_WAIT == "PROC_ST_WAIT"
PROC_ST_KILL == "PROC_ST_KILL"
THREAD_KILL == "THREAD_KILL"
THREAD_PROC == "THREAD_PROC"

\* The assertions that may fail.
Asserts == {"thread_interrupted", "st_mode", "st_waiting", "st_thread", "uret", "err", "free"}

ASSUME StAssumption ==
    /\ Start \subseteq Threads /\ Start # {} /\ IsFiniteSet(Threads)
    /\ Calls \subseteq {"execve", "vfork", "exit", "exit_group", "clone"}
    /\ Stops \in BOOLEAN
    /\ NULL \notin Asserts /\ NULL \notin Threads

VARIABLES
    threads,        \* proc->threads
    flags,          \* proc->flags
    st_thread, st_mode, st_waiting,
    intr,           \* thread->intr; THREAD_INTERRUPTED is set while it is not empty
    pc,
    call,           \* the locals of a thread
    woken,          \* the sleeping threads that a kern_wake has reached
    panic           \* the assertion that has failed

vars == <<threads, flags, st_thread, st_mode, st_waiting, intr, pc, call, woken, panic>>

\* op is the system call; seen is what the thread has read of the word it waits
\* for; pending are the interrupts it is handling in thread_uret.
NoCall == [op |-> NULL, mode |-> NULL, exit |-> FALSE, seen |-> {}, num |-> 0,
           pending |-> {}]

Pcs == {"none", "user", "ret", "uret", "stwait", "stasleep", "stagain", "stop", "stopasleep",
        "stopagain", "request", "kill", "killasleep", "wait", "waitasleep", "again",
        "alone", "exit", "exitst", "exitfix", "exitwake", "exitretry", "exiterr",
        "exitfinal", "dead"}

StTypeOK ==
    /\ threads \subseteq Threads
    /\ flags \subseteq {PROC_EXIT, PROC_STOP, PROC_FREE, PROC_ST}
    /\ st_thread \in Threads \cup {NULL} /\ st_mode \in {PROC_ST_WAIT, PROC_ST_KILL}
    /\ st_waiting \in 0..Cardinality(Threads)
    /\ intr \in [Threads -> SUBSET {THREAD_KILL, THREAD_PROC}]
    /\ pc \in [Threads -> Pcs]
    /\ woken \subseteq Threads

\* proc_new zeroes the structure, and PROC_ST_KILL is 0.
StInit ==
    /\ threads = Start /\ flags = {}
    /\ st_thread = NULL /\ st_mode = PROC_ST_KILL /\ st_waiting = 0
    /\ intr = [t \in Threads |-> {}]
    /\ pc = [t \in Threads |-> IF t \in Start THEN "user" ELSE "none"]
    /\ call = [t \in Threads |-> NoCall]
    /\ woken = {} /\ panic = NULL

At(t, from) == panic = NULL /\ pc[t] = from
Goto(t, from, to) == At(t, from) /\ pc' = [pc EXCEPT ![t] = to]
list_length == Cardinality(threads)
stVars == <<st_thread, st_mode, st_waiting>>
------------------------------------------------------------------------------
FlagSleepers == {t \in Threads : pc[t] \in {"stasleep", "stopasleep"}}
LengthSleepers == {t \in Threads : pc[t] = "killasleep"}
WaitingSleepers == {t \in Threads : pc[t] = "waitasleep"}

\* Wakes one of the threads.
WakeFlags_one ==
    IF FlagSleepers \subseteq woken THEN UNCHANGED woken
    ELSE \E t \in FlagSleepers \ woken : woken' = woken \cup {t}

\* kern_wake(&proc->flags, INT_MAX, 0)
WakeFlags == woken' = woken \cup FlagSleepers

\* kern_wake with num 1.
WakeOne(S) ==
    IF S \subseteq woken THEN UNCHANGED woken
    ELSE \E t \in S \ woken : woken' = woken \cup {t}

proc_wakeup_st_waiter ==
    IF PROC_ST \notin flags THEN UNCHANGED woken
    ELSE IF st_mode = PROC_ST_KILL THEN WakeOne(LengthSleepers)
    ELSE WakeOne(WaitingSleepers)

\* kern_wait: the thread sleeps if the word is still what it has seen.
kern_wait(t, from, same, asleep, again) ==
    /\ IF same THEN Goto(t, from, asleep) ELSE Goto(t, from, again)
    /\ UNCHANGED <<threads, flags, stVars, intr, call, woken, panic>>

Wakeup(t, from, to) ==
    /\ t \in woken
    /\ Goto(t, from, to)
    /\ woken' = woken \ {t}
    /\ UNCHANGED <<threads, flags, stVars, intr, call, panic>>
------------------------------------------------------------------------------
\* Where a thread goes after proc_singlethread has failed or succeeded.
Failed(t) ==
    CASE call[t].op = "exit_group" /\ call[t].exit -> "exitfix"
      [] call[t].op = "exit_group" /\ ~call[t].exit -> "exiterr"
      [] OTHER -> "ret"
Granted(t, mode) ==
    CASE call[t].op = "exit_group" -> "exitfinal"
      [] mode = PROC_ST_WAIT -> "alone"
      [] OTHER -> "ret"

\* The head of the loops that wait for the other threads, with the flags and the
\* st_thread that the thread finds there.
StLoop(t, mode, fl, st) ==
    IF mode = PROC_ST_KILL
    THEN IF list_length > 1
         THEN /\ pc' = [pc EXCEPT ![t] = "kill"]
              /\ call' = [call EXCEPT ![t].num = list_length, ![t].mode = mode]
              /\ flags' = fl /\ st_thread' = st
         ELSE /\ pc' = [pc EXCEPT ![t] = Granted(t, mode)]
              /\ flags' = fl \ {PROC_ST} /\ st_thread' = NULL
              /\ UNCHANGED call
    ELSE /\ IF st_waiting # list_length - 1
            THEN /\ pc' = [pc EXCEPT ![t] = "wait"]
                 /\ call' = [call EXCEPT ![t].num = st_waiting, ![t].mode = mode]
            ELSE pc' = [pc EXCEPT ![t] = Granted(t, mode)] /\ UNCHANGED call
         /\ flags' = fl /\ st_thread' = st

\* Tells the other threads to wait or to exit.
Interrupt(t, mode) ==
    LET what == IF mode = PROC_ST_WAIT THEN THREAD_PROC ELSE THREAD_KILL
    IN  intr' = [u \in Threads |-> IF u \in threads \ {t} THEN intr[u] \cup {what} ELSE intr[u]]

\* proc_singlethread(mode) up to the first wait.
proc_singlethread(t, from, mode, exit) ==
    /\ At(t, from)
    /\ IF ~exit /\ PROC_EXIT \in flags
       THEN pc' = [pc EXCEPT ![t] = Failed(t)]
            /\ UNCHANGED <<flags, stVars, intr, call, woken, panic>>
       ELSE IF PROC_ST \in flags /\ st_thread # t
       THEN /\ panic' = IF intr[t] = {} THEN "thread_interrupted" ELSE NULL
            /\ pc' = [pc EXCEPT ![t] = Failed(t)]
            /\ UNCHANGED <<flags, stVars, intr, call, woken>>
       ELSE /\ panic' = IF PROC_ST \in flags /\ ~(st_mode = PROC_ST_WAIT /\ mode = PROC_ST_KILL)
                        THEN "st_mode" ELSE IF st_waiting # 0 THEN "st_waiting" ELSE NULL
            /\ st_mode' = mode
            /\ Interrupt(t, mode)
            /\ IF mode = PROC_ST_KILL /\ PROC_ST \in flags THEN WakeFlags ELSE UNCHANGED woken
            /\ StLoop(t, mode, flags \cup {PROC_ST}, t)
            /\ UNCHANGED st_waiting
    /\ UNCHANGED threads

\* The thread has the lock again after a wait: the loop goes on.
StAgain(t) ==
    /\ At(t, "again")
    /\ IF ~call[t].exit /\ PROC_EXIT \in flags
       THEN pc' = [pc EXCEPT ![t] = Failed(t)] /\ UNCHANGED <<flags, st_thread, call>>
       ELSE StLoop(t, call[t].mode, flags, st_thread)
    /\ UNCHANGED <<threads, st_mode, st_waiting, intr, woken, panic>>

StKill(t) == kern_wait(t, "kill", call[t].num = list_length, "killasleep", "again")
StWait(t) == kern_wait(t, "wait", call[t].num = st_waiting, "waitasleep", "again")

\* proc_singlethread(PROC_ST_END)
StEnd(t) ==
    /\ Goto(t, "alone", "ret")
    /\ panic' = IF PROC_ST \in flags /\ st_thread = t THEN NULL ELSE "st_thread"
    /\ flags' = flags \ {PROC_ST}
    /\ st_thread' = NULL
    /\ WakeFlags
    /\ call' = [call EXCEPT ![t] = NoCall]
    /\ UNCHANGED <<threads, st_mode, st_waiting, intr>>
------------------------------------------------------------------------------
\* The system calls that ask for single-thread mode, and those that exit.
Begin(t, op, to) ==
    /\ op \in Calls
    /\ Goto(t, "user", to)
    /\ call' = [call EXCEPT ![t] = [NoCall EXCEPT !.op = op, !.exit = op = "exit_group"]]
    /\ UNCHANGED <<threads, flags, stVars, intr, woken, panic>>

kern_execve(t) == Begin(t, "execve", "request")
sys_vfork(t) == Begin(t, "vfork", "request")
kern_exitproc(t) == Begin(t, "exit_group", "exit")

\* The new program is loaded: execve gets rid of the other threads.
ExecKill(t) == call[t].op = "execve" /\ proc_singlethread(t, "alone", PROC_ST_KILL, FALSE)

sys_clone(t) ==
    /\ "clone" \in Calls /\ At(t, "user")
    /\ \E u \in Threads :
         /\ pc[u] = "none"
         /\ pc' = [pc EXCEPT ![u] = "user"]
         /\ threads' = threads \cup {u}
    /\ UNCHANGED <<flags, stVars, intr, call, woken, panic>>
------------------------------------------------------------------------------
\* An interrupt or a system call without further effect leads to thread_uret.
Trap(t) ==
    /\ intr[t] # {}
    /\ Goto(t, "user", "ret")
    /\ UNCHANGED <<threads, flags, stVars, intr, call, woken, panic>>

\* The loop of thread_uret with sched_pending_intr.
thread_uret(t) ==
    /\ IF intr[t] = {} THEN Goto(t, "ret", "user") ELSE Goto(t, "ret", "uret")
    /\ call' = [call EXCEPT ![t] = [NoCall EXCEPT !.pending = intr[t]]]
    /\ intr' = [intr EXCEPT ![t] = {}]
    /\ UNCHANGED <<threads, flags, stVars, woken, panic>>

\* The second half of thread_handle_intr: wait while the process is stopped.
StopLoop(t) ==
    IF PROC_STOP \in flags
    THEN pc' = [pc EXCEPT ![t] = "stop"] /\ call' = [call EXCEPT ![t].seen = flags]
    ELSE pc' = [pc EXCEPT ![t] = "ret"] /\ call' = [call EXCEPT ![t] = NoCall]

\* THREAD_PROC: the thread waits for the end of single-thread mode.
UretProc(t) ==
    /\ At(t, "uret") /\ THREAD_KILL \notin call[t].pending
    /\ IF PROC_ST \in flags
       THEN /\ panic' = IF st_thread = t \/ st_mode # PROC_ST_WAIT THEN "uret" ELSE NULL
            /\ st_waiting' = st_waiting + 1
            /\ proc_wakeup_st_waiter
            /\ pc' = [pc EXCEPT ![t] = "stwait"]
            /\ call' = [call EXCEPT ![t].seen = flags]
       ELSE StopLoop(t) /\ UNCHANGED <<st_waiting, woken, panic>>
    /\ UNCHANGED <<threads, flags, st_thread, st_mode, intr>>

\* Does not look again whether single-thread mode is over.
UretAgain_once(t) ==
    /\ At(t, "stagain")
    /\ StopLoop(t) /\ st_waiting' = st_waiting - 1
    /\ UNCHANGED <<threads, flags, st_thread, st_mode, intr, woken, panic>>

UretAgain(t) ==
    /\ At(t, "stagain")
    /\ IF PROC_ST \in flags /\ st_mode = PROC_ST_WAIT
       THEN /\ pc' = [pc EXCEPT ![t] = "stwait"]
            /\ call' = [call EXCEPT ![t].seen = flags]
            /\ UNCHANGED st_waiting
       ELSE StopLoop(t) /\ st_waiting' = st_waiting - 1
    /\ UNCHANGED <<threads, flags, st_thread, st_mode, intr, woken, panic>>

StopAgain(t) ==
    /\ At(t, "stopagain")
    /\ StopLoop(t)
    /\ UNCHANGED <<threads, flags, stVars, intr, woken, panic>>

UretWait(t) == kern_wait(t, "stwait", flags = call[t].seen, "stasleep", "stagain")
UretStop(t) == kern_wait(t, "stop", flags = call[t].seen, "stopasleep", "stopagain")

\* A stop signal, and SIGCONT.
proc_stop ==
    /\ Stops /\ panic = NULL /\ PROC_STOP \notin flags /\ PROC_FREE \notin flags
    /\ flags' = flags \cup {PROC_STOP}
    /\ intr' = [u \in Threads |-> IF u \in threads THEN intr[u] \cup {THREAD_PROC} ELSE intr[u]]
    /\ UNCHANGED <<threads, stVars, pc, call, woken, panic>>

proc_cont ==
    /\ panic = NULL /\ PROC_STOP \in flags
    /\ flags' = flags \ {PROC_STOP}
    /\ WakeFlags
    /\ UNCHANGED <<threads, stVars, intr, pc, call, panic>>
------------------------------------------------------------------------------

\* The end of a thread: by sys_exit, or because another thread has killed it.
kern_exit(t) ==
    /\ \/ At(t, "user") /\ "exit" \in Calls
       \/ At(t, "uret") /\ THREAD_KILL \in call[t].pending
    /\ IF list_length = 1
       THEN /\ pc' = [pc EXCEPT ![t] = "exit"]
            /\ call' = [call EXCEPT ![t] = [NoCall EXCEPT !.op = "exit_group", !.exit = TRUE]]
            /\ UNCHANGED <<threads, woken, panic>>
       ELSE /\ pc' = [pc EXCEPT ![t] = "dead"]
            /\ threads' = threads \ {t}
            /\ panic' = IF PROC_ST \in flags /\ st_thread = t THEN "st_thread" ELSE NULL
            /\ proc_wakeup_st_waiter
            /\ call' = [call EXCEPT ![t] = NoCall]
    /\ UNCHANGED <<flags, stVars, intr>>

\* Lets every caller exit the process.
proc_exit_any(t) ==
    /\ Goto(t, "exit", "exitst")
    /\ flags' = flags \cup {PROC_EXIT}
    /\ UNCHANGED <<threads, stVars, intr, call, woken, panic>>

\* proc_exit up to proc_singlethread; whoever comes second goes on to
\* thread_do_exit.
proc_exit(t) ==
    /\ At(t, "exit")
    /\ IF PROC_EXIT \in flags
       THEN /\ panic' = IF intr[t] = {} THEN "thread_interrupted" ELSE NULL
            /\ pc' = [pc EXCEPT ![t] = "dead"] /\ UNCHANGED flags
       ELSE flags' = flags \cup {PROC_EXIT} /\ pc' = [pc EXCEPT ![t] = "exitst"] /\ UNCHANGED panic
    /\ UNCHANGED <<threads, stVars, intr, call, woken>>

\* Another thread has single-thread mode: take it away and ask again.
ExitFix(t) ==
    /\ Goto(t, "exitfix", "exitwake")
    /\ panic' = IF intr[t] = {} THEN "thread_interrupted" ELSE NULL
    /\ proc_wakeup_st_waiter
    /\ flags' = flags \ {PROC_ST} /\ st_thread' = NULL
    /\ call' = [call EXCEPT ![t].mode = st_mode, ![t].exit = FALSE]
    /\ UNCHANGED <<threads, st_mode, st_waiting, intr>>

ExitWake(t) ==
    /\ Goto(t, "exitwake", "exitretry")
    /\ IF call[t].mode = PROC_ST_WAIT THEN WakeFlags ELSE UNCHANGED woken
    /\ UNCHANGED <<threads, flags, stVars, intr, call, panic>>

\* The assertion that the second attempt succeeds.
ExitError(t) ==
    /\ At(t, "exiterr")
    /\ panic' = "err"
    /\ UNCHANGED <<threads, flags, stVars, intr, pc, call, woken>>

\* The rest of proc_exit; the children and the address space are left out.
ExitFinal(t) ==
    /\ Goto(t, "exitfinal", "dead")
    /\ threads' = threads \ {t}
    /\ flags' = flags \cup {PROC_FREE}
    /\ call' = [call EXCEPT ![t] = NoCall]
    /\ panic' = IF PROC_EXIT \in flags /\ st_mode = PROC_ST_KILL THEN NULL ELSE "free"
    /\ UNCHANGED <<stVars, intr, woken>>
------------------------------------------------------------------------------
\* What a thread does inside the kernel once it is there, or must come to do.
Step(t) ==
    \/ Trap(t) \/ thread_uret(t) \/ UretProc(t) \/ UretWait(t) \/ UretAgain(t) \/ UretStop(t) \/ StopAgain(t)
    \/ Wakeup(t, "stasleep", "stagain") \/ Wakeup(t, "stopasleep", "stopagain")
    \/ Wakeup(t, "killasleep", "again") \/ Wakeup(t, "waitasleep", "again")
    \/ proc_singlethread(t, "request", PROC_ST_WAIT, FALSE) \/ StAgain(t) \/ StKill(t) \/ StWait(t)
    \/ StEnd(t) \/ proc_exit(t) \/ proc_singlethread(t, "exitst", PROC_ST_KILL, TRUE)
    \/ ExitFix(t) \/ ExitWake(t) \/ proc_singlethread(t, "exitretry", PROC_ST_KILL, FALSE)
    \/ ExitError(t) \/ ExitFinal(t)
    \/ THREAD_KILL \in call[t].pending /\ kern_exit(t)

Next ==
    \/ \E t \in Threads :
         \/ Step(t)
         \/ kern_execve(t) \/ sys_vfork(t) \/ kern_exitproc(t) \/ sys_clone(t)
         \/ THREAD_KILL \notin call[t].pending /\ kern_exit(t)
         \/ ExecKill(t)
    \/ proc_stop \/ proc_cont

Spec == StInit /\ [][Next]_vars

\* A thread in the kernel runs on, an interrupted one reaches thread_uret, and a
\* stopped process is continued.  No system call is assumed to be made.
Fairness == (\A t \in Threads : WF_vars(Step(t))) /\ WF_vars(proc_cont)
FairSpec == Spec /\ Fairness
------------------------------------------------------------------------------
InUret == {t \in Threads : pc[t] \in {"stwait", "stasleep", "stagain"}}

\* A thread that was granted single-thread mode is the only one that runs: execve
\* swaps the address space under the others (exec.c:473-474).
Alone == \A t \in Threads : pc[t] = "alone" => threads \ {t} \subseteq InUret

\* The counter is the number of threads in the waiting loop, across overlapping
\* and aborted requests (thread.c:231, 242).
WaitingExact == panic = NULL => st_waiting = Cardinality(InUret)

\* One thread gets to exit the process, and it is the last one (proc.c:1148-1149,
\* 1213).
LastExits ==
    /\ \A t, u \in Threads : pc[t] \in {"exitst", "exitfinal"} /\ pc[u] \in {"exitst", "exitfinal"} => t = u
    /\ \A t \in Threads : pc[t] = "exitfinal" => threads = {t}

\* No thread sleeps in thread_uret for a mode that is over (proc.c:246, 317, 439,
\* 1182).
NoStrandedThread ==
    panic = NULL =>
        /\ \A t \in Threads \ woken :
             pc[t] = "stasleep" => \/ PROC_ST \in flags /\ st_mode = PROC_ST_WAIT
                                   \/ \E u \in Threads : pc[u] = "exitwake"
        /\ \A t \in Threads \ woken : pc[t] = "stopasleep" => PROC_STOP \in flags

\* A request for single-thread mode is granted or fails, if the other threads
\* come back to thread_uret and stop signals cease (proc.c:291-294).
RequestEnds ==
    <>[](PROC_STOP \notin flags) => \A t \in Threads :
        pc[t] \in {"wait", "waitasleep", "kill", "killasleep"}
            ~> (pc[t] \in {"alone", "ret", "exitfinal", "exiterr"} \/ panic # NULL)

\* No thread is counted as waiting when single-thread mode is requested (proc.c:289).
NobodyWaiting == panic # "st_waiting"

\* The second request of proc_exit succeeds (proc.c:1186).
RetrySucceeds == panic # "err"

\* A thread that finds itself beaten to it has been interrupted (proc.c:277, 1152, 1162).
BeatenIsInterrupted == panic # "thread_interrupted"

\* THREAD_PROC is only handled in PROC_ST_WAIT mode (thread.c:221-225).
KillNotWait == panic # "uret"

\* An exited thread is not on the list of the process (proc.c:188-196, 360-362).
DeadNotListed == panic = NULL => \A t \in threads : pc[t] # "dead"
==============================================================================
