------------------------------ MODULE CpuSched -------------------------------
(* One cpu seen from its scheduler (kern/sched.c, kern/mp.c) and its idle loop *)
(* (arch/i386/cpu/cpu.c): context switches, SCHED_NEEDED, the scheduler tick,  *)
(* interprocessor interrupts, thread exit, and other cpus that wake threads of *)
(* this one.  The run queue is a set: which of its threads sched_choose takes  *)
(* is left open.  Threads never change their cpu.                              *)
CONSTANTS
    Threads,
    async,      \* the thread that frees threads that have exited
    idle, NULL

ASSUME ThreadAssumption == async \in Threads /\ {idle, NULL} \cap Threads = {}

VARIABLES
    ready,          \* the threads on the run queue
    asleep,
    dead,           \* the threads that have exited and have not been freed
    cur,            \* sched->thread
    ctx,            \* what a thread returns to when it is switched to
    pc,             \* "run": interrupts are on; else inside do_schedule
    idle_at, idle_res,  \* where the idle loop is, and what sched_has_runnable said
    timer_on, needed, exit_thread,
    ipi_todo,       \* wakers on other cpus that are going to send an ipi
    ipi,            \* ipi_pending of this cpu
    quiet           \* history: the run queue was empty when the cpu last halted

vars == <<ready, asleep, dead, cur, ctx, pc, idle_at, idle_res, timer_on, needed,
          exit_thread, ipi_todo, ipi, quiet>>

CpuTypeOK ==
    /\ ready \subseteq Threads /\ asleep \subseteq Threads /\ dead \subseteq Threads
    /\ cur \in Threads \cup {idle}
    /\ ctx \in [Threads \cup {idle} -> {"new", "sched", "intr"}]
    /\ pc \in {"run", "picked", "resume", "loop"}
    /\ idle_at \in {"check", "res", "tohlt", "hlt"}
    /\ {idle_res, timer_on, needed, ipi, quiet} \subseteq BOOLEAN
    /\ exit_thread \in Threads \cup {NULL}
    /\ ipi_todo \subseteq Threads

CpuInit ==
    /\ ready = {} /\ asleep = {async} /\ dead = {}
    /\ cur = idle
    /\ ctx = [t \in Threads \cup {idle} |-> "new"]
    /\ pc = "run"
    /\ idle_at = "check" /\ idle_res = FALSE
    /\ timer_on = FALSE /\ needed = FALSE /\ ipi = FALSE /\ quiet = FALSE
    /\ exit_thread = NULL
    /\ ipi_todo = {}

Spawned == ready \cup asleep \cup dead \cup {cur}
------------------------------------------------------------------------------

\* The section of do_schedule under sched->lock.  The last thread is put on the
\* queue, unless it goes to sleep, exits or is the idle thread; kind is the way
\* do_schedule was called, and so the way the last thread comes back.
DoSchedule(kind, queue) ==
    LET r == queue \ {idle} IN
    /\ \/ \E t \in r : cur' = t /\ ready' = r \ {t}
       \/ r = {} /\ cur' = idle /\ ready' = r
    /\ ctx' = [ctx EXCEPT ![cur] = kind]
    /\ pc' = "picked"

\* The tick is only ever started, by the first thread to run.
TimerSet_not_started ==
    /\ pc = "picked"
    /\ timer_on' = (timer_on /\ cur # idle)
    /\ pc' = "resume"
    /\ UNCHANGED <<ready, asleep, dead, cur, ctx, idle_at, idle_res, needed,
                   exit_thread,
                   ipi_todo, ipi, quiet>>

\* After the lock has been dropped: the tick goes off for the idle thread and on
\* for any other.
TimerSet ==
    /\ pc = "picked"
    /\ timer_on' = (cur # idle)
    /\ pc' = "resume"
    /\ UNCHANGED <<ready, asleep, dead, cur, ctx, idle_at, idle_res, needed,
                   exit_thread,
                   ipi_todo, ipi, quiet>>

\* sched_exit_free: the thread that has exited is handed to the async thread,
\* which runs on this cpu.
sched_exit_free ==
    /\ exit_thread' = NULL
    /\ IF exit_thread # NULL /\ async \in asleep
       THEN /\ asleep' = asleep \ {async}
            /\ ready' = ready \cup {async}
            /\ needed' = (needed \/ ~timer_on)
       ELSE UNCHANGED <<asleep, ready, needed>>

\* Leaves the exited thread to the next switch.
Resume_no_free ==
    /\ pc = "resume"
    /\ pc' = IF ctx[cur] = "intr" THEN "loop" ELSE "run"
    /\ UNCHANGED <<ready, asleep, needed, exit_thread, dead, cur, ctx, idle_at,
                   idle_res,
                   timer_on, ipi_todo, ipi, quiet>>

\* The thread switched to goes on: a new thread through sched_postsched, others
\* behind do_schedule in schedule() or in sched_intr_preempt.
Resume ==
    /\ pc = "resume"
    /\ sched_exit_free
    /\ pc' = IF ctx[cur] = "intr" THEN "loop" ELSE "run"
    /\ UNCHANGED <<dead, cur, ctx, idle_at, idle_res, timer_on, ipi_todo, ipi, quiet>>

\* while(resched_needed(sched)) in sched_intr_preempt; interrupts are on again
\* after the return from the interrupt.
Loop ==
    /\ pc = "loop"
    /\ needed' = FALSE
    /\ IF needed
       THEN DoSchedule("intr", ready \cup {cur})
       ELSE pc' = "run" /\ UNCHANGED <<ready, cur, ctx>>
    /\ UNCHANGED <<asleep, dead, idle_at, idle_res, timer_on, exit_thread, ipi_todo,
                   ipi, quiet>>
------------------------------------------------------------------------------
\* An interrupt whose handler makes the queue q and asks for a schedule if ask.
\* It ends in sched_intr_preempt, and it ends a hlt.
Intr(q, ask) ==
    /\ pc = "run"
    /\ IF needed \/ ask
       THEN needed' = FALSE /\ DoSchedule("intr", q \cup {cur})
       ELSE ready' = q /\ UNCHANGED <<needed, cur, ctx, pc>>
    /\ idle_at' = IF cur = idle /\ idle_at = "hlt" THEN "check" ELSE idle_at
    /\ UNCHANGED <<dead, idle_res, timer_on, exit_thread, ipi_todo, quiet>>

sched_tick == timer_on /\ Intr(ready, TRUE) /\ UNCHANGED <<asleep, ipi>>

ipi_bitmap_handler == ipi /\ ipi' = FALSE /\ Intr(ready, TRUE) /\ UNCHANGED asleep

\* A device interrupt that wakes a thread of this cpu, with SCHED_INTR if urgent.
DeviceWakeup(t, urgent) ==
    /\ t \in asleep
    /\ asleep' = asleep \ {t}
    /\ Intr(ready \cup {t}, urgent \/ ~timer_on)
    /\ UNCHANGED ipi

\* Any other interrupt, like the periodic one of the boot cpu.
OtherIntr == Intr(ready, FALSE) /\ UNCHANGED <<asleep, ipi>>
------------------------------------------------------------------------------
\* The running thread goes to sleep; the async thread only without work to do.
Sleep ==
    /\ pc = "run" /\ cur # idle
    /\ cur = async => dead = {}
    /\ asleep' = asleep \cup {cur}
    /\ DoSchedule("sched", ready)
    /\ UNCHANGED <<dead, idle_at, idle_res, timer_on, needed, exit_thread, ipi_todo,
                   ipi, quiet>>

\* critical_leave of a running thread.
critical_leave ==
    /\ pc = "run" /\ cur # idle /\ needed
    /\ needed' = FALSE
    /\ DoSchedule("sched", ready \cup {cur})
    /\ UNCHANGED <<asleep, dead, idle_at, idle_res, timer_on, exit_thread, ipi_todo,
                   ipi, quiet>>

\* The running thread wakes another one of its cpu.
LocalWakeup(t, urgent) ==
    /\ pc = "run" /\ cur # idle
    /\ t \in asleep
    /\ asleep' = asleep \ {t}
    /\ ready' = ready \cup {t}
    /\ needed' = (needed \/ urgent \/ ~timer_on)
    /\ UNCHANGED <<dead, cur, ctx, pc, idle_at, idle_res, timer_on, exit_thread,
                   ipi_todo, ipi, quiet>>

\* sched_add_thread of the running thread, for its own cpu.
LocalSpawn(t) ==
    /\ pc = "run" /\ cur # idle
    /\ t \notin Spawned
    /\ ready' = ready \cup {t}
    /\ ctx' = [ctx EXCEPT ![t] = "new"]
    /\ timer_on' = TRUE
    /\ UNCHANGED <<asleep, dead, cur, pc, idle_at, idle_res, needed, exit_thread,
                   ipi_todo, ipi, quiet>>

thread_exit ==
    /\ pc = "run" /\ cur \notin {idle, async}
    /\ exit_thread' = cur
    /\ dead' = dead \cup {cur}
    /\ DoSchedule("sched", ready)
    /\ UNCHANGED <<asleep, idle_at, idle_res, timer_on, needed, ipi_todo, ipi, quiet>>

\* The async thread frees a thread whose stack is not in use any more.
thread_free ==
    /\ pc = "run" /\ cur = async
    /\ \E t \in dead : dead' = dead \ {t}
    /\ UNCHANGED <<ready, asleep, cur, ctx, pc, idle_at, idle_res, timer_on, needed,
                   exit_thread, ipi_todo, ipi, quiet>>

\* arch_cpu_idle: sched_has_runnable leaves a critical section of its own.
IdleCheck ==
    /\ pc = "run" /\ cur = idle /\ idle_at = "check"
    /\ idle_res' = (ready # {})
    /\ idle_at' = "res"
    /\ needed' = FALSE
    /\ IF needed
       THEN DoSchedule("sched", ready)
       ELSE UNCHANGED <<ready, cur, ctx, pc>>
    /\ UNCHANGED <<asleep, dead, timer_on, exit_thread, ipi_todo, ipi, quiet>>

IdleResult ==
    /\ pc = "run" /\ cur = idle /\ idle_at = "res"
    /\ idle_at' = "tohlt"
    /\ IF idle_res
       THEN DoSchedule("sched", ready)
       ELSE UNCHANGED <<ready, cur, ctx, pc>>
    /\ UNCHANGED <<asleep, dead, idle_res, timer_on, needed, exit_thread, ipi_todo,
                   ipi, quiet>>

hlt ==
    /\ pc = "run" /\ cur = idle /\ idle_at = "tohlt"
    /\ idle_at' = "hlt"
    /\ quiet' = (ready = {})
    /\ UNCHANGED <<ready, asleep, dead, cur, ctx, pc, idle_res, timer_on, needed,
                   exit_thread, ipi_todo, ipi>>
------------------------------------------------------------------------------
\* Sends an ipi only for an urgent thread, as if the tick were always on.
RemoteWakeup_urgent_only(t, urgent) ==
    /\ t \in asleep
    /\ asleep' = asleep \ {t}
    /\ ready' = ready \cup {t}
    /\ ipi_todo' = IF urgent THEN ipi_todo \cup {t} ELSE ipi_todo
    /\ UNCHANGED <<dead, cur, ctx, pc, idle_at, idle_res, timer_on, needed,
                   exit_thread, ipi,
                   quiet>>

\* Another cpu wakes a thread of this one; it reads timer_on under sched->lock.
RemoteWakeup(t, urgent) ==
    /\ t \in asleep
    /\ asleep' = asleep \ {t}
    /\ ready' = ready \cup {t}
    /\ ipi_todo' = IF urgent \/ ~timer_on THEN ipi_todo \cup {t} ELSE ipi_todo
    /\ UNCHANGED <<dead, cur, ctx, pc, idle_at, idle_res, timer_on, needed,
                   exit_thread, ipi, quiet>>

\* sched_add_thread on another cpu, of a thread that is new or was freed.
RemoteSpawn(t) ==
    /\ t \notin Spawned
    /\ ready' = ready \cup {t}
    /\ ctx' = [ctx EXCEPT ![t] = "new"]
    /\ ipi_todo' = IF ~timer_on THEN ipi_todo \cup {t} ELSE ipi_todo
    /\ UNCHANGED <<asleep, dead, cur, pc, idle_at, idle_res, timer_on, needed,
                   exit_thread, ipi, quiet>>

ipi_preempt(t) ==
    /\ t \in ipi_todo
    /\ ipi_todo' = ipi_todo \ {t}
    /\ ipi' = TRUE
    /\ UNCHANGED <<ready, asleep, dead, cur, ctx, pc, idle_at, idle_res, timer_on,
                   needed,
                   exit_thread, quiet>>
------------------------------------------------------------------------------
\* What the cpu does of its own accord.
Cpu ==
    \/ TimerSet \/ Resume \/ Loop \/ IdleCheck \/ IdleResult \/ hlt
    \/ critical_leave \/ thread_free

Next ==
    \/ Cpu \/ Sleep \/ thread_exit
    \/ sched_tick \/ ipi_bitmap_handler \/ OtherIntr
    \/ \E t \in Threads : \/ \E urgent \in BOOLEAN : DeviceWakeup(t, urgent)
                                                    \/ RemoteWakeup(t, urgent)
                                                    \/ LocalWakeup(t, urgent)
                          \/ RemoteSpawn(t) \/ LocalSpawn(t) \/ ipi_preempt(t)

Spec == CpuInit /\ [][Next]_vars

\* A cpu other than the boot cpu, whose device may stay silent: the cpu runs, a
\* waker sends the ipi it has decided on, and an ipi that is pending is taken.
FairSpec ==
    /\ Spec
    /\ WF_vars(Cpu)
    /\ WF_vars(ipi_bitmap_handler)
    /\ \A t \in Threads : WF_vars(ipi_preempt(t))
------------------------------------------------------------------------------
\* The assertion of sched.c:560: when a thread exits, the one that exited before
\* it has been handed over for freeing, whatever it was that ran in between.
ExitSlotFree == pc = "run" => exit_thread = NULL

\* While a thread runs, its cpu has the scheduler tick on, although timer_on is
\* set and cleared outside of the lock: no thread keeps the cpu for itself.
RunningHasTick == pc = "run" /\ cur # idle => timer_on

Halted == pc = "run" /\ cur = idle /\ idle_at = "hlt"

\* "Don't hlt if a thread would be ready." (arch/i386/cpu/cpu.c:145): a cpu that
\* has halted with a thread on its queue is going to be told by an ipi.
HaltedOnlyIfNothingReady == Halted /\ ready # {} => ipi \/ ipi_todo # {}

\* Whoever puts a thread on the queue of a halted cpu finds timer_on clear, and
\* so has sent or is going to send an ipi (sched.c:313, 377).
HaltIsTold == Halted /\ quiet /\ ready # {} => ipi \/ ipi_todo # {}

\* A cpu that had nothing to do when it halted leaves the idle thread for a thread
\* that gets ready later, woken or spawned by another cpu, with nothing but the
\* ipi to end the hlt: no wakeup goes by timer_on (sched.c:377) unnoticed.
HaltEnds == (Halted /\ quiet /\ ready # {}) ~> cur # idle
==============================================================================
