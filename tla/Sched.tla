-------------------------------- MODULE Sched --------------------------------
(* The scheduler's part of going to sleep and of being woken (kern/sched.c):   *)
(* what sched_set_inactive, sched_wakeup, sched_interrupt and do_schedule do   *)
(* to a thread's state and to its sflags.  Every operator is the body of one   *)
(* section under sched->lock, so it is one step.  A thread never changes its   *)
(* cpu.  Which runnable thread sched_choose takes is left open; the wakeup of  *)
(* an idle cpu is the subject of module CpuSched.                              *)
CONSTANTS
    Threads,    \* the threads, idle threads not among them
    CpuOf       \* thread->sched->cpu, chosen once by sched_add_thread

VARIABLES
    tstate,     \* thread->state
    sflags      \* thread->sflags

schedVars == <<tstate, sflags>>

\* THREAD_SPAWNED and THREAD_EXIT threads do not take part in a sleep.
TStates == {"RUNNING", "RUNNABLE", "SLEEP"}

\* THREAD_RESTARTSYS only chooses between -EINTR and -ERESTART.
SFlags == {"DO_SLEEP", "INTERRUPTABLE", "INTERRUPTED"}

SchedTypeOK ==
    /\ tstate \in [Threads -> TStates]
    /\ sflags \in [Threads -> SUBSET SFlags]

Runnable(cpu, st) == {t \in Threads : CpuOf[t] = cpu /\ st[t] = "RUNNABLE"}

IdleOn(cpu) == \A t \in Threads : CpuOf[t] = cpu => tstate[t] # "RUNNING"

\* The thread states sched_choose may leave behind: nobody runs (the idle
\* thread is chosen) only if nobody can.
sched_choose(cpu, st) ==
    IF Runnable(cpu, st) = {}
    THEN {st}
    ELSE {[st EXCEPT ![n] = "RUNNING"] : n \in Runnable(cpu, st)}

\* A sleep that was announced and not undone takes effect here; otherwise the
\* thread is put back on the run queue.
do_schedule(t) ==
    /\ tstate[t] = "RUNNING"
    /\ LET next == IF "DO_SLEEP" \in sflags[t] THEN "SLEEP" ELSE "RUNNABLE"
       IN tstate' \in sched_choose(CpuOf[t], [tstate EXCEPT ![t] = next])
    /\ sflags' = [sflags EXCEPT ![t] = @ \ {"DO_SLEEP"}]

\* The idle thread of a cpu finds something to run.
idle(cpu) ==
    /\ IdleOn(cpu)
    /\ Runnable(cpu, tstate) # {}
    /\ tstate' \in sched_choose(cpu, tstate)
    /\ UNCHANGED sflags

\* sched_set_inactive: what it makes of t's flags.
sched_set_inactive(t, intr) ==
    IF intr /\ "INTERRUPTED" \in sflags[t]
    THEN sflags
    ELSE [sflags EXCEPT ![t] = @ \cup {"DO_SLEEP"}
                                 \cup (IF intr THEN {"INTERRUPTABLE"} ELSE {})]

\* sched_wakeup_thread of every thread of W: a sleeping thread becomes
\* runnable, a running one is kept from going to sleep.
WokenState(W) ==
    [t \in Threads |-> IF t \in W /\ tstate[t] = "SLEEP"
                       THEN "RUNNABLE" ELSE tstate[t]]

\* Leaves a running thread's announced sleep standing.
WokenFlags_sleep_kept(W) ==
    [t \in Threads |->
        IF t \in W THEN sflags[t] \ {"INTERRUPTABLE"} ELSE sflags[t]]

WokenFlags(W) ==
    [t \in Threads |->
        IF t \notin W THEN sflags[t]
        ELSE IF tstate[t] = "RUNNING"
             THEN sflags[t] \ {"DO_SLEEP", "INTERRUPTABLE"}
             ELSE sflags[t] \ {"INTERRUPTABLE"}]

sched_wakeup(W) ==
    /\ tstate' = WokenState(W)
    /\ sflags' = WokenFlags(W)

\* Wakes a thread that did not say it may be interrupted.
sched_interrupt_any(t) ==
    LET W == IF "INTERRUPTED" \notin sflags[t] THEN {t} ELSE {}
    IN /\ tstate' = WokenState(W)
       /\ sflags' = [WokenFlags(W) EXCEPT ![t] = @ \cup {"INTERRUPTED"}]

\* A software interrupt (signal, kill, stop): it wakes only a thread that said
\* it may be interrupted, and only the first one of several does.
sched_interrupt(t) ==
    LET W == IF "INTERRUPTED" \notin sflags[t] /\ "INTERRUPTABLE" \in sflags[t]
             THEN {t} ELSE {}
    IN /\ tstate' = WokenState(W)
       /\ sflags' = [WokenFlags(W) EXCEPT ![t] = @ \cup {"INTERRUPTED"}]

\* thread_uret picks the pending software interrupts up.
sched_pending_intr(t) ==
    /\ "INTERRUPTED" \in sflags[t]
    /\ sflags' = [sflags EXCEPT ![t] = @ \ {"INTERRUPTED"}]
    /\ UNCHANGED tstate

sched_interrupted(t) == "INTERRUPTED" \in sflags[t]
==============================================================================
