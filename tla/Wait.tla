-------------------------------- MODULE Wait ---------------------------------
(* Wait queues (kern/wait.c) on top of the scheduler: wait_prep, wait_sleep    *)
(* with its optional timeout, wait_abort and the wakeups.  A thread may be     *)
(* prepared on several queues at once: it may sleep on another queue between   *)
(* the wait_prep and the wait_sleep of the first (the async thread takes       *)
(* mutexes there).  Every section under wq->lock is one step.                  *)
EXTENDS Sched, Lists

CONSTANT Queues

ASSUME CpuAssumption == DOMAIN CpuOf = Threads
ASSUME QueueAssumption == Queues # {}

VARIABLES
    waiters,    \* wq->waiters of every queue: the threads, in order
    wflags,     \* WAIT_DONE and WAIT_SLEEP of the waiter of a thread on a queue
    prepared,   \* the queues a thread's waiters are in use for
    call,       \* the wait_sleep_timeout call a thread is in
    timer       \* the on-stack timer of that call; "junk" until timer_init

waitVars == <<waiters, wflags, prepared, call, timer>>
vars == <<schedVars, waitVars>>

\* Where a thread is in wait_sleep_timeout; "none" is outside of it.
WaitPcs == {"none", "enter", "suspend", "arm", "schedule", "rem", "unqueue",
            "check", "abort"}

Calls == [pc : WaitPcs, q : Queues, intr : BOOLEAN, tmo : BOOLEAN, late : BOOLEAN]

NoCall == [pc |-> "none", q |-> CHOOSE q \in Queues : TRUE,
           intr |-> FALSE, tmo |-> FALSE, late |-> FALSE]

WaitTypeOK ==
    /\ SchedTypeOK
    /\ waiters \in [Queues -> Seq(Threads)]
    /\ wflags \in [Threads -> [Queues -> SUBSET {"DONE", "SLEEP"}]]
    /\ prepared \in [Threads -> SUBSET Queues]
    /\ call \in [Threads -> Calls]
    /\ timer \in [Threads -> {"off", "junk", "queued", "done"}]

WaitInit ==
    /\ tstate = [t \in Threads |-> "RUNNABLE"]
    /\ sflags = [t \in Threads |-> {}]
    /\ waiters = [q \in Queues |-> <<>>]
    /\ wflags = [t \in Threads |-> [q \in Queues |-> {}]]
    /\ prepared = [t \in Threads |-> {}]
    /\ call = [t \in Threads |-> NoCall]
    /\ timer = [t \in Threads |-> "off"]

\* The waiter of t on q goes out of scope.
Unprepare(t, q) ==
    /\ prepared' = [prepared EXCEPT ![t] = @ \ {q}]
    /\ wflags' = [wflags EXCEPT ![t][q] = {}]

\* wait_sleep_timeout returns.
Return(t) ==
    /\ call' = [call EXCEPT ![t] = NoCall]
    /\ Unprepare(t, call[t].q)

Goto(t, pc) == call' = [call EXCEPT ![t].pc = pc]

At(t, pc) == tstate[t] = "RUNNING" /\ call[t].pc = pc
------------------------------------------------------------------------------
wait_prep(t, q) ==
    /\ At(t, "none")
    /\ q \notin prepared[t]
    /\ prepared' = [prepared EXCEPT ![t] = @ \cup {q}]
    /\ wflags' = [wflags EXCEPT ![t][q] = {}]
    /\ waiters' = [waiters EXCEPT ![q] = list_append(@, t)]
    /\ UNCHANGED <<schedVars, call, timer>>

\* Returns without taking the waiter off the queue.
AbortedList_left_on(t, q) == waiters

\* The list after the body of wait_abort: a waiter that was woken is off it.
AbortedList(t, q) == IF "DONE" \in wflags[t][q]
                     THEN waiters
                     ELSE [waiters EXCEPT ![q] = list_remove(@, t)]

wait_abort(t, q) ==
    /\ At(t, "none")
    /\ q \in prepared[t]
    /\ waiters' = AbortedList(t, q)
    /\ Unprepare(t, q)
    /\ UNCHANGED <<schedVars, call, timer>>

wait_sleep(t, q, intr, tmo) ==
    /\ At(t, "none")
    /\ q \in prepared[t]
    /\ tmo => intr
    /\ call' = [call EXCEPT ![t] = [pc |-> "enter", q |-> q, intr |-> intr,
                                    tmo |-> tmo, late |-> FALSE]]
    /\ timer' = [timer EXCEPT ![t] = IF tmo THEN "junk" ELSE "off"]
    /\ UNCHANGED <<schedVars, waiters, wflags, prepared>>

\* An interrupt ends waits that do not allow it.
Enter_any(t) ==
    /\ At(t, "enter")
    /\ IF sched_interrupted(t)
       THEN Goto(t, "abort") /\ UNCHANGED timer
       ELSE Goto(t, "suspend") /\ timer' = [timer EXCEPT ![t] = "off"]
    /\ UNCHANGED <<schedVars, waiters, wflags, prepared>>

\* "Don't even try to sleep, if the thread was interrupted."  Otherwise a timed
\* wait initialises its timer.
Enter(t) ==
    /\ At(t, "enter")
    /\ IF call[t].intr /\ sched_interrupted(t)
       THEN Goto(t, "abort") /\ UNCHANGED timer
       ELSE Goto(t, "suspend") /\ timer' = [timer EXCEPT ![t] = "off"]
    /\ UNCHANGED <<schedVars, waiters, wflags, prepared>>

\* The section under wq->lock that decides to sleep.
Suspend(t) ==
    LET q == call[t].q IN
    /\ At(t, "suspend")
    /\ IF "DONE" \in wflags[t][q]
       THEN Return(t) /\ UNCHANGED sflags
       ELSE /\ wflags' = [wflags EXCEPT ![t][q] = @ \cup {"SLEEP"}]
            /\ sflags' = sched_set_inactive(t, call[t].intr)
            /\ Goto(t, IF call[t].tmo THEN "arm" ELSE "schedule")
            /\ UNCHANGED prepared
    /\ UNCHANGED <<tstate, waiters, timer>>

\* timer_start, still inside the critical section.
Arm(t) ==
    /\ At(t, "arm")
    /\ timer' = [timer EXCEPT ![t] = "queued"]
    /\ Goto(t, "schedule")
    /\ UNCHANGED <<schedVars, waiters, wflags, prepared>>

Schedule(t) ==
    /\ call[t].pc = "schedule"
    /\ do_schedule(t)
    /\ Goto(t, IF call[t].tmo THEN "rem" ELSE "check")
    /\ UNCHANGED <<waiters, wflags, prepared, timer>>

\* timer_stop reads the clock before it takes the lock of the timer queue; the
\* deadline of a timer that has run has passed.
TimerRem(t) ==
    /\ At(t, "rem")
    /\ \E late \in BOOLEAN :
        /\ timer[t] = "done" => late
        /\ call' = [call EXCEPT ![t] = [@ EXCEPT !.late = late, !.pc = "unqueue"]]
    /\ UNCHANGED <<schedVars, waiters, wflags, prepared, timer>>

TimerUnqueue(t) ==
    /\ At(t, "unqueue")
    /\ timer' = [timer EXCEPT ![t] = "off"]
    /\ Goto(t, IF call[t].late THEN "abort" ELSE "check")
    /\ UNCHANGED <<schedVars, waiters, wflags, prepared>>

\* Goes around again after an interrupt.
Check_again(t) ==
    /\ At(t, "check")
    /\ IF call[t].intr /\ sched_interrupted(t)
       THEN Goto(t, "schedule") /\ UNCHANGED <<wflags, prepared>>
       ELSE Return(t)
    /\ UNCHANGED <<schedVars, waiters, timer>>

Check(t) ==
    /\ At(t, "check")
    /\ IF call[t].intr /\ sched_interrupted(t)
       THEN Goto(t, "abort") /\ UNCHANGED <<wflags, prepared>>
       ELSE Return(t)
    /\ UNCHANGED <<schedVars, waiters, timer>>

Abort(t) ==
    /\ At(t, "abort")
    /\ waiters' = AbortedList(t, call[t].q)
    /\ Return(t)
    /\ timer' = [timer EXCEPT ![t] = "off"]
    /\ UNCHANGED schedVars

\* One statement of the wait_sleep_timeout call thread t is in.
SleepStep(t) ==
    \/ Enter(t) \/ Suspend(t) \/ Arm(t) \/ Schedule(t)
    \/ TimerRem(t) \/ TimerUnqueue(t) \/ Check(t) \/ Abort(t)
------------------------------------------------------------------------------
\* wakeup_waiter of the waiters of the threads W, which leaves rest on the list
\* of q: a thread that has not reached wait_sleep is marked and not woken.
wakeup_waiter(q, W, rest) ==
    /\ waiters' = [waiters EXCEPT ![q] = rest]
    /\ wflags' = [t \in Threads |->
                    IF t \in W THEN [wflags[t] EXCEPT ![q] = @ \cup {"DONE"}]
                    ELSE wflags[t]]
    /\ sched_wakeup({t \in W : "SLEEP" \in wflags[t][q]})
    /\ UNCHANGED <<prepared, call, timer>>

\* From any context, interrupt handlers included: the first n waiters.
wakeup_num(q, n) ==
    /\ n \in 1..Len(waiters[q])
    /\ wakeup_waiter(q, {waiters[q][i] : i \in 1..n},
                     SubSeq(waiters[q], n + 1, Len(waiters[q])))

wakeup(q) == wakeup_num(q, Len(waiters[q]))

\* The iteration of waitq_foreach in kern_wake that finds a waiter of its address,
\* wherever that is on the list of a queue shared by several addresses.
wakeup_matching(q, t) ==
    /\ t \in Range(waiters[q])
    /\ wakeup_waiter(q, {t}, list_remove(waiters[q], t))

\* timer_intr on the cpu the timer was started on calls wait_timeout.
timer_intr(t) ==
    /\ timer[t] = "queued"
    /\ \A u \in Threads : CpuOf[u] = CpuOf[t] => ~At(u, "arm")
    /\ sched_wakeup({t})
    /\ timer' = [timer EXCEPT ![t] = "done"]
    /\ UNCHANGED <<waiters, wflags, prepared, call>>

\* A tick or a device interrupt takes the cpu away from the running thread.
Preempt(t) ==
    /\ call[t].pc # "arm"
    /\ do_schedule(t)
    /\ UNCHANGED waitVars

Interrupt(t) == sched_interrupt(t) /\ UNCHANGED waitVars

Uret(t) == At(t, "none") /\ prepared[t] = {} /\ sched_pending_intr(t)
           /\ UNCHANGED waitVars

Idle(cpu) == idle(cpu) /\ UNCHANGED waitVars

\* What happens to a thread that it does not do itself.
Kernel ==
    \/ \E t \in Threads : timer_intr(t) \/ Preempt(t) \/ Interrupt(t) \/ Uret(t)
    \/ \E t \in Threads : Idle(CpuOf[t])

Client(t) ==
    \E q \in Queues :
        \/ wait_prep(t, q)
        \/ wait_abort(t, q)
        \/ \E intr, tmo \in BOOLEAN : wait_sleep(t, q, intr, tmo)

Next ==
    \/ \E t \in Threads : Client(t) \/ SleepStep(t)
    \/ \E q \in Queues : \/ wakeup_num(q, 1) \/ wakeup(q)
                         \/ \E t \in Threads : wakeup_matching(q, t)
    \/ Kernel

Spec == WaitInit /\ [][Next]_vars

\* do_schedule on the cpu of t chooses t.
Dispatch(t) ==
    /\ tstate[t] = "RUNNABLE"
    /\ \/ \E u \in Threads : Schedule(u) \/ Preempt(u)
       \/ Idle(CpuOf[t])
    /\ tstate'[t] = "RUNNING"

\* Every thread that is runnable again and again is chosen (the tick preempts a
\* running thread, and an idle cpu leaves hlt at its next interrupt), a running
\* thread gets its statements done in spite of preemptions, and the interrupt of
\* an expired timer stays pending while interrupts are off.
Fairness ==
    \A t \in Threads : /\ SF_vars(SleepStep(t))
                       /\ SF_vars(Dispatch(t))
                       /\ SF_vars(timer_intr(t))

FairSpec == Spec /\ Fairness
------------------------------------------------------------------------------
\* The state of the abstract wait queues: the waiters that are on the list, those
\* a wakeup has taken off, and the threads in a wait that only a wakeup can end.
Waiting(q) == {t \in Threads : q \in prepared[t] /\ "DONE" \notin wflags[t][q]}

Woken(q) == {t \in Threads : q \in prepared[t] /\ "DONE" \in wflags[t][q]}

Bound(q) == {t \in Threads : call[t].pc # "none" /\ call[t].q = q /\ ~call[t].intr}

WQ == INSTANCE WaitQueue WITH pending <- [q \in Queues |-> Waiting(q)],
                              woken <- [q \in Queues |-> Woken(q)],
                              bound <- [q \in Queues |-> Bound(q)]

\* Wait queues behave as module WaitQueue says whatever the scheduler does: a
\* wait without interrupts and timeout returns after a wakeup of its own waiter
\* and never before one, and no wakeup is spent on a waiter that has left
\* (wait.c:58, 69, 81 and 200).
ImplementsWaitQueue == WQ!WqSpec

\* A sleeping thread is one that still has to be woken: it sleeps inside a wait,
\* its waiter has not been taken off the queue by a wakeup, no interrupt that
\* may end the wait has arrived, and a timeout is still to come.  The wakeup may
\* have run at any point between wait_prep and the context switch (wait.c:120,
\* sched.c:335, 353 and 512).
NoStrandedSleeper ==
    \A t \in Threads : tstate[t] = "SLEEP" =>
        /\ call[t].pc \in {"schedule", "rem", "check"}
        /\ "DONE" \notin wflags[t][call[t].q]
        /\ call[t].intr => "INTERRUPTED" \notin sflags[t]
        /\ call[t].tmo => timer[t] = "queued"

\* The assertion of wait.c:182: a wait that ends neither by an interrupt nor by
\* its timeout ends because of a wakeup on its own queue, never because of one
\* on another queue the thread is prepared on.
SleepEndsByWakeup ==
    \A t \in Threads :
        At(t, "check") /\ ~(call[t].intr /\ sched_interrupted(t))
            => "DONE" \in wflags[t][call[t].q]

\* The assertions of sched.c:340 and sched.c:463.
InterruptableOnlyInSleep ==
    \A t \in Threads : "INTERRUPTABLE" \in sflags[t] =>
        /\ ~At(t, "suspend")
        /\ sched_interrupted(t) => ~At(t, "enter") /\ ~At(t, "check")

\* The list of a queue holds exactly the waiters that are prepared and not yet
\* woken, each once: list_remove in wait_abort and in wakeup_waiter always finds
\* its node, and no node on the list belongs to a stack frame that is gone.
WaitersExact ==
    \A q \in Queues :
        /\ Range(waiters[q]) = {t \in Threads : q \in prepared[t]
                                               /\ "DONE" \notin wflags[t][q]}
        /\ IsInjective(waiters[q])

\* The timer of a wait, which lives on the stack of wait_sleep_timeout, is never
\* queued once the call has moved past timer_stop (wait.c:159 and 193).
NoTimerLeftBehind ==
    \A t \in Threads : timer[t] \in {"queued", "done"} =>
        call[t].pc \in {"schedule", "rem", "unqueue"}

\* What list_node_destroy asserts of the node of the timer when timer_destroy is
\* called at the end of a timed wait (wait.c:194, list.h:19): the node has been
\* initialised and is on no list.
TimerDestroyedInitialised ==
    \A t \in Threads : At(t, "abort") /\ call[t].tmo => timer[t] # "junk"

\* A wait ends once there is a reason for it to end: a wakeup on its queue, an
\* interrupt it allows, or its timeout, however these race with each other and
\* with the thread on its way into schedule().
WaitEnds ==
    \A t \in Threads :
        (/\ call[t].pc # "none"
         /\ \/ "DONE" \in wflags[t][call[t].q]
            \/ call[t].intr /\ sched_interrupted(t)
            \/ call[t].tmo) ~> call[t].pc = "none"
==============================================================================
