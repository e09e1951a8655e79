------------------------------- MODULE Timer ---------------------------------
(* The timer queue of a cpu other than the boot cpu (kern/timer.c) over its     *)
(* event timer (device/evtimer.c).  While the scheduler's ontick timer is there *)
(* the device ticks periodically and serves the queue as well; without it the   *)
(* device is set for the first timer of the queue, or stopped.                  *)
EXTENDS Integers, SequencesExt, Lists

CONSTANTS
    Timers,
    Delays,         \* what timer_start is called with
    TICK_PERIOD,
    SEC, Freq,      \* nanoseconds and counts of the device in a second
    MinPeriod, MaxPeriod,   \* what the device can be set to
    MaxTime         \* the end of the run, a bound

ASSUME TimerAssumption ==
    /\ Delays \subseteq Nat \ {0} /\ MaxTime \in Nat
    /\ {TICK_PERIOD, SEC, Freq, MinPeriod, MaxPeriod} \subseteq Nat \ {0}
    /\ MinPeriod <= TICK_PERIOD /\ TICK_PERIOD <= MaxPeriod
    /\ Freq <= SEC /\ MinPeriod * Freq >= SEC

VARIABLES
    now,
    queue,      \* timerq->queue
    ontick,     \* the scheduler's timer is on timerq->ontick
    timer,      \* time, period and flags of every timer
    dev,        \* the event timer: its mode, and when it interrupts next
    intr,       \* the interrupt of the device waits to be served
    early       \* history: the device is off since an interrupt that came before
                \* the first timer was due

vars == <<now, queue, ontick, timer, dev, intr, early>>

Time == 0..(MaxTime + MaxPeriod)

TimerTypeOK ==
    /\ now \in 0..MaxTime
    /\ queue \in Seq(Timers)
    /\ {ontick, intr, early} \subseteq BOOLEAN
    /\ timer \in [Timers -> [time : Nat, period : Nat, periodic : BOOLEAN, done : BOOLEAN]]
    /\ dev \in [mode : {"off", "oneshot", "periodic"}, period : 0..MaxPeriod, at : Time]

\* TIMER_DONE; the other fields are not looked at until the next start.
Done == [time |-> 0, period |-> 0, periodic |-> FALSE, done |-> TRUE]

TimerInit ==
    /\ now = 0
    /\ queue = <<>>
    /\ ontick = FALSE /\ intr = FALSE /\ early = FALSE
    /\ timer = [t \in Timers |-> Done]
    /\ dev = [mode |-> "off", period |-> 0, at |-> 0]

\* nanosec_t is unsigned: a difference below zero is beyond any period.
Wrap64(n) == IF n < 0 THEN 2 * MaxPeriod ELSE n

\* clamp(time, min_period, max_period)
Clamp(n) == IF n > MaxPeriod THEN MaxPeriod ELSE IF n < MinPeriod THEN MinPeriod ELSE n

\* What n nanoseconds last on the device, which is set to a number of counts.
Counted(n) == (((n * Freq) \div SEC) * SEC) \div Freq

\* evtimer_config
Config(mode, n) == [mode |-> mode, period |-> Counted(Clamp(n)), at |-> now + Counted(Clamp(n))]

Stopped == [mode |-> "off", period |-> 0, at |-> 0]

\* Before the first timer that is not earlier.
timerq_insert(q, tm, t) ==
    LET later == {i \in 1..Len(q) : tm[q[i]].time >= tm[t].time} IN
    IF later = {} THEN Append(q, t)
    ELSE InsertAt(q, CHOOSE i \in later : \A j \in later : i <= j, t)

\* What the device is set to, for the queue q and the ontick timer.
timerq_reconf(q, tm, tick) ==
    CASE tick -> dev
      [] ~tick /\ q = <<>> -> Stopped
      [] OTHER -> Config("oneshot", Wrap64(tm[q[1]].time - now))
------------------------------------------------------------------------------
\* Time passes, and the device counts; interrupts are served before the next
\* unit of time.
Pass ==
    /\ now < MaxTime /\ ~intr
    /\ now' = now + 1
    /\ IF dev.mode # "off" /\ dev.at = now'
       THEN /\ intr' = TRUE
            /\ dev' = IF dev.mode = "periodic" THEN [dev EXCEPT !.at = @ + dev.period]
                      ELSE Stopped
       ELSE UNCHANGED <<intr, dev>>
    /\ UNCHANGED <<queue, ontick, timer, early>>

\* "atpit interrupt always calls evtimer_intr, even after evtimer_stop"
\* (evtimer.c:98); nor does lapic_timer_stop write the register that masks it.
Spurious ==
    /\ dev.mode = "off" /\ ~intr
    /\ intr' = TRUE
    /\ UNCHANGED <<now, queue, ontick, timer, dev, early>>

\* Sets the device only when there was no timer.
timer_start_first(t, d, periodic) ==
    /\ timer[t].done
    /\ now + d <= MaxTime
    /\ LET tm == [timer EXCEPT ![t] = [time |-> now + d, period |-> d,
                                       periodic |-> periodic, done |-> FALSE]]
           q == timerq_insert(queue, tm, t)
       IN
       /\ timer' = tm
       /\ queue' = q
       /\ dev' = IF queue = <<>> THEN timerq_reconf(q, tm, ontick) ELSE dev
    /\ early' = FALSE
    /\ UNCHANGED <<now, ontick, intr>>

\* A timer is started when it is on no queue.
timer_start(t, d, periodic) ==
    /\ timer[t].done
    /\ now + d <= MaxTime
    /\ LET tm == [timer EXCEPT ![t] = [time |-> now + d, period |-> d,
                                       periodic |-> periodic, done |-> FALSE]]
           q == timerq_insert(queue, tm, t)
       IN
       /\ timer' = tm
       /\ queue' = q
       /\ dev' = timerq_reconf(q, tm, ontick)
    /\ early' = FALSE
    /\ UNCHANGED <<now, ontick, intr>>

\* sched_timer_start: the device ticks as soon as there is an ontick timer.
timer_ontick ==
    /\ ~ontick
    /\ ontick' = TRUE
    /\ dev' = Config("periodic", TICK_PERIOD)
    /\ early' = FALSE
    /\ UNCHANGED <<now, queue, timer, intr>>

\* Takes the ontick timer for the last one to need the device.
timer_stop_ontick_off ==
    /\ ontick
    /\ ontick' = FALSE
    /\ dev' = Stopped
    /\ early' = FALSE
    /\ UNCHANGED <<now, queue, timer, intr>>

timer_stop_ontick ==
    /\ ontick
    /\ ontick' = FALSE
    /\ dev' = timerq_reconf(queue, timer, FALSE)
    /\ early' = FALSE
    /\ UNCHANGED <<now, queue, timer, intr>>

\* Threads keep their cpu and stop the timers they have started, so that the queue
\* of the timer is always that of the cpu and the device may be set.
timer_stop(t) ==
    /\ ~timer[t].done
    /\ queue' = list_remove(queue, t)
    /\ timer' = [timer EXCEPT ![t] = Done]
    /\ IF queue[1] = t
       THEN dev' = timerq_reconf(queue', timer, ontick) /\ early' = FALSE
       ELSE UNCHANGED <<dev, early>>
    /\ UNCHANGED <<now, ontick, intr>>

\* A timer whose function has been called: back on the queue, or done.
Rearm(s, t) ==
    IF timer[t].periodic
    THEN LET tm == [s.tm EXCEPT ![t].time = now + timer[t].period]
         IN [tm |-> tm, q |-> timerq_insert(s.q, tm, t)]
    ELSE [s EXCEPT !.tm[t] = Done]

\* The timers of the queue that have expired: a period is never zero, so that
\* none of them expires again in the loop.
Expired == SelectSeq(queue, LAMBDA t : timer[t].time <= now)

timer_intr ==
    /\ intr
    /\ intr' = FALSE
    /\ LET s == FoldLeft(Rearm, [tm |-> timer, q |-> SubSeq(queue, Len(Expired) + 1, Len(queue))],
                         Expired)
       IN
       /\ timer' = s.tm
       /\ queue' = s.q
       /\ dev' = IF Expired = <<>> THEN dev ELSE timerq_reconf(s.q, s.tm, ontick)
    /\ early' = (Expired = <<>> /\ queue # <<>> /\ dev.mode = "off")
    /\ UNCHANGED <<now, ontick>>
------------------------------------------------------------------------------
Next ==
    \/ Pass \/ Spurious \/ timer_intr \/ timer_ontick \/ timer_stop_ontick
    \/ \E t \in Timers :
         \/ \E d \in Delays, periodic \in BOOLEAN : timer_start(t, d, periodic)
         \/ timer_stop(t)

Spec == TimerInit /\ [][Next]_vars

------------------------------------------------------------------------------
\* The queue is in the order of the times and holds exactly the timers that are
\* not TIMER_DONE, so that the first one is the one to set the device for.
QueueSorted ==
    /\ \A i, j \in 1..Len(queue) : i < j => timer[queue[i]].time <= timer[queue[j]].time
    /\ \A i, j \in 1..Len(queue) : i # j => queue[i] # queue[j]
    /\ {queue[i] : i \in 1..Len(queue)} = {t \in Timers : ~timer[t].done}

\* As long as a timer is on the queue the device is going to interrupt, whatever
\* was started and stopped, and whether or not the tick is on (timer.c:81-97).  No
\* timer is forgotten, unless an interrupt came before the first one was due: the
\* device counts in units of its own and not beyond MaxPeriod (evtimer.c:45-46),
\* and timer_intr sets it again only if a timer has expired (timer.c:187).
QueueServed == queue # <<>> /\ ~early => intr \/ (dev.mode # "off" /\ dev.at > now)

\* "live with the possibility of one sadditional spurious interrupt" (timer.c:140):
\* an interrupt before the first timer is due does no harm.
SpuriousHarmless == ~early

\* The device never waits for longer than until the first timer is due, if that
\* one is still to come.
FirstNotMissed ==
    queue # <<>> /\ timer[queue[1]].time > now /\ dev.mode = "oneshot"
    => dev.at - now <= Clamp(timer[queue[1]].time - now)

\* "Suspend the current thread for a specific amount of time."
\* (include/kern/time.h:79): a timer is served at most a tick after its time.
ServedInTime == \A t \in Timers : ~timer[t].done => now <= timer[t].time + TICK_PERIOD
==============================================================================
