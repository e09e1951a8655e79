---------------------------- MODULE CpuSchedProofs ----------------------------
(* Proofs about the scheduler of one cpu for any number of threads.            *)
EXTENDS CpuSched, TLAPS

\* Every thread is in one place.
OnePlace ==
    /\ cur \notin ready \cup asleep \cup dead
    /\ ready \cap asleep = {} /\ ready \cap dead = {} /\ asleep \cap dead = {}
    /\ async \in ready \cup asleep \cup {cur}

\* A cpu that has halted is in its idle thread, and stays there with a thread on
\* the queue only until the ipi comes.
HaltInv ==
    idle_at = "hlt" => /\ pc = "run" /\ cur = idle
                       /\ quiet /\ ready # {} => ipi \/ ipi_todo # {}

\* The slot of the exited thread is in use only inside do_schedule, and the tick
\* follows the thread that was switched to from TimerSet on.
IInv ==
    /\ CpuTypeOK
    /\ OnePlace
    /\ exit_thread # NULL => pc \in {"picked", "resume"} /\ exit_thread \in dead
    /\ pc # "picked" => (timer_on <=> cur # idle)
    /\ HaltInv
------------------------------------------------------------------------------
USE ThreadAssumption

\* What do_schedule's section under the lock leaves behind.
LEMMA Scheduled ==
    ASSUME CpuTypeOK, NEW kind \in {"sched", "intr"}, NEW queue,
           queue \subseteq Threads \cup {idle}, DoSchedule(kind, queue)
    PROVE  /\ ready' \subseteq Threads /\ ready' \subseteq queue \ {idle}
           /\ cur' \in Threads \cup {idle}
           /\ ctx' \in [Threads \cup {idle} -> {"new", "sched", "intr"}]
           /\ pc' = "picked"
           /\ cur' \notin ready' /\ ready' \cup {cur'} \cup {idle} = queue \cup {idle}
<1>1. PICK r : r = queue \ {idle}
  BY Zenon
<1>2. \/ \E t \in r : cur' = t /\ ready' = r \ {t}
      \/ r = {} /\ cur' = idle /\ ready' = r
  BY <1>1 DEF DoSchedule
<1>3. ctx' \in [Threads \cup {idle} -> {"new", "sched", "intr"}] /\ pc' = "picked"
  BY DEF DoSchedule, CpuTypeOK
<1> QED BY <1>1, <1>2, <1>3

\* What an interrupt does to the threads.
LEMMA Interrupted ==
    ASSUME IInv, NEW q \in SUBSET Threads, NEW ask \in BOOLEAN, Intr(q, ask), cur \notin q
    PROVE  /\ ready' \subseteq Threads
           /\ cur' \in Threads \cup {idle}
           /\ ctx' \in [Threads \cup {idle} -> {"new", "sched", "intr"}]
           /\ needed' \in BOOLEAN
           /\ pc' = "picked" \/ (pc' = "run" /\ cur' = cur)
           /\ cur' \notin ready' /\ ready' \cup {cur'} \cup {idle} = q \cup {cur, idle}
           /\ idle_at' \in {"check", "res", "tohlt"}
<1>0. CpuTypeOK
  BY DEF IInv
<1>1. idle_at' \in {"check", "res", "tohlt"} /\ pc = "run"
  BY <1>0 DEF Intr, CpuTypeOK, IInv, HaltInv
<1>2. CASE needed \/ ask
  <2>1. q \cup {cur} \subseteq Threads \cup {idle}
    BY <1>0 DEF CpuTypeOK
  <2>2. DoSchedule("intr", q \cup {cur}) /\ needed' = FALSE
    BY <1>2 DEF Intr
  <2>3. /\ ready' \subseteq Threads /\ cur' \in Threads \cup {idle}
        /\ ctx' \in [Threads \cup {idle} -> {"new", "sched", "intr"}]
        /\ pc' = "picked"
        /\ cur' \notin ready'
        /\ ready' \cup {cur'} \cup {idle} = (q \cup {cur}) \cup {idle}
    BY <1>0, <2>1, <2>2, Scheduled
  <2>4. (q \cup {cur}) \cup {idle} = q \cup {cur, idle}
    OBVIOUS
  <2> QED BY <1>1, <2>2, <2>3, <2>4, Zenon
<1>3. CASE ~(needed \/ ask)
  BY <1>0, <1>1, <1>3 DEF Intr, CpuTypeOK
<1> QED BY <1>2, <1>3

\* A step that reschedules keeps the invariant when it moves the last thread
\* to where queue and the other sets say.
LEMMA ScheduledInv ==
    ASSUME IInv, NEW kind \in {"sched", "intr"}, NEW queue,
           queue \subseteq Threads \cup {idle}, DoSchedule(kind, queue),
           idle \notin asleep' \cup dead',
           queue \cap (asleep' \cup dead') = {}, asleep' \cap dead' = {},
           asleep' \subseteq Threads, dead' \subseteq Threads,
           async \in queue \cup asleep',
           idle_at' \in {"check", "res", "tohlt"},
           {idle_res', timer_on', needed', ipi', quiet'} \subseteq BOOLEAN,
           ipi_todo' \subseteq Threads,
           exit_thread' # NULL => exit_thread' \in dead'
    PROVE  IInv'
<1>1. CpuTypeOK
  BY DEF IInv
<1>2. /\ ready' \subseteq Threads /\ ready' \subseteq queue \ {idle}
      /\ cur' \in Threads \cup {idle}
      /\ ctx' \in [Threads \cup {idle} -> {"new", "sched", "intr"}]
      /\ pc' = "picked"
      /\ cur' \notin ready'
      /\ ready' \cup {cur'} \cup {idle} = queue \cup {idle}
  BY <1>1, Scheduled
<1>3. exit_thread' \in Threads \cup {NULL}
  OBVIOUS
<1>4. CpuTypeOK'
  BY <1>2, <1>3 DEF CpuTypeOK
<1>5. OnePlace'
  <2>1. cur' \in queue \cup {idle}
    BY <1>2
  <2>2. cur' \notin asleep' \cup dead'
    BY <2>1
  <2>3. async \in ready' \cup asleep' \cup {cur'}
    BY <1>2
  <2> QED BY <1>2, <2>2, <2>3 DEF OnePlace
<1> QED BY <1>2, <1>4, <1>5 DEF IInv, HaltInv

\* An interrupt keeps the invariant when the thread its handler woke is not
\* asleep any more.
LEMMA InterruptedInv ==
    ASSUME IInv, NEW q \in SUBSET Threads, NEW ask \in BOOLEAN, Intr(q, ask),
           cur \notin q, q \cap dead = {}, q \cap asleep' = {},
           asleep' \subseteq asleep, ready \subseteq q, asleep \subseteq q \cup asleep',
           ipi' \in BOOLEAN
    PROVE  IInv'
<1>1. /\ ready' \subseteq Threads
      /\ cur' \in Threads \cup {idle}
      /\ ctx' \in [Threads \cup {idle} -> {"new", "sched", "intr"}]
      /\ needed' \in BOOLEAN
      /\ pc' = "picked" \/ (pc' = "run" /\ cur' = cur)
      /\ cur' \notin ready'
      /\ ready' \cup {cur'} \cup {idle} = q \cup {cur, idle}
      /\ idle_at' \in {"check", "res", "tohlt"}
  BY Interrupted
<1>2. /\ UNCHANGED <<dead, idle_res, timer_on, exit_thread, ipi_todo, quiet>>
      /\ pc = "run"
  BY DEF Intr
<1>3. CpuTypeOK'
  BY <1>1, <1>2 DEF IInv, CpuTypeOK
<1>4. OnePlace'
  <2>0. /\ cur \notin ready \cup asleep \cup dead
        /\ asleep \cap dead = {}
        /\ async \in ready \cup asleep \cup {cur}
        /\ asleep \subseteq Threads /\ dead \subseteq Threads
    BY DEF IInv, OnePlace, CpuTypeOK
  <2>1. cur' \notin asleep' \cup dead'
    BY <1>1, <1>2, <2>0
  <2>2. ready' \cap (asleep' \cup dead') = {} /\ asleep' \cap dead' = {}
    BY <1>1, <1>2, <2>0
  <2>3. async \in ready' \cup asleep' \cup {cur'}
    BY <1>1, <2>0
  <2> QED BY <1>1, <2>1, <2>2, <2>3 DEF OnePlace
<1> QED BY <1>1, <1>2, <1>3, <1>4 DEF IInv, HaltInv
------------------------------------------------------------------------------
\* The initial state satisfies the invariant.
LEMMA InitInv == CpuInit => IInv
  BY Zenon DEF CpuInit, IInv, HaltInv, CpuTypeOK, OnePlace

\* The steps inside do_schedule and behind it.
LEMMA SwitchInv == IInv /\ (TimerSet \/ Resume \/ Loop) => IInv'
<1> SUFFICES ASSUME IInv, TimerSet \/ Resume \/ Loop PROVE IInv'
  OBVIOUS
<1>0. CpuTypeOK /\ OnePlace
  BY DEF IInv
<1>1. CASE TimerSet
  <2>1. CpuTypeOK' /\ OnePlace'
    BY <1>0, <1>1 DEF TimerSet, CpuTypeOK, OnePlace
  <2>2. HaltInv'
    BY <1>1 DEF TimerSet, IInv, HaltInv
  <2>3. timer_on' <=> cur' # idle
    BY <1>1 DEF TimerSet
  <2> QED BY <1>1, <2>1, <2>2, <2>3, Zenon DEF TimerSet, IInv
<1>2. CASE Resume
  <2>1. CpuTypeOK'
    BY <1>0, <1>2, Zenon DEF Resume, sched_exit_free, CpuTypeOK
  <2>2. OnePlace'
    BY <1>0, <1>2 DEF Resume, sched_exit_free, OnePlace, CpuTypeOK
  <2>3. HaltInv'
    BY <1>2 DEF Resume, IInv, HaltInv
  <2> QED BY <1>2, <2>1, <2>2, <2>3 DEF Resume, sched_exit_free, IInv
<1>3. CASE Loop
  <2>0. /\ pc = "loop" /\ needed' = FALSE /\ idle_at # "hlt"
        /\ UNCHANGED <<asleep, dead, idle_at, idle_res, timer_on, exit_thread, ipi_todo, ipi, quiet>>
    BY <1>3 DEF Loop, IInv, HaltInv
  <2>1. CASE needed
    <3>1. DoSchedule("intr", ready \cup {cur})
      BY <1>3, <2>1 DEF Loop
    <3>2. exit_thread' = NULL
      BY <2>0 DEF IInv
    <3>3. ready \cup {cur} \subseteq Threads \cup {idle}
      BY <1>0 DEF CpuTypeOK
    <3>4. (ready \cup {cur}) \cap (asleep \cup dead) = {}
      BY <1>0 DEF OnePlace
    <3> QED BY <1>0, <2>0, <3>1, <3>2, <3>3, <3>4, ScheduledInv, Zenon DEF CpuTypeOK, OnePlace
  <2>2. CASE ~needed
    <3>1. pc' = "run" /\ UNCHANGED <<ready, cur, ctx>>
      BY <1>3, <2>2 DEF Loop
    <3> QED BY <1>0, <2>0, <3>1, Zenon DEF IInv, HaltInv, CpuTypeOK, OnePlace
  <2> QED BY <2>1, <2>2
<1> QED BY <1>1, <1>2, <1>3

\* The interrupts.
LEMMA IntrInv ==
    IInv /\ (\/ sched_tick \/ ipi_bitmap_handler \/ OtherIntr
             \/ \E t \in Threads, urgent \in BOOLEAN : DeviceWakeup(t, urgent)) => IInv'
<1> SUFFICES ASSUME IInv,
                    \/ sched_tick \/ ipi_bitmap_handler \/ OtherIntr
                    \/ \E t \in Threads, urgent \in BOOLEAN : DeviceWakeup(t, urgent)
             PROVE  IInv'
  OBVIOUS
<1>0. /\ ready \in SUBSET Threads /\ asleep \in SUBSET Threads
      /\ {ipi, timer_on} \subseteq BOOLEAN
      /\ cur \notin ready \cup asleep \cup dead
      /\ ready \cap dead = {} /\ ready \cap asleep = {} /\ asleep \cap dead = {}
  BY DEF IInv, CpuTypeOK, OnePlace
<1>1. CASE sched_tick
  <2>1. Intr(ready, TRUE) /\ asleep' = asleep /\ ipi' = ipi
    BY <1>1, Zenon DEF sched_tick
  <2> QED BY <1>0, <2>1, InterruptedInv, Zenon
<1>2. CASE ipi_bitmap_handler
  <2>1. Intr(ready, TRUE) /\ asleep' = asleep /\ ipi' = FALSE
    BY <1>2, Zenon DEF ipi_bitmap_handler
  <2> QED BY <1>0, <2>1, InterruptedInv, Zenon
<1>3. CASE OtherIntr
  <2>1. Intr(ready, FALSE) /\ asleep' = asleep /\ ipi' = ipi
    BY <1>3, Zenon DEF OtherIntr
  <2> QED BY <1>0, <2>1, InterruptedInv, Zenon
<1>4. ASSUME NEW t \in Threads, NEW urgent \in BOOLEAN, DeviceWakeup(t, urgent)
      PROVE  IInv'
  <2>1. /\ t \in asleep /\ asleep' = asleep \ {t} /\ ipi' = ipi
        /\ Intr(ready \cup {t}, urgent \/ ~timer_on)
    BY <1>4 DEF DeviceWakeup
  <2>2. (urgent \/ ~timer_on) \in BOOLEAN
    OBVIOUS
  <2>3. /\ ready \cup {t} \in SUBSET Threads
        /\ cur \notin ready \cup {t}
        /\ (ready \cup {t}) \cap dead = {} /\ (ready \cup {t}) \cap asleep' = {}
        /\ asleep' \subseteq asleep /\ ready \subseteq ready \cup {t}
        /\ asleep \subseteq (ready \cup {t}) \cup asleep'
        /\ ipi' \in BOOLEAN
    BY <1>0, <2>1
  <2> QED BY <2>1, <2>2, <2>3, InterruptedInv, Zenon
<1> QED BY <1>1, <1>2, <1>3, <1>4

\* The steps of the running thread and of the idle loop.
LEMMA RunInv ==
    IInv /\ (\/ Sleep \/ critical_leave \/ thread_exit \/ thread_free
             \/ IdleCheck \/ IdleResult \/ hlt) => IInv'
<1> SUFFICES ASSUME IInv,
                    \/ Sleep \/ critical_leave \/ thread_exit \/ thread_free
                    \/ IdleCheck \/ IdleResult \/ hlt
             PROVE  IInv'
  OBVIOUS
<1>0. CpuTypeOK /\ OnePlace
  BY DEF IInv
<1>1. pc = "run" => exit_thread = NULL
  BY DEF IInv
<1>2. CASE Sleep
  <2>1. /\ pc = "run" /\ cur # idle /\ asleep' = asleep \cup {cur}
        /\ DoSchedule("sched", ready)
        /\ UNCHANGED <<dead, idle_at, idle_res, timer_on, needed, exit_thread, ipi_todo, ipi, quiet>>
    BY <1>2 DEF Sleep
  <2>2. cur \in Threads /\ idle_at # "hlt"
    BY <1>0, <2>1 DEF CpuTypeOK, IInv, HaltInv
  <2> QED BY <1>0, <1>1, <2>1, <2>2, ScheduledInv DEF CpuTypeOK, OnePlace
<1>3. CASE critical_leave
  <2>1. /\ pc = "run" /\ cur # idle /\ needed' = FALSE
        /\ DoSchedule("sched", ready \cup {cur})
        /\ UNCHANGED <<asleep, dead, idle_at, idle_res, timer_on, exit_thread, ipi_todo, ipi, quiet>>
    BY <1>3 DEF critical_leave
  <2>2. ready \cup {cur} \subseteq Threads \cup {idle} /\ idle_at # "hlt"
    BY <1>0, <2>1 DEF CpuTypeOK, IInv, HaltInv
  <2>3. (ready \cup {cur}) \cap (asleep \cup dead) = {}
    BY <1>0 DEF OnePlace
  <2> QED BY <1>0, <1>1, <2>1, <2>2, <2>3, ScheduledInv, Zenon DEF CpuTypeOK, OnePlace
<1>4. CASE thread_exit
  <2>1. /\ pc = "run" /\ cur # idle /\ cur # async
        /\ exit_thread' = cur /\ dead' = dead \cup {cur}
        /\ DoSchedule("sched", ready)
        /\ UNCHANGED <<asleep, idle_at, idle_res, timer_on, needed, ipi_todo, ipi, quiet>>
    BY <1>4 DEF thread_exit
  <2>2. cur \in Threads /\ idle_at # "hlt"
    BY <1>0, <2>1 DEF CpuTypeOK, IInv, HaltInv
  <2> QED BY <1>0, <2>1, <2>2, ScheduledInv DEF CpuTypeOK, OnePlace
<1>5. CASE thread_free
  BY <1>0, <1>1, <1>5 DEF thread_free, IInv, HaltInv, CpuTypeOK, OnePlace
<1>6. CASE IdleCheck
  <2>1. /\ pc = "run" /\ cur = idle /\ idle_at' = "res" /\ needed' = FALSE
        /\ idle_res' = (ready # {})
        /\ UNCHANGED <<asleep, dead, timer_on, exit_thread, ipi_todo, ipi, quiet>>
    BY <1>6 DEF IdleCheck
  <2>2. idle_res' \in BOOLEAN
    BY <2>1
  <2>3. CASE needed
    <3>1. DoSchedule("sched", ready)
      BY <1>6, <2>3 DEF IdleCheck
    <3> QED BY <1>0, <1>1, <2>1, <2>2, <3>1, ScheduledInv, Zenon DEF CpuTypeOK, OnePlace
  <2>4. CASE ~needed
    <3>1. UNCHANGED <<ready, cur, ctx, pc>>
      BY <1>6, <2>4 DEF IdleCheck
    <3> QED BY <1>0, <2>1, <2>2, <3>1, Zenon DEF IInv, HaltInv, CpuTypeOK, OnePlace
  <2> QED BY <2>3, <2>4
<1>7. CASE IdleResult
  <2>1. /\ pc = "run" /\ cur = idle /\ idle_at' = "tohlt"
        /\ UNCHANGED <<asleep, dead, idle_res, timer_on, needed, exit_thread, ipi_todo, ipi, quiet>>
    BY <1>7 DEF IdleResult
  <2>2. CASE idle_res
    <3>1. DoSchedule("sched", ready)
      BY <1>7, <2>2 DEF IdleResult
    <3> QED BY <1>0, <1>1, <2>1, <3>1, ScheduledInv DEF CpuTypeOK, OnePlace
  <2>3. CASE ~idle_res
    <3>1. UNCHANGED <<ready, cur, ctx, pc>>
      BY <1>7, <2>3 DEF IdleResult
    <3> QED BY <1>0, <2>1, <3>1 DEF IInv, HaltInv, CpuTypeOK, OnePlace
  <2> QED BY <2>2, <2>3
<1>8. CASE hlt
  BY <1>0, <1>8 DEF hlt, IInv, HaltInv, CpuTypeOK, OnePlace
<1> QED BY <1>2, <1>3, <1>4, <1>5, <1>6, <1>7, <1>8

\* The threads that appear on the queue by the work of this cpu and of others.
LEMMA WakeInv ==
    ASSUME IInv, NEW t \in Threads,
           \/ \E urgent \in BOOLEAN : RemoteWakeup(t, urgent) \/ LocalWakeup(t, urgent)
           \/ RemoteSpawn(t) \/ LocalSpawn(t) \/ ipi_preempt(t)
    PROVE  IInv'
<1>0. CpuTypeOK /\ OnePlace
  BY DEF IInv
<1>1. CASE \E urgent \in BOOLEAN : RemoteWakeup(t, urgent)
  <2> PICK urgent \in BOOLEAN : RemoteWakeup(t, urgent)
    BY <1>1
  <2>1. CpuTypeOK'
    BY <1>0 DEF RemoteWakeup, CpuTypeOK
  <2>2. OnePlace'
    BY <1>0 DEF RemoteWakeup, CpuTypeOK, OnePlace
  <2>3. HaltInv'
    BY DEF RemoteWakeup, IInv, HaltInv
  <2> QED BY <2>1, <2>2, <2>3 DEF RemoteWakeup, IInv
<1>2. CASE \E urgent \in BOOLEAN : LocalWakeup(t, urgent)
  <2> PICK urgent \in BOOLEAN : LocalWakeup(t, urgent)
    BY <1>2
  <2>1. CpuTypeOK'
    BY <1>0 DEF LocalWakeup, CpuTypeOK
  <2>2. OnePlace'
    BY <1>0 DEF LocalWakeup, CpuTypeOK, OnePlace
  <2>3. HaltInv'
    BY DEF LocalWakeup, IInv, HaltInv
  <2> QED BY <2>1, <2>2, <2>3 DEF LocalWakeup, IInv
<1>3. CASE RemoteSpawn(t)
  <2>1. CpuTypeOK'
    BY <1>0, <1>3 DEF RemoteSpawn, CpuTypeOK
  <2>2. OnePlace'
    BY <1>0, <1>3 DEF RemoteSpawn, CpuTypeOK, OnePlace, Spawned
  <2>3. HaltInv'
    BY <1>3 DEF RemoteSpawn, IInv, HaltInv
  <2> QED BY <1>3, <2>1, <2>2, <2>3 DEF RemoteSpawn, IInv
<1>4. CASE LocalSpawn(t)
  <2>1. CpuTypeOK'
    BY <1>0, <1>4 DEF LocalSpawn, CpuTypeOK
  <2>2. OnePlace'
    BY <1>0, <1>4 DEF LocalSpawn, CpuTypeOK, OnePlace, Spawned
  <2>3. HaltInv'
    BY <1>4 DEF LocalSpawn, IInv, HaltInv
  <2> QED BY <1>4, <2>1, <2>2, <2>3 DEF LocalSpawn, IInv
<1>5. CASE ipi_preempt(t)
  BY <1>0, <1>5 DEF ipi_preempt, IInv, HaltInv, CpuTypeOK, OnePlace
<1> QED BY <1>1, <1>2, <1>3, <1>4, <1>5
------------------------------------------------------------------------------
\* The invariant holds in every state of the cpu.
THEOREM CpuInvariant == Spec => []IInv
<1>1. IInv /\ UNCHANGED vars => IInv'
  BY DEF IInv, HaltInv, CpuTypeOK, OnePlace, vars
<1>2. IInv /\ Next => IInv'
  BY SwitchInv, IntrInv, RunInv, WakeInv DEF Next, Cpu
<1> QED BY InitInv, <1>1, <1>2, PTL DEF Spec

\* A thread that exits finds the slot of its cpu free, however many exit: the
\* assertion of sched.c:560 holds.
THEOREM ExitNeverWaits == Spec => []ExitSlotFree
<1>1. IInv => ExitSlotFree
  BY DEF IInv, ExitSlotFree
<1> QED BY <1>1, CpuInvariant, PTL

\* The tick is on whenever a thread runs.
THEOREM TickOn == Spec => []RunningHasTick
<1>1. IInv => RunningHasTick
  BY DEF IInv, RunningHasTick
<1> QED BY <1>1, CpuInvariant, PTL

\* Every thread that gets ready on a cpu that halted with an empty queue has an ipi
\* under way or pending: timer_on is read under the lock and is clear by then.
THEOREM HaltNeverMissed == Spec => []HaltIsTold
<1>1. IInv => HaltIsTold
  BY DEF IInv, HaltInv, HaltIsTold, Halted
<1> QED BY <1>1, CpuInvariant, PTL

\* No thread is on the run queue twice over: not while it runs, sleeps or has
\* exited, whichever cpu wakes or spawns it.
THEOREM InOnePlace == Spec => []OnePlace
<1>1. IInv => OnePlace
  BY DEF IInv
<1> QED BY <1>1, CpuInvariant, PTL
==============================================================================
