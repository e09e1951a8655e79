# TLA+ models of the elos kernel

elos is a small SMP kernel for i386 with a Linux system call interface. Its hard
part is concurrency: threads that go to sleep while other cpus wake them, locks
built from wait queues, interrupts that race with the code they interrupt, and
processes whose threads stop, exit and replace each other. This directory models
that core, checks it with TLC on small instances, and proves most of its safety
properties with TLAPS for every instance.

All paths below are relative to `src/src/kernel/`. `PROJECT.json` maps every
definition to the lines it models, and lists components, runs, mutants, hazards
and theorems.

## The system and its models

The layers, from the bottom up. An arrow means "is written on top of".

    CpuSched  Timekeep  Timer                    one cpu: scheduling and time
    Sched <- Wait   ==implements==>  WaitQueue   wait queues
    WaitQueue <- Mutex  ==implements==>  Lock    mutexes
    WaitQueue <- RwLock, Futex                   what else sleeps on wait queues
    Lock, Futex <- Block, BlkCache, Pipe, SingleThread
    Phys                                         independent of sleeping

| Module | Code | State and steps |
|---|---|---|
| `Sched` | `kern/sched.c` | thread states and sleep flags; each operator is a section of `sched->lock` |
| `CpuSched` | `kern/sched.c`, `kern/mp.c`, `arch/i386/cpu/cpu.c` | context switch, `SCHED_NEEDED`, idle loop, tick, ipis, thread exit |
| `Timekeep` | `kern/timekeep.c`, `kern/time.c` | two timehands, lock-free readers; each load and store is a step |
| `Timer` | `kern/timer.c`, `device/evtimer.c` | sorted timer queue over an event timer; the device is external |
| `Lists` | `include/elos/list.h` | lists as sequences |
| `Wait` | `kern/wait.c` | prepare, sleep, abort, wakeups, timeouts, interrupts, preemption |
| `WaitQueue` | promise of `kern/wait.c` | pending, woken and bound waiters; no scheduler |
| `Mutex` | `kern/sync.c`, `kern/futex.c` | owner, counter of waiters; each access is a step |
| `Lock` | promise of `kern/sync.c` | the owner and the threads that seek the lock |
| `RwLock` | `kern/rwlock.c` | sleeping reader-writer lock with two futex words |
| `Futex` | `kern/futex.c` | `kern_wait`, `kern_wake`, `sys_futex` over hashed queues |
| `Phys` | `vm/phys.c` | buddy allocator; one round of splitting or merging is a step |
| `Block` | `block/{block,device,event}.c`, `vfs/generic.c`, `drivers/disk/ata/ata.c` | requests from `blk_io` to the interrupt thread and back |
| `BlkCache` | `block/cache.c` | buffers, references, reclaim, write-through |
| `Pipe` | `kern/pipe.c`, `lib/ringbuf.c`, `lib/cbuf.c` | from `sys_pipe2` to the last close |
| `SingleThread` | `kern/proc.c`, `kern/thread.c`, `kern/exec.c` | single-thread mode, `thread_uret`, stop and continue, exit |

The actions have the names of the functions they model; a function that gives up
its lock, or that touches shared memory without one, is several actions, and a
variable `pc` tells where in it a thread is. An `MC` module instantiates each
component for TLC and the `.cfg` file of the component gives the constants. The
modules whose names end in `Proofs` hold the theorems.

### What counts as a step

A section of code under one lock is one step. Code that reads or writes shared
memory without a lock takes a step per access. Where a lower layer is verified, a
higher one uses what was shown instead of its code:

* `Mutex`, `RwLock` and `Futex` use `WaitQueue`, which `Wait` implements (proved:
  `WaitImplementsWaitQueue`);
* a mutex is taken in one step when it is free, as in `Lock`, which `Mutex`
  implements (proved: `MutexImplementsLock`);
* `Block`, `Pipe` and `SingleThread` let `kern_wait` compare its word and go to
  sleep in one step. That no change of the word is slept through is proved of
  `Futex` for words of the kernel (`KernWakesAll`).

The exchange that gives a mutex up and the reads of it that follow are one step, except
in `Mutex`, and in `Block`, where the mutex is on the stack of the thread that gets it.

A failed assertion ends a behaviour in the modules that have a variable `panic`;
the properties then speak of what happens before.

## Runs

| Run | Instance | Shows |
|---|---|---|
| `wait` | two threads, one cpu, one queue | `NoStrandedSleeper`: no interleaving of sleep, wakeup, interrupt, timeout and preemption loses a wakeup. `SleepEndsByWakeup`: the assertion at the end of a sleep. `WaitersExact`: the lists hold the waiters, once. `ImplementsWaitQueue`. `WaitEnds`: a wait that was woken or interrupted ends |
| `mutex` | four threads | `MutualExclusion`, `NoStrandedWaiter` (a free mutex never has only sleepers), `ImplementsLock`, `FreeLockTaken` |
| `rwlock` | three threads | `RwExclusion`, `RwNoStrandedSleeper`, and `WriterGetsLock` in spite of readers that keep coming |
| `futex` | three threads, two address spaces, words of all kinds in shared buckets | `NoLostWake`, `RefsBalanced` (references to shared objects), `WokenByOwnWord` |
| `cpu` | two threads and the async thread | `ExitSlotFree` (the assertion of `sched.c:560`), `RunningHasTick`. `HaltEnds`: a cpu that had nothing to do when it halted runs the thread that another cpu makes ready, with only the ipi to end the `hlt` |
| `time` | a reader, counter modulo 5, a second of 7 ns and 5 counts | `ReadsUptime`: a lock-free read returns a time within the call, but for what was rounded away. `CoarseRecent`: coarse time is not older than the last tick. `ReadsEnd` |
| `timer` | three timers, a second of 3 ns and 2 counts | `QueueServed`: the device is going to interrupt as long as a timer is queued, up to the first interrupt that came too early. `FirstNotMissed`: for the first one in time, within what it can be set to |
| `phys` | frames 2 to 10, one reserved, three orders | `NoFrameTwice`, `FreeExact`, `Coalesced` |
| `block` | two threads, one channel that may fail, pages of two blocks | `QuietAfterReturn` (no use of a handler after its call), `SleeperServed`, `EventOnce`, `CountNotNegative` |
| `blkcache` | two threads, two buffers, two blocks of two bytes; transfers of a part, of a whole block and across both | `Coherent`, `RefsExact` and `OtherBytesKept` (a write changes no byte it was not asked to), with failures, reclaim and unmount |
| `pipe` | a reader and a writer, a buffer of two bytes | `ReadsInOrder`, `NoStrandedReader`, `FreedOnce` (whenever the descriptors are closed), `EofEndsRead` |
| `st` | two threads, a third that may be created | `Alone`, `LastExits`, `NoStrandedThread` |

Every property is also checked against a mutant of the code that must break it; the
mutants are the operators whose names are those of an action with a suffix, defined
before it.

### Bounds

The runs have two to four threads: a sleeper, a waker, and one or two others that
take what the sleeper was woken for. For the modules with proofs the number of
threads, readers, writers, queues and words, and the sizes of buffers and calls
are arbitrary, so that the bounds of the runs only limit what was model-checked
beside: liveness, and `NoLostWake` for words of programs. For `Timer`, `Phys`,
`Block` and `BlkCache` the bound is a bound.

Counters with a width (`Mutex`, `RwLock`) have the smallest width that counts all
threads. `Phys` has the nine frames from 2 to 10, so that both ends cut through
blocks of the largest order. `Pipe` has a buffer of two bytes, reads of one and two
and writes of two, so that the offsets wrap and the buffer fills; `SIZE_MOD` stands for the
2^32 of `size_t`. `Timekeep` and `Timer` bound time (`MaxTime`); the counter wraps,
and several ticks and expiries fit in. Their counters tick 5 times in 7 nanoseconds and
2 times in 3, so that both directions of the conversion round. `MaxRef` bounds the
references of a provider in `Block`. Symmetry is used only in runs without liveness.

Deadlock is not checked in `block`, `futex`, `pipe`, `st`, `time` and `timer`: the
system may stop there, because time ends with the bound, an assertion has failed,
all threads have exited, or threads wait for an event that nobody has to bring
about.

### Fairness

* `Wait`: strong fairness of the statements of a waiting thread, of the choice of a
  runnable thread and of the interrupt of an expired timer. The tick preempts
  threads, an idle cpu leaves `hlt` at its next interrupt, and a pending interrupt
  is delivered when interrupts are on again.
* `CpuSched`: the cpu runs, a waker that has decided on an ipi sends it, and a
  pending ipi is taken. Nothing is assumed of device interrupts: only the boot cpu
  has a periodic tick.
* `Mutex`: weak fairness of each thread's steps, owners release. `RwLock`: strong
  fairness of each thread, since a section under its spin lock may be disabled by
  others again and again, and owners release.
* `Timekeep`: a tick once begun and readers go on. Time is bounded, so ticks cease.
* `Pipe`: strong fairness of the steps of a thread in a call, because of the mutex;
  a sleeper runs on once it is woken. A close that was
  begun goes on. Nothing is assumed of signals and of the beginning of calls and closes.

## Proofs

Every theorem has the form `Spec => []P`, or states an action property or a
refinement, and follows from an inductive invariant `IInv` of its module. Each
proof has one step per action and under it one per conjunct that the action can
disturb.

| Module | For every | Assumptions | Run properties it proves |
|---|---|---|---|
| `WaitProofs` | set of threads and of queues, assignment to cpus | there is a queue | `NoStrandedSleeper`, `SleepEndsByWakeup`, `WaitersExact`, `ImplementsWaitQueue` |
| `MutexProofs` | finite set of threads | fewer threads than the width of `sync->waiting` | `MutualExclusion`, `NoStrandedWaiter`, `ImplementsLock` |
| `RwLockProofs` | finite set of threads | fewer threads than the width of the counters | `RwExclusion`, `RwNoStrandedSleeper` |
| `FutexProofs` | finite set of threads, words, address spaces, hash function | words of the kernel and of programs differ, fewer threads than `INT_MAX` | `RefsBalanced`, `WokenByOwnWord` |
| `CpuSchedProofs` | set of threads | the async thread is one of them, idle is not | `ExitSlotFree`, `RunningHasTick` |
| `TimekeepProofs` | set of readers, mask, frequency, nanoseconds of a second, tick, end of time | two ticks fit in the mask and in a second | `ReadsUptime`, `CoarseRecent` |
| `PipeProofs` | readers and writers, sizes of buffer, chunks and calls | sizes are positive and below `SIZE_MOD`; a thread reads or writes | `NoStrandedReader`, `FreedOnce`, `ReadsInOrder` |
| `SingleThreadProofs` | finite set of threads, system calls, with and without stops | the process has a thread at first | `Alone`, `LastExits`, `NoStrandedThread` |

The arguments:

* **Wait queues.** The invariant has the type invariant, exact lists, and for every
  thread five facts. The important ones: a thread that has announced a sleep
  (`THREAD_DO_SLEEP`) is in the same situation as one that sleeps, so a wakeup must
  reach both (`SleepInv`); a thread that is awake after it committed itself to sleep
  has a reason to be (`AwakeInv`); `WAIT_SLEEP` is set only on the queue the thread
  sleeps on, although it may be prepared on several (`FlagInv`). The lemmas at the
  head say what appending, removing and dropping do to a list without duplicates.
  `SchedAssertions` and `TimersStopped` are two more consequences. The refinement
  shows for every action which step of `WaitQueue` it is.
* **Mutex.** `WaiterInv` says where the waiter of a thread is at each statement,
  `OwnerInv` that the lock word names the thread between acquire and release.
  `CounterExact`: `waiting` is the number of threads inside `kern_wait`; since it
  does not wrap, a release that reads zero has nobody to wake. `MutexImplementsLock`
  maps the threads inside `__sync_acquire`, asleep or not, to those that seek the
  lock; only the exchange that finds it free takes them out.
* **Reader-writer lock.** A sleeper relies on a chain of threads: `SleepInv` says
  which thread is to push the next one, separately for readers and writers, from the
  counters `rwunlock` reads without the spin lock. `CountInv` makes these counters
  exact (`RwCountsExact`).
* **Futex.** A call past `futex_addr` holds the address of its word, and a waiter
  is on the queue of its address only; equal addresses mean equal words, since the
  address carries the address space or the object. So a wake cannot reach another
  word's waiter even in the same bucket, and `KernNoLostWake` (a change of a kernel
  word is slept through by nobody unless its wake is still to come) is kept by the
  wake with `INT_MAX` taking all waiters.
* **One cpu.** A thread is in one place (`InOnePlace`); `exit_thread` is in use only
  between the choice of the next thread and the code that runs first in it, whatever
  that thread returns to; the tick follows the thread that was switched to.
  `HaltNeverMissed`, the safety half of `HaltEnds`: a cpu in `hlt` has `timer_on`
  clear, so whoever makes a thread ready on it owes it an ipi.
* **Timekeeping.** A reader whose generation is still that of its timehands has in
  hand what the timehands say (`ValidOK`); one whose generation is not will start
  over (`ReaderOK`). `GapInv` bounds the age of both timehands by ticks, so that a masked
  difference of two counts is the time between them. `HandsInv` and `TickInv` say at
  each store of a tick what the timehands tell: the time of its last update, less
  one nanosecond at most per update, because the division rounds down and two rounded
  parts make less than the rounded whole by at most one. `HandsTellOneTime`: the two
  clocks of a timehands agree whenever it is not written, and one carry is enough.
* **Pipe.** `RingInv`: the memory from `rptr` on is the queue of bytes that were put
  in and not taken out, with offsets modulo `PIPE_SIZE`; the lemmas on remainders
  and on `cbuf_read` and `cbuf_write` carry it. `RefInv`: the references of a file
  are those of `sys_pipe2`, of the descriptor and of the calls under way, counted
  by a bijection (`Counts`); the last one to drop it closes, so the second close is
  the only one to free the pipe. This holds though descriptors can be closed as soon
  as `fdalloc2` has made them; what the error path of `sys_pipe2` frees is apart
  (`FreedAtMostOnce` below). `LockAlwaysReleased`: no path returns or sleeps with
  the lock.
* **Single-thread mode.** `CountExact`: `st_waiting` is the number of threads in the
  waiting loop, so a request that sees it equal to the others has seen them all there.
  Each step is shown to be orderly: it follows a rule each for the locks it takes,
  for the waiting loop, for kills and for wakeups; orderly steps keep the invariant.

Only model-checked:

* all liveness (`WaitEnds`, `FreeLockTaken`, `WriterGetsLock`, `HaltEnds`,
  `ReadsEnd`, `EofEndsRead`): fairness and `ENABLED` are beyond the prover;
* `NoLostWake` of `Futex` for words of programs: a program may ask for fewer
  wakeups than there are waiters, so it is a fact about how programs use a word, and
  the instance fixes that. For words of the kernel `KernWakesAll` proves it;
* `Timer`, `Block`, `BlkCache`, `Phys`: their states are queues from the middle of
  which elements are taken (`SelectSeq`, insertion by time, occurrences in a
  sequence) or blocks that are split and merged recursively. What these operators
  compute needs induction over data, which the prover does not do.

## What the code does otherwise

While modelling, TLC showed several places where the code does not do what a comment,
an assertion or a header of the repository says. The modules state these expectations
as definitions that no run lists; adding one to the `.cfg` of its component gives
the behaviour. The models follow the code.

| Definition | Place | What happens |
|---|---|---|
| `Wait!TimerDestroyedInitialised` | `kern/wait.c:194` | a timed wait of a thread that is already interrupted destroys a timer that was never initialised |
| `CpuSched!HaltedOnlyIfNothingReady` | `arch/i386/cpu/cpu.c:145` | idle halts with a thread ready and no ipi under way: `sched_exit_free` sets `SCHED_NEEDED` after the choice, and a waker may see `timer_on` before it is cleared |
| `Timekeep!RealtimeIsTheTime` | `kern/time.c:208` | `realtime` counts the uptime twice |
| `Timekeep!StepsForward` | `kern/timekeep.c:115` | each timehands rounds on its own, so the time can step back by a nanosecond at a tick |
| `Timekeep!CarryOnce` | `kern/timekeep.c:168` | a read that is about to start over can fail the assertion on `tv_nsec` (with `Mask = 9`, `MaxTime = 9`; `tsuptime` has no caller) |
| `Timer!ServedInTime` | `kern/timer.c:91` | an expired timer found when the tick is turned off is due in the far future: the difference is unsigned |
| `Timer!SpuriousHarmless` | `kern/timer.c:187` | after an interrupt before the first timer is due (rounded or clamped, or the one `kern/timer.c:140` speaks of) the device is not set again and the queue is not served |
| `Block!UninitAfterSetup` | `block/block.c:464` | a request that cannot be started fails the assertion in `blk_handler_uninit` |
| `Block!ProviderReferenced` | `block/device.c:114` | the reference of a request is taken after it was started, and may be dropped before |
| `Block!HandlerLeftAlone` | `kern/sync.c:163` | `sync_release` reads `type` and `waiting` of a handler's lock after it gave it up, when the thread whose stack holds it may have returned |
| `Pipe!NoPanic` | `kern/pipe.c:110` | a write after `ringbuf_eof` and before `pipe->closed` fails `assert(!rb->eof)` |
| `Pipe!NoStrandedWriter` | `lib/ringbuf.c:138` | `ringbuf_read_uio` wakes no writer |
| `Pipe!WriteInOrder` | `lib/ringbuf.c:169` | after a partial write the first bytes of the chunk are written again |
| `Pipe!EofReadsZero` | `lib/ringbuf.c:135` | a read at the end returns `-EPIPE`, not 0 |
| `Pipe!EofReachesReader` | `lib/ringbuf.c:56` | a reader that goes to sleep just after the end was announced is not woken |
| `Pipe!BlockingReadWaits` | `lib/ringbuf.c:74` | the `-EAGAIN` of `kern_wait` reaches the program |
| `Pipe!UioInStep` | `lib/ringbuf.c:175` | `uio->size` and the vector get out of step when nothing was written |
| `Pipe!FreedAtMostOnce` | `kern/pipe.c:238` | the error path of `sys_pipe2` frees a pipe that its files have freed |
| `Pipe!TimeBeforeFree` | `kern/pipe.c:220` | `sys_pipe2` stores the time in a pipe that a close of both descriptors may have freed |
| `SingleThread!NobodyWaiting` | `kern/proc.c:289` | the assertion fails when `execve` goes from waiting to killing |
| `SingleThread!RetrySucceeds` | `kern/proc.c:1185` | `proc_exit` asks again without `PROC_ST_EXIT` and gets `-EINTR` |
| `SingleThread!BeatenIsInterrupted` | `kern/proc.c:1152` | the second thread to call `proc_exit` need not be interrupted yet |
| `SingleThread!KillNotWait` | `kern/thread.c:225` | a stop and a kill may cross in `thread_uret` |
| `SingleThread!DeadNotListed` | `kern/proc.c:1153` | the second thread to exit stays on the list of threads |
| `SingleThread!RequestEnds` (with `FairSpec`) | `kern/proc.c:343`, `kern/thread.c:497` | a thread that exits before the requester sleeps, or is created meanwhile, leaves the requester asleep |

`sys_futex` asks for a timeout without `KWAIT_INTR`, which `wait_sleep_timeout`
asserts against (`kern/futex.c:283`), and always looks words up in the private
address space (`kern/futex.c:252`).

Some definitions that no run lists do hold on the instances: the type invariants,
`RemFindsAll`, `OneBuffer`, `SlotsCounted`, `NoStrandedRequest`, `NoStrandedEvent`,
`FreelistExact`, `CoveredNone`, `ReadersReleased` and `QueueSorted`, and those the theorems prove (`WaitingCounts`, `WaitersCounted`,
`WaitingExact`, `LockReleased`, `InterruptableOnlyInSleep`, `NoTimerLeftBehind`,
`HandsAgree`, `OnePlace`, `HaltIsTold`).

## Not modelled

`PROJECT.json` lists every component. Not models by their nature: device register
programming, boot and table set-up, logging, formatting, fonts, compiler support,
user programs, the initial ram disk. Not modelled so far: the process tree, signals
and terminals; the slab allocator, kernel address space, pages, objects, shadows and
address spaces; vnodes, files, paths, mounts and ext2; the device tree, interrupt
threads and dma; spin locks and tlb shootdown; the data structures of `lib/` other
than lists; `BLK_HAND_ASYNC`, which no code uses. The models cover the sleeping,
locking and scheduling core on which these rest, and three of its users.
