--------------------------------- MODULE Pipe ---------------------------------
(* Pipes (kern/pipe.c) over the blocking ring buffer (lib/ringbuf.c, lib/cbuf.c) *)
(* from sys_pipe2 to the close of both ends.  rb->lock is a mutex (module Lock); *)
(* kern_wait compares the fill level and goes to sleep in one step               *)
(* (FutexProofs!KernWakesAll).                                                  *)
EXTENDS Integers, Sequences, FiniteSets

CONSTANTS
    Readers, Writers,   \* the threads that read and write
    PIPE_SIZE,
    CHUNK,              \* the size of the buffer on the stack of the uio functions
    SIZE_MOD,           \* 2^32 in the program: size_t wraps around
    ReadSizes,          \* the sizes of the calls
    WriteSizes,
    NonBlocks,          \* O_NONBLOCK of the two files, a subset of BOOLEAN
    SetupFails,         \* the steps of sys_pipe2 that may fail
    NULL

Threads == Readers \cup Writers
rd == "rd"
wr == "wr"
Files == {rd, wr}
PIPE_READ == rd
PIPE_WRITE == wr
File(t) == IF t \in Readers THEN rd ELSE wr

Sizes == ReadSizes \cup WriteSizes
MaxSize == CHOOSE n \in Sizes : \A m \in Sizes : m <= n
Bytes == 1..MaxSize
EPIPE == -32
EAGAIN == -11       \* also EWOULDBLOCK
EINTR == -4
EFAULT == -14
Errors == {EPIPE, EAGAIN, EINTR, EFAULT}

ASSUME PipeAssumption ==
    /\ Readers \cap Writers = {} /\ NULL \notin Threads \cup Files
    /\ {PIPE_SIZE, CHUNK, SIZE_MOD} \subseteq Nat \ {0} /\ Sizes \subseteq Nat \ {0}
    /\ \A n \in Sizes : n < SIZE_MOD
    /\ NonBlocks \subseteq BOOLEAN
    /\ SetupFails \subseteq {"file0", "file1", "fd", "copyout"}

VARIABLES
    cbuf,       \* the memory, rptr, wptr as offsets, and data
    lock,       \* the owner of rb->lock
    eof,
    closed,     \* pipe->closed
    nonblock,
    ref,        \* the references to the files
    open,       \* the files that have a file descriptor
    cpc,        \* where the close of a file is
    setup,      \* where sys_pipe2 is
    mine,       \* the file whose close sys_pipe2 is in
    frees,      \* how often pipe_free was called
    asleep, woken,  \* the threads in kern_wait, and those a kern_wake has reached
    pc, call,   \* the threads and the locals of their calls
    panic,
    queue,      \* history: the bytes cbuf_write put in and cbuf_read did not take yet
    put         \* history: the bytes of the call so far, or -1 if out of order

vars == <<cbuf, lock, eof, closed, nonblock, ref, open, cpc, setup, mine, frees,
          asleep, woken, pc, call, panic, queue, put>>
rbVars == <<cbuf, lock, eof, asleep, woken, queue, put>>
fileVars == <<closed, nonblock, ref, open, cpc, setup, mine, frees, panic>>

\* buf is the one on the stack, size is uio->size and iov what the vector holds.
NoCall == [size |-> 0, iov |-> 0, prev |-> 0, buf |-> <<>>, moved |-> 0, retv |-> 0]

Pcs == {"out", "rlock", "rwait", "rsleep", "rasleep", "rrelock", "rcopy", "rmove",
        "rlock2", "wcheck", "wmove", "wlock", "wfull", "wsleep", "wasleep", "wrelock",
        "wwake", "wres"}

PipeTypeOK ==
    /\ cbuf.mem \in [0..PIPE_SIZE-1 -> Bytes]
    /\ cbuf.rptr \in 0..PIPE_SIZE-1 /\ cbuf.wptr \in 0..PIPE_SIZE-1
    /\ cbuf.data \in 0..PIPE_SIZE
    /\ lock \in Threads \cup Files \cup {NULL}
    /\ eof \in BOOLEAN /\ closed \subseteq Files /\ nonblock \in NonBlocks
    /\ ref \in [Files -> 0..2 + Cardinality(Threads)]
    /\ open \subseteq Files
    /\ cpc \in [Files -> {"none", "eof", "wake", "or", "closed"}]
    /\ setup \in {"file0", "file1", "fd", "copyout", "ok0", "ok1", "time", "done",
                  "fdfree0", "fdfree1", "unref1", "unref0", "free", "failed"}
    /\ mine \in Files \cup {NULL}
    /\ frees \in 0..2
    /\ asleep \subseteq Threads /\ woken \subseteq Threads
    /\ pc \in [Threads -> Pcs]
    /\ \A t \in Threads : /\ call[t].size \in 0..MaxSize /\ call[t].iov \in 0..MaxSize
                          /\ call[t].moved \in 0..SIZE_MOD-1
                          /\ call[t].retv \in Errors \cup 0..MaxSize
    /\ panic \in BOOLEAN
    /\ put \in [Threads -> -1..MaxSize]

PipeInit ==
    /\ cbuf = [mem |-> [i \in 0..PIPE_SIZE-1 |-> 1], rptr |-> 0, wptr |-> 0, data |-> 0]
    /\ lock = NULL /\ eof = FALSE /\ closed = {}
    /\ nonblock \in NonBlocks
    /\ ref = [f \in Files |-> 0] /\ open = {}
    /\ cpc = [f \in Files |-> "none"] /\ setup = "file0" /\ mine = NULL /\ frees = 0
    /\ asleep = {} /\ woken = {}
    /\ pc = [t \in Threads |-> "out"] /\ call = [t \in Threads |-> NoCall]
    /\ panic = FALSE /\ queue = <<>> /\ put = [t \in Threads |-> 0]

Min(a, b) == IF a < b THEN a ELSE b
Goto(t, from, to) == ~panic /\ pc[t] = from /\ pc' = [pc EXCEPT ![t] = to]
------------------------------------------------------------------------------
cbuf_is_full == cbuf.data = PIPE_SIZE
cbuf_is_empty == cbuf.data = 0

\* What the loops of cbuf_read and cbuf_write copy: up to the end of the memory
\* and on from its start.
cbuf_chunk(n) == [i \in 1..n |-> cbuf.mem[(cbuf.rptr + i - 1) % PIPE_SIZE]]

\* Starts over at the first byte whenever the end of the memory is passed.
cbuf_read_restart(n) ==
    [cbuf EXCEPT !.data = @ - n, !.rptr = IF @ + n >= PIPE_SIZE THEN 0 ELSE @ + n]

cbuf_read(n) == [cbuf EXCEPT !.data = @ - n, !.rptr = (@ + n) % PIPE_SIZE]

cbuf_space == PIPE_SIZE - cbuf.data

cbuf_write(n, buf) ==
    [cbuf EXCEPT !.data = @ + n, !.wptr = (@ + n) % PIPE_SIZE,
        !.mem = [i \in DOMAIN @ |->
                    LET k == ((i - cbuf.wptr) % PIPE_SIZE) + 1
                    IN  IF k <= n THEN buf[k] ELSE @[i]]]
------------------------------------------------------------------------------
sync_acquire(t) == lock = NULL /\ lock' = t
sync_release(t) == lock = t /\ lock' = NULL

\* kern_wake(&rb->buf.data, INT_MAX, 0)
kern_wake == woken' = asleep

\* The last reference to a file closes it.
file_unref(f) ==
    /\ ref' = [ref EXCEPT ![f] = @ - 1]
    /\ cpc' = IF ref[f] = 1 THEN [cpc EXCEPT ![f] = "eof"] ELSE cpc

\* The end of a system call: the thread drops its reference to the file.  Of
\* the result only an error is kept.
Return(t, from, retv) ==
    /\ Goto(t, from, "out")
    /\ call' = [call EXCEPT ![t] = [NoCall EXCEPT !.retv = Min(retv, 0)]]
    /\ file_unref(File(t))
    /\ UNCHANGED <<closed, nonblock, open, setup, mine, frees, panic>>

Begin(t, n) ==
    /\ File(t) \in open
    /\ ref' = [ref EXCEPT ![File(t)] = @ + 1]
    /\ call' = [call EXCEPT ![t] = [size |-> n, iov |-> n, prev |-> n, buf |-> <<>>,
                                    moved |-> 0, retv |-> 0]]
    /\ put' = [put EXCEPT ![t] = 0]
    /\ UNCHANGED <<cbuf, lock, eof, asleep, woken, queue>>
    /\ UNCHANGED <<closed, nonblock, open, cpc, setup, mine, frees, panic>>
------------------------------------------------------------------------------
\* pipe_read and ringbuf_read_uio up to the lock.
pipe_read(t, n) == Goto(t, "out", "rlock") /\ Begin(t, n)

ReadLock(t) ==
    /\ \/ Goto(t, "rlock", "rwait") \/ Goto(t, "rlock2", "rcopy")
    /\ sync_acquire(t)
    /\ UNCHANGED <<cbuf, eof, asleep, woken, queue, put, call, fileVars>>

\* One turn of the loop of ringbuf_rdwait, up to the release in ringbuf_sleep.
ReadWait(t) ==
    /\ pc[t] = "rwait"
    /\ IF ~cbuf_is_empty
       THEN Goto(t, "rwait", "rcopy") /\ UNCHANGED <<rbVars, call, fileVars>>
       ELSE /\ sync_release(t)
            /\ UNCHANGED <<cbuf, eof, asleep, woken, queue, put>>
            /\ IF eof THEN Return(t, "rwait", EPIPE)
               ELSE IF nonblock THEN Return(t, "rwait", EAGAIN)
               ELSE Goto(t, "rwait", "rsleep") /\ UNCHANGED <<call, fileVars>>

kern_wait(t, from, val, slept, awake) ==
    /\ IF cbuf.data # val
       THEN /\ Goto(t, from, awake) /\ call' = [call EXCEPT ![t].retv = EAGAIN]
            /\ UNCHANGED asleep
       ELSE Goto(t, from, slept) /\ asleep' = asleep \cup {t} /\ UNCHANGED call
    /\ UNCHANGED <<cbuf, lock, eof, woken, queue, put, fileVars>>

\* A thread leaves kern_wait because of a wakeup, or of a signal.
Wakeup(t, from, to) ==
    /\ Goto(t, from, to)
    /\ \/ t \in woken /\ call' = [call EXCEPT ![t].retv = 0]
       \/ call' = [call EXCEPT ![t].retv = EINTR]
    /\ asleep' = asleep \ {t} /\ woken' = woken \ {t}
    /\ UNCHANGED <<cbuf, lock, eof, queue, put, fileVars>>

\* An error of ringbuf_sleep ends the call, otherwise the loop goes on.
ReadRelock(t) ==
    /\ pc[t] = "rrelock" /\ lock = NULL
    /\ IF call[t].retv # 0
       THEN Return(t, "rrelock", call[t].retv) /\ UNCHANGED lock
       ELSE Goto(t, "rrelock", "rwait") /\ sync_acquire(t) /\ UNCHANGED <<call, fileVars>>
    /\ UNCHANGED <<cbuf, eof, asleep, woken, queue, put>>

\* A turn of the loop of ringbuf_read_uio: takes a chunk out and drops the lock.
ReadCopy(t) ==
    /\ pc[t] = "rcopy"
    /\ sync_release(t)
    /\ LET n == Min(cbuf.data, Min(call[t].size, CHUNK)) IN
       IF n = 0
       THEN Return(t, "rcopy", call[t].prev - call[t].size) /\ UNCHANGED <<cbuf, queue>>
       ELSE /\ Goto(t, "rcopy", "rmove")
            /\ cbuf' = cbuf_read(n)
            /\ queue' = SubSeq(queue, n + 1, Len(queue))
            /\ call' = [call EXCEPT ![t].buf = cbuf_chunk(n)]
            /\ UNCHANGED fileVars
    /\ UNCHANGED <<eof, asleep, woken, put>>

\* uiomove to the program, which may fault.
ReadMove(t) ==
    /\ \/ Return(t, "rmove", EFAULT)
       \/ /\ Goto(t, "rmove", "rlock2")
          /\ LET c == call[t] IN
             call' = [call EXCEPT ![t] = [c EXCEPT !.size = c.size - Len(c.buf), !.buf = <<>>]]
          /\ UNCHANGED fileVars
    /\ UNCHANGED rbVars
------------------------------------------------------------------------------
\* kern_tkill_cur(SIGPIPE) sets a signal pending, which is not part of the model.
pipe_write(t, n) == Goto(t, "out", "wcheck") /\ Begin(t, n)

WriteCheck(t) ==
    /\ \/ PIPE_READ \in closed /\ Return(t, "wcheck", EPIPE)
       \/ PIPE_READ \notin closed /\ Goto(t, "wcheck", "wmove") /\ UNCHANGED <<call, fileVars>>
    /\ UNCHANGED rbVars

\* A turn of the outer loop of ringbuf_write_uio.  Byte i of the call is i; a
\* vector that holds less than uio->size is read past its end.
WriteMove(t) ==
    /\ pc[t] = "wmove"
    /\ LET c == call[t]
           n == Min(c.size, CHUNK) IN
       \/ n = 0 /\ Return(t, "wmove", c.prev)
       \/ n > 0 /\ Return(t, "wmove", EFAULT)
       \/ /\ n \in 1..c.iov
          /\ Goto(t, "wmove", "wlock")
          /\ call' = [call EXCEPT ![t] =
                        [c EXCEPT !.size = c.size - n, !.iov = c.iov - n, !.moved = n, !.retv = n,
                                  !.buf = [i \in 1..n |-> c.prev - c.iov + i]]]
          /\ UNCHANGED fileVars
    /\ UNCHANGED rbVars

\* ringbuf_write up to the loop, with the assertion on eof.
WriteLock(t) ==
    /\ Goto(t, "wlock", "wfull")
    /\ sync_acquire(t)
    /\ panic' = eof
    /\ UNCHANGED <<cbuf, eof, asleep, woken, queue, put, call>>
    /\ UNCHANGED <<closed, nonblock, ref, open, cpc, setup, mine, frees>>

\* A turn of the loop of ringbuf_write, and the write that follows it.
WriteFull(t) ==
    /\ pc[t] = "wfull"
    /\ IF cbuf_is_full
       THEN /\ sync_release(t)
            /\ IF nonblock
               THEN Goto(t, "wfull", "wres") /\ call' = [call EXCEPT ![t].retv = 0]
               ELSE Goto(t, "wfull", "wsleep") /\ UNCHANGED call
            /\ UNCHANGED <<cbuf, queue, put>>
       ELSE LET n == Min(cbuf_space, call[t].retv) IN
            /\ Goto(t, "wfull", "wwake")
            /\ cbuf' = cbuf_write(n, call[t].buf)
            /\ queue' = queue \o SubSeq(call[t].buf, 1, n)
            /\ put' = [put EXCEPT ![t] = IF @ + 1 = call[t].buf[1] THEN @ + n ELSE -1]
            /\ call' = [call EXCEPT ![t].retv = n]
            /\ UNCHANGED lock
    /\ UNCHANGED <<eof, asleep, woken, fileVars>>

\* Leaves the waiters to the next write.
WriteWake_none(t) ==
    /\ Goto(t, "wwake", "wres")
    /\ sync_release(t)
    /\ UNCHANGED <<cbuf, eof, asleep, woken, queue, put, call, fileVars>>

WriteWake(t) ==
    /\ Goto(t, "wwake", "wres")
    /\ kern_wake /\ sync_release(t)
    /\ UNCHANGED <<cbuf, eof, asleep, queue, put, call, fileVars>>

\* ringbuf_write_uio adds moved back to uio->size before it returns the error.
WriteRelock(t) ==
    /\ pc[t] = "wrelock" /\ lock = NULL
    /\ IF call[t].retv # 0
       THEN Return(t, "wrelock", call[t].retv) /\ UNCHANGED lock
       ELSE Goto(t, "wrelock", "wfull") /\ sync_acquire(t) /\ UNCHANGED <<call, fileVars>>
    /\ UNCHANGED <<cbuf, eof, asleep, woken, queue, put>>

\* The inner loop of ringbuf_write_uio after a call of ringbuf_write.
WriteResult(t) ==
    /\ pc[t] = "wres"
    /\ LET c == call[t]
           left == (c.moved - c.retv) % SIZE_MOD IN
       IF c.retv = 0 /\ nonblock
       THEN Goto(t, "wres", "wmove") /\ call' = [call EXCEPT ![t].size = @ + c.moved]
       ELSE /\ IF left = 0 THEN Goto(t, "wres", "wmove") ELSE Goto(t, "wres", "wlock")
            /\ call' = [call EXCEPT ![t].moved = left]
    /\ UNCHANGED <<rbVars, fileVars>>
------------------------------------------------------------------------------
\* fdfree, by any thread of a process that has the descriptor; it is there to be
\* closed from fdalloc2 on, before sys_pipe2 returns.
Close(f) ==
    /\ ~panic /\ f \in open
    /\ open' = open \ {f}
    /\ file_unref(f)
    /\ UNCHANGED <<rbVars, closed, nonblock, setup, mine, frees, pc, call, panic>>

CloseGoto(f, from, to) == ~panic /\ cpc[f] = from /\ cpc' = [cpc EXCEPT ![f] = to]

\* ringbuf_eof: the flag is set with the lock held, the wakeup comes after it.
CloseEof(f) ==
    /\ CloseGoto(f, "eof", "wake") /\ lock = NULL
    /\ eof' = TRUE
    /\ UNCHANGED <<cbuf, lock, asleep, woken, queue, put, pc, call>>
    /\ UNCHANGED <<closed, nonblock, ref, open, setup, mine, frees, panic>>

\* Sets eof and lets the waiters sleep.
CloseWake_none(f) ==
    /\ CloseGoto(f, "wake", "or")
    /\ UNCHANGED <<rbVars, pc, call, closed, nonblock, ref, open, setup, mine, frees, panic>>

CloseWake(f) ==
    /\ CloseGoto(f, "wake", "or")
    /\ kern_wake
    /\ UNCHANGED <<cbuf, lock, eof, asleep, queue, put, pc, call>>
    /\ UNCHANGED <<closed, nonblock, ref, open, setup, mine, frees, panic>>

\* Frees the pipe whether or not the other end is closed.
CloseOr_always(f) ==
    /\ CloseGoto(f, "or", "closed")
    /\ closed' = closed \cup {f}
    /\ frees' = frees + 1
    /\ UNCHANGED <<rbVars, nonblock, ref, open, setup, mine, pc, call, panic>>

CloseOr(f) ==
    /\ CloseGoto(f, "or", "closed")
    /\ closed' = closed \cup {f}
    /\ frees' = IF closed \ {f} # {} THEN frees + 1 ELSE frees
    /\ UNCHANGED <<rbVars, nonblock, ref, open, setup, mine, pc, call, panic>>
------------------------------------------------------------------------------
\* A step of sys_pipe2, once a close that it is in itself has returned.
SetupGoto(from, to) ==
    /\ ~panic /\ setup = from /\ setup' = to
    /\ \A f \in Files : f = mine => cpc[f] = "closed"
SetupKeep == mine' = NULL /\ UNCHANGED <<rbVars, closed, nonblock, pc, call>>

\* file_alloc for the two ends; a file without a pipe is closed if the second fails.
SetupFiles ==
    /\ \/ SetupGoto("file0", "file1") /\ ref' = [ref EXCEPT ![rd] = 1] /\ UNCHANGED <<frees, panic>>
       \/ /\ "file0" \in SetupFails /\ SetupGoto("file0", "failed")
          /\ frees' = frees + 1 /\ UNCHANGED <<ref, panic>>
       \/ SetupGoto("file1", "fd") /\ ref' = [ref EXCEPT ![wr] = 1] /\ UNCHANGED <<frees, panic>>
       \/ /\ "file1" \in SetupFails /\ SetupGoto("file1", "failed")
          /\ panic' = TRUE /\ UNCHANGED <<ref, frees>>
    /\ SetupKeep /\ UNCHANGED <<open, cpc>>

fdalloc2 ==
    /\ \/ /\ SetupGoto("fd", "copyout")
          /\ ref' = [f \in Files |-> ref[f] + 1] /\ open' = Files
       \/ "fd" \in SetupFails /\ SetupGoto("fd", "unref1") /\ UNCHANGED <<ref, open>>
    /\ SetupKeep /\ UNCHANGED <<cpc, frees, panic>>

SetupCopyout ==
    /\ \/ SetupGoto("copyout", "ok0")
       \/ "copyout" \in SetupFails /\ SetupGoto("copyout", "fdfree0")
    /\ SetupKeep /\ UNCHANGED <<ref, open, cpc, frees, panic>>

\* The label err_cpyout: fdfree finds no file if another thread was there first
\* (a descriptor that has been used again by then is not modelled).
SetupFdfree ==
    /\ \/ SetupGoto("fdfree0", "fdfree1") /\ open' = open \ {rd}
       \/ SetupGoto("fdfree1", "unref1") /\ open' = open \ {wr}
    /\ ref' = [f \in Files |-> IF f \in open \ open' THEN ref[f] - 1 ELSE ref[f]]
    /\ SetupKeep /\ UNCHANGED <<cpc, frees, panic>>

\* The references of sys_pipe2 are dropped, those of the read end first if all
\* went well, and last at the labels err_fd and err_wr_file.
SetupUnref ==
    /\ \E f \in Files :
          /\ \/ f = rd /\ (SetupGoto("ok0", "ok1") \/ SetupGoto("unref0", "free"))
             \/ f = wr /\ (SetupGoto("ok1", "time") \/ SetupGoto("unref1", "unref0"))
          /\ file_unref(f)
          /\ mine' = IF ref[f] = 1 THEN f ELSE NULL
    /\ UNCHANGED <<rbVars, closed, nonblock, pc, call, open, frees, panic>>

\* realtime(&pipe->time) without a reference to a file.
SetupTime ==
    /\ SetupGoto("time", "done")
    /\ SetupKeep /\ UNCHANGED <<ref, open, cpc, frees, panic>>

\* The label err_rd_file.
SetupFree ==
    /\ SetupGoto("free", "failed")
    /\ frees' = frees + 1
    /\ SetupKeep /\ UNCHANGED <<ref, open, cpc, panic>>
------------------------------------------------------------------------------
ReadSleep(t) == kern_wait(t, "rsleep", 0, "rasleep", "rrelock")
WriteSleep(t) == kern_wait(t, "wsleep", PIPE_SIZE, "wasleep", "wrelock")

Step(t) ==
    \/ ReadLock(t) \/ ReadWait(t) \/ ReadSleep(t) \/ Wakeup(t, "rasleep", "rrelock")
    \/ ReadRelock(t) \/ ReadCopy(t) \/ ReadMove(t)
    \/ WriteCheck(t) \/ WriteMove(t) \/ WriteLock(t) \/ WriteFull(t) \/ WriteWake(t)
    \/ WriteSleep(t) \/ Wakeup(t, "wasleep", "wrelock") \/ WriteRelock(t) \/ WriteResult(t)

CloseStep(f) == CloseEof(f) \/ CloseWake(f) \/ CloseOr(f)
Setup ==
    \/ SetupFiles \/ fdalloc2 \/ SetupCopyout \/ SetupFdfree \/ SetupUnref
    \/ SetupTime \/ SetupFree

Next ==
    \/ \E t \in Readers, n \in ReadSizes : pipe_read(t, n)
    \/ \E t \in Writers, n \in WriteSizes : pipe_write(t, n)
    \/ \E t \in Threads : Step(t)
    \/ \E f \in Files : Close(f) \/ CloseStep(f)
    \/ Setup

Spec == PipeInit /\ [][Next]_vars

\* A thread gets the mutex in the end (Mutex!FreeLockTaken); a thread that a wakeup has
\* reached runs on.  Nothing is assumed of signals, of new calls and of closes.
Fairness ==
    /\ \A t \in Threads : SF_vars(Step(t) /\ (pc[t] \in {"rasleep", "wasleep"} => t \in woken))
    /\ SF_vars(\E f \in Files : CloseStep(f))
FairSpec == Spec /\ Fairness
------------------------------------------------------------------------------
\* What cbuf_read takes out is what cbuf_write put in, in that order and once
\* (cbuf.c:52-92), wherever in the memory the two pointers are.
ReadsInOrder ==
    [][\A t \in Readers : pc[t] = "rcopy" /\ pc'[t] = "rmove"
            => queue = call'[t].buf \o queue']_vars

\* No reader is left asleep while there is data: the wakeup has reached it or is
\* about to (ringbuf.c:117), and a level that changes before the sleep is noticed.
NoStrandedReader ==
    \A t \in (Readers \cap asleep) \ woken :
        cbuf.data > 0 => \/ \E w \in Writers : pc[w] = "wwake"
                         \/ \E f \in Files : cpc[f] = "wake"

\* The closes free the pipe once, when both ends are closed, and never under a
\* call or a close that still uses it (pipe.c:89-94), whoever drops the last
\* references and although the descriptors can be closed before sys_pipe2 returns.
\* Once sys_pipe2 has failed it has freed the pipe as well (FreedAtMostOnce).
FreedOnce ==
    setup # "failed" =>
    /\ frees <= 1
    /\ frees = 1 => /\ \A t \in Threads : pc[t] = "out"
                    /\ \A f \in Files : cpc[f] \in {"none", "closed"}

\* The error path of sys_pipe2 frees what its closes have not (pipe.c:238).
FreedAtMostOnce == frees <= 1

\* sys_pipe2 writes the time of the pipe (pipe.c:220) while the pipe exists.
TimeBeforeFree == setup = "time" => frees = 0

\* Nobody holds the mutex while it sleeps or after its call (ringbuf.c:55, 94, 151).
LockReleased ==
    \A t \in Threads : lock = t <=> pc[t] \in {"rwait", "rcopy", "wfull", "wwake"}

\* A reader that is asleep and has not been woken when the last writer closes the
\* pipe returns (ringbuf.c:44-49).
EofEndsRead ==
    \A t \in Readers :
        (pc[t] = "rasleep" /\ t \notin woken /\ cpc[wr] = "eof") ~> (pc[t] = "out")

\* Nor is a reader left asleep at the end of the data (ringbuf.h:45-47).
EofReachesReader ==
    \A t \in (Readers \cap asleep) \ woken : eof => \E f \in Files : cpc[f] = "wake"

\* Writing to a buffer that is at its end is ruled out (ringbuf.c:102).
NoPanic == ~panic

\* A writer waits for free space and no longer (ringbuf.h:32).
NoStrandedWriter ==
    \A t \in (Writers \cap asleep) \ woken :
        cbuf.data < PIPE_SIZE => \E r \in Readers : pc[r] \in {"rmove", "rlock2", "rcopy"}

\* A write puts the bytes of its caller into the buffer, each of them once
\* (ringbuf.h:34).
WriteInOrder == \A t \in Writers : put[t] # -1

\* At the end of the data a read returns 0 (ringbuf.h:45-47).
EofReadsZero == \A t \in Readers : call[t].retv # EPIPE

\* Without RB_NOBLOCK a read waits for data (ringbuf.h:42-48).
BlockingReadWaits == \A t \in Readers : pc[t] = "out" /\ ~nonblock => call[t].retv # EAGAIN

\* A write that finds no space returns instead of reading on past the vector of
\* its caller (ringbuf.h:33).
UioInStep == \A t \in Writers : pc[t] = "wmove" => call[t].size <= call[t].iov
==============================================================================
