-------------------------------- MODULE Block --------------------------------
(* Block input and output: requests and their handlers (block/block.c), the     *)
(* queue of a device (block/device.c), the event thread (block/event.c), page   *)
(* transfers of files (vfs/generic.c) and the ATA channel that serves the       *)
(* requests (drivers/disk/ata/ata.c).  A request is named by the thread it is   *)
(* for; every section of a lock is one step.  kern_wait compares and sleeps in  *)
(* one step, which is what module Futex shows of it, and every word that is     *)
(* waited for here has one waiter.                                              *)
EXTENDS Integers, Sequences, FiniteSets

CONSTANTS
    Users,      \* threads that do input or output
    Chans,      \* the channels; a channel also stands for its interrupt thread
    Blocks,     \* the blocks of a page
    Kinds,      \* the calls that are made, "io" and "page"
    Errors,     \* whether the device and vnode_bmap may fail
    Width,      \* blk_event_count counts modulo this number
    MaxRef,     \* bounds the references that are never dropped
    NULL

ASSUME BlockAssumption ==
    /\ Users \cap Chans = {} /\ NULL \notin Users \cup Chans
    /\ IsFiniteSet(Users) /\ IsFiniteSet(Chans)
    /\ Blocks \in Nat /\ MaxRef \in Nat /\ Width \in Nat /\ Width > Cardinality(Chans) + 1

VARIABLES
    hand,       \* the blk_handler_t of a thread
    op,         \* what a thread is doing
    pc,         \* of the threads and of the interrupt threads
    avail, pending, running, qlock,  \* the blk_req_queue_t of a channel
    request,    \* chan->request
    cmd,        \* the device has a command, or an interrupt is on its way
    ref,        \* the references to the provider of the channel's disk
    evq, count, \* blk_event_queue and blk_event_count
    ev          \* the event thread

userVars == <<hand, op>>
queueVars == <<avail, pending, running, qlock>>
devVars == <<request, cmd, ref>>
evVars == <<evq, count, ev>>
vars == <<userVars, pc, queueVars, devVars, evVars>>

Actors == Users \cup Chans
MaxReq == 1         \* ata.c asks for a queue with one request at a time
Mounted == 2        \* the references of the registration and of the mount

UserPcs == {"out", "loop", "request", "devstart", "qdone", "ev_add", "ev_inc", "ev_wake",
            "reqdone", "ref", "start", "wait", "asleep", "woken", "uninit"}
IntrPcs == {"out", "qdone", "ev_add", "ev_inc", "ev_wake", "unref", "reqdone", "rel"}
EvPcs == {"check", "wait", "asleep", "pop", "dec", "callback", "devstart", "rel", "relock"}

\* setup is BLK_HAND_SETUP; live holds from blk_handler_init to blk_handler_uninit.
NoHand == [live |-> FALSE, setup |-> FALSE, num |-> 0, done |-> 0, err |-> FALSE]
NoOp == [page |-> FALSE, chan |-> NULL, blk |-> 0, seen |-> 0, err |-> FALSE, req |-> NULL]

BlockTypeOK ==
    /\ hand \in [Users -> [live : BOOLEAN, setup : BOOLEAN, num : 0..Blocks + 1,
                           done : 0..Blocks + 1, err : BOOLEAN]]
    /\ op \in [Actors -> [page : BOOLEAN, chan : Chans \cup {NULL}, blk : 0..Blocks,
                          seen : 0..Blocks, err : BOOLEAN, req : Users \cup {NULL}]]
    /\ pc \in [Actors -> UserPcs \cup IntrPcs]
    /\ avail \in [Chans -> 0..MaxReq]
    /\ DOMAIN pending = Chans /\ \A c \in Chans : pending[c] \in Seq(Users)
    /\ running \in [Chans -> BOOLEAN]
    /\ qlock \in [Chans -> Actors \cup {NULL}]
    /\ request \in [Chans -> Users \cup {NULL}]
    /\ cmd \in [Chans -> BOOLEAN]
    /\ ref \in [Chans -> Nat]
    /\ evq \in Seq(Chans)
    /\ count \in 0..Width - 1
    /\ ev \in [pc : EvPcs, chan : Chans \cup {NULL}, req : Users \cup {NULL}]

\* blk_req_queue_alloc, blk_event_init and a mounted file system.
BlockInit ==
    /\ hand = [u \in Users |-> NoHand]
    /\ op = [a \in Actors |-> NoOp]
    /\ pc = [a \in Actors |-> "out"]
    /\ avail = [c \in Chans |-> MaxReq]
    /\ pending = [c \in Chans |-> <<>>]
    /\ running = [c \in Chans |-> FALSE]
    /\ qlock = [c \in Chans |-> NULL]
    /\ request = [c \in Chans |-> NULL]
    /\ cmd = [c \in Chans |-> FALSE]
    /\ ref = [c \in Chans |-> Mounted]
    /\ evq = <<>>
    /\ count = 0
    /\ ev = [pc |-> "check", chan |-> NULL, req |-> NULL]

Goto(a, from, to) == pc[a] = from /\ pc' = [pc EXCEPT ![a] = to]
Chan(a) == IF a \in Chans THEN a ELSE op[a].chan
------------------------------------------------------------------------------
(* Handlers.                                                                    *)

blk_handler_init(u) == hand' = [hand EXCEPT ![u] = [NoHand EXCEPT !.live = TRUE]]

\* blk_io
IoBegin(u, c) ==
    /\ "io" \in Kinds
    /\ Goto(u, "out", "request")
    /\ hand' = [hand EXCEPT ![u] = [NoHand EXCEPT !.live = TRUE, !.num = 1]]
    /\ op' = [op EXCEPT ![u] = [NoOp EXCEPT !.chan = c]]
    /\ UNCHANGED <<queueVars, devVars, evVars>>

\* vop_generic_page_rdwr
PageBegin(u, c) ==
    /\ "page" \in Kinds
    /\ Goto(u, "out", "loop")
    /\ blk_handler_init(u)
    /\ op' = [op EXCEPT ![u] = [NoOp EXCEPT !.chan = c, !.page = TRUE]]
    /\ UNCHANGED <<queueVars, devVars, evVars>>

\* A block of a hole is not read from disk.
PageHole(u) ==
    /\ Goto(u, "loop", "loop")
    /\ op[u].blk < Blocks
    /\ op' = [op EXCEPT ![u].blk = @ + 1]
    /\ UNCHANGED <<hand, queueVars, devVars, evVars>>

\* vnode_bmap fails and blk_abort waits for what was launched.
PageAbort(u) ==
    /\ Errors
    /\ Goto(u, "loop", "start")
    /\ op[u].blk < Blocks
    /\ op' = [op EXCEPT ![u].err = TRUE]
    /\ UNCHANGED <<hand, queueVars, devVars, evVars>>

\* blk_req_new counts the request before it is launched.
PageRequest(u) ==
    /\ Goto(u, "loop", "request")
    /\ op[u].blk < Blocks
    /\ op' = [op EXCEPT ![u].blk = @ + 1]
    /\ hand' = [hand EXCEPT ![u].num = @ + 1]
    /\ UNCHANGED <<queueVars, devVars, evVars>>

PageEnd(u) ==
    /\ Goto(u, "loop", "start")
    /\ op[u].blk = Blocks
    /\ UNCHANGED <<userVars, queueVars, devVars, evVars>>

\* Waits although everything is done.
HandlerStart_blind(u) ==
    /\ Goto(u, "start", "wait")
    /\ hand' = [hand EXCEPT ![u].setup = TRUE]
    /\ op' = [op EXCEPT ![u].seen = hand[u].done]
    /\ UNCHANGED <<queueVars, devVars, evVars>>

\* blk_handler_start and blk_abort.  No caller makes a handler with BLK_HAND_ASYNC;
\* what the flag would change here and in blk_req_done is left out.
HandlerStart(u) ==
    /\ pc[u] \in {"start", "woken"}
    /\ hand' = [hand EXCEPT ![u].setup = TRUE]
    /\ IF hand[u].done = hand[u].num
       THEN /\ pc' = [pc EXCEPT ![u] = "uninit"]
            /\ op' = [op EXCEPT ![u].err = @ \/ hand[u].err]
       ELSE /\ pc' = [pc EXCEPT ![u] = "wait"]
            /\ op' = [op EXCEPT ![u].seen = hand[u].done]
    /\ UNCHANGED <<queueVars, devVars, evVars>>

kern_wait(u) ==
    /\ Goto(u, "wait", IF hand[u].done = op[u].seen THEN "asleep" ELSE "woken")
    /\ UNCHANGED <<userVars, queueVars, devVars, evVars>>

\* blk_handler_uninit, and the call returns.
Uninit(u) ==
    /\ Goto(u, "uninit", "out")
    /\ hand' = [hand EXCEPT ![u] = NoHand]
    /\ op' = [op EXCEPT ![u] = NoOp]
    /\ UNCHANGED <<queueVars, devVars, evVars>>

\* Frees its caller to use the handler while requests are outstanding.
PcAfterDone_any(u) == IF pc[u] = "asleep" THEN [pc EXCEPT ![u] = "uninit"] ELSE pc

\* The thread is woken if the handler is set up and this was the last request.
PcAfterDone(u) ==
    IF hand[u].done + 1 < hand[u].num \/ ~hand[u].setup \/ pc[u] # "asleep"
    THEN pc ELSE [pc EXCEPT ![u] = "woken"]

\* The section of the handler's lock in blk_req_done, up to the exchange by which
\* sync_release gives the lock away; the actor goes on at l.
blk_req_done(u, err, a, l) ==
    /\ hand' = [hand EXCEPT ![u].done = @ + 1, ![u].err = @ \/ err]
    /\ pc' = IF a = NULL THEN PcAfterDone(u) ELSE [PcAfterDone(u) EXCEPT ![a] = l]
------------------------------------------------------------------------------
(* The queue of a device.                                                       *)

\* blk_dev_request
Request(u) ==
    LET c == op[u].chan IN
    /\ pc[u] = "request"
    /\ qlock[c] = NULL
    /\ IF avail[c] > 0
       THEN /\ avail' = [avail EXCEPT ![c] = @ - 1]
            /\ Goto(u, "request", "devstart")
            /\ UNCHANGED pending
       ELSE /\ pending' = [pending EXCEPT ![c] = Append(@, u)]
            /\ Goto(u, "request", "ref")
            /\ UNCHANGED avail
    /\ UNCHANGED <<userVars, running, qlock, devVars, evVars>>

\* ata_start_req: the command is given to the device, or an error is returned.
AtaStart(c, u) == request' = [request EXCEPT ![c] = u] /\ cmd' = [cmd EXCEPT ![c] = TRUE]

StartOk(u) ==
    /\ Goto(u, "devstart", "ref")
    /\ AtaStart(op[u].chan, u)
    /\ UNCHANGED <<userVars, queueVars, ref, evVars>>

StartError(u) ==
    /\ Errors
    /\ Goto(u, "devstart", "qdone")
    /\ op' = [op EXCEPT ![u].err = TRUE]
    /\ UNCHANGED <<hand, queueVars, devVars, evVars>>

\* The reference is taken when the request is already under way.
RefProvider(u) ==
    /\ Goto(u, "ref", IF op[u].page THEN "loop" ELSE "start")
    /\ ref' = [ref EXCEPT ![op[u].chan] = @ + 1]
    /\ UNCHANGED <<userVars, queueVars, request, cmd, evVars>>

\* blk_req_launch completes a request that was not started; blk_io then returns
\* without blk_handler_start, and a page transfer calls blk_abort.
LaunchError(u) ==
    /\ pc[u] = "reqdone"
    /\ blk_req_done(u, TRUE, u, IF op[u].page THEN "start" ELSE "uninit")
    /\ UNCHANGED <<op, queueVars, devVars, evVars>>

AfterQueueDone(a) == IF a \in Chans THEN "unref" ELSE "reqdone"

\* Adds the event again while the callback runs.
QueueDone_again(a) ==
    LET c == Chan(a) IN
    /\ pc[a] = "qdone"
    /\ qlock[c] = NULL
    /\ avail' = [avail EXCEPT ![c] = @ + 1]
    /\ IF pending[c] # <<>>
       THEN /\ running' = [running EXCEPT ![c] = TRUE]
            /\ qlock' = [qlock EXCEPT ![c] = a]
            /\ Goto(a, "qdone", "ev_add")
       ELSE /\ Goto(a, "qdone", AfterQueueDone(a))
            /\ UNCHANGED <<running, qlock>>
    /\ UNCHANGED <<userVars, pending, devVars, evVars>>

\* blk_req_queue_done: the event is added with queue->lock held.
QueueDone(a) ==
    LET c == Chan(a) IN
    /\ pc[a] = "qdone"
    /\ qlock[c] = NULL
    /\ avail' = [avail EXCEPT ![c] = @ + 1]
    /\ IF pending[c] # <<>> /\ ~running[c]
       THEN /\ running' = [running EXCEPT ![c] = TRUE]
            /\ qlock' = [qlock EXCEPT ![c] = a]
            /\ Goto(a, "qdone", "ev_add")
       ELSE /\ Goto(a, "qdone", AfterQueueDone(a))
            /\ UNCHANGED <<running, qlock>>
    /\ UNCHANGED <<userVars, pending, devVars, evVars>>
------------------------------------------------------------------------------
(* The interrupt thread of a channel.                                           *)

\* ata_intr_thr: the device has answered the command of chan->request.
ata_intr_thr(c, err) ==
    /\ cmd[c]
    /\ Goto(c, "out", "qdone")
    /\ op' = [op EXCEPT ![c] = [NoOp EXCEPT !.req = request[c], !.err = err]]
    /\ request' = [request EXCEPT ![c] = NULL]
    /\ cmd' = [cmd EXCEPT ![c] = FALSE]
    /\ UNCHANGED <<hand, queueVars, ref, evVars>>

\* blk_provider_unref; the last reference is a panic.
UnrefProvider(c) ==
    /\ Goto(c, "unref", "reqdone")
    /\ ref' = [ref EXCEPT ![c] = @ - 1]
    /\ UNCHANGED <<userVars, queueVars, request, cmd, evVars>>

DevReqDone(c) ==
    /\ pc[c] = "reqdone"
    /\ blk_req_done(op[c].req, op[c].err, c, "rel")
    /\ UNCHANGED <<op, queueVars, devVars, evVars>>

\* The rest of sync_release, which reads the type and the waiters of the lock.
DevRelease(c) ==
    /\ Goto(c, "rel", "out")
    /\ op' = [op EXCEPT ![c] = NoOp]
    /\ UNCHANGED <<hand, queueVars, devVars, evVars>>
------------------------------------------------------------------------------
(* Events.                                                                      *)

\* Unlocks the queue before the event is counted.
EventAppend_unlock(a) ==
    /\ Goto(a, "ev_add", "ev_inc")
    /\ evq' = Append(evq, Chan(a))
    /\ qlock' = [qlock EXCEPT ![Chan(a)] = NULL]
    /\ UNCHANGED <<userVars, avail, pending, running, devVars, count, ev>>

\* blk_event_add: the event is on the queue before it is counted.
EventAppend(a) ==
    /\ Goto(a, "ev_add", "ev_inc")
    /\ evq' = Append(evq, Chan(a))
    /\ UNCHANGED <<userVars, queueVars, devVars, count, ev>>

EventInc(a) ==
    /\ Goto(a, "ev_inc", "ev_wake")
    /\ count' = (count + 1) % Width
    /\ UNCHANGED <<userVars, queueVars, devVars, evq, ev>>

\* kern_wake, and blk_req_queue_done returns.
EventWake(a) ==
    /\ Goto(a, "ev_wake", AfterQueueDone(a))
    /\ ev' = IF ev.pc = "asleep" THEN [ev EXCEPT !.pc = "check"] ELSE ev
    /\ qlock' = [qlock EXCEPT ![Chan(a)] = NULL]
    /\ UNCHANGED <<userVars, avail, pending, running, devVars, evq, count>>

EvGoto(from, to) == ev.pc = from /\ ev' = [ev EXCEPT !.pc = to]

\* list_pop_front; l is where blk_event_loop goes with an empty queue.
EventPop(from, l) ==
    IF evq = <<>>
    THEN EvGoto(from, l) /\ UNCHANGED evq
    ELSE /\ ev' = [ev EXCEPT !.pc = "dec", !.chan = Head(evq)]
         /\ evq' = Tail(evq)

\* blk_event_loop, under blk_event_lock: with a count it looks for an event, and
\* looks again if there is none.
EventCheck ==
    /\ ev.pc = "check"
    /\ IF count = 0
       THEN EvGoto("check", "wait") /\ UNCHANGED evq
       ELSE EventPop("check", "check")
    /\ UNCHANGED <<userVars, pc, queueVars, devVars, count>>

EventWait ==
    /\ EvGoto("wait", IF count = 0 THEN "asleep" ELSE "check")
    /\ UNCHANGED <<userVars, pc, queueVars, devVars, evq, count>>

EventNext ==
    /\ ev.pc = "pop"
    /\ EventPop("pop", "check")
    /\ UNCHANGED <<userVars, pc, queueVars, devVars, count>>

EventDec ==
    /\ EvGoto("dec", "callback")
    /\ count' = (count - 1) % Width
    /\ UNCHANGED <<userVars, pc, queueVars, devVars, evq>>

\* blk_req_queue_callback starts requests as long as the device takes them.
Callback ==
    LET c == ev.chan IN
    /\ ev.pc = "callback"
    /\ qlock[c] = NULL
    /\ IF avail[c] > 0 /\ pending[c] # <<>>
       THEN /\ avail' = [avail EXCEPT ![c] = @ - 1]
            /\ pending' = [pending EXCEPT ![c] = Tail(@)]
            /\ ev' = [ev EXCEPT !.pc = "devstart", !.req = Head(pending[c])]
            /\ UNCHANGED running
       ELSE /\ running' = [running EXCEPT ![c] = FALSE]
            /\ ev' = [ev EXCEPT !.pc = "pop", !.chan = NULL, !.req = NULL]
            /\ UNCHANGED <<avail, pending>>
    /\ UNCHANGED <<userVars, pc, qlock, devVars, evq, count>>

CallbackStartOk ==
    /\ EvGoto("devstart", "callback")
    /\ AtaStart(ev.chan, ev.req)
    /\ UNCHANGED <<userVars, pc, queueVars, ref, evq, count>>

\* The request is completed without the reference blk_dev_request took being
\* dropped; MaxRef bounds how often.
CallbackStartError ==
    /\ Errors
    /\ EvGoto("devstart", "rel")
    /\ ref[ev.chan] < MaxRef
    /\ blk_req_done(ev.req, TRUE, NULL, "")
    /\ UNCHANGED <<op, queueVars, devVars, evq, count>>

CallbackRelease ==
    /\ ev.pc = "rel"
    /\ ev' = [ev EXCEPT !.pc = "relock", !.req = NULL]
    /\ UNCHANGED <<userVars, pc, queueVars, devVars, evq, count>>

CallbackRelock ==
    /\ EvGoto("relock", "callback")
    /\ qlock[ev.chan] = NULL
    /\ avail' = [avail EXCEPT ![ev.chan] = @ + 1]
    /\ UNCHANGED <<userVars, pc, pending, running, qlock, devVars, evq, count>>
------------------------------------------------------------------------------
Panic == \E c \in Chans : ref[c] = 0

UserStep(u) ==
    \/ PageHole(u) \/ PageAbort(u) \/ PageRequest(u) \/ PageEnd(u) \/ HandlerStart(u)
    \/ kern_wait(u) \/ Uninit(u) \/ Request(u) \/ StartOk(u) \/ StartError(u)
    \/ RefProvider(u) \/ LaunchError(u)

QueueStep(a) == QueueDone(a) \/ EventAppend(a) \/ EventInc(a) \/ EventWake(a)

IntrStep(c) ==
    (\E err \in {FALSE, Errors} : ata_intr_thr(c, err)) \/ UnrefProvider(c)
    \/ DevReqDone(c) \/ DevRelease(c)

EventStep ==
    \/ EventCheck \/ EventWait \/ EventNext \/ EventDec
    \/ Callback \/ CallbackStartOk \/ CallbackStartError \/ CallbackRelease \/ CallbackRelock

Next ==
    /\ ~Panic
    /\ \/ \E u \in Users : \/ \E c \in Chans : IoBegin(u, c) \/ PageBegin(u, c)
                           \/ UserStep(u)
       \/ \E a \in Actors : QueueStep(a)
       \/ \E c \in Chans : IntrStep(c)
       \/ EventStep

Spec == BlockInit /\ [][Next]_vars
------------------------------------------------------------------------------
\* Who has taken the slot of channel c from queue->avail.
SlotHolders(c) ==
    {a \in Actors : \/ a \in Users /\ pc[a] \in {"devstart", "qdone"} /\ op[a].chan = c
                    \/ a = c /\ pc[a] = "qdone"}
    \cup (IF ev.chan = c /\ ev.pc \in {"devstart", "rel", "relock"} THEN {"event"} ELSE {})
    \cup (IF request[c] # NULL THEN {"device"} ELSE {})

\* A channel has one request at a time: the assertions chan->request == NULL
\* (ata.c:372) and queue->avail < queue->maxreq (device.c:73) hold, whichever of
\* the launching threads, the callback and the interrupt thread runs when.
SlotsCounted == \A c \in Chans : avail[c] + Cardinality(SlotHolders(c)) = MaxReq

\* The requests of thread u that are somewhere between launch and completion.
InFlight(u) ==
    \/ \E c \in Chans : \/ u = request[c] \/ \E i \in 1..Len(pending[c]) : pending[c][i] = u
                        \/ op[c].req = u /\ pc[c] # "rel"
    \/ ev.req = u /\ ev.pc = "devstart"

\* A call only returns when none of its requests is under way: every completion
\* of its requests has been through the section of the handler's lock, whether it
\* came before, during or after blk_handler_start (block.c:340-349).
QuietAfterReturn == \A u \in Users : pc[u] \in {"out", "uninit"} => ~InFlight(u)

\* Nobody uses a handler, which is on its thread's stack, after the thread has left
\* it; it is not safe to do so once the lock is released (block.c:399-403).
HandlerLeftAlone ==
    \A u \in Users : ~hand[u].live =>
        /\ \A c \in Chans : ~(pc[c] = "rel" /\ op[c].req = u)
        /\ ~(ev.pc = "rel" /\ ev.req = u)

\* A thread sleeps in blk_handler_start only while a request of its own is under
\* way, so that the completion of the last one is still to wake it.
SleeperServed ==
    \A u \in Users : pc[u] = "asleep" => hand[u].done < hand[u].num /\ InFlight(u)

\* Requests do not wait for a device that is idle: there is a slot in use, or the
\* callback that starts them is on its way.
NoStrandedRequest ==
    \A c \in Chans : pending[c] # <<>> => running[c] \/ SlotHolders(c) # {}

\* An event is on the queue once at most, from the time running is set to the
\* time the callback clears it.
EventOnce ==
    \A c \in Chans :
        Cardinality({i \in 1..Len(evq) : evq[i] = c})
          + (IF ev.chan = c THEN 1 ELSE 0)
          + Cardinality({a \in Actors : pc[a] = "ev_add" /\ Chan(a) = c})
        = IF running[c] THEN 1 ELSE 0

\* The event thread does not sleep with an event on the queue, unless the thread
\* that added the event has still to wake it.
NoStrandedEvent ==
    ev.pc = "asleep" /\ evq # <<>> => \E a \in Actors : pc[a] \in {"ev_inc", "ev_wake"}

\* The event thread never looks at a count that has gone below zero, although the
\* event is counted after others can take it: whoever adds the event keeps the
\* queue's lock, which the callback needs, until it is counted.
CountNotNegative == ev.pc = "check" => count <= Cardinality(Chans)

\* blk_handler_uninit is only reached by way of blk_handler_start (block.c:303).
UninitAfterSetup == \A u \in Users : pc[u] = "uninit" => hand[u].setup

\* The references to a provider run out only when it is removed (block.c:143).
ProviderReferenced == ~Panic
==============================================================================
