------------------------------ MODULE WaitQueue ------------------------------
(* What a wait queue promises its users, without the scheduler below it.  The  *)
(* order of the waiters on the list is not part of the promise.  Module Wait   *)
(* implements this specification (WaitProofs!WaitImplementsWaitQueue); the     *)
(* modules for code that sleeps (Mutex, RwLock, ...) are written on top of it. *)
CONSTANTS
    Threads,
    Queues

VARIABLES
    pending,    \* the threads whose waiter is on the list of a queue
    woken,      \* those whose waiter a wakeup has taken off
    bound       \* those inside a wait_sleep that only a wakeup can end

wqVars == <<pending, woken, bound>>

WqTypeOK ==
    /\ pending \in [Queues -> SUBSET Threads]
    /\ woken \in [Queues -> SUBSET Threads]
    /\ bound \in [Queues -> SUBSET Threads]

WqInit ==
    /\ pending = [q \in Queues |-> {}]
    /\ woken = [q \in Queues |-> {}]
    /\ bound = [q \in Queues |-> {}]

In(t, q) == t \in pending[q] \cup woken[q]

\* wait_prep
Prep(t, q) ==
    /\ ~In(t, q)
    /\ pending' = [pending EXCEPT ![q] = @ \cup {t}]
    /\ UNCHANGED <<woken, bound>>

\* A wait_sleep that neither an interrupt nor a timeout can end begins.
Bind(t, q) ==
    /\ In(t, q)
    /\ bound' = [bound EXCEPT ![q] = @ \cup {t}]
    /\ UNCHANGED <<pending, woken>>

\* wait_abort, or the return of wait_sleep.
Leave(t, q) ==
    /\ In(t, q)
    /\ t \in bound[q] => t \in woken[q]
    /\ pending' = [pending EXCEPT ![q] = @ \ {t}]
    /\ woken' = [woken EXCEPT ![q] = @ \ {t}]
    /\ bound' = [bound EXCEPT ![q] = @ \ {t}]

\* A wakeup of the waiters of the threads W.
Wake(q, W) ==
    /\ W \subseteq pending[q]
    /\ pending' = [pending EXCEPT ![q] = @ \ W]
    /\ woken' = [woken EXCEPT ![q] = @ \cup W]
    /\ UNCHANGED bound

WqNext ==
    \E q \in Queues :
        \/ \E t \in Threads : Prep(t, q) \/ Bind(t, q) \/ Leave(t, q)
        \/ \E W \in SUBSET Threads : Wake(q, W)

WqSpec == WqInit /\ [][WqNext]_wqVars
==============================================================================
