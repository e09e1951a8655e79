CONSTANTS
    a = a
    b = b
    c1 = c1
    Threads = {a, b}
    Queues = {q1}
    CpuOf <- SameCpu
SPECIFICATION FairSpec
PROPERTY WaitEnds
PROPERTY ImplementsWaitQueue
INVARIANTS
    NoStrandedSleeper
    SleepEndsByWakeup
    WaitersExact
