CONSTANTS
    Threads = {t1, t2, t3, t4}
    sync = sync
    Queues = {sync}
    NULL = NULL
    Width = 5
SPECIFICATION FairSpec
PROPERTY FreeLockTaken
PROPERTY ImplementsLock
INVARIANTS MutualExclusion NoStrandedWaiter
