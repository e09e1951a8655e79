CONSTANTS
    Threads = {t1, t2, t3}
    rfutex = rfutex
    wfutex = wfutex
    Queues = {rfutex, wfutex}
    NULL = NULL
    Width = 4
SPECIFICATION FairSpec
PROPERTY WriterGetsLock
INVARIANTS
    RwExclusion
    RwNoStrandedSleeper
