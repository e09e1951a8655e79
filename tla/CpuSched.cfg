CONSTANTS
    a = a
    b = b
    async = async
    Threads = {a, b, async}
    idle = idle
    NULL = NULL
SPECIFICATION FairSpec
PROPERTY HaltEnds
INVARIANTS
    ExitSlotFree
    RunningHasTick
