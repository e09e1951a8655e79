CONSTANTS
    t1 = t1
    t2 = t2
    t3 = t3
    Threads = {t1, t2, t3}
    Start = {t1, t2}
    Calls = {"execve", "vfork", "exit", "exit_group", "clone"}
    Stops = TRUE
    NULL = NULL
SYMMETRY Symmetry
SPECIFICATION Spec
CHECK_DEADLOCK FALSE
INVARIANT Alone
INVARIANT LastExits
INVARIANT NoStrandedThread
