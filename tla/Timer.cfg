CONSTANTS
    Timers = {s, t, u}
    Delays = {2, 4, 7}
    TICK_PERIOD = 3
    SEC = 3
    Freq = 2
    MinPeriod = 3
    MaxPeriod = 6
    MaxTime = 10
SYMMETRY Sym
CHECK_DEADLOCK FALSE
SPECIFICATION Spec
INVARIANTS
    QueueServed
    FirstNotMissed
