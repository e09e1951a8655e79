CONSTANTS
    Readers = {r}
    SEC = 7
    Freq = 5
    Mask = 4
    TickGap = 2
    BootTime = 9
    MaxTime = 6
CHECK_DEADLOCK FALSE
SPECIFICATION FairSpec
PROPERTY ReadsEnd
INVARIANTS
    ReadsUptime
    CoarseRecent
