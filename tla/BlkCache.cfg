CONSTANTS
    Threads = {t1, t2}
    Bufs = {b1, b2}
    Blocks = 2
    BlkSize = 2
    Transfers <- PartAndWhole
    Values = {0, 1}
    NULL = NULL
SYMMETRY Symmetry
SPECIFICATION Spec
INVARIANTS Coherent RefsExact
PROPERTY OtherBytesKept
