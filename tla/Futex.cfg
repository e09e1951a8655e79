CONSTANTS
    Threads = {t1, t2, t3}
    t1 = t1
    t2 = t2
    t3 = t3
    p1 = p1
    p2 = p2
    khash = khash
    uhash = uhash
    Queues = {khash, uhash}
    KernWords = {k}
    Private = {w}
    Shared = {s}
    ExitWords = {s}
    Vas <- TwoSpaces
    kvas = kvas
    FHT_HASH <- Hash
    Values = {0, 1}
    INT_MAX = 7
    Nums = {0}
    NULL = NULL
SPECIFICATION Spec
CHECK_DEADLOCK FALSE
SYMMETRY Sym
INVARIANTS NoLostWake RefsBalanced
PROPERTY WokenByOwnWord
