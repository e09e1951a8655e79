CONSTANTS
    Readers = {r1}
    Writers = {w1}
    PIPE_SIZE = 2
    CHUNK = 2
    SIZE_MOD = 4
    ReadSizes = {1, 2}
    WriteSizes = {2}
    NonBlocks = {TRUE, FALSE}
    SetupFails = {"file0", "file1", "fd", "copyout"}
    NULL = NULL
SPECIFICATION FairSpec
PROPERTY EofEndsRead
CHECK_DEADLOCK FALSE
INVARIANT NoStrandedReader
INVARIANT FreedOnce
PROPERTY ReadsInOrder
