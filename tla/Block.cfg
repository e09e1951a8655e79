CONSTANTS
    Users = {u1, u2}
    Chans = {c1}
    Blocks = 2
    Kinds = {"io", "page"}
    Errors = TRUE
    Width = 8
    MaxRef = 3
    NULL = NULL
SYMMETRY Symmetry
SPECIFICATION Spec
CHECK_DEADLOCK FALSE
INVARIANTS QuietAfterReturn SleeperServed EventOnce CountNotNegative
