CONSTANTS
    Start = 2
    Size = 9
    Reserved = {3}
    ORDER_NUM = 3
    Orders = {0, 1, 2}
SPECIFICATION Spec
INVARIANTS
    NoFrameTwice
    FreeExact
    Coalesced
