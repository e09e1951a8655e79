-------------------------------- MODULE Phys ---------------------------------
(* The physical memory manager (vm/phys.c): a buddy allocator over the frames  *)
(* of a segment.  Everything runs under vm_phylock; the loops that split and    *)
(* merge blocks are taken one round at a time, with the block in hand.          *)
EXTENDS Integers, FiniteSets, Lists

CONSTANTS
    Start, Size,    \* the segment: its first frame and the number of frames
    Reserved,       \* frames taken by vm_phys_reserve before the boot
    ORDER_NUM,      \* VM_PHYS_ORDER_NUM
    Orders          \* the orders that are asked for

Frames == Start..(Start + Size - 1)

ASSUME PhysAssumption ==
    /\ Start \in Nat /\ Size \in Nat \ {0} /\ ORDER_NUM \in Nat \ {0}
    /\ Reserved \subseteq Frames
    /\ Orders \subseteq 0..(ORDER_NUM - 1)

ORDER_NONE == ORDER_NUM
NoPage == Start - 1

VARIABLES
    order,      \* page->order
    isfree,     \* the state of the page is VM_PG_FREE
    freelist,   \* vm_freelist
    free,       \* free memory, in pages, as vm_pressure counts it
    boot,       \* how far vm_physeg_init has come
    pc, page, want,     \* the call that holds the lock, and its block
    alloc       \* the pages given out

vars == <<order, isfree, freelist, free, boot, pc, page, want, alloc>>

PhysTypeOK ==
    /\ order \in [Frames -> 0..ORDER_NONE]
    /\ isfree \in [Frames -> BOOLEAN]
    /\ freelist \in [0..(ORDER_NUM - 1) -> Seq(Frames)]
    /\ free \in 0..Size
    /\ boot \in Start..(Start + Size)
    /\ pc \in {"unlocked", "split", "merge"}
    /\ page \in Frames \cup {NoPage}
    /\ want \in 0..(ORDER_NUM - 1)
    /\ alloc \subseteq Frames

PhysInit ==
    /\ order = [p \in Frames |-> 0]
    /\ isfree = [p \in Frames |-> FALSE]
    /\ freelist = [o \in 0..(ORDER_NUM - 1) |-> <<>>]
    /\ free = 0
    /\ boot = Start
    /\ pc = "unlocked" /\ page = NoPage /\ want = 0
    /\ alloc = {}

\* The number of frames of a block of order o.
vm_page_num(o) == 2 ^ o

\* The frames of the block that begins at p.
Block(p) == p..(p + vm_page_num(order[p]) - 1)

\* addr ^ size, for a block that is aligned to its size.
Buddy(p, o) == IF (p \div vm_page_num(o)) % 2 = 0 THEN p + vm_page_num(o) ELSE p - vm_page_num(o)

vm_freelist_add(p, o) ==
    /\ freelist' = [freelist EXCEPT ![o] = list_append(@, p)]
    /\ isfree' = [isfree EXCEPT ![p] = TRUE]

vm_freelist_rem(p, o) ==
    /\ freelist' = [freelist EXCEPT ![o] = list_remove(@, p)]
    /\ isfree' = [isfree EXCEPT ![p] = FALSE]

Unlock == pc' = "unlocked" /\ page' = NoPage /\ want' = 0
------------------------------------------------------------------------------
\* The freelists that have a block of order o or more.
Fitting(o) == {i \in o..(ORDER_NUM - 1) : freelist[i] # <<>>}

\* vm_page_alloc_order: takes a block from the first list that is not empty.  If
\* there is enough memory but no block is large enough the kernel panics.
AllocBegin(o) ==
    /\ pc = "unlocked" /\ boot = Start + Size
    /\ free >= vm_page_num(o)
    /\ Fitting(o) # {}
    /\ LET i == CHOOSE i \in Fitting(o) : \A j \in Fitting(o) : i <= j
           p == Head(freelist[i])
       IN
       /\ vm_freelist_rem(p, i)
       /\ page' = p
    /\ pc' = "split" /\ want' = o
    /\ UNCHANGED <<order, free, boot, alloc>>

\* The half that goes to a freelist keeps the order of a covered page.
Split_order_kept ==
    /\ pc = "split" /\ order[page] > want
    /\ LET o == order[page] - 1 IN
       /\ order' = [order EXCEPT ![page] = o]
       /\ vm_freelist_add(page + vm_page_num(o), o)
    /\ UNCHANGED <<free, boot, pc, page, want, alloc>>

\* One half of the block goes to a freelist.
Split ==
    /\ pc = "split" /\ order[page] > want
    /\ LET o == order[page] - 1
           buddy == page + vm_page_num(o)
       IN
       /\ order' = [order EXCEPT ![page] = o, ![buddy] = o]
       /\ vm_freelist_add(buddy, o)
    /\ UNCHANGED <<free, boot, pc, page, want, alloc>>

\* Counts blocks instead of pages.
AllocEnd_one ==
    /\ pc = "split" /\ order[page] = want
    /\ free' = free - 1
    /\ alloc' = alloc \cup {page}
    /\ Unlock
    /\ UNCHANGED <<order, isfree, freelist, boot>>

AllocEnd ==
    /\ pc = "split" /\ order[page] = want
    /\ free' = free - vm_page_num(want)
    /\ alloc' = alloc \cup {page}
    /\ Unlock
    /\ UNCHANGED <<order, isfree, freelist, boot>>
------------------------------------------------------------------------------
\* vm_page_free, up to its loop.
FreeBegin(p) ==
    /\ free' = free + vm_page_num(order[p])
    /\ page' = p
    /\ pc' = "merge"
    /\ UNCHANGED <<order, isfree, freelist, want>>

vm_page_free(p) ==
    /\ pc = "unlocked" /\ p \in alloc
    /\ FreeBegin(p)
    /\ alloc' = alloc \ {p}
    /\ UNCHANGED boot

\* vm_physeg_init frees the pages one by one, all but the reserved ones.
vm_physeg_init ==
    /\ pc = "unlocked" /\ boot < Start + Size
    /\ boot' = boot + 1
    /\ IF boot \in Reserved
       THEN UNCHANGED <<order, isfree, freelist, free, pc, page, want>>
       ELSE FreeBegin(boot)
    /\ UNCHANGED alloc

\* The buddy lies in the segment and is a free block of the same order.
Mergeable(p) ==
    LET b == Buddy(p, order[p]) IN
    /\ order[p] < ORDER_NUM - 1
    /\ b \in Frames /\ order[b] = order[p] /\ isfree[b]

Merge ==
    /\ pc = "merge" /\ Mergeable(page)
    /\ LET o == order[page]
           b == Buddy(page, o)
           first == IF b < page THEN b ELSE page
       IN
       /\ vm_freelist_rem(b, order[b])
       /\ order' = [order EXCEPT ![b] = ORDER_NONE, ![page] = ORDER_NONE, ![first] = o + 1]
       /\ page' = first
    /\ UNCHANGED <<free, boot, pc, want, alloc>>

\* Looks at the buddy only once.
FreeEnd_early ==
    /\ pc = "merge"
    /\ vm_freelist_add(page, order[page])
    /\ Unlock
    /\ UNCHANGED <<order, free, boot, alloc>>

FreeEnd ==
    /\ pc = "merge" /\ ~Mergeable(page)
    /\ vm_freelist_add(page, order[page])
    /\ Unlock
    /\ UNCHANGED <<order, free, boot, alloc>>
------------------------------------------------------------------------------
Next ==
    \/ Split \/ AllocEnd \/ Merge \/ FreeEnd \/ vm_physeg_init
    \/ \E o \in Orders : AllocBegin(o)
    \/ \E p \in Frames : vm_page_free(p)

Spec == PhysInit /\ [][Next]_vars
------------------------------------------------------------------------------
\* The blocks: on a freelist, given out, or in the hands of a call.
Listed == UNION {{freelist[o][i] : i \in DOMAIN freelist[o]} : o \in DOMAIN freelist}
InHand == IF page = NoPage THEN {} ELSE {page}
Blocks == Listed \cup alloc \cup InHand

\* No frame is in two blocks, however blocks have been split and merged, none is
\* lost, and a block is aligned to its size, which the computation of the buddy
\* relies on.
NoFrameTwice ==
    /\ \A p, q \in Blocks : p # q => Block(p) \cap Block(q) = {}
    /\ UNION {Block(p) : p \in Blocks} = {f \in Frames \ Reserved : f < boot}
    /\ \A p \in Blocks : p % vm_page_num(order[p]) = 0

\* A block is on the freelist of its order, once, and exactly if it is marked
\* VM_PG_FREE.
FreelistExact ==
    /\ \A o \in DOMAIN freelist : \A i \in DOMAIN freelist[o] :
         /\ order[freelist[o][i]] = o
         /\ \A j \in DOMAIN freelist[o] : freelist[o][i] = freelist[o][j] => i = j
    /\ \A p \in Frames : isfree[p] <=> p \in Listed

\* The counter that allocations wait on is the memory on the freelists: while it
\* is not zero a single page can be had, so that the panic of vm_page_alloc_order
\* is not reached for a page.
FreeExact ==
    pc = "unlocked" => free = Cardinality(UNION {Block(p) : p \in Listed})

\* Blocks are merged as far as it goes: no two free buddies are left.
Coalesced ==
    pc = "unlocked" => \A p \in Listed : ~Mergeable(p)

\* "The pages covered by a previous page have an order of PHYS_ORDER_NONE and may
\* never be on any free-list." (vm/phys.c:56)
CoveredNone ==
    \A p \in Blocks : \A f \in Block(p) \ {p} : order[f] = ORDER_NONE /\ ~isfree[f]
==============================================================================
