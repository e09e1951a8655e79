------------------------------- MODULE BlkCache ------------------------------
(* The buffer cache of a block device (block/cache.c): bio copies bytes to and  *)
(* from buffers of one physical block, writes go to the disk at once, and       *)
(* buffers nobody uses are reclaimed oldest first.  A section of cache->lock or *)
(* cache->lru_lock is one step; the lock of a buffer is held across its input   *)
(* or output.                                                                   *)
EXTENDS Integers, Sequences, FiniteSets, SequencesExt

CONSTANTS
    Threads,
    Bufs,       \* the memory for buffers
    Blocks,     \* the number of physical blocks
    BlkSize,    \* the bytes of a physical block
    Transfers,  \* the offsets and sizes of the calls of bio
    Values,
    NULL

ASSUME BlkCacheAssumption ==
    /\ Blocks \in Nat \ {0} /\ BlkSize \in Nat \ {0}
    /\ \A x \in Transfers : x[1] \in Nat /\ x[2] \in Nat \ {0} /\ x[1] + x[2] <= Blocks * BlkSize
    /\ NULL \notin Threads \cup Bufs

VARIABLES
    disk,       \* the contents of the device
    buf,        \* the blk_cbuf_t's
    hashed,     \* the buffers in blk_cache_ht
    lru,        \* cache->lru, the oldest at the front
    entry_num,
    bufs,       \* blk_cache_bufs
    wr, rd,     \* the holders of the lock of a buffer
    pc,
    io          \* the arguments of bio and its current buffer

vars == <<disk, buf, hashed, lru, entry_num, bufs, wr, rd, pc, io>>

BlkNos == 0..Blocks - 1
Data == [0..BlkSize - 1 -> Values]
Garbage == CHOOSE d \in Data : TRUE

BLK_CBUF_OK == "OK"
BLK_CBUF_ERR == "ERR"
FreeBuf == [used |-> FALSE, no |-> 0, ref |-> 0, data |-> Garbage, status |-> BLK_CBUF_OK]
NoIo == [type |-> "RD", off |-> 0, size |-> 0, val |-> 0, cbuf |-> NULL, err |-> FALSE]

BlkCacheTypeOK ==
    /\ disk \in [BlkNos -> Data]
    /\ buf \in [Bufs -> [used : BOOLEAN, no : BlkNos, ref : 0..Cardinality(Threads),
                         data : Data, status : {BLK_CBUF_OK, BLK_CBUF_ERR}]]
    /\ hashed \in SUBSET Bufs
    /\ lru \in Seq(Bufs)
    /\ entry_num \in 0..Cardinality(Bufs)
    /\ bufs \in 0..Cardinality(Bufs)
    /\ wr \in [Bufs -> Threads \cup {NULL}]
    /\ rd \in [Bufs -> SUBSET Threads]
    /\ pc \in [Threads -> {"out", "get", "alloc", "insert", "fill", "fillerr", "lock",
                           "copy", "write", "unlock"}]
    /\ io \in [Threads -> [type : {"RD", "WR"}, off : 0..Blocks * BlkSize,
                           size : 0..Blocks * BlkSize, val : Values \cup {0},
                           cbuf : Bufs \cup {NULL}, err : BOOLEAN]]

\* blk_cache_add and blk_cache_init
BlkCacheInit ==
    /\ disk = [n \in BlkNos |-> Garbage]
    /\ buf = [b \in Bufs |-> FreeBuf]
    /\ hashed = {}
    /\ lru = <<>>
    /\ entry_num = 0
    /\ bufs = 0
    /\ wr = [b \in Bufs |-> NULL]
    /\ rd = [b \in Bufs |-> {}]
    /\ pc = [t \in Threads |-> "out"]
    /\ io = [t \in Threads |-> NoIo]

Goto(t, from, to) == pc[t] = from /\ pc' = [pc EXCEPT ![t] = to]
------------------------------------------------------------------------------
(* The part of the transfer that the current buffer holds.                      *)

blkoff(t) == io[t].off % BlkSize
no(t) == io[t].off \div BlkSize

cur(t) == LET left == BlkSize - blkoff(t) IN IF left < io[t].size THEN left ELSE io[t].size

bio(t, type, off, size, val) ==
    /\ Goto(t, "out", "get")
    /\ io' = [io EXCEPT ![t] = [NoIo EXCEPT !.type = type, !.off = off, !.size = size, !.val = val]]
    /\ UNCHANGED <<disk, buf, hashed, lru, entry_num, bufs, wr, rd>>
------------------------------------------------------------------------------
(* References.                                                                  *)

Found(n) == {b \in hashed : buf[b].no = n}

\* Leaves a buffer that is used again on the lru.
blk_cbuf_ref_keep(b) == buf' = [buf EXCEPT ![b].ref = @ + 1] /\ UNCHANGED lru

blk_cbuf_ref(b) ==
    /\ buf' = [buf EXCEPT ![b].ref = @ + 1]
    /\ lru' = IF buf[b].ref = 0 THEN Remove(lru, b) ELSE lru

blk_cbuf_unref(b) ==
    /\ buf' = [buf EXCEPT ![b].ref = @ - 1]
    /\ lru' = IF buf[b].ref = 1 THEN Append(lru, b) ELSE lru
------------------------------------------------------------------------------
(* blk_cache_get                                                                *)

Lookup(t) ==
    /\ pc[t] = "get"
    /\ \/ \E b \in Found(no(t)) :
             /\ Goto(t, "get", "lock")
             /\ blk_cbuf_ref(b)
             /\ io' = [io EXCEPT ![t].cbuf = b]
       \/ /\ Found(no(t)) = {}
          /\ Goto(t, "get", "alloc")
          /\ UNCHANGED <<buf, lru, io>>
    /\ UNCHANGED <<disk, hashed, entry_num, bufs, wr, rd>>

\* blk_cbuf_alloc, which waits for memory, and the lock of the new buffer.
Alloc(t) ==
    /\ Goto(t, "alloc", "insert")
    /\ \E b \in Bufs :
         /\ ~buf[b].used
         /\ buf' = [buf EXCEPT ![b] = [FreeBuf EXCEPT !.used = TRUE, !.no = no(t), !.ref = 1]]
         /\ wr' = [wr EXCEPT ![b] = t]
         /\ io' = [io EXCEPT ![t].cbuf = b]
    /\ bufs' = bufs + 1
    /\ UNCHANGED <<disk, hashed, lru, entry_num, rd>>

\* Under cache->lock for writing: somebody else may have added the block.
Insert(t) ==
    LET new == io[t].cbuf IN
    /\ pc[t] = "insert"
    /\ \/ \E b \in Found(no(t)) :
             /\ Goto(t, "insert", "lock")
             /\ buf' = [buf EXCEPT ![b].ref = @ + 1, ![new] = FreeBuf]
             /\ lru' = IF buf[b].ref = 0 THEN Remove(lru, b) ELSE lru
             /\ wr' = [wr EXCEPT ![new] = NULL]
             /\ bufs' = bufs - 1
             /\ io' = [io EXCEPT ![t].cbuf = b]
             /\ UNCHANGED <<hashed, entry_num>>
       \/ /\ Found(no(t)) = {}
          /\ Goto(t, "insert", "fill")
          /\ hashed' = hashed \cup {new}
          /\ entry_num' = entry_num + 1
          /\ UNCHANGED <<buf, lru, bufs, wr, io>>
    /\ UNCHANGED <<disk, rd>>

\* blk_read
Fill(t, ok) ==
    LET b == io[t].cbuf IN
    /\ Goto(t, "fill", IF ok THEN "lock" ELSE "fillerr")
    /\ buf' = [buf EXCEPT ![b].data = IF ok THEN disk[buf[b].no] ELSE @,
                          ![b].status = IF ok THEN BLK_CBUF_OK ELSE BLK_CBUF_ERR]
    /\ wr' = [wr EXCEPT ![b] = NULL]
    /\ UNCHANGED <<disk, hashed, lru, entry_num, bufs, rd, io>>

\* The buffer stays in the cache, with its error.
FillError(t) ==
    /\ Goto(t, "fillerr", "out")
    /\ blk_cbuf_unref(io[t].cbuf)
    /\ io' = [io EXCEPT ![t] = NoIo]
    /\ UNCHANGED <<disk, hashed, entry_num, bufs, wr, rd>>
------------------------------------------------------------------------------
(* The rest of bio.                                                             *)

Lock(t) ==
    LET b == io[t].cbuf IN
    /\ Goto(t, "lock", "copy")
    /\ wr[b] = NULL
    /\ IF io[t].type = "RD"
       THEN rd' = [rd EXCEPT ![b] = @ \cup {t}] /\ UNCHANGED wr
       ELSE rd[b] = {} /\ wr' = [wr EXCEPT ![b] = t] /\ UNCHANGED rd
    /\ UNCHANGED <<disk, buf, hashed, lru, entry_num, bufs, io>>

\* What the transfer makes of the contents of the buffer.
Patched(t, data) ==
    [i \in 0..BlkSize - 1 |-> IF i \in blkoff(t)..blkoff(t) + cur(t) - 1 THEN io[t].val
                              ELSE data[i]]

\* Lets a write of a part of the block fill the rest from a bad buffer.
Refused_reads(t) == io[t].type = "RD" /\ buf[io[t].cbuf].status = BLK_CBUF_ERR

\* A read, or a write of a part of the block, needs a good buffer.
Refused(t) ==
    /\ io[t].type = "RD" \/ cur(t) # BlkSize
    /\ buf[io[t].cbuf].status = BLK_CBUF_ERR

Copy(t) ==
    LET b == io[t].cbuf IN
    /\ pc[t] = "copy"
    /\ IF Refused(t)
       THEN /\ Goto(t, "copy", "unlock")
            /\ io' = [io EXCEPT ![t].err = TRUE]
            /\ UNCHANGED buf
       ELSE IF io[t].type = "WR"
       THEN /\ Goto(t, "copy", "write")
            /\ buf' = [buf EXCEPT ![b].data = Patched(t, @)]
            /\ UNCHANGED io
       ELSE Goto(t, "copy", "unlock") /\ UNCHANGED <<buf, io>>
    /\ UNCHANGED <<disk, hashed, lru, entry_num, bufs, wr, rd>>

\* Takes a buffer for good whose write failed.
Write_status_lost(t, ok) ==
    LET b == io[t].cbuf IN
    /\ Goto(t, "write", "unlock")
    /\ \/ disk' = [disk EXCEPT ![buf[b].no] = buf[b].data]
       \/ ~ok /\ UNCHANGED disk
    /\ buf' = [buf EXCEPT ![b].status = BLK_CBUF_OK]
    /\ io' = [io EXCEPT ![t].err = ~ok]
    /\ UNCHANGED <<hashed, lru, entry_num, bufs, wr, rd>>

\* blk_write; a write that fails may have reached the disk or not.
Write(t, ok) ==
    LET b == io[t].cbuf IN
    /\ Goto(t, "write", "unlock")
    /\ \/ disk' = [disk EXCEPT ![buf[b].no] = buf[b].data]
       \/ ~ok /\ UNCHANGED disk
    /\ buf' = [buf EXCEPT ![b].status = IF ok THEN BLK_CBUF_OK ELSE BLK_CBUF_ERR]
    /\ io' = [io EXCEPT ![t].err = ~ok]
    /\ UNCHANGED <<hashed, lru, entry_num, bufs, wr, rd>>

\* rwunlock and blk_cbuf_unref; the next buffer, or the end of bio.
Unlock(t) ==
    LET b == io[t].cbuf
        more == ~io[t].err /\ io[t].size > cur(t) IN
    /\ Goto(t, "unlock", IF more THEN "get" ELSE "out")
    /\ wr' = [wr EXCEPT ![b] = IF @ = t THEN NULL ELSE @]
    /\ rd' = [rd EXCEPT ![b] = @ \ {t}]
    /\ blk_cbuf_unref(b)
    /\ io' = [io EXCEPT ![t] = IF more THEN [@ EXCEPT !.off = @ + cur(t), !.size = @ - cur(t),
                                                      !.cbuf = NULL]
                               ELSE NoIo]
    /\ UNCHANGED <<disk, hashed, entry_num, bufs>>
------------------------------------------------------------------------------
\* With blk_cache_lock, cache->lock for writing and cache->lru_lock.
blk_cache_reclaim ==
    /\ lru # <<>>
    /\ LET b == Head(lru) IN
       /\ lru' = Tail(lru)
       /\ entry_num' = entry_num - 1
       /\ hashed' = hashed \ {b}
       /\ buf' = [buf EXCEPT ![b] = FreeBuf]
    /\ bufs' = bufs - 1
    /\ UNCHANGED <<disk, wr, rd, pc, io>>

\* The file system is unmounted: every buffer of the lru goes.
blk_cache_rem ==
    /\ \A t \in Threads : pc[t] = "out"
    /\ LET gone == {b \in Bufs : \E i \in 1..Len(lru) : lru[i] = b} IN
       /\ hashed' = hashed \ gone
       /\ buf' = [b \in Bufs |-> IF b \in gone THEN FreeBuf ELSE buf[b]]
       /\ bufs' = bufs - Cardinality(gone)
       /\ entry_num' = entry_num - Cardinality(gone)
    /\ lru' = <<>>
    /\ UNCHANGED <<disk, wr, rd, pc, io>>
------------------------------------------------------------------------------
Step(t) ==
    \/ Lookup(t) \/ Alloc(t) \/ Insert(t) \/ FillError(t) \/ Lock(t) \/ Copy(t) \/ Unlock(t)
    \/ \E ok \in BOOLEAN : Fill(t, ok) \/ Write(t, ok)

Next ==
    \/ \E t \in Threads :
         \/ Step(t)
         \/ \E type \in {"RD", "WR"}, x \in Transfers, val \in Values :
              bio(t, type, x[1], x[2], IF type = "RD" THEN 0 ELSE val)
    \/ blk_cache_reclaim \/ blk_cache_rem

Spec == BlkCacheInit /\ [][Next]_vars
------------------------------------------------------------------------------
Holders(b) == {t \in Threads : io[t].cbuf = b /\ pc[t] # "insert"}

\* What bio finds in a good buffer that nobody writes is what is on the disk:
\* through failed reads and writes, reclaim, and two threads that fill the same
\* block at a time.
Coherent ==
    \A b \in hashed :
        wr[b] = NULL /\ buf[b].status = BLK_CBUF_OK => buf[b].data = disk[buf[b].no]

\* A write of a part of a block leaves the other bytes on the disk as they were: it
\* is refused when the buffer they would come from is not good (cache.c:287).
OtherBytesKept ==
    [][\A n \in BlkNos, i \in 0..BlkSize - 1 :
        disk'[n][i] # disk[n][i]
            => \E t \in Threads : /\ pc[t] = "write" /\ n = no(t)
                                  /\ i \in blkoff(t)..blkoff(t) + cur(t) - 1]_vars

\* A block is cached once.
OneBuffer == \A b, c \in hashed : buf[b].no = buf[c].no => b = c

\* A buffer in use is in the cache and not on the lru, so it cannot be reclaimed,
\* and the reference count is the number of its users.
RefsExact ==
    \A b \in Bufs :
        /\ Holders(b) # {} => b \in hashed
        /\ b \in hashed => /\ buf[b].used
                           /\ buf[b].ref = Cardinality(Holders(b))
        /\ Cardinality({i \in 1..Len(lru) : lru[i] = b})
             = IF b \in hashed /\ Holders(b) = {} THEN 1 ELSE 0

\* When no thread uses the cache, every buffer is on the lru and unmounting frees
\* all of them (the comment and the assertion at cache.c:350-362).
RemFindsAll ==
    /\ entry_num = Cardinality(hashed)
    /\ bufs = Cardinality({b \in Bufs : buf[b].used})
    /\ (\A t \in Threads : pc[t] = "out") => entry_num = Len(lru) /\ bufs = entry_num

==============================================================================
