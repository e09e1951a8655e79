------------------------------ MODULE PipeProofs ------------------------------
(* Proofs about pipes, for any number of readers and writers and any sizes of  *)
(* the buffer, of the chunks and of the calls.                                 *)
EXTENDS Pipe, TLAPS

ReadPcs == {"rlock", "rwait", "rsleep", "rasleep", "rrelock", "rcopy", "rmove", "rlock2"}
WritePcs == Pcs \ (ReadPcs \cup {"out"})

Cbuf == [mem : [0..PIPE_SIZE-1 -> Int], rptr : 0..PIPE_SIZE-1, wptr : 0..PIPE_SIZE-1,
         data : 0..PIPE_SIZE]
Call == [size : Int, iov : Int, prev : Int, buf : Seq(Int), moved : Int, retv : Int]

Typed ==
    /\ cbuf \in Cbuf /\ queue \in Seq(Int)
    /\ pc \in [Threads -> Pcs] /\ call \in [Threads -> Call]
    /\ asleep \in SUBSET Threads /\ woken \in SUBSET Threads
    /\ ref \in [Files -> Int] /\ open \in SUBSET Files /\ closed \in SUBSET Files
    /\ cpc \in [Files -> {"none", "eof", "wake", "or", "closed"}]

\* The memory from rptr on is what has been written and not read.
RingInv(b, q) ==
    /\ Len(q) = b.data
    /\ b.wptr = (b.rptr + b.data) % PIPE_SIZE
    /\ \A i \in 1..b.data : q[i] = b.mem[(b.rptr + i - 1) % PIPE_SIZE]

\* What a thread at place p has in hand: a chunk it has read fits what it still
\* has to read, and a chunk it writes is all there.
CallInv(t, p, c) ==
    /\ p \in ReadPcs => t \in Readers
    /\ p \in WritePcs => t \in Writers
    /\ p \in ReadPcs => c.size \in Nat
    /\ p = "rmove" => Len(c.buf) <= c.size
    /\ p \in {"wlock", "wfull", "wsleep", "wwake", "wres"} => c.retv \in 0..Len(c.buf)

SleepInv ==
    /\ \A t \in Threads : t \in asleep <=> pc[t] \in {"rasleep", "wasleep"}
    /\ woken \subseteq asleep

\* The references sys_pipe2 has to a file.
Held(f, s) ==
    IF \/ s \in {"fd", "copyout", "ok0", "fdfree0", "fdfree1", "unref1"}
       \/ s \in {"file1", "unref0"} /\ f = rd
       \/ s = "ok1" /\ f = wr
    THEN 1 ELSE 0
InCalls(f) == {t \in Threads : File(t) = f /\ pc[t] # "out"}

\* The set S has n members.
Counts(S, n) ==
    \E g \in [S -> 1..n] : /\ \A x, y \in S : g[x] = g[y] => x = y
                           /\ \A i \in 1..n : \E x \in S : g[x] = i

\* Of the references to file f, k belong to threads in a call.
Refs(f, k) == Held(f, setup) + (IF f \in open THEN 1 ELSE 0) + k

RefInv ==
    \A f \in Files :
        /\ \E k \in Nat : Counts(InCalls(f), k) /\ ref[f] = Refs(f, k)
        /\ ref[f] > 0 => cpc[f] = "none"

SetupInv ==
    /\ setup \in {"file0", "file1", "fd"} => \A t \in Threads : pc[t] = "out"
    /\ setup \in {"file0", "file1"} => \A f \in Files : cpc[f] = "none"
    /\ setup \in {"file0", "file1", "fd"} => open = {}
    /\ setup # "failed" => frees = IF closed = Files THEN 1 ELSE 0
    /\ \A f \in Files : f \in closed <=> cpc[f] = "closed"

FileInv == ~panic => RefInv /\ SetupInv

IInv ==
    /\ Typed
    /\ RingInv(cbuf, queue)
    /\ \A t \in Threads : CallInv(t, pc[t], call[t])
    /\ SleepInv
    /\ LockReleased
    /\ FileInv
    /\ NoStrandedReader
    /\ FreedOnce
------------------------------------------------------------------------------
(* Offsets into the memory.                                                    *)

LEMMA ModPlain ==
    ASSUME NEW m \in Nat \ {0}, NEW y \in 0..m-1
    PROVE  y % m = y
<1>1. y = m * (y \div m) + (y % m) /\ y \div m \in Int /\ y % m \in 0..m-1
  BY SMT
<1>2. PICK k \in Int, r \in 0..m-1 : k = y \div m /\ r = y % m
  BY <1>1, Zenon
<1>3. y = m * k + r
  BY <1>1, <1>2
<1>4. k = 0
  <2>1. k >= 1 => m * k >= m
    BY SMT
  <2>2. k <= -1 => m * k <= -m
    BY SMT
  <2> QED BY <1>3, <2>1, <2>2
<1> QED BY <1>2, <1>3, <1>4

LEMMA ModAdd ==
    ASSUME NEW m \in Nat \ {0}, NEW y \in 0..m-1
    PROVE  (y + m) % m = y /\ (y - m) % m = y
<1>1. \A x \in Int : x = m * (x \div m) + (x % m) /\ x \div m \in Int /\ x % m \in 0..m-1
  BY SMT
<1>2. ASSUME NEW x \in Int, x \in {y + m, y - m} PROVE x % m = y
  <2>1. PICK k \in Int, r \in 0..m-1 : k = x \div m /\ r = x % m
    BY <1>1
  <2>2. x = m * k + r
    BY <1>1, <2>1
  <2>3. /\ k >= 2 => m * k >= m + m
        /\ k = 0 => m * k = 0
        /\ k = 1 => m * k = m
        /\ k = -1 => m * k = -m
        /\ k <= -2 => m * k <= -m - m
    BY SMT
  <2>4. k >= 2 \/ k = 1 \/ k = 0 \/ k = -1 \/ k <= -2
    BY SMT
  <2>5. r = y
    BY <1>2, <2>2, <2>3, <2>4
  <2> QED BY <2>1, <2>5
<1> QED BY <1>2

LEMMA Wraps ==
    ASSUME NEW m \in Nat \ {0}, NEW a \in Int
    PROVE  /\ a \in 0..m-1 => a % m = a
           /\ a \in m..m+m-1 => a % m = a - m
           /\ a \in -m..-1 => a % m = a + m
<1>1. a \in 0..m-1 => a % m = a
  BY ModPlain
<1>2. ASSUME a \in m..m+m-1 PROVE a % m = a - m
  <2>1. PICK y \in 0..m-1 : y = a - m
    BY <1>2
  <2>2. (y + m) % m = y /\ y + m = a
    BY <2>1, ModAdd
  <2> QED BY <2>1, <2>2
<1>3. ASSUME a \in -m..-1 PROVE a % m = a + m
  <2>1. PICK y \in 0..m-1 : y = a + m
    BY <1>3
  <2>2. (y - m) % m = y /\ y - m = a
    BY <2>1, ModAdd
  <2> QED BY <2>1, <2>2
<1> QED BY <1>1, <1>2, <1>3

LEMMA ModShift ==
    ASSUME NEW m \in Nat \ {0}, NEW r \in 0..m-1, NEW n \in 0..m, NEW k \in 0..m, n + k <= m
    PROVE  (((r + n) % m) + k) % m = (r + n + k) % m
<1>1. CASE r + n < m
  <2>1. (r + n) % m = r + n
    BY <1>1, Wraps
  <2> QED BY <2>1
<1>2. CASE r + n >= m
  <2>1. (r + n) % m = r + n - m
    <3>1. PICK a \in Int : a = r + n
      OBVIOUS
    <3>2. a \in m..m+m-1
      BY <1>2, <3>1
    <3>3. a % m = a - m
      BY <3>2, Wraps
    <3> QED BY <3>1, <3>3
  <2>2. PICK y \in 0..m-1 : y = r + n - m + k
    BY <1>2
  <2>3. y % m = y /\ (y + m) % m = y /\ y + m = r + n + k
    BY <2>2, ModPlain, ModAdd
  <2> QED BY <2>1, <2>2, <2>3
<1> QED BY <1>1, <1>2

\* How far byte j of the data is from the end of the data, which has d bytes.
LEMMA ModBack ==
    ASSUME NEW m \in Nat \ {0}, NEW r \in 0..m-1, NEW d \in 0..m, NEW j \in 0..m-1
    PROVE  (((r + j) % m) - ((r + d) % m)) % m = IF j >= d THEN j - d ELSE j - d + m
<1>1. ASSUME NEW a \in 0..m+m-1
      PROVE  \E x \in 0..m-1 : x = a % m /\ (x = a \/ x = a - m)
  <2>1. a < m => a % m = a
    BY Wraps
  <2>2. a >= m => a % m = a - m
    BY Wraps
  <2> QED BY <2>1, <2>2
<1>2. PICK a \in 0..m+m-1, e \in 0..m+m-1 : a = r + j /\ e = r + d
  OBVIOUS
<1>3. PICK x \in 0..m-1 : x = a % m /\ (x = a \/ x = a - m)
  BY <1>1
<1>4. PICK y \in 0..m-1 : y = e % m /\ (y = e \/ y = e - m)
  BY <1>1
<1>5. PICK z \in Int : z = x - y
  OBVIOUS
<1>6. z \in 0..m-1 => z % m = z
  BY Wraps
<1>7. z \in -m..-1 => z % m = z + m
  BY Wraps, Zenon
<1>8. z = j - d \/ z = j - d + m \/ z = j - d - m
  BY <1>2, <1>3, <1>4, <1>5
<1>9. z % m = IF j >= d THEN j - d ELSE j - d + m
  BY <1>2, <1>3, <1>4, <1>5, <1>6, <1>7, <1>8
<1> QED BY <1>2, <1>3, <1>4, <1>5, <1>9

LEMMA Sized ==
    PIPE_SIZE \in Nat \ {0} /\ CHUNK \in Nat \ {0} /\ SIZE_MOD \in Nat \ {0}
BY PipeAssumption

LEMMA ModIn ==
    ASSUME NEW m \in Nat \ {0}, NEW a \in Int
    PROVE  a % m \in 0..m-1
BY SMT

LEMMA SameSeq ==
    ASSUME NEW a \in Seq(Int), NEW b \in Seq(Int), Len(a) = Len(b),
           \A i \in 1..Len(a) : a[i] = b[i]
    PROVE  a = b
OBVIOUS

LEMMA Joined ==
    ASSUME NEW a \in Seq(Int), NEW b \in Seq(Int)
    PROVE  /\ a \o b \in Seq(Int) /\ Len(a \o b) = Len(a) + Len(b)
           /\ \A i \in 1..Len(a)+Len(b) :
                (a \o b)[i] = IF i <= Len(a) THEN a[i] ELSE b[i - Len(a)]
OBVIOUS

LEMMA Part ==
    ASSUME NEW a \in Seq(Int), NEW m \in 1..Len(a)+1, NEW n \in 0..Len(a)
    PROVE  /\ SubSeq(a, m, n) \in Seq(Int)
           /\ m <= n + 1 => Len(SubSeq(a, m, n)) = n - m + 1
           /\ \A i \in 1..n-m+1 : SubSeq(a, m, n)[i] = a[m + i - 1]
OBVIOUS

LEMMA SplitSeq ==
    ASSUME NEW q \in Seq(Int), NEW s \in Seq(Int), Len(s) <= Len(q),
           \A i \in 1..Len(s) : s[i] = q[i]
    PROVE  q = s \o SubSeq(q, Len(s) + 1, Len(q))
<1>1. PICK z \in Seq(Int) : z = SubSeq(q, Len(s) + 1, Len(q))
  <2>1. Len(s) + 1 \in 1..Len(q)+1 /\ Len(q) \in 0..Len(q)
    OBVIOUS
  <2>2. SubSeq(q, Len(s) + 1, Len(q)) \in Seq(Int)
    BY <2>1, Part, Zenon
  <2> QED BY <2>2, Zenon
<1>2. Len(z) = Len(q) - Len(s) /\ \A i \in 1..Len(z) : z[i] = q[Len(s) + i]
  BY <1>1
<1>3. PICK y \in Seq(Int) : y = s \o z
  BY Joined, Zenon
<1>4. Len(y) = Len(q)
  <2>1. Len(y) = Len(s) + Len(z)
    BY <1>3, Joined, Zenon
  <2> QED BY <1>2, <2>1
<1>5. ASSUME NEW i \in 1..Len(q) PROVE y[i] = q[i]
  <2>1. CASE i <= Len(s)
    BY <1>3, <1>4, <2>1
  <2>2. CASE i > Len(s)
    <3>1. y[i] = z[i - Len(s)]
      BY <1>3, <1>4, <2>2
    <3>2. i - Len(s) \in 1..Len(z) /\ Len(s) + (i - Len(s)) = i
      BY <1>2, <2>2
    <3> QED BY <1>2, <3>1, <3>2, Zenon
  <2> QED BY <2>1, <2>2
<1>6. y = q
  BY <1>4, <1>5, SameSeq, Zenon
<1> QED BY <1>1, <1>3, <1>6, Zenon

\* cbuf_read hands out the first bytes of the queue and leaves the others.
LEMMA ReadRing ==
    ASSUME cbuf \in Cbuf, queue \in Seq(Int), RingInv(cbuf, queue), NEW n \in 1..cbuf.data,
           cbuf' = cbuf_read(n), queue' = SubSeq(queue, n + 1, Len(queue))
    PROVE  /\ cbuf' \in Cbuf /\ queue' \in Seq(Int) /\ RingInv(cbuf', queue')
           /\ cbuf'.data = cbuf.data - n
           /\ cbuf_chunk(n) \in Seq(Int) /\ Len(cbuf_chunk(n)) = n
           /\ queue = cbuf_chunk(n) \o queue'
<1>1. PICK b \in Cbuf, q \in Seq(Int) : b = cbuf /\ q = queue
  OBVIOUS
<1>2. PICK P \in Nat \ {0} : P = PIPE_SIZE
  BY Sized
<1>3. PICK d \in 0..P, r \in 0..P-1, w \in 0..P-1, mem \in [0..P-1 -> Int] :
         d = b.data /\ r = b.rptr /\ w = b.wptr /\ mem = b.mem
  BY <1>2, Zenon DEF Cbuf
<1>4. /\ Len(q) = d /\ w = (r + d) % P
      /\ \A i \in 1..d : q[i] = mem[(r + i - 1) % P]
  BY <1>1, <1>2, <1>3 DEF RingInv
<1>5. n \in 1..d
  BY <1>1, <1>3
<1>6. cbuf' = [mem |-> mem, rptr |-> (r + n) % P, wptr |-> w, data |-> d - n]
  BY <1>1, <1>2, <1>3, Zenon DEF cbuf_read, Cbuf
<1>7. (r + n) % P \in 0..P-1 /\ d - n \in 0..P
  BY <1>5, ModIn
<1>8. cbuf' \in Cbuf
  BY <1>2, <1>6, <1>7 DEF Cbuf
<1>9. /\ queue' \in Seq(Int) /\ Len(queue') = d - n
      /\ \A i \in 1..d-n : queue'[i] = q[n + i]
  BY <1>1, <1>4, <1>5
<1>10. RingInv(cbuf', queue')
  <2>1. (((r + n) % P) + (d - n)) % P = (r + d) % P
    <3>1. d - n \in 0..P /\ n \in 0..P /\ n + (d - n) <= P /\ r + n + (d - n) = r + d
      BY <1>5
    <3>2. PICK k \in 0..P : k = d - n
      BY <3>1
    <3>3. (((r + n) % P) + k) % P = (r + n + k) % P
      BY <3>1, <3>2, ModShift, Zenon
    <3> QED BY <3>1, <3>2, <3>3
  <2>2. ASSUME NEW i \in 1..d-n
        PROVE  queue'[i] = mem[(((r + n) % P) + i - 1) % P]
    <3>1. PICK k \in 0..P : k = i - 1
      BY <1>5
    <3>2. n \in 0..P /\ n + k <= P
      BY <1>5, <3>1
    <3>3. (((r + n) % P) + k) % P = (r + n + k) % P
      BY <3>2, ModShift, Zenon
    <3>4. ((r + n) % P) + i - 1 = ((r + n) % P) + k /\ r + (n + i) - 1 = r + n + k
      BY <1>7, <3>1
    <3>5. n + i \in 1..d
      BY <1>5
    <3>6. queue'[i] = q[n + i]
      BY <1>9, Zenon
    <3>7. q[n + i] = mem[(r + (n + i) - 1) % P]
      BY <1>4, <3>5, Zenon
    <3> QED BY <3>3, <3>4, <3>6, <3>7, Zenon
  <2>3. /\ cbuf'.data = d - n /\ cbuf'.wptr = w /\ cbuf'.rptr = (r + n) % P
        /\ cbuf'.mem = mem
    BY <1>6
  <2>4. Len(queue') = cbuf'.data
    BY <1>9, <2>3
  <2>5. cbuf'.wptr = (cbuf'.rptr + cbuf'.data) % PIPE_SIZE
    BY <1>2, <1>4, <2>1, <2>3, Zenon
  <2>6. \A i \in 1..cbuf'.data : queue'[i] = cbuf'.mem[(cbuf'.rptr + i - 1) % PIPE_SIZE]
    BY <1>2, <2>2, <2>3, Zenon
  <2> QED BY <2>4, <2>5, <2>6, Zenon DEF RingInv
<1>11. \A i \in 1..n : mem[(r + i - 1) % P] \in Int
  BY <1>5, ModIn
<1>12. cbuf_chunk(n) = [i \in 1..n |-> mem[(r + i - 1) % P]]
  BY <1>1, <1>2, <1>3 DEF cbuf_chunk
<1>13. cbuf_chunk(n) \in Seq(Int) /\ Len(cbuf_chunk(n)) = n
  BY <1>5, <1>11, <1>12
<1>14. queue = cbuf_chunk(n) \o queue'
  <2>1. PICK s \in Seq(Int) : s = cbuf_chunk(n)
    BY <1>13
  <2>2. Len(s) = n /\ \A i \in 1..n : s[i] = q[i]
    <3>1. Len(s) = n /\ s = [i \in 1..n |-> mem[(r + i - 1) % P]]
      BY <1>12, <1>13, <2>1, Zenon
    <3>2. ASSUME NEW i \in 1..n PROVE s[i] = q[i]
      <4>1. s[i] = mem[(r + i - 1) % P]
        BY <3>1, Zenon
      <4>2. i \in 1..d
        BY <1>5
      <4>3. q[i] = mem[(r + i - 1) % P]
        BY <1>4, <4>2, Zenon
      <4> QED BY <4>1, <4>3, Zenon
    <3> QED BY <3>1, <3>2, Zenon
  <2>3. q = s \o SubSeq(q, n + 1, Len(q))
    <3>1. Len(s) <= Len(q) /\ (\A i \in 1..Len(s) : s[i] = q[i]) /\ n = Len(s)
      BY <1>4, <1>5, <2>2
    <3>2. q = s \o SubSeq(q, Len(s) + 1, Len(q))
      BY <3>1, SplitSeq, Zenon
    <3> QED BY <3>1, <3>2, Zenon
  <2> QED BY <1>1, <2>1, <2>3, Zenon
<1>15. cbuf'.data = cbuf.data - n
  BY <1>1, <1>3, <1>6
<1> QED BY <1>8, <1>9, <1>10, <1>13, <1>14, <1>15, Zenon

\* cbuf_write appends to the queue and overwrites nothing that is still in it.
LEMMA WriteRing ==
    ASSUME cbuf \in Cbuf, queue \in Seq(Int), RingInv(cbuf, queue),
           NEW buf \in Seq(Int), NEW n \in 0..cbuf_space, n <= Len(buf),
           cbuf' = cbuf_write(n, buf), queue' = queue \o SubSeq(buf, 1, n)
    PROVE  cbuf' \in Cbuf /\ queue' \in Seq(Int) /\ RingInv(cbuf', queue')
<1>1. PICK b \in Cbuf, q \in Seq(Int) : b = cbuf /\ q = queue
  OBVIOUS
<1>2. PICK P \in Nat \ {0} : P = PIPE_SIZE
  BY Sized
<1>3. PICK d \in 0..P, r \in 0..P-1, w \in 0..P-1, mem \in [0..P-1 -> Int] :
         d = b.data /\ r = b.rptr /\ w = b.wptr /\ mem = b.mem
  BY <1>2, Zenon DEF Cbuf
<1>4. /\ Len(q) = d /\ w = (r + d) % P
      /\ \A i \in 1..d : q[i] = mem[(r + i - 1) % P]
  BY <1>1, <1>2, <1>3, Zenon DEF RingInv
<1>5. n \in 0..P-d
  BY <1>1, <1>2, <1>3 DEF cbuf_space
<1> DEFINE M == [i \in 0..P-1 |-> IF ((i - w) % P) + 1 <= n THEN buf[((i - w) % P) + 1] ELSE mem[i]]
<1>6. cbuf' = [mem |-> M, rptr |-> r, wptr |-> (w + n) % P, data |-> d + n]
  BY <1>1, <1>2, <1>3, Zenon DEF cbuf_write, Cbuf
<1>7. M \in [0..P-1 -> Int]
  <2>1. ASSUME NEW i \in 0..P-1
        PROVE  (IF ((i - w) % P) + 1 <= n THEN buf[((i - w) % P) + 1] ELSE mem[i]) \in Int
    <3>1. PICK k \in 0..P-1 : k = (i - w) % P
      <4>1. PICK a \in Int : a = i - w
        OBVIOUS
      <4>2. a % P \in 0..P-1
        BY ModIn, Zenon
      <4> QED BY <4>1, <4>2
    <3>2. k + 1 <= n => k + 1 \in 1..Len(buf)
      BY <1>5, <3>1
    <3>3. (IF k + 1 <= n THEN buf[k + 1] ELSE mem[i]) \in Int
      BY <3>2
    <3> QED BY <3>1, <3>3
  <2> QED BY <2>1
<1>8. ASSUME NEW j \in 0..P-1
      PROVE  M[(r + j) % P] = IF j >= d /\ j - d + 1 <= n THEN buf[j - d + 1]
                              ELSE mem[(r + j) % P]
  <2>1. PICK i \in 0..P-1 : i = (r + j) % P
    <3>1. PICK a \in Int : a = r + j
      OBVIOUS
    <3>2. a % P \in 0..P-1
      BY ModIn, Zenon
    <3> QED BY <3>1, <3>2
  <2>2. PICK k \in Int : k = (i - w) % P /\ k = IF j >= d THEN j - d ELSE j - d + P
    <3>1. (((r + j) % P) - ((r + d) % P)) % P = IF j >= d THEN j - d ELSE j - d + P
      BY ModBack, Zenon
    <3>2. (i - w) % P = IF j >= d THEN j - d ELSE j - d + P
      BY <1>4, <2>1, <3>1
    <3> QED BY <3>2
  <2>3. M[i] = IF k + 1 <= n THEN buf[k + 1] ELSE mem[i]
    BY <2>2
  <2>4. j < d => k + 1 > n
    BY <1>5, <2>2
  <2>5. j >= d => k = j - d
    BY <2>2, Zenon
  <2> HIDE DEF M
  <2>6. M[i] = IF j >= d /\ j - d + 1 <= n THEN buf[j - d + 1] ELSE mem[i]
    BY <2>3, <2>4, <2>5
  <2> QED BY <2>1, <2>6
<1> HIDE DEF M
<1>9. PICK v \in Seq(Int) : v = SubSeq(buf, 1, n) /\ Len(v) = n /\ \A i \in 1..n : v[i] = buf[i]
  <2>1. n \in 0..Len(buf) /\ 1 \in 1..Len(buf)+1 /\ 1 <= n + 1
    BY <1>5
  <2>2. /\ SubSeq(buf, 1, n) \in Seq(Int)
        /\ 1 <= n + 1 => Len(SubSeq(buf, 1, n)) = n - 1 + 1
        /\ \A i \in 1..n-1+1 : SubSeq(buf, 1, n)[i] = buf[1 + i - 1]
    BY <2>1, Part, Zenon
  <2>3. Len(SubSeq(buf, 1, n)) = n - 1 + 1
    BY <2>1, <2>2, Zenon
  <2>4. PICK v \in Seq(Int) : v = SubSeq(buf, 1, n)
    BY <2>2, Zenon
  <2>5. Len(v) = n
    BY <1>5, <2>3, <2>4
  <2>6. ASSUME NEW i \in 1..n PROVE v[i] = buf[i]
    <3>1. n - 1 + 1 = n /\ 1 + i - 1 = i
      BY <1>5
    <3>2. v[i] = buf[1 + i - 1]
      BY <2>2, <2>4, <3>1, Zenon
    <3> QED BY <3>1, <3>2, Zenon
  <2> QED BY <2>4, <2>5, <2>6, Zenon
<1>10. PICK z \in Seq(Int) : /\ z = queue' /\ Len(z) = d + n
                            /\ \A i \in 1..d+n : z[i] = IF i <= d THEN q[i] ELSE v[i - d]
  <2>1. /\ q \o v \in Seq(Int) /\ Len(q \o v) = Len(q) + Len(v)
        /\ \A i \in 1..Len(q)+Len(v) :
              (q \o v)[i] = IF i <= Len(q) THEN q[i] ELSE v[i - Len(q)]
    BY Joined, Zenon
  <2>2. Len(q) = d /\ Len(v) = n /\ queue' = q \o v
    BY <1>1, <1>4, <1>9
  <2> QED BY <2>1, <2>2, Zenon
<1>11. cbuf' \in Cbuf
  <2>1. PICK a \in Int : a = w + n
    BY <1>5
  <2>2. a % P \in 0..P-1
    BY ModIn, Zenon
  <2>3. (w + n) % P \in 0..P-1 /\ d + n \in 0..P
    BY <1>5, <2>1, <2>2
  <2> QED BY <1>2, <1>6, <1>7, <2>3 DEF Cbuf
<1>12. (w + n) % P = (r + (d + n)) % P
  <2>1. d + n <= P /\ n \in 0..P /\ r + d + n = r + (d + n)
    BY <1>5
  <2>2. (((r + d) % P) + n) % P = (r + d + n) % P
    BY <2>1, ModShift, Zenon
  <2> QED BY <1>4, <2>1, <2>2
<1>13. ASSUME NEW i \in 1..d+n PROVE z[i] = M[(r + i - 1) % P]
  <2>1. PICK j \in 0..P-1 : j = i - 1
    BY <1>5
  <2>2. r + i - 1 = r + j /\ i = j + 1
    BY <2>1
  <2>3. CASE i <= d
    <3>1. i \in 1..d /\ ~(j >= d)
      BY <2>2, <2>3
    <3>2. z[i] = q[i] /\ q[i] = mem[(r + i - 1) % P]
      BY <1>4, <1>10, <2>3, <3>1, Zenon
    <3>3. M[(r + j) % P] = mem[(r + j) % P]
      BY <1>8, <3>1, Zenon
    <3> QED BY <2>2, <3>2, <3>3
  <2>4. CASE i > d
    <3>1. i - d \in 1..n /\ j - d + 1 = i - d /\ j >= d
      BY <1>5, <2>1, <2>4
    <3>2. z[i] = v[i - d] /\ v[i - d] = buf[i - d]
      <4>1. z[i] = v[i - d]
        <5>1. ~(i <= d)
          BY <1>5, <2>4
        <5>2. z[i] = IF i <= d THEN q[i] ELSE v[i - d]
          BY <1>10, Zenon
        <5> QED BY <5>1, <5>2
      <4>2. PICK x \in 1..n : x = i - d
        BY <3>1
      <4>3. v[x] = buf[x]
        BY <1>9
      <4> QED BY <4>1, <4>2, <4>3
    <3>3. M[(r + j) % P] = buf[j - d + 1]
      <4>1. j >= d /\ j - d + 1 <= n
        BY <3>1
      <4> QED BY <1>8, <4>1, Zenon
    <3> QED BY <2>2, <3>1, <3>2, <3>3
  <2> QED BY <2>3, <2>4
<1>14. RingInv(cbuf', queue')
  <2>1. cbuf'.data = d + n /\ cbuf'.wptr = (w + n) % P /\ cbuf'.rptr = r /\ cbuf'.mem = M
    BY <1>6
  <2>2. Len(queue') = cbuf'.data
    BY <1>10, <2>1
  <2>3. cbuf'.wptr = (cbuf'.rptr + cbuf'.data) % PIPE_SIZE
    BY <1>2, <1>12, <2>1
  <2>4. \A i \in 1..cbuf'.data : queue'[i] = cbuf'.mem[(cbuf'.rptr + i - 1) % PIPE_SIZE]
    BY <1>2, <1>10, <1>13, <2>1, Zenon
  <2> QED BY <2>2, <2>3, <2>4, Zenon DEF RingInv
<1> QED BY <1>10, <1>11, <1>14
------------------------------------------------------------------------------
(* The files: references, closes and sys_pipe2.                                *)

LEMMA Ends ==
    rd # wr /\ Files = {rd, wr} /\ \A t : File(t) \in Files
BY DEF Files, rd, wr, File

LEMMA CountsEmpty == Counts({}, 0) /\ \A n \in Nat : Counts({}, n) => n = 0
<1>1. PICK g \in [{} -> 1..0] : TRUE
  <2>1. [x \in {} |-> 0] \in [{} -> 1..0]
    OBVIOUS
  <2> QED BY <2>1, Zenon
<1>2. \A i \in 1..0 : FALSE
  OBVIOUS
<1>3. Counts({}, 0)
  BY <1>1, <1>2, Zenon DEF Counts
<1>4. ASSUME NEW n \in Nat, Counts({}, n) PROVE n = 0
  <2>1. ~(1 \in 1..n)
    BY <1>4, Zenon DEF Counts
  <2> QED BY <2>1
<1> QED BY <1>3, <1>4

LEMMA CountsNone ==
    ASSUME NEW S, Counts(S, 0)
    PROVE  S = {}
BY DEF Counts

LEMMA CountsAdd ==
    ASSUME NEW S, NEW n \in Nat, Counts(S, n), NEW t, t \notin S
    PROVE  Counts(S \cup {t}, n + 1)
<1>1. PICK g \in [S -> 1..n] : /\ \A x, y \in S : g[x] = g[y] => x = y
                               /\ \A i \in 1..n : \E x \in S : g[x] = i
  BY DEF Counts
<1>2. PICK h : h = [x \in S \cup {t} |-> IF x = t THEN n + 1 ELSE g[x]]
  BY Zenon
<1>3. h \in [S \cup {t} -> 1..n+1]
  BY <1>2
<1>4. h[t] = n + 1 /\ \A x \in S : h[x] = g[x] /\ h[x] # n + 1
  BY <1>2
<1>5. \A x, y \in S \cup {t} : h[x] = h[y] => x = y
  BY <1>1, <1>4
<1>6. \A i \in 1..n+1 : \E x \in S \cup {t} : h[x] = i
  <2> TAKE i \in 1..n+1
  <2>1. CASE i = n + 1
    BY <1>4, <2>1
  <2>2. CASE i \in 1..n
    BY <1>1, <1>4, <2>2
  <2> QED BY <2>1, <2>2
<1> QED BY <1>3, <1>5, <1>6 DEF Counts

\* The last number goes to the member that had the number of the one that leaves.
LEMMA CountsDrop ==
    ASSUME NEW S, NEW n \in Nat, Counts(S, n), NEW t \in S
    PROVE  n >= 1 /\ Counts(S \ {t}, n - 1)
<1>1. PICK g \in [S -> 1..n] : /\ \A x, y \in S : g[x] = g[y] => x = y
                               /\ \A i \in 1..n : \E x \in S : g[x] = i
  BY DEF Counts
<1>2. PICK k \in 1..n : k = g[t]
  BY <1>1
<1>3. n >= 1
  BY <1>2
<1>4. PICK h : h = [x \in S \ {t} |-> IF g[x] = n THEN k ELSE g[x]]
  BY Zenon
<1>5. \A x \in S \ {t} : g[x] \in 1..n /\ g[x] # k /\ h[x] = IF g[x] = n THEN k ELSE g[x]
  BY <1>1, <1>2, <1>4
<1>6. h \in [S \ {t} -> 1..n-1]
  <2>1. \A x \in S \ {t} : h[x] \in 1..n-1
    BY <1>2, <1>5
  <2> QED BY <1>4, <2>1
<1>7. \A x, y \in S \ {t} : h[x] = h[y] => x = y
  BY <1>1, <1>5
<1>8. \A i \in 1..n-1 : \E x \in S \ {t} : h[x] = i
  <2> TAKE i \in 1..n-1
  <2>1. CASE i = k
    <3>1. PICK x \in S : g[x] = n
      BY <1>1, <1>3
    <3>2. x # t
      BY <1>2, <2>1, <3>1
    <3> QED BY <1>5, <2>1, <3>1, <3>2
  <2>2. CASE i # k
    <3>1. PICK x \in S : g[x] = i
      BY <1>1
    <3>2. x # t /\ g[x] # n
      BY <1>2, <2>2, <3>1
    <3> QED BY <1>5, <3>1, <3>2
  <2> QED BY <2>1, <2>2
<1> QED BY <1>3, <1>6, <1>7, <1>8 DEF Counts
LEMMA RefsSum ==
    ASSUME NEW f \in Files, NEW k \in Nat
    PROVE  /\ Held(f, setup) \in {0, 1} /\ Refs(f, k) \in Nat
           /\ Refs(f, k) >= k /\ (f \in open => Refs(f, k) >= k + 1)
           /\ Refs(f, k + 1) = Refs(f, k) + 1 /\ (k >= 1 => Refs(f, k - 1) = Refs(f, k) - 1)
<1>1. Held(f, setup) \in {0, 1}
  BY DEF Held
<1>2. PICK a \in {0, 1}, b \in {0, 1} : a = Held(f, setup) /\ b = IF f \in open THEN 1 ELSE 0
  BY <1>1
<1>3. \A i : Refs(f, i) = a + b + i
  BY <1>2 DEF Refs
<1> QED BY <1>2, <1>3

\* The pipe is freed when no call is left.
LEMMA FreedByFiles ==
    ASSUME Typed, FileInv, ~panic
    PROVE  FreedOnce
<1> SUFFICES ASSUME setup # "failed"
             PROVE  /\ frees <= 1
                    /\ frees = 1 => /\ \A t \in Threads : pc[t] = "out"
                                    /\ \A f \in Files : cpc[f] \in {"none", "closed"}
  BY DEF FreedOnce
<1>1. /\ frees = (IF closed = Files THEN 1 ELSE 0)
      /\ \A f \in Files : f \in closed <=> cpc[f] = "closed"
  BY DEF FileInv, SetupInv
<1>2. ASSUME frees = 1 PROVE \A f \in Files : cpc[f] = "closed"
  BY <1>1, <1>2
<1>3. ASSUME frees = 1, NEW t \in Threads PROVE pc[t] = "out"
  <2>1. PICK f \in Files : f = File(t)
    BY Ends
  <2>2. cpc[f] # "none"
    BY <1>2, <1>3
  <2>3. PICK k \in Nat : Counts(InCalls(f), k) /\ ref[f] = Refs(f, k)
    BY DEF FileInv, RefInv
  <2>4. ~(ref[f] > 0)
    BY <2>2 DEF FileInv, RefInv
  <2>5. k = 0
    BY <2>3, <2>4, RefsSum
  <2>6. InCalls(f) = {}
    BY <2>3, <2>5, CountsNone
  <2> QED BY <2>1, <2>6 DEF InCalls
<1> QED BY <1>1, <1>2, <1>3

\* A step inside a call.
LEMMA FilesWithin ==
    ASSUME Typed, FileInv, FreedOnce, ~panic, NEW t \in Threads, NEW n \in Pcs,
           pc[t] # "out", n # "out", pc' = [pc EXCEPT ![t] = n],
           UNCHANGED <<closed, ref, open, cpc, setup, frees>>
    PROVE  FileInv' /\ FreedOnce'
<1>1. \A f : InCalls(f)' = InCalls(f)
  BY DEF InCalls, Typed
<1>2. RefInv'
  <2>1. RefInv
    BY DEF FileInv
  <2> QED BY <1>1, <2>1 DEF RefInv, Refs
<1>3. SetupInv'
  <2>1. SetupInv
    BY DEF FileInv
  <2>2. setup \notin {"file0", "file1", "fd"}
    BY <2>1 DEF SetupInv
  <2> QED BY <2>1, <2>2 DEF SetupInv
<1>4. FreedOnce'
  <2>1. ~(setup # "failed" /\ frees = 1)
    BY DEF FreedOnce
  <2>2. setup # "failed" => frees <= 1
    BY DEF FreedOnce
  <2> QED BY <2>1, <2>2 DEF FreedOnce
<1> QED BY <1>2, <1>3, <1>4 DEF FileInv

\* A call begins: the file is open, and has one more reference.
LEMMA FilesBegin ==
    ASSUME Typed, FileInv, ~panic, NEW t \in Threads, NEW n \in Pcs,
           pc[t] = "out", n # "out", pc' = [pc EXCEPT ![t] = n], File(t) \in open,
           ref' = [ref EXCEPT ![File(t)] = @ + 1],
           UNCHANGED <<closed, open, cpc, setup, frees>>
    PROVE  FileInv' /\ ref' \in [Files -> Int]
<1>1. PICK g \in Files : g = File(t)
  BY Ends
<1>2. RefInv /\ SetupInv
  BY DEF FileInv
<1>3. ref' \in [Files -> Int] /\ ref'[g] = ref[g] + 1 /\ \A f \in Files : f # g => ref'[f] = ref[f]
  BY <1>1 DEF Typed
<1>4. InCalls(g)' = InCalls(g) \cup {t} /\ t \notin InCalls(g)
  BY <1>1 DEF InCalls, Typed
<1>5. \A f \in Files : f # g => InCalls(f)' = InCalls(f)
  BY <1>1 DEF InCalls, Typed
<1>7. RefInv'
  <2> SUFFICES ASSUME NEW f \in Files
               PROVE  /\ \E k \in Nat : Counts(InCalls(f)', k) /\ ref'[f] = Refs(f, k)
                      /\ ref'[f] > 0 => cpc[f] = "none"
    BY DEF RefInv, Refs
  <2>1. PICK k \in Nat : Counts(InCalls(f), k) /\ ref[f] = Refs(f, k)
    BY <1>2 DEF RefInv
  <2>2. ref[f] > 0 => cpc[f] = "none"
    BY <1>2 DEF RefInv
  <2>3. CASE f = g
    <3>1. Counts(InCalls(f)', k + 1)
      BY <1>4, <2>1, <2>3, CountsAdd
    <3>2. ref[f] > 0 /\ ref'[f] = Refs(f, k + 1)
      BY <1>1, <1>3, <2>1, <2>3, RefsSum
    <3> QED BY <2>2, <3>1, <3>2
  <2>4. CASE f # g
    BY <1>3, <1>5, <2>1, <2>2, <2>4
  <2> QED BY <2>3, <2>4
<1>8. SetupInv'
  <2>1. setup \notin {"file0", "file1", "fd"}
    BY <1>2 DEF SetupInv
  <2> QED BY <1>2, <2>1 DEF SetupInv
<1> QED BY <1>3, <1>7, <1>8 DEF FileInv

\* What the drop of a reference to file g does to the closes.
LEMMA DropCloses ==
    ASSUME Typed, FileInv, ~panic, NEW g \in Files, ref[g] >= 1,
           ref' = [ref EXCEPT ![g] = @ - 1],
           cpc' = IF ref[g] = 1 THEN [cpc EXCEPT ![g] = "eof"] ELSE cpc
    PROVE  /\ ref' \in [Files -> Int]
           /\ cpc' \in [Files -> {"none", "eof", "wake", "or", "closed"}]
           /\ ref'[g] = ref[g] - 1 /\ \A f \in Files : f # g => ref'[f] = ref[f]
           /\ \A f \in Files : ref'[f] > 0 => cpc'[f] = "none"
           /\ \A f \in Files : cpc'[f] = "closed" <=> cpc[f] = "closed"
           /\ \A f \in Files : cpc[f] = "wake" => cpc'[f] = "wake"
<1>1. cpc[g] = "none" /\ \A f \in Files : ref[f] > 0 => cpc[f] = "none"
  BY DEF FileInv, RefInv, Typed
<1>2. ref' \in [Files -> Int] /\ ref'[g] = ref[g] - 1 /\ \A f \in Files : f # g => ref'[f] = ref[f]
  BY DEF Typed
<1>3. CASE ref[g] = 1
  <2>1. /\ cpc' \in [Files -> {"none", "eof", "wake", "or", "closed"}]
        /\ cpc'[g] = "eof" /\ \A f \in Files : f # g => cpc'[f] = cpc[f]
    BY <1>3 DEF Typed
  <2> QED BY <1>1, <1>2, <1>3, <2>1
<1>4. CASE ref[g] # 1
  <2>1. cpc' = cpc /\ ref'[g] > 0
    BY <1>2, <1>4 DEF Typed
  <2> QED BY <1>1, <1>2, <2>1 DEF Typed
<1> QED BY <1>3, <1>4

LEMMA FilesReturn ==
    ASSUME Typed, FileInv, ~panic, NEW t \in Threads, NEW from, NEW retv,
           pc[t] # "out", Return(t, from, retv)
    PROVE  /\ FileInv' /\ ~panic' /\ ref' \in [Files -> Int]
           /\ cpc' \in [Files -> {"none", "eof", "wake", "or", "closed"}]
           /\ \A f \in Files : cpc[f] = "wake" => cpc'[f] = "wake"
<1>1. PICK g \in Files : g = File(t)
  BY Ends
<1>2. RefInv /\ SetupInv
  BY DEF FileInv
<1>3. /\ pc' = [pc EXCEPT ![t] = "out"] /\ ref' = [ref EXCEPT ![g] = @ - 1]
      /\ cpc' = IF ref[g] = 1 THEN [cpc EXCEPT ![g] = "eof"] ELSE cpc
      /\ UNCHANGED <<closed, open, setup, frees, panic>>
  BY <1>1 DEF Return, Goto, file_unref
<1>4. InCalls(g)' = InCalls(g) \ {t} /\ t \in InCalls(g)
  BY <1>1, <1>3 DEF InCalls, Typed
<1>5. \A f \in Files : f # g => InCalls(f)' = InCalls(f)
  BY <1>1, <1>3 DEF InCalls, Typed
<1>6. PICK k \in Nat : Counts(InCalls(g), k) /\ ref[g] = Refs(g, k)
  BY <1>2 DEF RefInv
<1>7. k >= 1 /\ Counts(InCalls(g)', k - 1)
  BY <1>4, <1>6, CountsDrop
<1>8. Refs(g, k - 1) = ref[g] - 1
  BY <1>6, <1>7, RefsSum
<1>9. ref[g] >= 1
  BY <1>6, <1>7, RefsSum
<1>10. /\ ref' \in [Files -> Int]
       /\ cpc' \in [Files -> {"none", "eof", "wake", "or", "closed"}]
       /\ ref'[g] = ref[g] - 1 /\ \A f \in Files : f # g => ref'[f] = ref[f]
       /\ \A f \in Files : ref'[f] > 0 => cpc'[f] = "none"
       /\ \A f \in Files : cpc'[f] = "closed" <=> cpc[f] = "closed"
       /\ \A f \in Files : cpc[f] = "wake" => cpc'[f] = "wake"
  BY <1>3, <1>9, DropCloses, Zenon
<1>11. RefInv'
  <2> SUFFICES ASSUME NEW f \in Files
               PROVE  \E i \in Nat : Counts(InCalls(f)', i) /\ ref'[f] = Refs(f, i)
    BY <1>3, <1>10 DEF RefInv, Refs
  <2>1. CASE f = g
    <3>1. k - 1 \in Nat
      BY <1>7
    <3>2. Counts(InCalls(f)', k - 1) /\ ref'[f] = Refs(f, k - 1)
      BY <1>7, <1>8, <1>10, <2>1
    <3> QED BY <3>1, <3>2
  <2>2. CASE f # g
    BY <1>2, <1>5, <1>10, <2>2 DEF RefInv
  <2> QED BY <2>1, <2>2
<1>12. SetupInv'
  <2>1. setup \notin {"file0", "file1", "fd"}
    BY <1>2 DEF SetupInv
  <2>2. \A f \in Files : f \in closed' <=> cpc'[f] = "closed"
    BY <1>2, <1>3, <1>10 DEF SetupInv
  <2> QED BY <1>2, <1>3, <2>1, <2>2 DEF SetupInv
<1> QED BY <1>3, <1>10, <1>11, <1>12 DEF FileInv

LEMMA FilesClose ==
    ASSUME Typed, FileInv, NEW g \in Files, Close(g)
    PROVE  /\ FileInv' /\ ~panic' /\ ref' \in [Files -> Int]
           /\ cpc' \in [Files -> {"none", "eof", "wake", "or", "closed"}]
           /\ \A f \in Files : cpc[f] = "wake" => cpc'[f] = "wake"
<1>1. /\ ~panic /\ g \in open /\ open' = open \ {g}
      /\ ref' = [ref EXCEPT ![g] = @ - 1]
      /\ cpc' = IF ref[g] = 1 THEN [cpc EXCEPT ![g] = "eof"] ELSE cpc
      /\ UNCHANGED <<closed, setup, frees, panic, pc>>
  BY DEF Close, file_unref
<1>2. RefInv /\ SetupInv
  BY <1>1 DEF FileInv
<1>3. \A f : InCalls(f)' = InCalls(f)
  BY <1>1 DEF InCalls
<1>4. ASSUME NEW f \in Files
      PROVE  \E k \in Nat, h \in {0, 1} :
                /\ Counts(InCalls(f), k) /\ h = Held(f, setup)
                /\ ref[f] = h + (IF f \in open THEN 1 ELSE 0) + k
  BY <1>2 DEF RefInv, Refs, Held
<1>5. ref[g] >= 1
  BY <1>1, <1>4
<1>6. /\ ref' \in [Files -> Int]
      /\ cpc' \in [Files -> {"none", "eof", "wake", "or", "closed"}]
      /\ ref'[g] = ref[g] - 1 /\ \A f \in Files : f # g => ref'[f] = ref[f]
      /\ \A f \in Files : ref'[f] > 0 => cpc'[f] = "none"
      /\ \A f \in Files : cpc'[f] = "closed" <=> cpc[f] = "closed"
      /\ \A f \in Files : cpc[f] = "wake" => cpc'[f] = "wake"
  BY <1>1, <1>5, DropCloses, Zenon
<1>7. RefInv'
  <2> SUFFICES ASSUME NEW f \in Files
               PROVE  \E k \in Nat : /\ Counts(InCalls(f), k)
                                     /\ ref'[f] = Held(f, setup) + (IF f \in open' THEN 1 ELSE 0) + k
    BY <1>1, <1>3, <1>6 DEF RefInv, Refs
  <2>1. PICK k \in Nat, h \in {0, 1} : /\ Counts(InCalls(f), k) /\ h = Held(f, setup)
                                       /\ ref[f] = h + (IF f \in open THEN 1 ELSE 0) + k
    BY <1>4
  <2>2. CASE f = g
    <3>1. ref'[f] = h + (IF f \in open' THEN 1 ELSE 0) + k
      BY <1>1, <1>6, <2>1, <2>2
    <3> QED BY <2>1, <3>1, Zenon
  <2>3. CASE f # g
    <3>1. ref'[f] = ref[f] /\ (f \in open' <=> f \in open)
      BY <1>1, <1>6, <2>3
    <3> QED BY <2>1, <3>1
  <2> QED BY <2>2, <2>3
<1>8. SetupInv'
  <2>1. \A f \in Files : f \in closed' <=> cpc'[f] = "closed"
    BY <1>1, <1>2, <1>6 DEF SetupInv
  <2>2. setup \notin {"file0", "file1", "fd"}
    BY <1>1, <1>2 DEF SetupInv
  <2> QED BY <1>1, <1>2, <2>1, <2>2 DEF SetupInv
<1> QED BY <1>1, <1>6, <1>7, <1>8 DEF FileInv

\* The close of file g goes on.
LEMMA FilesCloseStep ==
    ASSUME Typed, FileInv, NEW g \in Files, NEW from \in {"eof", "wake", "or"},
           NEW to \in {"wake", "or", "closed"}, CloseGoto(g, from, to),
           closed' = IF to = "closed" THEN closed \cup {g} ELSE closed,
           frees' = IF to = "closed" /\ closed \ {g} # {} THEN frees + 1 ELSE frees,
           UNCHANGED <<ref, open, setup, panic, pc>>
    PROVE  /\ FileInv' /\ ~panic'
           /\ cpc' \in [Files -> {"none", "eof", "wake", "or", "closed"}]
           /\ closed' \in SUBSET Files
<1>1. ~panic /\ cpc[g] = from /\ cpc' = [cpc EXCEPT ![g] = to]
  BY DEF CloseGoto
<1>2. RefInv /\ SetupInv
  BY <1>1 DEF FileInv
<1>3. /\ cpc' \in [Files -> {"none", "eof", "wake", "or", "closed"}]
      /\ cpc'[g] = to /\ \A f \in Files : f # g => cpc'[f] = cpc[f]
  BY <1>1 DEF Typed
<1>4. \A f : InCalls(f)' = InCalls(f)
  BY DEF InCalls
<1>5. cpc[g] # "none" /\ cpc[g] # "closed"
  BY <1>1
<1>6. ~(ref[g] > 0)
  BY <1>2, <1>5 DEF RefInv
<1>7. RefInv'
  BY <1>2, <1>3, <1>4, <1>6 DEF RefInv, Refs
<1>8. g \notin closed /\ closed \subseteq Files
  BY <1>2, <1>5 DEF SetupInv, Typed
<1>9. \A f \in Files : f \in closed' <=> cpc'[f] = "closed"
  BY <1>2, <1>3, <1>8 DEF SetupInv
<1>10. closed' \in SUBSET Files
  BY <1>8
<1>11. setup # "failed" => frees' = IF closed' = Files THEN 1 ELSE 0
  <2>1. closed # Files
    BY <1>8
  <2>2. setup # "failed" => frees = 0
    BY <1>2, <2>1 DEF SetupInv
  <2>3. CASE to # "closed"
    BY <2>1, <2>2, <2>3
  <2>4. CASE to = "closed"
    <3>1. closed' = Files <=> closed \ {g} # {}
      BY <1>8, <2>4, Ends
    <3> QED BY <2>2, <2>4, <3>1
  <2> QED BY <2>3, <2>4
<1>12. SetupInv'
  <2>1. setup \notin {"file0", "file1"}
    BY <1>2, <1>5 DEF SetupInv
  <2> QED BY <1>2, <1>9, <1>11, <2>1 DEF SetupInv
<1> QED BY <1>1, <1>3, <1>7, <1>10, <1>12 DEF FileInv

\* A file is not closed while sys_pipe2 holds it.
LEMMA HeldNotClosed ==
    ASSUME Typed, FileInv, ~panic, NEW f \in Files, Held(f, setup) = 1
    PROVE  ref[f] >= 1 /\ cpc[f] = "none"
<1>1. PICK k \in Nat : ref[f] = Refs(f, k)
  BY DEF FileInv, RefInv
<1>2. ref[f] > 0 => cpc[f] = "none"
  BY DEF FileInv, RefInv
<1>4. ref[f] >= 1 /\ ref[f] > 0
  BY <1>1 DEF Refs
<1> QED BY <1>2, <1>4

LEMMA SetupFilesKeeps ==
    ASSUME Typed, FileInv, SetupFiles
    PROVE  /\ FileInv' /\ FreedOnce' /\ ref' \in [Files -> Int]
<1>1. ~panic /\ setup \in {"file0", "file1"} /\ UNCHANGED <<open, cpc, closed, pc>>
  BY DEF SetupFiles, SetupGoto, SetupKeep
<1>2. RefInv /\ SetupInv
  BY <1>1 DEF FileInv
<1>3. \A f : InCalls(f)' = InCalls(f) /\ InCalls(f) = {}
  BY <1>1, <1>2 DEF InCalls, SetupInv
<1>5. open = {} /\ closed = {} /\ frees = 0 /\ \A f \in Files : cpc[f] = "none"
  <2>1. open = {} /\ (\A f \in Files : cpc[f] = "none") /\ \A f \in Files : f \notin closed
    BY <1>1, <1>2 DEF SetupInv
  <2>2. closed = {} /\ closed # Files
    BY <2>1, Ends DEF Typed
  <2> QED BY <1>1, <1>2, <2>1, <2>2 DEF SetupInv
<1>6. \A f \in Files : ref[f] = Held(f, setup)
  <2> TAKE f \in Files
  <2>1. PICK k \in Nat : Counts(InCalls(f), k) /\ ref[f] = Refs(f, k)
    BY <1>2 DEF RefInv
  <2>2. k = 0 /\ f \notin open
    BY <1>3, <1>5, <2>1, CountsEmpty
  <2>3. Held(f, setup) \in {0, 1}
    BY DEF Held
  <2> QED BY <2>1, <2>2, <2>3 DEF Refs
<1>7. ASSUME ref' \in [Files -> Int], ~panic', \A f \in Files : ref'[f] = Held(f, setup')
      PROVE  RefInv'
  <2> SUFFICES ASSUME NEW f \in Files
               PROVE  /\ Counts(InCalls(f)', 0) /\ cpc'[f] = "none"
                      /\ ref'[f] = Held(f, setup') + (IF f \in open' THEN 1 ELSE 0) + 0
    BY DEF RefInv, Refs
  <2>1. Held(f, setup') \in {0, 1}
    BY DEF Held
  <2>2. Counts(InCalls(f)', 0)
    BY <1>3, CountsEmpty
  <2>3. cpc'[f] = "none" /\ f \notin open' /\ ref'[f] = Held(f, setup')
    BY <1>1, <1>5, <1>7
  <2> QED BY <2>1, <2>2, <2>3
<1>8. ASSUME setup' \in {"file1", "fd", "failed"}, setup' # "failed" => frees' = 0
      PROVE  SetupInv'
  <2>1. closed' # Files
    BY <1>1, <1>5, Ends
  <2> QED BY <1>1, <1>2, <1>5, <1>8, <2>1 DEF SetupInv
<1>9. CASE SetupGoto("file0", "file1") /\ ref' = [ref EXCEPT ![rd] = 1] /\ UNCHANGED <<frees, panic>>
  <2>1. ref' \in [Files -> Int] /\ ref'[rd] = 1 /\ ref'[wr] = ref[wr]
    BY <1>9, Ends DEF Typed
  <2>2. setup = "file0" /\ setup' = "file1" /\ ~panic' /\ frees' = 0
    BY <1>1, <1>5, <1>9 DEF SetupGoto
  <2>3. \A f \in Files : ref'[f] = Held(f, setup')
    BY <1>6, <2>1, <2>2, Ends DEF Held
  <2>4. RefInv' /\ SetupInv'
    BY <1>7, <1>8, <2>1, <2>2, <2>3
  <2>5. FreedOnce'
    BY <2>1, <2>2 DEF FreedOnce
  <2> QED BY <2>1, <2>3, <2>4, <2>5 DEF FileInv
<1>10. CASE SetupGoto("file1", "fd") /\ ref' = [ref EXCEPT ![wr] = 1] /\ UNCHANGED <<frees, panic>>
  <2>1. ref' \in [Files -> Int] /\ ref'[wr] = 1 /\ ref'[rd] = ref[rd]
    BY <1>10, Ends DEF Typed
  <2>2. setup = "file1" /\ setup' = "fd" /\ ~panic' /\ frees' = 0
    BY <1>1, <1>5, <1>10 DEF SetupGoto
  <2>3. \A f \in Files : ref'[f] = Held(f, setup')
    BY <1>6, <2>1, <2>2, Ends DEF Held
  <2>4. RefInv' /\ SetupInv'
    BY <1>7, <1>8, <2>1, <2>2, <2>3
  <2>5. FreedOnce'
    BY <2>1, <2>2 DEF FreedOnce
  <2> QED BY <2>1, <2>3, <2>4, <2>5 DEF FileInv
<1>11. CASE SetupGoto("file0", "failed") /\ UNCHANGED <<ref, panic>>
  <2>1. setup = "file0" /\ setup' = "failed" /\ ~panic'
    BY <1>1, <1>11 DEF SetupGoto
  <2>2. \A f \in Files : ref'[f] = Held(f, setup')
    BY <1>6, <1>11, <2>1 DEF Held
  <2>3. ref' \in [Files -> Int]
    BY <1>11 DEF Typed
  <2>4. RefInv' /\ SetupInv'
    BY <1>7, <1>8, <2>1, <2>2, <2>3
  <2>5. FreedOnce'
    BY <2>1, <2>2 DEF FreedOnce
  <2> QED BY <2>1, <2>3, <2>4, <2>5 DEF FileInv
<1>12. CASE SetupGoto("file1", "failed") /\ panic' = TRUE /\ UNCHANGED ref
  <2>1. ref' \in [Files -> Int]
    BY <1>12 DEF Typed
  <2> QED BY <1>12, <2>1 DEF FileInv, FreedOnce, SetupGoto
<1> QED BY <1>9, <1>10, <1>11, <1>12, Zenon DEF SetupFiles

LEMMA SetupRestKeeps ==
    ASSUME Typed, FileInv,
           fdalloc2 \/ SetupCopyout \/ SetupFdfree \/ SetupUnref \/ SetupTime \/ SetupFree
    PROVE  /\ FileInv' /\ ~panic' /\ ref' \in [Files -> Int] /\ open' \in SUBSET Files
           /\ cpc' \in [Files -> {"none", "eof", "wake", "or", "closed"}]
           /\ \A f \in Files : cpc[f] = "wake" => cpc'[f] = "wake"
<1>1. ~panic /\ UNCHANGED <<closed, pc, panic>>
  BY DEF fdalloc2, SetupCopyout, SetupFdfree, SetupUnref, SetupTime, SetupFree, SetupGoto, SetupKeep
<1>2. RefInv /\ SetupInv
  BY <1>1 DEF FileInv
<1>3. \A f : InCalls(f)' = InCalls(f)
  BY <1>1 DEF InCalls
<1>4. PICK K \in [Files -> Nat] :
         \A f \in Files : Counts(InCalls(f), K[f]) /\ ref[f] = Refs(f, K[f])
  <2>1. \A f \in Files : \E k \in Nat : Counts(InCalls(f), k) /\ ref[f] = Refs(f, k)
    BY <1>2 DEF RefInv
  <2>2. PICK L : L = [f \in Files |-> CHOOSE k \in Nat : Counts(InCalls(f), k) /\ ref[f] = Refs(f, k)]
    BY Zenon
  <2>3. \A f \in Files : L[f] \in Nat /\ Counts(InCalls(f), L[f]) /\ ref[f] = Refs(f, L[f])
    BY <2>1, <2>2
  <2>4. L \in [Files -> Nat]
    BY <2>2, <2>3
  <2> QED BY <2>3, <2>4
<1>5. ASSUME NEW f \in Files
      PROVE  /\ ref[f] = Held(f, setup) + (IF f \in open THEN 1 ELSE 0) + K[f]
             /\ ref[f] > 0 => cpc[f] = "none"
             /\ K[f] \in Nat /\ ref[f] \in Int
             /\ Held(f, setup) \in {0, 1} /\ Held(f, setup') \in {0, 1}
  BY <1>2, <1>4 DEF RefInv, Refs, Held, Typed
<1>10. ASSUME \A f \in Files :
                /\ ref'[f] = Held(f, setup') + (IF f \in open' THEN 1 ELSE 0) + K[f]
                /\ ref'[f] > 0 => cpc'[f] = "none"
       PROVE  RefInv'
  BY <1>3, <1>4, <1>10, Zenon DEF RefInv, Refs
<1>6. CASE fdalloc2
  <2>1. setup = "fd" /\ cpc' = cpc /\ frees' = frees /\ open = {}
    BY <1>2, <1>6 DEF fdalloc2, SetupGoto, SetupInv
  <2>2. \A f \in Files : Held(f, setup) = 1 /\ cpc[f] = "none"
    <3>1. \A f \in Files : Held(f, setup) = 1
      BY <2>1 DEF Held
    <3> QED BY <1>1, <3>1, HeldNotClosed
  <2>3. CASE setup' = "copyout" /\ ref' = [f \in Files |-> ref[f] + 1] /\ open' = Files
    <3>1. RefInv'
      <4>1. ASSUME NEW f \in Files
            PROVE  ref'[f] = Held(f, setup') + (IF f \in open' THEN 1 ELSE 0) + K[f]
        <5>1. ref[f] = 1 + K[f] /\ K[f] \in Nat
          BY <1>5, <2>1, <2>2
        <5>2. Held(f, setup') = 1 /\ f \in open' /\ ref'[f] = ref[f] + 1
          BY <2>3 DEF Held
        <5> QED BY <5>1, <5>2
      <4>2. \A f \in Files : cpc'[f] = "none"
        BY <2>1, <2>2
      <4> QED BY <1>10, <4>1, <4>2, Zenon
    <3>2. SetupInv'
      BY <1>1, <1>2, <2>1, <2>3, Zenon DEF SetupInv
    <3> QED BY <1>1, <1>5, <2>1, <2>3, <3>1, <3>2 DEF FileInv, Typed
  <2>4. CASE setup' = "unref1" /\ UNCHANGED <<ref, open>>
    <3>1. \A f \in Files : Held(f, setup') = Held(f, setup)
      BY <2>1, <2>4 DEF Held
    <3>2. RefInv'
      BY <1>5, <1>10, <2>1, <2>4, <3>1
    <3>3. SetupInv'
      BY <1>1, <1>2, <2>1, <2>4 DEF SetupInv
    <3> QED BY <1>1, <2>1, <2>4, <3>2, <3>3 DEF FileInv, Typed
  <2> QED BY <1>6, <2>3, <2>4 DEF fdalloc2, SetupGoto
<1>7. CASE SetupCopyout \/ SetupTime \/ SetupFree
  <2>1. /\ UNCHANGED <<ref, open, cpc>> /\ setup \notin {"file0", "file1", "fd", "failed"}
        /\ setup' \notin {"file0", "file1", "fd"}
        /\ setup' # "failed" => frees' = frees
    BY <1>7 DEF SetupCopyout, SetupTime, SetupFree, SetupGoto
  <2>2. \A f \in Files : Held(f, setup') = Held(f, setup)
    BY <1>7 DEF SetupCopyout, SetupTime, SetupFree, SetupGoto, Held
  <2>3. RefInv'
    BY <1>5, <1>10, <2>1, <2>2
  <2>4. SetupInv'
    BY <1>1, <1>2, <2>1 DEF SetupInv
  <2> QED BY <1>1, <2>1, <2>3, <2>4 DEF FileInv, Typed
<1>8. CASE SetupFdfree
  <2>1. /\ cpc' = cpc /\ frees' = frees /\ open' \subseteq open
        /\ setup \in {"fdfree0", "fdfree1"} /\ setup' \in {"fdfree1", "unref1"}
        /\ ref' = [f \in Files |-> IF f \in open \ open' THEN ref[f] - 1 ELSE ref[f]]
    BY <1>8 DEF SetupFdfree, SetupGoto
  <2>2. \A f \in Files : Held(f, setup) = 1 /\ Held(f, setup') = 1 /\ cpc[f] = "none"
    <3>1. \A f \in Files : Held(f, setup) = 1 /\ Held(f, setup') = 1
      BY <2>1 DEF Held
    <3> QED BY <1>1, <3>1, HeldNotClosed
  <2>3. ref' \in [Files -> Int]
    BY <1>5, <2>1
  <2>4. RefInv'
    <3>1. ASSUME NEW f \in Files
          PROVE  ref'[f] = Held(f, setup') + (IF f \in open' THEN 1 ELSE 0) + K[f]
      <4>1. ref[f] = 1 + (IF f \in open THEN 1 ELSE 0) + K[f] /\ K[f] \in Nat
        BY <1>5, <2>2
      <4>2. ref'[f] = IF f \in open \ open' THEN ref[f] - 1 ELSE ref[f]
        BY <2>1
      <4> QED BY <2>1, <2>2, <4>1, <4>2
    <3>2. \A f \in Files : cpc'[f] = "none"
      BY <2>1, <2>2
    <3> QED BY <1>10, <3>1, <3>2, Zenon
  <2>5. SetupInv'
    BY <1>1, <1>2, <2>1 DEF SetupInv
  <2> QED BY <1>1, <2>1, <2>3, <2>4, <2>5 DEF FileInv, Typed
<1>9. CASE SetupUnref
  <2>1. PICK g \in Files :
          /\ file_unref(g)
          /\ \/ g = rd /\ setup = "ok0" /\ setup' = "ok1"
             \/ g = rd /\ setup = "unref0" /\ setup' = "free"
             \/ g = wr /\ setup = "ok1" /\ setup' = "time"
             \/ g = wr /\ setup = "unref1" /\ setup' = "unref0"
    BY <1>9 DEF SetupUnref, SetupGoto
  <2>2. UNCHANGED <<open, frees>>
    BY <1>9 DEF SetupUnref
  <2>3. /\ Held(g, setup) = 1 /\ Held(g, setup') = 0
        /\ \A f \in Files : f # g => Held(f, setup') = Held(f, setup)
    BY <2>1, Ends DEF Held
  <2>4. ref[g] >= 1 /\ ref' = [ref EXCEPT ![g] = @ - 1]
        /\ cpc' = IF ref[g] = 1 THEN [cpc EXCEPT ![g] = "eof"] ELSE cpc
    BY <1>1, <2>1, <2>3, HeldNotClosed DEF file_unref
  <2>5. /\ ref' \in [Files -> Int]
        /\ cpc' \in [Files -> {"none", "eof", "wake", "or", "closed"}]
        /\ ref'[g] = ref[g] - 1 /\ \A f \in Files : f # g => ref'[f] = ref[f]
        /\ \A f \in Files : ref'[f] > 0 => cpc'[f] = "none"
        /\ \A f \in Files : cpc'[f] = "closed" <=> cpc[f] = "closed"
        /\ \A f \in Files : cpc[f] = "wake" => cpc'[f] = "wake"
    BY <1>1, <2>4, DropCloses, Zenon
  <2>6. RefInv'
    <3>1. ASSUME NEW f \in Files
          PROVE  ref'[f] = Held(f, setup') + (IF f \in open' THEN 1 ELSE 0) + K[f]
      <4>1. /\ ref[f] = Held(f, setup) + (IF f \in open THEN 1 ELSE 0) + K[f]
            /\ K[f] \in Nat /\ Held(f, setup) \in {0, 1}
        BY <1>5
      <4>2. CASE f = g
        <5>1. ref[f] = 1 + (IF f \in open THEN 1 ELSE 0) + K[f]
          BY <2>3, <4>1, <4>2
        <5>2. Held(f, setup') = 0 /\ ref'[f] = ref[f] - 1 /\ open' = open
          BY <2>2, <2>3, <2>5, <4>2
        <5> QED BY <4>1, <5>1, <5>2
      <4>3. CASE f # g
        BY <2>2, <2>3, <2>5, <4>1, <4>3
      <4> QED BY <4>2, <4>3
    <3> QED BY <1>10, <2>5, <3>1, Zenon
  <2>7. SetupInv'
    <3>1. setup' \notin {"file0", "file1", "fd"} /\ setup # "failed"
      BY <2>1
    <3>2. \A f \in Files : f \in closed' <=> cpc'[f] = "closed"
      BY <1>1, <1>2, <2>5 DEF SetupInv
    <3> QED BY <1>1, <1>2, <2>2, <3>1, <3>2 DEF SetupInv
  <2> QED BY <1>1, <2>2, <2>5, <2>6, <2>7 DEF FileInv, Typed
<1> QED BY <1>6, <1>7, <1>8, <1>9
------------------------------------------------------------------------------
(* The threads.                                                                *)

InLock == {"rwait", "rcopy", "wfull", "wwake"}
Asleep == {"rasleep", "wasleep"}

\* How thread t may change the lock on its way to place n.
LockRule(t, n) ==
    \/ lock' = lock /\ (n \in InLock <=> pc[t] \in InLock)
    \/ lock = NULL /\ lock' = t /\ n \in InLock
    \/ lock = t /\ lock' = NULL /\ n \notin InLock

LEMMA LockKeeps ==
    ASSUME Typed, LockReleased, NEW t \in Threads, NEW n \in Pcs,
           pc' = [pc EXCEPT ![t] = n], LockRule(t, n)
    PROVE  LockReleased'
<1> SUFFICES ASSUME NEW u \in Threads
             PROVE  lock' = u <=> pc'[u] \in InLock
  BY DEF LockReleased, InLock
<1>1. \A x \in Threads : lock = x <=> pc[x] \in InLock
  BY DEF LockReleased, InLock
<1>2. pc'[t] = n /\ (u # t => pc'[u] = pc[u])
  BY DEF Typed
<1>3. NULL \notin Threads
  BY PipeAssumption, Zenon
<1>4. CASE lock' = lock /\ (n \in InLock <=> pc[t] \in InLock)
  BY <1>1, <1>2, <1>4
<1>5. CASE lock = NULL /\ lock' = t /\ n \in InLock
  BY <1>1, <1>2, <1>3, <1>5
<1>6. CASE lock = t /\ lock' = NULL /\ n \notin InLock
  BY <1>1, <1>2, <1>3, <1>6
<1> QED BY <1>4, <1>5, <1>6 DEF LockRule

LEMMA CallsKeep ==
    ASSUME Typed, \A u \in Threads : CallInv(u, pc[u], call[u]),
           NEW t \in Threads, NEW n \in Pcs, NEW c \in Call, CallInv(t, n, c),
           pc' = [pc EXCEPT ![t] = n], call' = [call EXCEPT ![t] = c]
    PROVE  /\ pc' \in [Threads -> Pcs] /\ call' \in [Threads -> Call]
           /\ (\A u \in Threads : CallInv(u, pc[u], call[u]))'
<1>1. pc' \in [Threads -> Pcs] /\ call' \in [Threads -> Call]
  BY DEF Typed
<1>2. \A u \in Threads : u # t => pc'[u] = pc[u] /\ call'[u] = call[u]
  BY DEF Typed
<1>3. pc'[t] = n /\ call'[t] = c
  BY DEF Typed
<1>4. ASSUME NEW u \in Threads PROVE CallInv(u, pc'[u], call'[u])
  BY <1>2, <1>3
<1> QED BY <1>1, <1>4, Zenon DEF CallInv

\* A step that puts nobody to sleep and is not the wakeup of a writer.
LEMMA SleepersKept ==
    ASSUME Typed, SleepInv, NoStrandedReader, NEW t \in Threads, NEW n \in Pcs,
           pc' = [pc EXCEPT ![t] = n], pc[t] \notin Asleep, n \notin Asleep, pc[t] # "wwake",
           UNCHANGED <<asleep, woken>>, cbuf' \in Cbuf,
           cbuf'.data <= cbuf.data \/ (n = "wwake" /\ t \in Writers),
           \A f \in Files : cpc[f] = "wake" => cpc'[f] = "wake"
    PROVE  SleepInv' /\ NoStrandedReader'
<1>1. pc'[t] = n /\ \A u \in Threads : u # t => pc'[u] = pc[u]
  BY DEF Typed
<1>2. SleepInv'
  BY <1>1 DEF SleepInv, Asleep
<1>3. CASE n = "wwake" /\ t \in Writers
  <2>1. \E w \in Writers : pc'[w] = "wwake"
    BY <1>1, <1>3, Zenon
  <2> QED BY <1>2, <2>1, Zenon DEF NoStrandedReader
<1>4. CASE cbuf'.data <= cbuf.data
  <2> SUFFICES ASSUME NEW r \in (Readers \cap asleep) \ woken, cbuf'.data > 0
               PROVE  \/ \E w \in Writers : pc'[w] = "wwake"
                      \/ \E f \in Files : cpc'[f] = "wake"
    BY <1>2, Zenon DEF NoStrandedReader
  <2>1. cbuf.data > 0
    BY <1>4 DEF Typed, Cbuf
  <2>2. \/ \E w \in Writers : pc[w] = "wwake"
        \/ \E f \in Files : cpc[f] = "wake"
    BY <2>1, Zenon DEF NoStrandedReader
  <2>3. ASSUME NEW w \in Writers, pc[w] = "wwake" PROVE pc'[w] = "wwake"
    BY <1>1, <2>3 DEF Threads
  <2> QED BY <2>2, <2>3
<1> QED BY <1>2, <1>3, <1>4

\* A step of thread t inside its call, given what it does to the sleepers.
LEMMA PartsKeep ==
    ASSUME IInv, ~panic, NEW t \in Threads, NEW n \in Pcs, NEW c \in Call,
           pc' = [pc EXCEPT ![t] = n], call' = [call EXCEPT ![t] = c],
           CallInv(t, n, c), LockRule(t, n), pc[t] # "out", n # "out",
           cbuf' \in Cbuf, queue' \in Seq(Int), RingInv(cbuf', queue'),
           asleep' \in SUBSET Threads, woken' \in SUBSET Threads,
           SleepInv', NoStrandedReader',
           UNCHANGED <<closed, ref, open, cpc, setup, frees>>
    PROVE  IInv'
<1>1. /\ Typed /\ (\A u \in Threads : CallInv(u, pc[u], call[u]))
      /\ LockReleased /\ FileInv /\ FreedOnce
  BY Zenon DEF IInv
<1>2. /\ pc' \in [Threads -> Pcs] /\ call' \in [Threads -> Call]
      /\ (\A u \in Threads : CallInv(u, pc[u], call[u]))'
  BY <1>1, CallsKeep, Zenon
<1>3. Typed'
  BY <1>1, <1>2, Zenon DEF Typed
<1>4. LockReleased'
  BY <1>1, LockKeeps, Zenon
<1>5. FileInv' /\ FreedOnce'
  BY <1>1, FilesWithin, Zenon
<1>6. RingInv(cbuf, queue)'
  BY Zenon DEF RingInv
<1> QED BY <1>2, <1>3, <1>4, <1>5, <1>6 DEF IInv

LEMMA WithinKeeps ==
    ASSUME IInv, ~panic, NEW t \in Threads, NEW n \in Pcs, NEW c \in Call,
           pc' = [pc EXCEPT ![t] = n], call' = [call EXCEPT ![t] = c],
           CallInv(t, n, c), LockRule(t, n),
           pc[t] \notin Asleep \cup {"out", "wwake"}, n \notin Asleep \cup {"out"},
           cbuf' \in Cbuf, queue' \in Seq(Int), RingInv(cbuf', queue'),
           cbuf'.data <= cbuf.data \/ (n = "wwake" /\ t \in Writers),
           UNCHANGED <<asleep, woken, closed, ref, open, cpc, setup, frees>>
    PROVE  IInv'
<1>1. Typed /\ SleepInv /\ NoStrandedReader
  BY Zenon DEF IInv
<1>2. /\ pc[t] \notin Asleep /\ pc[t] # "wwake" /\ n \notin Asleep
      /\ UNCHANGED <<asleep, woken>>
      /\ \A f \in Files : cpc[f] = "wake" => cpc'[f] = "wake"
  OBVIOUS
<1>3. SleepInv' /\ NoStrandedReader'
  BY <1>1, <1>2, SleepersKept, Zenon
<1>4. asleep' \in SUBSET Threads /\ woken' \in SUBSET Threads
  BY <1>1 DEF Typed
<1> QED BY <1>3, <1>4, PartsKeep, Zenon

LEMMA RingKept ==
    ASSUME IInv, UNCHANGED <<cbuf, queue>>
    PROVE  /\ cbuf' \in Cbuf /\ queue' \in Seq(Int) /\ RingInv(cbuf', queue')
           /\ cbuf'.data <= cbuf.data
<1>1. cbuf \in Cbuf /\ queue \in Seq(Int) /\ RingInv(cbuf, queue)
  BY DEF IInv, Typed
<1>2. cbuf.data \in 0..PIPE_SIZE
  BY <1>1 DEF Cbuf
<1>3. cbuf.data <= cbuf.data
  BY <1>2, Sized
<1> QED BY <1>1, <1>3

LEMMA IsCall ==
    ASSUME NEW size \in Int, NEW iov \in Int, NEW prev \in Int, NEW buf \in Seq(Int),
           NEW moved \in Int, NEW retv \in Int
    PROVE  [size |-> size, iov |-> iov, prev |-> prev, buf |-> buf, moved |-> moved,
            retv |-> retv] \in Call
BY Zenon DEF Call

LEMMA ReturnTyped ==
    ASSUME NEW retv \in Int
    PROVE  [NoCall EXCEPT !.retv = retv] \in Call
<1>1. <<>> \in Seq(Int)
  OBVIOUS
<1>2. [NoCall EXCEPT !.retv = retv]
        = [size |-> 0, iov |-> 0, prev |-> 0, buf |-> <<>>, moved |-> 0, retv |-> retv]
  BY DEF NoCall
<1>3. PICK s \in Seq(Int) : s = <<>>
  BY <1>1, Zenon
<1>4. [size |-> 0, iov |-> 0, prev |-> 0, buf |-> s, moved |-> 0, retv |-> retv] \in Call
  <2>1. 0 \in Int
    OBVIOUS
  <2> QED BY <2>1, IsCall, Zenon
<1> QED BY <1>2, <1>3, <1>4

LEMMA ReturnKeeps ==
    ASSUME IInv, ~panic, NEW t \in Threads, NEW from, NEW retv \in Int,
           Return(t, from, retv), from \notin Asleep \cup {"out", "wwake"},
           LockRule(t, "out"), UNCHANGED <<cbuf, queue, asleep, woken>>
    PROVE  IInv'
<1>1. /\ Typed /\ (\A u \in Threads : CallInv(u, pc[u], call[u])) /\ SleepInv
      /\ LockReleased /\ FileInv /\ NoStrandedReader /\ FreedOnce /\ RingInv(cbuf, queue)
  BY Zenon DEF IInv
<1>2. PICK c \in Call : c = [NoCall EXCEPT !.retv = Min(retv, 0)]
  <2>1. Min(retv, 0) \in Int
    BY DEF Min
  <2> QED BY <2>1, ReturnTyped, Zenon
<1>3. /\ pc[t] = from /\ pc' = [pc EXCEPT ![t] = "out"] /\ call' = [call EXCEPT ![t] = c]
      /\ UNCHANGED <<closed, open, setup, frees, panic>>
  BY <1>2 DEF Return, Goto
<1>4. "out" \in Pcs /\ "out" \notin Asleep /\ CallInv(t, "out", c)
  BY DEF Pcs, Asleep, CallInv, ReadPcs, WritePcs
<1>5. /\ pc' \in [Threads -> Pcs] /\ call' \in [Threads -> Call]
      /\ (\A u \in Threads : CallInv(u, pc[u], call[u]))'
  BY <1>1, <1>3, <1>4, CallsKeep, Zenon
<1>6. /\ FileInv' /\ ~panic' /\ ref' \in [Files -> Int]
      /\ cpc' \in [Files -> {"none", "eof", "wake", "or", "closed"}]
      /\ \A f \in Files : cpc[f] = "wake" => cpc'[f] = "wake"
  BY <1>1, <1>3, FilesReturn
<1>7. Typed'
  BY <1>1, <1>3, <1>5, <1>6, Zenon DEF Typed
<1>8. LockReleased'
  BY <1>1, <1>3, <1>4, LockKeeps, Zenon
<1>9. FreedOnce'
  <2>1. ASSUME Typed', FileInv', ~panic' PROVE FreedOnce'
    BY <2>1, FreedByFiles, PTL
  <2> QED BY <1>6, <1>7, <2>1
<1>10. SleepInv' /\ NoStrandedReader'
  <2>1. pc[t] \notin Asleep /\ pc[t] # "wwake" /\ UNCHANGED <<asleep, woken>>
    BY <1>3
  <2>2. cbuf' \in Cbuf /\ cbuf'.data <= cbuf.data
    BY RingKept
  <2> QED BY <1>1, <1>3, <1>4, <1>6, <2>1, <2>2, SleepersKept, Zenon
<1>11. RingInv(cbuf, queue)'
  BY <1>1, Zenon DEF RingInv
<1> QED BY <1>5, <1>6, <1>7, <1>8, <1>9, <1>10, <1>11, Zenon DEF IInv

\* A step that only moves on, with or without the lock.
LEMMA MoveKeeps ==
    ASSUME IInv, ~panic, NEW t \in Threads, NEW n \in Pcs, Goto(t, pc[t], n),
           CallInv(t, n, call[t]), LockRule(t, n),
           pc[t] \notin Asleep \cup {"out", "wwake"}, n \notin Asleep \cup {"out", "wwake"},
           UNCHANGED <<cbuf, queue, call, asleep, woken, closed, ref, open, cpc, setup, frees>>
    PROVE  IInv'
<1>1. PICK c \in Call : c = call[t]
  BY Zenon DEF IInv, Typed
<1>2. pc' = [pc EXCEPT ![t] = n] /\ call' = [call EXCEPT ![t] = c]
  BY <1>1 DEF Goto, IInv, Typed
<1>3. /\ cbuf' \in Cbuf /\ queue' \in Seq(Int) /\ RingInv(cbuf', queue')
      /\ cbuf'.data <= cbuf.data
  BY RingKept
<1>4. CallInv(t, n, c)
  BY <1>1, Zenon
<1> QED BY <1>2, <1>3, <1>4, WithinKeeps, Zenon

\* What is known of a thread at place p.
LEMMA AtPlace ==
    ASSUME IInv, NEW t \in Threads
    PROVE  call[t] \in Call /\ pc[t] \in Pcs /\ CallInv(t, pc[t], call[t])
BY DEF IInv, Typed

LEMMA Places ==
    /\ ReadPcs \subseteq Pcs /\ WritePcs \subseteq Pcs
    /\ WritePcs = {"wcheck", "wmove", "wlock", "wfull", "wsleep", "wasleep", "wrelock",
                   "wwake", "wres"}
BY DEF ReadPcs, WritePcs, Pcs

LEMMA BeginKeeps ==
    ASSUME IInv, NEW t \in Threads, NEW n \in {"rlock", "wcheck"}, NEW k \in Sizes,
           Goto(t, "out", n), Begin(t, k),
           n = "rlock" => t \in Readers, n = "wcheck" => t \in Writers
    PROVE  IInv'
<1>1. /\ Typed /\ (\A u \in Threads : CallInv(u, pc[u], call[u])) /\ SleepInv
      /\ LockReleased /\ FileInv /\ NoStrandedReader /\ FreedOnce /\ RingInv(cbuf, queue)
  BY Zenon DEF IInv
<1>2. PICK c : c = [size |-> k, iov |-> k, prev |-> k, buf |-> <<>>, moved |-> 0, retv |-> 0]
  BY Zenon
<1>3. k \in Nat
  BY PipeAssumption
<1>4. c \in Call /\ c.size = k
  <2>1. PICK s \in Seq(Int) : s = <<>>
    <3>1. <<>> \in Seq(Int)
      OBVIOUS
    <3> QED BY <3>1, Zenon
  <2>2. [size |-> k, iov |-> k, prev |-> k, buf |-> s, moved |-> 0, retv |-> 0] \in Call
    <3>1. k \in Int /\ 0 \in Int
      BY <1>3
    <3> QED BY <3>1, IsCall, Zenon
  <2> QED BY <1>2, <2>1, <2>2
<1>5. /\ ~panic /\ pc[t] = "out" /\ pc' = [pc EXCEPT ![t] = n]
      /\ File(t) \in open /\ ref' = [ref EXCEPT ![File(t)] = @ + 1]
      /\ UNCHANGED <<cbuf, lock, eof, asleep, woken, queue>>
      /\ UNCHANGED <<closed, open, cpc, setup, frees, panic>>
  BY Zenon DEF Goto, Begin
<1>6. call' = [call EXCEPT ![t] = c]
  BY <1>2, Zenon DEF Begin
<1>7. n \in Pcs /\ n # "out" /\ n \notin Asleep /\ n \notin InLock
  BY DEF Pcs, Asleep, InLock
<1>8. CallInv(t, n, c)
  BY <1>3, <1>4, Places DEF CallInv, ReadPcs
<1>9. /\ pc' \in [Threads -> Pcs] /\ call' \in [Threads -> Call]
      /\ (\A u \in Threads : CallInv(u, pc[u], call[u]))'
  BY <1>1, <1>4, <1>5, <1>6, <1>7, <1>8, CallsKeep, Zenon
<1>10. FileInv' /\ ref' \in [Files -> Int]
  BY <1>1, <1>5, <1>7, FilesBegin, Zenon
<1>11. Typed'
  BY <1>1, <1>5, <1>9, <1>10, Zenon DEF Typed
<1>12. FreedOnce'
  <2>1. ASSUME Typed', FileInv', ~panic' PROVE FreedOnce'
    BY <2>1, FreedByFiles, PTL
  <2> QED BY <1>5, <1>10, <1>11, <2>1
<1>13. LockReleased'
  <2>1. LockRule(t, n)
    BY <1>5, <1>7, Zenon DEF LockRule, InLock
  <2> QED BY <1>1, <1>5, <1>7, <2>1, LockKeeps, Zenon
<1>14. SleepInv' /\ NoStrandedReader'
  <2>1. /\ pc[t] \notin Asleep /\ pc[t] # "wwake" /\ UNCHANGED <<asleep, woken>>
        /\ cbuf' \in Cbuf /\ cbuf'.data <= cbuf.data
        /\ \A f \in Files : cpc[f] = "wake" => cpc'[f] = "wake"
    <3>1. cbuf' \in Cbuf /\ cbuf'.data <= cbuf.data
      BY <1>5, RingKept
    <3>2. pc[t] \notin Asleep /\ pc[t] # "wwake"
      BY <1>5 DEF Asleep
    <3> QED BY <1>5, <3>1, <3>2
  <2> QED BY <1>1, <1>5, <1>7, <2>1, SleepersKept, Zenon
<1>15. RingInv(cbuf, queue)'
  BY <1>1, <1>5, Zenon DEF RingInv
<1> QED BY <1>9, <1>10, <1>11, <1>12, <1>13, <1>14, <1>15, Zenon DEF IInv

LEMMA ReadLockKeeps ==
    ASSUME IInv, NEW t \in Threads, ReadLock(t)
    PROVE  IInv'
<1>1. /\ ~panic /\ lock = NULL /\ lock' = t
      /\ UNCHANGED <<cbuf, queue, call, asleep, woken, closed, ref, open, cpc, setup, frees>>
  BY DEF ReadLock, Goto, sync_acquire, fileVars
<1>2. PICK n \in {"rwait", "rcopy"} : /\ Goto(t, pc[t], n)
                                     /\ pc[t] = IF n = "rwait" THEN "rlock" ELSE "rlock2"
  BY DEF ReadLock, Goto
<1>3. n \in Pcs /\ n \notin Asleep \cup {"out", "wwake"} /\ LockRule(t, n)
      /\ pc[t] \notin Asleep \cup {"out", "wwake"}
  BY <1>1, <1>2 DEF Pcs, Asleep, LockRule, InLock
<1>4. CallInv(t, n, call[t])
  BY <1>2, AtPlace, Places, Zenon DEF CallInv, ReadPcs
<1> QED BY <1>1, <1>2, <1>3, <1>4, MoveKeeps, Zenon

LEMMA ReadWaitKeeps ==
    ASSUME IInv, NEW t \in Threads, ReadWait(t)
    PROVE  IInv'
<1>1. pc[t] = "rwait" /\ ~panic
  BY DEF ReadWait, Return, Goto
<1>2. CASE ~cbuf_is_empty
  <2>1. /\ Goto(t, pc[t], "rcopy") /\ lock' = lock
        /\ UNCHANGED <<cbuf, queue, call, asleep, woken, closed, ref, open, cpc, setup, frees>>
    BY <1>1, <1>2 DEF ReadWait, rbVars, fileVars
  <2>2. /\ "rcopy" \in Pcs /\ "rcopy" \notin Asleep \cup {"out", "wwake"}
        /\ LockRule(t, "rcopy") /\ pc[t] \notin Asleep \cup {"out", "wwake"}
    BY <1>1, <2>1 DEF Pcs, Asleep, LockRule, InLock
  <2>3. CallInv(t, "rcopy", call[t])
    BY <1>1, AtPlace, Places, Zenon DEF CallInv, ReadPcs
  <2> QED BY <1>1, <2>1, <2>2, <2>3, MoveKeeps, Zenon
<1>3. CASE cbuf_is_empty
  <2>1. lock = t /\ lock' = NULL /\ UNCHANGED <<cbuf, queue, asleep, woken>>
    BY <1>3 DEF ReadWait, sync_release
  <2>2. CASE \E e \in {EPIPE, EAGAIN} : Return(t, "rwait", e)
    <3>1. PICK e \in {EPIPE, EAGAIN} : Return(t, "rwait", e)
      BY <2>2
    <3>2. e \in Int
      BY DEF EPIPE, EAGAIN
    <3>3. "rwait" \notin Asleep \cup {"out", "wwake"} /\ LockRule(t, "out")
      BY <2>1 DEF Asleep, LockRule, InLock
    <3> QED BY <1>1, <2>1, <3>1, <3>2, <3>3, ReturnKeeps
  <2>3. CASE Goto(t, "rwait", "rsleep") /\ UNCHANGED <<call, fileVars>>
    <3>1. /\ Goto(t, pc[t], "rsleep")
          /\ UNCHANGED <<cbuf, queue, call, asleep, woken, closed, ref, open, cpc, setup, frees>>
      BY <1>1, <2>1, <2>3 DEF fileVars
    <3>2. /\ "rsleep" \in Pcs /\ "rsleep" \notin Asleep \cup {"out", "wwake"}
          /\ LockRule(t, "rsleep") /\ pc[t] \notin Asleep \cup {"out", "wwake"}
      BY <1>1, <2>1 DEF Pcs, Asleep, LockRule, InLock
    <3>3. CallInv(t, "rsleep", call[t])
      BY <1>1, AtPlace, Places, Zenon DEF CallInv, ReadPcs
    <3> QED BY <1>1, <3>1, <3>2, <3>3, MoveKeeps, Zenon
  <2> QED BY <1>3, <2>2, <2>3 DEF ReadWait
<1> QED BY <1>2, <1>3

\* The result of kern_wait.
LEMMA SetRetv ==
    ASSUME IInv, NEW t \in Threads, NEW e \in Int, call' = [call EXCEPT ![t].retv = e]
    PROVE  \E c \in Call : /\ call' = [call EXCEPT ![t] = c]
                           /\ c.size = call[t].size /\ c.buf = call[t].buf /\ c.retv = e
<1>1. PICK d \in Call : d = call[t]
  BY DEF IInv, Typed
<1>2. PICK c : c = [d EXCEPT !.retv = e]
  BY Zenon
<1>3. c \in Call /\ c.size = d.size /\ c.buf = d.buf /\ c.retv = e
  BY <1>2, Zenon DEF Call
<1>4. call' = [call EXCEPT ![t] = c]
  BY <1>1, <1>2
<1> QED BY <1>1, <1>3, <1>4, Zenon

Waits == {<<"rsleep", "rasleep", "rrelock">>, <<"wsleep", "wasleep", "wrelock">>}

LEMMA kern_waitKeeps ==
    ASSUME IInv, NEW t \in Threads, NEW from, NEW val, NEW slept, NEW awake,
           kern_wait(t, from, val, slept, awake), <<from, slept, awake>> \in Waits,
           from = "rsleep" => val = 0
    PROVE  IInv'
<1>1. /\ ~panic /\ pc[t] = from
      /\ UNCHANGED <<cbuf, lock, woken, queue, closed, ref, open, cpc, setup, frees>>
  BY DEF kern_wait, Goto, fileVars
<1>2. \/ from = "rsleep" /\ slept = "rasleep" /\ awake = "rrelock"
      \/ from = "wsleep" /\ slept = "wasleep" /\ awake = "wrelock"
  BY DEF Waits
<1>3. /\ slept \in Pcs /\ awake \in Pcs /\ slept # "out" /\ awake # "out" /\ pc[t] # "out"
      /\ pc[t] \notin InLock /\ slept \notin InLock /\ awake \notin InLock
      /\ pc[t] \notin Asleep /\ awake \notin Asleep /\ slept \in Asleep /\ pc[t] # "wwake"
  BY <1>1, <1>2, Zenon DEF Pcs, InLock, Asleep
<1>4. LockRule(t, slept) /\ LockRule(t, awake)
  BY <1>1, <1>3, Zenon DEF LockRule
<1>5. cbuf' \in Cbuf /\ queue' \in Seq(Int) /\ RingInv(cbuf', queue') /\ cbuf'.data <= cbuf.data
  BY <1>1, RingKept
<1>6. CallInv(t, from, call[t])
  BY <1>1, AtPlace, Zenon
<1>7. CASE cbuf.data # val
  <2>1. /\ pc' = [pc EXCEPT ![t] = awake] /\ asleep' = asleep
        /\ call' = [call EXCEPT ![t].retv = EAGAIN]
    BY <1>7 DEF kern_wait, Goto
  <2>2. PICK e \in Int : call' = [call EXCEPT ![t].retv = e]
    <3>1. EAGAIN \in Int
      BY DEF EAGAIN
    <3> QED BY <2>1, <3>1, Zenon
  <2>3. PICK c \in Call : /\ call' = [call EXCEPT ![t] = c]
                          /\ c.size = call[t].size /\ c.buf = call[t].buf
    BY <2>2, SetRetv, Zenon
  <2>4. CallInv(t, awake, c)
    BY <1>2, <1>6, <2>3, Places, Zenon DEF CallInv, ReadPcs
  <2> QED BY <1>1, <1>3, <1>4, <1>5, <2>1, <2>3, <2>4, WithinKeeps, Zenon
<1>8. CASE cbuf.data = val
  <2>1. pc' = [pc EXCEPT ![t] = slept] /\ asleep' = asleep \cup {t} /\ call' = call
    BY <1>8 DEF kern_wait, Goto
  <2>2. PICK c \in Call : c = call[t] /\ call' = [call EXCEPT ![t] = c]
    BY <2>1 DEF IInv, Typed
  <2>3. CallInv(t, slept, c)
    BY <1>2, <1>6, <2>2, Places DEF CallInv, ReadPcs
  <2>4. pc'[t] = slept /\ \A u \in Threads : u # t => pc'[u] = pc[u]
    BY <2>1 DEF IInv, Typed
  <2>5. SleepInv'
    BY <1>1, <1>3, <2>1, <2>4, Zenon DEF IInv, SleepInv, Asleep
  <2>6. NoStrandedReader'
    <3> SUFFICES ASSUME NEW r \in (Readers \cap asleep') \ woken', cbuf'.data > 0
                 PROVE  \/ \E w \in Writers : pc'[w] = "wwake"
                        \/ \E f \in Files : cpc'[f] = "wake"
      BY DEF NoStrandedReader
    <3>1. r # t
      <4>1. from = "wsleep" => t \notin Readers
        BY <1>6, Places, PipeAssumption, Zenon DEF CallInv
      <4>2. from = "rsleep" => ~(cbuf'.data > 0)
        BY <1>1, <1>8
      <4> QED BY <1>2, <4>1, <4>2
    <3>2. r \in (Readers \cap asleep) \ woken /\ cbuf.data > 0
      BY <1>1, <2>1, <3>1
    <3>3. \/ \E w \in Writers : pc[w] = "wwake"
          \/ \E f \in Files : cpc[f] = "wake"
      BY <3>2, Zenon DEF IInv, NoStrandedReader
    <3>4. ASSUME NEW w \in Writers, pc[w] = "wwake" PROVE pc'[w] = "wwake"
      BY <1>3, <2>4, <3>4, Zenon DEF Threads
    <3> QED BY <1>1, <3>3, <3>4, Zenon
  <2>7. asleep' \in SUBSET Threads /\ woken' \in SUBSET Threads
    BY <1>1, <2>1, Zenon DEF IInv, Typed
  <2> QED BY <1>1, <1>3, <1>4, <1>5, <2>1, <2>2, <2>3, <2>5, <2>6, <2>7, PartsKeep, Zenon
<1> QED BY <1>7, <1>8

LEMMA WakeupKeeps ==
    ASSUME IInv, NEW t \in Threads, NEW from \in Asleep, NEW to, Wakeup(t, from, to),
           to = IF from = "rasleep" THEN "rrelock" ELSE "wrelock"
    PROVE  IInv'
<1>1. /\ ~panic /\ pc[t] = from /\ pc' = [pc EXCEPT ![t] = to]
      /\ asleep' = asleep \ {t} /\ woken' = woken \ {t}
      /\ UNCHANGED <<cbuf, lock, queue, closed, ref, open, cpc, setup, frees>>
  BY DEF Wakeup, Goto, fileVars
<1>2. PICK c \in Call : /\ call' = [call EXCEPT ![t] = c]
                        /\ c.size = call[t].size /\ c.buf = call[t].buf
  <2>1. 0 \in Int /\ EINTR \in Int
    BY DEF EINTR
  <2>2. PICK e \in Int : call' = [call EXCEPT ![t].retv = e]
    BY <2>1 DEF Wakeup
  <2> QED BY <2>2, SetRetv, Zenon
<1>3. \/ from = "rasleep" /\ to = "rrelock"
      \/ from = "wasleep" /\ to = "wrelock"
  BY DEF Asleep
<1>4. /\ to \in Pcs /\ to # "out" /\ pc[t] # "out" /\ pc[t] # "wwake"
      /\ pc[t] \notin InLock /\ to \notin InLock /\ to \notin Asleep
  BY <1>1, <1>3 DEF Pcs, InLock, Asleep
<1>5. LockRule(t, to)
  BY <1>1, <1>4 DEF LockRule
<1>6. CallInv(t, to, c)
  <2>1. CallInv(t, from, call[t])
    BY <1>1, AtPlace
  <2> QED BY <1>2, <1>3, <2>1, Places, Zenon DEF CallInv, ReadPcs
<1>7. cbuf' \in Cbuf /\ queue' \in Seq(Int) /\ RingInv(cbuf', queue')
  BY <1>1, Zenon DEF IInv, Typed
<1>8. pc'[t] = to /\ \A u \in Threads : u # t => pc'[u] = pc[u]
  BY <1>1 DEF IInv, Typed
<1>9. SleepInv'
  BY <1>1, <1>4, <1>8, Zenon DEF IInv, SleepInv, Asleep
<1>10. NoStrandedReader'
  <2> SUFFICES ASSUME NEW r \in (Readers \cap asleep') \ woken', cbuf'.data > 0
               PROVE  \/ \E w \in Writers : pc'[w] = "wwake"
                      \/ \E f \in Files : cpc'[f] = "wake"
    BY DEF NoStrandedReader
  <2>1. r \in (Readers \cap asleep) \ woken /\ cbuf.data > 0
    BY <1>1
  <2>2. \/ \E w \in Writers : pc[w] = "wwake"
        \/ \E f \in Files : cpc[f] = "wake"
    BY <2>1, Zenon DEF IInv, NoStrandedReader
  <2>3. ASSUME NEW w \in Writers, pc[w] = "wwake" PROVE pc'[w] = "wwake"
    BY <1>4, <1>8, <2>3, Zenon DEF Threads
  <2> QED BY <1>1, <2>2, <2>3
<1>11. asleep' \in SUBSET Threads /\ woken' \in SUBSET Threads
  BY <1>1, Zenon DEF IInv, Typed
<1> QED BY <1>1, <1>2, <1>4, <1>5, <1>6, <1>7, <1>9, <1>10, <1>11, PartsKeep, Zenon

\* ReadRelock and WriteRelock: the result of the sleep decides.
LEMMA RelockKeeps ==
    ASSUME IInv, NEW t \in Threads, ReadRelock(t) \/ WriteRelock(t)
    PROVE  IInv'
<1>1. pc[t] \in {"rrelock", "wrelock"} /\ UNCHANGED <<cbuf, asleep, woken, queue>> /\ lock = NULL
  BY Zenon DEF ReadRelock, WriteRelock
<1>2. /\ ~panic
      /\ \/ Return(t, pc[t], call[t].retv) /\ lock' = lock
         \/ /\ call[t].retv = 0 /\ lock' = t /\ UNCHANGED <<call, fileVars>>
            /\ Goto(t, pc[t], IF pc[t] = "rrelock" THEN "rwait" ELSE "wfull")
  BY DEF ReadRelock, WriteRelock, Return, Goto, sync_acquire
<1>3. pc[t] \notin Asleep \cup {"out", "wwake"} /\ pc[t] \notin InLock
  BY <1>1 DEF Asleep, InLock
<1>4. CallInv(t, pc[t], call[t]) /\ call[t] \in Call
  BY AtPlace, Zenon
<1>5. CASE Return(t, pc[t], call[t].retv) /\ lock' = lock
  <2>1. call[t].retv \in Int
    BY <1>4, Zenon DEF Call
  <2>2. LockRule(t, "out")
    BY <1>3, <1>5, Zenon DEF LockRule, InLock
  <2> QED BY <1>1, <1>2, <1>3, <1>5, <2>1, <2>2, ReturnKeeps, Zenon
<1>6. CASE /\ call[t].retv = 0 /\ lock' = t /\ UNCHANGED <<call, fileVars>>
           /\ Goto(t, pc[t], IF pc[t] = "rrelock" THEN "rwait" ELSE "wfull")
  <2>1. PICK n \in {"rwait", "wfull"} : n = IF pc[t] = "rrelock" THEN "rwait" ELSE "wfull"
    OBVIOUS
  <2>2. n \in Pcs /\ n \notin Asleep \cup {"out", "wwake"} /\ n \in InLock
    BY <2>1 DEF Pcs, Asleep, InLock
  <2>3. LockRule(t, n)
    BY <1>1, <1>6, <2>2, Zenon DEF LockRule
  <2>4. 0 \in 0..Len(call[t].buf)
    <3>1. call[t].buf \in Seq(Int)
      BY <1>4 DEF Call
    <3>2. Len(call[t].buf) \in Nat
      BY <3>1
    <3> QED BY <3>2
  <2>5. CallInv(t, n, call[t])
    BY <1>1, <1>4, <1>6, <2>1, <2>4, Places, Zenon DEF CallInv, ReadPcs
  <2>6. UNCHANGED <<cbuf, queue, call, asleep, woken, closed, ref, open, cpc, setup, frees>>
    BY <1>1, <1>6, Zenon DEF fileVars
  <2>7. Goto(t, pc[t], n)
    BY <1>6, <2>1
  <2> QED BY <1>2, <1>3, <2>2, <2>3, <2>5, <2>6, <2>7, MoveKeeps, Zenon
<1> QED BY <1>2, <1>5, <1>6, Zenon

\* The chunk of ringbuf_read_uio is no longer than the data and than what is asked for.
LEMMA CopySize ==
    ASSUME cbuf \in Cbuf, NEW s \in Nat, NEW n, n = Min(cbuf.data, Min(s, CHUNK))
    PROVE  n \in 0..cbuf.data /\ n <= s /\ (n # 0 => n \in 1..cbuf.data)
<1>1. PICK P \in Nat, k \in Nat : P = PIPE_SIZE /\ k = CHUNK
  BY Sized
<1>2. PICK m \in 0..P : m = cbuf.data
  BY <1>1 DEF Cbuf
<1>3. n = Min(m, Min(s, k))
  BY <1>1, <1>2
<1>4. n \in 0..m /\ n <= s /\ (n # 0 => n \in 1..m)
  BY <1>3 DEF Min
<1> QED BY <1>2, <1>4

LEMMA ReadCopyKeeps ==
    ASSUME IInv, NEW t \in Threads, ReadCopy(t)
    PROVE  IInv'
<1>1. pc[t] = "rcopy" /\ ~panic /\ lock = t /\ lock' = NULL /\ UNCHANGED <<eof, asleep, woken, put>>
  BY DEF ReadCopy, Return, Goto, sync_release
<1>2. PICK d \in Call : d = call[t]
  BY AtPlace, Zenon
<1>3. CallInv(t, "rcopy", d)
  BY <1>1, <1>2, AtPlace, Zenon
<1>4. t \in Readers /\ d.size \in Nat
  BY <1>3 DEF CallInv, ReadPcs
<1>5. PICK n : n = Min(cbuf.data, Min(d.size, CHUNK))
  OBVIOUS
<1>6. n \in 0..cbuf.data /\ n <= d.size
  BY <1>4, <1>5, CopySize DEF IInv, Typed
<1>7. CASE n = 0
  <2>1. Return(t, "rcopy", d.prev - d.size) /\ UNCHANGED <<cbuf, queue>>
    BY <1>2, <1>5, <1>7 DEF ReadCopy
  <2>2. d.prev - d.size \in Int
    BY DEF Call
  <2>3. "rcopy" \notin Asleep \cup {"out", "wwake"} /\ LockRule(t, "out")
    BY <1>1 DEF Asleep, LockRule, InLock
  <2> QED BY <1>1, <2>1, <2>2, <2>3, ReturnKeeps
<1>8. CASE n # 0
  <2>1. /\ Goto(t, "rcopy", "rmove") /\ cbuf' = cbuf_read(n)
        /\ queue' = SubSeq(queue, n + 1, Len(queue))
        /\ call' = [call EXCEPT ![t].buf = cbuf_chunk(n)] /\ UNCHANGED fileVars
    BY <1>2, <1>5, <1>8 DEF ReadCopy
  <2>2. n \in 1..cbuf.data
    BY <1>6, <1>8 DEF IInv, Typed, Cbuf
  <2>3. /\ cbuf' \in Cbuf /\ queue' \in Seq(Int) /\ RingInv(cbuf', queue')
        /\ cbuf'.data = cbuf.data - n
        /\ cbuf_chunk(n) \in Seq(Int) /\ Len(cbuf_chunk(n)) = n
    BY <2>1, <2>2, ReadRing, Zenon DEF IInv, Typed
  <2>4. PICK s \in Seq(Int) : s = cbuf_chunk(n)
    BY <2>3
  <2>5. PICK c : c = [d EXCEPT !.buf = s]
    BY Zenon
  <2>6. c \in Call /\ c.size = d.size /\ c.buf = s
    BY <2>5, Zenon DEF Call
  <2>7. call' = [call EXCEPT ![t] = c]
    BY <1>2, <2>1, <2>4, <2>5
  <2>8. CallInv(t, "rmove", c)
    BY <1>4, <1>6, <2>3, <2>4, <2>6, Places DEF CallInv, ReadPcs
  <2>9. /\ "rmove" \in Pcs /\ "rmove" \notin Asleep \cup {"out"} /\ LockRule(t, "rmove")
        /\ pc[t] \notin Asleep \cup {"out", "wwake"}
    BY <1>1 DEF Pcs, Asleep, LockRule, InLock
  <2>10. pc' = [pc EXCEPT ![t] = "rmove"]
         /\ UNCHANGED <<asleep, woken, closed, ref, open, cpc, setup, frees>>
    BY <1>1, <2>1 DEF Goto, fileVars
  <2>11. cbuf'.data <= cbuf.data
    <3>1. PICK m \in 0..PIPE_SIZE : m = cbuf.data
      BY Zenon DEF IInv, Typed, Cbuf
    <3> QED BY <2>2, <2>3, <3>1
  <2> QED BY <1>1, <2>3, <2>6, <2>7, <2>8, <2>9, <2>10, <2>11, WithinKeeps, Zenon
<1> QED BY <1>7, <1>8

LEMMA ReadMoveKeeps ==
    ASSUME IInv, NEW t \in Threads, ReadMove(t)
    PROVE  IInv'
<1>1. pc[t] = "rmove" /\ ~panic /\ UNCHANGED <<cbuf, lock, queue, asleep, woken>>
  BY DEF ReadMove, Return, Goto, rbVars
<1>2. /\ pc[t] \notin Asleep \cup {"out", "wwake"}
      /\ LockRule(t, "out") /\ LockRule(t, "rlock2")
  BY <1>1 DEF Asleep, LockRule, InLock
<1>3. CASE Return(t, "rmove", EFAULT)
  <2>1. EFAULT \in Int
    BY DEF EFAULT
  <2> QED BY <1>1, <1>2, <1>3, <2>1, ReturnKeeps
<1>4. CASE /\ Goto(t, "rmove", "rlock2") /\ UNCHANGED fileVars
           /\ call' = [call EXCEPT ![t] =
                         [call[t] EXCEPT !.size = call[t].size - Len(call[t].buf), !.buf = <<>>]]
  <2>1. PICK d \in Call : d = call[t]
    BY AtPlace, Zenon
  <2>2. CallInv(t, "rmove", d)
    BY <1>1, <2>1, AtPlace, Zenon
  <2>3. PICK s \in Seq(Int) : s = <<>>
    <3>1. <<>> \in Seq(Int)
      OBVIOUS
    <3> QED BY <3>1, Zenon
  <2>4. PICK k \in Nat : k = d.size - Len(d.buf)
    BY <2>2 DEF CallInv, ReadPcs, Call
  <2>5. PICK c : c = [call[t] EXCEPT !.size = call[t].size - Len(call[t].buf), !.buf = <<>>]
    OBVIOUS
  <2>6. c \in Call /\ c.size = k
    <3>1. c = [size |-> k, iov |-> d.iov, prev |-> d.prev, buf |-> s, moved |-> d.moved,
               retv |-> d.retv]
      BY <2>1, <2>3, <2>4, <2>5, Zenon DEF Call
    <3>2. d.iov \in Int /\ d.prev \in Int /\ d.moved \in Int /\ d.retv \in Int
      BY DEF Call
    <3>3. k \in Int
      OBVIOUS
    <3>4. c \in Call
      BY <3>1, <3>2, <3>3, IsCall, Zenon
    <3> QED BY <3>1, <3>4, Zenon
  <2>7. call' = [call EXCEPT ![t] = c]
    BY <1>4, <2>5
  <2>8. CallInv(t, "rlock2", c)
    BY <2>2, <2>6, Places DEF CallInv, ReadPcs
  <2>9. "rlock2" \in Pcs /\ "rlock2" \notin Asleep \cup {"out"}
    BY DEF Pcs, Asleep
  <2>10. /\ pc' = [pc EXCEPT ![t] = "rlock2"]
         /\ UNCHANGED <<asleep, woken, closed, ref, open, cpc, setup, frees>>
    BY <1>1, <1>4 DEF Goto, fileVars
  <2>11. /\ cbuf' \in Cbuf /\ queue' \in Seq(Int) /\ RingInv(cbuf', queue')
         /\ cbuf'.data <= cbuf.data
    BY <1>1, RingKept
  <2> QED BY <1>1, <1>2, <2>6, <2>7, <2>8, <2>9, <2>10, <2>11, WithinKeeps, Zenon
<1> QED BY <1>3, <1>4 DEF ReadMove

LEMMA WriteCheckKeeps ==
    ASSUME IInv, NEW t \in Threads, WriteCheck(t)
    PROVE  IInv'
<1>1. pc[t] = "wcheck" /\ ~panic /\ UNCHANGED <<cbuf, lock, queue, asleep, woken>>
  BY DEF WriteCheck, Return, Goto, rbVars
<1>2. /\ pc[t] \notin Asleep \cup {"out", "wwake"}
      /\ LockRule(t, "out") /\ LockRule(t, "wmove")
  BY <1>1 DEF Asleep, LockRule, InLock
<1>3. CASE Return(t, "wcheck", EPIPE)
  <2>1. EPIPE \in Int
    BY DEF EPIPE
  <2> QED BY <1>1, <1>2, <1>3, <2>1, ReturnKeeps
<1>4. CASE Goto(t, "wcheck", "wmove") /\ UNCHANGED <<call, fileVars>>
  <2>1. "wmove" \in Pcs /\ "wmove" \notin Asleep \cup {"out", "wwake"}
    BY DEF Pcs, Asleep
  <2>2. CallInv(t, "wcheck", call[t])
    BY <1>1, AtPlace, Zenon
  <2>3. CallInv(t, "wmove", call[t])
    BY <2>2, Places, Zenon DEF CallInv, ReadPcs
  <2>4. UNCHANGED <<closed, ref, open, cpc, setup, frees>>
    BY <1>4 DEF fileVars
  <2> QED BY <1>1, <1>2, <1>4, <2>1, <2>3, <2>4, MoveKeeps, Zenon
<1> QED BY <1>3, <1>4 DEF WriteCheck

LEMMA WriteMoveKeeps ==
    ASSUME IInv, NEW t \in Threads, WriteMove(t)
    PROVE  IInv'
<1>1. pc[t] = "wmove" /\ ~panic /\ UNCHANGED <<cbuf, lock, queue, asleep, woken>>
  BY DEF WriteMove, Return, Goto, rbVars
<1>2. /\ pc[t] \notin Asleep \cup {"out", "wwake"}
      /\ LockRule(t, "out") /\ LockRule(t, "wlock")
  BY <1>1 DEF Asleep, LockRule, InLock
<1>3. PICK d \in Call : d = call[t]
  BY AtPlace, Zenon
<1>4. CASE \E retv \in {d.prev, EFAULT} : Return(t, "wmove", retv)
  <2>1. PICK retv \in Int : Return(t, "wmove", retv)
    <3>1. EFAULT \in Int /\ d.prev \in Int
      BY DEF EFAULT, Call
    <3> QED BY <1>4, <3>1
  <2> QED BY <1>1, <1>2, <2>1, ReturnKeeps
<1>5. ASSUME NEW n \in 1..d.iov, Goto(t, "wmove", "wlock"), UNCHANGED fileVars,
             call' = [call EXCEPT ![t] =
                        [d EXCEPT !.size = d.size - n, !.iov = d.iov - n, !.moved = n, !.retv = n,
                                  !.buf = [i \in 1..n |-> d.prev - d.iov + i]]]
      PROVE  IInv'
  <2>1. n \in Nat /\ d.size - n \in Int /\ d.iov - n \in Int
    BY DEF Call
  <2>2. PICK s : s = [i \in 1..n |-> d.prev - d.iov + i]
    BY Zenon
  <2>3. s \in Seq(Int) /\ Len(s) = n
    <3>1. d.prev \in Int /\ d.iov \in Int
      BY DEF Call
    <3> QED BY <2>1, <2>2, <3>1
  <2>4. PICK c : c = [d EXCEPT !.size = d.size - n, !.iov = d.iov - n, !.moved = n, !.retv = n,
                               !.buf = s]
    OBVIOUS
  <2>5. c = [size |-> d.size - n, iov |-> d.iov - n, prev |-> d.prev, buf |-> s, moved |-> n,
             retv |-> n]
    BY <2>4, Zenon DEF Call
  <2>6. c \in Call /\ c.retv = n /\ c.buf = s
    <3>1. d.prev \in Int /\ n \in Int
      BY DEF Call
    <3>2. c \in Call
      BY <2>1, <2>3, <2>5, <3>1, IsCall, Zenon
    <3> QED BY <2>5, <3>2, Zenon
  <2>7. call' = [call EXCEPT ![t] = c]
    BY <1>5, <2>2, <2>4
  <2>8. CallInv(t, "wmove", d)
    BY <1>1, <1>3, AtPlace, Zenon
  <2>9. CallInv(t, "wlock", c)
    <3>1. c.retv \in 0..Len(c.buf)
      BY <2>1, <2>3, <2>6
    <3> QED BY <2>8, <3>1, Places DEF CallInv, ReadPcs
  <2>10. "wlock" \in Pcs /\ "wlock" \notin Asleep \cup {"out"}
    BY DEF Pcs, Asleep
  <2>11. /\ pc' = [pc EXCEPT ![t] = "wlock"]
         /\ UNCHANGED <<asleep, woken, closed, ref, open, cpc, setup, frees>>
    BY <1>1, <1>5 DEF Goto, fileVars
  <2>12. /\ cbuf' \in Cbuf /\ queue' \in Seq(Int) /\ RingInv(cbuf', queue')
         /\ cbuf'.data <= cbuf.data
    BY <1>1, RingKept
  <2> QED BY <1>1, <1>2, <2>6, <2>7, <2>9, <2>10, <2>11, <2>12, WithinKeeps, Zenon
<1> QED BY <1>3, <1>4, <1>5, Zenon DEF WriteMove

\* The assertion of ringbuf_write on eof may end the program here.
LEMMA WriteLockKeeps ==
    ASSUME IInv, NEW t \in Threads, WriteLock(t)
    PROVE  IInv'
<1>1. /\ pc[t] = "wlock" /\ ~panic /\ pc' = [pc EXCEPT ![t] = "wfull"]
      /\ lock = NULL /\ lock' = t
      /\ UNCHANGED <<cbuf, queue, asleep, woken, call, closed, ref, open, cpc, setup, frees>>
  BY DEF WriteLock, Goto, sync_acquire
<1>2. /\ pc[t] \notin Asleep \cup {"out", "wwake"} /\ LockRule(t, "wfull")
      /\ "wfull" \in Pcs /\ "wfull" \notin Asleep \cup {"out", "wwake"}
  BY <1>1 DEF Asleep, LockRule, InLock, Pcs
<1>3. PICK c \in Call : c = call[t]
  BY AtPlace, Zenon
<1>4. call' = [call EXCEPT ![t] = c]
  BY <1>1, <1>3, Zenon DEF IInv, Typed
<1>5. CallInv(t, "wlock", c)
  BY <1>1, <1>3, AtPlace
<1>6. CallInv(t, "wfull", c)
  BY <1>5, Places DEF CallInv, ReadPcs
<1>7. /\ cbuf' \in Cbuf /\ queue' \in Seq(Int) /\ RingInv(cbuf', queue')
      /\ cbuf'.data <= cbuf.data
  BY <1>1, RingKept
<1> QED BY <1>1, <1>2, <1>4, <1>6, <1>7, WithinKeeps, Zenon

LEMMA WriteWakeKeeps ==
    ASSUME IInv, NEW t \in Threads, WriteWake(t)
    PROVE  IInv'
<1>1. /\ pc[t] = "wwake" /\ ~panic /\ pc' = [pc EXCEPT ![t] = "wres"]
      /\ lock = t /\ lock' = NULL /\ woken' = asleep
      /\ UNCHANGED <<cbuf, queue, asleep, call, closed, ref, open, cpc, setup, frees>>
  BY DEF WriteWake, Goto, kern_wake, sync_release, fileVars
<1>2. /\ pc[t] # "out" /\ LockRule(t, "wres") /\ pc[t] \notin Asleep
      /\ "wres" \in Pcs /\ "wres" \notin Asleep /\ "wres" # "out"
  BY <1>1 DEF Asleep, LockRule, InLock, Pcs
<1>3. PICK c \in Call : c = call[t]
  BY AtPlace, Zenon
<1>4. call' = [call EXCEPT ![t] = c]
  BY <1>1, <1>3, Zenon DEF IInv, Typed
<1>5. CallInv(t, "wwake", c)
  BY <1>1, <1>3, AtPlace
<1>6. CallInv(t, "wres", c)
  BY <1>5, Places DEF CallInv, ReadPcs
<1>7. cbuf' \in Cbuf /\ queue' \in Seq(Int) /\ RingInv(cbuf', queue')
  BY <1>1, Zenon DEF IInv, Typed
<1>8. NoStrandedReader'
  BY <1>1 DEF NoStrandedReader
<1>9. asleep' \in SUBSET Threads /\ woken' \in SUBSET Threads
  BY <1>1, Zenon DEF IInv, Typed
<1>10. pc'[t] = "wres" /\ \A u \in Threads : u # t => pc'[u] = pc[u]
  BY <1>1, Zenon DEF IInv, Typed
<1>11. SleepInv'
  BY <1>1, <1>2, <1>10, Zenon DEF IInv, SleepInv, Asleep
<1> QED BY <1>1, <1>2, <1>4, <1>6, <1>7, <1>8, <1>9, <1>11, PartsKeep, Zenon

LEMMA WriteFullKeeps ==
    ASSUME IInv, NEW t \in Threads, WriteFull(t)
    PROVE  IInv'
<1>1. /\ pc[t] = "wfull" /\ ~panic
      /\ UNCHANGED <<asleep, woken, closed, ref, open, cpc, setup, frees>>
  BY DEF WriteFull, Goto, fileVars
<1>2. /\ pc[t] \notin Asleep \cup {"out", "wwake"} /\ pc[t] \in InLock
  BY <1>1 DEF Asleep, InLock
<1>3. PICK d \in Call : d = call[t]
  BY AtPlace, Zenon
<1>4. CallInv(t, "wfull", d)
  BY <1>1, <1>3, AtPlace, Zenon
<1>5. t \in Writers /\ d.retv \in 0..Len(d.buf) /\ d.buf \in Seq(Int)
  BY <1>4, Places DEF CallInv, Call
<1>6. CASE cbuf_is_full
  <2>1. sync_release(t) /\ UNCHANGED <<cbuf, queue>>
    BY <1>6 DEF WriteFull
  <2>2. PICK n \in {"wres", "wsleep"}, c \in Call :
           /\ Goto(t, "wfull", n) /\ call' = [call EXCEPT ![t] = c]
           /\ c.buf = d.buf /\ c.retv \in {0, d.retv}
    <3>1. CASE Goto(t, "wfull", "wres") /\ call' = [call EXCEPT ![t].retv = 0]
      <4>1. 0 \in Int
        OBVIOUS
      <4>2. PICK c \in Call : /\ call' = [call EXCEPT ![t] = c]
                              /\ c.size = call[t].size /\ c.buf = call[t].buf /\ c.retv = 0
        BY <3>1, <4>1, SetRetv, Zenon
      <4> QED BY <1>3, <3>1, <4>2, Zenon
    <3>2. CASE Goto(t, "wfull", "wsleep") /\ UNCHANGED call
      <4>1. call' = [call EXCEPT ![t] = d]
        BY <1>3, <3>2 DEF IInv, Typed
      <4> QED BY <3>2, <4>1, Zenon
    <3> QED BY <1>6, <3>1, <3>2 DEF WriteFull
  <2>3. n \in Pcs /\ n \notin Asleep \cup {"out"} /\ n \notin InLock
    BY <2>2 DEF Pcs, Asleep, InLock
  <2>4. LockRule(t, n)
    BY <1>2, <2>1, <2>3 DEF LockRule, sync_release
  <2>5. CallInv(t, n, c)
    <3>1. c.retv \in 0..Len(c.buf)
      BY <1>5, <2>2
    <3> QED BY <1>5, <2>2, <3>1, Places DEF CallInv, ReadPcs
  <2>6. /\ cbuf' \in Cbuf /\ queue' \in Seq(Int) /\ RingInv(cbuf', queue')
        /\ cbuf'.data <= cbuf.data
    BY <2>1, RingKept
  <2>7. pc' = [pc EXCEPT ![t] = n]
    BY <2>2 DEF Goto
  <2> QED BY <1>1, <1>2, <2>2, <2>3, <2>4, <2>5, <2>6, <2>7, WithinKeeps, Zenon
<1>7. CASE ~cbuf_is_full
  <2>1. PICK n : n = Min(cbuf_space, d.retv)
    OBVIOUS
  <2>2. /\ Goto(t, "wfull", "wwake") /\ cbuf' = cbuf_write(n, d.buf)
        /\ queue' = queue \o SubSeq(d.buf, 1, n)
        /\ call' = [call EXCEPT ![t].retv = n] /\ UNCHANGED lock
    BY <1>3, <1>7, <2>1, Zenon DEF WriteFull
  <2>3. n \in 0..cbuf_space /\ n <= Len(d.buf) /\ n \in Int /\ n \in 0..Len(d.buf)
    <3>1. PICK s \in Nat : s = cbuf_space
      <4>1. PICK P \in Nat : P = PIPE_SIZE
        BY Sized
      <4>2. cbuf.data \in 0..P
        BY <4>1 DEF IInv, Typed, Cbuf
      <4> QED BY <4>1, <4>2 DEF cbuf_space
    <3>2. PICK l \in Nat, r \in Nat : l = Len(d.buf) /\ r = d.retv /\ r <= l
      BY <1>5
    <3>3. n \in 0..s /\ n <= l /\ n \in 0..l
      BY <2>1, <3>1, <3>2 DEF Min
    <3> QED BY <3>1, <3>2, <3>3
  <2>4. cbuf' \in Cbuf /\ queue' \in Seq(Int) /\ RingInv(cbuf', queue')
    BY <1>5, <2>2, <2>3, WriteRing, Zenon DEF IInv, Typed
  <2>5. PICK c \in Call : /\ call' = [call EXCEPT ![t] = c]
                          /\ c.size = call[t].size /\ c.buf = call[t].buf /\ c.retv = n
    BY <2>2, <2>3, SetRetv, Zenon
  <2>6. CallInv(t, "wwake", c)
    <3>1. c.retv \in 0..Len(c.buf)
      BY <1>3, <2>3, <2>5
    <3> QED BY <1>5, <3>1, Places DEF CallInv, ReadPcs
  <2>7. "wwake" \in Pcs /\ "wwake" \notin Asleep \cup {"out"} /\ "wwake" \in InLock
    BY DEF Pcs, Asleep, InLock
  <2>8. LockRule(t, "wwake")
    BY <1>2, <2>2, <2>7 DEF LockRule
  <2>9. pc' = [pc EXCEPT ![t] = "wwake"]
    BY <2>2 DEF Goto
  <2> QED BY <1>1, <1>2, <1>5, <2>4, <2>5, <2>6, <2>7, <2>8, <2>9, WithinKeeps, Zenon
<1> QED BY <1>6, <1>7

LEMMA WriteResultKeeps ==
    ASSUME IInv, NEW t \in Threads, WriteResult(t)
    PROVE  IInv'
<1>1. /\ pc[t] = "wres" /\ ~panic
      /\ UNCHANGED <<cbuf, lock, queue, asleep, woken, closed, ref, open, cpc, setup, frees>>
  BY DEF WriteResult, Goto, fileVars, rbVars
<1>2. PICK d \in Call : d = call[t]
  BY AtPlace, Zenon
<1>3. CallInv(t, "wres", d)
  BY <1>1, <1>2, AtPlace, Zenon
<1>4. t \in Writers /\ d.retv \in 0..Len(d.buf)
  BY <1>3, Places DEF CallInv
<1>5. PICK left \in Int : left = (d.moved - d.retv) % SIZE_MOD
  <2>1. PICK m \in Nat \ {0}, a \in Int : m = SIZE_MOD /\ a = d.moved - d.retv
    <3>1. d.moved \in Int /\ d.retv \in Int
      BY DEF Call
    <3>2. d.moved - d.retv \in Int
      BY <3>1
    <3> QED BY <3>2, Sized
  <2>2. a % m \in 0..m-1
    BY ModIn
  <2> QED BY <2>1, <2>2
<1>6. PICK n \in {"wmove", "wlock"}, c \in Call :
         /\ Goto(t, "wres", n) /\ call' = [call EXCEPT ![t] = c]
         /\ c.retv = d.retv /\ c.buf = d.buf
  <2>1. CASE d.retv = 0 /\ nonblock
    <3>1. PICK s \in Int : s = d.size + d.moved
      BY DEF Call
    <3>2. PICK c : c = [d EXCEPT !.size = s]
      BY Zenon
    <3>3. c \in Call /\ c.retv = d.retv /\ c.buf = d.buf
      BY <3>2 DEF Call
    <3>4. Goto(t, "wres", "wmove") /\ call' = [call EXCEPT ![t].size = @ + d.moved]
      BY <1>2, <2>1 DEF WriteResult
    <3>5. call' = [call EXCEPT ![t] = c]
      BY <1>2, <3>1, <3>2, <3>4 DEF IInv, Typed
    <3> QED BY <3>3, <3>4, <3>5, Zenon
  <2>2. CASE ~(d.retv = 0 /\ nonblock)
    <3>1. PICK c : c = [d EXCEPT !.moved = left]
      BY Zenon
    <3>2. c \in Call /\ c.retv = d.retv /\ c.buf = d.buf
      BY <3>1 DEF Call
    <3>3. /\ Goto(t, "wres", "wmove") \/ Goto(t, "wres", "wlock")
          /\ call' = [call EXCEPT ![t].moved = left]
      BY <1>2, <1>5, <2>2 DEF WriteResult
    <3>4. call' = [call EXCEPT ![t] = c]
      BY <1>2, <3>1, <3>3
    <3> QED BY <3>2, <3>3, <3>4, Zenon
  <2> QED BY <2>1, <2>2
<1>7. n \in Pcs /\ n \notin Asleep \cup {"out"} /\ n \notin InLock
  BY <1>6 DEF Pcs, Asleep, InLock
<1>8. pc[t] \notin Asleep \cup {"out", "wwake"} /\ LockRule(t, n)
  BY <1>1, <1>7 DEF Asleep, LockRule, InLock
<1>9. CallInv(t, n, c)
  BY <1>4, <1>6, Places DEF CallInv, ReadPcs
<1>10. /\ cbuf' \in Cbuf /\ queue' \in Seq(Int) /\ RingInv(cbuf', queue')
       /\ cbuf'.data <= cbuf.data
  BY <1>1, RingKept
<1>11. pc' = [pc EXCEPT ![t] = n]
  BY <1>6 DEF Goto
<1> QED BY <1>1, <1>6, <1>7, <1>8, <1>9, <1>10, <1>11, WithinKeeps, Zenon

LEMMA StepKeeps ==
    ASSUME IInv, NEW t \in Threads, Step(t)
    PROVE  IInv'
<1>1. "rasleep" \in Asleep /\ "wasleep" \in Asleep
  BY DEF Asleep
<1>2. CASE Wakeup(t, "rasleep", "rrelock") \/ Wakeup(t, "wasleep", "wrelock")
  BY <1>1, <1>2, WakeupKeeps
<1>3. CASE ReadSleep(t) \/ WriteSleep(t)
  <2>1. /\ <<"rsleep", "rasleep", "rrelock">> \in Waits
        /\ <<"wsleep", "wasleep", "wrelock">> \in Waits
    BY DEF Waits
  <2>2. CASE ReadSleep(t)
    BY <2>1, <2>2, kern_waitKeeps DEF ReadSleep
  <2>3. CASE WriteSleep(t)
    <3>1. kern_wait(t, "wsleep", PIPE_SIZE, "wasleep", "wrelock")
      BY <2>3 DEF WriteSleep
    <3>2. "wsleep" # "rsleep"
      OBVIOUS
    <3> QED BY <2>1, <3>1, <3>2, kern_waitKeeps
  <2> QED BY <1>3, <2>2, <2>3
<1>4. CASE ReadLock(t) \/ ReadWait(t) \/ ReadRelock(t) \/ ReadCopy(t) \/ ReadMove(t)
  BY <1>4, ReadLockKeeps, ReadWaitKeeps, RelockKeeps, ReadCopyKeeps, ReadMoveKeeps
<1>5. CASE \/ WriteCheck(t) \/ WriteMove(t) \/ WriteLock(t) \/ WriteFull(t) \/ WriteWake(t)
           \/ WriteRelock(t) \/ WriteResult(t)
  BY <1>5, WriteCheckKeeps, WriteMoveKeeps, WriteLockKeeps, WriteFullKeeps, WriteWakeKeeps,
     RelockKeeps, WriteResultKeeps
<1> QED BY <1>2, <1>3, <1>4, <1>5 DEF Step

\* What a step of sys_pipe2 or of a close leaves to the part of the files.
LEMMA OutsideKeeps ==
    ASSUME IInv, UNCHANGED <<cbuf, lock, asleep, queue, pc, call>>,
           ref' \in [Files -> Int], open' \in SUBSET Files, closed' \in SUBSET Files,
           cpc' \in [Files -> {"none", "eof", "wake", "or", "closed"}],
           FileInv', FreedOnce',
           \/ woken' = asleep
           \/ woken' = woken /\ \A f \in Files : cpc[f] = "wake" => cpc'[f] = "wake"
    PROVE  IInv'
<1>1. Typed'
  BY Zenon DEF IInv, Typed
<1>2. RingInv(cbuf, queue)'
  BY Zenon DEF IInv, RingInv
<1>3. (\A t \in Threads : CallInv(t, pc[t], call[t]))'
  BY Zenon DEF IInv, CallInv
<1>4. SleepInv' /\ LockReleased'
  BY Zenon DEF IInv, SleepInv, LockReleased
<1>5. NoStrandedReader'
  BY Zenon DEF IInv, NoStrandedReader
<1> QED BY <1>1, <1>2, <1>3, <1>4, <1>5, Zenon DEF IInv

LEMMA CloseKeeps ==
    ASSUME IInv, NEW f \in Files, Close(f)
    PROVE  IInv'
<1>1. /\ FileInv' /\ ~panic' /\ ref' \in [Files -> Int]
      /\ cpc' \in [Files -> {"none", "eof", "wake", "or", "closed"}]
      /\ \A g \in Files : cpc[g] = "wake" => cpc'[g] = "wake"
  BY FilesClose, Zenon DEF IInv
<1>2. /\ UNCHANGED <<cbuf, lock, asleep, woken, queue, pc, call, closed>>
      /\ open' = open \ {f}
  BY DEF Close, rbVars
<1>3. open' \in SUBSET Files /\ closed' \in SUBSET Files
  BY <1>2 DEF IInv, Typed
<1>4. Typed'
  BY <1>1, <1>2, <1>3, Zenon DEF IInv, Typed
<1>5. FreedOnce'
  BY <1>1, <1>4, FreedByFiles, PTL
<1> QED BY <1>1, <1>2, <1>3, <1>5, OutsideKeeps, Zenon

LEMMA CloseStepKeeps ==
    ASSUME IInv, NEW f \in Files, CloseStep(f)
    PROVE  IInv'
<1>1. /\ UNCHANGED <<cbuf, lock, asleep, queue, pc, call, ref, open, setup, panic>>
      /\ \E from \in {"eof", "wake", "or"}, to \in {"wake", "or", "closed"} :
            /\ CloseGoto(f, from, to)
            /\ closed' = IF to = "closed" THEN closed \cup {f} ELSE closed
            /\ frees' = IF to = "closed" /\ closed \ {f} # {} THEN frees + 1 ELSE frees
            /\ \/ woken' = asleep
               \/ woken' = woken /\ from # "wake"
  <2>1. CASE CloseEof(f)
    BY <2>1 DEF CloseEof
  <2>2. CASE CloseWake(f)
    BY <2>2 DEF CloseWake, kern_wake
  <2>3. CASE CloseOr(f)
    BY <2>3, Zenon DEF CloseOr, rbVars
  <2> QED BY <2>1, <2>2, <2>3, Zenon DEF CloseStep
<1>2. PICK from \in {"eof", "wake", "or"}, to \in {"wake", "or", "closed"} :
         /\ CloseGoto(f, from, to)
         /\ closed' = IF to = "closed" THEN closed \cup {f} ELSE closed
         /\ frees' = IF to = "closed" /\ closed \ {f} # {} THEN frees + 1 ELSE frees
         /\ \/ woken' = asleep
            \/ woken' = woken /\ from # "wake"
  BY <1>1, Zenon
<1>3. Typed /\ FileInv
  BY Zenon DEF IInv
<1>4. /\ FileInv' /\ ~panic' /\ closed' \in SUBSET Files
      /\ cpc' \in [Files -> {"none", "eof", "wake", "or", "closed"}]
  <2>1. UNCHANGED <<ref, open, setup, panic, pc>>
    BY <1>1
  <2> QED BY <1>2, <1>3, <2>1, FilesCloseStep, Zenon
<1>5. \/ woken' = asleep
      \/ woken' = woken /\ \A g \in Files : cpc[g] = "wake" => cpc'[g] = "wake"
  BY <1>2, <1>3 DEF CloseGoto, Typed
<1>6. ref' \in [Files -> Int] /\ open' \in SUBSET Files
  BY <1>1, <1>3 DEF Typed
<1>7. woken' \in SUBSET Threads
  BY <1>2, <1>3 DEF Typed
<1>8. Typed'
  BY <1>1, <1>3, <1>4, <1>6, <1>7, Zenon DEF Typed
<1>9. FreedOnce'
  BY <1>4, <1>8, FreedByFiles, PTL
<1> QED BY <1>1, <1>4, <1>5, <1>6, <1>9, OutsideKeeps, Zenon

LEMMA SetupKeeps ==
    ASSUME IInv, Setup
    PROVE  IInv'
<1>1. UNCHANGED <<cbuf, lock, asleep, woken, queue, pc, call, closed>>
  BY Zenon DEF Setup, SetupFiles, fdalloc2, SetupCopyout, SetupFdfree, SetupUnref, SetupTime,
     SetupFree, SetupKeep, rbVars
<1>2. Typed /\ FileInv /\ closed' \in SUBSET Files
  BY <1>1 DEF IInv, Typed
<1>3. CASE SetupFiles
  <2>1. FileInv' /\ FreedOnce' /\ ref' \in [Files -> Int]
    BY <1>2, <1>3, SetupFilesKeeps
  <2>2. UNCHANGED <<open, cpc>>
    BY <1>3 DEF SetupFiles
  <2>3. /\ open' \in SUBSET Files
        /\ cpc' \in [Files -> {"none", "eof", "wake", "or", "closed"}]
    BY <1>2, <2>2 DEF Typed
  <2> QED BY <1>1, <1>2, <2>1, <2>2, <2>3, OutsideKeeps
<1>4. CASE fdalloc2 \/ SetupCopyout \/ SetupFdfree \/ SetupUnref \/ SetupTime \/ SetupFree
  <2>1. /\ FileInv' /\ ~panic' /\ ref' \in [Files -> Int] /\ open' \in SUBSET Files
        /\ cpc' \in [Files -> {"none", "eof", "wake", "or", "closed"}]
        /\ \A f \in Files : cpc[f] = "wake" => cpc'[f] = "wake"
    BY <1>2, <1>4, SetupRestKeeps
  <2>2. Typed'
    BY <1>1, <1>2, <2>1 DEF Typed
  <2>3. FreedOnce'
    BY <2>1, <2>2, FreedByFiles, PTL
  <2> QED BY <1>1, <1>2, <2>1, <2>3, OutsideKeeps
<1> QED BY <1>3, <1>4 DEF Setup
------------------------------------------------------------------------------
LEMMA InitHolds ==
    ASSUME PipeInit
    PROVE  IInv
<1>1. PICK c : c = NoCall
  OBVIOUS
<1>2. c \in Call
  <2>1. <<>> \in Seq(Int)
    OBVIOUS
  <2>2. PICK s \in Seq(Int) : s = <<>>
    BY <2>1, Zenon
  <2>3. c = [size |-> 0, iov |-> 0, prev |-> 0, buf |-> s, moved |-> 0, retv |-> 0]
    BY <1>1, <2>2, Zenon DEF NoCall
  <2>4. 0 \in Int
    OBVIOUS
  <2> QED BY <2>3, <2>4, IsCall, Zenon
<1>3. PICK P \in Nat \ {0} : P = PIPE_SIZE
  BY Sized
<1>4. cbuf \in Cbuf /\ cbuf.data = 0 /\ cbuf.rptr = 0 /\ cbuf.wptr = 0
  <2>1. [i \in 0..P-1 |-> 1] \in [0..P-1 -> Int] /\ 0 \in 0..P-1 /\ 0 \in 0..P
    OBVIOUS
  <2> QED BY <1>3, <2>1, Zenon DEF PipeInit, Cbuf
<1>5. queue \in Seq(Int) /\ Len(queue) = 0
  <2>1. <<>> \in Seq(Int) /\ Len(<<>>) = 0
    OBVIOUS
  <2> QED BY <2>1 DEF PipeInit
<1>6. Typed
  <2>1. pc \in [Threads -> Pcs]
    BY DEF PipeInit, Pcs
  <2>2. call \in [Threads -> Call]
    BY <1>1, <1>2, Zenon DEF PipeInit
  <2>3. /\ asleep \in SUBSET Threads /\ woken \in SUBSET Threads
        /\ ref \in [Files -> Int] /\ open \in SUBSET Files /\ closed \in SUBSET Files
        /\ cpc \in [Files -> {"none", "eof", "wake", "or", "closed"}]
    <3>1. asleep = {} /\ woken = {} /\ open = {} /\ closed = {}
      BY Zenon DEF PipeInit
    <3>2. ref \in [Files -> Int]
      <4>1. 0 \in Int
        OBVIOUS
      <4> QED BY <4>1, Zenon DEF PipeInit
    <3>3. cpc \in [Files -> {"none", "eof", "wake", "or", "closed"}]
      BY DEF PipeInit
    <3> QED BY <3>1, <3>2, <3>3
  <2> QED BY <1>4, <1>5, <2>1, <2>2, <2>3, Zenon DEF Typed
<1>7. RingInv(cbuf, queue)
  <2>1. 0 % P = 0 /\ (0 + 0) % P = 0
    <3>1. 0 \in 0..P-1 /\ 0 + 0 = 0
      OBVIOUS
    <3> QED BY <3>1, ModPlain
  <2> QED BY <1>3, <1>4, <1>5, <2>1 DEF RingInv
<1>8. \A t \in Threads : CallInv(t, pc[t], call[t])
  BY Places, Zenon DEF PipeInit, CallInv, ReadPcs
<1>9. SleepInv /\ NoStrandedReader /\ FreedOnce
  <2>1. SleepInv /\ NoStrandedReader
    BY Zenon DEF PipeInit, SleepInv, NoStrandedReader
  <2>2. frees = 0
    BY Zenon DEF PipeInit
  <2> QED BY <2>1, <2>2 DEF FreedOnce
<1>10. LockReleased
  BY PipeAssumption, Zenon DEF PipeInit, LockReleased
<1>11. FileInv
  <2>1. Counts({}, 0)
    BY CountsEmpty
  <2>2. \A f : InCalls(f) = {}
    BY Zenon DEF PipeInit, InCalls
  <2>3. RefInv
    <3>1. \A f \in Files : ref[f] = 0 /\ f \notin open /\ Held(f, setup) = 0
      <4>1. setup = "file0" /\ open = {} /\ \A f \in Files : ref[f] = 0
        BY Zenon DEF PipeInit
      <4> QED BY <4>1 DEF Held
    <3>2. \A f \in Files : Counts(InCalls(f), 0)
      BY <2>1, <2>2, Zenon
    <3>3. \A f \in Files : ref[f] = Refs(f, 0)
      BY <3>1 DEF Refs
    <3>4. 0 \in Nat /\ ~(0 > 0)
      OBVIOUS
    <3> QED BY <3>1, <3>2, <3>3, <3>4, Zenon DEF RefInv
  <2>4. SetupInv
    <3>1. /\ setup = "file0" /\ open = {} /\ closed = {} /\ frees = 0
          /\ \A t \in Threads : pc[t] = "out"
          /\ \A f \in Files : cpc[f] = "none"
      BY Zenon DEF PipeInit
    <3>2. closed # Files
      BY <3>1 DEF Files
    <3> QED BY <3>1, <3>2 DEF SetupInv
  <2> QED BY <2>3, <2>4 DEF FileInv
<1> QED BY <1>6, <1>7, <1>8, <1>9, <1>10, <1>11, Zenon DEF IInv

LEMMA NextKeeps ==
    ASSUME IInv, [Next]_vars
    PROVE  IInv'
<1>1. ASSUME NEW t \in Readers, NEW n \in ReadSizes, pipe_read(t, n)
      PROVE  IInv'
  <2>1. Goto(t, "out", "rlock") /\ Begin(t, n) /\ t \in Threads /\ t \in Readers
    BY <1>1 DEF pipe_read, Threads
  <2>2. "rlock" \in {"rlock", "wcheck"} /\ "rlock" # "wcheck" /\ n \in Sizes
    BY DEF Sizes
  <2> QED BY <2>1, <2>2, BeginKeeps
<1>2. ASSUME NEW t \in Writers, NEW n \in WriteSizes, pipe_write(t, n)
      PROVE  IInv'
  <2>1. Goto(t, "out", "wcheck") /\ Begin(t, n) /\ t \in Threads /\ t \in Writers
    BY <1>2 DEF pipe_write, Threads
  <2>2. "wcheck" \in {"rlock", "wcheck"} /\ "wcheck" # "rlock" /\ n \in Sizes
    BY DEF Sizes
  <2> QED BY <2>1, <2>2, BeginKeeps
<1>3. CASE \E t \in Threads : Step(t)
  BY <1>3, StepKeeps
<1>4. CASE \E f \in Files : Close(f) \/ CloseStep(f)
  BY <1>4, CloseKeeps, CloseStepKeeps
<1>5. CASE Setup
  BY <1>5, SetupKeeps
<1>6. CASE UNCHANGED vars
  <2>1. /\ UNCHANGED <<cbuf, lock, asleep, queue, pc, call, ref, open, closed, cpc, woken>>
        /\ UNCHANGED <<setup, frees, panic>>
    BY <1>6 DEF vars
  <2>2. FileInv' /\ FreedOnce'
    <3>1. \A f : InCalls(f)' = InCalls(f)
      BY <2>1 DEF InCalls
    <3>2. RefInv => RefInv'
      BY <2>1, <3>1, Zenon DEF RefInv, Refs
    <3>3. SetupInv => SetupInv'
      BY <2>1 DEF SetupInv
    <3>4. FreedOnce'
      BY <2>1, Zenon DEF IInv, FreedOnce
    <3> QED BY <2>1, <3>2, <3>3, <3>4, Zenon DEF IInv, FileInv
  <2>3. /\ ref' \in [Files -> Int] /\ open' \in SUBSET Files /\ closed' \in SUBSET Files
        /\ cpc' \in [Files -> {"none", "eof", "wake", "or", "closed"}]
    BY <2>1 DEF IInv, Typed
  <2> QED BY <2>1, <2>2, <2>3, OutsideKeeps
<1> QED BY <1>1, <1>2, <1>3, <1>4, <1>5, <1>6 DEF Next

\* The only step from the look at the buffer to the copy to the program is ReadCopy.
LEMMA OnlyCopyMoves ==
    ASSUME IInv, Next, NEW t \in Threads, pc[t] = "rcopy", pc'[t] = "rmove"
    PROVE  ReadCopy(t)
<1>1. pc \in [Threads -> Pcs]
  BY DEF IInv, Typed
<1>2. ~(pc' = pc)
  OBVIOUS
<1>3. ~(\E f \in Files : Close(f) \/ CloseStep(f)) /\ ~Setup
  BY <1>2, Zenon DEF Close, CloseStep, CloseEof, CloseWake, CloseOr, Setup, SetupFiles, fdalloc2,
     SetupCopyout, SetupFdfree, SetupUnref, SetupTime, SetupFree, SetupKeep
<1>4. \A u \in Threads : \A from, to : Goto(u, from, to) => u = t /\ from = "rcopy" /\ to = "rmove"
  BY <1>1 DEF Goto
<1>5. ~(\E u \in Readers, n \in ReadSizes : pipe_read(u, n))
      /\ ~(\E u \in Writers, n \in WriteSizes : pipe_write(u, n))
  BY <1>4, Zenon DEF pipe_read, pipe_write, Threads
<1>6. PICK u \in Threads : Step(u)
  BY <1>3, <1>5, Zenon DEF Next
<1>7. /\ ~ReadLock(u) /\ ~ReadWait(u) /\ ~ReadSleep(u) /\ ~Wakeup(u, "rasleep", "rrelock")
      /\ ~ReadRelock(u) /\ ~ReadMove(u)
  BY <1>4 DEF ReadLock, ReadWait, ReadSleep, kern_wait, Wakeup, ReadRelock, ReadMove, Return
<1>8. /\ ~WriteCheck(u) /\ ~WriteMove(u) /\ ~WriteLock(u) /\ ~WriteFull(u) /\ ~WriteWake(u)
      /\ ~WriteSleep(u) /\ ~Wakeup(u, "wasleep", "wrelock") /\ ~WriteRelock(u)
      /\ ~WriteResult(u)
  BY <1>4 DEF WriteCheck, WriteMove, WriteLock, WriteFull, WriteWake, WriteSleep, kern_wait,
     Wakeup, WriteRelock, WriteResult, Return
<1>9. ReadCopy(u)
  BY <1>6, <1>7, <1>8, Zenon DEF Step
<1>10. u = t
  BY <1>4, <1>9 DEF ReadCopy, Return
<1> QED BY <1>9, <1>10

\* The inductive invariant holds at every step of the pipe, for all sets of readers
\* and writers, all sizes of the buffers and all sizes of the calls: the references
\* of a file are those of its descriptor, of sys_pipe2 and of the calls on it, and
\* the buffer holds what was written and not read.
THEOREM PipeInvariant == Spec => []IInv
<1>1. PipeInit => IInv
  BY InitHolds
<1>2. IInv /\ [Next]_vars => IInv'
  BY NextKeeps
<1> QED BY <1>1, <1>2, PTL DEF Spec

\* No reader sleeps on while there is data in the buffer and nobody is about to wake
\* it (ringbuf_write, ringbuf.c:117).
THEOREM ReaderNotStranded == Spec => []NoStrandedReader
<1>1. IInv => NoStrandedReader
  BY DEF IInv
<1> QED BY <1>1, PipeInvariant, PTL

\* Whenever the descriptors are closed, by whom, and in whatever order sys_pipe2,
\* the calls and the closes drop their references, the two closes free the pipe
\* once, under no call and no close that uses it (pipe_close, pipe.c:89-94).  The
\* error path of sys_pipe2, which frees it a second time, is excluded by FreedOnce.
THEOREM PipeFreedOnce == Spec => []FreedOnce
<1>1. IInv => FreedOnce
  BY DEF IInv
<1> QED BY <1>1, PipeInvariant, PTL

\* The lock of the buffer is held exactly between its acquisition and its release:
\* no path of ringbuf.c returns or sleeps with it.
THEOREM LockAlwaysReleased == Spec => []LockReleased
<1>1. IInv => LockReleased
  BY DEF IInv
<1> QED BY <1>1, PipeInvariant, PTL

\* cbuf_read takes out the oldest bytes, in the order in which cbuf_write put them
\* in, wherever the two offsets are in the memory (cbuf.c:52-92).
THEOREM PipeInOrder == Spec => ReadsInOrder
<1> DEFINE A == \A t \in Readers : pc[t] = "rcopy" /\ pc'[t] = "rmove"
                                     => queue = call'[t].buf \o queue'
<1>1. IInv /\ [Next]_vars => [A]_vars
  <2> SUFFICES ASSUME IInv, Next, NEW t \in Readers, pc[t] = "rcopy", pc'[t] = "rmove"
               PROVE  queue = call'[t].buf \o queue'
    OBVIOUS
  <2>1. t \in Threads /\ pc \in [Threads -> Pcs] /\ call \in [Threads -> Call]
    BY DEF Threads, IInv, Typed
  <2>2. ReadCopy(t)
    BY <2>1, OnlyCopyMoves
  <2>3. PICK n : n = Min(cbuf.data, Min(call[t].size, CHUNK))
    BY Zenon
  <2>4. n # 0
    BY <2>1, <2>2, <2>3 DEF ReadCopy, Return, Goto
  <2>5. /\ cbuf' = cbuf_read(n) /\ queue' = SubSeq(queue, n + 1, Len(queue))
        /\ call' = [call EXCEPT ![t].buf = cbuf_chunk(n)]
    BY <2>2, <2>3, <2>4 DEF ReadCopy
  <2>6. n \in 1..cbuf.data
    <3>1. call[t].size \in Nat
      BY <2>1, AtPlace DEF CallInv, ReadPcs
    <3> QED BY <2>3, <2>4, <3>1, CopySize, Zenon DEF IInv, Typed
  <2>7. queue = cbuf_chunk(n) \o queue'
    BY <2>5, <2>6, ReadRing, Zenon DEF IInv, Typed
  <2>8. call'[t].buf = cbuf_chunk(n)
    BY <2>1, <2>5 DEF Call
  <2> QED BY <2>7, <2>8
<1>2. IInv /\ [Next]_vars => [\A t \in Readers : pc[t] = "rcopy" /\ pc'[t] = "rmove"
                                     => queue = call'[t].buf \o queue']_vars
  BY <1>1, Zenon
<1> QED BY <1>2, PipeInvariant, PTL DEF Spec, ReadsInOrder
==============================================================================
