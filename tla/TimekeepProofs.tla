--------------------------- MODULE TimekeepProofs -----------------------------
(* Proofs about the clock for any number of readers, any frequency and any     *)
(* mask that the gap between two ticks allows.                                 *)
EXTENDS Timekeep, TLAPS

Hand == [gen : Nat, last_count : 0..Mask, nanotime : Nat, tstime : Timespec]

Before == {"out", "read"}
Settling == {"out", "switch"}
Loaded == {"time", "sec", "delta", "count", "last", "retry"}

\* Both ticks that the timehands stand for are recent, the latest one most.
GapInv ==
    /\ \A h \in 0..1 : at[h] <= now
    /\ tick.pc \in Before => /\ at[Older] <= at[timehands]
                             /\ at[timehands] <= at[Older] + TickGap
                             /\ now <= at[timehands] + TickGap
    /\ tick.pc \notin Before => /\ at[timehands] <= at[Older]
                                /\ at[Older] <= at[timehands] + TickGap
                                /\ now <= at[Older] + TickGap

\* The current timehands tells the time of its tick in all of its fields.
HandsInv ==
    LET h == hands[timehands] IN
    /\ h.gen # TC_GEN_UPDATE
    /\ h.last_count = at[timehands] % (Mask + 1)
    /\ h.tstime.nsec < SEC
    /\ ts_to_nsec(h.tstime) = h.nanotime
    /\ Tells(h.nanotime, at[timehands], h.gen - 1)

\* So does the older one, except for the fields the tick has still to write.
TickInv ==
    LET o == hands[Older] IN
    /\ o.gen # TC_GEN_UPDATE <=> tick.pc \in Settling
    /\ tick.pc \notin Settling => tick.gen # TC_GEN_UPDATE
    /\ o.last_count = at[Older] % (Mask + 1)
    /\ o.tstime.nsec < SEC
    /\ tick.pc # "ts" => ts_to_nsec(o.tstime) = o.nanotime
    /\ tick.pc = "ts" => ts_to_nsec(o.tstime) + tick.delta = o.nanotime
    /\ tick.pc \in {"nano", "ts"} => tick.delta <= SEC
    /\ tick.pc \in Settling => Tells(o.nanotime, at[Older], o.gen - 1)
    /\ tick.pc = "read" => Tells(o.nanotime, at[Older], tick.gen - 1)
    /\ tick.pc = "nano" => Tells(o.nanotime + tick.delta, at[Older], tick.gen)
    /\ tick.pc \in {"ts", "gen"} => Tells(o.nanotime, at[Older], tick.gen)

\* The generation of h, that of its last version during an update.
GenOf(hand, t) == IF hand.gen = TC_GEN_UPDATE THEN t.gen ELSE hand.gen
Gen(h) == GenOf(hands[h], tick)

\* The generation of reader x is still that of its timehands.
Valid(x) ==
    /\ x.pc \in Loaded
    /\ x.gen # TC_GEN_UPDATE
    /\ hands[x.th].gen = x.gen

\* What a reader has in hand as long as its generation is valid.
ValidOK(x) ==
    LET h == hands[x.th] IN
    /\ x.pc = "sec" => x.ts.sec = h.tstime.sec
    /\ x.pc \in {"delta", "count", "last"} =>
           /\ x.call = "nanouptime" => x.nano = h.nanotime
           /\ x.call = "tsuptime" => x.ts = h.tstime
    /\ x.pc = "count" => \E c \in x.start..now :
                             at[x.th] <= c /\ x.cnt = c % (Mask + 1)
    /\ x.pc = "last" => x.cnt = h.last_count
    /\ x.pc = "retry" =>
           /\ x.call = "nanouptime" => \E c \in x.start..now : Tells(x.nano, c, x.gen)
           /\ x.call = "tsuptime" => \E c \in x.start..now : Tells(ts_to_nsec(x.ts), c, x.gen)
           /\ x.call = "getnanouptime" => x.nano = h.nanotime

ReaderOK(x) ==
    /\ x.start <= now
    /\ x.pc # "out" => x.low <= at[timehands]
    /\ x.pc \in Loaded \cup {"gen"} => x.low <= at[x.th]
    /\ x.pc \in Loaded => x.gen <= Gen(x.th)
    /\ x.pc = "sec" => x.call \in {"tsuptime", "realtime"}
    /\ x.pc \in {"delta", "count", "last"} => x.call \in {"nanouptime", "tsuptime"}
    /\ Valid(x) => ValidOK(x)

IInv ==
    /\ TimeTypeOK
    /\ GapInv
    /\ HandsInv
    /\ TickInv
    /\ \A r \in Readers : ReaderOK(reader[r])
------------------------------------------------------------------------------
\* Arithmetic.

\* Where a count within a call lies.
LEMMA Within ==
    ASSUME NEW a \in Nat, NEW b \in Nat, NEW c \in Nat, NEW d \in Nat, NEW m \in Nat
    PROVE  /\ a <= b /\ b <= c => b \in a..c
           /\ b <= c => \A k \in a..b : k \in a..c
           /\ b - d <= m => \A k \in a..b : k \in Nat /\ k - d <= m
OBVIOUS

\* The remainder is the only one between 0 and the divisor.
LEMMA ModUnique ==
    ASSUME NEW m \in Nat, m > 0, NEW y \in Nat, y < m, NEW k \in Int
    PROVE  (y + m * k) % m = y
<1> DEFINE x == y + m * k
           q == x \div m
           r == x % m
<1>1. x \in Int /\ q \in Int /\ r \in Int /\ x = m * q + r /\ 0 <= r /\ r < m
  OBVIOUS
<1>2. m * (k - q) = r - y
  BY <1>1
<1> HIDE DEF x, q, r
<1>3. CASE k - q >= 1
  <2>1. m * (k - q) >= m
    BY <1>1, <1>3
  <2> QED BY <1>1, <1>2, <2>1
<1>4. CASE k - q <= -1
  <2>1. m * (k - q) <= -m
    BY <1>1, <1>4
  <2> QED BY <1>1, <1>2, <2>1
<1>5. CASE k - q = 0
  <2>1. r = y
    BY <1>1, <1>2, <1>5
  <2> QED BY <2>1 DEF r, x
<1> QED BY <1>1, <1>3, <1>4, <1>5

\* The difference of two counts is the time between them, across a wrap of the
\* counter, if it is not longer than the mask.
LEMMA DeltaExact ==
    ASSUME NEW a \in Nat, NEW b \in Nat, b <= a, a - b <= Mask
    PROVE  Delta(a % (Mask + 1), b % (Mask + 1)) = a - b
<1>1. PICK m \in Nat : m = Mask + 1 /\ m > 0
  BY TimekeepAssumption
<1>2. /\ a \div m \in Int /\ b \div m \in Int
      /\ a % m \in Int /\ b % m \in Int
      /\ a = m * (a \div m) + (a % m)
      /\ b = m * (b \div m) + (b % m)
  BY <1>1
<1>3. PICK qa \in Int, ra \in Int, qb \in Int, rb \in Int :
         a = m * qa + ra /\ ra = a % m /\ b = m * qb + rb /\ rb = b % m
  BY <1>2, Zenon
<1>4. ra - rb = (a - b) + m * (qb - qa)
  <2>1. \A p, q, x, y \in Int : x - y = ((m * p + x) - (m * q + y)) + m * (q - p)
    OBVIOUS
  <2>2. ra - rb = ((m * qa + ra) - (m * qb + rb)) + m * (qb - qa)
    BY <2>1
  <2> QED BY <1>3, <2>2
<1>5. a - b \in Nat /\ a - b < m
  BY <1>1, TimekeepAssumption
<1>6. ((a - b) + m * (qb - qa)) % m = a - b
  <2>1. qb - qa \in Int
    OBVIOUS
  <2> QED BY <1>1, <1>5, <2>1, ModUnique, Zenon
<1>7. (ra - rb) % m = a - b
  BY <1>4, <1>6
<1> QED BY <1>1, <1>3, <1>7 DEF Delta

\* What a quotient by a positive number is.
LEMMA DivBounds ==
    ASSUME NEW x \in Nat, NEW f \in Nat, f > 0
    PROVE  /\ x \div f \in Nat
           /\ (x \div f) * f <= x
           /\ x < (x \div f) * f + f
<1>1. x \div f \in Int /\ x % f \in Int /\ x = f * (x \div f) + (x % f)
      /\ 0 <= x % f /\ x % f < f
  OBVIOUS
<1>2. PICK q \in Int, m \in Int : q = x \div f /\ m = x % f
  BY <1>1
<1>3. x = f * q + m /\ 0 <= m /\ m < f
  BY <1>1, <1>2
<1>4. q >= 0
  <2>1. SUFFICES ASSUME q <= -1 PROVE FALSE
    OBVIOUS
  <2>2. f * q <= -f
    BY <2>1
  <2> QED BY <1>3, <2>2
<1>5. f * q = q * f
  OBVIOUS
<1> QED BY <1>2, <1>3, <1>4, <1>5

\* Factors of a positive number keep the order of the products.
LEMMA CancelLess ==
    ASSUME NEW a \in Int, NEW b \in Int, NEW f \in Nat, f > 0, a * f < b * f
    PROVE  a < b
<1> SUFFICES ASSUME a >= b PROVE FALSE
  OBVIOUS
<1>1. a * f >= b * f
  <2>1. (a - b) * f >= 0
    OBVIOUS
  <2>2. (a - b) * f = a * f - b * f
    OBVIOUS
  <2> QED BY <2>1, <2>2
<1> QED BY <1>1

LEMMA NanosecsType == \A c \in Nat : Nanosecs(c) \in Nat
<1> SUFFICES ASSUME NEW c \in Nat PROVE Nanosecs(c) \in Nat
  OBVIOUS
<1>1. c * SEC \in Nat /\ Freq \in Nat /\ Freq > 0
  BY TimekeepAssumption
<1> QED BY <1>1, DivBounds DEF Nanosecs

\* The nanoseconds of a sum are those of its parts, and at most one more.
LEMMA NanosecsAdd ==
    ASSUME NEW a \in Nat, NEW b \in Nat
    PROVE  /\ Nanosecs(a) + Nanosecs(b) <= Nanosecs(a + b)
           /\ Nanosecs(a + b) <= Nanosecs(a) + Nanosecs(b) + 1
<1>1. Freq \in Nat /\ Freq > 0 /\ SEC \in Nat
  BY TimekeepAssumption
<1>2. PICK x \in Nat, y \in Nat, z \in Nat :
         x = a * SEC /\ y = b * SEC /\ z = (a + b) * SEC /\ z = x + y
  <2>1. a * SEC \in Nat /\ b * SEC \in Nat /\ (a + b) * SEC \in Nat
        /\ (a + b) * SEC = a * SEC + b * SEC
    BY <1>1
  <2> QED BY <2>1
<1>3. PICK p \in Nat, q \in Nat, s \in Nat :
         p = Nanosecs(a) /\ q = Nanosecs(b) /\ s = Nanosecs(a + b)
  BY NanosecsType
<1>4. /\ p * Freq <= x /\ x < p * Freq + Freq
      /\ q * Freq <= y /\ y < q * Freq + Freq
      /\ s * Freq <= z /\ z < s * Freq + Freq
  BY <1>1, <1>2, <1>3, DivBounds DEF Nanosecs
<1>5. /\ (p + q) * Freq = p * Freq + q * Freq
      /\ (s + 1) * Freq = s * Freq + Freq
      /\ (p + q + 2) * Freq = p * Freq + q * Freq + Freq + Freq
      /\ p * Freq \in Nat /\ q * Freq \in Nat /\ s * Freq \in Nat
  BY <1>1
<1>6. (p + q) * Freq < (s + 1) * Freq /\ s * Freq < (p + q + 2) * Freq
  BY <1>1, <1>2, <1>4, <1>5
<1>7. p + q < s + 1 /\ s < p + q + 2
  BY <1>1, <1>6, CancelLess
<1> QED BY <1>3, <1>7

\* A second of counts is a second.
LEMMA NanosecsSec ==
    ASSUME NEW a \in Nat, a <= Freq
    PROVE  Nanosecs(a) <= SEC
<1>1. Freq \in Nat /\ Freq > 0 /\ SEC \in Nat /\ SEC > 0
  BY TimekeepAssumption
<1>2. PICK p \in Nat : p = Nanosecs(a)
  BY NanosecsType
<1>3. p * Freq <= a * SEC
  <2>1. a * SEC \in Nat
    BY <1>1
  <2> QED BY <1>1, <1>2, <2>1, DivBounds DEF Nanosecs
<1>4. a * SEC <= Freq * SEC
  <2>1. (Freq - a) * SEC >= 0
    BY <1>1
  <2>2. (Freq - a) * SEC = Freq * SEC - a * SEC
    BY <1>1
  <2>3. Freq * SEC \in Nat /\ a * SEC \in Nat
    BY <1>1
  <2> QED BY <2>1, <2>2, <2>3
<1>5. p * Freq < (SEC + 1) * Freq
  <2>1. (SEC + 1) * Freq = Freq * SEC + Freq
    BY <1>1
  <2>2. p * Freq \in Nat /\ a * SEC \in Nat /\ Freq * SEC \in Nat
    BY <1>1
  <2> QED BY <1>1, <1>3, <1>4, <2>1, <2>2
<1>6. p < SEC + 1
  BY <1>1, <1>5, CancelLess
<1> QED BY <1>1, <1>2, <1>6

\* A clock that goes on from a to b rounds at most one more nanosecond away.
LEMMA TellsOn ==
    ASSUME NEW n \in Nat, NEW a \in Nat, NEW b \in Nat, a <= b, NEW k \in Nat,
           Tells(n, a, k)
    PROVE  Tells(n + Nanosecs(b - a), b, k + 1)
<1>1. b - a \in Nat /\ a + (b - a) = b
  OBVIOUS
<1>2. /\ Nanosecs(a) + Nanosecs(b - a) <= Nanosecs(a + (b - a))
      /\ Nanosecs(a + (b - a)) <= Nanosecs(a) + Nanosecs(b - a) + 1
  BY <1>1, NanosecsAdd
<1>3. /\ Nanosecs(a) + Nanosecs(b - a) <= Nanosecs(b)
      /\ Nanosecs(b) <= Nanosecs(a) + Nanosecs(b - a) + 1
  BY <1>1, <1>2
<1>4. Nanosecs(a) \in Nat /\ Nanosecs(b) \in Nat /\ Nanosecs(b - a) \in Nat
  BY <1>1, NanosecsType
<1>5. Nanosecs(a) - n \in 0..k
  BY DEF Tells
<1>6. Nanosecs(b) - (n + Nanosecs(b - a)) \in 0..k + 1
  BY <1>3, <1>4, <1>5
<1> QED BY <1>6 DEF Tells

\* Counts and their differences are inside the mask.
LEMMA CountType ==
    ASSUME NEW n \in Int
    PROVE  n % (Mask + 1) \in 0..Mask
<1>1. PICK m \in Nat : m = Mask + 1 /\ m > 0
  BY TimekeepAssumption
<1>2. n % m \in 0..m - 1
  BY <1>1
<1>3. m - 1 = Mask
  BY <1>1, TimekeepAssumption
<1> QED BY <1>1, <1>2, <1>3

LEMMA DeltaType ==
    ASSUME NEW a \in 0..Mask, NEW b \in 0..Mask
    PROVE  Delta(a, b) \in Nat /\ Nanosecs(Delta(a, b)) \in Nat
<1>1. PICK d \in Int : d = a - b
  OBVIOUS
<1>2. d % (Mask + 1) \in 0..Mask
  BY CountType
<1>3. Mask \in Nat
  BY TimekeepAssumption
<1>4. Delta(a, b) \in Nat
  BY <1>1, <1>2, <1>3 DEF Delta
<1> QED BY <1>4, NanosecsType

\* timekeep_ts_add adds, with the carry or without it.
LEMMA TsAdd ==
    ASSUME NEW ts \in Timespec, NEW n \in Nat
    PROVE  /\ timekeep_ts_add(ts, n) \in Timespec
           /\ ts_to_nsec(timekeep_ts_add(ts, n)) = ts_to_nsec(ts) + n
           /\ ts.nsec < SEC /\ n <= SEC => timekeep_ts_add(ts, n).nsec < SEC
<1>1. SEC \in Nat /\ ts.sec \in Nat /\ ts.nsec \in Nat
  BY TimekeepAssumption DEF Timespec
<1>2. CASE ts.nsec + n >= SEC
  <2>1. timekeep_ts_add(ts, n) = [sec |-> ts.sec + 1, nsec |-> ts.nsec + n - SEC]
    BY <1>2 DEF timekeep_ts_add
  <2>2. (ts.sec + 1) * SEC = ts.sec * SEC + SEC /\ ts.sec * SEC \in Nat
    BY <1>1
  <2> QED BY <1>1, <1>2, <2>1, <2>2 DEF Timespec, ts_to_nsec
<1>3. CASE ~(ts.nsec + n >= SEC)
  <2>1. timekeep_ts_add(ts, n) = [sec |-> ts.sec, nsec |-> ts.nsec + n]
    BY <1>3 DEF timekeep_ts_add, Timespec
  <2>2. ts.sec * SEC \in Nat
    BY <1>1
  <2>3. ts.nsec < SEC /\ n <= SEC => timekeep_ts_add(ts, n).nsec < SEC
    BY <1>1, <1>3, <2>1
  <2> QED BY <1>1, <2>1, <2>2, <2>3 DEF Timespec, ts_to_nsec
<1> QED BY <1>2, <1>3

LEMMA TsTypes ==
    /\ Zero \in Timespec
    /\ \A n \in Nat : nsec_to_ts(n) \in Timespec
    /\ \A a, b \in Timespec : ts_add(a, b) \in Timespec
<1>1. SEC \in Nat /\ SEC > 0
  BY TimekeepAssumption
<1>2. Zero \in Timespec
  BY DEF Zero, Timespec
<1>3. \A n \in Nat : nsec_to_ts(n) \in Timespec
  BY <1>1 DEF nsec_to_ts, Timespec
<1>4. ASSUME NEW a \in Timespec, NEW b \in Timespec PROVE ts_add(a, b) \in Timespec
  <2>1. [sec |-> a.sec + b.sec, nsec |-> a.nsec] \in Timespec /\ b.nsec \in Nat
    BY DEF Timespec
  <2> QED BY <2>1, TsAdd DEF ts_add
<1> QED BY <1>2, <1>3, <1>4
------------------------------------------------------------------------------
\* Type correctness of the steps of the tick.
LEMMA TickTypes == TimeTypeOK /\ (Tick \/ Pass) => TimeTypeOK'
<1> SUFFICES ASSUME TimeTypeOK, Tick \/ Pass PROVE TimeTypeOK'
  OBVIOUS
<1>0. /\ now \in Nat /\ now \in Uptime /\ MaxTime \in Nat /\ Mask \in Nat
      /\ hands \in [0..1 -> Hand]
      /\ timehands \in 0..1 /\ Older \in 0..1
      /\ hands[Older] \in Hand
      /\ tick \in [pc : {"out", "read", "nano", "ts", "gen", "switch"}, gen : Nat, delta : Nat]
      /\ tick.gen \in Nat /\ tick.delta \in Nat
      /\ at \in [0..1 -> Uptime]
      /\ reader \in [Readers -> Reader]
  BY TimekeepAssumption DEF TimeTypeOK, Hand, Uptime, Older
<1>1. /\ hands[Older].gen \in Nat /\ hands[Older].last_count \in 0..Mask
      /\ hands[Older].nanotime \in Nat /\ hands[Older].tstime \in Timespec
  BY <1>0 DEF Hand
<1>9. tc_read \in 0..Mask
  BY <1>0, CountType DEF tc_read
<1> SUFFICES /\ now' \in Uptime /\ at' \in [0..1 -> Uptime]
             /\ hands' \in [0..1 -> Hand] /\ timehands' \in 0..1
             /\ tick' \in [pc : {"out", "read", "nano", "ts", "gen", "switch"},
                           gen : Nat, delta : Nat]
             /\ reader' \in [Readers -> Reader]
  BY DEF TimeTypeOK, Hand
<1>2. CASE Pass
  <2>1. now' \in Uptime
    BY <1>0, <1>2 DEF Pass, Uptime
  <2> QED BY <1>0, <1>2, <2>1 DEF Pass
<1>3. CASE TickBegin
  <2>1. [hands[Older] EXCEPT !.gen = TC_GEN_UPDATE] \in Hand
    BY <1>0 DEF Hand, TC_GEN_UPDATE
  <2>2. hands' = [hands EXCEPT ![Older] = [hands[Older] EXCEPT !.gen = TC_GEN_UPDATE]]
    BY <1>3, <1>0 DEF TickBegin
  <2>3. hands' \in [0..1 -> Hand]
    BY <1>0, <2>1, <2>2
  <2> QED BY <1>0, <1>1, <1>3, <2>3, Zenon DEF TickBegin
<1>4. CASE TickRead
  <2>0. Nanosecs(Delta(tc_read, hands[Older].last_count)) \in Nat
    BY <1>1, <1>9, DeltaType
  <2>1. [hands[Older] EXCEPT !.last_count = tc_read] \in Hand
    BY <1>0, <1>9 DEF Hand
  <2>2. hands' = [hands EXCEPT ![Older] = [hands[Older] EXCEPT !.last_count = tc_read]]
    BY <1>4, <1>0 DEF TickRead
  <2>3. hands' \in [0..1 -> Hand]
    BY <1>0, <2>1, <2>2
  <2>4. at' \in [0..1 -> Uptime]
    BY <1>0, <1>4 DEF TickRead
  <2> QED BY <1>0, <1>1, <1>4, <2>0, <2>3, <2>4, Zenon DEF TickRead
<1>5. CASE TickNano
  <2>0. PICK n \in Nat : n = hands[Older].nanotime + tick.delta
    BY <1>0, <1>1
  <2>1. [hands[Older] EXCEPT !.nanotime = n] \in Hand
    BY <1>0 DEF Hand
  <2>2. hands' = [hands EXCEPT ![Older] = [hands[Older] EXCEPT !.nanotime = n]]
    BY <1>5, <1>0, <2>0 DEF TickNano
  <2>3. hands' \in [0..1 -> Hand]
    BY <1>0, <2>1, <2>2
  <2> QED BY <1>0, <1>5, <2>3 DEF TickNano
<1>6. CASE TickTs
  <2>0. timekeep_ts_add(hands[Older].tstime, tick.delta) \in Timespec
    BY <1>0, <1>1, TsAdd
  <2>1. [hands[Older] EXCEPT !.tstime = timekeep_ts_add(@, tick.delta)] \in Hand
    BY <1>0, <1>1, <2>0 DEF Hand
  <2>2. hands' = [hands EXCEPT ![Older] = [hands[Older] EXCEPT !.tstime = timekeep_ts_add(@, tick.delta)]]
    BY <1>6, <1>0 DEF TickTs
  <2>3. hands' \in [0..1 -> Hand]
    BY <1>0, <2>1, <2>2
  <2> QED BY <1>0, <1>6, <2>3 DEF TickTs
<1>7. CASE TickGen
  <2>1. [hands[Older] EXCEPT !.gen = tick.gen + 1] \in Hand
    BY <1>0 DEF Hand
  <2>2. hands' = [hands EXCEPT ![Older] = [hands[Older] EXCEPT !.gen = tick.gen + 1]]
    BY <1>7, <1>0 DEF TickGen
  <2>3. hands' \in [0..1 -> Hand]
    BY <1>0, <2>1, <2>2
  <2> QED BY <1>0, <1>7, <2>3 DEF TickGen
<1>8. CASE TickSwitch
  BY <1>0, <1>8 DEF TickSwitch
<1> QED BY <1>2, <1>3, <1>4, <1>5, <1>6, <1>7, <1>8 DEF Tick

\* Type correctness of the steps of a reader.
LEMMA ReadTypes ==
    ASSUME TimeTypeOK, NEW r \in Readers,
           Read(r) \/ \E call \in Calls : Call(r, call)
    PROVE  TimeTypeOK'
<1>0. /\ now \in Uptime /\ now \in Nat /\ Uptime \subseteq Nat
      /\ hands \in [0..1 -> Hand]
      /\ timehands \in 0..1 /\ at[timehands] \in Uptime
      /\ reader \in [Readers -> Reader]
      /\ reader[r] \in Reader
  BY TimekeepAssumption DEF TimeTypeOK, Hand, Uptime
<1>1. ASSUME NEW new \in Reader, Set(r, new) PROVE TimeTypeOK'
  BY <1>0, <1>1 DEF Set, TimeTypeOK
<1>2. /\ reader[r].th \in 0..1 /\ reader[r].cnt \in 0..Mask
      /\ reader[r].nano \in Nat /\ reader[r].ts \in Timespec
  BY <1>0 DEF Reader
<1>3. hands[reader[r].th] \in Hand /\ hands[timehands] \in Hand
  BY <1>0, <1>2
<1>4. /\ hands[reader[r].th].gen \in Nat /\ hands[reader[r].th].last_count \in 0..Mask
      /\ hands[reader[r].th].nanotime \in Nat /\ hands[reader[r].th].tstime \in Timespec
      /\ hands[timehands].nanotime \in Nat
  BY <1>3 DEF Hand
<1>5. NotReading \in Reader
  BY TimekeepAssumption DEF NotReading, Reader, Calls, Uptime, Zero, Timespec
<1>6. tc_read \in 0..Mask
  BY <1>0, CountType DEF tc_read
<1>7. ASSUME NEW call \in Calls, Call(r, call) PROVE TimeTypeOK'
  <2>1. [NotReading EXCEPT !.call = call, !.pc = "th", !.start = now,
                           !.low = at[timehands]] \in Reader
    BY <1>0, <1>5, Zenon DEF Reader
  <2> QED BY <1>1, <1>7, <2>1, Zenon DEF Call
<1>8. CASE LoadHands(r)
  <2>1. [reader[r] EXCEPT !.pc = "gen", !.th = timehands] \in Reader
    BY <1>0, Zenon DEF Reader
  <2> QED BY <1>1, <1>8, <2>1 DEF LoadHands
<1>9. CASE LoadGen(r)
  <2>1. [reader[r] EXCEPT !.pc = "time", !.gen = hands[reader[r].th].gen] \in Reader
    BY <1>0, <1>4, Zenon DEF Reader
  <2> QED BY <1>1, <1>9, <2>1 DEF LoadGen
<1>10. CASE LoadTime(r)
  <2>1. [reader[r] EXCEPT !.pc = "delta", !.nano = hands[reader[r].th].nanotime] \in Reader
    BY <1>0, <1>4, Zenon DEF Reader
  <2>2. [reader[r] EXCEPT !.pc = "retry", !.nano = hands[reader[r].th].nanotime] \in Reader
    BY <1>0, <1>4, Zenon DEF Reader
  <2>3. [sec |-> hands[reader[r].th].tstime.sec, nsec |-> 0] \in Timespec
    BY <1>4 DEF Timespec
  <2>4. [reader[r] EXCEPT !.pc = "sec",
                          !.ts = [sec |-> hands[reader[r].th].tstime.sec, nsec |-> 0]] \in Reader
    BY <1>0, <2>3, Zenon DEF Reader
  <2> QED BY <1>1, <1>10, <2>1, <2>2, <2>4 DEF LoadTime
<1>11. CASE LoadNsec(r)
  <2>1. [reader[r].ts EXCEPT !.nsec = hands[reader[r].th].tstime.nsec] \in Timespec
    BY <1>2, <1>4 DEF Timespec
  <2>2. ASSUME NEW p \in {"delta", "retry"}
        PROVE  [reader[r] EXCEPT !.pc = p, !.ts.nsec = hands[reader[r].th].tstime.nsec]
                 \in Reader
    BY <1>0, <2>1, Zenon DEF Reader
  <2> QED BY <1>1, <1>11, <2>2, Zenon DEF LoadNsec
<1>12. CASE ReadCount(r)
  <2>1. [reader[r] EXCEPT !.pc = "count", !.cnt = tc_read] \in Reader
    BY <1>0, <1>6, Zenon DEF Reader
  <2> QED BY <1>1, <1>12, <2>1 DEF ReadCount
<1>13. CASE ReadLast(r)
  <2>1. [reader[r] EXCEPT !.pc = "last", !.cnt = hands[reader[r].th].last_count] \in Reader
    BY <1>0, <1>4, Zenon DEF Reader
  <2> QED BY <1>1, <1>13, <2>1 DEF ReadLast
<1>14. CASE AddDelta(r)
  <2>1. PICK d : d = IF reader[r].pc = "count"
                     THEN Nanosecs(Delta(reader[r].cnt, hands[reader[r].th].last_count))
                     ELSE Nanosecs(Delta(tc_read, reader[r].cnt))
    OBVIOUS
  <2>2. d \in Nat
    BY <2>1, <1>2, <1>4, <1>6, DeltaType
  <2>3. PICK n \in Nat : n = reader[r].nano + d
    BY <1>2, <2>2
  <2>4. timekeep_ts_add(reader[r].ts, d) \in Timespec
    BY <1>2, <2>2, TsAdd
  <2>5. 0 \in 0..Mask
    BY TimekeepAssumption
  <2>6. [reader[r] EXCEPT !.pc = "retry", !.cnt = 0, !.nano = n] \in Reader
    BY <1>0, <2>5, Zenon DEF Reader
  <2>7. [reader[r] EXCEPT !.pc = "retry", !.cnt = 0, !.ts = timekeep_ts_add(reader[r].ts, d)]
          \in Reader
    BY <1>0, <2>4, <2>5, Zenon DEF Reader
  <2>8. \/ Set(r, [reader[r] EXCEPT !.pc = "retry", !.cnt = 0, !.nano = reader[r].nano + d])
        \/ Set(r, [reader[r] EXCEPT !.pc = "retry", !.cnt = 0,
                                    !.ts = timekeep_ts_add(reader[r].ts, d)])
    BY <1>14, <2>1 DEF AddDelta
  <2> QED BY <1>1, <2>3, <2>6, <2>7, <2>8
<1>15. CASE Retry(r)
  <2>1. [reader[r] EXCEPT !.pc = "th", !.gen = 0, !.nano = 0, !.ts = Zero] \in Reader
    BY <1>0, TsTypes, Zenon DEF Reader
  <2> QED BY <1>1, <1>15, <2>1 DEF Retry
<1>16. CASE Again(r)
  <2>1. ts_add(nsec_to_ts(BootTime), reader[r].ts) \in Timespec /\ Zero \in Timespec
    BY <1>2, TsTypes, TimekeepAssumption
  <2>2. PICK f \in Timespec : f = ts_add(nsec_to_ts(BootTime), reader[r].ts)
    BY <2>1
  <2>3. PICK z \in Timespec : z = Zero
    BY <2>1
  <2>4. [reader[r] EXCEPT !.pc = "th", !.pass = 2, !.ts = z, !.first = f] \in Reader
    <3>1. 2 \in 1..2
      OBVIOUS
    <3>2. [reader[r] EXCEPT !.pc = "th", !.pass = 2] \in Reader
      BY <1>0, <3>1, Zenon DEF Reader
    <3>3. [[reader[r] EXCEPT !.pc = "th", !.pass = 2] EXCEPT !.ts = z, !.first = f] \in Reader
      BY <3>2, Zenon DEF Reader
    <3> QED BY <3>3
  <2> QED BY <1>1, <1>16, <2>2, <2>3, <2>4 DEF Again
<1>17. CASE Return(r)
  BY <1>1, <1>5, <1>17 DEF Return
<1> QED BY <1>7, <1>8, <1>9, <1>10, <1>11, <1>12, <1>13, <1>14, <1>15, <1>16, <1>17 DEF Read
------------------------------------------------------------------------------
\* The types of what the tick works with.
LEMMA TickFacts ==
    ASSUME TimeTypeOK
    PROVE  /\ now \in Nat /\ TickGap \in Nat /\ SEC \in Nat
           /\ timehands \in 0..1 /\ Older \in 0..1 /\ Older # timehands
           /\ hands \in [0..1 -> Hand] /\ DOMAIN hands = 0..1
           /\ DOMAIN at = 0..1 /\ \A h \in 0..1 : at[h] \in Nat
           /\ tick.pc \in {"out", "read", "nano", "ts", "gen", "switch"}
           /\ tick.gen \in Nat /\ tick.delta \in Nat
           /\ \A h \in 0..1 : /\ hands[h] \in Hand /\ hands[h].gen \in Nat
                              /\ hands[h].nanotime \in Nat
                              /\ hands[h].tstime \in Timespec
                              /\ ts_to_nsec(hands[h].tstime) \in Nat
<1>1. /\ now \in Nat /\ TickGap \in Nat /\ SEC \in Nat
      /\ timehands \in 0..1 /\ Older \in 0..1 /\ Older # timehands
      /\ hands \in [0..1 -> Hand] /\ DOMAIN hands = 0..1
      /\ DOMAIN at = 0..1 /\ \A h \in 0..1 : at[h] \in Nat
      /\ tick.pc \in {"out", "read", "nano", "ts", "gen", "switch"}
      /\ tick.gen \in Nat /\ tick.delta \in Nat
  BY TimekeepAssumption DEF TimeTypeOK, Hand, Uptime, Older
<1>2. ASSUME NEW h \in 0..1
      PROVE  /\ hands[h] \in Hand /\ hands[h].gen \in Nat
             /\ hands[h].nanotime \in Nat /\ hands[h].tstime \in Timespec
  BY <1>1 DEF Hand
<1>3. ASSUME NEW ts \in Timespec PROVE ts_to_nsec(ts) \in Nat
  BY TimekeepAssumption DEF Timespec, ts_to_nsec
<1> QED BY <1>1, <1>2, <1>3

\* No tick that a timehands stands for is more than two gaps old.
LEMMA Recent ==
    ASSUME TimeTypeOK, GapInv, NEW h \in 0..1
    PROVE  /\ at[h] <= now /\ now - at[h] <= Mask /\ now - at[h] <= Freq
<1>0. /\ now \in Nat /\ TickGap \in Nat /\ Mask \in Nat /\ Freq \in Nat
      /\ timehands \in 0..1 /\ Older \in 0..1
      /\ at[timehands] \in Nat /\ at[Older] \in Nat
      /\ h = timehands \/ h = Older
      /\ 2 * TickGap <= Mask /\ 2 * TickGap <= Freq
  BY TickFacts, TimekeepAssumption DEF Older
<1>1. at[timehands] <= now /\ at[Older] <= now
  BY <1>0 DEF GapInv
<1>2. now <= at[timehands] + 2 * TickGap /\ now <= at[Older] + 2 * TickGap
  BY <1>0 DEF GapInv
<1> QED BY <1>0, <1>1, <1>2

\* A timehands that is not being updated tells the time of its tick.
LEMMA Settled ==
    ASSUME TimeTypeOK, HandsInv, TickInv, NEW h \in 0..1, hands[h].gen # TC_GEN_UPDATE
    PROVE  /\ hands[h].last_count = at[h] % (Mask + 1)
           /\ hands[h].tstime.nsec < SEC
           /\ ts_to_nsec(hands[h].tstime) = hands[h].nanotime
           /\ Tells(hands[h].nanotime, at[h], hands[h].gen - 1)
<1>0. h = timehands \/ h = Older
  BY DEF TimeTypeOK, Older
<1>1. CASE h = timehands
  BY <1>1 DEF HandsInv
<1>2. CASE h = Older
  <2>1. tick.pc \in Settling /\ tick.pc # "ts"
    BY <1>2 DEF TickInv, Settling
  <2> QED BY <1>2, <2>1 DEF TickInv
<1> QED BY <1>0, <1>1, <1>2

\* The ticks stay as close together, and to the time, as TickGap says.
LEMMA TickKeepsGap ==
    ASSUME TimeTypeOK, GapInv, Tick \/ Pass
    PROVE  GapInv'
<1>0. /\ now \in Nat /\ TickGap \in Nat
      /\ timehands \in 0..1 /\ Older \in 0..1 /\ Older # timehands
      /\ \A h \in 0..1 : h = timehands \/ h = Older
      /\ DOMAIN at = 0..1 /\ at[timehands] \in Nat /\ at[Older] \in Nat
      /\ tick \in [pc : {"out", "read", "nano", "ts", "gen", "switch"}, gen : Nat, delta : Nat]
      /\ at[timehands] <= now /\ at[Older] <= now
  <2>1. \A h \in 0..1 : h = timehands \/ h = Older
    BY DEF TimeTypeOK, Older
  <2> QED BY <2>1, TickFacts DEF TimeTypeOK, GapInv
<1>1. CASE Pass
  <2>1. /\ UNCHANGED <<timehands, tick, at>> /\ now' = now + 1 /\ Older' = Older
        /\ now < at[timehands] + TickGap \/ now < at[Older] + TickGap
    BY <1>0, <1>1 DEF Pass, Older
  <2> QED BY <1>0, <2>1 DEF GapInv
<1>2. CASE TickBegin \/ TickNano \/ TickTs \/ TickGen
  <2>1. UNCHANGED <<now, timehands, at>> /\ Older' = Older
    BY <1>2 DEF TickBegin, TickNano, TickTs, TickGen, Older
  <2>2. tick'.pc \in Before <=> tick.pc \in Before
    BY <1>0, <1>2, Zenon DEF TickBegin, TickNano, TickTs, TickGen, Before
  <2> QED BY <2>1, <2>2 DEF GapInv
<1>3. CASE TickRead
  <2>1. /\ UNCHANGED <<now, timehands>> /\ Older' = Older
        /\ at' = [at EXCEPT ![Older] = now]
        /\ tick.pc = "read" /\ tick'.pc = "nano"
    BY <1>0, <1>3 DEF TickRead, Older
  <2>2. at'[timehands] = at[timehands] /\ at'[Older] = now
    BY <1>0, <2>1
  <2>3. at[timehands] <= now /\ now <= at[timehands] + TickGap
    BY <1>0, <2>1 DEF GapInv, Before
  <2>4. tick'.pc \notin Before
    BY <2>1 DEF Before
  <2>5. \A h \in 0..1 : at'[h] <= now
    BY <1>0, <2>2
  <2> QED BY <1>0, <2>1, <2>2, <2>3, <2>4, <2>5 DEF GapInv
<1>4. CASE TickSwitch
  <2>1. /\ UNCHANGED <<now, at>> /\ timehands' = Older /\ Older' = timehands
        /\ tick.pc = "switch" /\ tick'.pc = "out"
    BY <1>0, <1>4 DEF TickSwitch, Older
  <2>2. tick.pc \notin Before /\ tick'.pc \in Before
    BY <2>1 DEF Before
  <2> QED BY <2>1, <2>2 DEF GapInv
<1> QED BY <1>1, <1>2, <1>3, <1>4 DEF Tick

\* The tick keeps the two timehands telling the time.
LEMMA TickKeepsHands ==
    ASSUME TimeTypeOK, GapInv, HandsInv, TickInv, Tick \/ Pass
    PROVE  HandsInv' /\ TickInv'
<1> DEFINE o == hands[Older]
           c == at[Older]
<1>0. /\ now \in Nat /\ SEC \in Nat
      /\ timehands \in 0..1 /\ Older \in 0..1 /\ Older # timehands
      /\ DOMAIN hands = 0..1 /\ DOMAIN at = 0..1 /\ c \in Nat
      /\ tick.gen \in Nat /\ tick.delta \in Nat
      /\ tick \in [pc : {"out", "read", "nano", "ts", "gen", "switch"}, gen : Nat, delta : Nat]
      /\ o \in Hand /\ o.gen \in Nat
      /\ o.nanotime \in Nat /\ o.tstime \in Timespec
      /\ ts_to_nsec(o.tstime) \in Nat
  BY TickFacts DEF TimeTypeOK
<1>1. CASE Pass
  <2>1. UNCHANGED <<hands, timehands, tick, at>> /\ Older' = Older
    BY <1>1 DEF Pass, Older
  <2> QED BY <2>1 DEF TickInv, HandsInv, Tells
\* A step that writes the older timehands only.
<1>2. ASSUME timehands' = timehands, NEW new, hands' = [hands EXCEPT ![Older] = new],
             at'[timehands] = at[timehands]
      PROVE  HandsInv' /\ Older' = Older /\ hands'[Older] = new
  <2>1. hands'[timehands] = hands[timehands] /\ hands'[Older] = new /\ Older' = Older
    BY <1>0, <1>2 DEF Older
  <2> QED BY <1>2, <2>1 DEF HandsInv, Tells
<1>3. CASE TickBegin
  <2>0. PICK new : new = [o EXCEPT !.gen = TC_GEN_UPDATE]
    BY Zenon
  <2>1. /\ hands' = [hands EXCEPT ![Older] = new]
        /\ tick'.pc = "read" /\ tick'.gen = o.gen
        /\ tick.pc = "out"
        /\ UNCHANGED <<now, at, timehands>>
    BY <1>0, <1>3, <2>0 DEF TickBegin
  <2>2. HandsInv' /\ Older' = Older /\ hands'[Older] = new
    BY <1>2, <2>1, Zenon
  <2>3. /\ new.gen = TC_GEN_UPDATE /\ new.nanotime = o.nanotime
        /\ new.last_count = o.last_count /\ new.tstime = o.tstime
    BY <1>0, <2>0 DEF Hand
  <2>4. /\ o.gen # TC_GEN_UPDATE /\ o.last_count = c % (Mask + 1) /\ o.tstime.nsec < SEC
        /\ ts_to_nsec(o.tstime) = o.nanotime /\ Tells(o.nanotime, c, o.gen - 1)
    BY <2>1 DEF TickInv, Settling
  <2>5. TickInv'
    BY <2>1, <2>2, <2>3, <2>4 DEF TickInv, Tells, Settling, ts_to_nsec
  <2> QED BY <2>2, <2>5
<1>4. CASE TickRead
  <2>0. PICK new : new = [o EXCEPT !.last_count = tc_read]
    BY Zenon
  <2>1. /\ hands' = [hands EXCEPT ![Older] = new]
        /\ tick'.pc = "nano" /\ tick'.gen = tick.gen
        /\ tick'.delta = Nanosecs(Delta(tc_read, o.last_count))
        /\ tick.pc = "read"
        /\ at'[timehands] = at[timehands] /\ at'[Older] = now
        /\ UNCHANGED <<now, timehands>>
    BY <1>0, <1>4, <2>0 DEF TickRead
  <2>2. HandsInv' /\ Older' = Older /\ hands'[Older] = new
    BY <1>2, <2>1, Zenon
  <2>3. /\ new.gen = o.gen /\ new.nanotime = o.nanotime
        /\ new.last_count = tc_read /\ new.tstime = o.tstime
    BY <1>0, <2>0 DEF Hand
  <2>4. /\ o.gen = TC_GEN_UPDATE /\ o.last_count = c % (Mask + 1) /\ o.tstime.nsec < SEC
        /\ ts_to_nsec(o.tstime) = o.nanotime /\ Tells(o.nanotime, c, tick.gen - 1)
        /\ tick.gen # TC_GEN_UPDATE
    BY <2>1 DEF TickInv, Settling
  <2>5. c <= now /\ now - c <= Mask /\ now - c <= Freq /\ now - c \in Nat
    BY <1>0, Recent
  <2>6. tick'.delta = Nanosecs(now - c)
    BY <1>0, <2>1, <2>4, <2>5, DeltaExact DEF tc_read
  <2>7. tick'.delta <= SEC
    BY <2>5, <2>6, NanosecsSec
  <2>8. Tells(o.nanotime + tick'.delta, now, tick.gen)
    <3>1. tick.gen - 1 \in Nat /\ tick.gen - 1 + 1 = tick.gen
      BY <1>0, <2>4 DEF TC_GEN_UPDATE
    <3>2. Tells(o.nanotime + Nanosecs(now - c), now, tick.gen - 1 + 1)
      BY <1>0, <2>4, <2>5, <3>1, TellsOn
    <3> QED BY <2>6, <3>1, <3>2
  <2>9. TickInv'
    BY <2>1, <2>2, <2>3, <2>4, <2>7, <2>8 DEF TickInv, Settling, tc_read, ts_to_nsec, Tells
  <2> QED BY <2>2, <2>9
<1>5. CASE TickNano
  <2>0. PICK n \in Nat : n = o.nanotime + tick.delta
    BY <1>0
  <2>1. PICK new : new = [o EXCEPT !.nanotime = n]
    BY Zenon
  <2>2. /\ hands' = [hands EXCEPT ![Older] = new]
        /\ tick'.pc = "ts" /\ tick'.delta = tick.delta /\ tick'.gen = tick.gen
        /\ tick.pc = "nano"
        /\ UNCHANGED <<now, at, timehands>>
    BY <1>0, <1>5, <2>0, <2>1 DEF TickNano
  <2>3. HandsInv' /\ Older' = Older /\ hands'[Older] = new
    BY <1>2, <2>2, Zenon
  <2>4. /\ new.gen = o.gen /\ new.nanotime = n
        /\ new.last_count = o.last_count /\ new.tstime = o.tstime
    BY <1>0, <2>1 DEF Hand
  <2>5. /\ o.gen = TC_GEN_UPDATE /\ o.last_count = c % (Mask + 1) /\ o.tstime.nsec < SEC
        /\ ts_to_nsec(o.tstime) = o.nanotime /\ Tells(n, c, tick.gen)
        /\ tick.gen # TC_GEN_UPDATE /\ tick.delta <= SEC
    BY <2>0, <2>2 DEF TickInv, Settling
  <2>6. TickInv'
    BY <2>0, <2>2, <2>3, <2>4, <2>5 DEF TickInv, Settling, ts_to_nsec, Tells
  <2> QED BY <2>3, <2>6
<1>6. CASE TickTs
  <2>0. tick.pc = "ts"
    BY <1>6 DEF TickTs
  <2>1. /\ o.gen = TC_GEN_UPDATE /\ o.last_count = c % (Mask + 1) /\ o.tstime.nsec < SEC
        /\ ts_to_nsec(o.tstime) + tick.delta = o.nanotime /\ Tells(o.nanotime, c, tick.gen)
        /\ tick.gen # TC_GEN_UPDATE /\ tick.delta <= SEC
    BY <2>0 DEF TickInv, Settling
  <2>2. PICK ts \in Timespec : /\ ts = timekeep_ts_add(o.tstime, tick.delta)
                               /\ ts_to_nsec(ts) = o.nanotime /\ ts.nsec < SEC
    BY <1>0, <2>1, TsAdd
  <2>3. PICK new : new = [o EXCEPT !.tstime = ts]
    BY Zenon
  <2>4. /\ hands' = [hands EXCEPT ![Older] = new]
        /\ tick'.pc = "gen" /\ tick'.gen = tick.gen
        /\ UNCHANGED <<now, at, timehands>>
    BY <1>0, <1>6, <2>2, <2>3 DEF TickTs
  <2>5. HandsInv' /\ Older' = Older /\ hands'[Older] = new
    BY <1>2, <2>4, Zenon
  <2>6. /\ new.gen = o.gen /\ new.nanotime = o.nanotime
        /\ new.last_count = o.last_count /\ new.tstime = ts
    BY <1>0, <2>3 DEF Hand
  <2>7. TickInv'
    BY <2>1, <2>2, <2>4, <2>5, <2>6 DEF TickInv, Settling, Tells, ts_to_nsec
  <2> QED BY <2>5, <2>7
<1>7. CASE TickGen
  <2>0. PICK g \in Nat : g = tick.gen + 1 /\ g # TC_GEN_UPDATE /\ g - 1 = tick.gen
    BY <1>0 DEF TC_GEN_UPDATE
  <2>1. PICK new : new = [o EXCEPT !.gen = g]
    BY Zenon
  <2>2. /\ hands' = [hands EXCEPT ![Older] = new]
        /\ tick'.pc = "switch" /\ tick.pc = "gen"
        /\ UNCHANGED <<now, at, timehands>>
    BY <1>0, <1>7, <2>0, <2>1 DEF TickGen
  <2>3. HandsInv' /\ Older' = Older /\ hands'[Older] = new
    BY <1>2, <2>2, Zenon
  <2>4. /\ new.gen = g /\ new.nanotime = o.nanotime
        /\ new.last_count = o.last_count /\ new.tstime = o.tstime
    BY <1>0, <2>1 DEF Hand
  <2>5. /\ o.last_count = c % (Mask + 1) /\ o.tstime.nsec < SEC
        /\ ts_to_nsec(o.tstime) = o.nanotime /\ Tells(o.nanotime, c, g - 1)
    BY <2>0, <2>2 DEF TickInv, Settling
  <2>6. TickInv'
    BY <2>0, <2>2, <2>3, <2>4, <2>5 DEF TickInv, Settling, Tells, ts_to_nsec
  <2> QED BY <2>3, <2>6
<1>8. CASE TickSwitch
  <2>1. /\ timehands' = Older /\ tick'.pc = "out" /\ Older' = timehands
        /\ tick.pc = "switch"
        /\ UNCHANGED <<now, hands, at>>
    BY <1>0, <1>8 DEF TickSwitch, Older
  <2>2. HandsInv'
    BY <2>1 DEF TickInv, HandsInv, Settling, Tells
  <2>3. TickInv'
    BY <2>1 DEF TickInv, HandsInv, Settling, Tells
  <2> QED BY <2>2, <2>3
<1> QED BY <1>1, <1>3, <1>4, <1>5, <1>6, <1>7, <1>8 DEF Tick
------------------------------------------------------------------------------
\* What a step of the tick means for readers: times and generations only grow,
\* and a timehands with the generation of a reader is as the reader found it.
Grows ==
    /\ now <= now'
    /\ at[timehands] <= at'[timehands']
    /\ \A h \in 0..1 :
           /\ at[h] <= at'[h]
           /\ Gen(h) <= Gen(h)'
           /\ \A g \in Nat : g # TC_GEN_UPDATE /\ g <= Gen(h) /\ hands'[h].gen = g
                                 => hands'[h] = hands[h] /\ at'[h] = at[h]

LEMMA TickEffect ==
    ASSUME TimeTypeOK, GapInv, HandsInv, TickInv, Tick \/ Pass
    PROVE  Grows
<1> DEFINE o == hands[Older]
<1>0. /\ now \in Nat
      /\ timehands \in 0..1 /\ Older \in 0..1 /\ Older # timehands
      /\ \A h \in 0..1 : h = timehands \/ h = Older
      /\ DOMAIN hands = 0..1 /\ DOMAIN at = 0..1
      /\ at[timehands] \in Nat /\ at[Older] \in Nat /\ at[Older] <= now
      /\ tick.gen \in Nat /\ tick.delta \in Nat
      /\ tick \in [pc : {"out", "read", "nano", "ts", "gen", "switch"}, gen : Nat, delta : Nat]
      /\ o \in Hand /\ o.gen \in Nat
      /\ hands[timehands].gen \in Nat /\ hands[timehands].gen # TC_GEN_UPDATE
      /\ o.gen # TC_GEN_UPDATE <=> tick.pc \in Settling
  <2>1. \A h \in 0..1 : h = timehands \/ h = Older
    BY DEF TimeTypeOK, Older
  <2> QED BY <2>1, TickFacts DEF TimeTypeOK, HandsInv, TickInv, GapInv
<1>1. CASE Pass
  BY <1>0, <1>1 DEF Pass, Gen, GenOf, Grows
\* A step that writes the older timehands only.
<1>2. ASSUME NEW new, hands' = [hands EXCEPT ![Older] = new],
             UNCHANGED <<now, timehands>>, new.gen \in Nat,
             at'[timehands] = at[timehands], at'[Older] \in Nat, at[Older] <= at'[Older],
             GenOf(o, tick) <= GenOf(new, tick'),
             new.gen = TC_GEN_UPDATE \/ new.gen > GenOf(o, tick)
      PROVE  Grows
  <2>1. hands'[timehands] = hands[timehands] /\ hands'[Older] = new
    BY <1>0, <1>2
  <2>2. GenOf(hands[timehands], tick) \in Nat /\ GenOf(o, tick) \in Nat
    BY <1>0 DEF GenOf
  <2>3. GenOf(hands'[timehands], tick') = GenOf(hands[timehands], tick)
    BY <1>0, <2>1 DEF GenOf
  <2>4. \A g \in Nat : g # TC_GEN_UPDATE /\ g <= GenOf(o, tick) => hands'[Older].gen # g
    BY <1>2, <2>1, <2>2
  <2>5. now <= now' /\ at[timehands] <= at'[timehands']
    BY <1>0, <1>2
  <2>6. ASSUME NEW h \in 0..1
        PROVE  at[h] <= at'[h] /\ Gen(h) <= Gen(h)'
    <3>1. CASE h = timehands
      <4>1. GenOf(hands[h], tick) <= GenOf(hands'[h], tick')
        BY <2>2, <2>3, <3>1
      <4> QED BY <1>0, <1>2, <3>1, <4>1 DEF Gen
    <3>2. CASE h = Older
      <4>1. GenOf(hands[h], tick) <= GenOf(hands'[h], tick')
        BY <1>2, <2>1, <3>2
      <4> QED BY <1>2, <3>2, <4>1 DEF Gen
    <3> QED BY <1>0, <3>1, <3>2
  <2>7. ASSUME NEW h \in 0..1, NEW g \in Nat,
               g # TC_GEN_UPDATE, g <= Gen(h), hands'[h].gen = g
        PROVE  hands'[h] = hands[h] /\ at'[h] = at[h]
    BY <1>0, <1>2, <2>1, <2>4, <2>7 DEF Gen
  <2> QED BY <2>5, <2>6, <2>7 DEF Grows
<1>3. CASE TickBegin
  <2>1. PICK new : new = [o EXCEPT !.gen = TC_GEN_UPDATE]
    BY Zenon
  <2>2. /\ hands' = [hands EXCEPT ![Older] = new]
        /\ tick'.gen = o.gen
        /\ tick.pc = "out"
        /\ UNCHANGED <<now, timehands, at>>
    BY <1>0, <1>3, <2>1 DEF TickBegin
  <2>3. new.gen = TC_GEN_UPDATE /\ new.gen \in Nat
    BY <1>0, <2>1 DEF Hand, TC_GEN_UPDATE
  <2>4. GenOf(o, tick) <= GenOf(new, tick')
    BY <1>0, <2>2, <2>3 DEF GenOf, Settling
  <2>5. at'[timehands] = at[timehands] /\ at'[Older] \in Nat /\ at[Older] <= at'[Older]
    BY <1>0, <2>2
  <2> QED BY <1>2, <2>2, <2>3, <2>4, <2>5, Zenon
<1>4. CASE TickRead \/ TickNano \/ TickTs
  <2>1. PICK new : hands' = [hands EXCEPT ![Older] = new] /\ new.gen = o.gen
    <3>1. CASE TickRead
      <4>1. PICK new : new = [o EXCEPT !.last_count = tc_read]
        BY Zenon
      <4>2. new.gen = o.gen
        BY <1>0, <4>1 DEF Hand
      <4>3. hands' = [hands EXCEPT ![Older] = new]
        BY <1>0, <3>1, <4>1 DEF TickRead
      <4> QED BY <4>2, <4>3, Zenon
    <3>2. CASE TickNano
      <4>1. PICK new : new = [o EXCEPT !.nanotime = @ + tick.delta]
        BY Zenon
      <4>2. new.gen = o.gen
        BY <1>0, <4>1 DEF Hand
      <4>3. hands' = [hands EXCEPT ![Older] = new]
        BY <1>0, <3>2, <4>1 DEF TickNano
      <4> QED BY <4>2, <4>3, Zenon
    <3>3. CASE TickTs
      <4>1. PICK new : new = [o EXCEPT !.tstime = timekeep_ts_add(@, tick.delta)]
        BY Zenon
      <4>2. new.gen = o.gen
        BY <1>0, <4>1 DEF Hand
      <4>3. hands' = [hands EXCEPT ![Older] = new]
        BY <1>0, <3>3, <4>1 DEF TickTs
      <4> QED BY <4>2, <4>3, Zenon
    <3> QED BY <1>4, <3>1, <3>2, <3>3
  <2>2. /\ tick'.gen = tick.gen /\ tick.pc \notin Settling
        /\ UNCHANGED <<now, timehands>>
    BY <1>0, <1>4, Zenon DEF TickRead, TickNano, TickTs, Settling
  <2>3. at' = at \/ at' = [at EXCEPT ![Older] = now]
    BY <1>4 DEF TickRead, TickNano, TickTs
  <2>4. at'[timehands] = at[timehands] /\ at'[Older] \in Nat /\ at[Older] <= at'[Older]
    BY <1>0, <2>3
  <2>5. o.gen = TC_GEN_UPDATE
    BY <1>0, <2>2
  <2>6. GenOf(o, tick) <= GenOf(new, tick')
    BY <1>0, <2>1, <2>2, <2>5 DEF GenOf
  <2>7. new.gen \in Nat /\ new.gen = TC_GEN_UPDATE
    BY <1>0, <2>1, <2>5
  <2> QED BY <1>2, <2>1, <2>2, <2>4, <2>6, <2>7, Zenon
<1>5. CASE TickGen
  <2>1. PICK new : new = [o EXCEPT !.gen = tick.gen + 1]
    BY Zenon
  <2>2. /\ hands' = [hands EXCEPT ![Older] = new]
        /\ tick'.gen = tick.gen /\ tick.pc = "gen"
        /\ UNCHANGED <<now, timehands, at>>
    BY <1>0, <1>5, <2>1 DEF TickGen
  <2>3. new.gen = tick.gen + 1 /\ o.gen = TC_GEN_UPDATE
    BY <1>0, <2>1, <2>2 DEF Hand, Settling
  <2>4. /\ GenOf(o, tick) = tick.gen
        /\ GenOf(new, tick') = tick.gen + 1
    BY <1>0, <2>2, <2>3 DEF GenOf, TC_GEN_UPDATE
  <2>5. /\ new.gen > GenOf(o, tick) /\ new.gen \in Nat
        /\ GenOf(o, tick) <= GenOf(new, tick')
    BY <1>0, <2>3, <2>4
  <2>6. at'[timehands] = at[timehands] /\ at'[Older] \in Nat /\ at[Older] <= at'[Older]
    BY <1>0, <2>2
  <2> QED BY <1>2, <2>2, <2>5, <2>6, Zenon
<1>6. CASE TickSwitch
  <2>1. /\ timehands' = Older /\ tick.pc = "switch"
        /\ UNCHANGED <<now, hands, at>>
    BY <1>6 DEF TickSwitch
  <2>2. at[timehands] <= at[Older]
    BY <2>1 DEF GapInv, Before
  <2>3. \A h \in 0..1 : hands[h].gen # TC_GEN_UPDATE
    BY <1>0, <2>1 DEF Settling
  <2> QED BY <1>0, <2>1, <2>2, <2>3 DEF Gen, GenOf, Grows
<1> QED BY <1>1, <1>3, <1>4, <1>5, <1>6 DEF Tick
------------------------------------------------------------------------------
LEMMA ReaderFacts ==
    ASSUME TimeTypeOK, NEW r \in Readers
    PROVE  /\ reader[r] \in Reader
           /\ reader[r].th \in 0..1 /\ reader[r].gen \in Nat /\ reader[r].nano \in Nat
           /\ reader[r].ts \in Timespec
           /\ reader[r].cnt \in 0..Mask /\ reader[r].call \in Calls
           /\ reader[r].start \in Nat /\ reader[r].low \in Nat
           /\ ts_to_nsec(reader[r].ts) \in Nat
<1>1. reader[r] \in Reader
  BY DEF TimeTypeOK
<1>2. Uptime \subseteq Nat /\ SEC \in Nat
  BY TimekeepAssumption DEF Uptime
<1>3. /\ reader[r].th \in 0..1 /\ reader[r].gen \in Nat /\ reader[r].nano \in Nat
      /\ reader[r].ts \in Timespec /\ reader[r].cnt \in 0..Mask
      /\ reader[r].call \in Calls
      /\ reader[r].start \in Nat /\ reader[r].low \in Nat
  BY <1>1, <1>2, Zenon DEF Reader
<1>4. reader[r].ts.sec \in Nat /\ reader[r].ts.nsec \in Nat
  BY <1>3 DEF Timespec
<1>5. ts_to_nsec(reader[r].ts) \in Nat
  BY <1>2, <1>4 DEF ts_to_nsec
<1> QED BY <1>1, <1>3, <1>5

\* A step of the tick leaves every reader with what it may rely on.
LEMMA TickKeepsReaders ==
    ASSUME IInv, Tick \/ Pass, NEW r \in Readers
    PROVE  ReaderOK(reader[r])'
<1> DEFINE x == reader[r]
<1>0. TimeTypeOK /\ GapInv /\ HandsInv /\ TickInv /\ ReaderOK(x) /\ TimeTypeOK'
  BY TickTypes DEF IInv
<1>1. Grows
  BY <1>0, TickEffect
<1>2. reader' = reader
  BY DEF Tick, Pass, TickBegin, TickRead, TickNano, TickTs, TickGen, TickSwitch
<1>3. /\ x.th \in 0..1 /\ x.gen \in Nat /\ x.start \in Nat /\ x.low \in Nat
      /\ x.nano \in Nat /\ ts_to_nsec(x.ts) \in Nat
  BY <1>0, ReaderFacts
<1>4. /\ now \in Nat /\ now' \in Nat
      /\ timehands \in 0..1 /\ timehands' \in 0..1
      /\ \A h \in 0..1 : at[h] \in Nat /\ at'[h] \in Nat
      /\ \A h \in 0..1 : GenOf(hands[h], tick) \in Nat /\ GenOf(hands'[h], tick') \in Nat
  <2>1. /\ now \in Nat /\ timehands \in 0..1 /\ tick.gen \in Nat
        /\ \A h \in 0..1 : at[h] \in Nat /\ hands[h].gen \in Nat
    BY <1>0, TickFacts
  <2>2. /\ now' \in Nat /\ timehands' \in 0..1 /\ tick'.gen \in Nat
        /\ \A h \in 0..1 : at'[h] \in Nat /\ hands'[h].gen \in Nat
    <3>1. Uptime \subseteq Nat
      BY TimekeepAssumption DEF Uptime
    <3> QED BY <1>0, <3>1 DEF TimeTypeOK
  <2> QED BY <2>1, <2>2 DEF GenOf
<1>5. /\ now <= now'
      /\ at[timehands] <= at'[timehands']
      /\ at[x.th] <= at'[x.th]
      /\ GenOf(hands[x.th], tick) <= GenOf(hands'[x.th], tick')
  BY <1>1, <1>3 DEF Grows, Gen
<1>6. /\ x.start <= now'
      /\ x.pc # "out" => x.low <= at'[timehands']
      /\ x.pc \in Loaded \cup {"gen"} => x.low <= at'[x.th]
      /\ x.pc \in Loaded => x.gen <= GenOf(hands'[x.th], tick')
  <2>1. /\ x.start <= now
        /\ x.pc # "out" => x.low <= at[timehands]
        /\ x.pc \in Loaded \cup {"gen"} => x.low <= at[x.th]
        /\ x.pc \in Loaded => x.gen <= GenOf(hands[x.th], tick)
    BY <1>0 DEF ReaderOK, Gen
  <2> HIDE DEF x
  <2> QED BY <1>3, <1>4, <1>5, <2>1
<1>7. ASSUME x.pc \in Loaded, x.gen # TC_GEN_UPDATE, hands'[x.th].gen = x.gen
      PROVE  ValidOK(x)'
  <2>1. x.gen <= Gen(x.th)
    BY <1>0, <1>7 DEF ReaderOK
  <2>2. hands'[x.th] = hands[x.th] /\ at'[x.th] = at[x.th]
    BY <1>1, <1>3, <1>7, <2>1 DEF Grows
  <2>3. ValidOK(x)
    BY <1>0, <1>7, <2>2 DEF ReaderOK, Valid
  <2>4. \A c \in x.start..now : c \in x.start..now'
    <3> HIDE DEF x
    <3> QED BY <1>3, <1>4, <1>5, Within, Zenon
  <2> QED BY <1>2, <2>2, <2>3, <2>4 DEF ValidOK, Tells
<1>8. /\ x.pc = "sec" => x.call \in {"tsuptime", "realtime"}
      /\ x.pc \in {"delta", "count", "last"} => x.call \in {"nanouptime", "tsuptime"}
  BY <1>0 DEF ReaderOK
<1> QED BY <1>2, <1>6, <1>7, <1>8 DEF ReaderOK, Valid, Gen
------------------------------------------------------------------------------
\* A reader that is not past its generation relies on little.
LEMMA ReaderFresh ==
    ASSUME NEW x, x.pc \in {"out", "th", "gen"}, x.start <= now,
           x.pc # "out" => x.low <= at[timehands],
           x.pc = "gen" => x.low <= at[x.th]
    PROVE  ReaderOK(x)
BY DEF ReaderOK, Valid, Loaded

\* Each step of a reader leaves it with what it may rely on.
LEMMA ReadBegins ==
    ASSUME IInv, NEW r \in Readers,
           \/ \E call \in Calls : Call(r, call)
           \/ LoadHands(r) \/ LoadGen(r) \/ Retry(r) \/ Again(r) \/ Return(r)
    PROVE  \E new : Set(r, new) /\ ReaderOK(new)
<1> DEFINE x == reader[r]
<1>0. /\ TimeTypeOK /\ HandsInv /\ TickInv /\ ReaderOK(x)
  BY DEF IInv
<1>1. /\ x \in Reader /\ x.th \in 0..1 /\ now \in Nat /\ timehands \in 0..1
      /\ tick.gen \in Nat
      /\ \A h \in 0..1 : at[h] \in Nat /\ hands[h].gen \in Nat
  BY <1>0, ReaderFacts, TickFacts
<1>2. /\ x.start <= now
      /\ x.pc # "out" => x.low <= at[timehands]
  BY <1>0 DEF ReaderOK
<1>3. ASSUME NEW call \in Calls, Call(r, call)
      PROVE  \E new : Set(r, new) /\ ReaderOK(new)
  <2>1. PICK new : new = [NotReading EXCEPT !.call = call, !.pc = "th", !.start = now,
                                            !.low = at[timehands]]
    OBVIOUS
  <2>2. new.pc = "th" /\ new.start = now /\ new.low = at[timehands]
    BY <2>1 DEF NotReading
  <2>3. new.start <= now /\ new.low <= at[timehands]
        /\ new.pc \in {"out", "th", "gen"} /\ new.pc # "gen"
    BY <1>1, <2>2
  <2>4. ReaderOK(new)
    BY <2>3 DEF ReaderOK, Valid, Loaded
  <2> QED BY <1>3, <2>1, <2>4, Zenon DEF Call
<1>4. CASE LoadHands(r)
  <2>1. PICK new : new = [x EXCEPT !.pc = "gen", !.th = timehands]
    OBVIOUS
  <2>2. new.pc = "gen" /\ new.start = x.start /\ new.low = x.low /\ new.th = timehands
    BY <1>1, <2>1 DEF Reader
  <2>3. x.pc = "th"
    BY <1>4 DEF LoadHands
  <2>4. ReaderOK(new)
    BY <1>2, <2>2, <2>3, ReaderFresh
  <2> QED BY <1>4, <2>1, <2>4 DEF LoadHands
<1>5. CASE LoadGen(r)
  <2>1. PICK new : new = [x EXCEPT !.pc = "time", !.gen = hands[x.th].gen]
    OBVIOUS
  <2>2. /\ new.pc = "time" /\ new.start = x.start /\ new.low = x.low /\ new.th = x.th
        /\ new.gen = hands[x.th].gen
    BY <1>1, <2>1 DEF Reader
  <2>3. x.pc = "gen"
    BY <1>5 DEF LoadGen
  <2>4. x.low <= at[x.th]
    BY <1>0, <2>3 DEF ReaderOK
  <2>5. new.gen <= Gen(new.th)
    BY <1>1, <2>2 DEF Gen, GenOf, TC_GEN_UPDATE
  <2>6. ValidOK(new)
    BY <2>2 DEF ValidOK
  <2>7. ReaderOK(new)
    BY <1>2, <2>2, <2>3, <2>4, <2>5, <2>6 DEF ReaderOK
  <2> QED BY <1>5, <2>1, <2>7 DEF LoadGen
<1>6. CASE Retry(r)
  <2>1. PICK new : new = [x EXCEPT !.pc = "th", !.gen = 0, !.nano = 0, !.ts = Zero]
    OBVIOUS
  <2>2. new.pc = "th" /\ new.start = x.start /\ new.low = x.low
    BY <1>1, <2>1 DEF Reader
  <2>3. x.pc = "retry"
    BY <1>6 DEF Retry
  <2>4. new.start <= now /\ new.low <= at[timehands]
        /\ new.pc \in {"out", "th", "gen"} /\ new.pc # "gen"
    BY <1>2, <2>2, <2>3
  <2>5. ReaderOK(new)
    BY <2>4 DEF ReaderOK, Valid, Loaded
  <2> QED BY <1>6, <2>1, <2>5 DEF Retry
<1>7. CASE Again(r)
  <2>1. PICK f : f = ts_add(nsec_to_ts(BootTime), x.ts)
    OBVIOUS
  <2>2. PICK new : new = [x EXCEPT !.pc = "th", !.pass = 2, !.ts = Zero, !.first = f]
    OBVIOUS
  <2>3. new.pc = "th" /\ new.start = x.start /\ new.low = x.low
    BY <1>1, <2>2 DEF Reader
  <2>4. x.pc = "retry" /\ Set(r, new)
    BY <1>7, <2>1, <2>2 DEF Again
  <2>5. ReaderOK(new)
    BY <1>2, <2>3, <2>4, ReaderFresh
  <2> QED BY <2>4, <2>5
<1>8. CASE Return(r)
  <2>1. PICK new : new = NotReading
    OBVIOUS
  <2>2. new.pc = "out" /\ new.start = 0
    BY <2>1 DEF NotReading
  <2>3. ReaderOK(new)
    BY <1>1, <2>2, ReaderFresh
  <2> QED BY <1>8, <2>1, <2>3 DEF Return
<1> QED BY <1>3, <1>4, <1>5, <1>6, <1>7, <1>8

\* A reader that goes on with the generation it has.
LEMMA ReaderOn ==
    ASSUME NEW x, NEW new, ReaderOK(x), x.pc \in Loaded, new.pc \in Loaded,
           new.start = x.start, new.low = x.low, new.th = x.th, new.gen = x.gen,
           new.pc = "sec" => new.call \in {"tsuptime", "realtime"},
           new.pc \in {"delta", "count", "last"} => new.call \in {"nanouptime", "tsuptime"},
           Valid(x) => ValidOK(new)
    PROVE  ReaderOK(new)
<1>1. /\ x.start <= now
      /\ x.low <= at[timehands]
      /\ x.low <= at[x.th]
      /\ x.gen <= Gen(x.th)
  BY DEF ReaderOK, Loaded
<1>2. Valid(new) => ValidOK(new)
  BY DEF Valid
<1>3. new.gen <= Gen(new.th)
  BY <1>1 DEF Gen
<1> QED BY <1>1, <1>2, <1>3 DEF ReaderOK

LEMMA ReadLoads ==
    ASSUME IInv, NEW r \in Readers,
           LoadTime(r) \/ LoadNsec(r) \/ ReadCount(r) \/ ReadLast(r)
    PROVE  \E new : Set(r, new) /\ ReaderOK(new)
<1> DEFINE x == reader[r]
           h == hands[x.th]
<1>0. /\ TimeTypeOK /\ HandsInv /\ TickInv /\ ReaderOK(x)
  BY DEF IInv
<1>1. /\ x \in Reader /\ x.th \in 0..1 /\ now \in Nat /\ x.low \in Nat /\ x.start \in Nat
      /\ h.nanotime \in Nat /\ h.tstime \in Timespec /\ x.ts \in Timespec
      /\ x.call \in Calls
  BY <1>0, ReaderFacts, TickFacts
<1>2. x.start <= now /\ at[x.th] <= now
  BY <1>0, <1>1 DEF ReaderOK, GapInv, IInv
<1>3. CASE LoadTime(r)
  <2>1. x.pc = "time" /\ x.pc \in Loaded
    BY <1>3 DEF LoadTime, Loaded
  <2>2. CASE x.call = "nanouptime"
    <3>1. PICK new : new = [x EXCEPT !.pc = "delta", !.nano = h.nanotime]
      OBVIOUS
    <3>2. /\ new.pc = "delta" /\ new.start = x.start /\ new.low = x.low /\ new.th = x.th
          /\ new.gen = x.gen /\ new.call = x.call /\ new.nano = h.nanotime
      BY <1>1, <3>1 DEF Reader
    <3>3. ValidOK(new)
      BY <2>2, <3>2 DEF ValidOK
    <3>4. ReaderOK(new)
      BY <1>0, <2>1, <2>2, <3>2, <3>3, ReaderOn DEF Loaded
    <3> QED BY <1>3, <2>2, <3>1, <3>4 DEF LoadTime
  <2>3. CASE x.call = "getnanouptime"
    <3>1. PICK new : new = [x EXCEPT !.pc = "retry", !.nano = h.nanotime]
      OBVIOUS
    <3>2. /\ new.pc = "retry" /\ new.start = x.start /\ new.low = x.low /\ new.th = x.th
          /\ new.gen = x.gen /\ new.call = x.call /\ new.nano = h.nanotime
      BY <1>1, <3>1 DEF Reader
    <3>3. ValidOK(new)
      BY <2>3, <3>2 DEF ValidOK
    <3>4. ReaderOK(new)
      BY <1>0, <2>1, <2>3, <3>2, <3>3, ReaderOn DEF Loaded
    <3> QED BY <1>3, <2>3, <3>1, <3>4 DEF LoadTime
  <2>4. CASE x.call \in {"tsuptime", "realtime"}
    <3>1. PICK new : new = [x EXCEPT !.pc = "sec", !.ts = [sec |-> h.tstime.sec, nsec |-> 0]]
      OBVIOUS
    <3>2. /\ new.pc = "sec" /\ new.start = x.start /\ new.low = x.low /\ new.th = x.th
          /\ new.gen = x.gen /\ new.call = x.call /\ new.ts.sec = h.tstime.sec
      BY <1>1, <3>1 DEF Reader
    <3>3. ValidOK(new)
      BY <3>2 DEF ValidOK
    <3>4. ReaderOK(new)
      BY <1>0, <2>1, <2>4, <3>2, <3>3, ReaderOn DEF Loaded
    <3>5. Set(r, new)
      BY <1>3, <2>4, <3>1 DEF LoadTime
    <3> QED BY <3>4, <3>5
  <2> QED BY <1>1, <2>2, <2>3, <2>4 DEF Calls
<1>4. CASE LoadNsec(r)
  <2>1. x.pc = "sec" /\ x.pc \in Loaded /\ x.call \in {"tsuptime", "realtime"}
    BY <1>0, <1>4 DEF LoadNsec, Loaded, ReaderOK
  <2>2. PICK t : t = [x.ts EXCEPT !.nsec = h.tstime.nsec]
    BY Zenon
  <2>3. PICK p : p = IF x.call = "tsuptime" THEN "delta" ELSE "retry"
    OBVIOUS
  <2>4. PICK new : new = [x EXCEPT !.pc = p, !.ts = t]
    OBVIOUS
  <2>5. /\ new.pc = p /\ new.start = x.start /\ new.low = x.low /\ new.th = x.th
        /\ new.gen = x.gen /\ new.call = x.call /\ new.ts = t
    BY <1>1, <2>4 DEF Reader
  <2>6. Set(r, new)
    BY <1>1, <1>4, <2>2, <2>3, <2>4 DEF LoadNsec, Reader
  <2>7. ASSUME Valid(x) PROVE ValidOK(new)
    <3>1. x.ts.sec = h.tstime.sec
      BY <1>0, <2>1, <2>7 DEF ReaderOK, ValidOK
    <3>2. t = h.tstime
      BY <1>1, <2>2, <3>1 DEF Timespec
    <3> QED BY <2>1, <2>3, <2>5, <3>2 DEF ValidOK
  <2>8. ReaderOK(new)
    BY <1>0, <2>1, <2>3, <2>5, <2>7, ReaderOn DEF Loaded
  <2> QED BY <2>6, <2>8
<1>5. CASE ReadCount(r)
  <2>1. x.pc = "delta" /\ x.pc \in Loaded /\ x.call \in {"nanouptime", "tsuptime"}
    BY <1>0, <1>5 DEF ReadCount, Loaded, ReaderOK
  <2>2. PICK new : new = [x EXCEPT !.pc = "count", !.cnt = tc_read]
    OBVIOUS
  <2>3. /\ new.pc = "count" /\ new.start = x.start /\ new.low = x.low /\ new.th = x.th
        /\ new.gen = x.gen /\ new.call = x.call /\ new.nano = x.nano /\ new.ts = x.ts
        /\ new.cnt = tc_read
    BY <1>1, <2>2 DEF Reader
  <2>4. ASSUME Valid(x) PROVE ValidOK(new)
    <3>1. /\ x.call = "nanouptime" => x.nano = h.nanotime
          /\ x.call = "tsuptime" => x.ts = h.tstime
      BY <1>0, <2>1, <2>4 DEF ReaderOK, ValidOK
    <3>2. now \in new.start..now /\ at[x.th] <= now /\ new.cnt = now % (Mask + 1)
      BY <1>1, <1>2, <2>3 DEF tc_read
    <3> QED BY <2>3, <3>1, <3>2 DEF ValidOK
  <2>5. ReaderOK(new)
    BY <1>0, <2>1, <2>3, <2>4, ReaderOn DEF Loaded
  <2> QED BY <1>5, <2>2, <2>5 DEF ReadCount
<1>6. CASE ReadLast(r)
  <2>1. x.pc = "delta" /\ x.pc \in Loaded /\ x.call \in {"nanouptime", "tsuptime"}
    BY <1>0, <1>6 DEF ReadLast, Loaded, ReaderOK
  <2>2. PICK new : new = [x EXCEPT !.pc = "last", !.cnt = h.last_count]
    OBVIOUS
  <2>3. /\ new.pc = "last" /\ new.start = x.start /\ new.low = x.low /\ new.th = x.th
        /\ new.gen = x.gen /\ new.call = x.call /\ new.nano = x.nano /\ new.ts = x.ts
        /\ new.cnt = h.last_count
    BY <1>1, <2>2 DEF Reader
  <2>4. ASSUME Valid(x) PROVE ValidOK(new)
    <3>1. /\ x.call = "nanouptime" => x.nano = h.nanotime
          /\ x.call = "tsuptime" => x.ts = h.tstime
      BY <1>0, <2>1, <2>4 DEF ReaderOK, ValidOK
    <3> QED BY <2>3, <3>1 DEF ValidOK
  <2>5. ReaderOK(new)
    BY <1>0, <2>1, <2>3, <2>4, ReaderOn DEF Loaded
  <2> QED BY <1>6, <2>2, <2>5 DEF ReadLast
<1> QED BY <1>3, <1>4, <1>5, <1>6

\* The sum of a valid reader tells the time at which it took its count.
LEMMA ReadAdds ==
    ASSUME IInv, NEW r \in Readers, AddDelta(r)
    PROVE  \E new : Set(r, new) /\ ReaderOK(new)
<1> DEFINE x == reader[r]
           h == hands[x.th]
<1>0. /\ TimeTypeOK /\ GapInv /\ HandsInv /\ TickInv /\ ReaderOK(x)
  BY DEF IInv
<1>1. /\ x \in Reader /\ x.th \in 0..1 /\ now \in Nat /\ x.low \in Nat /\ x.start \in Nat
      /\ h.nanotime \in Nat /\ h.tstime \in Timespec /\ x.ts \in Timespec
      /\ x.gen \in Nat /\ at[x.th] \in Nat
      /\ x.nano \in Nat /\ x.cnt \in 0..Mask /\ h.last_count \in 0..Mask
  <2>1. h.last_count \in 0..Mask
    BY <1>0, ReaderFacts, TickFacts DEF Hand
  <2> QED BY <1>0, <2>1, ReaderFacts, TickFacts
<1>2. /\ x.pc \in {"count", "last"} /\ x.pc \in Loaded
      /\ x.call \in {"nanouptime", "tsuptime"}
  BY <1>0 DEF AddDelta, Loaded, ReaderOK
<1>3. PICK d : d = IF x.pc = "count" THEN Nanosecs(Delta(x.cnt, h.last_count))
                    ELSE Nanosecs(Delta(tc_read, x.cnt))
  OBVIOUS
<1>4. d \in Nat
  <2>1. tc_read \in 0..Mask
    BY <1>1, CountType DEF tc_read
  <2>2. Nanosecs(Delta(x.cnt, h.last_count)) \in Nat /\ Nanosecs(Delta(tc_read, x.cnt)) \in Nat
    BY <1>1, <2>1, DeltaType
  <2> QED BY <1>3, <2>2
<1>5. ASSUME Valid(x) PROVE \E c \in x.start..now : Tells(h.nanotime + d, c, x.gen)
  <2>1. /\ h.last_count = at[x.th] % (Mask + 1)
        /\ at[x.th] <= now /\ now - at[x.th] <= Mask
        /\ Tells(h.nanotime, at[x.th], x.gen - 1)
    BY <1>0, <1>1, <1>5, Settled, Recent DEF Valid
  <2>2. x.start <= now /\ ValidOK(x) /\ Mask \in Nat
    BY <1>0, <1>5, TimekeepAssumption DEF ReaderOK
  <2>3. PICK c \in x.start..now : /\ at[x.th] <= c /\ c \in Nat
                                  /\ d = Nanosecs(c - at[x.th])
    <3>1. CASE x.pc = "count"
      <4>1. PICK c \in x.start..now : at[x.th] <= c /\ x.cnt = c % (Mask + 1)
        BY <2>2, <3>1 DEF ValidOK
      <4>2. c \in Nat /\ c - at[x.th] <= Mask
        <5>1. PICK a \in Nat, b \in Nat, m \in Nat : b = x.start /\ a = at[x.th] /\ m = Mask
          BY <1>1, <2>2, Zenon
        <5>2. now - a <= m /\ c \in b..now
          BY <2>1, <4>1, <5>1, Zenon
        <5>3. c \in Nat /\ c - a <= m
          BY <1>1, <5>2
        <5> QED BY <5>1, <5>3
      <4>3. Delta(c % (Mask + 1), at[x.th] % (Mask + 1)) = c - at[x.th]
        BY <1>1, <4>1, <4>2, DeltaExact
      <4>4. d = Nanosecs(c - at[x.th])
        BY <1>3, <2>1, <3>1, <4>1, <4>3
      <4> QED BY <4>1, <4>2, <4>4
    <3>2. CASE x.pc = "last"
      <4>1. x.cnt = h.last_count
        BY <2>2, <3>2 DEF ValidOK
      <4>2. Delta(now % (Mask + 1), at[x.th] % (Mask + 1)) = now - at[x.th]
        BY <1>1, <2>1, DeltaExact
      <4>3. d = Nanosecs(now - at[x.th])
        BY <1>3, <2>1, <3>2, <4>1, <4>2 DEF tc_read
      <4>4. now \in x.start..now
        <5>1. now <= now
          BY <1>1
        <5> QED BY <1>1, <2>2, <5>1, Within, Zenon
      <4> QED BY <1>1, <2>1, <4>3, <4>4
    <3> QED BY <1>2, <3>1, <3>2
  <2>4. x.gen - 1 \in Nat /\ x.gen - 1 + 1 = x.gen
    BY <1>1, <1>5 DEF Valid, TC_GEN_UPDATE
  <2>5. Tells(h.nanotime + Nanosecs(c - at[x.th]), c, x.gen - 1 + 1)
    BY <1>1, <2>1, <2>3, <2>4, TellsOn
  <2> QED BY <2>3, <2>4, <2>5
<1>6. CASE x.call = "nanouptime"
  <2>1. PICK n \in Nat : n = x.nano + d
    BY <1>1, <1>4
  <2>2. PICK new : new = [x EXCEPT !.pc = "retry", !.cnt = 0, !.nano = n]
    OBVIOUS
  <2>3. /\ new.pc = "retry" /\ new.start = x.start /\ new.low = x.low /\ new.th = x.th
        /\ new.gen = x.gen /\ new.call = x.call /\ new.nano = n
    BY <1>1, <2>2 DEF Reader
  <2>4. Set(r, new)
    BY <1>1, <1>3, <1>6, <2>1, <2>2 DEF AddDelta, Reader
  <2>5. ASSUME Valid(x) PROVE ValidOK(new)
    <3>1. x.nano = h.nanotime
      BY <1>0, <1>2, <1>6, <2>5 DEF ReaderOK, ValidOK
    <3>2. \E c \in x.start..now : Tells(n, c, x.gen)
      BY <1>5, <2>1, <2>5, <3>1
    <3> QED BY <1>6, <2>3, <3>2 DEF ValidOK
  <2>6. ReaderOK(new)
    BY <1>0, <1>2, <1>6, <2>3, <2>5, ReaderOn DEF Loaded
  <2> QED BY <2>4, <2>6
<1>7. CASE x.call = "tsuptime"
  <2>1. PICK t : t = timekeep_ts_add(x.ts, d)
    OBVIOUS
  <2>2. PICK new : new = [x EXCEPT !.pc = "retry", !.cnt = 0, !.ts = t]
    OBVIOUS
  <2>3. /\ new.pc = "retry" /\ new.start = x.start /\ new.low = x.low /\ new.th = x.th
        /\ new.gen = x.gen /\ new.call = x.call /\ new.ts = t
    BY <1>1, <2>2 DEF Reader
  <2>4. Set(r, new)
    BY <1>1, <1>3, <1>7, <2>1, <2>2 DEF AddDelta, Reader
  <2>5. ASSUME Valid(x) PROVE ValidOK(new)
    <3>1. x.ts = h.tstime
      BY <1>0, <1>2, <1>7, <2>5 DEF ReaderOK, ValidOK
    <3>2. ts_to_nsec(h.tstime) = h.nanotime
      BY <1>0, <1>1, <2>5, Settled DEF Valid
    <3>3. ts_to_nsec(t) = ts_to_nsec(x.ts) + d
      BY <1>1, <1>4, <2>1, TsAdd
    <3>4. \E c \in x.start..now : Tells(ts_to_nsec(t), c, x.gen)
      BY <1>5, <2>5, <3>1, <3>2, <3>3
    <3> QED BY <1>7, <2>3, <3>4 DEF ValidOK
  <2>6. ReaderOK(new)
    BY <1>0, <1>2, <1>7, <2>3, <2>5, ReaderOn DEF Loaded
  <2> QED BY <2>4, <2>6
<1> QED BY <1>2, <1>6, <1>7
------------------------------------------------------------------------------
LEMMA InitInv == TimeInit => IInv
<1> SUFFICES ASSUME TimeInit PROVE IInv
  OBVIOUS
<1>0. /\ MaxTime \in Nat /\ Mask \in Nat /\ TickGap \in Nat /\ SEC \in Nat
      /\ 0 \in Uptime /\ 0 \in 0..Mask /\ Zero \in Timespec
  BY TimekeepAssumption, TsTypes DEF Uptime
<1>1. NotReading \in Reader
  BY <1>0 DEF NotReading, Reader, Calls
<1>2. TimeTypeOK
  <2>1. [gen |-> TC_GEN_INIT, last_count |-> 0, nanotime |-> 0, tstime |-> Zero]
           \in [gen : Nat, last_count : 0..Mask, nanotime : Nat, tstime : Timespec]
    BY <1>0 DEF TC_GEN_INIT
  <2> QED BY <1>0, <1>1, <2>1 DEF TimeInit, TimeTypeOK
<1>3. ASSUME NEW h \in 0..1
      PROVE  /\ hands[h].gen # TC_GEN_UPDATE /\ at[h] = 0
             /\ hands[h].last_count = at[h] % (Mask + 1)
             /\ hands[h].tstime.nsec < SEC
             /\ ts_to_nsec(hands[h].tstime) = hands[h].nanotime
             /\ Tells(hands[h].nanotime, at[h], hands[h].gen - 1)
  <2>1. 0 % (Mask + 1) = 0 /\ 0 < SEC
    BY <1>0, TimekeepAssumption
  <2>2. ts_to_nsec(Zero) = 0 /\ Zero.nsec = 0
    BY <1>0 DEF ts_to_nsec, Zero
  <2>3. Nanosecs(0) - 0 \in 0..1 - 1
    <3>1. 0 * SEC = 0 /\ 0 \div Freq = 0
      BY <1>0, TimekeepAssumption
    <3> QED BY <3>1 DEF Nanosecs
  <2>4. /\ hands[h].gen = 1 /\ hands[h].last_count = 0 /\ hands[h].nanotime = 0
        /\ hands[h].tstime = Zero /\ at[h] = 0
    BY DEF TimeInit, TC_GEN_INIT
  <2>5. Tells(0, 0, 1 - 1)
    BY <2>3 DEF Tells
  <2> QED BY <2>1, <2>2, <2>4, <2>5 DEF TC_GEN_UPDATE
<1>4. now = 0 /\ tick.pc = "out" /\ timehands = 0 /\ Older = 1
  BY DEF TimeInit, Older
<1>5. HandsInv /\ GapInv
  <2>1. HandsInv
    BY <1>3, <1>4 DEF HandsInv
  <2>2. at[timehands] = 0 /\ at[Older] = 0 /\ \A h \in 0..1 : at[h] = 0
    BY <1>3, <1>4
  <2> QED BY <1>0, <1>4, <2>1, <2>2 DEF GapInv, Before
<1>6. TickInv
  <2>1. Older \in 0..1 /\ tick.pc \in Settling
    BY <1>4 DEF Settling
  <2> QED BY <1>3, <1>4, <2>1 DEF TickInv
<1>7. ASSUME NEW r \in Readers PROVE ReaderOK(reader[r])
  <2>1. reader[r].pc = "out" /\ reader[r].start = 0
    BY DEF TimeInit, NotReading
  <2> QED BY <1>4, <2>1, ReaderFresh
<1> QED BY <1>2, <1>5, <1>6, <1>7 DEF IInv

LEMMA NextInv == IInv /\ [Next]_vars => IInv'
<1> SUFFICES ASSUME IInv, [Next]_vars PROVE IInv'
  OBVIOUS
<1>1. CASE Tick \/ Pass
  <2>1. TimeTypeOK' /\ GapInv' /\ HandsInv' /\ TickInv'
    BY <1>1, TickTypes, TickKeepsGap, TickKeepsHands DEF IInv
  <2>2. \A r \in Readers : ReaderOK(reader[r])'
    BY <1>1, TickKeepsReaders
  <2> QED BY <2>1, <2>2 DEF IInv
<1>2. ASSUME NEW r \in Readers, Read(r) \/ \E call \in Calls : Call(r, call)
      PROVE  IInv'
  <2>1. TimeTypeOK'
    BY <1>2, ReadTypes DEF IInv
  <2>2. PICK new : Set(r, new) /\ ReaderOK(new)
    BY <1>2, ReadBegins, ReadLoads, ReadAdds DEF Read
  <2>3. /\ UNCHANGED <<now, hands, timehands, tick, at>>
        /\ reader' = [reader EXCEPT ![r] = new]
    BY <2>2 DEF Set
  <2>4. GapInv' /\ HandsInv' /\ TickInv'
    BY <2>3 DEF IInv, GapInv, HandsInv, TickInv, Older, Tells
  <2>5. ASSUME NEW q \in Readers PROVE ReaderOK(reader[q])'
    <3>1. DOMAIN reader = Readers
      BY DEF IInv, TimeTypeOK
    <3>2. reader'[q] = IF q = r THEN new ELSE reader[q]
      BY <2>3, <3>1
    <3>3. ReaderOK(reader'[q])
      BY <2>2, <3>2 DEF IInv
    <3> QED BY <2>3, <3>3 DEF ReaderOK, Valid, ValidOK, Gen, Tells
  <2> QED BY <2>1, <2>4, <2>5 DEF IInv
<1>3. CASE UNCHANGED vars
  <2>1. UNCHANGED <<now, hands, timehands, tick, at, reader>>
    BY <1>3 DEF vars
  <2>2. TimeTypeOK'
    BY <2>1 DEF IInv, TimeTypeOK
  <2>3. GapInv' /\ HandsInv' /\ TickInv'
    BY <2>1 DEF IInv, GapInv, HandsInv, TickInv, Older, Tells
  <2>4. ASSUME NEW q \in Readers PROVE ReaderOK(reader[q])'
    <3>1. ReaderOK(reader[q])
      BY DEF IInv
    <3> QED BY <2>1, <3>1 DEF ReaderOK, Valid, ValidOK, Gen, Tells
  <2> QED BY <2>2, <2>3, <2>4 DEF IInv
<1> QED BY <1>1, <1>2, <1>3 DEF Next

\* The hands, the tick under way and what every reader holds stay consistent,
\* whatever the number of readers and wherever the counter wraps.
THEOREM TimeInvariant == Spec => []IInv
BY InitInv, NextInv, PTL DEF Spec

\* Every variable keeps its type: a count stays within the mask, and what is
\* added to a clock is never negative.
THEOREM TimeTypes == Spec => []TimeTypeOK
<1>1. IInv => TimeTypeOK
  BY DEF IInv
<1> QED BY <1>1, TimeInvariant, PTL

\* What nanouptime and tsuptime return is a time within the call, but for the
\* nanosecond that each update and the call may round away: the generation test
\* of timekeep_retry throws away every answer that the tick has disturbed, and
\* the mask makes up for a counter that wrapped.
THEOREM UptimeWithinCall == Spec => []ReadsUptime
<1>1. IInv => ReadsUptime
  <2> SUFFICES ASSUME IInv, NEW r \in Readers, Returning(r)
               PROVE  /\ reader[r].call = "nanouptime" =>
                           \E c \in reader[r].start..now :
                               Tells(reader[r].nano, c, reader[r].gen)
                      /\ reader[r].call = "tsuptime" =>
                           \E c \in reader[r].start..now :
                               Tells(ts_to_nsec(reader[r].ts), c, reader[r].gen)
    BY DEF ReadsUptime
  <2>1. reader[r].pc = "retry" /\ Valid(reader[r])
    BY DEF Returning, timekeep_retry, Valid, Loaded
  <2>2. ValidOK(reader[r])
    BY <2>1 DEF IInv, ReaderOK
  <2> QED BY <2>1, <2>2 DEF ValidOK
<1> QED BY <1>1, TimeInvariant, PTL

\* What getnanouptime returns tells the time of a tick that is no older than the
\* last one that was over when it was called.
THEOREM CoarseNotOlder == Spec => []CoarseRecent
<1>1. IInv => CoarseRecent
  <2> SUFFICES ASSUME IInv, NEW r \in Readers, Returning(r),
                      reader[r].call = "getnanouptime"
               PROVE  \E c \in reader[r].low..now :
                          Tells(reader[r].nano, c, reader[r].gen - TC_GEN_INIT)
    BY DEF CoarseRecent
  <2> DEFINE x == reader[r]
  <2>1. x.pc = "retry" /\ x.pc \in Loaded /\ Valid(x)
    BY DEF Returning, timekeep_retry, Valid, Loaded
  <2>2. x.nano = hands[x.th].nanotime /\ x.low <= at[x.th]
    BY <2>1 DEF IInv, ReaderOK, ValidOK
  <2>3. x.th \in 0..1 /\ x.low \in Nat /\ at[x.th] \in Nat /\ now \in Nat
    BY ReaderFacts, TickFacts DEF IInv
  <2>4. Tells(x.nano, at[x.th], x.gen - 1) /\ at[x.th] <= now
    BY <2>1, <2>2, <2>3, Settled DEF IInv, Valid, GapInv
  <2>5. at[x.th] \in x.low..now
    <3> HIDE DEF x
    <3> QED BY <2>2, <2>3, <2>4, Within, Zenon
  <2> QED BY <2>4, <2>5 DEF TC_GEN_INIT
<1> QED BY <1>1, TimeInvariant, PTL

\* The two clocks of a timehands that is not being written tell the same time,
\* and timekeep_ts_add has carried as often as it has to.
THEOREM HandsTellOneTime == Spec => []HandsAgree
<1>1. IInv => HandsAgree
  BY Settled DEF IInv, HandsAgree
<1> QED BY <1>1, TimeInvariant, PTL
==============================================================================
