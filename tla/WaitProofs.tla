----------------------------- MODULE WaitProofs ------------------------------
(* Proofs about wait queues for any number of threads, queues and cpus: the     *)
(* list operations of Lists, the inductive invariant and what every step keeps  *)
(* of it for a single thread, the lists of waiters, the invariant, and that     *)
(* wait queues on top of the scheduler implement the ones of WaitQueue.         *)
EXTENDS Wait, SequenceTheorems, TLAPS

(****************************************************************************)
(* What the list operations do to the set of nodes on a list without          *)
(* duplicates, for lists over any set.                                        *)
(****************************************************************************)
\* list_append puts a new node on the list and keeps every node once.
LEMMA AppendNode ==
    ASSUME NEW S, NEW s \in Seq(S), IsInjective(s), NEW t \in S, t \notin Range(s)
    PROVE  /\ list_append(s, t) \in Seq(S)
           /\ IsInjective(list_append(s, t))
           /\ Range(list_append(s, t)) = Range(s) \cup {t}
<1> DEFINE r == list_append(s, t)
<1>1. /\ r \in Seq(S)
      /\ Len(r) = Len(s) + 1
      /\ \A i \in 1..Len(s) : r[i] = s[i]
      /\ r[Len(s) + 1] = t
  BY AppendProperties DEF list_append
<1>2. Len(s) \in Nat /\ DOMAIN s = 1..Len(s) /\ DOMAIN r = 1..(Len(s) + 1)
  BY <1>1, LenProperties
<1> HIDE DEF r
<1>3. \A i \in 1..Len(s) : s[i] # t
  BY <1>2 DEF Range
<1>4. IsInjective(r)
  BY <1>1, <1>2, <1>3 DEF IsInjective
<1>5. Range(r) = Range(s) \cup {t}
  <2>1. ASSUME NEW x PROVE x \in Range(r) <=> x \in Range(s) \cup {t}
    BY <1>1, <1>2 DEF Range
  <2>2. QED BY <2>1
<1>6. QED BY <1>1, <1>4, <1>5 DEF r

\* list_remove takes exactly its node off the list (list.h:169).
LEMMA RemoveNode ==
    ASSUME NEW S, NEW s \in Seq(S), IsInjective(s), NEW t \in Range(s)
    PROVE  /\ list_remove(s, t) \in Seq(S)
           /\ IsInjective(list_remove(s, t))
           /\ Range(list_remove(s, t)) = Range(s) \ {t}
<1> DEFINE k == CHOOSE i \in DOMAIN s : s[i] = t
           r == list_remove(s, t)
<1>1. Len(s) \in Nat /\ DOMAIN s = 1..Len(s)
  BY LenProperties
<1>2. k \in 1..Len(s) /\ s[k] = t
  BY <1>1 DEF Range
<1>3. r = SubSeq(s, 1, k - 1) \o SubSeq(s, k + 1, Len(s))
  BY DEF list_remove
<1> HIDE DEF k, r
<1> DEFINE x == SubSeq(s, 1, k - 1)
           y == SubSeq(s, k + 1, Len(s))
<1>4. /\ x \in Seq(S) /\ Len(x) = k - 1
      /\ \A i \in 1..(k - 1) : x[i] = s[i]
  <2>1. \A i \in 1..(k - 1) : s[i] \in S
    BY <1>1, <1>2, ElementOfSeq
  <2>2. k - 1 \in Int /\ 1 \in Int
    BY <1>1, <1>2
  <2>3. /\ x \in Seq(S)
        /\ Len(x) = IF 1 <= k - 1 THEN (k - 1) - 1 + 1 ELSE 0
        /\ \A i \in 1..((k - 1) - 1 + 1) : x[i] = s[1 + i - 1]
    BY <2>1, <2>2, SubSeqProperties
  <2> HIDE DEF x
  <2>4. Len(x) = k - 1
    BY <1>1, <1>2, <2>3
  <2>5. ASSUME NEW i \in 1..(k - 1) PROVE x[i] = s[i]
    <3>1. i \in 1..((k - 1) - 1 + 1) /\ 1 + i - 1 = i
      BY <1>1, <1>2
    <3>2. QED BY <2>3, <3>1
  <2>6. QED BY <2>3, <2>4, <2>5
<1>5. /\ y \in Seq(S) /\ Len(y) = Len(s) - k
      /\ \A i \in 1..(Len(s) - k) : y[i] = s[k + i]
  <2>1. \A i \in (k + 1)..Len(s) : s[i] \in S
    BY <1>1, <1>2, ElementOfSeq
  <2>2. k + 1 \in Int /\ Len(s) \in Int
    BY <1>1, <1>2
  <2>3. /\ y \in Seq(S)
        /\ Len(y) = IF k + 1 <= Len(s) THEN Len(s) - (k + 1) + 1 ELSE 0
        /\ \A i \in 1..(Len(s) - (k + 1) + 1) : y[i] = s[(k + 1) + i - 1]
    BY <2>1, <2>2, SubSeqProperties
  <2> HIDE DEF y
  <2>4. Len(y) = Len(s) - k
    <3>1. CASE k + 1 <= Len(s)
      BY <1>1, <1>2, <2>3, <3>1
    <3>2. CASE k = Len(s)
      <4>1. ~(k + 1 <= Len(s)) /\ Len(s) - k = 0
        BY <1>1, <1>2, <3>2
      <4>2. Len(y) = IF k + 1 <= Len(s) THEN Len(s) - (k + 1) + 1 ELSE 0
        BY ONLY <2>3
      <4>3. Len(y) = 0
        BY ONLY <4>1, <4>2
      <4>4. QED BY <4>1, <4>3
    <3>3. k + 1 <= Len(s) \/ k = Len(s)
      <4> HIDE DEF x
      <4>1. k \in Int /\ Len(s) \in Int /\ k <= Len(s)
        BY <1>1, <1>2
      <4> DEFINE l == Len(s)
      <4>2. l \in Int /\ k <= l
        BY <4>1
      <4> HIDE DEF l
      <4>3. k + 1 <= l \/ k = l
        BY ONLY <4>1, <4>2
      <4>4. QED BY <4>3 DEF l
    <3>4. QED BY ONLY <3>1, <3>2, <3>3
  <2>5. ASSUME NEW i \in 1..(Len(s) - k) PROVE y[i] = s[k + i]
    <3>1. i \in 1..(Len(s) - (k + 1) + 1) /\ (k + 1) + i - 1 = k + i
      BY <1>1, <1>2
    <3>2. QED BY <2>3, <3>1
  <2>6. QED BY <2>3, <2>4, <2>5
<1> HIDE DEF x, y
<1>6. /\ r \in Seq(S)
      /\ Len(r) = Len(s) - 1
      /\ \A i \in 1..(Len(s) - 1) : r[i] = IF i <= Len(x) THEN x[i] ELSE y[i - Len(x)]
  <2>1. r = x \o y
    BY <1>3 DEF x, y
  <2>2. /\ x \o y \in Seq(S)
        /\ Len(x \o y) = Len(x) + Len(y)
        /\ \A i \in 1..(Len(x) + Len(y)) :
                (x \o y)[i] = IF i <= Len(x) THEN x[i] ELSE y[i - Len(x)]
    BY <1>4, <1>5, ConcatProperties, Zenon
  <2>3. Len(x) + Len(y) = Len(s) - 1
    BY <1>1, <1>2, <1>4, <1>5
  <2>4. QED BY <2>1, <2>2, <2>3
<1>7. \A i \in 1..(Len(s) - 1) : r[i] = IF i < k THEN s[i] ELSE s[i + 1]
  <2>1. ASSUME NEW i \in 1..(Len(s) - 1) PROVE r[i] = IF i < k THEN s[i] ELSE s[i + 1]
    <3>1. CASE i < k
      BY <1>1, <1>2, <1>4, <1>6, <3>1
    <3>2. CASE i >= k
      <4>1. r[i] = y[i - (k - 1)] /\ i - (k - 1) \in 1..(Len(s) - k)
        BY <1>1, <1>2, <1>4, <1>6, <3>2
      <4>2. k + (i - (k - 1)) = i + 1
        BY <1>1, <1>2
      <4>3. r[i] = s[i + 1]
        BY <1>5, <4>1, <4>2
      <4>4. QED BY <1>1, <1>2, <3>2, <4>3
    <3>3. QED BY <1>1, <1>2, <3>1, <3>2
  <2>2. QED BY <2>1
<1>8. DOMAIN r = 1..(Len(s) - 1)
  BY <1>6, LenProperties
<1>9. IsInjective(r)
  <2>1. ASSUME NEW i \in 1..(Len(s) - 1), NEW j \in 1..(Len(s) - 1), r[i] = r[j]
        PROVE  i = j
    <3> DEFINE at(m) == IF m < k THEN m ELSE m + 1
    <3>1. at(i) \in DOMAIN s /\ at(j) \in DOMAIN s
      BY <1>1, <1>2
    <3>2. s[at(i)] = s[at(j)]
      BY <1>7, <2>1
    <3>3. at(i) = at(j)
      BY <3>1, <3>2 DEF IsInjective
    <3>4. QED BY <1>1, <1>2, <3>3
  <2>2. QED BY <1>8, <2>1 DEF IsInjective
<1>10. ASSUME NEW z PROVE z \in Range(r) <=> z \in Range(s) \ {t}
  <2>1. ASSUME z \in Range(r) PROVE z \in Range(s) \ {t}
    <3>1. PICK i \in 1..(Len(s) - 1) : r[i] = z
      BY <1>8, <2>1 DEF Range
    <3> DEFINE j == IF i < k THEN i ELSE i + 1
    <3>2. z = s[j] /\ j \in DOMAIN s /\ j # k
      BY <1>1, <1>2, <1>7, <3>1
    <3>3. s[j] # s[k]
      BY <1>1, <1>2, <3>2 DEF IsInjective
    <3>4. QED BY <1>2, <3>2, <3>3 DEF Range
  <2>2. ASSUME z \in Range(s) \ {t} PROVE z \in Range(r)
    <3>1. PICK j \in 1..Len(s) : s[j] = z
      BY <1>1, <2>2 DEF Range
    <3>2. j # k
      BY <1>2, <2>2, <3>1
    <3>3. CASE j < k
      BY <1>1, <1>2, <1>7, <1>8, <3>1, <3>3 DEF Range
    <3>4. CASE j > k
      <4>1. j - 1 \in 1..(Len(s) - 1) /\ r[j - 1] = s[j]
        BY <1>1, <1>2, <1>7, <3>1, <3>4
      <4>2. QED BY <1>8, <3>1, <4>1 DEF Range
    <3>5. QED BY <1>1, <1>2, <3>1, <3>2, <3>3, <3>4
  <2>3. QED BY <2>1, <2>2
<1>11. QED BY <1>6, <1>9, <1>10 DEF r

\* Taking the first n nodes off a list leaves exactly the others on it.
LEMMA DropNodes ==
    ASSUME NEW S, NEW s \in Seq(S), IsInjective(s), NEW n \in 1..Len(s)
    PROVE  LET r == SubSeq(s, n + 1, Len(s)) IN
           /\ r \in Seq(S)
           /\ IsInjective(r)
           /\ Range(r) = Range(s) \ {s[i] : i \in 1..n}
<1> DEFINE r == SubSeq(s, n + 1, Len(s))
<1>1. Len(s) \in Nat /\ DOMAIN s = 1..Len(s)
  BY LenProperties
<1>2. /\ r \in Seq(S) /\ Len(r) = Len(s) - n
      /\ \A i \in 1..(Len(s) - n) : r[i] = s[n + i]
  <2>1. \A i \in (n + 1)..Len(s) : s[i] \in S
    BY <1>1, ElementOfSeq
  <2>2. n + 1 \in Int /\ Len(s) \in Int
    BY <1>1
  <2>3. /\ r \in Seq(S)
        /\ Len(r) = IF n + 1 <= Len(s) THEN Len(s) - (n + 1) + 1 ELSE 0
        /\ \A i \in 1..(Len(s) - (n + 1) + 1) : r[i] = s[(n + 1) + i - 1]
    BY <2>1, <2>2, SubSeqProperties
  <2> HIDE DEF r
  <2>4. Len(r) = Len(s) - n
    BY <1>1, <2>3
  <2>5. ASSUME NEW i \in 1..(Len(s) - n) PROVE r[i] = s[n + i]
    <3>1. i \in 1..(Len(s) - (n + 1) + 1) /\ (n + 1) + i - 1 = n + i
      BY <1>1
    <3>2. QED BY <2>3, <3>1
  <2>6. QED BY <2>3, <2>4, <2>5
<1> HIDE DEF r
<1>3. DOMAIN r = 1..(Len(s) - n)
  BY <1>2, LenProperties
<1>4. IsInjective(r)
  <2>1. ASSUME NEW i \in 1..(Len(s) - n), NEW j \in 1..(Len(s) - n), r[i] = r[j]
        PROVE  i = j
    <3>1. s[n + i] = s[n + j] /\ n + i \in DOMAIN s /\ n + j \in DOMAIN s
      BY <1>1, <1>2, <2>1
    <3>2. n + i = n + j
      BY <3>1 DEF IsInjective
    <3>3. QED BY <1>1, <3>2
  <2>2. QED BY <1>3, <2>1 DEF IsInjective
<1>5. ASSUME NEW z PROVE z \in Range(r) <=> z \in Range(s) \ {s[i] : i \in 1..n}
  <2>1. ASSUME z \in Range(r) PROVE z \in Range(s) \ {s[i] : i \in 1..n}
    <3>1. PICK j \in 1..(Len(s) - n) : r[j] = z
      BY <1>3, <2>1 DEF Range
    <3>2. z = s[n + j] /\ n + j \in DOMAIN s
      BY <1>1, <1>2, <3>1
    <3>3. ASSUME NEW i \in 1..n PROVE s[i] # z
      BY <1>1, <3>2 DEF IsInjective
    <3>4. QED BY <3>2, <3>3 DEF Range
  <2>2. ASSUME z \in Range(s) \ {s[i] : i \in 1..n} PROVE z \in Range(r)
    <3>1. PICK j \in 1..Len(s) : s[j] = z
      BY <1>1, <2>2 DEF Range
    <3>2. j > n
      BY <2>2, <3>1
    <3>3. j - n \in 1..(Len(s) - n) /\ r[j - n] = s[j]
      BY <1>1, <1>2, <3>1, <3>2
    <3>4. QED BY <1>3, <3>1, <3>3 DEF Range
  <2>3. QED BY <2>1, <2>2
<1>6. QED BY <1>2, <1>4, <1>5 DEF r

(****************************************************************************)
(* The inductive invariant.                                                   *)
(****************************************************************************)

\* The statements at which the thread has decided to sleep.
Committed == {"arm", "schedule", "rem", "unqueue", "check"}

\* The sleep has been announced or has taken effect.
Asleep(t) == "DO_SLEEP" \in sflags[t] \/ tstate[t] = "SLEEP"

\* There is a reason, other than the timeout, for the wait to end.
Ended(t) ==
    \/ "DONE" \in wflags[t][call[t].q]
    \/ call[t].intr /\ "INTERRUPTED" \in sflags[t]

CallInv(t) ==
    /\ call[t].pc # "none" => call[t].q \in prepared[t]
    /\ call[t].tmo => call[t].intr
    /\ call[t].pc \in {"arm", "rem", "unqueue"} => call[t].tmo
    /\ call[t].pc = "abort" => call[t].intr

TimerInv(t) ==
    /\ timer[t] \in {"queued", "done"} =>
            call[t].tmo /\ call[t].pc \in {"schedule", "rem", "unqueue"}
    /\ call[t].tmo /\ call[t].pc \in {"schedule", "rem"} =>
            timer[t] \in {"queued", "done"}

FlagInv(t) ==
    /\ \A q \in Queues : "SLEEP" \in wflags[t][q] =>
            q = call[t].q /\ call[t].pc \in Committed \cup {"abort"}
    /\ call[t].pc \in Committed => "SLEEP" \in wflags[t][call[t].q]

SleepInv(t) ==
    /\ "DO_SLEEP" \in sflags[t] => tstate[t] = "RUNNING" /\ call[t].pc \in {"arm", "schedule"}
    /\ tstate[t] = "SLEEP" => call[t].pc # "arm"
    /\ Asleep(t) => /\ ~Ended(t)
                    /\ call[t].pc \in {"arm", "schedule", "rem", "check"}
                    /\ call[t].pc = "check" => ~call[t].tmo
                    /\ call[t].intr => "INTERRUPTABLE" \in sflags[t]
                    /\ call[t].tmo /\ call[t].pc # "arm" => timer[t] = "queued"
    /\ "INTERRUPTABLE" \in sflags[t] => Asleep(t) /\ call[t].intr

AwakeInv(t) ==
    call[t].pc \in Committed /\ ~Asleep(t) =>
        \/ Ended(t)
        \/ call[t].pc \in {"schedule", "rem"} /\ timer[t] = "done"
        \/ call[t].pc = "unqueue" /\ call[t].late

ThreadInv(t) == CallInv(t) /\ TimerInv(t) /\ FlagInv(t) /\ SleepInv(t) /\ AwakeInv(t)

\* NoStrandedSleeper and SleepEndsByWakeup are not inductive on their own: what
\* makes them true is that a thread with an announced sleep is in the same
\* situation as a sleeping one (SleepInv), that a thread that is awake after it
\* committed itself has a reason to be (AwakeInv), and that WAIT_SLEEP is set
\* only on the queue the thread really sleeps on (FlagInv).
IInv == WaitTypeOK /\ (\A t \in Threads : ThreadInv(t)) /\ WaitersExact
------------------------------------------------------------------------------
\* What do_schedule makes of the thread states (sched.c:512): the thread that
\* gives the cpu up sleeps if and only if its sleep was still announced, and the
\* only other change is that a runnable thread may start to run.
LEMMA DoScheduleEffect ==
    ASSUME SchedTypeOK, NEW t \in Threads, do_schedule(t)
    PROVE  /\ SchedTypeOK'
           /\ tstate[t] = "RUNNING"
           /\ sflags' = [sflags EXCEPT ![t] = @ \ {"DO_SLEEP"}]
           /\ (tstate'[t] = "SLEEP") <=> ("DO_SLEEP" \in sflags[t])
           /\ \A u \in Threads \ {t} :
                (tstate'[u] = tstate[u]) \/ (tstate[u] = "RUNNABLE" /\ tstate'[u] = "RUNNING")
<1> DEFINE next == IF "DO_SLEEP" \in sflags[t] THEN "SLEEP" ELSE "RUNNABLE"
           st == [tstate EXCEPT ![t] = next]
<1>1. st \in [Threads -> TStates]
  BY DEF SchedTypeOK, TStates
<1>2. tstate' \in sched_choose(CpuOf[t], st)
  BY DEF do_schedule
<1>3. sflags' = [sflags EXCEPT ![t] = @ \ {"DO_SLEEP"}] /\ tstate[t] = "RUNNING"
  BY DEF do_schedule
<1> HIDE DEF st
<1>4. \/ tstate' = st
      \/ \E n \in Threads : st[n] = "RUNNABLE" /\ tstate' = [st EXCEPT ![n] = "RUNNING"]
  BY <1>2 DEF sched_choose, Runnable
<1>5. tstate' \in [Threads -> TStates]
  BY <1>1, <1>4 DEF TStates
<1>6. sflags' \in [Threads -> SUBSET SFlags]
  BY <1>3 DEF SchedTypeOK
<1>7. \A u \in Threads : (tstate'[u] = st[u])
                          \/ (st[u] = "RUNNABLE" /\ tstate'[u] = "RUNNING")
  BY <1>1, <1>4
<1>8. QED
  BY <1>3, <1>5, <1>6, <1>7 DEF SchedTypeOK, st

\* The idle thread of a cpu leaves by starting one of its runnable threads, if any.
LEMMA IdleEffect ==
    ASSUME SchedTypeOK, NEW cpu, idle(cpu)
    PROVE  /\ SchedTypeOK'
           /\ sflags' = sflags
           /\ \A u \in Threads :
                (tstate'[u] = tstate[u]) \/ (tstate[u] = "RUNNABLE" /\ tstate'[u] = "RUNNING")
<1>1. sflags' = sflags
  BY DEF idle
<1>2. \/ tstate' = tstate
      \/ \E n \in Threads : tstate[n] = "RUNNABLE" /\ tstate' = [tstate EXCEPT ![n] = "RUNNING"]
  BY DEF idle, sched_choose, Runnable
<1>3. QED
  BY <1>1, <1>2 DEF SchedTypeOK, TStates

\* What waking a set of threads does (sched.c:353): none of them sleeps or is
\* about to any more, and nobody else changes.
LEMMA WakeupEffect ==
    ASSUME SchedTypeOK, NEW W
    PROVE  /\ WokenState(W) \in [Threads -> TStates]
           /\ WokenFlags(W) \in [Threads -> SUBSET SFlags]
           /\ \A u \in Threads :
                /\ u \notin W => WokenState(W)[u] = tstate[u] /\ WokenFlags(W)[u] = sflags[u]
                /\ u \in W => /\ WokenState(W)[u] # "SLEEP"
                              /\ "INTERRUPTABLE" \notin WokenFlags(W)[u]
                              /\ tstate[u] = "RUNNING" => "DO_SLEEP" \notin WokenFlags(W)[u]
                /\ WokenFlags(W)[u] \subseteq sflags[u]
                /\ ("INTERRUPTED" \in WokenFlags(W)[u]) <=> ("INTERRUPTED" \in sflags[u])
                /\ (WokenState(W)[u] = "RUNNING") <=> (tstate[u] = "RUNNING")
                /\ WokenState(W)[u] = "SLEEP" => tstate[u] = "SLEEP"
BY DEF SchedTypeOK, WokenState, WokenFlags, TStates, SFlags
------------------------------------------------------------------------------
\* A thread none of whose variables change, except that it may start to run.
LEMMA Unaffected ==
    ASSUME NEW u \in Threads, ThreadInv(u),
           sflags'[u] = sflags[u], call'[u] = call[u], timer'[u] = timer[u],
           wflags'[u] = wflags[u], prepared'[u] = prepared[u],
           tstate'[u] = tstate[u] \/ (tstate[u] = "RUNNABLE" /\ tstate'[u] = "RUNNING")
    PROVE  ThreadInv(u)'
BY DEF ThreadInv, CallInv, TimerInv, FlagInv, SleepInv, AwakeInv, Asleep, Ended, Committed

\* The calls a thread makes outside of wait_sleep keep the invariant of every thread.
LEMMA ClientThreadInv ==
    ASSUME WaitTypeOK, \A u \in Threads : ThreadInv(u), NEW t \in Threads, Client(t)
    PROVE  \A u \in Threads : ThreadInv(u)'
<1> SUFFICES ASSUME NEW u \in Threads PROVE ThreadInv(u)'
  OBVIOUS
<1>1. PICK q \in Queues : \/ wait_prep(t, q) \/ wait_abort(t, q)
                         \/ \E intr, tmo \in BOOLEAN : wait_sleep(t, q, intr, tmo)
  BY DEF Client
<1>2. CASE u # t
  BY <1>1, <1>2, Unaffected DEF wait_prep, wait_abort, wait_sleep, Unprepare,
                                WaitTypeOK, SchedTypeOK, schedVars
<1>3. CASE u = t
  <2>. /\ ThreadInv(t) /\ DOMAIN call = Threads /\ DOMAIN timer = Threads
       /\ DOMAIN prepared = Threads /\ DOMAIN wflags = Threads /\ DOMAIN wflags[t] = Queues
    BY DEF WaitTypeOK
  <2>1. tstate[t] = "RUNNING" /\ call[t].pc = "none" /\ UNCHANGED <<tstate, sflags>>
    BY <1>1 DEF wait_prep, wait_abort, wait_sleep, At, schedVars
  <2>2. /\ ~Asleep(t) /\ "INTERRUPTABLE" \notin sflags[t]
        /\ call[t].tmo => call[t].intr
        /\ timer[t] \notin {"queued", "done"}
        /\ \A p \in Queues : "SLEEP" \notin wflags[t][p]
    BY <2>1 DEF ThreadInv, CallInv, TimerInv, FlagInv, SleepInv, Asleep, Committed
  \* A thread that has not yet decided to sleep.
  <2>3. ASSUME call'[t].pc = "none" \/ (call'[t].pc = "enter" /\ call'[t].q \in prepared'[t]),
               call'[t].tmo => call'[t].intr, timer'[t] \notin {"queued", "done"},
               \A p \in Queues : "SLEEP" \notin wflags'[t][p]
        PROVE  ThreadInv(t)'
    <3>1. CallInv(t)' /\ TimerInv(t)' /\ FlagInv(t)'
      BY <2>3 DEF CallInv, TimerInv, FlagInv, Committed
    <3>2. ~Asleep(t)' /\ "INTERRUPTABLE" \notin sflags'[t] /\ call'[t].pc \notin Committed
      BY <2>1, <2>2, <2>3 DEF Asleep, Committed
    <3>3. SleepInv(t)' /\ AwakeInv(t)'
      BY <2>1, <3>2 DEF SleepInv, AwakeInv, Asleep
    <3>4. QED BY <3>1, <3>3 DEF ThreadInv
  <2>4. CASE wait_prep(t, q)
    <3>1. /\ call' = call /\ timer' = timer
          /\ \A p \in Queues : wflags'[t][p] = IF p = q THEN {} ELSE wflags[t][p]
      BY <2>4 DEF wait_prep
    <3>2. QED BY <1>3, <2>1, <2>2, <2>3, <3>1
  <2>5. CASE wait_abort(t, q)
    <3>1. /\ call' = call /\ timer' = timer
          /\ \A p \in Queues : wflags'[t][p] = IF p = q THEN {} ELSE wflags[t][p]
      BY <2>5 DEF wait_abort, Unprepare
    <3>2. QED BY <1>3, <2>1, <2>2, <2>3, <3>1
  <2>6. CASE \E intr, tmo \in BOOLEAN : wait_sleep(t, q, intr, tmo)
    <3>1. PICK intr \in BOOLEAN, tmo \in BOOLEAN : wait_sleep(t, q, intr, tmo)
      BY <2>6
    <3>2. call'[t] = [pc |-> "enter", q |-> q, intr |-> intr, tmo |-> tmo, late |-> FALSE]
      BY <3>1 DEF wait_sleep
    <3>3. q \in prepared'[t] /\ (tmo => intr) /\ timer'[t] \in {"junk", "off"} /\ wflags' = wflags
      BY <3>1 DEF wait_sleep
    <3>4. QED BY <1>3, <2>2, <2>3, <3>2, <3>3
  <2>7. QED BY <1>1, <2>4, <2>5, <2>6
<1>4. QED BY <1>2, <1>3

\* So do the statements of wait_sleep_timeout.
LEMMA SleepStepThreadInv ==
    ASSUME WaitTypeOK, \A u \in Threads : ThreadInv(u), NEW t \in Threads, SleepStep(t)
    PROVE  \A u \in Threads : ThreadInv(u)'
<1>1. SchedTypeOK
  BY DEF WaitTypeOK
<1>2. ASSUME NEW u \in Threads \ {t} PROVE ThreadInv(u)'
  <2>1. CASE Schedule(t)
    BY <1>1, <2>1, DoScheduleEffect, Unaffected DEF Schedule, Goto, WaitTypeOK, SchedTypeOK
  <2>2. CASE Suspend(t)
    BY <2>2, Unaffected
       DEF Suspend, Goto, Return, Unprepare, sched_set_inactive, WaitTypeOK, SchedTypeOK
  <2>3. CASE Enter(t)
    BY <2>3, Unaffected DEF Enter, Goto, WaitTypeOK, schedVars
  <2>4. CASE Arm(t) \/ TimerRem(t) \/ TimerUnqueue(t)
    BY <2>4, Unaffected, Zenon DEF Arm, TimerRem, TimerUnqueue, Goto, WaitTypeOK, schedVars
  <2>5. CASE Check(t)
    BY <2>5, Unaffected DEF Check, Goto, Return, Unprepare, WaitTypeOK, schedVars
  <2>6. CASE Abort(t)
    BY <2>6, Unaffected DEF Abort, Return, Unprepare, WaitTypeOK, schedVars
  <2>7. QED BY <2>1, <2>2, <2>3, <2>4, <2>5, <2>6 DEF SleepStep
<1>3. ThreadInv(t)'
  <2>1. /\ ThreadInv(t)
        /\ call[t] \in Calls /\ call[t].q \in Queues /\ DOMAIN call = Threads
        /\ wflags[t] \in [Queues -> SUBSET {"DONE", "SLEEP"}] /\ DOMAIN wflags = Threads
        /\ DOMAIN timer = Threads /\ DOMAIN prepared = Threads /\ DOMAIN sflags = Threads
    BY DEF WaitTypeOK, SchedTypeOK, Calls
  \* A statement of a thread that is up and about, and stays so.
  <2>2. ASSUME NEW pc, Goto(t, pc)
        PROVE  /\ call'[t].pc = pc /\ call'[t].q = call[t].q /\ call'[t].intr = call[t].intr
               /\ call'[t].tmo = call[t].tmo /\ call'[t].late = call[t].late
    BY <2>1, <2>2 DEF Goto, Calls
  <2>3. ASSUME call[t].pc \in {"suspend", "check", "abort"}, tstate[t] = "RUNNING", Return(t),
               timer'[t] = timer[t] \/ timer'[t] = "off", UNCHANGED <<tstate, sflags>>
        PROVE  ThreadInv(t)'
    <3>1. /\ call'[t].pc = "none" /\ call'[t].tmo = FALSE
          /\ \A p \in Queues : "SLEEP" \notin wflags'[t][p]
      BY <2>1, <2>3 DEF Return, Unprepare, NoCall, ThreadInv, FlagInv
    <3>2. ~Asleep(t) /\ "INTERRUPTABLE" \notin sflags[t] /\ timer[t] \notin {"queued", "done"}
      BY <2>1, <2>3 DEF ThreadInv, SleepInv, Asleep, TimerInv
    <3>3. QED
      BY <2>3, <3>1, <3>2
         DEF ThreadInv, CallInv, TimerInv, FlagInv, SleepInv, AwakeInv, Asleep, Committed
  <2>4. CASE Enter(t)
    <3>1. /\ call'[t].q = call[t].q /\ call'[t].intr = call[t].intr /\ call'[t].tmo = call[t].tmo
          /\ call'[t].pc \in {"suspend", "abort"} /\ call[t].pc = "enter"
          /\ call'[t].pc = "abort" => call[t].intr
          /\ timer'[t] = timer[t] \/ timer'[t] = "off"
          /\ tstate[t] = "RUNNING" /\ UNCHANGED <<tstate, sflags, wflags, prepared>>
      BY <2>1, <2>2, <2>4 DEF Enter, At, schedVars
    <3>2. CallInv(t)' /\ TimerInv(t)' /\ FlagInv(t)'
      BY <2>1, <3>1 DEF ThreadInv, CallInv, TimerInv, FlagInv, Committed
    <3>3. SleepInv(t)' /\ AwakeInv(t)'
      BY <2>1, <3>1 DEF ThreadInv, SleepInv, AwakeInv, Asleep, Committed
    <3>4. QED BY <3>2, <3>3 DEF ThreadInv
  <2>5. CASE Suspend(t)
    <3>1. call[t].pc = "suspend" /\ tstate[t] = "RUNNING" /\ UNCHANGED <<tstate, timer>>
      BY <2>5 DEF Suspend, At
    <3>2. CASE "DONE" \in wflags[t][call[t].q]
      BY <2>3, <2>5, <3>1, <3>2 DEF Suspend
    <3>3. CASE "DONE" \notin wflags[t][call[t].q]
      <4>1. /\ call'[t].q = call[t].q /\ call'[t].intr = call[t].intr /\ call'[t].tmo = call[t].tmo
            /\ call'[t].pc = IF call[t].tmo THEN "arm" ELSE "schedule"
            /\ prepared' = prepared
        BY <2>2, <2>5, <3>3 DEF Suspend
      <4>2. /\ \A p \in Queues : "SLEEP" \in wflags'[t][p] <=> "SLEEP" \in wflags[t][p] \/ p = call[t].q
            /\ "DONE" \notin wflags'[t][call[t].q]
        BY <2>1, <2>5, <3>3 DEF Suspend
      <4>3. IF call[t].intr /\ "INTERRUPTED" \in sflags[t]
            THEN sflags' = sflags
            ELSE sflags'[t] = sflags[t] \cup {"DO_SLEEP"}
                                       \cup (IF call[t].intr THEN {"INTERRUPTABLE"} ELSE {})
        BY <2>1, <2>5, <3>3 DEF Suspend, sched_set_inactive
      <4>4. ~Asleep(t) /\ "INTERRUPTABLE" \notin sflags[t] /\ timer[t] \notin {"queued", "done"}
        BY <2>1, <3>1 DEF ThreadInv, SleepInv, Asleep, TimerInv
      <4>5. CallInv(t)' /\ FlagInv(t)'
        BY <2>1, <3>1, <4>1, <4>2 DEF ThreadInv, CallInv, FlagInv, Committed
      <4>6. SleepInv(t)' /\ AwakeInv(t)'
        <5>1. CASE call[t].intr /\ "INTERRUPTED" \in sflags[t]
          <6>1. Ended(t)' /\ ~Asleep(t)' /\ "INTERRUPTABLE" \notin sflags'[t] /\ tstate'[t] = "RUNNING"
            BY <3>1, <4>1, <4>3, <4>4, <5>1 DEF Ended, Asleep
          <6>2. QED BY <4>4, <6>1 DEF SleepInv, AwakeInv, Asleep
        <5>2. CASE ~(call[t].intr /\ "INTERRUPTED" \in sflags[t])
          <6>1. /\ Asleep(t)' /\ tstate'[t] = "RUNNING" /\ call'[t].pc \in {"arm", "schedule"}
                /\ call'[t].intr <=> "INTERRUPTABLE" \in sflags'[t]
            BY <3>1, <4>1, <4>3, <4>4, <5>2 DEF Asleep
          <6>2. ~Ended(t)'
            BY <4>1, <4>2, <4>3, <5>2 DEF Ended
          <6>3. call'[t].tmo => call'[t].pc = "arm"
            BY <4>1
          <6>4. QED BY <6>1, <6>2, <6>3 DEF SleepInv, AwakeInv
        <5>3. QED BY <5>1, <5>2
      <4>7. TimerInv(t)'
        BY <3>1, <4>1, <4>4 DEF TimerInv
      <4>8. QED BY <4>5, <4>6, <4>7 DEF ThreadInv
    <3>4. QED BY <3>2, <3>3
  <2>6. CASE Arm(t)
    <3>1. /\ call'[t].q = call[t].q /\ call'[t].intr = call[t].intr /\ call'[t].tmo = call[t].tmo
          /\ call'[t].pc = "schedule" /\ call[t].pc = "arm" /\ timer'[t] = "queued"
          /\ UNCHANGED <<tstate, sflags, wflags, prepared>>
      BY <2>1, <2>2, <2>6 DEF Arm, At, schedVars
    <3>2. CallInv(t)' /\ TimerInv(t)' /\ FlagInv(t)'
      BY <2>1, <3>1 DEF ThreadInv, CallInv, TimerInv, FlagInv, Committed
    <3>3. SleepInv(t)' /\ AwakeInv(t)'
      BY <2>1, <3>1, Zenon DEF ThreadInv, SleepInv, AwakeInv, Asleep, Ended, Committed
    <3>4. QED BY <3>2, <3>3 DEF ThreadInv
  <2>7. CASE Schedule(t)
    <3>1. /\ call'[t].q = call[t].q /\ call'[t].intr = call[t].intr /\ call'[t].tmo = call[t].tmo
          /\ call'[t].pc = (IF call[t].tmo THEN "rem" ELSE "check") /\ call[t].pc = "schedule"
          /\ UNCHANGED <<wflags, prepared, timer>>
      BY <2>1, <2>2, <2>7 DEF Schedule
    <3>2. /\ tstate[t] = "RUNNING" /\ (tstate'[t] = "SLEEP" <=> "DO_SLEEP" \in sflags[t])
          /\ sflags'[t] = sflags[t] \ {"DO_SLEEP"}
      BY <1>1, <2>1, <2>7, DoScheduleEffect DEF Schedule
    <3>3. CallInv(t)' /\ TimerInv(t)' /\ FlagInv(t)'
      BY <2>1, <3>1, Zenon DEF ThreadInv, CallInv, TimerInv, FlagInv, Committed
    <3>4. (Asleep(t)' <=> Asleep(t)) /\ (Ended(t)' <=> Ended(t))
      BY <3>1, <3>2 DEF Asleep, Ended
    <3>5. SleepInv(t)' /\ AwakeInv(t)'
      <4>1. SleepInv(t) /\ AwakeInv(t)
        BY <2>1 DEF ThreadInv
      <4>2. CASE call[t].tmo
        <5>1. call'[t].pc = "rem"
          BY <3>1, <4>2
        <5>2. QED BY <3>1, <3>2, <3>4, <4>1, <4>2, <5>1 DEF SleepInv, AwakeInv, Committed
      <4>3. CASE ~call[t].tmo
        <5>1. call'[t].pc = "check"
          BY <3>1, <4>3
        <5>2. QED BY <2>1, <3>1, <3>2, <3>4, <4>1, <4>3, <5>1, Zenon
              DEF ThreadInv, TimerInv, SleepInv, AwakeInv, Committed
      <4>4. QED BY <4>2, <4>3
    <3>6. QED BY <3>3, <3>5 DEF ThreadInv
  <2>8. CASE TimerRem(t)
    <3>1. /\ call'[t].q = call[t].q /\ call'[t].intr = call[t].intr /\ call'[t].tmo = call[t].tmo
          /\ call'[t].pc = "unqueue" /\ call[t].pc = "rem" /\ tstate[t] = "RUNNING"
          /\ timer[t] = "done" => call'[t].late
          /\ UNCHANGED <<tstate, sflags, wflags, prepared, timer>>
      <4>1. PICK late \in BOOLEAN :
                /\ timer[t] = "done" => late
                /\ call' = [call EXCEPT ![t] = [@ EXCEPT !.late = late, !.pc = "unqueue"]]
        BY <2>8, Zenon DEF TimerRem
      <4>2. call'[t] = [call[t] EXCEPT !.late = late, !.pc = "unqueue"]
        BY <2>1, <4>1
      <4>3. /\ call'[t].q = call[t].q /\ call'[t].intr = call[t].intr
            /\ call'[t].tmo = call[t].tmo /\ call'[t].pc = "unqueue" /\ call'[t].late = late
        BY <2>1, <4>2 DEF Calls
      <4>4. QED BY <2>8, <4>1, <4>3 DEF TimerRem, At, schedVars
    <3>2. CallInv(t)' /\ TimerInv(t)' /\ FlagInv(t)'
      BY <2>1, <3>1, Zenon DEF ThreadInv, CallInv, TimerInv, FlagInv, Committed
    <3>3. SleepInv(t)' /\ AwakeInv(t)'
      BY <2>1, <3>1, Zenon DEF ThreadInv, SleepInv, AwakeInv, Asleep, Ended, Committed
    <3>4. QED BY <3>2, <3>3 DEF ThreadInv
  <2>9. CASE TimerUnqueue(t)
    <3>1. /\ call'[t].q = call[t].q /\ call'[t].intr = call[t].intr /\ call'[t].tmo = call[t].tmo
          /\ call'[t].pc = (IF call[t].late THEN "abort" ELSE "check") /\ timer'[t] = "off"
          /\ call[t].pc = "unqueue" /\ tstate[t] = "RUNNING"
          /\ UNCHANGED <<tstate, sflags, wflags, prepared>>
      BY <2>1, <2>2, <2>9 DEF TimerUnqueue, At, schedVars
    <3>2. CallInv(t)' /\ TimerInv(t)' /\ FlagInv(t)'
      BY <2>1, <3>1, Zenon DEF ThreadInv, CallInv, TimerInv, FlagInv, Committed
    <3>3. SleepInv(t)' /\ AwakeInv(t)'
      BY <2>1, <3>1, Zenon DEF ThreadInv, SleepInv, AwakeInv, Asleep, Ended, Committed
    <3>4. QED BY <3>2, <3>3 DEF ThreadInv
  <2>10. CASE Check(t)
    <3>1. call[t].pc = "check" /\ tstate[t] = "RUNNING" /\ UNCHANGED <<tstate, sflags, timer>>
      BY <2>10 DEF Check, At, schedVars
    <3>2. \/ call[t].intr /\ Goto(t, "abort") /\ UNCHANGED <<wflags, prepared>>
          \/ Return(t)
      BY <2>10 DEF Check
    <3>3. CASE call[t].intr /\ Goto(t, "abort") /\ UNCHANGED <<wflags, prepared>>
      <4>1. /\ call'[t].pc = "abort" /\ call'[t].q = call[t].q /\ call'[t].intr = call[t].intr
            /\ call'[t].tmo = call[t].tmo
        BY <2>2, <3>3, Zenon
      <4>2. CallInv(t)' /\ TimerInv(t)' /\ FlagInv(t)'
        BY <2>1, <3>1, <3>3, <4>1, Zenon DEF ThreadInv, CallInv, TimerInv, FlagInv, Committed
      <4>3. SleepInv(t)' /\ AwakeInv(t)'
        BY <2>1, <3>1, <4>1, Zenon DEF ThreadInv, SleepInv, AwakeInv, Asleep, Committed
      <4>4. QED BY <4>2, <4>3 DEF ThreadInv
    <3>4. CASE Return(t)
      BY <2>3, <3>1, <3>4
    <3>5. QED BY <3>2, <3>3, <3>4
  <2>11. CASE Abort(t)
    BY <2>1, <2>3, <2>11 DEF Abort, At, schedVars
  <2>12. QED
    BY <2>4, <2>5, <2>6, <2>7, <2>8, <2>9, <2>10, <2>11 DEF SleepStep
<1>4. QED BY <1>2, <1>3

\* A wakeup of any set of waiters does: marking a waiter and waking its thread
\* happen together, and a thread that is marked without being woken is not asleep.
LEMMA WakeupThreadInv ==
    ASSUME WaitTypeOK, \A u \in Threads : ThreadInv(u), NEW q \in Queues, NEW W, NEW rest,
           wakeup_waiter(q, W, rest)
    PROVE  \A u \in Threads : ThreadInv(u)'
<1> SUFFICES ASSUME NEW u \in Threads PROVE ThreadInv(u)'
  OBVIOUS
<1> DEFINE V == {t \in W : "SLEEP" \in wflags[t][q]}
<1>1. SchedTypeOK
  BY DEF WaitTypeOK
<1>2. tstate' = WokenState(V) /\ sflags' = WokenFlags(V)
  BY DEF wakeup_waiter, sched_wakeup
<1>3. call' = call /\ timer' = timer /\ prepared' = prepared
  BY DEF wakeup_waiter
<1>4. wflags'[u] = IF u \in W THEN [wflags[u] EXCEPT ![q] = @ \cup {"DONE"}] ELSE wflags[u]
  BY DEF wakeup_waiter
<1>5. (u \in V) <=> (u \in W /\ "SLEEP" \in wflags[u][q])
  OBVIOUS
<1> HIDE DEF V
<1>6. CASE u \notin W
  BY <1>1, <1>2, <1>3, <1>4, <1>5, <1>6, WakeupEffect, Unaffected
<1>7. CASE u \in W
  <2>1. wflags[u] \in [Queues -> SUBSET {"DONE", "SLEEP"}] /\ call[u].q \in Queues
    BY DEF WaitTypeOK, Calls
  <2>2. /\ \A p \in Queues : ("SLEEP" \in wflags'[u][p]) <=> ("SLEEP" \in wflags[u][p])
        /\ \A p \in Queues \ {q} : wflags'[u][p] = wflags[u][p]
        /\ "DONE" \in wflags'[u][q]
    BY <1>4, <1>7, <2>1
  <2>3. ThreadInv(u)
    OBVIOUS
  <2>4. CallInv(u)' /\ TimerInv(u)' /\ FlagInv(u)'
    BY <1>3, <2>1, <2>2, <2>3, Zenon DEF ThreadInv, CallInv, TimerInv, FlagInv, Committed
  <2>5. CASE u \in V
    <3>1. q = call[u].q
      BY <1>5, <2>3, <2>5, Zenon DEF ThreadInv, FlagInv
    <3>2. Ended(u)'
      BY <1>3, <2>2, <3>1, Zenon DEF Ended
    <3>3. /\ tstate'[u] # "SLEEP" /\ "INTERRUPTABLE" \notin sflags'[u]
          /\ sflags'[u] \subseteq sflags[u]
          /\ tstate[u] = "RUNNING" => "DO_SLEEP" \notin sflags'[u]
      BY <1>1, <1>2, <2>5, WakeupEffect
    <3>4. "DO_SLEEP" \notin sflags'[u]
      BY <2>3, <3>3 DEF ThreadInv, SleepInv
    <3>5. SleepInv(u)' /\ AwakeInv(u)'
      BY <3>2, <3>3, <3>4 DEF SleepInv, AwakeInv, Asleep
    <3>6. QED BY <2>4, <3>5 DEF ThreadInv
  <2>6. CASE u \notin V
    <3>1. tstate'[u] = tstate[u] /\ sflags'[u] = sflags[u]
      BY <1>1, <1>2, <2>6, WakeupEffect
    <3>2. Asleep(u) => call[u].q # q
      BY <1>5, <1>7, <2>3, <2>6 DEF ThreadInv, SleepInv, FlagInv, Committed
    <3>3. (Asleep(u) /\ ~Ended(u) => ~Ended(u)') /\ (Ended(u) => Ended(u)')
      BY <1>3, <2>1, <2>2, <3>1, <3>2 DEF Ended
    <3>4. Asleep(u)' = Asleep(u)
      BY <3>1 DEF Asleep
    <3>5. SleepInv(u)' /\ AwakeInv(u)'
      BY <1>3, <2>3, <3>1, <3>3, <3>4, Zenon DEF ThreadInv, SleepInv, AwakeInv
    <3>6. QED BY <2>4, <3>5 DEF ThreadInv
  <2>7. QED BY <2>5, <2>6
<1>8. QED BY <1>6, <1>7

\* What other code does to a thread - an expiring timer, a preemption, a software
\* interrupt and its delivery, the idle thread - keeps the invariant too.
LEMMA KernelThreadInv ==
    ASSUME WaitTypeOK, \A u \in Threads : ThreadInv(u), Kernel
    PROVE  \A u \in Threads : ThreadInv(u)'
<1> SUFFICES ASSUME NEW u \in Threads PROVE ThreadInv(u)'
  OBVIOUS
<1>1. SchedTypeOK /\ timer \in [Threads -> {"off", "junk", "queued", "done"}]
  BY DEF WaitTypeOK
<1> USE DEF waitVars
<1>2. ASSUME NEW t \in Threads, timer_intr(t) PROVE ThreadInv(u)'
  <2>1. /\ tstate' = WokenState({t}) /\ sflags' = WokenFlags({t})
        /\ timer' = [timer EXCEPT ![t] = "done"] /\ timer[t] = "queued"
        /\ UNCHANGED <<waiters, wflags, prepared, call>>
    BY <1>2 DEF timer_intr, sched_wakeup
  <2>2. CASE u # t
    BY <1>1, <2>1, <2>2, WakeupEffect, Unaffected
  <2>3. CASE u = t
    <3>1. ThreadInv(t)
      OBVIOUS
    <3>2. /\ tstate'[t] # "SLEEP" /\ "INTERRUPTABLE" \notin sflags'[t]
          /\ tstate[t] = "RUNNING" => "DO_SLEEP" \notin sflags'[t]
          /\ sflags'[t] \subseteq sflags[t]
          /\ timer'[t] = "done"
      BY <1>1, <2>1, WakeupEffect
    <3>3. call[t].tmo /\ call[t].pc \in {"schedule", "rem", "unqueue"}
      BY <2>1, <3>1 DEF ThreadInv, TimerInv
    <3>4. CallInv(t)' /\ TimerInv(t)' /\ FlagInv(t)'
      BY <2>1, <3>1, <3>2, <3>3, Zenon DEF ThreadInv, CallInv, TimerInv, FlagInv
    <3>5. ~Asleep(t)'
      BY <3>1, <3>2, Zenon DEF ThreadInv, SleepInv, Asleep
    <3>6. "INTERRUPTED" \in sflags'[t] <=> "INTERRUPTED" \in sflags[t]
      BY <1>1, <2>1, WakeupEffect
    <3>7. SleepInv(t)'
      BY <3>2, <3>5 DEF SleepInv, Asleep
    <3>8. call[t].pc = "unqueue" => ~Asleep(t)
      BY <3>1 DEF ThreadInv, SleepInv
    <3>9. AwakeInv(t)'
      BY <2>1, <3>1, <3>2, <3>3, <3>6, <3>8, Zenon DEF ThreadInv, AwakeInv, Ended
    <3>10. QED BY <2>3, <3>4, <3>7, <3>9 DEF ThreadInv
  <2>4. QED BY <2>2, <2>3
<1>3. ASSUME NEW t \in Threads, Preempt(t) PROVE ThreadInv(u)'
  <2>1. do_schedule(t) /\ call[t].pc # "arm" /\ UNCHANGED waitVars
    BY <1>3 DEF Preempt
  <2>2. CASE u # t
    BY <1>1, <2>1, <2>2, DoScheduleEffect, Unaffected DEF SchedTypeOK
  <2>3. CASE u = t
    <3>1. ThreadInv(t)
      OBVIOUS
    <3>2. /\ tstate[t] = "RUNNING" /\ (tstate'[t] = "SLEEP" <=> "DO_SLEEP" \in sflags[t])
          /\ sflags'[t] = sflags[t] \ {"DO_SLEEP"}
      BY <1>1, <2>1, DoScheduleEffect DEF SchedTypeOK
    <3>3. UNCHANGED <<waiters, wflags, prepared, call, timer>>
      BY <2>1
    <3>4. CallInv(t)' /\ TimerInv(t)' /\ FlagInv(t)' /\ Asleep(t)' = Asleep(t) /\ Ended(t)' = Ended(t)
      BY <3>1, <3>2, <3>3, Zenon DEF ThreadInv, CallInv, TimerInv, FlagInv, Asleep, Ended
    <3>5. SleepInv(t)' /\ AwakeInv(t)'
      BY <2>1, <3>1, <3>2, <3>3, <3>4, Zenon DEF ThreadInv, SleepInv, AwakeInv
    <3>6. QED BY <2>3, <3>4, <3>5 DEF ThreadInv
  <2>4. QED BY <2>2, <2>3
<1>4. ASSUME NEW t \in Threads, Interrupt(t) PROVE ThreadInv(u)'
  <2> DEFINE W == IF "INTERRUPTED" \notin sflags[t] /\ "INTERRUPTABLE" \in sflags[t]
                  THEN {t} ELSE {}
  <2>1. /\ tstate' = WokenState(W)
        /\ sflags' = [WokenFlags(W) EXCEPT ![t] = @ \cup {"INTERRUPTED"}]
        /\ UNCHANGED waitVars
    BY <1>4 DEF Interrupt, sched_interrupt
  <2>2. W = {t} \/ W = {}
    OBVIOUS
  <2>3. t \in W <=> ("INTERRUPTED" \notin sflags[t] /\ "INTERRUPTABLE" \in sflags[t])
    OBVIOUS
  <2> HIDE DEF W
  <2>4. CASE u # t
    BY <1>1, <2>1, <2>2, <2>4, WakeupEffect, Unaffected, Zenon
  <2>5. CASE u = t
    <3>1. ThreadInv(t)
      OBVIOUS
    <3>2. UNCHANGED <<wflags, prepared, call, timer>>
      BY <2>1
    <3>3. CallInv(t)' /\ TimerInv(t)' /\ FlagInv(t)'
      BY <3>1, <3>2, Zenon DEF ThreadInv, CallInv, TimerInv, FlagInv
    <3>4. CASE t \in W
      <4>1. /\ tstate'[t] # "SLEEP" /\ "INTERRUPTABLE" \notin sflags'[t]
            /\ tstate[t] = "RUNNING" => "DO_SLEEP" \notin sflags'[t]
            /\ sflags'[t] \subseteq sflags[t] \cup {"INTERRUPTED"}
            /\ "INTERRUPTED" \in sflags'[t]
        BY <1>1, <2>1, <3>4, WakeupEffect
      <4>2. call[t].intr /\ "DO_SLEEP" \notin sflags'[t]
        BY <2>3, <3>1, <3>4, <4>1 DEF ThreadInv, SleepInv
      <4>3. SleepInv(t)'
        BY <4>1, <4>2 DEF SleepInv, Asleep
      <4>4. AwakeInv(t)'
        BY <3>2, <4>1, <4>2 DEF AwakeInv, Ended
      <4>5. QED BY <2>5, <3>3, <4>3, <4>4 DEF ThreadInv
    <3>5. CASE t \notin W
      <4>1. tstate'[t] = tstate[t] /\ sflags'[t] = sflags[t] \cup {"INTERRUPTED"}
        BY <1>1, <2>1, <3>5, WakeupEffect
      <4>2. Asleep(t)' = Asleep(t)
        BY <4>1 DEF Asleep
      <4>3. Asleep(t) => ~call[t].intr
        BY <2>3, <3>1, <3>5 DEF ThreadInv, SleepInv, Ended
      <4>4. AwakeInv(t)'
        BY <3>1, <3>2, <4>1, <4>2, Zenon DEF ThreadInv, AwakeInv, Ended
      <4>5. SleepInv(t)'
        BY <3>1, <3>2, <4>1, <4>2, <4>3, Zenon DEF ThreadInv, SleepInv, Ended
      <4>6. QED BY <2>5, <3>3, <4>4, <4>5 DEF ThreadInv
    <3>6. QED BY <3>4, <3>5
  <2>6. QED BY <2>4, <2>5
<1>5. ASSUME NEW t \in Threads, Uret(t) PROVE ThreadInv(u)'
  <2>1. CASE u # t
    BY <1>5, <2>1, Unaffected DEF Uret, sched_pending_intr
  <2>2. CASE u = t
    <3>1. ThreadInv(t)
      OBVIOUS
    <3>2. /\ call[t].pc = "none" /\ UNCHANGED <<wflags, prepared, call, timer, tstate>>
          /\ sflags'[t] = sflags[t] \ {"INTERRUPTED"}
      BY <1>1, <1>5 DEF Uret, At, sched_pending_intr, SchedTypeOK
    <3>3. CallInv(t)' /\ TimerInv(t)' /\ FlagInv(t)' /\ AwakeInv(t)'
      BY <3>1, <3>2, Zenon DEF ThreadInv, CallInv, TimerInv, FlagInv, AwakeInv, Committed
    <3>4. SleepInv(t)'
      BY <3>1, <3>2, Zenon DEF ThreadInv, SleepInv, Asleep
    <3>5. QED BY <2>2, <3>3, <3>4 DEF ThreadInv
  <2>3. QED BY <2>1, <2>2
<1>6. ASSUME NEW t \in Threads, Idle(CpuOf[t]) PROVE ThreadInv(u)'
  BY <1>1, <1>6, IdleEffect, Unaffected, Zenon DEF Idle
<1>7. QED BY <1>2, <1>3, <1>4, <1>5, <1>6 DEF Kernel
------------------------------------------------------------------------------
\* A wakeup on q that takes exactly the waiters of the threads W off the list.
Wakes(q, W, rest) ==
    /\ wakeup_waiter(q, W, rest)
    /\ W \subseteq Range(waiters[q])
    /\ rest \in Seq(Threads)
    /\ IsInjective(rest)
    /\ Range(rest) = Range(waiters[q]) \ W

\* The next-state relation in the form the proof goes through: either somebody
\* wakes some waiters of a queue, or one thread does a step.
LEMMA NextCases ==
    ASSUME WaitTypeOK, WaitersExact, Next
    PROVE  \/ \E t \in Threads : Client(t) \/ SleepStep(t)
           \/ \E q \in Queues : \E W \in SUBSET Threads, rest \in Seq(Threads) :
                    Wakes(q, W, rest)
           \/ Kernel
<1>1. ASSUME NEW q \in Queues, NEW n \in 1..Len(waiters[q]), wakeup_num(q, n)
      PROVE  \E W \in SUBSET Threads, rest \in Seq(Threads) : Wakes(q, W, rest)
  <2> DEFINE W == {waiters[q][i] : i \in 1..n}
             rest == SubSeq(waiters[q], n + 1, Len(waiters[q]))
  <2>1. waiters[q] \in Seq(Threads) /\ IsInjective(waiters[q])
    BY DEF WaitTypeOK, WaitersExact
  <2>2. rest \in Seq(Threads) /\ IsInjective(rest) /\ Range(rest) = Range(waiters[q]) \ W
    BY <2>1, DropNodes, Zenon
  <2>3. W \subseteq Range(waiters[q]) /\ W \subseteq Threads
    <3>1. Len(waiters[q]) \in Nat /\ DOMAIN waiters[q] = 1..Len(waiters[q])
      BY <2>1, LenProperties
    <3>2. 1..n \subseteq 1..Len(waiters[q])
      BY <3>1
    <3>3. \A i \in 1..n : waiters[q][i] \in Threads
      BY <2>1, <3>2, ElementOfSeq
    <3>4. QED BY <3>1, <3>2, <3>3 DEF Range
  <2>4. wakeup_waiter(q, W, rest)
    BY <1>1 DEF wakeup_num
  <2> HIDE DEF W, rest
  <2>5. QED BY <2>2, <2>3, <2>4 DEF Wakes
<1>2. ASSUME NEW q \in Queues, NEW t \in Threads, wakeup_matching(q, t)
      PROVE  \E W \in SUBSET Threads, rest \in Seq(Threads) : Wakes(q, W, rest)
  <2> DEFINE rest == list_remove(waiters[q], t)
  <2>1. waiters[q] \in Seq(Threads) /\ IsInjective(waiters[q])
    BY DEF WaitTypeOK, WaitersExact
  <2>2. t \in Range(waiters[q]) /\ wakeup_waiter(q, {t}, rest)
    BY <1>2 DEF wakeup_matching
  <2>3. rest \in Seq(Threads) /\ IsInjective(rest) /\ Range(rest) = Range(waiters[q]) \ {t}
    BY <2>1, <2>2, RemoveNode
  <2> HIDE DEF rest
  <2>4. QED BY <2>2, <2>3 DEF Wakes
<1>3. ASSUME NEW q \in Queues, wakeup_num(q, 1) \/ wakeup(q)
      PROVE  \E n \in 1..Len(waiters[q]) : wakeup_num(q, n)
  BY <1>3, Zenon DEF wakeup, wakeup_num
<1>4. QED BY <1>1, <1>2, <1>3 DEF Next

\* Whatever happens, every thread's part of the invariant is kept.
LEMMA ThreadInvPreserved ==
    ASSUME IInv, [Next]_vars
    PROVE  \A u \in Threads : ThreadInv(u)'
<1>1. WaitTypeOK /\ WaitersExact /\ \A u \in Threads : ThreadInv(u)
  BY DEF IInv
<1>2. CASE UNCHANGED vars
  BY <1>1, <1>2, Unaffected DEF vars, schedVars, waitVars
<1>3. CASE Next
  <2>1. ASSUME NEW q \in Queues, NEW W, NEW rest, Wakes(q, W, rest)
        PROVE  \A u \in Threads : ThreadInv(u)'
    BY <1>1, <2>1, WakeupThreadInv DEF Wakes
  <2>2. QED
    BY <1>1, <1>3, <2>1, NextCases, ClientThreadInv, SleepStepThreadInv, KernelThreadInv
<1>4. QED BY <1>2, <1>3
------------------------------------------------------------------------------
\* Taking a waiter back, whether or not it has been woken: afterwards it is not
\* on the list of its queue, and everybody else is where they were.
LEMMA AbortedListEffect ==
    ASSUME WaitTypeOK, WaitersExact, NEW t \in Threads, NEW q \in prepared[t]
    PROVE  /\ AbortedList(t, q) \in [Queues -> Seq(Threads)]
           /\ \A p \in Queues \ {q} : AbortedList(t, q)[p] = waiters[p]
           /\ IsInjective(AbortedList(t, q)[q])
           /\ Range(AbortedList(t, q)[q]) = Range(waiters[q]) \ {t}
<1>1. q \in Queues /\ waiters \in [Queues -> Seq(Threads)] /\ waiters[q] \in Seq(Threads)
  BY DEF WaitTypeOK
<1>2. IsInjective(waiters[q])
  BY <1>1 DEF WaitersExact
<1>3. t \in Range(waiters[q]) <=> "DONE" \notin wflags[t][q]
  BY <1>1 DEF WaitersExact
<1>4. CASE "DONE" \in wflags[t][q]
  <2>1. AbortedList(t, q) = waiters
    BY <1>4 DEF AbortedList
  <2>2. t \notin Range(waiters[q])
    BY <1>3, <1>4
  <2>3. Range(waiters[q]) = Range(waiters[q]) \ {t}
    BY <2>2, Zenon
  <2>4. QED BY <1>1, <1>2, <2>1, <2>3
<1>5. CASE "DONE" \notin wflags[t][q]
  <2> DEFINE r == list_remove(waiters[q], t)
  <2>1. AbortedList(t, q) = [waiters EXCEPT ![q] = r]
    BY <1>5 DEF AbortedList
  <2>2. r \in Seq(Threads) /\ IsInjective(r) /\ Range(r) = Range(waiters[q]) \ {t}
    BY <1>1, <1>2, <1>3, <1>5, RemoveNode
  <2> HIDE DEF r
  <2>3. QED BY <1>1, <2>1, <2>2
<1>6. QED BY <1>4, <1>5

\* A statement of a thread that leaves the lists alone keeps them exact if it
\* changes neither what is prepared nor what has been woken.
LEMMA ListsUntouched ==
    ASSUME WaitersExact, waiters' = waiters,
           \A q \in Queues : Waiting(q)' = Waiting(q)
    PROVE  WaitersExact'
BY DEF WaitersExact, Waiting

\* A step that changes one list keeps all of them exact if that one is right.
LEMMA OneListChanged ==
    ASSUME WaitersExact, NEW q \in Queues,
           IsInjective(waiters'[q]), Range(waiters'[q]) = Waiting(q)',
           \A p \in Queues \ {q} : waiters'[p] = waiters[p] /\ Waiting(p)' = Waiting(p)
    PROVE  WaitersExact'
<1>1. ASSUME NEW p \in Queues PROVE IsInjective(waiters'[p]) /\ Range(waiters'[p]) = Waiting(p)'
  <2>1. CASE p = q
    BY <2>1
  <2>2. CASE p # q
    <3>1. waiters'[p] = waiters[p] /\ Waiting(p)' = Waiting(p)
      BY <2>2
    <3>2. IsInjective(waiters[p]) /\ Range(waiters[p]) = Waiting(p)
      BY DEF WaitersExact, Waiting
    <3>3. QED BY <3>1, <3>2
  <2>3. QED BY <2>1, <2>2
<1>2. QED BY <1>1 DEF WaitersExact, Waiting

\* wait_prep and wait_abort put a waiter on its list and take it off again.
LEMMA ClientWaitersExact ==
    ASSUME WaitTypeOK, WaitersExact, NEW t \in Threads, Client(t)
    PROVE  WaitersExact'
<1>1. PICK q \in Queues : \/ wait_prep(t, q) \/ wait_abort(t, q)
                         \/ \E intr, tmo \in BOOLEAN : wait_sleep(t, q, intr, tmo)
  BY DEF Client
<1>2. waiters[q] \in Seq(Threads) /\ IsInjective(waiters[q])
  BY DEF WaitTypeOK, WaitersExact
<1>3. CASE wait_prep(t, q)
  <2>1. /\ q \notin prepared[t]
        /\ prepared' = [prepared EXCEPT ![t] = @ \cup {q}]
        /\ wflags' = [wflags EXCEPT ![t][q] = {}]
        /\ waiters' = [waiters EXCEPT ![q] = list_append(waiters[q], t)]
    BY <1>3 DEF wait_prep
  <2>2. t \notin Range(waiters[q])
    BY <2>1 DEF WaitersExact
  <2>3. /\ IsInjective(list_append(waiters[q], t))
        /\ Range(list_append(waiters[q], t)) = Range(waiters[q]) \cup {t}
    BY <1>2, <2>2, AppendNode
  <2>4. waiters'[q] = list_append(waiters[q], t)
        /\ \A p \in Queues \ {q} : waiters'[p] = waiters[p]
    BY <2>1 DEF WaitTypeOK
  <2>5. Waiting(q)' = Waiting(q) \cup {t} /\ \A p \in Queues \ {q} : Waiting(p)' = Waiting(p)
    BY <2>1 DEF WaitTypeOK, Waiting
  <2>6. Range(waiters[q]) = Waiting(q)
    BY DEF WaitersExact, Waiting
  <2>7. QED BY <2>3, <2>4, <2>5, <2>6, OneListChanged
<1>4. CASE wait_abort(t, q)
  <2>1. /\ q \in prepared[t] /\ waiters' = AbortedList(t, q)
        /\ prepared' = [prepared EXCEPT ![t] = @ \ {q}]
        /\ wflags' = [wflags EXCEPT ![t][q] = {}]
    BY <1>4 DEF wait_abort, Unprepare
  <2>2. Waiting(q)' = Waiting(q) \ {t} /\ \A p \in Queues \ {q} : Waiting(p)' = Waiting(p)
    BY <2>1 DEF WaitTypeOK, Waiting
  <2>3. Range(waiters[q]) = Waiting(q)
    BY DEF WaitersExact, Waiting
  <2>4. /\ IsInjective(waiters'[q]) /\ Range(waiters'[q]) = Range(waiters[q]) \ {t}
        /\ \A p \in Queues \ {q} : waiters'[p] = waiters[p]
    BY <2>1, AbortedListEffect, Zenon
  <2>5. QED BY <2>2, <2>3, <2>4, OneListChanged, Zenon
<1>5. CASE \E intr, tmo \in BOOLEAN : wait_sleep(t, q, intr, tmo)
  BY <1>5, ListsUntouched DEF wait_sleep, Waiting
<1>6. QED BY <1>1, <1>3, <1>4, <1>5

\* A wait returns without taking its waiter off the list only when a wakeup has
\* done so already: this needs AwakeInv, the reason the thread is awake.
LEMMA SleepStepWaitersExact ==
    ASSUME IInv, NEW t \in Threads, SleepStep(t)
    PROVE  WaitersExact'
<1>1. WaitTypeOK /\ WaitersExact /\ ThreadInv(t)
  BY DEF IInv
<1> SUFFICES ASSUME NEW q \in Queues, q = call[t].q PROVE WaitersExact'
  BY <1>1 DEF WaitTypeOK, Calls
<1>2. ASSUME "DONE" \in wflags[t][q], Return(t), waiters' = waiters PROVE WaitersExact'
  <2>1. /\ prepared' = [prepared EXCEPT ![t] = @ \ {q}]
        /\ wflags' = [wflags EXCEPT ![t][q] = {}]
    BY <1>2 DEF Return, Unprepare
  <2>2. \A p \in Queues : Waiting(p)' = Waiting(p)
    BY <1>1, <1>2, <2>1 DEF WaitTypeOK, Waiting
  <2>3. QED BY <1>1, <1>2, <2>2, ListsUntouched
<1>3. CASE Enter(t) \/ Arm(t) \/ Schedule(t) \/ TimerRem(t) \/ TimerUnqueue(t)
  BY <1>1, <1>3, ListsUntouched, Zenon DEF Enter, Arm, Schedule, TimerRem, TimerUnqueue, Waiting
<1>4. CASE Suspend(t)
  <2>1. CASE "DONE" \in wflags[t][q]
    BY <1>2, <1>4, <2>1 DEF Suspend
  <2>2. CASE "DONE" \notin wflags[t][q]
    <3>1. waiters' = waiters /\ prepared' = prepared
          /\ wflags' = [wflags EXCEPT ![t][q] = @ \cup {"SLEEP"}]
      BY <1>4, <2>2 DEF Suspend
    <3>2. \A p \in Queues : Waiting(p)' = Waiting(p)
      BY <1>1, <3>1 DEF WaitTypeOK, Waiting
    <3>3. QED BY <1>1, <3>1, <3>2, ListsUntouched
  <2>3. QED BY <2>1, <2>2
<1>5. CASE Check(t)
  <2>1. waiters' = waiters /\ call[t].pc = "check" /\ tstate[t] = "RUNNING"
    BY <1>5 DEF Check, At
  <2>2. CASE call[t].intr /\ sched_interrupted(t)
    BY <1>1, <1>5, <2>1, <2>2, ListsUntouched, Zenon DEF Check, Waiting
  <2>3. CASE ~(call[t].intr /\ sched_interrupted(t))
    <3>1. Return(t)
      BY <1>5, <2>3 DEF Check
    <3>2. ~Asleep(t)
      BY <1>1, <2>1, Zenon DEF ThreadInv, SleepInv, Asleep
    <3>3. "DONE" \in wflags[t][q]
      BY <1>1, <2>1, <2>3, <3>2, Zenon DEF ThreadInv, AwakeInv, Ended, Committed, sched_interrupted
    <3>4. QED BY <1>2, <2>1, <3>1, <3>3
  <2>4. QED BY <2>2, <2>3
<1>6. CASE Abort(t)
  <2>1. /\ waiters' = AbortedList(t, q)
        /\ prepared' = [prepared EXCEPT ![t] = @ \ {q}]
        /\ wflags' = [wflags EXCEPT ![t][q] = {}]
    BY <1>6 DEF Abort, Return, Unprepare
  <2>2. q \in prepared[t]
    BY <1>1, <1>6 DEF Abort, At, ThreadInv, CallInv
  <2>3. Waiting(q)' = Waiting(q) \ {t} /\ \A p \in Queues \ {q} : Waiting(p)' = Waiting(p)
    BY <1>1, <2>1 DEF WaitTypeOK, Waiting
  <2>4. Range(waiters[q]) = Waiting(q)
    BY <1>1 DEF WaitersExact, Waiting
  <2>5. /\ IsInjective(waiters'[q]) /\ Range(waiters'[q]) = Range(waiters[q]) \ {t}
        /\ \A p \in Queues \ {q} : waiters'[p] = waiters[p]
    BY <1>1, <2>1, <2>2, AbortedListEffect, Zenon
  <2>6. QED BY <1>1, <2>3, <2>4, <2>5, OneListChanged
<1>7. QED BY <1>3, <1>4, <1>5, <1>6 DEF SleepStep

\* The threads a wakeup takes off the list are those it marks.
LEMMA WakeupWaitersExact ==
    ASSUME WaitTypeOK, WaitersExact, NEW q \in Queues, NEW W, NEW rest, Wakes(q, W, rest)
    PROVE  WaitersExact'
<1>1. /\ waiters' = [waiters EXCEPT ![q] = rest]
      /\ wflags' = [t \in Threads |->
                      IF t \in W THEN [wflags[t] EXCEPT ![q] = @ \cup {"DONE"}]
                      ELSE wflags[t]]
      /\ prepared' = prepared
  BY DEF Wakes, wakeup_waiter
<1>2. IsInjective(rest) /\ Range(rest) = Range(waiters[q]) \ W
  BY DEF Wakes
<1>3. waiters'[q] = rest /\ \A p \in Queues \ {q} : waiters'[p] = waiters[p]
  BY <1>1 DEF WaitTypeOK
<1>4. Waiting(q)' = Waiting(q) \ W /\ \A p \in Queues \ {q} : Waiting(p)' = Waiting(p)
  BY <1>1 DEF WaitTypeOK, Waiting
<1>5. Range(waiters[q]) = Waiting(q)
  BY DEF WaitersExact, Waiting
<1>6. QED BY <1>2, <1>3, <1>4, <1>5, OneListChanged

\* The lists of waiters stay exact in every step.
LEMMA WaitersExactPreserved ==
    ASSUME IInv, [Next]_vars
    PROVE  WaitersExact'
<1>1. WaitTypeOK /\ WaitersExact
  BY DEF IInv
<1>2. CASE UNCHANGED vars
  BY <1>1, <1>2, ListsUntouched DEF vars, waitVars, Waiting
<1>3. CASE Kernel
  BY <1>1, <1>3, ListsUntouched, Zenon
     DEF Kernel, timer_intr, Preempt, Interrupt, Uret, Idle, waitVars, Waiting
<1>4. QED
  BY <1>1, <1>2, <1>3, NextCases, ClientWaitersExact, SleepStepWaitersExact, WakeupWaitersExact
------------------------------------------------------------------------------
\* The calls outside of wait_sleep keep the types.
LEMMA ClientType ==
    ASSUME IInv, NEW t \in Threads, Client(t)
    PROVE  WaitTypeOK'
<1>1. WaitTypeOK /\ WaitersExact
  BY DEF IInv
<1>2. PICK q \in Queues : \/ wait_prep(t, q) \/ wait_abort(t, q)
                         \/ \E intr, tmo \in BOOLEAN : wait_sleep(t, q, intr, tmo)
  BY DEF Client
<1>3. CASE wait_prep(t, q)
  <2>1. waiters[q] \in Seq(Threads) /\ IsInjective(waiters[q]) /\ t \notin Range(waiters[q])
    BY <1>1, <1>3 DEF WaitTypeOK, WaitersExact, wait_prep
  <2>2. list_append(waiters[q], t) \in Seq(Threads)
    BY <2>1, AppendNode
  <2>3. QED BY <1>1, <1>3, <2>2 DEF wait_prep, WaitTypeOK, SchedTypeOK, schedVars
<1>4. CASE wait_abort(t, q)
  <2>1. q \in prepared[t] /\ waiters' = AbortedList(t, q)
    BY <1>4 DEF wait_abort
  <2>2. waiters' \in [Queues -> Seq(Threads)]
    BY <1>1, <2>1, AbortedListEffect
  <2>3. QED BY <1>1, <1>4, <2>2 DEF wait_abort, Unprepare, WaitTypeOK, SchedTypeOK, schedVars
<1>5. CASE \E intr, tmo \in BOOLEAN : wait_sleep(t, q, intr, tmo)
  BY <1>1, <1>5 DEF wait_sleep, WaitTypeOK, SchedTypeOK, schedVars, Calls, WaitPcs
<1>6. QED BY <1>2, <1>3, <1>4, <1>5

\* So do the statements of wait_sleep_timeout.
LEMMA SleepStepType ==
    ASSUME IInv, NEW t \in Threads, SleepStep(t)
    PROVE  WaitTypeOK'
<1>1. WaitTypeOK /\ WaitersExact /\ ThreadInv(t) /\ SchedTypeOK
  BY DEF IInv, WaitTypeOK
<1>2. PICK q \in Queues : q = call[t].q
  BY <1>1 DEF WaitTypeOK, Calls
<1> USE DEF WaitTypeOK
<1>10. ASSUME NEW pc \in WaitPcs, Goto(t, pc) PROVE call' \in [Threads -> Calls]
  <2>1. call[t] \in Calls
    BY <1>1
  <2>2. [call[t] EXCEPT !.pc = pc] \in Calls
    BY <2>1 DEF Calls
  <2>3. QED BY <1>1, <1>10, <2>2 DEF Goto
<1>3. ASSUME Return(t)
      PROVE  /\ call' \in [Threads -> Calls]
             /\ prepared' \in [Threads -> SUBSET Queues]
             /\ wflags' \in [Threads -> [Queues -> SUBSET {"DONE", "SLEEP"}]]
  <2>1. NoCall \in Calls
    BY <1>2, Zenon DEF NoCall, Calls, WaitPcs
  <2>2. QED BY <1>1, <1>2, <1>3, <2>1 DEF Return, Unprepare
<1>4. CASE Enter(t) \/ Arm(t) \/ TimerUnqueue(t)
  <2>1. call' \in [Threads -> Calls]
    BY <1>4, <1>10 DEF Enter, Arm, TimerUnqueue, WaitPcs
  <2>2. timer' \in [Threads -> {"off", "junk", "queued", "done"}]
    BY <1>1, <1>4, Zenon DEF Enter, Arm, TimerUnqueue
  <2>3. QED BY <1>1, <1>4, <2>1, <2>2 DEF Enter, Arm, TimerUnqueue, SchedTypeOK, schedVars
<1>11. CASE TimerRem(t)
  <2>1. PICK late \in BOOLEAN : 
                call' = [call EXCEPT ![t] = [@ EXCEPT !.late = late, !.pc = "unqueue"]]
    BY <1>11, Zenon DEF TimerRem
  <2>4. [call[t] EXCEPT !.late = late, !.pc = "unqueue"] \in Calls
    BY <1>1, Zenon DEF Calls, WaitPcs
  <2>2. call' \in [Threads -> Calls]
    BY <1>1, <2>1, <2>4
  <2>3. QED BY <1>1, <1>11, <2>2 DEF TimerRem, SchedTypeOK, schedVars
<1>5. CASE Suspend(t)
  <2>1. CASE "DONE" \in wflags[t][q]
    BY <1>1, <1>2, <1>3, <1>5, <2>1 DEF Suspend, SchedTypeOK
  <2>2. CASE "DONE" \notin wflags[t][q]
    <3>1. call' \in [Threads -> Calls]
      BY <1>2, <1>5, <1>10, <2>2 DEF Suspend, WaitPcs
    <3>2. sflags' \in [Threads -> SUBSET SFlags]
      BY <1>1, <1>2, <1>5, <2>2 DEF Suspend, sched_set_inactive, SchedTypeOK, SFlags
    <3>3. wflags' \in [Threads -> [Queues -> SUBSET {"DONE", "SLEEP"}]]
      <4>1. wflags' = [wflags EXCEPT ![t][q] = @ \cup {"SLEEP"}]
        BY <1>2, <1>5, <2>2 DEF Suspend
      <4>2. [wflags[t] EXCEPT ![q] = @ \cup {"SLEEP"}] \in [Queues -> SUBSET {"DONE", "SLEEP"}]
        BY <1>1
      <4>3. QED BY <1>1, <4>1, <4>2
    <3>4. QED BY <1>1, <1>2, <1>5, <2>2, <3>1, <3>2, <3>3 DEF Suspend, SchedTypeOK
  <2>3. QED BY <2>1, <2>2
<1>6. CASE Schedule(t)
  <2>1. call' \in [Threads -> Calls]
    BY <1>6, <1>10 DEF Schedule, WaitPcs
  <2>2. QED BY <1>1, <1>6, <2>1, DoScheduleEffect, Zenon DEF Schedule
<1>7. CASE Check(t)
  <2>1. \/ Goto(t, "abort") /\ UNCHANGED <<wflags, prepared>>
        \/ Return(t)
    BY <1>7 DEF Check
  <2>2. call' \in [Threads -> Calls]
    BY <1>3, <1>10, <2>1 DEF WaitPcs
  <2>3. QED BY <1>1, <1>3, <1>7, <2>1, <2>2 DEF Check, SchedTypeOK, schedVars
<1>8. CASE Abort(t)
  <2>1. q \in prepared[t] /\ waiters' = AbortedList(t, q)
    BY <1>1, <1>2, <1>8 DEF Abort, At, ThreadInv, CallInv
  <2>2. waiters' \in [Queues -> Seq(Threads)]
    BY <1>1, <2>1, AbortedListEffect
  <2>3. QED BY <1>1, <1>3, <1>8, <2>2 DEF Abort, SchedTypeOK, schedVars
<1>9. QED BY <1>4, <1>11, <1>5, <1>6, <1>7, <1>8 DEF SleepStep

\* So does what other code does to a thread.
LEMMA KernelType ==
    ASSUME WaitTypeOK, Kernel
    PROVE  WaitTypeOK'
<1>1. SchedTypeOK
  BY DEF WaitTypeOK
<1> USE DEF WaitTypeOK, waitVars
<1>2. ASSUME NEW t \in Threads, timer_intr(t) PROVE WaitTypeOK'
  BY <1>1, <1>2, WakeupEffect, Zenon DEF timer_intr, sched_wakeup, SchedTypeOK
<1>3. ASSUME NEW t \in Threads, Preempt(t) PROVE WaitTypeOK'
  BY <1>1, <1>3, DoScheduleEffect, Zenon DEF Preempt
<1>4. ASSUME NEW t \in Threads, Interrupt(t) PROVE WaitTypeOK'
  <2>1. SchedTypeOK'
    <3>1. PICK W : /\ tstate' = WokenState(W)
                   /\ sflags' = [WokenFlags(W) EXCEPT ![t] = WokenFlags(W)[t] \cup {"INTERRUPTED"}]
      BY <1>4, Zenon DEF Interrupt, sched_interrupt
    <3>2. WokenState(W) \in [Threads -> TStates] /\ WokenFlags(W) \in [Threads -> SUBSET SFlags]
      BY <1>1, WakeupEffect, Zenon
    <3> QED BY <3>1, <3>2 DEF SchedTypeOK, SFlags
  <2>2. QED BY <1>4, <2>1 DEF Interrupt
<1>5. ASSUME NEW t \in Threads, Uret(t) PROVE WaitTypeOK'
  BY <1>1, <1>5 DEF Uret, sched_pending_intr, SchedTypeOK
<1>6. ASSUME NEW t \in Threads, Idle(CpuOf[t]) PROVE WaitTypeOK'
  BY <1>1, <1>6, IdleEffect DEF Idle
<1>7. QED BY <1>2, <1>3, <1>4, <1>5, <1>6 DEF Kernel

\* So do wakeups.
LEMMA WakeupType ==
    ASSUME WaitTypeOK, NEW q \in Queues, NEW W, NEW rest, Wakes(q, W, rest)
    PROVE  WaitTypeOK'
<1>1. SchedTypeOK /\ rest \in Seq(Threads) /\ wakeup_waiter(q, W, rest)
  BY DEF WaitTypeOK, Wakes
<1>2. waiters' \in [Queues -> Seq(Threads)]
  BY <1>1 DEF wakeup_waiter, WaitTypeOK
<1>3. wflags' \in [Threads -> [Queues -> SUBSET {"DONE", "SLEEP"}]]
  BY <1>1 DEF wakeup_waiter, WaitTypeOK
<1>4. SchedTypeOK'
  BY <1>1, WakeupEffect, Zenon DEF wakeup_waiter, sched_wakeup, SchedTypeOK
<1>5. QED BY <1>1, <1>2, <1>3, <1>4 DEF wakeup_waiter, WaitTypeOK

\* Every step keeps the types.
LEMMA TypePreserved ==
    ASSUME IInv, [Next]_vars
    PROVE  WaitTypeOK'
<1>1. WaitTypeOK /\ WaitersExact
  BY DEF IInv
<1>2. CASE UNCHANGED vars
  BY <1>1, <1>2 DEF vars, schedVars, waitVars, WaitTypeOK, SchedTypeOK
<1>3. QED
  BY <1>1, <1>2, NextCases, ClientType, SleepStepType, WakeupType, KernelType
------------------------------------------------------------------------------
\* The invariant holds before the first wait.
LEMMA InitInv == WaitInit => IInv
<1> SUFFICES ASSUME WaitInit PROVE IInv
  OBVIOUS
<1>1. NoCall \in Calls /\ NoCall.pc = "none" /\ NoCall.tmo = FALSE
  BY QueueAssumption DEF NoCall, Calls, WaitPcs
<1> HIDE DEF NoCall
<1>2. WaitTypeOK
  <2>1. waiters \in [Queues -> Seq(Threads)]
    BY DEF WaitInit
  <2>2. QED BY <1>1, <2>1 DEF WaitInit, WaitTypeOK, SchedTypeOK, TStates, SFlags
<1>3. ASSUME NEW t \in Threads PROVE ThreadInv(t)
  BY <1>1 DEF WaitInit, ThreadInv, CallInv, TimerInv, FlagInv, SleepInv, AwakeInv, Asleep,
              Ended, Committed
<1>4. WaitersExact
  <2>1. IsInjective(<<>>) /\ Range(<<>>) = {}
    BY DEF IsInjective, Range
  <2>2. QED BY <2>1 DEF WaitInit, WaitersExact
<1>5. QED BY <1>2, <1>3, <1>4 DEF IInv

\* The inductive invariant of the wait queues, for any threads, queues and cpus.
THEOREM WaitInvariant == Spec => []IInv
<1>1. IInv /\ [Next]_vars => IInv'
  <2>1. SUFFICES ASSUME IInv, [Next]_vars PROVE IInv'
    OBVIOUS
  <2>2. QED
    BY <2>1, ThreadInvPreserved, TypePreserved, WaitersExactPreserved DEF IInv
<1>2. QED BY InitInv, <1>1, PTL DEF Spec

\* Type correctness of the wait queues and of the scheduler state under them.
THEOREM WaitTypes == Spec => []WaitTypeOK
<1>1. IInv => WaitTypeOK
  BY DEF IInv
<1>2. QED BY <1>1, WaitInvariant, PTL

\* No wakeup, interrupt or timeout is lost, however it races with a thread on
\* its way into schedule(): a thread that sleeps has not been woken, and what is
\* to end its wait is still to come (wait.c:81, sched.c:335, 353 and 512).
THEOREM NoLostWakeup == Spec => []NoStrandedSleeper
<1>1. IInv => NoStrandedSleeper
  BY Zenon DEF IInv, NoStrandedSleeper, ThreadInv, CallInv, SleepInv, Asleep, Ended
<1>2. QED BY <1>1, WaitInvariant, PTL

\* The assertion of wait.c:182 never fails.
THEOREM WaitAssertion == Spec => []SleepEndsByWakeup
<1>1. IInv => SleepEndsByWakeup
  BY Zenon DEF IInv, SleepEndsByWakeup, ThreadInv, SleepInv, AwakeInv, Asleep, Ended, Committed, At,
         sched_interrupted
<1>2. QED BY <1>1, WaitInvariant, PTL

\* The assertions of sched.c:340 and sched.c:463 never fail.
THEOREM SchedAssertions == Spec => []InterruptableOnlyInSleep
<1>1. IInv => InterruptableOnlyInSleep
  BY Zenon DEF IInv, InterruptableOnlyInSleep, ThreadInv, SleepInv, Asleep, At, sched_interrupted
<1>2. QED BY <1>1, WaitInvariant, PTL

\* The lists of waiters hold exactly the waiters that are prepared and not woken.
THEOREM ListsExact == Spec => []WaitersExact
<1>1. IInv => WaitersExact
  BY DEF IInv
<1>2. QED BY <1>1, WaitInvariant, PTL

\* No timer of a wait that has moved past timer_stop is queued.
THEOREM TimersStopped == Spec => []NoTimerLeftBehind
<1>1. IInv => NoTimerLeftBehind
  BY Zenon DEF IInv, NoTimerLeftBehind, ThreadInv, TimerInv
<1>2. QED BY <1>1, WaitInvariant, PTL
------------------------------------------------------------------------------
\* A step that concerns no abstract queue is a stuttering step of module WaitQueue.
LEMMA AbstractStutter ==
    ASSUME \A q \in Queues : /\ Waiting(q)' = Waiting(q)
                             /\ Woken(q)' = Woken(q)
                             /\ Bound(q)' = Bound(q)
    PROVE  UNCHANGED WQ!wqVars
BY DEF WQ!wqVars

\* A waiter that goes out of scope leaves its abstract queue.
LEMMA AbstractLeave ==
    ASSUME WaitTypeOK, NEW t \in Threads, NEW q \in prepared[t],
           Unprepare(t, q),
           t \in Bound(q) => "DONE" \in wflags[t][q],
           \A p \in Queues : Bound(p)' = IF p = q THEN Bound(p) \ {t} ELSE Bound(p)
    PROVE  WQ!Leave(t, q)
<1>1. q \in Queues
  BY DEF WaitTypeOK
<1>2. /\ prepared' = [prepared EXCEPT ![t] = @ \ {q}]
      /\ wflags' = [wflags EXCEPT ![t][q] = {}]
  BY DEF Unprepare
<1>3. \A p \in Queues : /\ Waiting(p)' = IF p = q THEN Waiting(p) \ {t} ELSE Waiting(p)
                        /\ Woken(p)' = IF p = q THEN Woken(p) \ {t} ELSE Woken(p)
  BY <1>1, <1>2 DEF WaitTypeOK, Waiting, Woken
<1>4. t \in Waiting(q) \cup Woken(q) /\ (t \in Bound(q) => t \in Woken(q))
  BY <1>1 DEF Waiting, Woken
<1>5. QED BY <1>1, <1>3, <1>4, Zenon DEF WQ!Leave, WQ!In

\* The return of a wait leaves the abstract queue: a wait that only a wakeup can
\* end has had one.
LEMMA AbstractReturn ==
    ASSUME WaitTypeOK, NEW t \in Threads, CallInv(t), call[t].pc # "none", Return(t),
           call[t].intr \/ "DONE" \in wflags[t][call[t].q]
    PROVE  WQ!Leave(t, call[t].q)
<1>1. call[t].q \in prepared[t] /\ call[t].q \in Queues
  BY DEF CallInv, WaitTypeOK, Calls
<1>2. Unprepare(t, call[t].q) /\ call' = [call EXCEPT ![t] = NoCall]
  BY DEF Return
<1>3. NoCall.pc = "none" /\ NoCall.intr = FALSE
  BY DEF NoCall
<1> HIDE DEF NoCall
<1>4. call'[t] = NoCall /\ \A u \in Threads \ {t} : call'[u] = call[u]
  BY <1>2 DEF WaitTypeOK
<1>5. ASSUME NEW p \in Queues
      PROVE  Bound(p)' = IF p = call[t].q THEN Bound(p) \ {t} ELSE Bound(p)
  BY <1>3, <1>4 DEF Bound
<1>6. t \in Bound(call[t].q) => "DONE" \in wflags[t][call[t].q]
  BY DEF Bound
<1>7. QED BY <1>1, <1>2, <1>5, <1>6, AbstractLeave

\* wait_prep, wait_abort and the beginning of a wait.
LEMMA ClientAbstract ==
    ASSUME WaitTypeOK, NEW t \in Threads, Client(t)
    PROVE  [WQ!WqNext]_(WQ!wqVars)
<1>1. PICK q \in Queues : \/ wait_prep(t, q) \/ wait_abort(t, q)
                         \/ \E intr, tmo \in BOOLEAN : wait_sleep(t, q, intr, tmo)
  BY DEF Client
<1>2. CASE wait_prep(t, q)
  <2>1. /\ q \notin prepared[t] /\ call' = call
        /\ prepared' = [prepared EXCEPT ![t] = @ \cup {q}]
        /\ wflags' = [wflags EXCEPT ![t][q] = {}]
    BY <1>2 DEF wait_prep
  <2>2. \A p \in Queues : /\ Waiting(p)' = IF p = q THEN Waiting(p) \cup {t} ELSE Waiting(p)
                          /\ Woken(p)' = Woken(p)
                          /\ Bound(p)' = Bound(p)
    BY <2>1 DEF WaitTypeOK, Waiting, Woken, Bound
  <2>3. t \notin Waiting(q) \cup Woken(q)
    BY <2>1 DEF Waiting, Woken
  <2>4. WQ!Prep(t, q)
    BY <2>2, <2>3, Zenon DEF WQ!Prep, WQ!In
  <2>5. QED BY <2>4 DEF WQ!WqNext
<1>3. CASE wait_abort(t, q)
  <2>1. q \in prepared[t] /\ Unprepare(t, q) /\ call' = call /\ call[t].pc = "none"
    BY <1>3 DEF wait_abort, At
  <2>2. t \notin Bound(q) /\ \A p \in Queues : Bound(p)' = Bound(p)
    BY <2>1 DEF Bound
  <2>3. \A p \in Queues : Bound(p)' = IF p = q THEN Bound(p) \ {t} ELSE Bound(p)
    BY <2>2
  <2>4. WQ!Leave(t, q)
    BY <2>1, <2>2, <2>3, AbstractLeave
  <2>5. QED BY <2>4 DEF WQ!WqNext
<1>4. CASE \E intr, tmo \in BOOLEAN : wait_sleep(t, q, intr, tmo)
  <2>1. PICK intr \in BOOLEAN, tmo \in BOOLEAN : wait_sleep(t, q, intr, tmo)
    BY <1>4
  <2>2. /\ q \in prepared[t] /\ call[t].pc = "none"
        /\ UNCHANGED <<wflags, prepared>>
        /\ call'[t].pc = "enter" /\ call'[t].q = q /\ call'[t].intr = intr
        /\ \A u \in Threads \ {t} : call'[u] = call[u]
    BY <2>1 DEF wait_sleep, At, WaitTypeOK
  <2>3. \A p \in Queues :
            /\ Waiting(p)' = Waiting(p) /\ Woken(p)' = Woken(p)
            /\ Bound(p)' = IF p = q /\ ~intr THEN Bound(p) \cup {t} ELSE Bound(p)
    BY <2>2 DEF Waiting, Woken, Bound
  <2>4. CASE intr
    BY <2>3, <2>4, AbstractStutter
  <2>5. CASE ~intr
    <3>1. t \in Waiting(q) \cup Woken(q)
      BY <2>2 DEF Waiting, Woken
    <3>2. WQ!Bind(t, q)
      BY <2>3, <2>5, <3>1, Zenon DEF WQ!Bind, WQ!In
    <3>3. QED BY <3>2 DEF WQ!WqNext
  <2>6. QED BY <2>4, <2>5
<1>5. QED BY <1>1, <1>2, <1>3, <1>4

\* The statements of wait_sleep_timeout: only its returns show.
LEMMA SleepStepAbstract ==
    ASSUME IInv, NEW t \in Threads, SleepStep(t)
    PROVE  [WQ!WqNext]_(WQ!wqVars)
<1>1. WaitTypeOK /\ ThreadInv(t) /\ CallInv(t)
  BY DEF IInv, ThreadInv
<1> SUFFICES ASSUME NEW q \in Queues, q = call[t].q PROVE [WQ!WqNext]_(WQ!wqVars)
  BY <1>1 DEF WaitTypeOK, Calls
<1>2. ASSUME call[t].pc # "none", Return(t), call[t].intr \/ "DONE" \in wflags[t][q]
      PROVE  [WQ!WqNext]_(WQ!wqVars)
  BY <1>1, <1>2, AbstractReturn DEF WQ!WqNext
<1>3. ASSUME UNCHANGED prepared,
             \A p \in Queues, u \in Threads :
                ("DONE" \in wflags'[u][p]) <=> ("DONE" \in wflags[u][p]),
             \A u \in Threads \ {t} : call'[u] = call[u],
             call[t].pc # "none", call'[t].pc # "none",
             call'[t].q = call[t].q, call'[t].intr = call[t].intr
      PROVE  [WQ!WqNext]_(WQ!wqVars)
  <2>1. \A p \in Queues : Waiting(p)' = Waiting(p) /\ Woken(p)' = Woken(p)
    BY <1>3 DEF Waiting, Woken
  <2>2. ASSUME NEW p \in Queues PROVE Bound(p)' = Bound(p)
    BY <1>3 DEF Bound
  <2>3. QED BY <2>1, <2>2, AbstractStutter
<1>4. ASSUME NEW pc \in WaitPcs \ {"none"}, Goto(t, pc)
      PROVE  /\ \A u \in Threads \ {t} : call'[u] = call[u]
             /\ call'[t].pc # "none" /\ call'[t].q = call[t].q
             /\ call'[t].intr = call[t].intr
  BY <1>1, <1>4 DEF Goto, WaitTypeOK, Calls, WaitPcs
<1>5. CASE Enter(t) \/ Arm(t) \/ Schedule(t) \/ TimerUnqueue(t)
  <2>1. /\ UNCHANGED <<prepared, wflags>> /\ call[t].pc # "none"
        /\ \E pc \in WaitPcs \ {"none"} : Goto(t, pc)
    BY <1>5 DEF Enter, Arm, Schedule, TimerUnqueue, At, WaitPcs
  <2>2. QED BY <1>3, <1>4, <2>1
<1>6. CASE TimerRem(t)
  BY <1>1, <1>3, <1>6 DEF TimerRem, At, WaitTypeOK, Calls
<1>7. CASE Suspend(t)
  <2>1. CASE "DONE" \in wflags[t][q]
    BY <1>2, <1>7, <2>1 DEF Suspend, At
  <2>2. CASE "DONE" \notin wflags[t][q]
    <3>1. /\ UNCHANGED prepared /\ call[t].pc # "none"
          /\ wflags' = [wflags EXCEPT ![t][q] = @ \cup {"SLEEP"}]
          /\ \E pc \in WaitPcs \ {"none"} : Goto(t, pc)
      BY <1>7, <2>2 DEF Suspend, At, WaitPcs
    <3>2. \A p \in Queues, u \in Threads :
                ("DONE" \in wflags'[u][p]) <=> ("DONE" \in wflags[u][p])
      BY <1>1, <3>1 DEF WaitTypeOK
    <3>3. QED BY <1>3, <1>4, <3>1, <3>2
  <2>3. QED BY <2>1, <2>2
<1>8. CASE Check(t)
  <2>1. call[t].pc = "check" /\ tstate[t] = "RUNNING"
    BY <1>8 DEF Check, At
  <2>2. CASE call[t].intr /\ sched_interrupted(t)
    <3>1. UNCHANGED <<prepared, wflags>> /\ Goto(t, "abort") /\ "abort" \in WaitPcs \ {"none"}
      BY <1>8, <2>2 DEF Check, WaitPcs
    <3>2. QED BY <1>3, <1>4, <2>1, <3>1
  <2>3. CASE ~(call[t].intr /\ sched_interrupted(t))
    <3>1. Return(t)
      BY <1>8, <2>3 DEF Check
    <3>2. ~Asleep(t)
      BY <1>1, <2>1 DEF ThreadInv, SleepInv, Asleep
    <3>3. "DONE" \in wflags[t][q]
      BY <1>1, <2>1, <2>3, <3>2, Zenon DEF ThreadInv, AwakeInv, Ended, Committed, sched_interrupted
    <3>4. QED BY <1>2, <2>1, <3>1, <3>3
  <2>4. QED BY <2>2, <2>3
<1>9. CASE Abort(t)
  BY <1>1, <1>2, <1>9 DEF Abort, At, CallInv
<1>10. QED BY <1>5, <1>6, <1>7, <1>8, <1>9 DEF SleepStep

\* A wakeup wakes waiters of the abstract queue.
LEMMA WakeupAbstract ==
    ASSUME WaitTypeOK, WaitersExact, NEW q \in Queues, NEW W \in SUBSET Threads, NEW rest,
           Wakes(q, W, rest)
    PROVE  [WQ!WqNext]_(WQ!wqVars)
<1>1. /\ wflags' = [t \in Threads |->
                      IF t \in W THEN [wflags[t] EXCEPT ![q] = @ \cup {"DONE"}]
                      ELSE wflags[t]]
      /\ prepared' = prepared /\ call' = call
  BY DEF Wakes, wakeup_waiter
<1>2. W \subseteq Waiting(q)
  BY DEF Wakes, WaitersExact, Waiting
<1>3. ASSUME NEW p \in Queues
      PROVE  /\ Waiting(p)' = IF p = q THEN Waiting(p) \ W ELSE Waiting(p)
             /\ Woken(p)' = IF p = q THEN Woken(p) \cup W ELSE Woken(p)
             /\ Bound(p)' = Bound(p)
  BY <1>1, <1>2 DEF WaitTypeOK, Waiting, Woken, Bound
<1>4. WQ!Wake(q, W)
  BY <1>2, <1>3, Zenon DEF WQ!Wake
<1>5. QED BY <1>4 DEF WQ!WqNext

\* The wait queues of wait.c, with the scheduler below them, implement module
\* WaitQueue, for any threads, queues and cpus.
THEOREM WaitImplementsWaitQueue == Spec => ImplementsWaitQueue
<1>1. WaitInit => WQ!WqInit
  <2> SUFFICES ASSUME WaitInit PROVE WQ!WqInit
    OBVIOUS
  <2>1. NoCall.pc = "none"
    BY DEF NoCall
  <2> HIDE DEF NoCall
  <2>2. \A q \in Queues : Waiting(q) = {} /\ Woken(q) = {} /\ Bound(q) = {}
    BY <2>1 DEF WaitInit, Waiting, Woken, Bound
  <2>3. QED BY <2>2 DEF WQ!WqInit
<1>2. IInv /\ [Next]_vars => [WQ!WqNext]_(WQ!wqVars)
  <2>1. SUFFICES ASSUME IInv, [Next]_vars PROVE [WQ!WqNext]_(WQ!wqVars)
    OBVIOUS
  <2>2. WaitTypeOK /\ WaitersExact
    BY <2>1 DEF IInv
  <2>3. CASE UNCHANGED vars
    BY <2>3, AbstractStutter DEF vars, waitVars, Waiting, Woken, Bound
  <2>4. CASE Kernel
    <3>1. UNCHANGED <<wflags, prepared, call>>
      BY <2>4, Zenon DEF Kernel, timer_intr, Preempt, Interrupt, Uret, Idle, waitVars
    <3>2. QED BY <3>1, AbstractStutter DEF Waiting, Woken, Bound
  <2>5. QED
    BY <2>1, <2>2, <2>3, <2>4, NextCases, ClientAbstract, SleepStepAbstract, WakeupAbstract
<1>3. QED BY <1>1, <1>2, WaitInvariant, PTL DEF Spec, ImplementsWaitQueue, WQ!WqSpec
==============================================================================
