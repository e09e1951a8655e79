------------------------------ MODULE Timekeep -------------------------------
(* The clock of the kernel (kern/timekeep.c).  The tick of the boot cpu updates *)
(* the older of two timehands while other cpus read the time without a lock:    *)
(* they pick the current timehands, remember its generation, compute, and start *)
(* over if the generation has changed.  Every load and store is a step.  Time   *)
(* passes in counts of the time counter, Freq of them in a second; the clocks   *)
(* tell nanoseconds, SEC of them in a second, rounded down at every tick.       *)
EXTENDS Integers

CONSTANTS
    Readers,
    SEC,        \* SEC_NANOSECS
    Freq,       \* timecounter->freq
    Mask,       \* timecounter->mask: the counter is read modulo Mask + 1
    TickGap,    \* the longest time between two ticks, in counts
    BootTime,   \* the time of the real time clock at boot
    MaxTime     \* the end of the run, a bound

\* timehands th is updated by every other tick, and timekeep_ts_add carries once.
ASSUME TimekeepAssumption ==
    /\ {SEC, Freq, Mask, TickGap, BootTime, MaxTime} \subseteq Nat
    /\ 0 < SEC /\ 0 < TickGap /\ 2 * TickGap <= Mask /\ 2 * TickGap <= Freq

VARIABLES
    now,        \* the counts since the counter was zero, which is taken to be at boot
    hands,      \* th0 and th1
    timehands,  \* the current one
    tick,       \* timekeep_tick: its step, the generation it read and nsdelta
    at,         \* history: when timekeep_tick last took its count for each timehands
    reader      \* the calls that read the time

vars == <<now, hands, timehands, tick, at, reader>>

TC_GEN_UPDATE == 0
TC_GEN_INIT == 1

Uptime == 0..MaxTime
Timespec == [sec : Nat, nsec : Nat]
Zero == [sec |-> 0, nsec |-> 0]
Calls == {"nanouptime", "getnanouptime", "tsuptime", "realtime"}

\* What a call is doing, when it began and what it returns: nanoseconds for the
\* first two calls, a timespec for the others.
Reader == [call : Calls, pc : {"out", "th", "gen", "time", "sec", "delta", "count", "last",
                              "retry"},
           th : 0..1, gen : Nat, nano : Nat, ts : Timespec, cnt : 0..Mask,
           first : Timespec, pass : 1..2, start : Uptime, low : Uptime]

TimeTypeOK ==
    /\ now \in Uptime
    /\ hands \in [0..1 -> [gen : Nat, last_count : 0..Mask, nanotime : Nat, tstime : Timespec]]
    /\ timehands \in 0..1
    /\ tick \in [pc : {"out", "read", "nano", "ts", "gen", "switch"}, gen : Nat, delta : Nat]
    /\ at \in [0..1 -> Uptime]
    /\ reader \in [Readers -> Reader]

NotReading == [call |-> "nanouptime", pc |-> "out", th |-> 0, gen |-> 0, nano |-> 0,
               ts |-> Zero, cnt |-> 0, first |-> Zero, pass |-> 1, start |-> 0, low |-> 0]

TimeInit ==
    /\ now = 0
    /\ hands = [h \in 0..1 |-> [gen |-> TC_GEN_INIT, last_count |-> 0, nanotime |-> 0,
                                tstime |-> Zero]]
    /\ timehands = 0
    /\ tick = [pc |-> "out", gen |-> 0, delta |-> 0]
    /\ at = [h \in 0..1 |-> 0]
    /\ reader = [r \in Readers |-> NotReading]

\* The counter of the hardware.
tc_read == now % (Mask + 1)

\* (count - last_count) & mask
Delta(count, last) == (count - last) % (Mask + 1)

\* (count * SEC_NANOSECS) / freq
Nanosecs(count) == (count * SEC) \div Freq

timekeep_ts_add(ts, nsec) ==
    IF ts.nsec + nsec >= SEC
    THEN [sec |-> ts.sec + 1, nsec |-> ts.nsec + nsec - SEC]
    ELSE [ts EXCEPT !.nsec = @ + nsec]

ts_add(a, b) == timekeep_ts_add([sec |-> a.sec + b.sec, nsec |-> a.nsec], b.nsec)

nsec_to_ts(n) == [sec |-> n \div SEC, nsec |-> n % SEC]
ts_to_nsec(ts) == ts.sec * SEC + ts.nsec
------------------------------------------------------------------------------
\* Time passes; the tick is at most TickGap late, and so is a tick under way.
Pass ==
    /\ now < MaxTime /\ \E h \in 0..1 : now < at[h] + TickGap
    /\ now' = now + 1
    /\ UNCHANGED <<hands, timehands, tick, at, reader>>

Older == 1 - timehands

\* timekeep_tick; two ticks are at least one count apart.
TickBegin ==
    /\ tick.pc = "out" /\ \A h \in 0..1 : at[h] < now
    /\ hands' = [hands EXCEPT ![Older].gen = TC_GEN_UPDATE]
    /\ tick' = [tick EXCEPT !.pc = "read", !.gen = hands[Older].gen]
    /\ UNCHANGED <<now, timehands, at, reader>>

TickRead ==
    /\ tick.pc = "read"
    /\ tick' = [tick EXCEPT !.pc = "nano",
                            !.delta = Nanosecs(Delta(tc_read, hands[Older].last_count))]
    /\ hands' = [hands EXCEPT ![Older].last_count = tc_read]
    /\ at' = [at EXCEPT ![Older] = now]
    /\ UNCHANGED <<now, timehands, reader>>

TickNano ==
    /\ tick.pc = "nano"
    /\ hands' = [hands EXCEPT ![Older].nanotime = @ + tick.delta]
    /\ tick' = [tick EXCEPT !.pc = "ts"]
    /\ UNCHANGED <<now, timehands, at, reader>>

TickTs ==
    /\ tick.pc = "ts"
    /\ hands' = [hands EXCEPT ![Older].tstime = timekeep_ts_add(@, tick.delta)]
    /\ tick' = [tick EXCEPT !.pc = "gen"]
    /\ UNCHANGED <<now, timehands, at, reader>>

\* Forgets that the update is over.
TickGen_left ==
    /\ tick.pc = "gen"
    /\ tick' = [tick EXCEPT !.pc = "switch"]
    /\ UNCHANGED <<now, hands, timehands, at, reader>>

\* The generation wraps after 2^32 updates, more than a run of MaxTime has.
TickGen ==
    /\ tick.pc = "gen"
    /\ hands' = [hands EXCEPT ![Older].gen = tick.gen + 1]
    /\ tick' = [tick EXCEPT !.pc = "switch"]
    /\ UNCHANGED <<now, timehands, at, reader>>

TickSwitch ==
    /\ tick.pc = "switch"
    /\ timehands' = Older
    /\ tick' = [pc |-> "out", gen |-> 0, delta |-> 0]
    /\ UNCHANGED <<now, hands, at, reader>>
------------------------------------------------------------------------------
Set(r, new) == reader' = [reader EXCEPT ![r] = new] /\ UNCHANGED <<now, hands, timehands, tick, at>>

\* A call begins; low is what a coarse clock may at least be asked for.
Call(r, call) ==
    /\ reader[r].pc = "out"
    /\ Set(r, [NotReading EXCEPT !.call = call, !.pc = "th", !.start = now,
                                 !.low = at[timehands]])

LoadHands(r) ==
    /\ reader[r].pc = "th"
    /\ Set(r, [reader[r] EXCEPT !.pc = "gen", !.th = timehands])

LoadGen(r) ==
    /\ reader[r].pc = "gen"
    /\ Set(r, [reader[r] EXCEPT !.pc = "time", !.gen = hands[reader[r].th].gen])

\* getnanouptime takes the timehands that is updated next.
LoadTime_next(r) ==
    /\ reader[r].pc = "time"
    /\ LET h == hands[reader[r].th] IN
       CASE reader[r].call = "nanouptime" ->
              Set(r, [reader[r] EXCEPT !.pc = "delta", !.nano = h.nanotime])
         [] reader[r].call = "getnanouptime" ->
              Set(r, [reader[r] EXCEPT !.pc = "retry",
                                          !.nano = hands[1 - reader[r].th].nanotime])
         [] OTHER ->
              Set(r, [reader[r] EXCEPT !.pc = "sec", !.ts = [sec |-> h.tstime.sec, nsec |-> 0]])

\* nanotime, or the seconds of tstime.
LoadTime(r) ==
    /\ reader[r].pc = "time"
    /\ LET h == hands[reader[r].th] IN
       CASE reader[r].call = "nanouptime" ->
              Set(r, [reader[r] EXCEPT !.pc = "delta", !.nano = h.nanotime])
         [] reader[r].call = "getnanouptime" ->
              Set(r, [reader[r] EXCEPT !.pc = "retry", !.nano = h.nanotime])
         [] OTHER ->
              Set(r, [reader[r] EXCEPT !.pc = "sec", !.ts = [sec |-> h.tstime.sec, nsec |-> 0]])

\* The nanoseconds of tstime.
LoadNsec(r) ==
    /\ reader[r].pc = "sec"
    /\ Set(r, [reader[r] EXCEPT !.pc = IF reader[r].call = "tsuptime" THEN "delta" ELSE "retry",
                                !.ts.nsec = hands[reader[r].th].tstime.nsec])

\* timekeep_delta reads the counter and last_count, in the order the compiler
\* chooses; "count" and "last" say which of the two cnt holds.
ReadCount(r) ==
    /\ reader[r].pc = "delta"
    /\ Set(r, [reader[r] EXCEPT !.pc = "count", !.cnt = tc_read])

ReadLast(r) ==
    /\ reader[r].pc = "delta"
    /\ Set(r, [reader[r] EXCEPT !.pc = "last", !.cnt = hands[reader[r].th].last_count])

\* timekeep_delta takes the current timehands instead of the one of the caller.
AddDelta_current(r) ==
    /\ reader[r].pc \in {"count", "last"}
    /\ LET delta == IF reader[r].pc = "count"
                    THEN Nanosecs(Delta(reader[r].cnt, hands[timehands].last_count))
                    ELSE Nanosecs(Delta(tc_read, reader[r].cnt))
       IN
       Set(r, IF reader[r].call = "nanouptime"
              THEN [reader[r] EXCEPT !.pc = "retry", !.cnt = 0, !.nano = @ + delta]
              ELSE [reader[r] EXCEPT !.pc = "retry", !.cnt = 0, !.ts = timekeep_ts_add(@, delta)])

AddDelta(r) ==
    /\ reader[r].pc \in {"count", "last"}
    /\ LET delta == IF reader[r].pc = "count"
                    THEN Nanosecs(Delta(reader[r].cnt, hands[reader[r].th].last_count))
                    ELSE Nanosecs(Delta(tc_read, reader[r].cnt))
       IN
       Set(r, IF reader[r].call = "nanouptime"
              THEN [reader[r] EXCEPT !.pc = "retry", !.cnt = 0, !.nano = @ + delta]
              ELSE [reader[r] EXCEPT !.pc = "retry", !.cnt = 0, !.ts = timekeep_ts_add(@, delta)])

timekeep_retry(r) ==
    reader[r].gen = TC_GEN_UPDATE \/ hands[reader[r].th].gen # reader[r].gen

Retry(r) ==
    /\ reader[r].pc = "retry"
    /\ timekeep_retry(r)
    /\ Set(r, [reader[r] EXCEPT !.pc = "th", !.gen = 0, !.nano = 0, !.ts = Zero])

\* realtime asks for the time twice, gettsboottime and gettsuptime.
Again(r) ==
    /\ reader[r].pc = "retry" /\ ~timekeep_retry(r)
    /\ reader[r].call = "realtime" /\ reader[r].pass = 1
    /\ Set(r, [reader[r] EXCEPT !.pc = "th", !.pass = 2, !.ts = Zero,
                                !.first = ts_add(nsec_to_ts(BootTime), reader[r].ts)])

Returning(r) ==
    /\ reader[r].pc = "retry" /\ ~timekeep_retry(r)
    /\ reader[r].call = "realtime" => reader[r].pass = 2

Return(r) ==
    /\ Returning(r)
    /\ Set(r, NotReading)

Tick == TickBegin \/ TickRead \/ TickNano \/ TickTs \/ TickGen \/ TickSwitch

Read(r) ==
    \/ LoadHands(r) \/ LoadGen(r) \/ LoadTime(r) \/ LoadNsec(r)
    \/ ReadCount(r) \/ ReadLast(r) \/ AddDelta(r)
    \/ Retry(r) \/ Again(r) \/ Return(r)

Next ==
    \/ Pass \/ Tick
    \/ \E r \in Readers : Read(r) \/ \E call \in Calls : Call(r, call)

Spec == TimeInit /\ [][Next]_vars

\* A reader runs on, and so does the tick once begun.
FairSpec == Spec /\ WF_vars(Tick) /\ \A r \in Readers : WF_vars(Read(r))
------------------------------------------------------------------------------
\* The clock n tells the time at count c, of which at most lost nanoseconds were
\* rounded away.
Tells(n, c, lost) == Nanosecs(c) - n \in 0..lost

\* What nanouptime and tsuptime return is a time within the call, although the
\* hands change under the reader and the counter wraps, but for the nanosecond
\* that each update of the timehands, and the call itself, may round away.  The
\* generation of a timehands counts its updates from TC_GEN_INIT.
ReadsUptime ==
    \A r \in Readers : Returning(r) =>
        LET x == reader[r] IN
        /\ x.call = "nanouptime" => \E c \in x.start..now : Tells(x.nano, c, x.gen)
        /\ x.call = "tsuptime" => \E c \in x.start..now : Tells(ts_to_nsec(x.ts), c, x.gen)

\* What getnanouptime returns is the time of a tick no older than the last one
\* that had been finished when it was called, but for what the updates have
\* rounded away.
CoarseRecent ==
    \A r \in Readers : Returning(r) /\ reader[r].call = "getnanouptime" =>
        \E c \in reader[r].low..now : Tells(reader[r].nano, c, reader[r].gen - TC_GEN_INIT)

\* The two clocks of a timehands, nanoseconds and timespec, tell the same time,
\* and one carry has been enough at every tick (timekeep.c:90).
HandsAgree ==
    \A h \in 0..1 : hands[h].gen # TC_GEN_UPDATE =>
        /\ hands[h].nanotime = ts_to_nsec(hands[h].tstime)
        /\ hands[h].tstime.nsec < SEC

\* What a timehands tells at this moment.
Reading(h) == hands[h].nanotime + Nanosecs(Delta(tc_read, hands[h].last_count))

\* The time does not step back when the current timehands changes.  Each of the
\* two rounds on its own, so that it can.
StepsForward == tick.pc = "switch" => Reading(timehands) <= Reading(Older)

\* A reader that starts over does not do so for ever; the ticks end with the run.
ReadsEnd == \A r \in Readers : reader[r].pc = "th" ~> reader[r].pc = "out"

\* The assertion of timekeep_ts_add (timekeep.c:90): one carry is enough.  The
\* reader adds before it finds out that it has to start over.
CarryOnce == \A r \in Readers : reader[r].ts.nsec < SEC

\* "Get the current time." (include/kern/time.h:60): the time of boot and the
\* uptime at the latest tick at some moment of the call.
RealtimeIsTheTime ==
    \A r \in Readers : Returning(r) /\ reader[r].call = "realtime" =>
        ts_to_nsec(ts_add(reader[r].first, reader[r].ts)) <= BootTime + Nanosecs(now)
==============================================================================
