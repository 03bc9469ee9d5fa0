------------------------------ MODULE ProcReader ------------------------------
(***************************************************************************)
(* The agent's ProcReader (agent/src/proc_reader.cpp): Sample() reads the  *)
(* kernel's counters, any of which may be unreadable in a cycle, and turns *)
(* them into percentages and rates against what it kept from the cycle     *)
(* before.                                                                 *)
(*                                                                         *)
(* /proc/diskstats and /proc/net/dev are treated alike by the code: each   *)
(* file gives a pair of cumulative counters.  /proc/stat gives CPU ticks,  *)
(* here busy (everything but idle and iowait), idle and iowait.  A rate is *)
(* kept as a fraction: num units in den ticks of the monotonic clock.      *)
(***************************************************************************)
EXTENDS Integers

CONSTANTS
    Files,          \* the files with a pair of counters: diskstats, net/dev
    Gauges,         \* metrics reported as read: load1, memory, proc_count
    MaxTime,        \* bound: ticks of the monotonic clock
    MaxCount        \* bound: the largest counter value

ASSUME BoundsAssumption == MaxTime \in Nat /\ MaxCount \in Nat \ {0}
ASSUME FilesAssumption == "stat" \notin Files

VARIABLES
    now,        \* CLOCK_MONOTONIC
    cpu,        \* /proc/stat
    disk,       \* disk[f]: the pair of counters in file f
    has_prior,  \* has_prior_sample_
    prior_mono, \* prior_mono_ns_
    prior_cpu,  \* prior_cpu_ticks_
    prior,      \* prior_disk_, prior_net_
    readings,   \* the rates and percentages of the last Sample()
    gauged,     \* the gauges of the last Sample()
    was_read,   \* history: the sources the last two Samples could read
    counted,    \* history: what the counters were at these two Samples
    sampled_at, \* history: when these two Samples were taken
    ticked      \* history: the CPU ticks at the last two reads of /proc/stat

world == <<now, cpu, disk>>
kept  == <<has_prior, prior_mono, prior_cpu, prior>>
hist  == <<was_read, counted, sampled_at, ticked>>
vars  == <<world, kept, readings, gauged, hist>>

Ticks   == [busy : 0 .. MaxCount, idle : 0 .. MaxCount, iowait : 0 .. MaxCount]
Pairs   == [in : 0 .. MaxCount, out : 0 .. MaxCount]
Sources == Files \cup {"stat"}
ZeroTicks == [busy |-> 0, idle |-> 0, iowait |-> 0]
ZeroPair  == [in |-> 0, out |-> 0]

Total(t) == t.busy + t.idle + t.iowait

Init ==
    /\ now = 0
    /\ cpu = [busy |-> 1, idle |-> 0, iowait |-> 1]
    /\ disk = [f \in Files |-> [in |-> 1, out |-> 1]]
    /\ has_prior = FALSE /\ prior_mono = 0
    /\ prior_cpu = ZeroTicks
    /\ prior = [f \in Files |-> ZeroPair]
    /\ readings = {} /\ gauged = {}
    /\ was_read = [now |-> {}, before |-> {}]
    /\ counted = [now |-> disk, before |-> disk]
    /\ sampled_at = [now |-> 0, before |-> 0]
    /\ ticked = [now |-> ZeroTicks, before |-> ZeroTicks]

-----------------------------------------------------------------------------
(* Time passes and the kernel counts: perhaps a CPU tick, which is busy,    *)
(* idle or iowait, or iowait drops (proc(5) calls it unreliable); a file's  *)
(* counters grow, or fall back when a device or interface goes.             *)
Tick ==
    /\ now < MaxTime
    /\ now' = now + 1
    /\ \/ UNCHANGED cpu
       \/ \E kind \in DOMAIN cpu :
            cpu[kind] < MaxCount /\ cpu' = [cpu EXCEPT ![kind] = @ + 1]
       \/ cpu.iowait > 0 /\ cpu' = [cpu EXCEPT !.iowait = @ - 1]
    /\ \/ UNCHANGED disk
       \/ \E f \in Files, c \in {"in", "out"} :
            \/ disk[f][c] < MaxCount /\ disk' = [disk EXCEPT ![f][c] = @ + 1]
            \/ disk' = [disk EXCEPT ![f] = ZeroPair]
    /\ UNCHANGED <<kept, readings, gauged, hist>>

-----------------------------------------------------------------------------
(* Sample(), for the set of sources that could be read in this cycle.       *)

(* A metric is named by the source it comes from and what it measures there.*)
Reading(source, kind, num, den) ==
    [source |-> source, kind |-> kind, num |-> num, den |-> den]

Rates(f) ==
    {Reading(f, c, disk[f][c] - prior[f][c], now - prior_mono) : c \in {"in", "out"}}

(* A faulty variant: iowait counted as active time as well.                 *)
CpuReadingsIowaitActive ==
    LET delta == Total(cpu) - Total(prior_cpu)
    IN  IF delta > 0
          THEN {Reading("stat", "cpu_pct", delta - (cpu.idle - prior_cpu.idle), delta),
                Reading("stat", "iowait_pct", cpu.iowait - prior_cpu.iowait, delta)}
          ELSE {}

(* cpu_pct and iowait_pct as fractions of the ticks since the prior read.   *)
CpuReadings ==
    LET delta == Total(cpu) - Total(prior_cpu)
    IN  IF delta > 0
          THEN {Reading("stat", "cpu_pct", cpu.busy - prior_cpu.busy, delta),
                Reading("stat", "iowait_pct", cpu.iowait - prior_cpu.iowait, delta)}
          ELSE {}

(* A faulty variant: the first counter's check stands for both.             *)
RateReadingsOneCheck(f) ==
    IF disk[f].in >= prior[f].in
      THEN Rates(f)
      ELSE {}

(* Both rates of a file, unless one of its counters went backwards.         *)
RateReadings(f) ==
    IF disk[f].in >= prior[f].in /\ disk[f].out >= prior[f].out
      THEN Rates(f)
      ELSE {}

(* A faulty variant: a second Sample() within the same tick divides by zero.*)
DerivedWithoutElapsed(readable) ==
    IF has_prior
      THEN (IF "stat" \in readable THEN CpuReadings ELSE {})
             \cup UNION {RateReadings(f) : f \in Files \cap readable}
      ELSE {}

(* The rates need a prior Sample() and time since then.                     *)
Derived(readable) ==
    IF has_prior /\ now > prior_mono
      THEN (IF "stat" \in readable THEN CpuReadings ELSE {})
             \cup UNION {RateReadings(f) : f \in Files \cap readable}
      ELSE {}

(* A faulty variant: the prior counters are kept from the first sample on.  *)
NeverRefreshed(readable) ==
    [f \in Files |-> IF f \in readable /\ ~has_prior THEN disk[f] ELSE prior[f]]

(* The counters are kept if read; the time always is.                       *)
Refreshed(readable) ==
    [f \in Files |-> IF f \in readable THEN disk[f] ELSE prior[f]]

Sample ==
    \E readable \in SUBSET Sources, gauges \in SUBSET Gauges :
        /\ readings' = Derived(readable)
        /\ gauged' = gauges
        /\ prior_cpu' = IF "stat" \in readable THEN cpu ELSE prior_cpu
        /\ prior' = Refreshed(readable)
        /\ prior_mono' = now
        /\ has_prior' = TRUE
        /\ was_read' = [now |-> readable, before |-> was_read.now]
        /\ counted' = [now |-> disk, before |-> counted.now]
        /\ sampled_at' = [now |-> now, before |-> sampled_at.now]
        /\ ticked' = IF "stat" \in readable
                       THEN [now |-> cpu, before |-> ticked.now] ELSE ticked
        /\ UNCHANGED world

Next == Tick \/ Sample

Spec == Init /\ [][Next]_vars

-----------------------------------------------------------------------------
(* Properties.                                                              *)

TypeOK ==
    /\ now \in 0 .. MaxTime
    /\ cpu \in Ticks /\ prior_cpu \in Ticks
    /\ disk \in [Files -> Pairs] /\ prior \in [Files -> Pairs]
    /\ has_prior \in BOOLEAN /\ prior_mono \in 0 .. now
    /\ \A r \in readings : r.source \in Sources /\ r.num \in Int /\ r.den \in Nat \ {0}
    /\ gauged \subseteq Gauges
    /\ was_read \in [now : SUBSET Sources, before : SUBSET Sources]
    /\ counted \in [now : [Files -> Pairs], before : [Files -> Pairs]]
    /\ sampled_at \in [now : 0 .. now, before : 0 .. now]
    /\ ticked \in [now : Ticks, before : Ticks]

(* A file rate is never negative, although counters may go backwards, reads *)
(* may fail in any order and the kept counters may be older than a cycle.   *)
RatesNotNegative ==
    \A r \in readings : r.source \in Files => r.num >= 0

(* The data contract (BUILD_PLAN section 7): "cpu_pct and iowait_pct are    *)
(* percentages in the range 0 to 100".  Sample() subtracts and divides      *)
(* without a check of the sign of what it subtracted.                       *)
PercentagesInRange ==
    \A r \in readings : r.source = "stat" => 0 <= r.num /\ r.num <= r.den

TogetherAtMostWhole ==
    \A c, w \in readings :
        (c.kind = "cpu_pct" /\ w.kind = "iowait_pct") => c.num + w.num <= c.den

(* The one way out of the contract: the kernel's iowait was smaller at this *)
(* read of /proc/stat than at the one before, however many Samples and      *)
(* failed reads ago that was.  Otherwise both percentages are in range and  *)
(* are shares of one whole.                                                 *)
OutOfRangeOnlyByIowaitDrop ==
    ticked.now.iowait >= ticked.before.iowait
        => PercentagesInRange /\ TogetherAtMostWhole

IsTrueRate(r) ==
    /\ r.num = counted.now[r.source][r.kind] - counted.before[r.source][r.kind]
    /\ r.den = sampled_at.now - sampled_at.before

(* A rate comes from a file just read, and if the Sample() before could     *)
(* read it too, it is what the counter did in the time the rate is divided  *)
(* by, whatever failed earlier.                                             *)
ConsecutiveReadsGiveTrueRate ==
    \A r \in readings : r.source \in Files =>
        /\ r.source \in was_read.now
        /\ r.source \in was_read.before => IsTrueRate(r)

(* The data contract: rates come "from consecutive raw counter deltas       *)
(* divided by the elapsed wall time between samples", so a rate's numerator *)
(* is what its counter did in the interval of its denominator.              *)
EveryRateIsTrue == \A r \in readings : r.source \in Files => IsTrueRate(r)
=============================================================================
