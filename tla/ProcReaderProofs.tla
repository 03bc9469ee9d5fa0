--------------------------- MODULE ProcReaderProofs ---------------------------
(***************************************************************************)
(* Proofs about ProcReader for any files, gauges, counters and run times:  *)
(* what the rates and percentages of a Sample() mean.                      *)
(*                                                                         *)
(* Type correctness says nothing of the kept counters.  The invariants add *)
(* that the kept CPU ticks are not ahead of the kernel's (only iowait may  *)
(* drop), and that what Sample() kept is what it saw: the ticks at the     *)
(* last read of /proc/stat, the time of the last Sample(), and the         *)
(* counters of each file that one could read.                              *)
(***************************************************************************)
EXTENDS ProcReader, TLAPS

(* busy and idle only grow, so the prior ones are not larger.               *)
TicksInv == prior_cpu.busy <= cpu.busy /\ prior_cpu.idle <= cpu.idle

(* prior_cpu_ticks_, prior_mono_ns_, prior_disk_ and prior_net_ hold what   *)
(* Sample() saw when it last could.                                         *)
KeptInv ==
    /\ prior_cpu = ticked.now
    /\ prior_mono = sampled_at.now
    /\ \A f \in Files : f \in was_read.now => prior[f] = counted.now[f]

Inv == TypeOK /\ TicksInv /\ KeptInv /\ RatesNotNegative
       /\ OutOfRangeOnlyByIowaitDrop /\ ConsecutiveReadsGiveTrueRate

-----------------------------------------------------------------------------
(* What a Sample() derives: percentages of the CPU, if it read the ticks,   *)
(* or the rate of a file that it read, whose counters did not go backwards. *)
IsPercentage(r, readable) ==
    LET delta == Total(cpu) - Total(prior_cpu)
    IN  /\ "stat" \in readable
        /\ delta > 0 /\ r.source = "stat" /\ r.den = delta
        /\ \/ r.kind = "cpu_pct" /\ r.num = cpu.busy - prior_cpu.busy
           \/ r.kind = "iowait_pct" /\ r.num = cpu.iowait - prior_cpu.iowait

IsRate(r, readable) ==
    \E f \in Files \cap readable, c \in {"in", "out"} :
        /\ now > prior_mono
        /\ r.source = f /\ r.kind = c /\ r.den = now - prior_mono
        /\ r.num = disk[f][c] - prior[f][c] /\ disk[f][c] >= prior[f][c]

(* Sample() emits percentages of /proc/stat and rates of a counter.         *)
LEMMA DerivedReadings ==
    ASSUME TypeOK, NEW readable \in SUBSET Sources, NEW r \in Derived(readable)
    PROVE  IsPercentage(r, readable) \/ IsRate(r, readable)
<1>1. has_prior /\ now > prior_mono
  BY DEF Derived
<1>2. \/ "stat" \in readable /\ r \in CpuReadings
      \/ \E f \in Files \cap readable : r \in RateReadings(f)
  BY DEF Derived
<1>3. CASE "stat" \in readable /\ r \in CpuReadings
  <2>1. Total(cpu) - Total(prior_cpu) > 0
    BY <1>3 DEF CpuReadings
  <2>2. \/ r = Reading("stat", "cpu_pct", cpu.busy - prior_cpu.busy,
                       Total(cpu) - Total(prior_cpu))
        \/ r = Reading("stat", "iowait_pct", cpu.iowait - prior_cpu.iowait,
                       Total(cpu) - Total(prior_cpu))
    BY <1>3, <2>1 DEF CpuReadings
  <2> QED BY <1>3, <2>1, <2>2 DEF Reading, IsPercentage
<1>4. ASSUME NEW f \in Files \cap readable, r \in RateReadings(f)
      PROVE  IsRate(r, readable)
  <2>1. disk[f].in >= prior[f].in /\ disk[f].out >= prior[f].out
    BY <1>4 DEF RateReadings
  <2>2. PICK c \in {"in", "out"} :
          r = Reading(f, c, disk[f][c] - prior[f][c], now - prior_mono)
    BY <1>4, <2>1 DEF RateReadings, Rates
  <2> QED BY <1>1, <2>1, <2>2 DEF Reading, IsRate
<1> QED BY <1>2, <1>3, <1>4

-----------------------------------------------------------------------------
(* At boot no counter is below zero and nothing has been read.              *)
LEMMA InitInv == Init => Inv
<1> SUFFICES ASSUME Init PROVE Inv
  OBVIOUS
<1>1. disk \in [Files -> Pairs] /\ prior \in [Files -> Pairs]
  BY BoundsAssumption DEF Init, Pairs, ZeroPair
<1>2. cpu \in Ticks /\ prior_cpu \in Ticks
  BY BoundsAssumption DEF Init, Ticks, ZeroTicks
<1>3. has_prior \in BOOLEAN
  BY Zenon DEF Init
<1>4. TypeOK
  BY <1>1, <1>2, <1>3, BoundsAssumption DEF Init, TypeOK
<1>5. TicksInv /\ KeptInv
  BY DEF Init, TicksInv, KeptInv, ZeroTicks
<1>6. RatesNotNegative /\ OutOfRangeOnlyByIowaitDrop /\ ConsecutiveReadsGiveTrueRate
  BY DEF Init, RatesNotNegative, OutOfRangeOnlyByIowaitDrop, PercentagesInRange,
     TogetherAtMostWhole, ConsecutiveReadsGiveTrueRate
<1> QED BY <1>4, <1>5, <1>6 DEF Inv

(* The kernel's counters move; nothing the agent has computed does.         *)
LEMMA TickInv == Inv /\ Tick => Inv'
<1> SUFFICES ASSUME Inv, Tick PROVE Inv'
  OBVIOUS
<1>1. UNCHANGED <<kept, readings, gauged, hist>> /\ now' = now + 1 /\ now < MaxTime
  BY DEF Tick
<1>2. cpu \in Ticks /\ disk \in [Files -> Pairs]
  BY DEF Inv, TypeOK
<1>3. cpu' \in Ticks /\ cpu'.busy >= cpu.busy /\ cpu'.idle >= cpu.idle
  <2>1. CASE UNCHANGED cpu
    BY <1>2, <2>1 DEF Ticks
  <2>2. ASSUME NEW kind \in DOMAIN cpu, cpu[kind] < MaxCount,
               cpu' = [cpu EXCEPT ![kind] = @ + 1]
        PROVE  cpu' \in Ticks /\ cpu'.busy >= cpu.busy /\ cpu'.idle >= cpu.idle
    <3>1. kind \in {"busy", "idle", "iowait"}
      BY <1>2 DEF Ticks
    <3> QED BY <1>2, <2>2, <3>1, BoundsAssumption DEF Ticks
  <2>3. CASE cpu.iowait > 0 /\ cpu' = [cpu EXCEPT !.iowait = @ - 1]
    BY <1>2, <2>3, BoundsAssumption DEF Ticks
  <2> QED BY <2>1, <2>2, <2>3 DEF Tick
<1>4. disk' \in [Files -> Pairs]
  <2>1. CASE UNCHANGED disk
    BY <1>2, <2>1
  <2>2. ASSUME NEW f \in Files, NEW c \in {"in", "out"}, disk[f][c] < MaxCount,
               disk' = [disk EXCEPT ![f][c] = @ + 1]
        PROVE  disk' \in [Files -> Pairs]
    <3>1. disk[f] \in Pairs
      BY <1>2
    <3>2. [disk[f] EXCEPT ![c] = disk[f][c] + 1] \in Pairs
      BY <2>2, <3>1, BoundsAssumption DEF Pairs
    <3>3. disk' = [disk EXCEPT ![f] = [disk[f] EXCEPT ![c] = disk[f][c] + 1]]
      BY <2>2
    <3> QED BY <1>2, <3>2, <3>3
  <2>3. ASSUME NEW f \in Files, disk' = [disk EXCEPT ![f] = ZeroPair]
        PROVE  disk' \in [Files -> Pairs]
    BY <1>2, <2>3, BoundsAssumption DEF Pairs, ZeroPair
  <2> QED BY <2>1, <2>2, <2>3 DEF Tick
<1>5. TypeOK'
  BY <1>1, <1>3, <1>4, BoundsAssumption DEF Inv, TypeOK, kept, hist
<1>6. TicksInv' /\ KeptInv'
  BY <1>1, <1>2, <1>3 DEF Inv, TypeOK, TicksInv, KeptInv, Ticks, kept, hist
<1>7. (RatesNotNegative /\ OutOfRangeOnlyByIowaitDrop /\ ConsecutiveReadsGiveTrueRate)'
  BY <1>1 DEF Inv, RatesNotNegative, OutOfRangeOnlyByIowaitDrop, PercentagesInRange,
     TogetherAtMostWhole, ConsecutiveReadsGiveTrueRate, IsTrueRate, kept, hist
<1> QED BY <1>5, <1>6, <1>7 DEF Inv

(* Sample() derives from what it kept, then keeps what it read.             *)
LEMMA SampleInv == Inv /\ Sample => Inv'
<1> SUFFICES ASSUME Inv, Sample PROVE Inv'
  OBVIOUS
<1>1. PICK readable \in SUBSET Sources :
        /\ readings' = Derived(readable)
        /\ prior_cpu' = IF "stat" \in readable THEN cpu ELSE prior_cpu
        /\ prior' = Refreshed(readable)
        /\ prior_mono' = now
        /\ was_read' = [now |-> readable, before |-> was_read.now]
        /\ counted' = [now |-> disk, before |-> counted.now]
        /\ sampled_at' = [now |-> now, before |-> sampled_at.now]
        /\ ticked' = IF "stat" \in readable
                       THEN [now |-> cpu, before |-> ticked.now] ELSE ticked
        /\ UNCHANGED world
  BY DEF Sample
<1>2. /\ now \in Nat /\ prior_mono \in 0 .. now
      /\ cpu \in Ticks /\ prior_cpu \in Ticks
      /\ disk \in [Files -> Pairs] /\ prior \in [Files -> Pairs]
      /\ was_read \in [now : SUBSET Sources, before : SUBSET Sources]
      /\ counted \in [now : [Files -> Pairs], before : [Files -> Pairs]]
      /\ sampled_at \in [now : 0 .. now, before : 0 .. now]
      /\ ticked \in [now : Ticks, before : Ticks]
  BY DEF Inv, TypeOK
<1>3. \A r \in readings' : IsPercentage(r, readable) \/ IsRate(r, readable)
  BY <1>1, DerivedReadings DEF Inv
<1>4. \A r : IsPercentage(r, readable) =>
        /\ "stat" \in readable /\ r.source = "stat" /\ r.num \in Int /\ r.den \in Nat \ {0}
        /\ r.kind \in {"cpu_pct", "iowait_pct"}
        /\ r.den = (cpu.busy - prior_cpu.busy) + (cpu.idle - prior_cpu.idle)
                     + (cpu.iowait - prior_cpu.iowait)
        /\ r.kind = "cpu_pct" => r.num = cpu.busy - prior_cpu.busy
        /\ r.kind = "iowait_pct" => r.num = cpu.iowait - prior_cpu.iowait
  BY <1>2 DEF IsPercentage, Total, Ticks
<1>5. \A r : IsRate(r, readable) =>
        /\ r.source \in Files \cap readable /\ r.kind \in {"in", "out"}
        /\ r.den \in Nat \ {0} /\ r.num \in Nat
        /\ r.den = now - prior_mono
        /\ r.num = disk[r.source][r.kind] - prior[r.source][r.kind]
  <2> SUFFICES ASSUME NEW r, NEW f \in Files \cap readable, NEW c \in {"in", "out"},
                      now > prior_mono,
                      r.source = f, r.kind = c, r.den = now - prior_mono,
                      r.num = disk[f][c] - prior[f][c], disk[f][c] >= prior[f][c]
               PROVE  r.den \in Nat \ {0} /\ r.num \in Nat
    BY DEF IsRate
  <2>1. disk[f] \in Pairs /\ prior[f] \in Pairs
    BY <1>2
  <2>2. disk[f][c] \in Nat /\ prior[f][c] \in Nat
    BY <2>1 DEF Pairs
  <2> QED BY <1>2, <2>2
<1>6. TypeOK'
  <2>1. has_prior' \in BOOLEAN
    BY Zenon DEF Sample
  <2>2. gauged' \subseteq Gauges
    BY DEF Sample
  <2>3. \A r \in readings' : r.source \in Sources /\ r.num \in Int /\ r.den \in Nat \ {0}
    BY <1>3, <1>4, <1>5 DEF Sources
  <2>4. prior_cpu' \in Ticks /\ prior' \in [Files -> Pairs]
    BY <1>1, <1>2 DEF Refreshed
  <2>5. /\ was_read' \in [now : SUBSET Sources, before : SUBSET Sources]
        /\ counted' \in [now : [Files -> Pairs], before : [Files -> Pairs]]
    BY <1>1, <1>2
  <2>6. /\ sampled_at' \in [now : 0 .. now, before : 0 .. now]
        /\ ticked' \in [now : Ticks, before : Ticks]
    BY <1>1, <1>2
  <2> QED BY <1>1, <1>2, <2>1, <2>2, <2>3, <2>4, <2>5, <2>6 DEF Inv, TypeOK, world
<1>7. TicksInv'
  BY <1>1, <1>2 DEF Inv, TicksInv, Ticks, world
<1>8. KeptInv'
  BY <1>1, <1>2 DEF Inv, KeptInv, Refreshed
<1>9. RatesNotNegative'
  BY <1>3, <1>4, <1>5, FilesAssumption DEF RatesNotNegative
<1>10. OutOfRangeOnlyByIowaitDrop'
  <2> SUFFICES ASSUME ticked'.now.iowait >= ticked'.before.iowait
               PROVE  PercentagesInRange' /\ TogetherAtMostWhole'
    BY DEF OutOfRangeOnlyByIowaitDrop
  <2>1. ASSUME "stat" \in readable PROVE cpu.iowait >= prior_cpu.iowait
    BY <1>1, <1>2, <2>1 DEF Inv, KeptInv
  <2>2. ASSUME NEW r \in readings', r.source = "stat"
        PROVE  IsPercentage(r, readable) /\ 0 <= r.num /\ r.num <= r.den
    <3>1. IsPercentage(r, readable)
      BY <1>3, <1>5, <2>2, FilesAssumption
    <3> QED BY <1>2, <1>4, <2>1, <3>1 DEF Inv, TicksInv, Ticks
  <2>3. PercentagesInRange'
    BY <2>2 DEF PercentagesInRange
  <2>4. TogetherAtMostWhole'
    <3> SUFFICES ASSUME NEW c \in readings', NEW w \in readings',
                        c.kind = "cpu_pct", w.kind = "iowait_pct"
                 PROVE  c.num + w.num <= c.den
      BY DEF TogetherAtMostWhole
    <3>1. IsPercentage(c, readable) /\ IsPercentage(w, readable)
      BY <1>3, <1>5
    <3> QED BY <1>2, <1>4, <3>1 DEF Inv, TicksInv, Ticks
  <2> QED BY <2>3, <2>4
<1>11. ConsecutiveReadsGiveTrueRate'
  <2> SUFFICES ASSUME NEW r \in readings', r.source \in Files
               PROVE  /\ r.source \in was_read'.now
                      /\ r.source \in was_read'.before => IsTrueRate(r)'
    BY DEF ConsecutiveReadsGiveTrueRate
  <2>1. /\ r.source \in Files \cap readable
        /\ r.num = disk[r.source][r.kind] - prior[r.source][r.kind]
        /\ r.den = now - prior_mono
    BY <1>3, <1>4, <1>5, FilesAssumption
  <2>2. was_read'.now = readable /\ was_read'.before = was_read.now
    BY <1>1
  <2>3. counted'.now = disk /\ counted'.before = counted.now
    BY <1>1
  <2>4. r.source \in was_read.now => prior[r.source] = counted.now[r.source]
    BY DEF Inv, KeptInv
  <2>5. sampled_at'.now = now /\ sampled_at'.before = prior_mono
    BY <1>1 DEF Inv, KeptInv
  <2> QED BY <2>1, <2>2, <2>3, <2>4, <2>5 DEF IsTrueRate
<1> QED BY <1>6, <1>7, <1>8, <1>9, <1>10, <1>11 DEF Inv

(* Sample() and the kernel keep Inv.                                        *)
LEMMA StepInv == Inv /\ [Next]_vars => Inv'
<1> SUFFICES ASSUME Inv, UNCHANGED vars PROVE Inv'
  BY TickInv, SampleInv DEF Next
<1> QED BY DEF vars, world, kept, hist, Inv, TypeOK, TicksInv, KeptInv, RatesNotNegative,
     OutOfRangeOnlyByIowaitDrop, PercentagesInRange, TogetherAtMostWhole,
     ConsecutiveReadsGiveTrueRate, IsTrueRate

(* Inv holds for any pattern of readable files and any counters.            *)
THEOREM Invariance == Spec => []Inv
BY InitInv, StepInv, PTL DEF Spec

-----------------------------------------------------------------------------
(* Type correctness; in it, that no percentage or rate divides by zero.     *)
THEOREM TypeCorrect == Spec => []TypeOK
<1>1. Inv => TypeOK
  BY DEF Inv
<1> QED BY <1>1, Invariance, PTL

(* No file rate that Sample() reports is negative, for any pattern of       *)
(* unreadable files and counters that fall back.                            *)
THEOREM RatesStayNotNegative == Spec => []RatesNotNegative
<1>1. Inv => RatesNotNegative
  BY DEF Inv
<1> QED BY <1>1, Invariance, PTL

(* cpu_pct and iowait_pct leave the range 0 to 100 of the data contract in  *)
(* one case only, when the kernel's iowait is smaller than at the read of   *)
(* /proc/stat before; in it they do (PercentagesInRange is violated).  In   *)
(* every other case they are in range and together at most the whole,       *)
(* however many reads failed in between.                                    *)
THEOREM OnlyIowaitDropLeavesRange == Spec => []OutOfRangeOnlyByIowaitDrop
<1>1. Inv => OutOfRangeOnlyByIowaitDrop
  BY DEF Inv
<1> QED BY <1>1, Invariance, PTL

(* After two reads in a row a rate is what the counter did between the two  *)
(* Samples, over the time between them.                                     *)
THEOREM ConsecutiveReadsStayTrue == Spec => []ConsecutiveReadsGiveTrueRate
<1>1. Inv => ConsecutiveReadsGiveTrueRate
  BY DEF Inv
<1> QED BY <1>1, Invariance, PTL
=============================================================================
