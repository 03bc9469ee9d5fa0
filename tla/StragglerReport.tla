--------------------------- MODULE StragglerReport ---------------------------
(***************************************************************************)
(* GET straggler_report (api.py): the ranking of a phase, and for its top  *)
(* candidate the root cause: the metric of the node that rose most over    *)
(* its mean before the phase, read at the sample nearest to the middle of  *)
(* the phase.  Both are read from the newest rows of the node's series,    *)
(* and samples keep arriving: when the report is asked for matters.        *)
(*                                                                         *)
(* Times are those of the phase's realtime clock; sample i is taken at     *)
(* i * SampleInterval and stored in that order (DeliverySpec).  A metric   *)
(* that could not be read has no row.  Deltas are fractions <<num, den>>,  *)
(* with <<1, 0>> for the infinite one.                                     *)
(***************************************************************************)
EXTENDS Straggler

CONSTANTS
    Readings,           \* bound: what one sample may read, by metric
    Unread,             \* no reading of a metric
    SampleInterval, PhaseStart, PhaseEnd,
    Radius,             \* _ROOT_CAUSE_SEARCH_RADIUS_NS
    Window,             \* _ROOT_CAUSE_BASELINE_WINDOW_NS
    NearestLimit,       \* 50 rows, for the nearest sample
    BaselineLimit,      \* 200 rows, for the baseline
    MaxSamples          \* bound: samples of a history

Metrics == <<"cpu_pct", "iowait_pct", "net_rx_bytes_s">>
Tags    == <<"CPU_CONTENTION", "IO_STALL", "NETWORK">>
Causes  == {Tags[i] : i \in 1 .. 3} \cup {"UNKNOWN", "None"}

(* When sample i is taken.                                                 *)
Ts(i) == i * SampleInterval

ASSUME ReadingsAssumption ==
    \A r \in Readings, i \in 1 .. 3 : r[Metrics[i]] \in Int \cup {Unread}
ASSUME TimesAssumption ==
    /\ SampleInterval \in Nat \ {0} /\ PhaseStart \in Nat \ {0} /\ PhaseEnd \in Nat
    /\ PhaseStart <= PhaseEnd /\ MaxSamples \in Nat /\ Ts(MaxSamples) >= PhaseEnd
ASSUME LimitsAssumption ==
    /\ Radius \in Nat /\ Window \in Nat
    /\ NearestLimit \in Nat \ {0} /\ BaselineLimit \in Nat \ {0}

VARIABLES
    samples,    \* the candidate's samples, stored one after the other
    asked,      \* how many were stored when the report was last asked for
    cause       \* root_cause in that report

rvars == <<vars, samples, asked, cause>>

Mid == (PhaseStart + PhaseEnd) \div 2
Distance(i) == Abs(Ts(i) - Mid)

ReportInit ==
    /\ Init
    /\ samples \in [1 .. MaxSamples -> Readings]
    /\ asked = 0 /\ cause = "None"

-----------------------------------------------------------------------------
(* query_series: the newest rows of metric m when n samples of the history  *)
(* h are stored.                                                            *)
Newest(h, m, n, limit) ==
    LET rows == {i \in 1 .. n : h[i][m] # Unread}
    IN  {i \in rows : Cardinality({j \in rows : j > i}) < limit}

(* A faulty variant of Near: no search radius.                              *)
Anywhere(h, m, n) == Newest(h, m, n, NearestLimit)

(* The candidates of _nearest_sample_value, and the rows of the baseline.   *)
Near(h, m, n) == {i \in Newest(h, m, n, NearestLimit) : Distance(i) <= Radius}
Before(h, m, n) ==
    {i \in Newest(h, m, n, BaselineLimit) : Ts(i) >= PhaseStart - Window /\ Ts(i) < PhaseStart}

(* min() keeps the first of equally near rows, which is the newest.         *)
Nearest(rows) ==
    CHOOSE i \in rows : \A j \in rows :
        Distance(i) < Distance(j) \/ (Distance(i) = Distance(j) /\ i >= j)
During(h, m, n) == h[Nearest(Near(h, m, n))][m]

(* sum(window), over the rows of the window.                                *)
WindowSum(h, m, rows) ==
    LET upTo[i \in 0 .. MaxSamples] ==
            IF i = 0 THEN 0
            ELSE upTo[i - 1] + (IF i \in rows THEN h[i][m] ELSE 0)
    IN  upTo[MaxSamples]

(* _relative_delta, multiplied out by the number of rows of the baseline.   *)
Measurable(h, m, n) ==
    /\ Near(h, m, n) # {} /\ Before(h, m, n) # {}
    /\ WindowSum(h, m, Before(h, m, n)) = 0 => During(h, m, n) # 0
Delta(h, m, n) ==
    LET sum == WindowSum(h, m, Before(h, m, n))
    IN  IF sum = 0 THEN <<1, 0>>
        ELSE <<During(h, m, n) * Cardinality(Before(h, m, n)) - sum, Abs(sum)>>

Deltas(h, n) ==
    [i \in {k \in 1 .. 3 : Measurable(h, Metrics[k], n)} |-> Delta(h, Metrics[i], n)]

Greater(p, q) == p[1] * q[2] > q[1] * p[2]

(* tag_root_cause: the first of the largest deltas, if it exceeds 25 %.     *)
Best(delta) ==
    CHOOSE i \in DOMAIN delta : \A j \in DOMAIN delta :
        /\ ~Greater(delta[j], delta[i])
        /\ j < i => Greater(delta[i], delta[j])
TagRootCause(delta) ==
    IF DOMAIN delta # {} /\ Greater(delta[Best(delta)], <<1, 4>>)
      THEN Tags[Best(delta)] ELSE "UNKNOWN"

(* get_straggler_report, at any time after the phase, as often as one likes.*)
GetStragglerReport ==
    \E n \in asked + 1 .. MaxSamples :
        /\ Ts(n) >= PhaseEnd
        /\ asked' = n
        /\ report' = RankStragglers(durations)
        /\ cause' = IF report'.top = NoNode THEN "None" ELSE TagRootCause(Deltas(samples, n))
        /\ UNCHANGED <<durations, samples>>

ReportSpec == ReportInit /\ [][GetStragglerReport]_rvars

-----------------------------------------------------------------------------
(* Properties.                                                              *)

ReportTypeOK == TypeOK /\ cause \in Causes

(* From Radius after the middle of the phase on, and as long as the newest  *)
(* rows still reach back over the radius and the baseline window, the root  *)
(* cause is the same whenever the report is asked for, whatever could not   *)
(* be read in between.  Asked earlier, a nearer sample may still arrive;    *)
(* asked later, the evidence has left the window.                           *)
Settled(n) ==
    /\ Ts(n) >= Mid + Radius
    /\ Ts(n - NearestLimit + 1) <= Mid - Radius
    /\ Ts(n - BaselineLimit + 1) <= PhaseStart - Window
CauseIsStable ==
    [][Settled(asked) /\ Settled(asked') => cause' = cause]_rvars
=============================================================================
