------------------------------ MODULE Straggler ------------------------------
(***************************************************************************)
(* The straggler ranking of one phase (analysis/straggler.py): a modified  *)
(* z-score from the median and the median absolute deviation of the        *)
(* durations the nodes reported.                                           *)
(*                                                                         *)
(* Durations and the deviation floor are in the same unit (the floor, 1 ms *)
(* in the code).  The code computes in floats; here the same comparisons   *)
(* are made in integers: medians are kept doubled, deviations from a       *)
(* doubled median doubled, and their doubled median is four times the MAD. *)
(* Node identifiers are numbers; their order stands for that of strings.   *)
(***************************************************************************)
EXTENDS Integers, FiniteSets, Sequences

CONSTANTS
    Nodes,              \* node identifiers
    Durations,          \* bound: the durations considered
    MadFloor,           \* MAD_FLOOR_NS in the unit of Durations
    MinReportingNodes   \* MIN_REPORTING_NODES

ASSUME NodesAssumption == Nodes \subseteq Nat /\ IsFiniteSet(Nodes)
ASSUME DurationsAssumption == Durations \subseteq Nat /\ IsFiniteSet(Durations)
ASSUME MadFloorAssumption == MadFloor \in Nat \ {0}
ASSUME MinReportingNodesAssumption == MinReportingNodes \in Nat \ {0}

VARIABLES
    durations,  \* durations_ns: one duration for each node that reported
    report      \* what rank_stragglers returned for them

vars == <<durations, report>>

NoNode == -1

(* statistics.median, doubled: the middle value twice, or the sum of the    *)
(* two middle values.  Kth(f, i) is the i-th smallest value of f.           *)
Kth(f, i) ==
    CHOOSE v \in {f[n] : n \in DOMAIN f} :
        /\ Cardinality({n \in DOMAIN f : f[n] < v}) < i
        /\ Cardinality({n \in DOMAIN f : f[n] <= v}) >= i

(* A faulty variant: the lower middle value only.                           *)
TwiceLowerMedian(f) == 2 * Kth(f, (Cardinality(DOMAIN f) + 1) \div 2)

TwiceMedian(f) ==
    LET n == Cardinality(DOMAIN f)
    IN  Kth(f, (n + 1) \div 2) + Kth(f, n \div 2 + 1)

Abs(x) == IF x < 0 THEN -x ELSE x

(* A faulty variant: the floor added, not applied as a minimum.             *)
FourTimesMadPlusFloor(d) ==
    TwiceMedian([n \in DOMAIN d |-> Abs(2 * d[n] - TwiceMedian(d))]) + 4 * MadFloor

(* max(MAD, floor), four times.                                             *)
FourTimesMad(d) ==
    LET median == TwiceMedian(d)
        mad4 == TwiceMedian([n \in DOMAIN d |-> Abs(2 * d[n] - median)])
    IN  IF mad4 < 4 * MadFloor THEN 4 * MadFloor ELSE mad4

(* z_scores: the z-score of n is ZScores(d)[n] * 0.6745 / FourTimesMad(d).  *)
ZScores(d) ==
    LET median == TwiceMedian(d)
    IN  [n \in DOMAIN d |-> 2 * (2 * d[n] - median)]

(* z > 3.5, both sides times 10000 * FourTimesMad(d).                       *)
FlaggedNodes(d) ==
    LET z == ZScores(d)
        mad == FourTimesMad(d)
    IN  {n \in DOMAIN d : 6745 * z[n] > 35000 * mad}

(* The nodes that come before n: key=lambda n: (-z_scores[n], n).           *)
Ahead(z, n) == {m \in DOMAIN z : z[m] > z[n] \/ (z[m] = z[n] /\ m < n)}

(* A faulty variant: no unflagged nodes.                                    *)
OrderedFlaggedOnly(d) ==
    LET z == ZScores(d)
    IN  [i \in 1 .. Cardinality(FlaggedNodes(d)) |->
            CHOOSE n \in DOMAIN d : Cardinality(Ahead(z, n)) = i - 1]

(* sorted(): the i-th place is that of the node with i - 1 nodes before it. *)
Ordered(d) ==
    LET z == ZScores(d)
    IN  [i \in 1 .. Cardinality(DOMAIN d) |->
            CHOOSE n \in DOMAIN d : Cardinality(Ahead(z, n)) = i - 1]

(* A faulty variant: the last flagged node of the ranking.                  *)
LastFlagged(d) ==
    LET ranked == Ordered(d)
        flagged == FlaggedNodes(d)
        places == {i \in DOMAIN ranked : ranked[i] \in flagged}
    IN  IF places = {} THEN NoNode
        ELSE ranked[CHOOSE i \in places : \A j \in places : j <= i]

(* The first flagged node of the ranking, if any.                           *)
TopCandidate(d) ==
    LET ranked == Ordered(d)
        flagged == FlaggedNodes(d)
        places == {i \in DOMAIN ranked : ranked[i] \in flagged}
    IN  IF places = {} THEN NoNode
        ELSE ranked[CHOOSE i \in places : \A j \in places : i <= j]

(* max(node_ids, key=lambda n: (durations_ns[n], n))                        *)
NaiveCandidate(d) ==
    CHOOSE n \in DOMAIN d :
        \A m \in DOMAIN d : d[m] < d[n] \/ (d[m] = d[n] /\ m <= n)

NoReport == [status |-> "none", ranked |-> <<>>, top |-> NoNode, naive |-> NoNode]

RankStragglers(d) ==
    IF Cardinality(DOMAIN d) < MinReportingNodes
      THEN [NoReport EXCEPT !.status = "insufficient_evidence"]
      ELSE [status |-> "ranked", ranked |-> Ordered(d),
            top |-> TopCandidate(d), naive |-> NaiveCandidate(d)]

-----------------------------------------------------------------------------
Init ==
    /\ \E S \in SUBSET Nodes : durations \in [S -> Durations]
    /\ report = NoReport

-----------------------------------------------------------------------------
(* Properties.                                                              *)

Reporting == DOMAIN durations
RankedNow == report.status = "ranked"

(* A ranking lists every reporting node exactly once.                       *)
TypeOK ==
    /\ durations \in UNION {[S -> Durations] : S \in SUBSET Nodes}
    /\ report.status \in {"none", "ranked", "insufficient_evidence"}
    /\ RankedNow => /\ Len(report.ranked) = Cardinality(Reporting)
                    /\ {report.ranked[i] : i \in DOMAIN report.ranked} = Reporting
                    /\ report.top \in Reporting \cup {NoNode}
                    /\ report.naive \in Reporting

(* Fewer than half of the nodes can be flagged: the statistic is robust, a  *)
(* slow majority is the norm and not a crowd of stragglers.                 *)
FlaggedAreMinority ==
    RankedNow =>
        2 * Cardinality(FlaggedNodes(durations)) < Cardinality(Reporting)

(* The metamorphic relation of BUILD_PLAN section 8: when the floor is not  *)
(* binding, multiplying every duration by a constant changes nothing.       *)
Scaled(c) == [n \in Reporting |-> c * durations[n]]
ScaleInvariant ==
    (RankedNow /\ FourTimesMad(durations) > 4 * MadFloor) =>
        \A c \in {2, 3} :
            LET r == RankStragglers(Scaled(c))
            IN  r.ranked = report.ranked /\ r.top = report.top

(* Evidence against a node is monotone: had the top candidate taken longer  *)
(* still, it would be the top candidate all the more.                       *)
SlowerStaysTop ==
    (RankedNow /\ report.top # NoNode) =>
        \A x \in Durations :
            x > durations[report.top] =>
                RankStragglers([durations EXCEPT ![report.top] = x]).top = report.top

=============================================================================
