--------------------------- MODULE StragglerProofs ---------------------------
(***************************************************************************)
(* Proofs about Straggler and StragglerReport for any nodes, durations and *)
(* histories of metrics, and any floor, radius, window and limits.         *)
(*                                                                         *)
(* The state changes little: the invariant only says that the last answer  *)
(* is what the code computes from the data it was asked about.  The proofs *)
(* are about that computation: what order statistics are and which nodes   *)
(* can move them, that the ranking is one, and which rows an answer reads. *)
(***************************************************************************)
EXTENDS StragglerReport, FiniteSetTheorems, WellFoundedInduction, TLAPS

-----------------------------------------------------------------------------
(* A strict order of a finite set has a first element.                      *)
StrictOrder(R, S) ==
    /\ \A x \in S : <<x, x>> \notin R
    /\ \A x \in S, y \in S, z \in S : <<x, y>> \in R /\ <<y, z>> \in R => <<x, z>> \in R

(* A finite set with a strict order has a first element.                    *)
LEMMA FirstExists ==
    ASSUME NEW S, IsFiniteSet(S), S # {}, NEW R, StrictOrder(R, S)
    PROVE  \E x \in S : \A y \in S : <<y, x>> \notin R
<1> DEFINE below(x) == {y \in S : <<y, x>> \in R}
           T == {below(x) : x \in S}
           O == StrictSubsetOrdering(S)
<1>1. T # {} /\ T \subseteq SUBSET S
  OBVIOUS
<1>2. IsWellFoundedOn(O, SUBSET S)
  BY FS_StrictSubsetOrderingWellFounded, FS_FiniteSubsetsOfFinite
<1>3. \E b \in T : \A c \in T : ~(<<c, b>> \in O)
  <2> HIDE DEF T, O
  <2> QED BY <1>1, <1>2, WFMin
<1>4. PICK x \in S : \A y \in S : ~(<<below(y), below(x)>> \in O)
  BY <1>3
<1>5. ASSUME NEW y \in S, <<y, x>> \in R PROVE FALSE
  <2>1. below(y) \subseteq below(x)
    BY <1>5 DEF StrictOrder
  <2>2. y \in below(x) /\ y \notin below(y)
    BY <1>5 DEF StrictOrder
  <2>3. <<below(y), below(x)>> \in O
    BY <2>1, <2>2 DEF StrictSubsetOrdering
  <2> QED BY <1>4, <2>3
<1> QED BY <1>5

(* Hence the smallest and the largest of finitely many integers.            *)
LEMMA SmallestExists ==
    ASSUME NEW S, IsFiniteSet(S), S # {}, NEW f, \A x \in S : f[x] \in Int
    PROVE  \E x \in S : \A y \in S : f[x] <= f[y]
<1> DEFINE R == {p \in S \X S : f[p[1]] < f[p[2]]}
<1>1. \A x \in S, y \in S : <<x, y>> \in R <=> f[x] < f[y]
  OBVIOUS
<1>2. StrictOrder(R, S)
  <2> HIDE DEF R
  <2> QED BY <1>1 DEF StrictOrder
<1>3. PICK x \in S : \A y \in S : <<y, x>> \notin R
  <2> HIDE DEF R
  <2> QED BY <1>2, FirstExists
<1>4. ASSUME NEW y \in S PROVE f[x] <= f[y]
  <2>1. f[x] \in Int /\ f[y] \in Int
    OBVIOUS
  <2>2. <<y, x>> \notin R
    BY <1>3
  <2> HIDE DEF R
  <2> QED BY <1>1, <2>1, <2>2
<1> QED BY <1>4

(* Hence also the largest.                                                  *)
LEMMA LargestExists ==
    ASSUME NEW S, IsFiniteSet(S), S # {}, NEW f, \A x \in S : f[x] \in Int
    PROVE  \E x \in S : \A y \in S : f[y] <= f[x]
<1> DEFINE R == {p \in S \X S : f[p[1]] > f[p[2]]}
<1>1. \A x \in S, y \in S : <<x, y>> \in R <=> f[x] > f[y]
  OBVIOUS
<1>2. StrictOrder(R, S)
  <2> HIDE DEF R
  <2> QED BY <1>1 DEF StrictOrder
<1>3. PICK x \in S : \A y \in S : <<y, x>> \notin R
  <2> HIDE DEF R
  <2> QED BY <1>2, FirstExists
<1>4. ASSUME NEW y \in S PROVE f[y] <= f[x]
  <2>1. f[x] \in Int /\ f[y] \in Int
    OBVIOUS
  <2>2. <<y, x>> \notin R
    BY <1>3
  <2> HIDE DEF R
  <2> QED BY <1>1, <2>1, <2>2
<1> QED BY <1>4

(* Counting the elements of a part of a finite set.                         *)
LEMMA PartsCount ==
    ASSUME NEW S, IsFiniteSet(S)
    PROVE  /\ Cardinality(S) \in Nat
           /\ S # {} => Cardinality(S) > 0
           /\ \A T \in SUBSET S : Cardinality(T) \in Nat /\ IsFiniteSet(T)
           /\ \A T \in SUBSET S : \A U \in SUBSET T : Cardinality(U) <= Cardinality(T)
           /\ \A T \in SUBSET S : \A U \in SUBSET T : U # T => Cardinality(U) < Cardinality(T)
           /\ \A T \in SUBSET S : Cardinality(S \ T) = Cardinality(S) - Cardinality(T)
<1>1. Cardinality(S) \in Nat
  BY FS_CardinalityType
<1>2. S # {} => Cardinality(S) # 0
  BY FS_EmptySet
<1>3. ASSUME NEW T \in SUBSET S PROVE Cardinality(T) \in Nat /\ IsFiniteSet(T)
  BY FS_Subset, FS_CardinalityType
<1>4. ASSUME NEW T \in SUBSET S, NEW U \in SUBSET T
      PROVE  Cardinality(U) <= Cardinality(T) /\ (U # T => Cardinality(U) < Cardinality(T))
  <2>1. Cardinality(T) \in Nat /\ Cardinality(U) \in Nat /\ IsFiniteSet(T)
    BY <1>3
  <2>2. Cardinality(U) <= Cardinality(T) /\ (Cardinality(T) = Cardinality(U) => T = U)
    BY <2>1, FS_Subset
  <2> QED BY <2>1, <2>2
<1>5. ASSUME NEW T \in SUBSET S PROVE Cardinality(S \ T) = Cardinality(S) - Cardinality(T)
  <2>1. S \cap T = T
    OBVIOUS
  <2> QED BY <2>1, FS_Difference
<1> QED BY <1>1, <1>2, <1>3, <1>4, <1>5

-----------------------------------------------------------------------------
(* Order statistics.  v is the i-th smallest value of f.                    *)
IsKth(f, i, v) ==
    /\ v \in {f[n] : n \in DOMAIN f}
    /\ Cardinality({n \in DOMAIN f : f[n] < v}) < i
    /\ Cardinality({n \in DOMAIN f : f[n] <= v}) >= i

(* There is an i-th smallest value,                                         *)
LEMMA KthExists ==
    ASSUME NEW D, IsFiniteSet(D), NEW f \in [D -> Int], NEW i \in 1 .. Cardinality(D)
    PROVE  \E v : IsKth(f, i, v)
<1> DEFINE upTo(n) == {m \in D : f[m] <= f[n]}
           T == {n \in D : Cardinality(upTo(n)) >= i}
<1>1. Cardinality(D) \in Nat /\ i \in Int /\ 1 <= i /\ i <= Cardinality(D)
  BY PartsCount
<1>2. D # {}
  BY <1>1, FS_EmptySet
<1>3. T # {}
  <2>1. PICK n \in D : \A m \in D : f[m] <= f[n]
    BY <1>2, LargestExists
  <2>2. upTo(n) = D
    BY <2>1
  <2> QED BY <2>2, <1>1
<1>4. IsFiniteSet(T)
  BY PartsCount
<1>5. PICK n \in T : \A m \in T : f[n] <= f[m]
  <2>1. \A m \in T : f[m] \in Int
    OBVIOUS
  <2> HIDE DEF T
  <2> QED BY <1>3, <1>4, <2>1, SmallestExists
<1> DEFINE B == {m \in D : f[m] < f[n]}
<1>6. Cardinality(B) < i
  <2>1. CASE B = {}
    BY <2>1, <1>1, FS_EmptySet
  <2>2. CASE B # {}
    <3>1. IsFiniteSet(B) /\ \A m \in B : f[m] \in Int
      BY PartsCount
    <3>2. PICK w \in B : \A m \in B : f[m] <= f[w]
      <4> HIDE DEF B
      <4> QED BY <2>2, <3>1, LargestExists
    <3>3. upTo(w) = B
      BY <3>2
    <3>4. w \notin T
      BY <1>5, <3>2
    <3>5. Cardinality(upTo(w)) \in Nat
      BY PartsCount
    <3> QED BY <3>3, <3>4, <3>5, <1>1
  <2> QED BY <2>1, <2>2
<1>7. IsKth(f, i, f[n])
  BY <1>6 DEF IsKth
<1> QED BY <1>7

(* and only one.                                                            *)
LEMMA KthUnique ==
    ASSUME NEW D, IsFiniteSet(D), NEW f \in [D -> Int], NEW i \in 1 .. Cardinality(D),
           NEW v, IsKth(f, i, v), NEW w, IsKth(f, i, w)
    PROVE  v = w
<1> DEFINE upTo(x) == {n \in D : f[n] <= x}
           under(x) == {n \in D : f[n] < x}
<1>1. v \in Int /\ w \in Int /\ i \in Int
  BY PartsCount DEF IsKth
<1>2. ASSUME NEW x \in Int, NEW y \in Int, x < y
      PROVE  Cardinality(upTo(x)) <= Cardinality(under(y))
  <2>1. upTo(x) \subseteq under(y) /\ under(y) \subseteq D
    BY <1>2
  <2> QED BY <2>1, PartsCount
<1>3. \A x : Cardinality(upTo(x)) \in Nat /\ Cardinality(under(x)) \in Nat
  BY PartsCount
<1>4. /\ Cardinality(upTo(v)) >= i /\ Cardinality(under(v)) < i
      /\ Cardinality(upTo(w)) >= i /\ Cardinality(under(w)) < i
  BY DEF IsKth
<1> HIDE DEF upTo, under
<1>5. ~(v < w) /\ ~(w < v)
  BY <1>1, <1>2, <1>3, <1>4
<1> QED BY <1>1, <1>5

(* Kth is what it is meant to be.                                           *)
LEMMA KthIs ==
    ASSUME NEW D, IsFiniteSet(D), NEW f \in [D -> Int], NEW i \in 1 .. Cardinality(D)
    PROVE  /\ IsKth(f, i, Kth(f, i))
           /\ Kth(f, i) \in Int
           /\ \A v : IsKth(f, i, v) => Kth(f, i) = v
<1> DEFINE P(v) == /\ Cardinality({n \in DOMAIN f : f[n] < v}) < i
                   /\ Cardinality({n \in DOMAIN f : f[n] <= v}) >= i
           S == {f[n] : n \in DOMAIN f}
<1>1. PICK u : IsKth(f, i, u)
  BY KthExists
<1>2. u \in S /\ P(u)
  BY <1>1 DEF IsKth
<1>3. (CHOOSE v \in S : P(v)) \in S /\ P(CHOOSE v \in S : P(v))
  <2> HIDE DEF S, P
  <2> QED BY <1>2
<1>4. IsKth(f, i, Kth(f, i))
  BY <1>3 DEF IsKth, Kth
<1>5. Kth(f, i) \in Int
  BY <1>4 DEF IsKth
<1>6. ASSUME NEW v, IsKth(f, i, v) PROVE Kth(f, i) = v
  BY <1>4, <1>6, KthUnique
<1> QED BY <1>4, <1>5, <1>6

-----------------------------------------------------------------------------
(* The two middle values, of which TwiceMedian is the sum.                  *)
Lower(f) == Kth(f, (Cardinality(DOMAIN f) + 1) \div 2)
Upper(f) == Kth(f, Cardinality(DOMAIN f) \div 2 + 1)

(* The places of statistics.median are places.                              *)
LEMMA MiddlePlaces ==
    ASSUME NEW D, IsFiniteSet(D), D # {}
    PROVE  /\ (Cardinality(D) + 1) \div 2 \in 1 .. Cardinality(D)
           /\ Cardinality(D) \div 2 + 1 \in 1 .. Cardinality(D)
           /\ 2 * (Cardinality(D) \div 2 + 1) > Cardinality(D)
<1>1. Cardinality(D) \in Nat /\ Cardinality(D) > 0
  BY PartsCount
<1> QED BY <1>1

(* statistics.median is made of the two middle values.                      *)
LEMMA MedianIs ==
    ASSUME NEW D, IsFiniteSet(D), D # {}, NEW f \in [D -> Int]
    PROVE  /\ IsKth(f, (Cardinality(D) + 1) \div 2, Lower(f)) /\ Lower(f) \in Int
           /\ IsKth(f, Cardinality(D) \div 2 + 1, Upper(f)) /\ Upper(f) \in Int
           /\ TwiceMedian(f) = Lower(f) + Upper(f) /\ TwiceMedian(f) \in Int
<1>1. DOMAIN f = D
  OBVIOUS
<1>2. IsKth(f, (Cardinality(D) + 1) \div 2, Lower(f)) /\ Lower(f) \in Int
  BY <1>1, MiddlePlaces, KthIs DEF Lower
<1>3. IsKth(f, Cardinality(D) \div 2 + 1, Upper(f)) /\ Upper(f) \in Int
  BY <1>1, MiddlePlaces, KthIs DEF Upper
<1>4. TwiceMedian(f) = Lower(f) + Upper(f)
  BY DEF TwiceMedian, Lower, Upper
<1> QED BY <1>2, <1>3, <1>4

(* Fewer than half of the values are above the upper middle one.            *)
LEMMA FewAreAbove ==
    ASSUME NEW D, IsFiniteSet(D), D # {}, NEW f \in [D -> Int],
           NEW A \in SUBSET D, \A n \in A : f[n] > Upper(f)
    PROVE  2 * Cardinality(A) < Cardinality(D)
<1> DEFINE B == {n \in D : f[n] <= Upper(f)}
<1>1. Upper(f) \in Int /\ Cardinality(B) >= Cardinality(D) \div 2 + 1
  BY MedianIs DEF IsKth
<1>2. A \subseteq D \ B
  BY <1>1
<1>3. /\ Cardinality(D) \in Nat /\ Cardinality(B) \in Nat /\ Cardinality(A) \in Nat
      /\ Cardinality(D \ B) = Cardinality(D) - Cardinality(B)
      /\ Cardinality(A) <= Cardinality(D \ B)
  BY <1>2, PartsCount
<1>4. 2 * (Cardinality(D) \div 2 + 1) > Cardinality(D) /\ Cardinality(D) \div 2 + 1 \in Int
  BY MiddlePlaces
<1> HIDE DEF B
<1> QED BY <1>1, <1>3, <1>4

(* The deviations from the median, doubled, of which the MAD is the median. *)
Deviations(d) == [n \in DOMAIN d |-> Abs(2 * d[n] - TwiceMedian(d))]

(* The MAD is the median of the deviations, raised to MAD_FLOOR_NS.         *)
LEMMA MadIs ==
    ASSUME NEW D, IsFiniteSet(D), D # {}, NEW d \in [D -> Int]
    PROVE  /\ Deviations(d) \in [D -> Int]
           /\ Lower(Deviations(d)) \in Nat /\ Upper(Deviations(d)) \in Nat
           /\ TwiceMedian(Deviations(d)) \in Nat
           /\ TwiceMedian(Deviations(d)) = Lower(Deviations(d)) + Upper(Deviations(d))
           /\ FourTimesMad(d) = IF TwiceMedian(Deviations(d)) < 4 * MadFloor
                                THEN 4 * MadFloor ELSE TwiceMedian(Deviations(d))
           /\ FourTimesMad(d) \in Nat
<1>1. TwiceMedian(d) \in Int /\ DOMAIN d = D
  BY MedianIs
<1>2. Deviations(d) \in [D -> Int] /\ \A n \in D : Deviations(d)[n] \in Nat
  BY <1>1 DEF Deviations, Abs
<1>3. DOMAIN Deviations(d) = D
  BY <1>2
<1> DEFINE v == Deviations(d)
<1>4. /\ Lower(v) \in {v[n] : n \in DOMAIN v} /\ Upper(v) \in {v[n] : n \in DOMAIN v}
      /\ TwiceMedian(v) = Lower(v) + Upper(v)
  <2> HIDE DEF v
  <2>1. v \in [D -> Int]
    BY <1>2 DEF v
  <2> QED BY <2>1, MedianIs DEF IsKth
<1>5. Lower(v) \in Nat /\ Upper(v) \in Nat
  BY <1>2, <1>3, <1>4
<1>6. FourTimesMad(d) = IF TwiceMedian(v) < 4 * MadFloor THEN 4 * MadFloor ELSE TwiceMedian(v)
  BY DEF FourTimesMad, Deviations
<1>7. MadFloor \in Nat
  BY MadFloorAssumption
<1> QED BY <1>2, <1>4, <1>5, <1>6, <1>7

(* The z-scores and who is flagged, spelled out.                            *)
LEMMA ScoresAre ==
    ASSUME NEW D, IsFiniteSet(D), D # {}, NEW d \in [D -> Int]
    PROVE  /\ ZScores(d) \in [D -> Int]
           /\ \A n \in D : ZScores(d)[n] = 2 * (2 * d[n] - TwiceMedian(d))
           /\ FlaggedNodes(d) = {n \in D : 6745 * ZScores(d)[n] > 35000 * FourTimesMad(d)}
<1>1. TwiceMedian(d) \in Int /\ DOMAIN d = D
  BY MedianIs
<1> QED BY <1>1 DEF ZScores, FlaggedNodes

(* A flagged node is slower than the median, by more than the upper middle  *)
(* deviation.                                                               *)
LEMMA FlaggedAreFar ==
    ASSUME NEW D, IsFiniteSet(D), D # {}, NEW d \in [D -> Int],
           NEW n \in FlaggedNodes(d)
    PROVE  /\ n \in D
           /\ 2 * d[n] - TwiceMedian(d) > 0
           /\ Deviations(d)[n] = 2 * d[n] - TwiceMedian(d)
           /\ Deviations(d)[n] > Upper(Deviations(d))
<1>1. n \in D /\ 6745 * ZScores(d)[n] > 35000 * FourTimesMad(d)
  BY ScoresAre
<1> DEFINE x == 2 * d[n] - TwiceMedian(d)
           mad == FourTimesMad(d)
<1>2. x \in Int /\ d[n] \in Int
  BY <1>1, MedianIs
<1>3. ZScores(d)[n] = 2 * x
  BY <1>1, ScoresAre
<1>4. mad \in Nat /\ mad > 0 /\ mad >= Upper(Deviations(d)) /\ Upper(Deviations(d)) \in Nat
  BY MadIs, MadFloorAssumption
<1>5. Deviations(d)[n] = Abs(x)
  BY <1>1 DEF Deviations
<1> HIDE DEF x, mad
<1>6. 6745 * (2 * x) > 35000 * mad
  BY <1>1, <1>3 DEF mad
<1>7. x > 0 /\ x > mad
  BY <1>2, <1>4, <1>6
<1>8. Abs(x) = x
  BY <1>2, <1>7 DEF Abs
<1> QED BY <1>1, <1>2, <1>4, <1>5, <1>7, <1>8 DEF x

(* Hence the flagged nodes are a minority.                                  *)
LEMMA FlaggedAreFew ==
    ASSUME NEW D, IsFiniteSet(D), D # {}, NEW d \in [D -> Int]
    PROVE  2 * Cardinality(FlaggedNodes(d)) < Cardinality(D)
<1>1. FlaggedNodes(d) \in SUBSET D /\ Deviations(d) \in [D -> Int]
  BY ScoresAre, MadIs
<1>2. \A n \in FlaggedNodes(d) : Deviations(d)[n] > Upper(Deviations(d))
  BY FlaggedAreFar
<1> QED BY <1>1, <1>2, FewAreAbove

-----------------------------------------------------------------------------
(* Multiplying every duration by c > 0.                                     *)
LEMMA TimesKeepsOrder ==
    \A c \in Nat \ {0} : \A a, b \in Int : /\ c * a < c * b <=> a < b
                                           /\ c * a <= c * b <=> a <= b
                                           /\ c * a = c * b <=> a = b
<1> SUFFICES ASSUME NEW c \in Nat \ {0}, NEW a \in Int, NEW b \in Int
             PROVE  /\ c * a < c * b <=> a < b
                    /\ c * a <= c * b <=> a <= b
                    /\ c * a = c * b <=> a = b
  OBVIOUS
<1>1. c * a \in Int /\ c * b \in Int
  OBVIOUS
<1>2. ASSUME a < b PROVE c * a < c * b
  BY <1>2
<1>3. ASSUME b < a PROVE c * b < c * a
  BY <1>3
<1> QED BY <1>1, <1>2, <1>3

(* Multiplication by a constant, for the provers.                           *)
LEMMA TimesDistributes ==
    \A c \in Nat \ {0} : \A a, b \in Int : /\ c * a \in Int
                                           /\ c * a + c * b = c * (a + b)
                                           /\ c * a - c * b = c * (a - b)
                                           /\ \A k \in Nat : k * (c * a) = c * (k * a)
<1> SUFFICES ASSUME NEW c \in Nat \ {0}, NEW a \in Int, NEW b \in Int, NEW k \in Nat
             PROVE  /\ c * a \in Int
                    /\ c * a + c * b = c * (a + b)
                    /\ c * a - c * b = c * (a - b)
                    /\ k * (c * a) = c * (k * a)
  OBVIOUS
<1> QED OBVIOUS

TimesAll(c, f) == [n \in DOMAIN f |-> c * f[n]]

(* The i-th smallest of the multiples is the multiple of the i-th smallest. *)
LEMMA KthScales ==
    ASSUME NEW D, IsFiniteSet(D), NEW f \in [D -> Int], NEW i \in 1 .. Cardinality(D),
           NEW c \in Nat \ {0}
    PROVE  Kth(TimesAll(c, f), i) = c * Kth(f, i)
<1> DEFINE g == TimesAll(c, f)
           v == Kth(f, i)
<1>1. g \in [D -> Int] /\ \A n \in D : g[n] = c * f[n]
  BY TimesDistributes DEF TimesAll
<1>2. IsKth(f, i, v) /\ v \in Int
  BY KthIs
<1>3. \A n \in D : (g[n] < c * v <=> f[n] < v) /\ (g[n] <= c * v <=> f[n] <= v)
  BY <1>1, <1>2, TimesKeepsOrder
<1> HIDE DEF g, v
<1>4. DOMAIN g = D /\ DOMAIN f = D
  BY <1>1
<1>5. /\ {n \in DOMAIN g : g[n] < c * v} = {n \in DOMAIN f : f[n] < v}
      /\ {n \in DOMAIN g : g[n] <= c * v} = {n \in DOMAIN f : f[n] <= v}
  BY <1>3, <1>4
<1>6. PICK n \in D : v = f[n]
  BY <1>2, <1>4 DEF IsKth
<1>7. c * v \in {g[m] : m \in DOMAIN g}
  BY <1>1, <1>4, <1>6
<1>8. IsKth(g, i, c * v)
  BY <1>2, <1>5, <1>7 DEF IsKth
<1> QED BY <1>1, <1>8, KthIs DEF g, v

(* So is the median,                                                        *)
LEMMA MedianScales ==
    ASSUME NEW D, IsFiniteSet(D), D # {}, NEW f \in [D -> Int], NEW c \in Nat \ {0}
    PROVE  TwiceMedian(TimesAll(c, f)) = c * TwiceMedian(f)
<1> DEFINE g == TimesAll(c, f)
<1>1. g \in [D -> Int]
  BY TimesDistributes DEF TimesAll
<1>2. DOMAIN f = D /\ DOMAIN g = D
  BY <1>1
<1>3. Lower(g) = c * Lower(f) /\ Upper(g) = c * Upper(f)
  BY <1>2, MiddlePlaces, KthScales DEF Lower, Upper
<1> HIDE DEF g
<1>4. /\ TwiceMedian(g) = Lower(g) + Upper(g) /\ TwiceMedian(f) = Lower(f) + Upper(f)
      /\ Lower(f) \in Int /\ Upper(f) \in Int
  BY <1>1, MedianIs
<1>5. c * Lower(f) + c * Upper(f) = c * (Lower(f) + Upper(f))
  BY <1>4, TimesDistributes
<1> QED BY <1>3, <1>4, <1>5 DEF g

(* and so are the deviations from it.                                       *)
LEMMA DeviationsScale ==
    ASSUME NEW D, IsFiniteSet(D), D # {}, NEW d \in [D -> Int], NEW c \in Nat \ {0}
    PROVE  /\ TimesAll(c, d) \in [D -> Int]
           /\ Deviations(TimesAll(c, d)) = TimesAll(c, Deviations(d))
<1> DEFINE e == TimesAll(c, d)
           M == TwiceMedian(d)
<1>1. e \in [D -> Int] /\ \A n \in D : e[n] = c * d[n]
  BY TimesDistributes DEF TimesAll
<1>2. TwiceMedian(e) = c * M /\ M \in Int
  BY MedianScales, MedianIs
<1> HIDE DEF e, M
<1>3. ASSUME NEW n \in D PROVE Abs(2 * e[n] - c * M) = c * Abs(2 * d[n] - M)
  <2>1. d[n] \in Int /\ 2 * d[n] \in Int
    OBVIOUS
  <2>2. 2 * e[n] - c * M = c * (2 * d[n] - M)
    BY <1>1, <1>2, <2>1, TimesDistributes
  <2> DEFINE x == 2 * d[n] - M
  <2>3. x \in Int
    BY <1>2, <2>1
  <2> HIDE DEF x
  <2>4. Abs(c * x) = c * Abs(x)
    <3>1. c * 0 = 0 /\ c * (0 - x) = 0 - c * x /\ c * x \in Int
      BY <2>3
    <3>2. c * x < 0 <=> x < 0
      BY <2>3, <3>1, TimesKeepsOrder
    <3>3. -x = 0 - x /\ -(c * x) = 0 - c * x
      BY <2>3, <3>1
    <3> QED BY <3>1, <3>2, <3>3 DEF Abs
  <2> QED BY <2>2, <2>4 DEF x
<1>4. DOMAIN e = D /\ DOMAIN d = D
  BY <1>1
<1>5. Deviations(e) = TimesAll(c, Deviations(d))
  BY <1>2, <1>3, <1>4 DEF Deviations, TimesAll, M
<1> QED BY <1>1, <1>5 DEF e

(* While the floor does not bind, the scores and the MAD scale alike, so    *)
(* nobody is flagged or overtaken for it.                                   *)
LEMMA ScaledScores ==
    ASSUME NEW D, IsFiniteSet(D), D # {}, NEW d \in [D -> Int], NEW c \in Nat \ {0},
           FourTimesMad(d) > 4 * MadFloor
    PROVE  /\ FlaggedNodes(TimesAll(c, d)) = FlaggedNodes(d)
           /\ \A n \in D : Ahead(ZScores(TimesAll(c, d)), n) = Ahead(ZScores(d), n)
<1> DEFINE e == TimesAll(c, d)
           z == ZScores(d)
           y == ZScores(e)
           mad == TwiceMedian(Deviations(d))
<1>1. e \in [D -> Int] /\ Deviations(e) = TimesAll(c, Deviations(d)) /\ Deviations(d) \in [D -> Int]
  BY DeviationsScale, MadIs
<1>2. TwiceMedian(Deviations(e)) = c * mad
  BY <1>1, MedianScales
<1>3. /\ mad \in Nat /\ MadFloor \in Nat
      /\ FourTimesMad(d) = IF mad < 4 * MadFloor THEN 4 * MadFloor ELSE mad
      /\ FourTimesMad(e) = IF c * mad < 4 * MadFloor THEN 4 * MadFloor ELSE c * mad
  BY <1>1, <1>2, MadIs, MadFloorAssumption
<1> HIDE DEF mad
<1>4. FourTimesMad(d) = mad /\ mad > 4 * MadFloor
  BY <1>3
<1>5. FourTimesMad(e) = c * mad
  <2>1. c * mad \in Int /\ c * mad >= mad
    BY <1>3
  <2> QED BY <1>3, <1>4, <2>1
<1>6. /\ z \in [D -> Int] /\ y \in [D -> Int]
      /\ \A n \in D : z[n] = 2 * (2 * d[n] - TwiceMedian(d))
      /\ \A n \in D : y[n] = 2 * (2 * e[n] - TwiceMedian(e))
      /\ FlaggedNodes(d) = {n \in D : 6745 * z[n] > 35000 * FourTimesMad(d)}
      /\ FlaggedNodes(e) = {n \in D : 6745 * y[n] > 35000 * FourTimesMad(e)}
  BY <1>1, ScoresAre
<1>7. ASSUME NEW n \in D PROVE y[n] = c * z[n]
  <2>1. e[n] = c * d[n] /\ d[n] \in Int /\ TwiceMedian(d) \in Int
    BY MedianIs DEF TimesAll
  <2>2. TwiceMedian(e) = c * TwiceMedian(d)
    BY MedianScales
  <2>3. 2 * (c * d[n]) - c * TwiceMedian(d) = c * (2 * d[n] - TwiceMedian(d))
    BY <2>1, TimesDistributes
  <2>4. 2 * (c * (2 * d[n] - TwiceMedian(d))) = c * (2 * (2 * d[n] - TwiceMedian(d)))
    BY <2>1, TimesDistributes
  <2> HIDE DEF e, y, z
  <2> QED BY <1>6, <2>1, <2>2, <2>3, <2>4
<1>8. FlaggedNodes(e) = FlaggedNodes(d)
  <2>1. ASSUME NEW n \in D
        PROVE  6745 * y[n] > 35000 * FourTimesMad(e) <=> 6745 * z[n] > 35000 * FourTimesMad(d)
    <3>1. z[n] \in Int
      BY <1>6
    <3>2. 6745 * y[n] = c * (6745 * z[n]) /\ 35000 * FourTimesMad(e) = c * (35000 * mad)
      BY <1>3, <1>5, <1>7, <3>1, TimesDistributes
    <3>3. c * (35000 * mad) < c * (6745 * z[n]) <=> 35000 * mad < 6745 * z[n]
      BY <1>3, <3>1, TimesKeepsOrder
    <3>4. /\ 6745 * z[n] \in Int /\ 35000 * mad \in Int
          /\ c * (35000 * mad) \in Int /\ c * (6745 * z[n]) \in Int
      BY <1>3, <3>1, TimesDistributes
    <3> HIDE DEF y, z, e
    <3> QED BY <1>4, <3>2, <3>3, <3>4
  <2> HIDE DEF y, z, e
  <2> QED BY <1>6, <2>1
<1>9. ASSUME NEW n \in D PROVE Ahead(y, n) = Ahead(z, n)
  <2>1. ASSUME NEW m \in D PROVE (y[m] > y[n] <=> z[m] > z[n]) /\ (y[m] = y[n] <=> z[m] = z[n])
    <3> HIDE DEF y, z, e
    <3>1. z[m] \in Int /\ z[n] \in Int
      BY <1>6
    <3>2. /\ c * z[n] < c * z[m] <=> z[n] < z[m]
          /\ c * z[m] = c * z[n] <=> z[m] = z[n]
      <4> DEFINE a == z[n]
                 b == z[m]
      <4> HIDE DEF a, b
      <4>1. a \in Int /\ b \in Int
        BY <3>1 DEF a, b
      <4>2. c * a < c * b <=> a < b
        BY <4>1, TimesKeepsOrder
      <4>3. c * b = c * a <=> b = a
        BY <4>1, TimesKeepsOrder
      <4> QED BY <4>2, <4>3 DEF a, b
    <3>3. c * z[m] \in Int /\ c * z[n] \in Int
      BY <3>1, TimesDistributes
    <3> QED BY <1>7, <3>1, <3>2, <3>3
  <2>2. DOMAIN y = D /\ DOMAIN z = D
    BY <1>6
  <2> HIDE DEF y, z, e
  <2> QED BY <2>1, <2>2 DEF Ahead
<1> QED BY <1>8, <1>9

-----------------------------------------------------------------------------
(* Nodes are numbers, whose order stands for that of their names.           *)
Numbered(D) == D \subseteq Nat

(* The order of the ranking: the nodes ahead of a node number its places.   *)
LEMMA AheadIsAnOrder ==
    ASSUME NEW D, Numbered(D), IsFiniteSet(D), NEW z \in [D -> Int]
    PROVE  /\ \A n \in D : Ahead(z, n) \in SUBSET D /\ n \notin Ahead(z, n)
           /\ \A m, n \in D : m \in Ahead(z, n) \/ n \in Ahead(z, m) \/ m = n
           /\ \A m, n \in D :
                 m \in Ahead(z, n) => Cardinality(Ahead(z, m)) < Cardinality(Ahead(z, n))
           /\ \A n \in D : Cardinality(Ahead(z, n)) \in 0 .. Cardinality(D) - 1
           /\ \A m, n \in D : Cardinality(Ahead(z, m)) = Cardinality(Ahead(z, n)) => m = n
<1>0. DOMAIN z = D /\ \A n \in D : n \in Int /\ z[n] \in Int
  BY DEF Numbered
<1>1. \A n \in D : Ahead(z, n) \in SUBSET D /\ n \notin Ahead(z, n)
  BY <1>0 DEF Ahead
<1>2. \A m, n \in D : m \in Ahead(z, n) \/ n \in Ahead(z, m) \/ m = n
  BY <1>0 DEF Ahead
<1>3. ASSUME NEW m \in D, NEW n \in D, m \in Ahead(z, n)
      PROVE  Cardinality(Ahead(z, m)) < Cardinality(Ahead(z, n))
  <2>1. Ahead(z, m) \subseteq Ahead(z, n)
    <3> SUFFICES ASSUME NEW x \in Ahead(z, m) PROVE x \in Ahead(z, n)
      OBVIOUS
    <3>1. /\ x \in D /\ x \in Int /\ m \in Int /\ n \in Int
          /\ z[x] \in Int /\ z[m] \in Int /\ z[n] \in Int
          /\ z[x] > z[m] \/ (z[x] = z[m] /\ x < m)
          /\ z[m] > z[n] \/ (z[m] = z[n] /\ m < n)
      BY <1>0, <1>3 DEF Ahead
    <3>2. z[x] > z[n] \/ (z[x] = z[n] /\ x < n)
      BY <3>1
    <3> QED BY <1>0, <3>1, <3>2 DEF Ahead
  <2>2. Ahead(z, m) # Ahead(z, n)
    BY <1>1, <1>3
  <2> QED BY <1>1, <2>1, <2>2, PartsCount
<1>4. ASSUME NEW n \in D PROVE Cardinality(Ahead(z, n)) \in 0 .. Cardinality(D) - 1
  <2>1. Ahead(z, n) # D
    BY <1>1
  <2>2. /\ Cardinality(Ahead(z, n)) \in Nat /\ Cardinality(D) \in Nat
        /\ Cardinality(Ahead(z, n)) < Cardinality(D)
    BY <1>1, <2>1, PartsCount
  <2> QED BY <2>2
<1>5. ASSUME NEW m \in D, NEW n \in D, Cardinality(Ahead(z, m)) = Cardinality(Ahead(z, n))
      PROVE  m = n
  <2>1. Cardinality(Ahead(z, m)) \in Int /\ Cardinality(Ahead(z, n)) \in Int
    BY <1>4
  <2> QED BY <1>2, <1>3, <1>5, <2>1
<1> QED BY <1>1, <1>2, <1>3, <1>4, <1>5

(* Ordered gives every node a place, and only one.                          *)
LEMMA RankingIs ==
    ASSUME NEW D, Numbered(D), IsFiniteSet(D), D # {}, NEW d \in [D -> Int]
    PROVE  /\ Ordered(d) \in [1 .. Cardinality(D) -> D]
           /\ \A i \in 1 .. Cardinality(D) :
                 Cardinality(Ahead(ZScores(d), Ordered(d)[i])) = i - 1
           /\ \A n \in D : /\ Cardinality(Ahead(ZScores(d), n)) + 1 \in 1 .. Cardinality(D)
                           /\ Ordered(d)[Cardinality(Ahead(ZScores(d), n)) + 1] = n
<1> DEFINE z == ZScores(d)
           N == Cardinality(D)
           p == [n \in D |-> Cardinality(Ahead(z, n))]
           C(i) == CHOOSE n \in D : Cardinality(Ahead(z, n)) = i - 1
<1>1. z \in [D -> Int] /\ N \in Nat /\ N > 0 /\ DOMAIN d = D
  BY ScoresAre, PartsCount
<1>2. /\ \A n \in D : Cardinality(Ahead(z, n)) \in 0 .. N - 1
      /\ \A m, n \in D : Cardinality(Ahead(z, m)) = Cardinality(Ahead(z, n)) => m = n
  <2> HIDE DEF z
  <2> QED BY <1>1, AheadIsAnOrder
<1> HIDE DEF z
<1>3. Ordered(d) = [i \in 1 .. N |-> C(i)]
  BY <1>1 DEF Ordered, z
<1>4. p \in Injection(D, 0 .. N - 1)
  BY <1>2 DEF Injection, IsInjective
<1>5. IsFiniteSet(0 .. N - 1) /\ Cardinality(0 .. N - 1) = N
  <2>1. 0 \in Int /\ N - 1 \in Int
    BY <1>1
  <2> QED BY <1>1, <2>1, FS_Interval
<1>6. p \in Surjection(D, 0 .. N - 1)
  <2> HIDE DEF p
  <2> QED BY <1>4, <1>5, FS_Injection
<1>7. ASSUME NEW i \in 1 .. N PROVE C(i) \in D /\ Cardinality(Ahead(z, C(i))) = i - 1
  <2>1. i - 1 \in 0 .. N - 1
    BY <1>1
  <2>2. \E n \in D : p[n] = i - 1
    <3> HIDE DEF p
    <3> QED BY <1>6, <2>1 DEF Surjection
  <2>3. \E n \in D : Cardinality(Ahead(z, n)) = i - 1
    BY <2>2
  <2> QED BY <2>3
<1> HIDE DEF C
<1>8. Ordered(d) \in [1 .. N -> D] /\ \A i \in 1 .. N : Ordered(d)[i] = C(i)
  BY <1>3, <1>7
<1>9. ASSUME NEW n \in D
      PROVE  /\ Cardinality(Ahead(z, n)) + 1 \in 1 .. N
             /\ Ordered(d)[Cardinality(Ahead(z, n)) + 1] = n
  <2> DEFINE i == Cardinality(Ahead(z, n)) + 1
  <2>1. i \in 1 .. N /\ i - 1 = Cardinality(Ahead(z, n))
    BY <1>1, <1>2
  <2>2. C(i) \in D /\ Cardinality(Ahead(z, C(i))) = Cardinality(Ahead(z, n))
    BY <1>7, <2>1
  <2>3. C(i) = n
    BY <1>2, <2>2
  <2> QED BY <1>8, <2>1, <2>3
<1> QED BY <1>7, <1>8, <1>9 DEF z

(* Two choices of durations under which the same nodes are ahead of each    *)
(* node are ranked alike.                                                   *)
SameAhead(D, d, e) == \A n \in D : Ahead(ZScores(e), n) = Ahead(ZScores(d), n)

(* sorted() depends on the order of the z-scores only.                      *)
LEMMA RankingDependsOnAhead ==
    ASSUME NEW D, Numbered(D), IsFiniteSet(D), D # {}, NEW d \in [D -> Int],
           NEW e \in [D -> Int], SameAhead(D, d, e)
    PROVE  Ordered(e) = Ordered(d)
<1> DEFINE N == Cardinality(D)
           r == Ordered(d)
           q == Ordered(e)
<1>1. /\ r \in [1 .. N -> D] /\ q \in [1 .. N -> D]
      /\ \A i \in 1 .. N : Cardinality(Ahead(ZScores(d), r[i])) = i - 1
      /\ \A n \in D : q[Cardinality(Ahead(ZScores(e), n)) + 1] = n
  BY RankingIs
<1> HIDE DEF r, q
<1>2. ASSUME NEW i \in 1 .. N PROVE q[i] = r[i]
  <2>1. r[i] \in D /\ Cardinality(Ahead(ZScores(d), r[i])) = i - 1
    BY <1>1
  <2>2. Ahead(ZScores(e), r[i]) = Ahead(ZScores(d), r[i])
    BY <2>1 DEF SameAhead
  <2>3. Cardinality(Ahead(ZScores(e), r[i])) + 1 = i
    BY <2>1, <2>2
  <2> QED BY <1>1, <2>1, <2>3
<1> HIDE DEF N
<1>3. q = [i \in 1 .. N |-> q[i]] /\ r = [i \in 1 .. N |-> r[i]]
  BY <1>1
<1>4. q = r
  BY <1>2, <1>3, Zenon
<1> QED BY <1>4 DEF q, r

(* The top candidate is the flagged node that no flagged node is ahead of.  *)
LEMMA TopIs ==
    ASSUME NEW D, Numbered(D), IsFiniteSet(D), D # {}, NEW d \in [D -> Int]
    PROVE  /\ FlaggedNodes(d) = {} => TopCandidate(d) = NoNode
           /\ FlaggedNodes(d) # {} => TopCandidate(d) \in FlaggedNodes(d)
           /\ \A t \in FlaggedNodes(d) :
                 (\A m \in FlaggedNodes(d) : m \notin Ahead(ZScores(d), t)) <=> t = TopCandidate(d)
<1> DEFINE z == ZScores(d)
           N == Cardinality(D)
           r == Ordered(d)
           F == FlaggedNodes(d)
           place(n) == Cardinality(Ahead(z, n)) + 1
           P == {i \in DOMAIN r : r[i] \in F}
           k == CHOOSE i \in P : \A j \in P : i <= j
<1>1. F \subseteq D /\ z \in [D -> Int]
  BY ScoresAre
<1>2. /\ r \in [1 .. N -> D] /\ \A i \in 1 .. N : Cardinality(Ahead(z, r[i])) = i - 1
      /\ \A n \in D : place(n) \in 1 .. N /\ r[place(n)] = n
  BY RankingIs
<1>3. TopCandidate(d) = IF P = {} THEN NoNode ELSE r[k]
  BY DEF TopCandidate
<1> HIDE DEF r, F, z
<1>4. /\ \A m, n \in D : m \in Ahead(z, n) \/ n \in Ahead(z, m) \/ m = n
      /\ \A m, n \in D : m \in Ahead(z, n) => place(m) < place(n)
      /\ \A n \in D : n \notin Ahead(z, n)
  <2>1. \A n \in D : Cardinality(Ahead(z, n)) \in 0 .. N - 1
    BY <1>1, AheadIsAnOrder
  <2>2. \A m, n \in D : m \in Ahead(z, n) =>
            Cardinality(Ahead(z, m)) < Cardinality(Ahead(z, n))
    BY <1>1, AheadIsAnOrder
  <2>3. \A m, n \in D : m \in Ahead(z, n) => place(m) < place(n)
    BY <2>1, <2>2
  <2> QED BY <1>1, <2>3, AheadIsAnOrder
<1>5. DOMAIN r = 1 .. N /\ P \subseteq 1 .. N
  BY <1>2
<1>6. \A n \in F : place(n) \in P /\ r[place(n)] = n
  BY <1>1, <1>2, <1>5
<1>7. \A i \in P : r[i] \in F /\ place(r[i]) = i
  BY <1>2, <1>5
<1>8. ASSUME P # {} PROVE k \in P /\ \A j \in P : k <= j
  <2>1. N \in Int /\ IsFiniteSet(1 .. N) /\ IsFiniteSet(P)
    <3>1. N \in Int /\ 1 \in Int
      BY PartsCount
    <3>2. IsFiniteSet(1 .. N)
      BY <3>1, FS_Interval
    <3> QED BY <1>5, <3>1, <3>2, FS_Subset
  <2> DEFINE id == [i \in P |-> i]
  <2>2. \A i \in P : id[i] \in Int
    BY <1>5
  <2>3. PICK m \in P : \A j \in P : id[m] <= id[j]
    <3> HIDE DEF P, id
    <3> QED BY <1>8, <2>1, <2>2, SmallestExists
  <2>4. \E i \in P : \A j \in P : i <= j
    BY <2>3
  <2> HIDE DEF P
  <2> QED BY <2>4
<1> HIDE DEF P, k
<1>9. F = {} <=> P = {}
  BY <1>6, <1>7
<1>10. F # {} => /\ TopCandidate(d) = r[k] /\ r[k] \in F /\ place(r[k]) = k
                 /\ \A m \in F : k <= place(m)
  BY <1>3, <1>6, <1>7, <1>8, <1>9
<1>11. ASSUME NEW t \in F
       PROVE  (\A m \in F : m \notin Ahead(z, t)) <=> t = TopCandidate(d)
  <2>1. ASSUME \A m \in F : m \notin Ahead(z, t) PROVE t = TopCandidate(d)
    <3>1. r[k] \in F /\ TopCandidate(d) = r[k] /\ r[k] \in D /\ t \in D
      BY <1>1, <1>10
    <3>2. r[k] \notin Ahead(z, t)
      BY <2>1, <3>1
    <3>3. t \notin Ahead(z, r[k])
      <4>1. place(t) \in Int /\ place(r[k]) \in Int /\ place(r[k]) = k /\ k <= place(t)
        BY <1>2, <1>10, <3>1
      <4>2. ~(place(t) < place(r[k]))
        BY <4>1
      <4> HIDE DEF place
      <4> QED BY <1>4, <3>1, <4>2
    <3> QED BY <1>4, <3>1, <3>2, <3>3
  <2>2. ASSUME t = TopCandidate(d), NEW m \in F PROVE m \notin Ahead(z, t)
    <3>1. t = r[k] /\ t \in D /\ m \in D
      BY <1>1, <1>10, <2>2
    <3>2. place(t) \in Int /\ place(m) \in Int /\ place(t) = k /\ k <= place(m)
      BY <1>2, <1>10, <3>1
    <3>3. ~(place(m) < place(t))
      BY <3>2
    <3> HIDE DEF place
    <3> QED BY <1>4, <3>1, <3>3
  <2> QED BY <2>1, <2>2
<1> QED BY <1>3, <1>9, <1>10, <1>11 DEF F, z

-----------------------------------------------------------------------------
(* A value above an order statistic does not move it by growing.            *)
RaisedAt(t, f, g) == f[t] <= g[t] /\ \A n \in DOMAIN f : n # t => g[n] = f[n]

(* Raising a value above the i-th smallest leaves the i-th smallest alone.  *)
LEMMA KthStays ==
    ASSUME NEW D, IsFiniteSet(D), NEW f \in [D -> Int], NEW i \in 1 .. Cardinality(D),
           NEW t \in D, Kth(f, i) < f[t], NEW g \in [D -> Int], RaisedAt(t, f, g)
    PROVE  Kth(g, i) = Kth(f, i)
<1> DEFINE v == Kth(f, i)
<1>1. IsKth(f, i, v) /\ v \in Int
  BY KthIs
<1>2. f[t] <= g[t] /\ g[t] \in Int /\ \A n \in D : n # t => g[n] = f[n]
  BY DEF RaisedAt
<1>3. v < f[t] /\ f[t] \in Int
  OBVIOUS
<1> HIDE DEF v
<1>4. DOMAIN g = D /\ DOMAIN f = D
  BY <1>2
<1>5. ASSUME NEW n \in D PROVE (g[n] < v <=> f[n] < v) /\ (g[n] <= v <=> f[n] <= v)
  <2>1. CASE n = t
    BY <1>1, <1>2, <1>3, <2>1
  <2>2. CASE n # t
    BY <1>2, <2>2
  <2> QED BY <2>1, <2>2
<1>6. /\ {n \in DOMAIN g : g[n] < v} = {n \in DOMAIN f : f[n] < v}
      /\ {n \in DOMAIN g : g[n] <= v} = {n \in DOMAIN f : f[n] <= v}
  BY <1>4, <1>5
<1>7. PICK n \in D : v = f[n]
  BY <1>1, <1>4 DEF IsKth
<1>8. v \in {g[m] : m \in DOMAIN g}
  BY <1>1, <1>2, <1>3, <1>4, <1>7
<1>9. IsKth(g, i, v)
  BY <1>1, <1>6, <1>8 DEF IsKth
<1> QED BY <1>9, KthIs DEF v

(* The lower middle value is not above the upper one.                       *)
LEMMA LowerIsLower ==
    ASSUME NEW D, IsFiniteSet(D), D # {}, NEW f \in [D -> Int]
    PROVE  Lower(f) <= Upper(f)
<1> DEFINE N == Cardinality(D)
           A == {n \in D : f[n] <= Upper(f)}
           B == {n \in D : f[n] < Lower(f)}
<1>1. Lower(f) \in Int /\ Upper(f) \in Int
  BY MedianIs
<1>2. Cardinality(A) >= N \div 2 + 1 /\ Cardinality(B) < (N + 1) \div 2
  BY MedianIs DEF IsKth
<1>3. Upper(f) < Lower(f) => A \subseteq B
  BY <1>1
<1>4. Upper(f) < Lower(f) => Cardinality(A) <= Cardinality(B)
  BY <1>3, PartsCount
<1>5. Cardinality(A) \in Nat /\ Cardinality(B) \in Nat /\ N \in Nat
  BY PartsCount
<1> HIDE DEF A, B, N
<1> QED BY <1>1, <1>2, <1>4, <1>5

(* Raising a value above the middle leaves the median alone.                *)
LEMMA MedianStays ==
    ASSUME NEW D, IsFiniteSet(D), D # {}, NEW f \in [D -> Int],
           NEW t \in D, Upper(f) < f[t], NEW g \in [D -> Int], RaisedAt(t, f, g)
    PROVE  TwiceMedian(g) = TwiceMedian(f)
<1>1. Lower(f) < f[t]
  BY MedianIs, LowerIsLower
<1>2. DOMAIN f = D /\ DOMAIN g = D
  OBVIOUS
<1> DEFINE i == (Cardinality(D) + 1) \div 2
           j == Cardinality(D) \div 2 + 1
<1>3. i \in 1 .. Cardinality(D) /\ j \in 1 .. Cardinality(D)
  BY MiddlePlaces
<1>4. Lower(f) = Kth(f, i) /\ Lower(g) = Kth(g, i) /\ Upper(f) = Kth(f, j) /\ Upper(g) = Kth(g, j)
  BY <1>2 DEF Lower, Upper
<1> HIDE DEF i, j
<1>5. Lower(g) = Lower(f)
  <2>1. Kth(g, i) = Kth(f, i)
    BY <1>1, <1>3, <1>4, KthStays
  <2> QED BY <1>4, <2>1
<1>6. Upper(g) = Upper(f)
  <2>1. Kth(g, j) = Kth(f, j)
    BY <1>3, <1>4, KthStays
  <2> QED BY <1>4, <2>1
<1>7. TwiceMedian(g) = Lower(g) + Upper(g) /\ TwiceMedian(f) = Lower(f) + Upper(f)
  BY MedianIs
<1> QED BY <1>5, <1>6, <1>7

(* A flagged node is slower than the upper middle one: all that are at      *)
(* least as slow deviate by as much, and are fewer than half.               *)
LEMMA FlaggedAreAbove ==
    ASSUME NEW D, IsFiniteSet(D), D # {}, NEW d \in [D -> Int], NEW t \in FlaggedNodes(d)
    PROVE  Upper(d) < d[t]
<1> DEFINE A == {n \in D : d[n] >= d[t]}
           B == {n \in D : d[n] < Upper(d)}
           v == Deviations(d)
<1>1. t \in D /\ 2 * d[t] - TwiceMedian(d) > 0 /\ v[t] = 2 * d[t] - TwiceMedian(d) /\ v[t] > Upper(v)
  BY FlaggedAreFar
<1>2. TwiceMedian(d) \in Int /\ d[t] \in Int /\ Upper(d) \in Int /\ Upper(v) \in Int
  BY <1>1, MedianIs, MadIs
<1>3. ASSUME NEW n \in A PROVE v[n] > Upper(v)
  <2>1. d[n] \in Int /\ d[n] >= d[t]
    OBVIOUS
  <2>2. v[n] = Abs(2 * d[n] - TwiceMedian(d))
    BY DEF Deviations
  <2> HIDE DEF v
  <2>3. 2 * d[n] - TwiceMedian(d) >= 2 * d[t] - TwiceMedian(d)
    BY <1>2, <2>1
  <2> QED BY <1>1, <1>2, <2>1, <2>2, <2>3 DEF Abs
<1>4. 2 * Cardinality(A) < Cardinality(D)
  <2>1. v \in [D -> Int] /\ A \in SUBSET D
    BY MadIs
  <2> HIDE DEF v, A
  <2> QED BY <1>3, <2>1, FewAreAbove
<1>5. Cardinality(B) < Cardinality(D) \div 2 + 1
  BY MedianIs DEF IsKth
<1>6. d[t] <= Upper(d) => D \ B \subseteq A
  BY <1>2
<1>7. d[t] <= Upper(d) => Cardinality(D) - Cardinality(B) <= Cardinality(A)
  <2>1. A \in SUBSET D /\ B \in SUBSET D
    OBVIOUS
  <2> HIDE DEF A, B
  <2>2. Cardinality(D \ B) = Cardinality(D) - Cardinality(B)
    BY <2>1, PartsCount
  <2>3. D \ B \subseteq A => Cardinality(D \ B) <= Cardinality(A)
    BY <2>1, PartsCount
  <2> QED BY <1>6, <2>2, <2>3
<1>8. Cardinality(A) \in Nat /\ Cardinality(B) \in Nat /\ Cardinality(D) \in Nat
  BY PartsCount
<1> HIDE DEF A, B
<1> QED BY <1>2, <1>4, <1>5, <1>7, <1>8

(* Had a flagged node taken longer, only its own score would be different.  *)
LEMMA RaisedScores ==
    ASSUME NEW D, IsFiniteSet(D), D # {}, NEW d \in [D -> Int], NEW t \in FlaggedNodes(d),
           NEW e \in [D -> Int], RaisedAt(t, d, e), d[t] < e[t]
    PROVE  /\ t \in D
           /\ ZScores(d) \in [D -> Int] /\ ZScores(e) \in [D -> Int]
           /\ ZScores(d)[t] < ZScores(e)[t]
           /\ \A n \in D : n # t => ZScores(e)[n] = ZScores(d)[n]
           /\ FlaggedNodes(e) = FlaggedNodes(d)
<1> DEFINE v == Deviations(d)
           M == TwiceMedian(d)
<1>1. /\ t \in D /\ 2 * d[t] - M > 0 /\ v[t] = 2 * d[t] - M /\ v[t] > Upper(v)
      /\ Upper(d) < d[t]
  BY FlaggedAreFar, FlaggedAreAbove
<1>2. e[t] \in Int /\ \A n \in D : n # t => e[n] = d[n]
  BY <1>1 DEF RaisedAt
<1>3. M \in Int /\ d[t] \in Int /\ v \in [D -> Int]
  BY <1>1, MedianIs, MadIs
<1>4. TwiceMedian(e) = M
  BY <1>1, MedianStays
<1>5. RaisedAt(t, v, Deviations(e)) /\ Deviations(e) \in [D -> Int]
  <2>1. Abs(2 * e[t] - M) = 2 * e[t] - M /\ 2 * e[t] - M >= v[t]
    BY <1>1, <1>2, <1>3 DEF Abs
  <2>2. DOMAIN e = D /\ DOMAIN d = D /\ Deviations(e) \in [D -> Int]
    BY MadIs
  <2> HIDE DEF M
  <2> QED BY <1>1, <1>2, <1>4, <2>1, <2>2 DEF Deviations, RaisedAt, M
<1>6. TwiceMedian(Deviations(e)) = TwiceMedian(v)
  <2> DEFINE u == Deviations(e)
  <2> HIDE DEF v, u
  <2>1. TwiceMedian(u) = TwiceMedian(v)
    BY <1>1, <1>3, <1>5, MedianStays DEF u
  <2> QED BY <2>1 DEF u
<1>7. FourTimesMad(e) = FourTimesMad(d)
  BY <1>2, <1>6, MadIs
<1>8. /\ ZScores(d) \in [D -> Int] /\ ZScores(e) \in [D -> Int]
      /\ \A n \in D : ZScores(d)[n] = 2 * (2 * d[n] - M)
      /\ \A n \in D : ZScores(e)[n] = 2 * (2 * e[n] - M)
      /\ FlaggedNodes(d) = {n \in D : 6745 * ZScores(d)[n] > 35000 * FourTimesMad(d)}
      /\ FlaggedNodes(e) = {n \in D : 6745 * ZScores(e)[n] > 35000 * FourTimesMad(d)}
  <2> HIDE DEF v
  <2>1. /\ ZScores(d) \in [D -> Int]
        /\ \A n \in D : ZScores(d)[n] = 2 * (2 * d[n] - M)
        /\ FlaggedNodes(d) = {n \in D : 6745 * ZScores(d)[n] > 35000 * FourTimesMad(d)}
    BY ScoresAre
  <2>2. /\ ZScores(e) \in [D -> Int]
        /\ \A n \in D : ZScores(e)[n] = 2 * (2 * e[n] - TwiceMedian(e))
        /\ FlaggedNodes(e) = {n \in D : 6745 * ZScores(e)[n] > 35000 * FourTimesMad(e)}
    <3> HIDE DEF M
    <3> QED BY <1>2, ScoresAre
  <2> HIDE DEF M
  <2> QED BY <1>4, <1>7, <2>1, <2>2
<1> HIDE DEF M, v
<1>9. ZScores(d)[t] < ZScores(e)[t]
  BY <1>1, <1>2, <1>3, <1>8
<1>10. ASSUME NEW n \in D, n # t PROVE ZScores(e)[n] = ZScores(d)[n]
  BY <1>2, <1>8, <1>10
<1>11. FlaggedNodes(e) = FlaggedNodes(d)
  <2>1. FourTimesMad(d) \in Int
    BY MadIs
  <2>2. 6745 * ZScores(d)[t] > 35000 * FourTimesMad(d)
    BY <1>8
  <2>3. ZScores(d)[t] \in Int /\ ZScores(e)[t] \in Int
    BY <1>1, <1>8
  <2>4. 6745 * ZScores(e)[t] > 35000 * FourTimesMad(d)
    BY <1>9, <2>1, <2>2, <2>3
  <2> QED BY <1>8, <1>10, <2>2, <2>4
<1> QED BY <1>1, <1>2, <1>8, <1>9, <1>10, <1>11

(* So the top candidate would still be the top candidate.                   *)
LEMMA TopStays ==
    ASSUME NEW D, Numbered(D), IsFiniteSet(D), D # {}, NEW d \in [D -> Int],
           TopCandidate(d) # NoNode, NEW x \in Int, d[TopCandidate(d)] < x
    PROVE  TopCandidate([d EXCEPT ![TopCandidate(d)] = x]) = TopCandidate(d)
<1> DEFINE t == TopCandidate(d)
           e == [d EXCEPT ![t] = x]
<1>1. /\ t \in FlaggedNodes(d)
      /\ \A m \in FlaggedNodes(d) : m \notin Ahead(ZScores(d), t)
  BY TopIs
<1> HIDE DEF t, e
<1>2. d[t] < x
  BY DEF t
<1>3. t \in D /\ e \in [D -> Int] /\ RaisedAt(t, d, e) /\ d[t] < e[t]
  <2>1. t \in D
    BY <1>1, FlaggedAreFar
  <2> QED BY <1>2, <2>1 DEF e, RaisedAt
<1>4. /\ ZScores(d) \in [D -> Int] /\ ZScores(e) \in [D -> Int]
      /\ ZScores(d)[t] < ZScores(e)[t]
      /\ \A n \in D : n # t => ZScores(e)[n] = ZScores(d)[n]
      /\ FlaggedNodes(e) = FlaggedNodes(d)
  BY <1>1, <1>3, RaisedScores
<1>5. ASSUME NEW m \in FlaggedNodes(e) PROVE m \notin Ahead(ZScores(e), t)
  <2> DEFINE z == ZScores(d)
             y == ZScores(e)
  <2>1. m \in D /\ t \in D /\ m \in FlaggedNodes(d)
    BY <1>4, <1>3, ScoresAre
  <2>2. /\ DOMAIN y = D /\ DOMAIN z = D
        /\ y[t] \in Int /\ z[t] \in Int /\ y[m] \in Int /\ z[m] \in Int
    BY <1>4, <2>1
  <2>3. m \notin Ahead(z, t)
    BY <1>1, <2>1
  <2>4. z[t] < y[t] /\ (m # t => y[m] = z[m])
    BY <1>4, <2>1
  <2> HIDE DEF y, z
  <2>5. ~(z[m] > z[t])
    BY <2>1, <2>2, <2>3 DEF Ahead
  <2>6. CASE m = t
    <3>1. \A n \in D : n \in Int
      BY DEF Numbered
    <3> QED BY <2>1, <2>2, <2>6, <3>1 DEF Ahead, y
  <2>7. CASE m # t
    <3>1. y[m] < y[t]
      BY <2>2, <2>4, <2>5, <2>7
    <3> QED BY <2>2, <3>1 DEF Ahead, y
  <2> QED BY <2>6, <2>7
<1>6. t = TopCandidate(e)
  BY <1>1, <1>4, <1>5, <1>3, TopIs
<1> QED BY <1>6 DEF t, e

-----------------------------------------------------------------------------
(* The rows an answer reads.  Samples are taken one after the other.        *)
LEMMA TimesGrow ==
    \A i, k \in Int : Ts(i) \in Int /\ (Ts(i) <= Ts(k) <=> i <= k)
<1> SUFFICES ASSUME NEW i \in Int, NEW k \in Int
             PROVE  Ts(i) \in Int /\ (Ts(i) <= Ts(k) <=> i <= k)
  OBVIOUS
<1>1. SampleInterval \in Nat \ {0}
  BY TimesAssumption
<1>2. SampleInterval * i <= SampleInterval * k <=> i <= k
  BY <1>1, TimesKeepsOrder
<1>3. /\ SampleInterval * i \in Int
      /\ SampleInterval * i = i * SampleInterval /\ SampleInterval * k = k * SampleInterval
  BY <1>1
<1> QED BY <1>2, <1>3 DEF Ts

(* Rows that are among the newest of every settled answer: no more than     *)
(* limit samples have been taken since.                                     *)
LEMMA RowsAreNewest ==
    ASSUME NEW h, NEW m, NEW n \in Nat, NEW limit \in Nat \ {0},
           NEW i \in 1 .. n, h[i][m] # Unread, n - limit + 1 <= i
    PROVE  i \in Newest(h, m, n, limit)
<1> DEFINE rows == {j \in 1 .. n : h[j][m] # Unread}
           newer == {j \in rows : j > i}
<1>1. newer \subseteq (i + 1) .. n
  OBVIOUS
<1>2. IsFiniteSet((i + 1) .. n) /\ Cardinality((i + 1) .. n) = n - i
  <2>1. i + 1 \in Int /\ n \in Int
    OBVIOUS
  <2>2. /\ IsFiniteSet((i + 1) .. n)
        /\ Cardinality((i + 1) .. n) = IF i + 1 > n THEN 0 ELSE n - (i + 1) + 1
    BY <2>1, FS_Interval
  <2> QED BY <2>2
<1>3. Cardinality(newer) \in Nat /\ Cardinality(newer) <= n - i
  <2> HIDE DEF newer
  <2> QED BY <1>1, <1>2, PartsCount, FS_Subset, FS_CardinalityType
<1>4. Cardinality(newer) < limit
  <2> HIDE DEF newer
  <2> QED BY <1>3
<1>5. i \in rows
  OBVIOUS
<1> HIDE DEF rows
<1> QED BY <1>4, <1>5 DEF Newest, rows

(* The rows near the middle of the phase, and those before it, whatever the *)
(* number of samples stored.                                                *)
AllNear(h, m)   == {i \in Nat \ {0} : h[i][m] # Unread /\ Distance(i) <= Radius}
AllBefore(h, m) ==
    {i \in Nat \ {0} : h[i][m] # Unread /\ Ts(i) >= PhaseStart - Window /\ Ts(i) < PhaseStart}

(* Once settled, the rows the root cause is read from do not change.        *)
LEMMA SettledRows ==
    ASSUME NEW h, NEW m, NEW n \in Nat, Settled(n)
    PROVE  Near(h, m, n) = AllNear(h, m) /\ Before(h, m, n) = AllBefore(h, m)
<1>1. /\ Radius \in Nat /\ Window \in Nat /\ NearestLimit \in Nat \ {0}
      /\ BaselineLimit \in Nat \ {0} /\ PhaseStart \in Nat /\ PhaseEnd \in Nat
      /\ PhaseStart <= PhaseEnd
  BY TimesAssumption, LimitsAssumption
<1>2. Mid \in Nat /\ PhaseStart <= Mid
  BY <1>1 DEF Mid
<1>3. /\ Ts(n) >= Mid + Radius
      /\ Ts(n - NearestLimit + 1) <= Mid - Radius
      /\ Ts(n - BaselineLimit + 1) <= PhaseStart - Window
  BY DEF Settled
<1>4. ASSUME NEW i \in AllNear(h, m) PROVE i \in Near(h, m, n)
  <2>1. i \in Nat \ {0} /\ h[i][m] # Unread /\ Distance(i) <= Radius
    BY <1>4 DEF AllNear
  <2>2. Ts(i) \in Int /\ Ts(i) <= Mid + Radius /\ Ts(i) >= Mid - Radius
    <3>1. Ts(i) \in Int
      BY <2>1, TimesGrow
    <3> QED BY <1>1, <1>2, <2>1, <3>1 DEF Distance, Abs
  <2>3. Ts(i) <= Ts(n) /\ Ts(n - NearestLimit + 1) <= Ts(i)
    <3>1. n \in Int /\ n - NearestLimit + 1 \in Int
      BY <1>1
    <3>2. Ts(n) \in Int /\ Ts(n - NearestLimit + 1) \in Int
      BY <3>1, TimesGrow
    <3> QED BY <1>1, <1>2, <1>3, <2>2, <3>2
  <2>4. i <= n /\ n - NearestLimit + 1 <= i
    <3>1. n \in Int /\ n - NearestLimit + 1 \in Int /\ i \in Int
      BY <1>1, <2>1
    <3> QED BY <2>3, <3>1, TimesGrow
  <2>5. i \in Newest(h, m, n, NearestLimit)
    <3>1. i \in 1 .. n
      BY <2>1, <2>4
    <3> QED BY <1>1, <2>1, <2>4, <3>1, RowsAreNewest
  <2> QED BY <2>1, <2>5 DEF Near
<1>5. ASSUME NEW i \in Near(h, m, n) PROVE i \in AllNear(h, m)
  <2>1. i \in 1 .. n /\ h[i][m] # Unread /\ Distance(i) <= Radius
    BY <1>5 DEF Near, Newest
  <2> QED BY <2>1 DEF AllNear
<1>6. ASSUME NEW i \in AllBefore(h, m) PROVE i \in Before(h, m, n)
  <2>1. /\ i \in Nat \ {0} /\ h[i][m] # Unread
        /\ Ts(i) >= PhaseStart - Window /\ Ts(i) < PhaseStart
    BY <1>6 DEF AllBefore
  <2>2. Ts(i) <= Ts(n) /\ Ts(n - BaselineLimit + 1) <= Ts(i)
    <3>1. n \in Int /\ n - BaselineLimit + 1 \in Int /\ i \in Int
      BY <1>1, <2>1
    <3>2. Ts(n) \in Int /\ Ts(n - BaselineLimit + 1) \in Int /\ Ts(i) \in Int
      BY <3>1, TimesGrow
    <3> QED BY <1>1, <1>2, <1>3, <2>1, <3>2
  <2>3. i <= n /\ n - BaselineLimit + 1 <= i
    <3>1. n \in Int /\ n - BaselineLimit + 1 \in Int /\ i \in Int
      BY <1>1, <2>1
    <3> QED BY <2>2, <3>1, TimesGrow
  <2>4. i \in Newest(h, m, n, BaselineLimit)
    <3>1. i \in 1 .. n
      BY <2>1, <2>3
    <3> QED BY <1>1, <2>1, <2>3, <3>1, RowsAreNewest
  <2> QED BY <2>1, <2>4 DEF Before
<1>7. ASSUME NEW i \in Before(h, m, n) PROVE i \in AllBefore(h, m)
  <2>1. /\ i \in 1 .. n /\ h[i][m] # Unread
        /\ Ts(i) >= PhaseStart - Window /\ Ts(i) < PhaseStart
    BY <1>7 DEF Before, Newest
  <2> QED BY <2>1 DEF AllBefore
<1> QED BY <1>4, <1>5, <1>6, <1>7

(* So settled answers compare the same deltas.                              *)
LEMMA SettledDeltas ==
    ASSUME NEW h, NEW n \in Nat, NEW p \in Nat, Settled(n), Settled(p)
    PROVE  Deltas(h, n) = Deltas(h, p)
<1>1. ASSUME NEW m
      PROVE  (Measurable(h, m, n) <=> Measurable(h, m, p)) /\ Delta(h, m, n) = Delta(h, m, p)
  <2>1. Near(h, m, n) = Near(h, m, p) /\ Before(h, m, n) = Before(h, m, p)
    BY SettledRows
  <2>2. During(h, m, n) = During(h, m, p)
    BY <2>1 DEF During
  <2>3. Measurable(h, m, n) <=> Measurable(h, m, p)
    BY <2>1, <2>2 DEF Measurable
  <2>4. Delta(h, m, n) = Delta(h, m, p)
    BY <2>1, <2>2 DEF Delta
  <2> QED BY <2>3, <2>4
<1>2. {k \in 1 .. 3 : Measurable(h, Metrics[k], n)} = {k \in 1 .. 3 : Measurable(h, Metrics[k], p)}
  BY <1>1
<1> QED BY <1>1, <1>2 DEF Deltas

-----------------------------------------------------------------------------
(* Induction over 0 .. N, stated of a set.                                  *)
LEMMA IntervalInduction ==
    ASSUME NEW N \in Nat, NEW S \in SUBSET (0 .. N), 0 \in S,
           \A n \in S : n < N => n + 1 \in S
    PROVE  S = 0 .. N
<1> DEFINE T == (0 .. N) \ S
           id == [n \in T |-> n]
<1>1. IsFiniteSet(T)
  <2>1. 0 \in Int /\ N \in Int
    OBVIOUS
  <2>2. IsFiniteSet(0 .. N)
    BY <2>1, FS_Interval
  <2> QED BY <2>2, FS_Subset
<1>2. ASSUME T # {} PROVE FALSE
  <2>1. \A n \in T : id[n] \in Int
    OBVIOUS
  <2>2. PICK n \in T : \A k \in T : id[n] <= id[k]
    <3> HIDE DEF T, id
    <3> QED BY <1>1, <1>2, <2>1, SmallestExists
  <2>3. n \in 0 .. N /\ n \notin S /\ n # 0
    OBVIOUS
  <2>4. n - 1 \in 0 .. N /\ n - 1 < N /\ (n - 1) + 1 = n
    BY <2>3
  <2>5. n - 1 \notin T
    BY <2>2, <2>3
  <2>6. n - 1 \in S
    BY <2>4, <2>5
  <2> QED BY <2>3, <2>4, <2>6
<1> QED BY <1>2

(* Partial sums exist, so the recursion that adds them up has a value.      *)
AddsUp(a, n, g) ==
    g \in [0 .. n -> Int] /\ g[0] = 0 /\ \A i \in 1 .. n : g[i] = g[i - 1] + a[i]

(* Partial sums exist for every finite sequence,                            *)
LEMMA SumsExist ==
    ASSUME NEW N \in Nat, NEW a \in [1 .. N -> Int]
    PROVE  \E g : AddsUp(a, N, g)
<1> DEFINE S == {n \in 0 .. N : \E g : AddsUp(a, n, g)}
<1>1. 0 \in S
  <2> DEFINE g == [i \in 0 .. 0 |-> 0]
  <2>1. AddsUp(a, 0, g)
    BY DEF AddsUp
  <2> QED BY <2>1
<1>2. ASSUME NEW n \in S, n < N PROVE n + 1 \in S
  <2>1. n \in 0 .. N /\ n + 1 \in 1 .. N
    BY <1>2
  <2>2. PICK g : AddsUp(a, n, g)
    OBVIOUS
  <2> DEFINE f == [i \in 0 .. n + 1 |-> IF i = n + 1 THEN g[n] + a[n + 1] ELSE g[i]]
  <2>3. /\ \A i \in 0 .. n : g[i] \in Int
        /\ g[0] = 0 /\ \A i \in 1 .. n : g[i] = g[i - 1] + a[i]
    BY <2>2 DEF AddsUp
  <2>4. a[n + 1] \in Int /\ g[n] \in Int
    BY <2>1, <2>3
  <2>5. f \in [0 .. n + 1 -> Int] /\ f[0] = 0
    <3>1. ASSUME NEW i \in 0 .. n + 1
          PROVE  (IF i = n + 1 THEN g[n] + a[n + 1] ELSE g[i]) \in Int
      BY <2>1, <2>3, <2>4
    <3>2. 0 \in 0 .. n + 1 /\ 0 # n + 1
      BY <2>1
    <3> QED BY <2>3, <3>1, <3>2
  <2>6. ASSUME NEW i \in 1 .. n + 1 PROVE f[i] = f[i - 1] + a[i]
    <3>1. i \in 0 .. n + 1 /\ i - 1 \in 0 .. n /\ i - 1 \in 0 .. n + 1 /\ i - 1 # n + 1
      BY <2>1
    <3>2. f[i - 1] = g[i - 1]
      BY <3>1
    <3>3. CASE i = n + 1
      <4>1. f[i] = g[n] + a[n + 1] /\ i - 1 = n
        BY <2>1, <3>1, <3>3
      <4> QED BY <3>2, <3>3, <4>1
    <3>4. CASE i # n + 1
      <4>1. f[i] = g[i] /\ i \in 1 .. n
        BY <2>1, <3>1, <3>4
      <4> QED BY <2>3, <3>2, <4>1
    <3> QED BY <3>3, <3>4
  <2>7. AddsUp(a, n + 1, f)
    <3> HIDE DEF f
    <3> QED BY <2>5, <2>6 DEF AddsUp
  <2>8. n + 1 \in 0 .. N
    BY <2>1
  <2> QED BY <2>7, <2>8
<1>3. S = 0 .. N
  <2>1. S \in SUBSET (0 .. N)
    OBVIOUS
  <2> HIDE DEF S
  <2> QED BY <1>1, <1>2, <2>1, IntervalInduction
<1>4. N \in S
  <2>1. N \in 0 .. N
    OBVIOUS
  <2> HIDE DEF S
  <2> QED BY <1>3, <2>1
<1> QED BY <1>4

(* so sum(window) is a number.                                              *)
LEMMA SumIsInt ==
    ASSUME NEW h, NEW m, NEW rows, \A i \in rows : h[i][m] \in Int
    PROVE  WindowSum(h, m, rows) \in Int
<1> DEFINE N == MaxSamples
           F(f) == [i \in 0 .. N |->
                      IF i = 0 THEN 0
                      ELSE f[i - 1] + (IF i \in rows THEN h[i][m] ELSE 0)]
           u == CHOOSE f : f = F(f)
           a == [i \in 1 .. N |-> IF i \in rows THEN h[i][m] ELSE 0]
<1>1. N \in Nat
  BY TimesAssumption
<1>2. a \in [1 .. N -> Int] /\ \A i \in 1 .. N : a[i] = IF i \in rows THEN h[i][m] ELSE 0
  OBVIOUS
<1>3. PICK g : AddsUp(a, N, g)
  <2> HIDE DEF a, N
  <2> QED BY <1>1, <1>2, SumsExist
<1>4. g = F(g)
  <2>1. g = [i \in 0 .. N |-> g[i]]
    BY <1>3 DEF AddsUp
  <2>2. ASSUME NEW i \in 0 .. N
        PROVE  g[i] = IF i = 0 THEN 0 ELSE g[i - 1] + (IF i \in rows THEN h[i][m] ELSE 0)
    <3>1. CASE i = 0
      BY <1>3, <3>1 DEF AddsUp
    <3>2. CASE i # 0
      <4>1. i \in 1 .. N
        BY <1>1, <3>2
      <4>2. g[i] = g[i - 1] + a[i]
        BY <1>3, <4>1 DEF AddsUp
      <4> QED BY <1>2, <3>2, <4>1, <4>2
    <3> QED BY <3>1, <3>2
  <2> QED BY <2>1, <2>2
<1>5. u = F(u)
  <2> HIDE DEF F
  <2> QED BY <1>4
<1>6. /\ \A i \in 0 .. N : u[i] = F(u)[i]
  BY <1>5
<1> HIDE DEF u
<1> DEFINE S == {i \in 0 .. N : u[i] \in Int}
<1>7. 0 \in S
  BY <1>1, <1>6
<1>8. ASSUME NEW n \in S, n < N PROVE n + 1 \in S
  <2>1. n + 1 \in 0 .. N /\ n + 1 \in 1 .. N /\ n + 1 # 0 /\ (n + 1) - 1 = n
    BY <1>1, <1>8
  <2>2. u[n + 1] = u[n] + (IF n + 1 \in rows THEN h[n + 1][m] ELSE 0)
    BY <1>6, <2>1
  <2>3. (IF n + 1 \in rows THEN h[n + 1][m] ELSE 0) \in Int /\ u[n] \in Int
    OBVIOUS
  <2> QED BY <2>1, <2>2, <2>3
<1>9. S = 0 .. N
  <2>1. S \in SUBSET (0 .. N)
    OBVIOUS
  <2> HIDE DEF S, N
  <2> QED BY <1>1, <1>7, <1>8, <2>1, IntervalInduction
<1>10. u[N] \in Int
  <2>1. N \in 0 .. N
    BY <1>1
  <2> QED BY <1>9, <2>1
<1> QED BY <1>10 DEF WindowSum, u

-----------------------------------------------------------------------------
(* The largest delta.  A delta is a fraction whose denominator is positive, *)
(* or the infinite one.                                                     *)
DeltaLike(p) ==
    \/ p = <<1, 0>>
    \/ p[1] \in Int /\ p[2] \in Nat \ {0}

(* Deltas are ordered as fractions are, the infinite one above all others.  *)
LEMMA GreaterIsAnOrder ==
    \A p, q, r :
        DeltaLike(p) /\ DeltaLike(q) /\ DeltaLike(r) =>
            /\ ~Greater(p, p)
            /\ Greater(p, q) /\ Greater(q, r) => Greater(p, r)
            /\ Greater(p, q) /\ ~Greater(r, q) => Greater(p, r)
<1> SUFFICES ASSUME NEW p, NEW q, NEW r, DeltaLike(p), DeltaLike(q), DeltaLike(r)
             PROVE  /\ ~Greater(p, p)
                    /\ Greater(p, q) /\ Greater(q, r) => Greater(p, r)
                    /\ Greater(p, q) /\ ~Greater(r, q) => Greater(p, r)
  OBVIOUS
<1> DEFINE a == p[1]
           b == p[2]
           c == q[1]
           d == q[2]
           e == r[1]
           f == r[2]
<1>1. /\ a \in Int /\ b \in Nat /\ (b = 0 => a = 1)
      /\ c \in Int /\ d \in Nat /\ (d = 0 => c = 1)
      /\ e \in Int /\ f \in Nat /\ (f = 0 => e = 1)
  BY DEF DeltaLike
<1>2. /\ Greater(p, p) <=> a * b > a * b
      /\ Greater(p, q) <=> a * d > c * b
      /\ Greater(q, r) <=> c * f > e * d
      /\ Greater(r, q) <=> e * d > c * f
      /\ Greater(p, r) <=> a * f > e * b
  BY DEF Greater
<1> HIDE DEF a, b, c, d, e, f
<1>3. ASSUME a * d > c * b, c * f >= e * d PROVE a * f > e * b
  <2>0. /\ a * d \in Int /\ c * b \in Int /\ c * f \in Int /\ e * d \in Int
        /\ a * f \in Int /\ e * b \in Int
    BY <1>1
  <2>1. CASE d = 0
    <3>1. c = 1 /\ a * d = 0 /\ c * b = b
      BY <1>1, <2>1
    <3> QED BY <1>1, <1>3, <3>1
  <2>2. CASE d # 0 /\ f = 0
    <3>1. e = 1 /\ c * f = 0 /\ e * d = d
      BY <1>1, <2>2
    <3> QED BY <1>1, <1>3, <2>2, <3>1
  <2>3. CASE d # 0 /\ f # 0
    <3>1. f \in Nat \ {0} /\ d \in Nat \ {0}
      BY <1>1, <2>3
    <3>2. f * (c * b) < f * (a * d)
      BY <1>3, <2>0, <3>1, TimesKeepsOrder
    <3>3. b * (e * d) <= b * (c * f)
      <4>1. CASE b = 0
        <5>1. b * (e * d) = 0 /\ b * (c * f) = 0
          BY <2>0, <4>1
        <5> QED BY <5>1
      <4>2. CASE b # 0
        <5>1. b \in Nat \ {0} /\ e * d <= c * f
          BY <1>1, <1>3, <2>0, <4>2
        <5> QED BY <2>0, <5>1, TimesKeepsOrder
      <4> QED BY <4>1, <4>2
    <3>4. /\ f * (c * b) = b * (c * f) /\ f * (a * d) = d * (a * f)
          /\ b * (e * d) = d * (e * b)
      BY <1>1
    <3>5. d * (e * b) \in Int /\ d * (a * f) \in Int /\ f * (c * b) \in Int
      BY <1>1, <2>0
    <3>6. d * (e * b) < d * (a * f)
      BY <3>2, <3>3, <3>4, <3>5
    <3>7. e * b < a * f
      BY <2>0, <3>1, <3>6, TimesKeepsOrder
    <3> QED BY <2>0, <3>7
  <2> QED BY <2>1, <2>2, <2>3
<1>4. a * d \in Int /\ c * f \in Int /\ e * d \in Int /\ a * b \in Int
  BY <1>1
<1>5. ~Greater(p, p)
  BY <1>2, <1>4
<1>6. ASSUME Greater(p, q), Greater(q, r) PROVE Greater(p, r)
  <2>1. c * f >= e * d
    BY <1>2, <1>4, <1>6
  <2> QED BY <1>2, <1>3, <1>6, <2>1
<1>7. ASSUME Greater(p, q), ~Greater(r, q) PROVE Greater(p, r)
  <2>1. c * f >= e * d
    BY <1>2, <1>4, <1>7
  <2> QED BY <1>2, <1>3, <1>7, <2>1
<1> QED BY <1>5, <1>6, <1>7

(* There is a first of the largest deltas.                                  *)
LEMMA BestExists ==
    ASSUME NEW delta, DOMAIN delta \in SUBSET (1 .. 3), DOMAIN delta # {},
           \A i \in DOMAIN delta : DeltaLike(delta[i])
    PROVE  Best(delta) \in DOMAIN delta
<1> DEFINE M == DOMAIN delta
           R == {p \in M \X M : \/ Greater(delta[p[1]], delta[p[2]])
                                \/ ~Greater(delta[p[2]], delta[p[1]]) /\ p[1] < p[2]}
<1>1. \A i, j \in M : <<i, j>> \in R <=> \/ Greater(delta[i], delta[j])
                                         \/ ~Greater(delta[j], delta[i]) /\ i < j
  OBVIOUS
<1>2. \A i \in M : i \in Int
  OBVIOUS
<1>3. StrictOrder(R, M)
  <2>1. ASSUME NEW i \in M PROVE <<i, i>> \notin R
    BY <1>1, <1>2, GreaterIsAnOrder
  <2>2. ASSUME NEW i \in M, NEW j \in M, NEW k \in M, <<i, j>> \in R, <<j, k>> \in R
        PROVE  <<i, k>> \in R
    <3> DEFINE p == delta[i]
               q == delta[j]
               r == delta[k]
    <3>1. DeltaLike(p) /\ DeltaLike(q) /\ DeltaLike(r)
      OBVIOUS
    <3>2. Greater(p, q) \/ (~Greater(q, p) /\ i < j)
      BY <1>1, <2>2
    <3>3. Greater(q, r) \/ (~Greater(r, q) /\ j < k)
      BY <1>1, <2>2
    <3> HIDE DEF p, q, r
    <3>4. CASE Greater(p, q)
      <4>1. ~Greater(r, q)
        BY <3>1, <3>3, GreaterIsAnOrder
      <4>2. Greater(p, r)
        BY <3>1, <3>4, <4>1, GreaterIsAnOrder
      <4> QED BY <1>1, <4>2 DEF p, r
    <3>5. CASE ~Greater(q, p) /\ Greater(q, r)
      <4>1. Greater(p, r)
        <5>1. CASE Greater(p, r)
          BY <5>1
        <5>2. CASE ~Greater(p, r)
          \* q > r and not p > r, hence q > p
          BY <3>1, <3>5, <5>2, GreaterIsAnOrder
        <5> QED BY <5>1, <5>2
      <4> QED BY <1>1, <4>1 DEF p, r
    <3>6. CASE ~Greater(q, p) /\ ~Greater(r, q) /\ i < j /\ j < k
      <4>1. i < k
        BY <1>2, <3>6
      <4>2. ~Greater(r, p)
        BY <3>1, <3>6, GreaterIsAnOrder
      <4> QED BY <1>1, <4>1, <4>2 DEF p, r
    <3> QED BY <3>2, <3>3, <3>4, <3>5, <3>6
  <2> HIDE DEF R, M
  <2> QED BY <2>1, <2>2 DEF StrictOrder
<1>4. IsFiniteSet(M)
  <2>1. 1 \in Int /\ 3 \in Int
    OBVIOUS
  <2>2. IsFiniteSet(1 .. 3)
    BY <2>1, FS_Interval
  <2> QED BY <2>2, FS_Subset
<1>5. PICK i \in M : \A j \in M : <<j, i>> \notin R
  <2> HIDE DEF R, M
  <2>1. M # {}
    BY DEF M
  <2> QED BY <1>3, <1>4, <2>1, FirstExists
<1>6. ASSUME NEW j \in M
      PROVE  ~Greater(delta[j], delta[i]) /\ (j < i => Greater(delta[i], delta[j]))
  <2>1. <<j, i>> \notin R
    BY <1>5
  <2> HIDE DEF R
  <2> QED BY <1>1, <2>1
<1>7. \E k \in DOMAIN delta : \A j \in DOMAIN delta :
          ~Greater(delta[j], delta[k]) /\ (j < k => Greater(delta[k], delta[j]))
  <2> HIDE DEF R
  <2> QED BY <1>6
<1> HIDE DEF R, M
<1> QED BY <1>7 DEF Best

(* What a history of readings makes of the deltas, and of the cause.        *)
LEMMA NearestIsNear ==
    ASSUME NEW rows, IsFiniteSet(rows), rows # {}, \A i \in rows : i \in Int
    PROVE  Nearest(rows) \in rows
<1> DEFINE R == {p \in rows \X rows : \/ Distance(p[1]) < Distance(p[2])
                                      \/ Distance(p[1]) = Distance(p[2]) /\ p[1] > p[2]}
<1>1. \A i, j \in rows : <<i, j>> \in R <=> \/ Distance(i) < Distance(j)
                                            \/ Distance(i) = Distance(j) /\ i > j
  OBVIOUS
<1>2. \A i \in rows : i \in Int /\ Distance(i) \in Int
  <2>1. Mid \in Int
    BY TimesAssumption DEF Mid
  <2>2. ASSUME NEW i \in rows PROVE i \in Int /\ Distance(i) \in Int
    <3>1. i \in Int /\ Ts(i) \in Int
      BY TimesGrow
    <3> QED BY <2>1, <3>1 DEF Distance, Abs
  <2> QED BY <2>2
<1>3. StrictOrder(R, rows)
  <2> HIDE DEF R
  <2> QED BY <1>1, <1>2 DEF StrictOrder
<1>4. PICK i \in rows : \A j \in rows : <<j, i>> \notin R
  <2> HIDE DEF R
  <2> QED BY <1>3, FirstExists
<1>5. ASSUME NEW j \in rows
      PROVE  Distance(i) < Distance(j) \/ (Distance(i) = Distance(j) /\ i >= j)
  <2>1. <<j, i>> \notin R
    BY <1>4
  <2> HIDE DEF R
  <2> QED BY <1>1, <1>2, <2>1
<1>6. \E k \in rows : \A j \in rows :
          Distance(k) < Distance(j) \/ (Distance(k) = Distance(j) /\ k >= j)
  <2> HIDE DEF R
  <2> QED BY <1>5
<1> HIDE DEF R
<1> QED BY <1>6 DEF Nearest

(* _relative_delta returns a fraction or infinity.                          *)
LEMMA DeltasAreDeltas ==
    ASSUME NEW h \in [1 .. MaxSamples -> Readings], NEW n \in 0 .. MaxSamples
    PROVE  /\ DOMAIN Deltas(h, n) \in SUBSET (1 .. 3)
           /\ \A i \in DOMAIN Deltas(h, n) : DeltaLike(Deltas(h, n)[i])
<1>1. DOMAIN Deltas(h, n) = {k \in 1 .. 3 : Measurable(h, Metrics[k], n)}
  BY DEF Deltas
<1>2. ASSUME NEW k \in DOMAIN Deltas(h, n) PROVE DeltaLike(Deltas(h, n)[k])
  <2> DEFINE m == Metrics[k]
             near == Near(h, m, n)
             before == Before(h, m, n)
             sum == WindowSum(h, m, before)
             during == During(h, m, n)
  <2>1. k \in 1 .. 3 /\ Measurable(h, m, n) /\ Deltas(h, n)[k] = Delta(h, m, n)
    BY <1>1 DEF Deltas
  <2>2. ASSUME NEW i \in 1 .. n, h[i][m] # Unread PROVE h[i][m] \in Int
    <3>1. i \in 1 .. MaxSamples
      BY TimesAssumption
    <3>2. h[i] \in Readings
      BY <3>1
    <3> QED BY <2>1, <2>2, <3>2, ReadingsAssumption
  <2> HIDE DEF m
  <2>3. /\ near \subseteq 1 .. n /\ before \subseteq 1 .. n
        /\ \A i \in near : h[i][m] \in Int
        /\ \A i \in before : h[i][m] \in Int
    BY <2>2 DEF Near, Before, Newest
  <2>4. IsFiniteSet(near) /\ IsFiniteSet(before)
    <3>1. 1 \in Int /\ n \in Int
      BY TimesAssumption
    <3>2. IsFiniteSet(1 .. n)
      BY <3>1, FS_Interval
    <3> HIDE DEF near, before
    <3> QED BY <2>3, <3>2, FS_Subset
  <2>5. near # {}
    BY <2>1 DEF Measurable
  <2>6. during \in Int
    <3>1. Nearest(near) \in near
      <4>1. \A i \in near : i \in Int
        BY <2>3
      <4> HIDE DEF near
      <4> QED BY <2>4, <2>5, <4>1, NearestIsNear
    <3> QED BY <2>3, <3>1 DEF During
  <2>7. sum \in Int
    <3> HIDE DEF before
    <3> QED BY <2>3, SumIsInt
  <2>8. Cardinality(before) \in Nat
    BY <2>4, FS_CardinalityType
  <2>9. Delta(h, m, n) = IF sum = 0 THEN <<1, 0>>
                         ELSE <<during * Cardinality(before) - sum, Abs(sum)>>
    BY DEF Delta
  <2> HIDE DEF sum, during, before, near
  <2>10. CASE sum = 0
    BY <2>1, <2>9, <2>10 DEF DeltaLike
  <2>11. CASE sum # 0
    <3>1. Abs(sum) \in Nat \ {0} /\ during * Cardinality(before) - sum \in Int
      BY <2>6, <2>7, <2>8, <2>11 DEF Abs
    <3>2. Deltas(h, n)[k] = <<during * Cardinality(before) - sum, Abs(sum)>>
      BY <2>1, <2>9, <2>11
    <3> HIDE DEF m
    <3> QED BY <3>1, <3>2 DEF DeltaLike
  <2> QED BY <2>10, <2>11
<1> QED BY <1>1, <1>2

(* tag_root_cause returns one of its tags.                                  *)
LEMMA CauseIsACause ==
    ASSUME NEW h \in [1 .. MaxSamples -> Readings], NEW n \in 0 .. MaxSamples
    PROVE  TagRootCause(Deltas(h, n)) \in Causes
<1> DEFINE delta == Deltas(h, n)
<1>1. DOMAIN delta \in SUBSET (1 .. 3) /\ \A i \in DOMAIN delta : DeltaLike(delta[i])
  BY DeltasAreDeltas
<1> HIDE DEF delta
<1>2. DOMAIN delta # {} => Best(delta) \in 1 .. 3
  BY <1>1, BestExists
<1> QED BY <1>2 DEF TagRootCause, Causes, delta

-----------------------------------------------------------------------------
(* The slowest node, ties going to the greater name, exists.                *)
LEMMA NaiveIsANode ==
    ASSUME NEW D, Numbered(D), IsFiniteSet(D), D # {}, NEW d \in [D -> Int]
    PROVE  NaiveCandidate(d) \in D
<1> DEFINE R == {p \in D \X D : d[p[1]] > d[p[2]] \/ (d[p[1]] = d[p[2]] /\ p[1] > p[2])}
<1>1. \A m, n \in D : <<m, n>> \in R <=> d[m] > d[n] \/ (d[m] = d[n] /\ m > n)
  OBVIOUS
<1>2. \A n \in D : n \in Int /\ d[n] \in Int
  BY DEF Numbered
<1>3. StrictOrder(R, D)
  <2> HIDE DEF R
  <2> QED BY <1>1, <1>2 DEF StrictOrder
<1>4. PICK n \in D : \A m \in D : <<m, n>> \notin R
  <2> HIDE DEF R
  <2> QED BY <1>3, FirstExists
<1>5. ASSUME NEW m \in D PROVE d[m] < d[n] \/ (d[m] = d[n] /\ m <= n)
  <2>1. <<m, n>> \notin R
    BY <1>4
  <2> HIDE DEF R
  <2> QED BY <1>1, <1>2, <2>1
<1>6. DOMAIN d = D
  OBVIOUS
<1>7. \E k \in DOMAIN d : \A m \in DOMAIN d : d[m] < d[k] \/ (d[m] = d[k] /\ m <= k)
  <2> HIDE DEF R
  <2> QED BY <1>5, <1>6
<1> HIDE DEF R
<1> QED BY <1>6, <1>7 DEF NaiveCandidate

-----------------------------------------------------------------------------
(* The state: what was reported, and what was answered from it.             *)
DataInv ==
    /\ durations \in UNION {[S -> Durations] : S \in SUBSET Nodes}
    /\ samples \in [1 .. MaxSamples -> Readings]
    /\ asked \in 0 .. MaxSamples

AnswerInv ==
    IF asked = 0 THEN report = NoReport /\ cause = "None"
    ELSE /\ report = RankStragglers(durations)
         /\ cause = IF report.top = NoNode THEN "None" ELSE TagRootCause(Deltas(samples, asked))

Inv == DataInv /\ AnswerInv

(* Every answer is what the code computes from the data it was asked about. *)
THEOREM Invariance == ReportSpec => []Inv
<1>1. ReportInit => Inv
  BY TimesAssumption DEF ReportInit, Init, Inv, DataInv, AnswerInv
<1>2. Inv /\ [GetStragglerReport]_rvars => Inv'
  <2> SUFFICES ASSUME Inv, [GetStragglerReport]_rvars PROVE Inv'
    OBVIOUS
  <2>1. CASE UNCHANGED rvars
    BY <2>1 DEF Inv, DataInv, AnswerInv, rvars, vars
  <2>2. CASE GetStragglerReport
    <3>1. PICK n \in asked + 1 .. MaxSamples :
             /\ asked' = n
             /\ report' = RankStragglers(durations)
             /\ cause' = IF report'.top = NoNode THEN "None" ELSE TagRootCause(Deltas(samples, n))
             /\ durations' = durations /\ samples' = samples
      BY <2>2 DEF GetStragglerReport
    <3>2. n \in 0 .. MaxSamples /\ n # 0
      BY TimesAssumption DEF Inv, DataInv
    <3>3. DataInv'
      BY <3>1, <3>2 DEF Inv, DataInv
    <3>4. AnswerInv'
      BY <3>1, <3>2 DEF AnswerInv
    <3> QED BY <3>3, <3>4 DEF Inv
  <2> QED BY <2>1, <2>2
<1> QED BY <1>1, <1>2, PTL DEF ReportSpec

(* The reporting nodes, where there is a ranking.                           *)
LEMMA RankedMeans ==
    ASSUME Inv
    PROVE  /\ Numbered(Reporting) /\ IsFiniteSet(Reporting)
           /\ durations \in [Reporting -> Int] /\ durations \in [Reporting -> Durations]
           /\ Durations \subseteq Int
           /\ RankedNow => /\ Reporting # {}
                           /\ MinReportingNodes <= Cardinality(Reporting)
                           /\ report = [status |-> "ranked", ranked |-> Ordered(durations),
                                        top |-> TopCandidate(durations),
                                        naive |-> NaiveCandidate(durations)]
<1>1. PICK S \in SUBSET Nodes : durations \in [S -> Durations]
  BY DEF Inv, DataInv
<1>2. Reporting = S /\ Durations \subseteq Int
  BY <1>1, DurationsAssumption DEF Reporting
<1>3. Numbered(S) /\ IsFiniteSet(S)
  BY NodesAssumption, FS_Subset DEF Numbered
<1>4. durations \in [S -> Int]
  BY <1>1, <1>2
<1>5. ASSUME RankedNow
      PROVE  /\ ~(Cardinality(Reporting) < MinReportingNodes)
             /\ report = [status |-> "ranked", ranked |-> Ordered(durations),
                          top |-> TopCandidate(durations), naive |-> NaiveCandidate(durations)]
  <2>1. report.status = "ranked"
    BY <1>5 DEF RankedNow
  <2>2. report = NoReport \/ report = RankStragglers(durations)
    BY DEF Inv, AnswerInv
  <2>3. report # NoReport
    BY <2>1 DEF NoReport
  <2>4. Reporting = DOMAIN durations
    BY DEF Reporting
  <2>5. CASE Cardinality(DOMAIN durations) < MinReportingNodes
    <3>1. report = [NoReport EXCEPT !.status = "insufficient_evidence"]
      BY <2>2, <2>3, <2>5 DEF RankStragglers
    <3> QED BY <2>1, <3>1 DEF NoReport
  <2>6. CASE ~(Cardinality(DOMAIN durations) < MinReportingNodes)
    BY <2>2, <2>3, <2>4, <2>6 DEF RankStragglers
  <2> QED BY <2>5, <2>6
<1>6. ASSUME RankedNow PROVE Reporting # {} /\ MinReportingNodes <= Cardinality(Reporting)
  <2>1. Cardinality(Reporting) \in Nat /\ MinReportingNodes \in Nat \ {0}
    BY <1>2, <1>3, FS_CardinalityType, MinReportingNodesAssumption
  <2>2. MinReportingNodes <= Cardinality(Reporting)
    BY <1>5, <1>6, <2>1
  <2> QED BY <2>1, <2>2, FS_EmptySet
<1> QED BY <1>1, <1>2, <1>3, <1>4, <1>5, <1>6

(* The report is well formed: the ranking lists every reporting node once,  *)
(* both candidates are among them, and the cause is one there is.           *)
THEOREM ReportTypeCorrect == ReportSpec => []ReportTypeOK
<1>1. Inv => ReportTypeOK
  <2> SUFFICES ASSUME Inv PROVE ReportTypeOK
    OBVIOUS
  <2> DEFINE D == Reporting
             N == Cardinality(Reporting)
  <2>1. durations \in UNION {[S -> Durations] : S \in SUBSET Nodes}
    BY DEF Inv, DataInv
  <2>2. report.status \in {"none", "ranked", "insufficient_evidence"}
    <3>1. report = NoReport \/ report = RankStragglers(durations)
      BY DEF Inv, AnswerInv
    <3> QED BY <3>1 DEF RankStragglers, NoReport
  <2>3. ASSUME RankedNow
        PROVE  /\ Len(report.ranked) = N
               /\ {report.ranked[i] : i \in DOMAIN report.ranked} = D
               /\ report.top \in D \cup {NoNode}
               /\ report.naive \in D
    <3>1. /\ Numbered(D) /\ IsFiniteSet(D) /\ D # {} /\ durations \in [D -> Int]
          /\ report.ranked = Ordered(durations) /\ report.top = TopCandidate(durations)
          /\ report.naive = NaiveCandidate(durations)
      BY <2>3, RankedMeans
    <3> HIDE DEF D
    <3>2. /\ Ordered(durations) \in [1 .. Cardinality(D) -> D]
          /\ \A n \in D : \E i \in 1 .. Cardinality(D) : Ordered(durations)[i] = n
      BY <3>1, RankingIs
    <3>3. Cardinality(D) \in Nat
      BY <3>1, FS_CardinalityType
    <3>4. Len(report.ranked) = Cardinality(D)
      <4>1. Ordered(durations) \in Seq(D)
        BY <3>2, <3>3
      <4> QED BY <3>1, <3>2, <3>3, <4>1
    <3>5. {report.ranked[i] : i \in DOMAIN report.ranked} = D
      BY <3>1, <3>2
    <3>6. report.top \in D \cup {NoNode}
      BY <3>1, TopIs, ScoresAre
    <3>7. report.naive \in D
      BY <3>1, NaiveIsANode
    <3> QED BY <3>4, <3>5, <3>6, <3>7 DEF D
  <2>4. cause \in Causes
    <3>1. asked \in 0 .. MaxSamples /\ samples \in [1 .. MaxSamples -> Readings]
      BY DEF Inv, DataInv
    <3>2. TagRootCause(Deltas(samples, asked)) \in Causes
      BY <3>1, CauseIsACause
    <3>3. cause = "None" \/ cause = TagRootCause(Deltas(samples, asked))
      BY DEF Inv, AnswerInv
    <3> QED BY <3>2, <3>3 DEF Causes
  <2> QED BY <2>1, <2>2, <2>3, <2>4 DEF ReportTypeOK, TypeOK
<1> QED BY <1>1, Invariance, PTL

(* Robustness: however the durations are chosen, fewer than half of the     *)
(* reporting nodes are flagged, ties and the floor included.                *)
THEOREM FlaggedStayMinority == ReportSpec => []FlaggedAreMinority
<1>1. Inv => FlaggedAreMinority
  <2> SUFFICES ASSUME Inv, RankedNow
               PROVE  2 * Cardinality(FlaggedNodes(durations)) < Cardinality(Reporting)
    BY DEF FlaggedAreMinority
  <2> QED BY RankedMeans, FlaggedAreFew
<1> QED BY <1>1, Invariance, PTL

(* While the floor does not bind, multiplying all durations leaves ranking  *)
(* and top candidate as they are.                                           *)
THEOREM ScaleStaysIrrelevant == ReportSpec => []ScaleInvariant
<1>1. Inv => ScaleInvariant
  <2> SUFFICES ASSUME Inv, RankedNow, FourTimesMad(durations) > 4 * MadFloor, NEW c \in {2, 3}
               PROVE  /\ RankStragglers(Scaled(c)).ranked = report.ranked
                      /\ RankStragglers(Scaled(c)).top = report.top
    BY DEF ScaleInvariant
  <2> DEFINE D == Reporting
             d == durations
             e == TimesAll(c, durations)
  <2>1. /\ Numbered(D) /\ IsFiniteSet(D) /\ D # {} /\ d \in [D -> Int]
        /\ MinReportingNodes <= Cardinality(D)
        /\ report.ranked = Ordered(d) /\ report.top = TopCandidate(d)
    BY RankedMeans
  <2>2. Scaled(c) = e
    BY DEF Scaled, TimesAll, Reporting
  <2>3. c \in Nat \ {0}
    OBVIOUS
  <2>4. e \in [D -> Int] /\ FlaggedNodes(e) = FlaggedNodes(d) /\ SameAhead(D, d, e)
    <3> HIDE DEF D, d
    <3>1. FourTimesMad(d) > 4 * MadFloor
      BY DEF d
    <3>2. TimesAll(c, d) \in [D -> Int]
      BY <2>1, <2>3, DeviationsScale
    <3>3. /\ FlaggedNodes(TimesAll(c, d)) = FlaggedNodes(d)
          /\ \A n \in D : Ahead(ZScores(TimesAll(c, d)), n) = Ahead(ZScores(d), n)
      BY <2>1, <2>3, <3>1, ScaledScores
    <3> QED BY <3>2, <3>3 DEF SameAhead, d
  <2> HIDE DEF D, d, e
  <2>5. Ordered(e) = Ordered(d)
    BY <2>1, <2>4, RankingDependsOnAhead
  <2>6. TopCandidate(e) = TopCandidate(d)
    BY <2>4, <2>5 DEF TopCandidate
  <2>7. DOMAIN e = D /\ Cardinality(D) \in Nat /\ MinReportingNodes \in Nat
    BY <2>1, <2>4, FS_CardinalityType, MinReportingNodesAssumption
  <2>8. RankStragglers(e).ranked = Ordered(e) /\ RankStragglers(e).top = TopCandidate(e)
    BY <2>1, <2>7 DEF RankStragglers
  <2> QED BY <2>1, <2>2, <2>5, <2>6, <2>8
<1> QED BY <1>1, Invariance, PTL

(* Evidence is monotone: had the top candidate taken longer, it would be    *)
(* the top candidate all the more.                                          *)
THEOREM SlowerKeepsTop == ReportSpec => []SlowerStaysTop
<1>1. Inv => SlowerStaysTop
  <2> SUFFICES ASSUME Inv, RankedNow, report.top # NoNode,
                      NEW x \in Durations, x > durations[report.top]
               PROVE  RankStragglers([durations EXCEPT ![report.top] = x]).top = report.top
    BY DEF SlowerStaysTop
  <2> DEFINE D == Reporting
             d == durations
             e == [d EXCEPT ![TopCandidate(d)] = x]
  <2>1. /\ Numbered(D) /\ IsFiniteSet(D) /\ D # {} /\ d \in [D -> Int]
        /\ MinReportingNodes <= Cardinality(D)
        /\ report.top = TopCandidate(d) /\ x \in Int
    BY RankedMeans
  <2>2. TopCandidate(d) \in D
    <3>1. TopCandidate(d) # NoNode
      BY <2>1
    <3> HIDE DEF D, d
    <3> QED BY <2>1, <3>1, TopIs, ScoresAre
  <2>3. TopCandidate(d) # NoNode /\ d[TopCandidate(d)] < x
    <3>1. d[TopCandidate(d)] \in Int
      BY <2>1, <2>2
    <3> QED BY <2>1, <3>1
  <2>4. TopCandidate(e) = TopCandidate(d)
    <3> HIDE DEF D, d
    <3> QED BY <2>1, <2>3, TopStays
  <2>5. DOMAIN e = D /\ Cardinality(D) \in Nat /\ MinReportingNodes \in Nat
    BY <2>1, FS_CardinalityType, MinReportingNodesAssumption
  <2>6. e = [durations EXCEPT ![report.top] = x]
    BY <2>1
  <2> HIDE DEF D, d, e
  <2>7. RankStragglers(e).top = TopCandidate(e)
    BY <2>1, <2>5 DEF RankStragglers
  <2> QED BY <2>1, <2>4, <2>6, <2>7
<1> QED BY <1>1, Invariance, PTL

(* Asked twice while the evidence is settled, the report names the same     *)
(* cause, whatever samples arrived in between.                              *)
THEOREM CauseStaysStable == ReportSpec => CauseIsStable
<1>1. Inv /\ Inv' /\ [GetStragglerReport]_rvars =>
          [Settled(asked) /\ Settled(asked') => cause' = cause]_rvars
  <2> SUFFICES ASSUME Inv, Inv', GetStragglerReport, Settled(asked), Settled(asked')
               PROVE  cause' = cause
    OBVIOUS
  <2> DEFINE n == asked
             p == asked'
  <2>1. durations' = durations /\ samples' = samples
    BY DEF GetStragglerReport
  <2>2. n \in Nat /\ p \in Nat
    BY TimesAssumption DEF Inv, DataInv
  <2>3. n # 0 /\ p # 0
    <3>1. /\ PhaseStart \in Nat \ {0} /\ PhaseEnd \in Nat /\ PhaseStart <= PhaseEnd
          /\ Radius \in Nat /\ SampleInterval \in Nat
      BY TimesAssumption, LimitsAssumption
    <3>2. Mid \in Nat /\ Mid > 0
      BY <3>1 DEF Mid
    <3>3. Ts(0) = 0
      BY <3>1 DEF Ts
    <3> QED BY <3>1, <3>2, <3>3 DEF Settled
  <2>4. Deltas(samples, n) = Deltas(samples, p)
    <3>1. Settled(n) /\ Settled(p)
      OBVIOUS
    <3> HIDE DEF n, p
    <3> QED BY <2>2, <3>1, SettledDeltas
  <2>5. /\ report = RankStragglers(durations)
        /\ cause = IF report.top = NoNode THEN "None" ELSE TagRootCause(Deltas(samples, n))
    BY <2>3 DEF Inv, AnswerInv
  <2>6. /\ report' = RankStragglers(durations)
        /\ cause' = IF report'.top = NoNode THEN "None" ELSE TagRootCause(Deltas(samples, p))
    BY <2>1, <2>3 DEF Inv, AnswerInv
  <2> QED BY <2>4, <2>5, <2>6
<1> QED BY <1>1, Invariance, PTL DEF ReportSpec, CauseIsStable
=============================================================================
