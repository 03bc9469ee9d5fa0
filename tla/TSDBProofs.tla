------------------------------ MODULE TSDBProofs ------------------------------
(***************************************************************************)
(* Proofs about TSDB for any rows, bucket widths, batches, writes and      *)
(* faults: type correctness, that raw rows on disk are permanent and       *)
(* acknowledged ones on disk, that no rollup shows what the raw rows of    *)
(* its bucket do not have, and that the two rollup tables agree.           *)
(*                                                                         *)
(* None of these is inductive.  What the first add up to is: the           *)
(* connection's view extends the disk, whichever statements are left to    *)
(* execute; and a running insert_samples has each of its rows in the view  *)
(* or among these statements, with the commit as the last.  AgreeInv, at   *)
(* the end, adds what a running recompute_rollups has done so far.         *)
(***************************************************************************)
EXTENDS TSDB, FiniteSetTheorems, WellFoundedInduction, TLAPS

(* A database is a record of tables, its tables are functions, and its      *)
(* samples are finitely many.                                               *)
IsStore(db) ==
    /\ db = [samples |-> db.samples, rollup |-> db.rollup]
    /\ db.samples = [k \in DOMAIN db.samples |-> db.samples[k]]
    /\ \A k \in DOMAIN db.samples : db.samples[k] \in Int
    /\ IsFiniteSet(DOMAIN db.samples)
    /\ db.rollup = [t \in Tables |-> db.rollup[t]]

Good(db) == IsStore(db) /\ IsDatabase(db) /\ WithinRaw(db)

(* Every sample of old is in new, with its value.                           *)
Keeps(old, new) ==
    \A k \in DOMAIN old.samples :
        k \in DOMAIN new.samples /\ new.samples[k] = old.samples[k]

Inserts == [op : {"insert"}, row : Rows]
Statements ==
    Inserts \cup {Commit, [op |-> "job"]}
            \cup [op : {"delete", "fill"}, table : Tables, pair : Pairs]

(* insert_samples returns only after its rows are stored and committed.     *)
InsertInv ==
    caller = "insert" =>
        /\ todo = <<>> => \A i \in DOMAIN batch : Key(batch[i]) \in DOMAIN disk.samples
        /\ todo # <<>> =>
             /\ todo[Len(todo)] = Commit
             /\ \A k \in 1 .. Len(todo) - 1 : todo[k] \in Inserts
             /\ \A i \in DOMAIN batch :
                  \/ Key(batch[i]) \in DOMAIN view.samples
                  \/ \E k \in 1 .. Len(todo) - 1 : todo[k].row = batch[i]

Inv ==
    /\ TypeOK
    /\ Good(disk) /\ Good(view) /\ Keeps(disk, view)
    /\ todo \in Seq(Statements) /\ batch \in Seq(Rows)
    /\ InsertInv
    /\ AcknowledgedIsDurable

-----------------------------------------------------------------------------
(* Smallest and largest elements of finite sets of integers.                *)
LEMMA MinExists ==
    ASSUME NEW S \in SUBSET Int, IsFiniteSet(S), S # {}
    PROVE  \E x \in S : \A y \in S : x <= y
<1> DEFINE below(x) == {y \in S : y < x}
           T == {below(x) : x \in S}
           R == StrictSubsetOrdering(S)
<1>1. T # {} /\ T \subseteq SUBSET S
  OBVIOUS
<1>2. IsWellFoundedOn(R, SUBSET S)
  BY FS_StrictSubsetOrderingWellFounded, FS_FiniteSubsetsOfFinite
<1>3. \E b \in T : \A c \in T : ~(<<c, b>> \in R)
  <2> HIDE DEF T, R
  <2> QED BY <1>1, <1>2, WFMin
<1>4. PICK x \in S : \A y \in S : ~(<<below(y), below(x)>> \in R)
  BY <1>3
<1>5. ASSUME NEW y \in S, y < x PROVE FALSE
  <2>1. x \in Int /\ y \in Int /\ \A z \in S : z \in Int
    OBVIOUS
  <2>2. ~(y < y) /\ \A z \in S : z < y => z < x
    BY <1>5, <2>1
  <2>3. below(y) \subseteq below(x) /\ y \in below(x) /\ y \notin below(y)
    BY <1>5, <2>2
  <2>4. <<below(y), below(x)>> \in R
    BY <2>3 DEF StrictSubsetOrdering
  <2> QED BY <1>4, <2>4
<1> QED BY <1>5

(* The largest likewise.                                                    *)
LEMMA MaxExists ==
    ASSUME NEW S \in SUBSET Int, IsFiniteSet(S), S # {}
    PROVE  \E x \in S : \A y \in S : x >= y
<1> DEFINE above(x) == {y \in S : y > x}
           T == {above(x) : x \in S}
           R == StrictSubsetOrdering(S)
<1>1. T # {} /\ T \subseteq SUBSET S
  OBVIOUS
<1>2. IsWellFoundedOn(R, SUBSET S)
  BY FS_StrictSubsetOrderingWellFounded, FS_FiniteSubsetsOfFinite
<1>3. \E b \in T : \A c \in T : ~(<<c, b>> \in R)
  <2> HIDE DEF T, R
  <2> QED BY <1>1, <1>2, WFMin
<1>4. PICK x \in S : \A y \in S : ~(<<above(y), above(x)>> \in R)
  BY <1>3
<1>5. ASSUME NEW y \in S, y > x PROVE FALSE
  <2>1. x \in Int /\ y \in Int /\ \A z \in S : z \in Int
    OBVIOUS
  <2>2. ~(y > y) /\ \A z \in S : z > y => z > x
    BY <1>5, <2>1
  <2>3. above(y) \subseteq above(x) /\ y \in above(x) /\ y \notin above(y)
    BY <1>5, <2>2
  <2>4. <<above(y), above(x)>> \in R
    BY <2>3 DEF StrictSubsetOrdering
  <2> QED BY <1>4, <2>4
<1> QED BY <1>5

(* So MIN and MAX of a group are values of its rows.                        *)
LEMMA MinMaxInSet ==
    ASSUME NEW S \in SUBSET Int, IsFiniteSet(S), S # {}
    PROVE  Min(S) \in S /\ Max(S) \in S
BY MinExists, MaxExists DEF Min, Max

(* A bucket holds the timestamps from its start up to its width.            *)
LEMMA BucketHolds ==
    ASSUME NEW ts \in Nat, NEW w \in Nat \ {0}
    PROVE  /\ BucketOf(ts, w) \in Nat /\ BucketOf(ts, w) % w = 0
           /\ ts \in BucketOf(ts, w) .. BucketOf(ts, w) + w - 1
<1> DEFINE q == ts \div w
<1>1. q \in Nat /\ ts = (q * w) + (ts % w) /\ ts % w \in 0 .. w - 1
  BY Z3
<1>2. q * w \in Nat /\ (q * w) % w = 0
  BY <1>1, Z3
<1> QED BY <1>1, <1>2 DEF BucketOf

-----------------------------------------------------------------------------
(* WithinRaw, bucket by bucket.                                             *)
RawRows(db, t, k) ==
    {x \in DOMAIN db.samples : x[1] = k[1] /\ x[2] \in k[2] .. k[2] + Width[t] - 1}

BucketWithin(db, t, k) ==
    /\ db.rollup[t][k].count <= Cardinality(RawRows(db, t, k))
    /\ \E x \in RawRows(db, t, k) : db.samples[x] = db.rollup[t][k].min
    /\ \E x \in RawRows(db, t, k) : db.samples[x] = db.rollup[t][k].max

(* It holds if it holds of every bucket of every table.                     *)
LEMMA WithinByBucket ==
    ASSUME NEW db
    PROVE  WithinRaw(db) <=> \A t \in Tables : \A k \in DOMAIN db.rollup[t] : BucketWithin(db, t, k)
BY Zenon DEF WithinRaw, BucketWithin, RawRows

(* A bucket stays within the raw rows when these only grow.                 *)
LEMMA BucketStaysWithin ==
    ASSUME NEW db, NEW new, IsFiniteSet(DOMAIN new.samples), Keeps(db, new),
           \A k \in DOMAIN db.samples : db.samples[k] \in Int,
           NEW t \in Tables, NEW k, new.rollup[t][k] = db.rollup[t][k],
           db.rollup[t][k].count \in Int, BucketWithin(db, t, k)
    PROVE  BucketWithin(new, t, k)
<1>1. RawRows(db, t, k) \subseteq RawRows(new, t, k)
  BY DEF RawRows, Keeps
<1>2. IsFiniteSet(RawRows(new, t, k))
  BY FS_Subset DEF RawRows
<1>3. /\ Cardinality(RawRows(db, t, k)) <= Cardinality(RawRows(new, t, k))
      /\ Cardinality(RawRows(db, t, k)) \in Nat /\ Cardinality(RawRows(new, t, k)) \in Nat
  BY <1>1, <1>2, FS_Subset, FS_CardinalityType
<1>4. \A x \in RawRows(db, t, k) : new.samples[x] = db.samples[x]
  BY DEF RawRows, Keeps
<1> HIDE DEF RawRows
<1> QED BY <1>1, <1>3, <1>4 DEF BucketWithin

(* A statement that only adds samples, one that only takes buckets away.    *)
LEMMA AddSampleGood ==
    ASSUME NEW db, Good(db), NEW row \in Rows, Key(row) \notin DOMAIN db.samples
    PROVE  LET new == [db EXCEPT !.samples = With(@, Key(row), row.value)]
           IN  /\ Good(new) /\ Keeps(db, new)
               /\ Key(row) \in DOMAIN new.samples
<1> DEFINE new == [db EXCEPT !.samples = With(@, Key(row), row.value)]
           f == With(db.samples, Key(row), row.value)
<1>1. /\ db = [samples |-> db.samples, rollup |-> db.rollup]
      /\ IsFiniteSet(DOMAIN db.samples)
      /\ \A k \in DOMAIN db.samples : db.samples[k] \in Int
      /\ db.rollup = [t \in Tables |-> db.rollup[t]]
  BY DEF Good, IsStore
<1>2. new.samples = f /\ new.rollup = db.rollup /\ new = [samples |-> f, rollup |-> db.rollup]
  <2> HIDE DEF f
  <2>1. new = [db EXCEPT !.samples = f]
    BY Zenon DEF f
  <2> HIDE DEF new
  <2> QED BY <1>1, <2>1
<1>3. /\ DOMAIN f = DOMAIN db.samples \cup {Key(row)}
      /\ f = [k \in DOMAIN f |-> f[k]]
      /\ \A k \in DOMAIN db.samples : f[k] = db.samples[k]
      /\ f[Key(row)] = row.value
  BY DEF With
<1> HIDE DEF new, f
<1>4. Keeps(db, new) /\ Key(row) \in DOMAIN new.samples
  BY <1>2, <1>3 DEF Keeps
<1>5. IsStore(new)
  <2>1. IsFiniteSet(DOMAIN new.samples)
    BY <1>1, <1>2, <1>3, FS_AddElement
  <2>2. \A k \in DOMAIN new.samples : new.samples[k] \in Int
    BY <1>1, <1>2, <1>3, RowsAssumption
  <2>3. new = [samples |-> new.samples, rollup |-> new.rollup]
    BY <1>2
  <2>4. new.samples = [k \in DOMAIN new.samples |-> new.samples[k]]
    BY <1>2, <1>3, Zenon
  <2>5. new.rollup = [t \in Tables |-> new.rollup[t]]
    BY <1>1, <1>2, Zenon
  <2> QED BY <2>1, <2>2, <2>3, <2>4, <2>5, Zenon DEF IsStore
<1>6. IsDatabase(new)
  BY <1>2, <1>3 DEF Good, IsDatabase, KeyOf
<1>7. WithinRaw(new)
  <2> SUFFICES ASSUME NEW t \in Tables, NEW k \in DOMAIN new.rollup[t]
               PROVE  BucketWithin(new, t, k)
    BY WithinByBucket
  <2>1. BucketWithin(db, t, k)
    BY <1>2, WithinByBucket DEF Good
  <2>2. db.rollup[t][k].count \in Int
    BY <1>2 DEF Good, IsDatabase
  <2> QED BY <1>1, <1>2, <1>4, <1>5, <2>1, <2>2, BucketStaysWithin DEF IsStore
<1> QED BY <1>4, <1>5, <1>6, <1>7 DEF Good, new

(* INSERT OR IGNORE keeps every row there was.                              *)
LEMMA InsertGood ==
    ASSUME NEW db, Good(db), NEW row \in Rows
    PROVE  /\ Good(InsertRow(db, row)) /\ Keeps(db, InsertRow(db, row))
           /\ Key(row) \in DOMAIN InsertRow(db, row).samples
<1>1. CASE Key(row) \in DOMAIN db.samples
  BY <1>1 DEF InsertRow, Keeps
<1>2. CASE Key(row) \notin DOMAIN db.samples
  BY <1>2, AddSampleGood, Zenon DEF InsertRow
<1> QED BY <1>1, <1>2

(* A rollup table may be given new contents that are within the raw rows.   *)
LEMMA ReplaceTableGood ==
    ASSUME NEW db, Good(db), NEW t \in Tables, NEW g,
           \A k \in DOMAIN g :
              /\ k[1] \in Pairs /\ k[2] % Width[t] = 0 /\ g[k].count \in Nat \ {0}
              /\ g[k].count <= Cardinality(RawRows(db, t, k))
              /\ \E x \in RawRows(db, t, k) : db.samples[x] = g[k].min
              /\ \E x \in RawRows(db, t, k) : db.samples[x] = g[k].max
    PROVE  Good([db EXCEPT !.rollup[t] = g]) /\ Keeps(db, [db EXCEPT !.rollup[t] = g])
<1> DEFINE new == [db EXCEPT !.rollup[t] = g]
           r == [db.rollup EXCEPT ![t] = g]
<1>1. /\ db = [samples |-> db.samples, rollup |-> db.rollup]
      /\ db.rollup = [u \in Tables |-> db.rollup[u]]
  BY DEF Good, IsStore
<1>2. /\ new = [samples |-> db.samples, rollup |-> r]
      /\ new.samples = db.samples /\ new.rollup = r
  <2> HIDE DEF r
  <2>1. new = [db EXCEPT !.rollup = r]
    BY Zenon DEF r
  <2> HIDE DEF new
  <2> QED BY <1>1, <2>1
<1>3. /\ r = [u \in Tables |-> r[u]] /\ r[t] = g
      /\ \A u \in Tables : u # t => r[u] = db.rollup[u]
  BY <1>1
<1> HIDE DEF new, r
<1>4. Keeps(db, new)
  BY <1>2 DEF Keeps
<1>5. IsStore(new)
  <2>1. new.rollup = [u \in Tables |-> new.rollup[u]]
    BY <1>2, <1>3, Zenon
  <2>2. new = [samples |-> new.samples, rollup |-> new.rollup]
    BY <1>2
  <2> QED BY <1>2, <2>1, <2>2, Zenon DEF Good, IsStore
<1>6. \A u \in Tables : \A k : RawRows(new, u, k) = RawRows(db, u, k)
  BY <1>2 DEF RawRows
<1>7. ASSUME NEW u \in Tables, NEW k \in DOMAIN new.rollup[u]
      PROVE  /\ k[1] \in Pairs /\ k[2] % Width[u] = 0
             /\ new.rollup[u][k].count \in Nat \ {0} /\ BucketWithin(new, u, k)
  <2>1. CASE u = t
    BY <1>2, <1>3, <1>6, <2>1 DEF BucketWithin
  <2>2. CASE u # t
    <3>1. new.rollup[u] = db.rollup[u]
      BY <1>2, <1>3, <2>2
    <3>2. BucketWithin(db, u, k)
      BY <3>1, WithinByBucket DEF Good
    <3> QED BY <1>2, <1>6, <3>1, <3>2 DEF Good, IsDatabase, BucketWithin
  <2> QED BY <2>1, <2>2
<1>8. IsDatabase(new) /\ WithinRaw(new)
  BY <1>2, <1>7, WithinByBucket DEF Good, IsDatabase
<1> QED BY <1>4, <1>5, <1>8 DEF Good, new

(* DELETE of the buckets of a pair.                                         *)
LEMMA DeleteGood ==
    ASSUME NEW db, Good(db), NEW t \in Tables, NEW p \in Pairs
    PROVE  Good(DeleteRollup(db, t, p)) /\ Keeps(db, DeleteRollup(db, t, p))
<1> DEFINE g == [k \in {k \in DOMAIN db.rollup[t] : k[1] # p} |-> db.rollup[t][k]]
<1>1. \A k \in DOMAIN g : k \in DOMAIN db.rollup[t] /\ g[k] = db.rollup[t][k]
  OBVIOUS
<1>2. DeleteRollup(db, t, p) = [db EXCEPT !.rollup[t] = g]
  BY Zenon DEF DeleteRollup
<1> HIDE DEF g
<1>3. \A k \in DOMAIN db.rollup[t] :
        /\ k[1] \in Pairs /\ k[2] % Width[t] = 0 /\ db.rollup[t][k].count \in Nat \ {0}
        /\ BucketWithin(db, t, k)
  BY WithinByBucket DEF Good, IsDatabase
<1>4. \A k \in DOMAIN g :
        /\ k[1] \in Pairs /\ k[2] % Width[t] = 0 /\ g[k].count \in Nat \ {0}
        /\ g[k].count <= Cardinality(RawRows(db, t, k))
        /\ \E x \in RawRows(db, t, k) : db.samples[x] = g[k].min
        /\ \E x \in RawRows(db, t, k) : db.samples[x] = g[k].max
  BY <1>1, <1>3 DEF BucketWithin
<1> QED BY <1>2, <1>4, ReplaceTableGood

(* The aggregates of a bucket that has rows are those of its rows.          *)
LEMMA AggregateWithin ==
    ASSUME NEW samples, NEW keys, IsFiniteSet(keys), keys # {},
           \A k \in keys : samples[k] \in Int
    PROVE  /\ Aggregate(samples, keys).count = Cardinality(keys)
           /\ Cardinality(keys) \in Nat \ {0}
           /\ \E x \in keys : samples[x] = Aggregate(samples, keys).min
           /\ \E x \in keys : samples[x] = Aggregate(samples, keys).max
<1> DEFINE S == {samples[k] : k \in keys}
<1>1. Cardinality(keys) \in Nat \ {0}
  BY FS_EmptySet, FS_CardinalityType
<1>2. S \in SUBSET Int /\ S # {}
  OBVIOUS
<1>3. IsFiniteSet(S)
  <2> DEFINE f == [k \in keys |-> samples[k]]
  <2>1. f \in Surjection(keys, S)
    BY DEF Surjection
  <2> HIDE DEF S, f
  <2> QED BY <2>1, FS_Surjection
<1>4. Min(S) \in S /\ Max(S) \in S
  <2> HIDE DEF S
  <2> QED BY <1>2, <1>3, MinMaxInSet
<1>5. /\ Aggregate(samples, keys).count = Cardinality(keys)
      /\ Aggregate(samples, keys).min = Min(S) /\ Aggregate(samples, keys).max = Max(S)
  BY Zenon DEF Aggregate
<1> QED BY <1>1, <1>4, <1>5

(* RollupOf groups exactly a bucket's rows.                                 *)
LEMMA RollupWithin ==
    ASSUME NEW db, Good(db), NEW t \in Tables, NEW p \in Pairs,
           NEW b \in DOMAIN RollupOf(db.samples, t, p)
    PROVE  LET a == RollupOf(db.samples, t, p)[b]
           IN  /\ b[1] \in Pairs /\ b[2] % Width[t] = 0 /\ a.count \in Nat \ {0}
               /\ a.count <= Cardinality(RawRows(db, t, b))
               /\ \E x \in RawRows(db, t, b) : db.samples[x] = a.min
               /\ \E x \in RawRows(db, t, b) : db.samples[x] = a.max
<1> DEFINE raw == {k \in DOMAIN db.samples : k[1] = p}
           keys == {k \in raw : BucketOf(k[2], Width[t]) = b[2]}
<1>1. /\ b \in {<<p, BucketOf(k[2], Width[t])>> : k \in raw}
      /\ RollupOf(db.samples, t, p)[b] = Aggregate(db.samples, keys)
  BY DEF RollupOf
<1>2. PICK k0 \in raw : b = <<p, BucketOf(k0[2], Width[t])>>
  BY <1>1
<1>3. \A k \in DOMAIN db.samples : k[2] \in Nat /\ db.samples[k] \in Int
  BY RowsAssumption DEF Good, IsDatabase, IsStore, KeyOf, Key
<1>4. b[1] = p /\ k0 \in keys
  BY <1>2
<1>5. b[2] % Width[t] = 0
  BY <1>2, <1>3, BucketHolds, WidthAssumption
<1>6. keys \subseteq RawRows(db, t, b)
  BY <1>3, <1>4, BucketHolds, WidthAssumption DEF RawRows
<1>7. IsFiniteSet(RawRows(db, t, b))
  BY FS_Subset DEF Good, IsStore, RawRows
<1>8. \A k \in keys : db.samples[k] \in Int
  BY <1>3
<1> HIDE DEF keys
<1>9. /\ IsFiniteSet(keys) /\ Cardinality(keys) <= Cardinality(RawRows(db, t, b))
  BY <1>6, <1>7, FS_Subset
<1> QED BY <1>1, <1>4, <1>5, <1>6, <1>8, <1>9, AggregateWithin

(* INSERT of the groups of a pair.                                          *)
LEMMA FillGood ==
    ASSUME NEW db, Good(db), NEW t \in Tables, NEW p \in Pairs
    PROVE  Good(FillRollup(db, t, p)) /\ Keeps(db, FillRollup(db, t, p))
<1> DEFINE new == RollupOf(db.samples, t, p)
           old == db.rollup[t]
           g == [k \in DOMAIN old \cup DOMAIN new |-> IF k \in DOMAIN new THEN new[k] ELSE old[k]]
<1>1. FillRollup(db, t, p) = [db EXCEPT !.rollup[t] = g]
  BY Zenon DEF FillRollup
<1>2. \A k \in DOMAIN g : \/ k \in DOMAIN new /\ g[k] = new[k]
                          \/ k \in DOMAIN old /\ g[k] = old[k]
  OBVIOUS
<1>3. \A k \in DOMAIN old :
        /\ k[1] \in Pairs /\ k[2] % Width[t] = 0 /\ old[k].count \in Nat \ {0}
        /\ old[k].count <= Cardinality(RawRows(db, t, k))
        /\ \E x \in RawRows(db, t, k) : db.samples[x] = old[k].min
        /\ \E x \in RawRows(db, t, k) : db.samples[x] = old[k].max
  BY WithinByBucket DEF Good, IsDatabase, BucketWithin
<1>4. \A k \in DOMAIN new :
        /\ k[1] \in Pairs /\ k[2] % Width[t] = 0 /\ new[k].count \in Nat \ {0}
        /\ new[k].count <= Cardinality(RawRows(db, t, k))
        /\ \E x \in RawRows(db, t, k) : db.samples[x] = new[k].min
        /\ \E x \in RawRows(db, t, k) : db.samples[x] = new[k].max
  BY RollupWithin
<1> HIDE DEF g, new, old
<1>5. \A k \in DOMAIN g :
        /\ k[1] \in Pairs /\ k[2] % Width[t] = 0 /\ g[k].count \in Nat \ {0}
        /\ g[k].count <= Cardinality(RawRows(db, t, k))
        /\ \E x \in RawRows(db, t, k) : db.samples[x] = g[k].min
        /\ \E x \in RawRows(db, t, k) : db.samples[x] = g[k].max
  BY <1>2, <1>3, <1>4
<1> QED BY <1>1, <1>5, ReplaceTableGood

(* A statement leaves a good database good and its samples as they were; an *)
(* insert has its row in it afterwards.                                     *)
LEMMA EffectGood ==
    ASSUME NEW db, Good(db), NEW s \in Statements
    PROVE  /\ Good(Effect(db, s)) /\ Keeps(db, Effect(db, s))
           /\ s \in Inserts => Key(s.row) \in DOMAIN Effect(db, s).samples
           /\ s = Commit => Effect(db, s) = db
<1>1. CASE s \in Inserts
  <2>1. s.op = "insert" /\ s.row \in Rows
    BY <1>1 DEF Inserts
  <2>2. Effect(db, s) = InsertRow(db, s.row) /\ s # Commit
    BY <2>1 DEF Effect, Commit
  <2> QED BY <2>1, <2>2, InsertGood
<1>2. CASE s \in [op : {"delete", "fill"}, table : Tables, pair : Pairs]
  <2>1. s.op \in {"delete", "fill"} /\ s.table \in Tables /\ s.pair \in Pairs
    BY <1>2
  <2>2. /\ s.op = "delete" => Effect(db, s) = DeleteRollup(db, s.table, s.pair)
        /\ s.op = "fill" => Effect(db, s) = FillRollup(db, s.table, s.pair)
        /\ s # Commit /\ s \notin Inserts
    BY <2>1 DEF Effect, Commit, Inserts
  <2> QED BY <2>1, <2>2, DeleteGood, FillGood
<1>3. CASE s \in {Commit, [op |-> "job"]}
  <2>1. Effect(db, s) = db /\ s \notin Inserts
    BY <1>3 DEF Effect, Commit, Inserts
  <2> QED BY <2>1 DEF Keeps
<1> QED BY <1>1, <1>2, <1>3 DEF Statements

-----------------------------------------------------------------------------
(* A new database is empty.                                                 *)
LEMMA InitInv == Init => Inv
<1> SUFFICES ASSUME Init PROVE Inv
  OBVIOUS
<1>1. /\ DOMAIN Empty.samples = {} /\ Empty.rollup = [t \in Tables |-> NoRows]
      /\ Empty.samples = NoRows /\ DOMAIN NoRows = {}
      /\ Empty = [samples |-> Empty.samples, rollup |-> Empty.rollup]
  BY DEF Empty, NoRows
<1>2. \A t \in Tables : DOMAIN Empty.rollup[t] = {}
  BY <1>1
<1>3. IsStore(Empty)
  BY <1>1, FS_EmptySet DEF IsStore, NoRows
<1>4. IsDatabase(Empty) /\ WithinRaw(Empty)
  BY <1>1, <1>2 DEF IsDatabase, WithinRaw
<1>5. TypeOK
  <2>1. failed \in BOOLEAN
    BY Zenon DEF Init
  <2> QED BY <1>4, <2>1, BoundsAssumption DEF Init, TypeOK, Idle
<1>6. Good(disk) /\ Good(view) /\ Keeps(disk, view)
  BY <1>3, <1>4 DEF Init, Good, Keeps
<1>7. InsertInv /\ AcknowledgedIsDurable /\ todo \in Seq(Statements) /\ batch \in Seq(Rows)
  BY DEF Init, InsertInv, AcknowledgedIsDurable
<1> QED BY <1>5, <1>6, <1>7 DEF Inv

(* A method begins: its statements are lined up, its rows among them.       *)
LEMMA BeginInsertInv == Inv /\ BeginInsert => Inv'
<1> SUFFICES ASSUME Inv, BeginInsert PROVE Inv'
  OBVIOUS
<1>0. PICK n \in 1 .. MaxBatch :
        \E rows \in [1 .. n -> Rows] : batch' = rows /\ todo' = InsertSamples(rows)
  BY DEF BeginInsert
<1>1. PICK rows \in [1 .. n -> Rows] : batch' = rows /\ todo' = InsertSamples(rows)
  BY <1>0
<1>2. /\ caller' = "insert" /\ writes' = writes + 1 /\ writes < MaxWrites
      /\ UNCHANGED <<disk, view, pairs, refresher, faults, acked, failed>>
  BY DEF BeginInsert
<1>3. n \in Nat /\ rows \in Seq(Rows) /\ Len(rows) = n /\ DOMAIN rows = 1 .. n
  BY BoundsAssumption
<1> DEFINE ins == [i \in DOMAIN rows |-> [op |-> "insert", row |-> rows[i]]]
<1>4. /\ ins \in Seq(Inserts) /\ Len(ins) = n
      /\ \A i \in 1 .. n : ins[i] \in Inserts /\ ins[i].row = rows[i]
  BY <1>3 DEF Inserts
<1>5. todo' = Append(ins, Commit)
  BY <1>1, Zenon DEF InsertSamples
<1> HIDE DEF ins
<1>6. /\ Len(todo') = n + 1 /\ todo'[n + 1] = Commit
      /\ \A i \in 1 .. n : todo'[i] = ins[i]
  BY <1>3, <1>4, <1>5
<1>7. todo' \in Seq(Statements) /\ todo' # <<>>
  <2>1. ins \in Seq(Statements) /\ Commit \in Statements
    BY <1>4 DEF Statements
  <2> QED BY <1>5, <2>1
<1>8. TypeOK'
  BY <1>2, BoundsAssumption DEF Inv, TypeOK, Idle
<1>9. InsertInv'
  BY <1>1, <1>3, <1>4, <1>6, <1>7 DEF InsertInv
<1> QED BY <1>1, <1>2, <1>3, <1>7, <1>8, <1>9 DEF Inv, AcknowledgedIsDurable

(* A job write or a refresh begins, or goes on to its next pair.            *)
LEMMA BeginOthersInv == Inv /\ (BeginJobWrite \/ BeginRefresh \/ NextPair) => Inv'
<1> SUFFICES ASSUME Inv, BeginJobWrite \/ BeginRefresh \/ NextPair PROVE Inv'
  OBVIOUS
<1>1. /\ UNCHANGED <<disk, view, batch, refresher, faults, acked, failed>>
      /\ caller' \in {"job", "refresh"}
      /\ writes' \in 0 .. MaxWrites
  BY BoundsAssumption DEF Inv, TypeOK, BeginJobWrite, BeginRefresh, NextPair
<1>2. todo' \in Seq(Statements)
  <2>1. \A p \in Pairs : RecomputeRollups(p) \in Seq(Statements)
    <3>1. \A p \in Pairs, o \in {"delete", "fill"}, t \in {"1m", "1h"} :
            Statement(o, t, p) \in Statements
      BY TablesAssumption DEF Statement, Statements
    <3>2. Commit \in Statements
      BY DEF Statements
    <3> QED BY <3>1, <3>2 DEF RecomputeRollups
  <2>2. WriteJobRow \in Seq(Statements)
    <3>1. [op |-> "job"] \in Statements /\ Commit \in Statements
      BY DEF Statements
    <3> QED BY <3>1 DEF WriteJobRow
  <2> QED BY <2>1, <2>2 DEF Inv, TypeOK, BeginJobWrite, BeginRefresh, NextPair
<1>3. pairs' \subseteq Pairs
  <2>1. {k[1] : k \in DOMAIN view.samples} \subseteq Pairs
    BY RowsAssumption DEF Inv, Good, IsDatabase, KeyOf, Key
  <2> QED BY <2>1 DEF Inv, TypeOK, BeginJobWrite, BeginRefresh, NextPair
<1>4. TypeOK'
  BY <1>1, <1>3 DEF Inv, TypeOK, Idle
<1>5. InsertInv'
  BY <1>1 DEF InsertInv
<1> QED BY <1>1, <1>2, <1>4, <1>5 DEF Inv, AcknowledgedIsDurable

(* One statement: it changes the view, and a commit the disk.               *)
LEMMA ExecuteInv == Inv /\ Execute => Inv'
<1> SUFFICES ASSUME Inv, Execute PROVE Inv'
  OBVIOUS
<1> DEFINE s == Head(todo)
<1>1. /\ todo # <<>> /\ todo' = Tail(todo)
      /\ view' = Effect(view, s)
      /\ disk' = IF s = Commit THEN view ELSE disk
      /\ UNCHANGED <<caller, batch, pairs, refresher, writes, faults, acked, failed>>
  BY DEF Execute
<1>2. todo \in Seq(Statements) /\ batch \in Seq(Rows)
  BY DEF Inv
<1>3. /\ Len(todo) \in Nat \ {0} /\ s = todo[1] /\ s \in Statements
      /\ todo' \in Seq(Statements) /\ Len(todo') = Len(todo) - 1
      /\ \A k \in 1 .. Len(todo) - 1 : todo'[k] = todo[k + 1]
  BY <1>1, <1>2
<1> HIDE DEF s
<1>4. /\ Good(view') /\ Keeps(view, view')
      /\ s \in Inserts => Key(s.row) \in DOMAIN view'.samples
      /\ s = Commit => view' = view
  BY <1>1, <1>3, EffectGood DEF Inv
<1>5. Good(disk') /\ Keeps(disk, disk') /\ Keeps(disk', view')
  <2>1. CASE s = Commit
    BY <1>1, <1>4, <2>1 DEF Inv, Keeps
  <2>2. CASE s # Commit
    BY <1>1, <1>4, <2>2 DEF Inv, Keeps
  <2> QED BY <2>1, <2>2
<1>6. TypeOK'
  BY <1>1, <1>4, <1>5 DEF Inv, TypeOK, Good, Idle
<1>7. InsertInv'
  <2> SUFFICES ASSUME caller = "insert" PROVE InsertInv'
    BY <1>1 DEF InsertInv
  <2>1. /\ todo[Len(todo)] = Commit
        /\ \A k \in 1 .. Len(todo) - 1 : todo[k] \in Inserts
        /\ \A i \in DOMAIN batch :
             \/ Key(batch[i]) \in DOMAIN view.samples
             \/ \E k \in 1 .. Len(todo) - 1 : todo[k].row = batch[i]
    BY <1>1 DEF Inv, InsertInv
  <2>2. CASE Len(todo) = 1
    <3>1. s = Commit /\ todo' = <<>>
      BY <1>3, <2>1, <2>2
    <3>2. \A i \in DOMAIN batch : Key(batch[i]) \in DOMAIN view.samples
      BY <2>1, <2>2
    <3> QED BY <1>1, <3>1, <3>2 DEF InsertInv
  <2>3. CASE Len(todo) # 1
    <3>1. /\ s \in Inserts /\ todo' # <<>> /\ todo'[Len(todo')] = Commit
          /\ \A k \in 1 .. Len(todo') - 1 : todo'[k] \in Inserts
      BY <1>3, <2>1, <2>3
    <3>2. ASSUME NEW i \in DOMAIN batch
          PROVE  \/ Key(batch[i]) \in DOMAIN view'.samples
                 \/ \E k \in 1 .. Len(todo') - 1 : todo'[k].row = batch[i]
      <4>1. CASE Key(batch[i]) \in DOMAIN view.samples
        BY <1>4, <4>1 DEF Keeps
      <4>2. ASSUME NEW k \in 1 .. Len(todo) - 1, todo[k].row = batch[i]
            PROVE  \/ Key(batch[i]) \in DOMAIN view'.samples
                   \/ \E l \in 1 .. Len(todo') - 1 : todo'[l].row = batch[i]
        <5>1. CASE k = 1
          BY <1>3, <1>4, <3>1, <4>2, <5>1
        <5>2. CASE k # 1
          <6>1. k - 1 \in 1 .. Len(todo') - 1 /\ todo'[k - 1] = todo[k]
            BY <1>3, <5>2
          <6> QED BY <4>2, <6>1
        <5> QED BY <5>1, <5>2
      <4> QED BY <2>1, <4>1, <4>2
    <3> QED BY <1>1, <3>1, <3>2 DEF InsertInv
  <2> QED BY <2>2, <2>3
<1>8. AcknowledgedIsDurable'
  BY <1>1, <1>5 DEF Inv, AcknowledgedIsDurable, Keeps
<1> QED BY <1>1, <1>2, <1>3, <1>4, <1>5, <1>6, <1>7, <1>8 DEF Inv

(* A method returns: an insert then counts as acknowledged.                 *)
LEMMA ReturnInv == Inv /\ Return => Inv'
<1> SUFFICES ASSUME Inv, Return PROVE Inv'
  OBVIOUS
<1>1. /\ todo = <<>>
      /\ acked' = IF caller = "insert" THEN acked \cup {Key(batch[i]) : i \in DOMAIN batch}
                  ELSE acked
      /\ caller' = "none" /\ batch' = <<>>
      /\ UNCHANGED <<disk, view, todo, pairs, refresher, writes, faults, failed>>
  BY DEF Return
<1>2. acked' \subseteq DOMAIN disk.samples
  BY <1>1 DEF Inv, InsertInv, AcknowledgedIsDurable
<1>3. TypeOK'
  BY <1>1, <1>2 DEF Inv, TypeOK, Idle, Good, IsDatabase
<1> QED BY <1>1, <1>2, <1>3 DEF Inv, InsertInv, AcknowledgedIsDurable

(* A failed statement and a crash leave the disk alone; the view becomes    *)
(* the disk or stays.                                                       *)
LEMMA FaultInv == Inv /\ (StatementFails \/ CrashAndRestart) => Inv'
<1> SUFFICES ASSUME Inv, StatementFails \/ CrashAndRestart PROVE Inv'
  OBVIOUS
<1>1. /\ todo' = <<>> /\ caller' = "none" /\ batch' = <<>> /\ pairs' = {}
      /\ UNCHANGED <<disk, writes, acked>>
      /\ view' \in {view, disk}
      /\ refresher' \in {"alive", "dead"}
  BY DEF StatementFails, CrashAndRestart, Inv, TypeOK
<1>2. faults' \in 0 .. MaxFaults
  BY BoundsAssumption DEF StatementFails, CrashAndRestart, Inv, TypeOK
<1>3. failed' \in BOOLEAN
  <2>1. failed \in BOOLEAN
    BY DEF Inv, TypeOK
  <2> QED BY <2>1, Zenon DEF StatementFails, CrashAndRestart
<1>4. Good(view') /\ Good(disk') /\ Keeps(disk', view')
  BY <1>1 DEF Inv, Keeps
<1>5. TypeOK'
  BY <1>1, <1>2, <1>3, <1>4 DEF Inv, TypeOK, Idle, Good
<1> QED BY <1>1, <1>4, <1>5 DEF Inv, InsertInv, AcknowledgedIsDurable

(* Every step of the event loop, failing or not, keeps Inv.                 *)
LEMMA StepInv == Inv /\ [Next]_vars => Inv'
<1>1. Inv /\ UNCHANGED vars => Inv'
  BY DEF vars, Inv, TypeOK, Idle, InsertInv, AcknowledgedIsDurable
<1> QED BY <1>1, BeginInsertInv, BeginOthersInv, ExecuteInv, ReturnInv, FaultInv DEF Next, Loop

(* The store keeps Inv, for any rows, widths, batches, writes and faults.   *)
THEOREM Invariance == Spec => []Inv
BY InitInv, StepInv, PTL DEF Spec

-----------------------------------------------------------------------------
(* Type correctness: the tables of the database are well formed, and every  *)
(* rollup bucket starts on a multiple of its width and has a row.           *)
THEOREM TypeCorrect == Spec => []TypeOK
<1>1. Inv => TypeOK
  BY DEF Inv
<1> QED BY <1>1, Invariance, PTL

(* What insert_samples has acknowledged by returning is on disk for good,   *)
(* for any batches, failing statements and crashes.                         *)
THEOREM AcknowledgedStaysDurable == Spec => []AcknowledgedIsDurable
<1>1. Inv => AcknowledgedIsDurable
  BY DEF Inv
<1> QED BY <1>1, Invariance, PTL

(* recompute_rollups never leaves, committed or visible to a reader, a      *)
(* bucket that shows more than its raw rows have: for any bucket widths.    *)
THEOREM RollupsStayWithinRaw == Spec => []RollupsAreWithinRaw
<1>1. Inv => RollupsAreWithinRaw
  BY DEF Inv, Good, RollupsAreWithinRaw
<1> QED BY <1>1, Invariance, PTL

(* No step changes or removes a raw row on disk: INSERT OR IGNORE, and the  *)
(* commit only ever writes what extends it.                                 *)
THEOREM RawRowsStay == Spec => RawRowsArePermanent
<1>1. ASSUME Inv, [Next]_vars
      PROVE  \A k \in DOMAIN disk.samples :
               k \in DOMAIN disk'.samples /\ disk'.samples[k] = disk.samples[k]
  <2>1. disk' = disk \/ disk' = view
    BY <1>1 DEF Next, Loop, BeginInsert, BeginJobWrite, BeginRefresh, NextPair, Execute, Return,
       StatementFails, CrashAndRestart, vars
  <2> QED BY <1>1, <2>1 DEF Inv, Keeps
<1> QED BY <1>1, Invariance, PTL DEF Spec, RawRowsArePermanent

-----------------------------------------------------------------------------
(* The counts of the parts of a finite set add up to its own.               *)
Parts(S, place) ==
    [b \in {place[k] : k \in S} |-> Cardinality({k \in S : place[k] = b})]

(* The sum over the parts, as Total computes it recursively, is the         *)
(* cardinality of the whole.                                                *)
LEMMA PartsAddUp ==
    ASSUME NEW S, IsFiniteSet(S), NEW place
    PROVE  Total(Parts(S, place)) = Cardinality(S)
<1> DEFINE f == Parts(S, place)
           B == {place[k] : k \in S}
           F(g) == [T \in SUBSET B |->
                      IF T = {} THEN 0
                      ELSE LET x == CHOOSE x \in T : TRUE IN f[x] + g[T \ {x}]]
           within(T) == {k \in S : place[k] \in T}
           w == [T \in SUBSET B |-> Cardinality(within(T))]
           u == CHOOSE g : g = F(g)
<1>1. DOMAIN f = B /\ \A b \in B : f[b] = Cardinality({k \in S : place[k] = b})
  BY DEF Parts
<1>2. IsFiniteSet(B)
  <2> DEFINE h == [k \in S |-> place[k]]
  <2>1. h \in Surjection(S, B)
    BY DEF Surjection
  <2> HIDE DEF h, B
  <2> QED BY <2>1, FS_Surjection
<1>3. ASSUME NEW T \in SUBSET B
      PROVE  /\ w[T] \in Nat
             /\ T = {} => w[T] = 0
             /\ \A x \in T : w[T] = f[x] + w[T \ {x}] /\ f[x] \in Nat
  <2>1. IsFiniteSet(within(T)) /\ w[T] = Cardinality(within(T))
    BY FS_Subset
  <2>2. w[T] \in Nat
    BY <2>1, FS_CardinalityType
  <2>3. ASSUME T = {} PROVE w[T] = 0
    <3>1. within(T) = {}
      BY <2>3
    <3> QED BY <2>1, <3>1, FS_EmptySet
  <2>4. ASSUME NEW x \in T PROVE w[T] = f[x] + w[T \ {x}] /\ f[x] \in Nat
    <3> DEFINE P == {k \in S : place[k] = x}
               Q == within(T \ {x})
    <3>1. /\ IsFiniteSet(P) /\ IsFiniteSet(Q)
      BY FS_Subset
    <3>2. within(T) = P \cup Q /\ P \cap Q = {}
      OBVIOUS
    <3>3. f[x] = Cardinality(P) /\ w[T \ {x}] = Cardinality(Q)
      BY <1>1
    <3> HIDE DEF P, Q, within, f, w
    <3>4. Cardinality(P \cup Q) = Cardinality(P) + Cardinality(Q) - Cardinality(P \cap Q)
      BY <3>1, FS_Union
    <3>5. Cardinality(P) \in Nat /\ Cardinality(Q) \in Nat /\ Cardinality(P \cap Q) = 0
      BY <3>1, <3>2, FS_CardinalityType, FS_EmptySet
    <3> QED BY <2>1, <3>2, <3>3, <3>4, <3>5
  <2> QED BY <2>2, <2>3, <2>4
<1>4. w = F(w)
  <2>1. ASSUME NEW T \in SUBSET B
        PROVE  w[T] = IF T = {} THEN 0
                      ELSE LET x == CHOOSE x \in T : TRUE IN f[x] + w[T \ {x}]
    <3>1. T # {} => (CHOOSE x \in T : TRUE) \in T
      OBVIOUS
    <3> HIDE DEF w, f, B
    <3> QED BY <1>3, <3>1
  <2>2. w = [T \in SUBSET B |-> w[T]]
    OBVIOUS
  <2> HIDE DEF w
  <2> QED BY <2>1, <2>2, Zenon
<1>5. u = F(u)
  <2> HIDE DEF F
  <2> QED BY <1>4
<1> DEFINE E == {T \in SUBSET B : u[T] # w[T]}
           O == StrictSubsetOrdering(B)
<1>6. \A T \in SUBSET B :
        u[T] = IF T = {} THEN 0
               ELSE LET x == CHOOSE x \in T : TRUE IN f[x] + u[T \ {x}]
  <2> HIDE DEF u, f, B
  <2> QED BY <1>5, Zenon
<1>7. ASSUME E # {} PROVE FALSE
  <2>1. IsWellFoundedOn(O, SUBSET B)
    <3> HIDE DEF B
    <3> QED BY <1>2, FS_StrictSubsetOrderingWellFounded, FS_FiniteSubsetsOfFinite
  <2>2. PICK T \in E : \A V \in E : ~(<<V, T>> \in O)
    <3>1. E \subseteq SUBSET B
      OBVIOUS
    <3> HIDE DEF E, O, B
    <3> QED BY <1>7, <2>1, <3>1, WFMin
  <2>3. T \in SUBSET B /\ u[T] # w[T]
    OBVIOUS
  <2>4. CASE T = {}
    <3> HIDE DEF u, w, f, B
    <3> QED BY <1>3, <1>6, <2>3, <2>4
  <2>5. CASE T # {}
    <3>1. PICK x \in T : u[T] = f[x] + u[T \ {x}]
      <4>1. (CHOOSE x \in T : TRUE) \in T
        BY <2>5
      <4> HIDE DEF u, w, f, B
      <4> QED BY <1>6, <2>3, <2>5, <4>1
    <3>2. T \ {x} \in SUBSET B /\ <<T \ {x}, T>> \in O
      <4> HIDE DEF B, E
      <4> QED BY <2>3 DEF StrictSubsetOrdering
    <3>3. u[T \ {x}] = w[T \ {x}]
      <4> HIDE DEF O, u, w, B
      <4> QED BY <2>2, <3>2
    <3> HIDE DEF u, w, f, B
    <3> QED BY <1>3, <2>3, <3>1, <3>3
  <2> QED BY <2>4, <2>5
<1>8. u[B] = w[B]
  <2> HIDE DEF u, w, B
  <2> QED BY <1>7
<1>9. within(B) = S
  OBVIOUS
<1>10. Total(f) = u[B]
  BY <1>1 DEF Total, u, f
<1> QED BY <1>8, <1>9, <1>10

-----------------------------------------------------------------------------
(* The rollup rows of a pair in a table, and what the statements make of    *)
(* their count.                                                             *)
RowsOf(db, t, p) == {k \in DOMAIN db.rollup[t] : k[1] = p}
RawOf(db, p) == {k \in DOMAIN db.samples : k[1] = p}

(* The count of a pair depends on its own rows only.                        *)
LEMMA CountDependsOnRows ==
    ASSUME NEW db, NEW new, NEW t, NEW p,
           RowsOf(new, t, p) = RowsOf(db, t, p),
           \A k \in RowsOf(db, t, p) : new.rollup[t][k] = db.rollup[t][k]
    PROVE  CountOf(new, t, p) = CountOf(db, t, p)
<1>1. Counts(new, t, p) = [k \in RowsOf(db, t, p) |-> new.rollup[t][k].count]
  BY Zenon DEF Counts, RowsOf
<1>2. Counts(db, t, p) = [k \in RowsOf(db, t, p) |-> db.rollup[t][k].count]
  BY Zenon DEF Counts, RowsOf
<1>3. Counts(new, t, p) = Counts(db, t, p)
  BY <1>1, <1>2
<1> QED BY <1>3, Zenon DEF CountOf

(* DELETE takes the rows of one pair from one table and nothing else.       *)
LEMMA DeleteCounts ==
    ASSUME NEW db, IsStore(db), NEW t \in Tables, NEW p
    PROVE  /\ RowsOf(DeleteRollup(db, t, p), t, p) = {}
           /\ DeleteRollup(db, t, p).samples = db.samples
           /\ \A u \in Tables : \A q : u # t \/ q # p =>
                CountOf(DeleteRollup(db, t, p), u, q) = CountOf(db, u, q)
<1> DEFINE g == [k \in {k \in DOMAIN db.rollup[t] : k[1] # p} |-> db.rollup[t][k]]
           r == [db.rollup EXCEPT ![t] = g]
           new == DeleteRollup(db, t, p)
<1>1. /\ db = [samples |-> db.samples, rollup |-> db.rollup]
      /\ db.rollup = [u \in Tables |-> db.rollup[u]]
  BY DEF IsStore
<1>2. new.samples = db.samples /\ new.rollup = r
  <2> HIDE DEF r
  <2>1. new = [db EXCEPT !.rollup = r]
    BY Zenon DEF DeleteRollup, r
  <2> HIDE DEF new
  <2> QED BY <1>1, <2>1
<1>3. r[t] = g /\ \A u \in Tables : u # t => r[u] = db.rollup[u]
  BY <1>1
<1>4. /\ DOMAIN g = {k \in DOMAIN db.rollup[t] : k[1] # p}
      /\ \A k \in DOMAIN g : g[k] = db.rollup[t][k]
  OBVIOUS
<1> HIDE DEF new, r, g
<1>5. RowsOf(new, t, p) = {}
  BY <1>2, <1>3, <1>4 DEF RowsOf
<1>6. ASSUME NEW u \in Tables, NEW q, u # t \/ q # p
      PROVE  CountOf(new, u, q) = CountOf(db, u, q)
  <2>1. CASE u # t
    BY <1>2, <1>3, <2>1, CountDependsOnRows DEF RowsOf
  <2>2. CASE u = t
    <3>1. /\ RowsOf(new, u, q) = RowsOf(db, u, q)
          /\ \A k \in RowsOf(db, u, q) : new.rollup[u][k] = db.rollup[u][k]
      BY <1>2, <1>3, <1>4, <1>6, <2>2 DEF RowsOf
    <3> QED BY <3>1, CountDependsOnRows
  <2> QED BY <2>1, <2>2
<1> QED BY <1>2, <1>5, <1>6 DEF new

(* INSERT ... SELECT GROUP BY into a table without rows of the pair counts  *)
(* every raw row of the pair once: its bucket is one of the groups.         *)
LEMMA FillCounts ==
    ASSUME NEW db, IsStore(db), NEW t \in Tables, NEW p, RowsOf(db, t, p) = {}
    PROVE  /\ CountOf(FillRollup(db, t, p), t, p) = Cardinality(RawOf(db, p))
           /\ FillRollup(db, t, p).samples = db.samples
           /\ \A u \in Tables : \A q : u # t \/ q # p =>
                CountOf(FillRollup(db, t, p), u, q) = CountOf(db, u, q)
<1> DEFINE fill == RollupOf(db.samples, t, p)
           old == db.rollup[t]
           g == [k \in DOMAIN old \cup DOMAIN fill |-> IF k \in DOMAIN fill THEN fill[k] ELSE old[k]]
           r == [db.rollup EXCEPT ![t] = g]
           new == FillRollup(db, t, p)
           raw == RawOf(db, p)
           place == [k \in raw |-> <<p, BucketOf(k[2], Width[t])>>]
<1>1. /\ db = [samples |-> db.samples, rollup |-> db.rollup]
      /\ db.rollup = [u \in Tables |-> db.rollup[u]]
  BY DEF IsStore
<1>2. new.samples = db.samples /\ new.rollup = r
  <2> HIDE DEF r
  <2>1. new = [db EXCEPT !.rollup = r]
    BY Zenon DEF FillRollup, r
  <2> HIDE DEF new
  <2> QED BY <1>1, <2>1
<1>3. r[t] = g /\ \A u \in Tables : u # t => r[u] = db.rollup[u]
  BY <1>1
<1>4. /\ DOMAIN g = DOMAIN old \cup DOMAIN fill
      /\ \A k \in DOMAIN g : g[k] = IF k \in DOMAIN fill THEN fill[k] ELSE old[k]
  OBVIOUS
<1>5. /\ DOMAIN fill = {place[k] : k \in raw}
      /\ \A b \in DOMAIN fill : b[1] = p
      /\ \A b \in DOMAIN fill : fill[b].count = Cardinality({k \in raw : place[k] = b})
  <2>1. DOMAIN fill = {<<p, BucketOf(k[2], Width[t])>> : k \in raw}
    BY DEF RollupOf, RawOf
  <2>2. DOMAIN fill = {place[k] : k \in raw} /\ \A b \in DOMAIN fill : b[1] = p
    <3> HIDE DEF fill, raw
    <3> QED BY <2>1
  <2>3. ASSUME NEW b \in DOMAIN fill
        PROVE  fill[b].count = Cardinality({k \in raw : place[k] = b})
    <3> DEFINE keys == {k \in raw : BucketOf(k[2], Width[t]) = b[2]}
    <3>1. fill[b] = Aggregate(db.samples, keys)
      BY <2>1 DEF RollupOf, RawOf
    <3>2. Aggregate(db.samples, keys).count = Cardinality(keys)
      BY Zenon DEF Aggregate
    <3>3. PICK k0 \in raw : b = <<p, BucketOf(k0[2], Width[t])>>
      BY <2>1
    <3>4. keys = {k \in raw : place[k] = b}
      <4> HIDE DEF raw, fill
      <4> QED BY <3>3
    <3> QED BY <3>1, <3>2, <3>4
  <2> QED BY <2>2, <2>3
<1> HIDE DEF new, r, g, old, fill
<1>6. RowsOf(new, t, p) = DOMAIN fill /\ \A k \in DOMAIN fill : new.rollup[t][k] = fill[k]
  BY <1>2, <1>3, <1>4, <1>5 DEF RowsOf, old
<1>7. CountOf(new, t, p) = Cardinality(raw)
  <2>1. Counts(new, t, p) = [k \in RowsOf(new, t, p) |-> new.rollup[t][k].count]
    BY Zenon DEF Counts, RowsOf
  <2>2. Counts(new, t, p) = [b \in {place[k] : k \in raw} |-> Cardinality({k \in raw : place[k] = b})]
    <3> HIDE DEF place, raw
    <3> QED BY <1>5, <1>6, <2>1
  <2>3. Counts(new, t, p) = Parts(raw, place)
    BY <2>2, Zenon DEF Parts
  <2>4. IsFiniteSet(raw)
    BY FS_Subset DEF IsStore, RawOf
  <2> HIDE DEF raw, place
  <2> QED BY <2>3, <2>4, PartsAddUp DEF CountOf
<1>8. ASSUME NEW u \in Tables, NEW q, u # t \/ q # p
      PROVE  CountOf(new, u, q) = CountOf(db, u, q)
  <2>1. CASE u # t
    BY <1>2, <1>3, <2>1, CountDependsOnRows DEF RowsOf
  <2>2. CASE u = t
    <3>1. /\ RowsOf(new, u, q) = RowsOf(db, u, q)
          /\ \A k \in RowsOf(db, u, q) : new.rollup[u][k] = db.rollup[u][k]
      BY <1>2, <1>3, <1>4, <1>5, <1>8, <2>2 DEF RowsOf, old
    <3> QED BY <3>1, CountDependsOnRows
  <2> QED BY <2>1, <2>2
<1> QED BY <1>2, <1>7, <1>8 DEF new

-----------------------------------------------------------------------------
(* ResolutionsAgree is not inductive: what a commit writes is the view, and *)
(* in the middle of recompute_rollups the tables of the view disagree.  As  *)
(* long as no statement failed, they do so only while a refresh is at work  *)
(* on one pair, and for that pair only, by how far it has come.             *)
Agree(db, p) == CountOf(db, "1m", p) = CountOf(db, "1h", p)

(* The pair p has its minutes, and has them all.                            *)
MinutesFilled(p) == CountOf(view, "1m", p) = Cardinality(RawOf(view, p))

Refreshing(p) ==
    \/ todo = RecomputeRollups(p)
    \/ /\ todo = <<Statement("fill", "1m", p), Statement("delete", "1h", p),
                   Statement("fill", "1h", p), Commit>>
       /\ RowsOf(view, "1m", p) = {}
    \/ /\ todo = <<Statement("delete", "1h", p), Statement("fill", "1h", p), Commit>>
       /\ MinutesFilled(p)
    \/ /\ todo = <<Statement("fill", "1h", p), Commit>>
       /\ MinutesFilled(p) /\ RowsOf(view, "1h", p) = {}
    \/ /\ todo = <<Commit>>
       /\ Agree(view, p)

NotRollup == Inserts \cup {Commit, [op |-> "job"]}

AgreeInv ==
    ~failed =>
        /\ \A p \in Pairs : Agree(disk, p)
        /\ caller # "refresh" => \A i \in 1 .. Len(todo) : todo[i] \in NotRollup
        /\ caller # "refresh" \/ todo = <<>> => \A p \in Pairs : Agree(view, p)
        /\ caller = "refresh" /\ todo # <<>> =>
             \E p \in Pairs : /\ Refreshing(p)
                              /\ \A q \in Pairs \ {p} : Agree(view, q)

(* No statement but those of a refresh touches the rollup tables.           *)
LEMMA OthersKeepCounts ==
    ASSUME NEW db, IsStore(db), NEW s \in NotRollup
    PROVE  \A t \in Tables : \A p : CountOf(Effect(db, s), t, p) = CountOf(db, t, p)
<1>1. db = [samples |-> db.samples, rollup |-> db.rollup]
  BY DEF IsStore
<1>2. Effect(db, s).rollup = db.rollup
  <2>1. CASE s \in Inserts
    <3>1. s.op = "insert"
      BY <2>1 DEF Inserts
    <3>2. Effect(db, s) = InsertRow(db, s.row)
      BY <3>1 DEF Effect
    <3> DEFINE f == With(db.samples, Key(s.row), s.row.value)
    <3>3. [db EXCEPT !.samples = With(@, Key(s.row), s.row.value)] = [db EXCEPT !.samples = f]
      BY Zenon
    <3> HIDE DEF f
    <3>4. [db EXCEPT !.samples = f].rollup = db.rollup
      BY <1>1
    <3> QED BY <3>2, <3>3, <3>4, Zenon DEF InsertRow
  <2>2. CASE s \in {Commit, [op |-> "job"]}
    BY <2>2 DEF Effect, Commit
  <2> QED BY <2>1, <2>2 DEF NotRollup
<1> QED BY <1>2, CountDependsOnRows DEF RowsOf

(* rollup_1m and rollup_1h are two tables.                                  *)
LEMMA TwoTables == "1m" \in Tables /\ "1h" \in Tables /\ "1m" # "1h"
BY TablesAssumption

(* The empty tables agree.                                                  *)
LEMMA AgreeInit == Init => AgreeInv
<1> SUFFICES ASSUME Init PROVE AgreeInv
  OBVIOUS
<1>1. \A p \in Pairs : CountOf(Empty, "1m", p) = CountOf(Empty, "1h", p)
  <2> SUFFICES ASSUME NEW p \in Pairs PROVE CountOf(Empty, "1m", p) = CountOf(Empty, "1h", p)
    OBVIOUS
  <2>1. Empty.rollup["1m"] = Empty.rollup["1h"]
    BY TwoTables DEF Empty
  <2> QED BY <2>1 DEF CountOf, Counts
<1>2. disk = Empty /\ view = Empty /\ todo = <<>>
  BY DEF Init
<1> QED BY <1>1, <1>2 DEF AgreeInv, Agree

(* A step that leaves the tables alone and ends no refresh in the middle.   *)
LEMMA BeginsAgree ==
    ASSUME Inv, AgreeInv, BeginInsert \/ BeginJobWrite \/ BeginRefresh \/ NextPair \/ Return
    PROVE  AgreeInv'
<1> SUFFICES ASSUME ~failed PROVE AgreeInv'
  BY DEF AgreeInv, BeginInsert, BeginJobWrite, BeginRefresh, NextPair, Return
<1>1. UNCHANGED <<disk, view, failed>>
  BY DEF BeginInsert, BeginJobWrite, BeginRefresh, NextPair, Return
<1>2. /\ \A p \in Pairs : Agree(disk, p)
      /\ todo = <<>> \/ caller # "refresh" => \A p \in Pairs : Agree(view, p)
  BY DEF AgreeInv
<1>3. todo = <<>> /\ \A p \in Pairs : Agree(view, p)
  BY <1>2 DEF Inv, TypeOK, Idle, BeginInsert, BeginJobWrite, BeginRefresh, NextPair, Return
<1>4. (\A p \in Pairs : Agree(disk', p)) /\ (\A p \in Pairs : Agree(view', p))
  BY <1>1, <1>2, <1>3
<1>5. CASE BeginInsert
  <2>1. PICK n \in 1 .. MaxBatch : \E rows \in [1 .. n -> Rows] : todo' = InsertSamples(rows)
    BY <1>5 DEF BeginInsert
  <2>2. PICK rows \in [1 .. n -> Rows] : todo' = InsertSamples(rows)
    BY <2>1
  <2> DEFINE ins == [i \in DOMAIN rows |-> [op |-> "insert", row |-> rows[i]]]
  <2>3. ins \in Seq(NotRollup) /\ Commit \in NotRollup
    BY <2>2, BoundsAssumption DEF NotRollup, Inserts
  <2>4. todo' = Append(ins, Commit)
    BY <2>2, Zenon DEF InsertSamples
  <2>5. todo' \in Seq(NotRollup)
    <3> HIDE DEF ins
    <3> QED BY <2>3, <2>4
  <2>6. caller' = "insert" /\ \A i \in 1 .. Len(todo') : todo'[i] \in NotRollup
    BY <1>5, <2>5 DEF BeginInsert
  <2> QED BY <1>4, <2>6 DEF AgreeInv
<1>6. CASE BeginJobWrite
  <2>1. [op |-> "job"] \in NotRollup /\ Commit \in NotRollup
    BY DEF NotRollup
  <2>2. caller' = "job" /\ \A i \in 1 .. Len(todo') : todo'[i] \in NotRollup
    BY <1>6, <2>1 DEF BeginJobWrite, WriteJobRow
  <2> QED BY <1>4, <2>2 DEF AgreeInv
<1>7. CASE BeginRefresh \/ Return
  <2>1. todo' = <<>>
    BY <1>3, <1>7 DEF BeginRefresh, Return
  <2> QED BY <1>4, <2>1 DEF AgreeInv
<1>8. CASE NextPair
  <2>1. PICK p \in Pairs : todo' = RecomputeRollups(p)
    BY <1>8 DEF NextPair, Inv, TypeOK
  <2>2. caller' = "refresh" /\ todo' # <<>> /\ Refreshing(p)'
    BY <1>8, <2>1 DEF NextPair, RecomputeRollups, Refreshing
  <2> QED BY <1>4, <2>1, <2>2 DEF AgreeInv
<1> QED BY <1>5, <1>6, <1>7, <1>8

(* A failed statement ends the claim; a crash takes the view back to disk.  *)
LEMMA FaultsAgree == ASSUME AgreeInv, StatementFails \/ CrashAndRestart PROVE AgreeInv'
<1>1. CASE StatementFails
  BY <1>1, Zenon DEF StatementFails, AgreeInv
<1>2. CASE CrashAndRestart
  <2> SUFFICES ASSUME ~failed PROVE AgreeInv'
    BY <1>2 DEF CrashAndRestart, AgreeInv
  <2>1. /\ \A p \in Pairs : Agree(disk, p)
        /\ disk' = disk /\ view' = disk /\ todo' = <<>>
    BY <1>2 DEF CrashAndRestart, AgreeInv
  <2>2. (\A p \in Pairs : Agree(disk', p)) /\ (\A p \in Pairs : Agree(view', p))
    BY <2>1
  <2> QED BY <2>1, <2>2 DEF AgreeInv
<1> QED BY <1>1, <1>2

(* One statement of an insert or a job write.                               *)
LEMMA OtherStatementsAgree ==
    ASSUME Inv, AgreeInv, ~failed, Execute, caller # "refresh"
    PROVE  AgreeInv'
<1> DEFINE s == Head(todo)
<1>1. /\ todo # <<>> /\ todo' = Tail(todo) /\ view' = Effect(view, s)
      /\ disk' = IF s = Commit THEN view ELSE disk
      /\ caller' = caller
  BY DEF Execute
<1>2. /\ \A p \in Pairs : Agree(disk, p)
      /\ \A p \in Pairs : Agree(view, p)
      /\ \A i \in 1 .. Len(todo) : todo[i] \in NotRollup
  BY DEF AgreeInv
<1>3. todo \in Seq(Statements) /\ IsStore(view)
  BY DEF Inv, Good
<1>4. s \in NotRollup /\ \A i \in 1 .. Len(todo') : todo'[i] \in NotRollup
  BY <1>1, <1>2, <1>3
<1> HIDE DEF s
<1>5. \A p \in Pairs : Agree(view', p)
  BY <1>1, <1>2, <1>3, <1>4, OthersKeepCounts, TwoTables DEF Agree
<1>6. \A p \in Pairs : Agree(disk', p)
  BY <1>1, <1>2
<1> QED BY <1>1, <1>4, <1>5, <1>6 DEF AgreeInv

(* One statement of recompute_rollups.                                      *)
LEMMA RefreshStatementsAgree ==
    ASSUME Inv, AgreeInv, ~failed, Execute, caller = "refresh"
    PROVE  AgreeInv'
<1> DEFINE s == Head(todo)
<1>1. /\ todo # <<>> /\ todo' = Tail(todo) /\ view' = Effect(view, s)
      /\ disk' = IF s = Commit THEN view ELSE disk
      /\ caller' = caller
  BY DEF Execute
<1>2. \A p \in Pairs : Agree(disk, p)
  BY DEF AgreeInv
<1>3. PICK p \in Pairs : Refreshing(p) /\ \A q \in Pairs \ {p} : Agree(view, q)
  BY <1>1 DEF AgreeInv
<1>4. IsStore(view)
  BY DEF Inv, Good
<1>5. /\ \A o \in {"delete", "fill"}, t \in Tables :
            /\ Statement(o, t, p).op = o
            /\ Statement(o, t, p).table = t /\ Statement(o, t, p).pair = p
            /\ Statement(o, t, p) # Commit
      /\ \A t \in Tables :
            /\ Effect(view, Statement("delete", t, p)) = DeleteRollup(view, t, p)
            /\ Effect(view, Statement("fill", t, p)) = FillRollup(view, t, p)
  BY DEF Statement, Effect, Commit
<1>6. ASSUME NEW t \in Tables, s = Statement("delete", t, p)
      PROVE  /\ disk' = disk /\ view'.samples = view.samples
             /\ RowsOf(view', t, p) = {}
             /\ \A u \in Tables : \A q : u # t \/ q # p => CountOf(view', u, q) = CountOf(view, u, q)
  <2>1. s # Commit /\ view' = DeleteRollup(view, t, p)
    BY <1>1, <1>5, <1>6
  <2> QED BY <1>1, <1>4, <2>1, DeleteCounts
<1>7. ASSUME NEW t \in Tables, s = Statement("fill", t, p), RowsOf(view, t, p) = {}
      PROVE  /\ disk' = disk /\ view'.samples = view.samples
             /\ CountOf(view', t, p) = Cardinality(RawOf(view, p))
             /\ \A u \in Tables : \A q : u # t \/ q # p => CountOf(view', u, q) = CountOf(view, u, q)
  <2>1. s # Commit /\ view' = FillRollup(view, t, p)
    BY <1>1, <1>5, <1>7
  <2> QED BY <1>1, <1>4, <1>7, <2>1, FillCounts
<1>8. view'.samples = view.samples => RawOf(view', p) = RawOf(view, p)
  BY DEF RawOf
<1>9. ASSUME NEW t \in Tables, disk' = disk, todo' # <<>>, Refreshing(p)',
             \A u \in Tables : \A q : u # t \/ q # p => CountOf(view', u, q) = CountOf(view, u, q)
      PROVE  AgreeInv'
  <2>1. \A q \in Pairs \ {p} : Agree(view', q)
    BY <1>3, <1>9, TwoTables DEF Agree
  <2>2. \A q \in Pairs : Agree(disk', q)
    BY <1>2, <1>9
  <2> QED BY <1>1, <1>9, <2>1, <2>2 DEF AgreeInv
<1>10. CASE todo = RecomputeRollups(p)
  <2>1. /\ s = Statement("delete", "1m", p) /\ todo' # <<>>
        /\ todo' = <<Statement("fill", "1m", p), Statement("delete", "1h", p),
                     Statement("fill", "1h", p), Commit>>
    BY <1>1, <1>10 DEF RecomputeRollups
  <2> HIDE DEF s
  <2>2. RowsOf(view', "1m", p) = {}
    BY <1>6, <2>1, TwoTables
  <2>3. Refreshing(p)'
    BY <2>1, <2>2 DEF Refreshing
  <2> QED BY <1>6, <1>9, <2>1, <2>3, TwoTables
<1>11. CASE todo = <<Statement("fill", "1m", p), Statement("delete", "1h", p),
                    Statement("fill", "1h", p), Commit>> /\ RowsOf(view, "1m", p) = {}
  <2>1. /\ s = Statement("fill", "1m", p) /\ todo' # <<>>
        /\ todo' = <<Statement("delete", "1h", p), Statement("fill", "1h", p), Commit>>
    BY <1>1, <1>11
  <2> HIDE DEF s
  <2>2. MinutesFilled(p)'
    BY <1>7, <1>8, <1>11, <2>1, TwoTables DEF MinutesFilled
  <2>3. Refreshing(p)'
    BY <2>1, <2>2 DEF Refreshing
  <2> QED BY <1>7, <1>9, <1>11, <2>1, <2>3, TwoTables
<1>12. CASE /\ todo = <<Statement("delete", "1h", p), Statement("fill", "1h", p), Commit>>
            /\ MinutesFilled(p)
  <2>1. /\ s = Statement("delete", "1h", p) /\ todo' # <<>>
        /\ todo' = <<Statement("fill", "1h", p), Commit>>
    BY <1>1, <1>12
  <2> HIDE DEF s
  <2>2. MinutesFilled(p)' /\ RowsOf(view', "1h", p) = {}
    BY <1>6, <1>8, <1>12, <2>1, TwoTables DEF MinutesFilled
  <2>3. Refreshing(p)'
    BY <2>1, <2>2 DEF Refreshing
  <2> QED BY <1>6, <1>9, <2>1, <2>3, TwoTables
<1>13. CASE /\ todo = <<Statement("fill", "1h", p), Commit>>
            /\ MinutesFilled(p) /\ RowsOf(view, "1h", p) = {}
  <2>1. s = Statement("fill", "1h", p) /\ todo' # <<>> /\ todo' = <<Commit>>
    BY <1>1, <1>13
  <2> HIDE DEF s
  <2>2. Agree(view', p)
    BY <1>7, <1>13, <2>1, TwoTables DEF MinutesFilled, Agree
  <2>3. Refreshing(p)'
    BY <2>1, <2>2 DEF Refreshing
  <2> QED BY <1>7, <1>9, <1>13, <2>1, <2>3, TwoTables
<1>14. CASE todo = <<Commit>> /\ Agree(view, p)
  <2>1. s = Commit /\ todo' = <<>>
    BY <1>1, <1>14
  <2> HIDE DEF s
  <2>2. view' = view /\ disk' = view
    BY <1>1, <2>1 DEF Effect, Commit
  <2>3. (\A q \in Pairs : Agree(disk', q)) /\ (\A q \in Pairs : Agree(view', q))
    BY <1>3, <1>14, <2>2
  <2> QED BY <1>1, <2>1, <2>3 DEF AgreeInv
<1> QED BY <1>3, <1>10, <1>11, <1>12, <1>13, <1>14 DEF Refreshing

(* Every step keeps AgreeInv.                                               *)
LEMMA AgreeStep == Inv /\ AgreeInv /\ [Next]_vars => AgreeInv'
<1> SUFFICES ASSUME Inv, AgreeInv, [Next]_vars PROVE AgreeInv'
  OBVIOUS
<1>1. CASE Execute
  <2>1. CASE failed
    BY <1>1, <2>1 DEF Execute, AgreeInv
  <2> QED BY <1>1, <2>1, OtherStatementsAgree, RefreshStatementsAgree
<1>2. CASE UNCHANGED vars
  BY <1>2 DEF vars, AgreeInv, Agree, Refreshing, MinutesFilled
<1> QED BY <1>1, <1>2, BeginsAgree, FaultsAgree DEF Next, Loop

(* recompute_rollups refreshes both resolutions of a pair in one            *)
(* transaction: on disk they always count the same raw rows, wherever the   *)
(* process dies, as long as no statement has failed.                        *)
THEOREM ResolutionsStayInAgreement == Spec => []ResolutionsAgree
<1>1. Spec => []AgreeInv
  BY AgreeInit, AgreeStep, Invariance, PTL DEF Spec
<1>2. AgreeInv => ResolutionsAgree
  BY TablesAssumption DEF AgreeInv, Agree, ResolutionsAgree
<1> QED BY <1>1, <1>2, PTL
=============================================================================
