--------------------------------- MODULE TSDB ---------------------------------
(***************************************************************************)
(* The SQLite store (storage/tsdb.py) as its callers use it: one           *)
(* connection, shared by the event loop, which does all the writing, and   *)
(* the API's worker threads, which read.  Python opens a transaction at    *)
(* the first statement that writes and the methods commit at their end; no *)
(* method rolls back.  A method is its sequence of statements.             *)
(*                                                                         *)
(* The rows of samples are a function from (pair, ts) to the value, where  *)
(* a pair stands for (node_id, metric_id); a rollup table is a function    *)
(* from (pair, bucket) to the aggregates.  What the job tables hold is in  *)
(* Jobs; here their writes only matter as transactions.                    *)
(***************************************************************************)
EXTENDS Integers, Sequences, FiniteSets, FiniteSetsExt

CONSTANTS
    Pairs,      \* (node_id, metric_id) pairs
    Rows,       \* the rows that agents may send: [pair, ts, value]
    Width,      \* Width[t]: bucket width of rollup table t
    MaxBatch,   \* bound: rows in one batch
    MaxWrites,  \* bound: batches and job writes
    MaxFaults   \* bound: failed statements and crashes

Tables == DOMAIN Width

ASSUME RowsAssumption ==
    \A r \in Rows : r.pair \in Pairs /\ r.ts \in Nat /\ r.value \in Int
ASSUME TablesAssumption == Tables = {"1m", "1h"}
ASSUME WidthAssumption == \A t \in Tables : Width[t] \in Nat \ {0}
ASSUME BoundsAssumption == MaxBatch \in Nat /\ MaxWrites \in Nat /\ MaxFaults \in Nat

VARIABLES
    disk,       \* the committed database
    view,       \* what the connection sees: disk and the open transaction
    todo,       \* the statements the running method has left to execute
    caller,     \* what runs on the event loop: "insert", "job", "refresh" or "none"
    batch,      \* the rows of the running insert_samples
    pairs,      \* the pairs _refresh_rollups_periodically has left to do
    refresher,  \* that task: "alive", or "dead" of an exception
    writes,     \* number of batches and job writes so far
    faults,     \* number of faults so far
    acked,      \* history: the keys of the batches whose insert_samples returned
    failed      \* history: a statement has failed

vars == <<disk, view, todo, caller, batch, pairs, refresher, writes, faults, acked, failed>>

NoRows == [x \in {} |-> 0]
Empty  == [samples |-> NoRows, rollup |-> [t \in Tables |-> NoRows]]

Init ==
    /\ disk = Empty /\ view = Empty
    /\ todo = <<>> /\ caller = "none" /\ batch = <<>> /\ pairs = {}
    /\ refresher = "alive"
    /\ writes = 0 /\ faults = 0 /\ acked = {} /\ failed = FALSE

-----------------------------------------------------------------------------
(* The statements.                                                          *)

Key(row) == <<row.pair, row.ts>>

With(f, x, y) == [z \in DOMAIN f \cup {x} |-> IF z = x THEN y ELSE f[z]]

(* A faulty variant: INSERT OR REPLACE.                                     *)
ReplaceRow(db, row) ==
    [db EXCEPT !.samples = With(@, Key(row), row.value)]

(* INSERT OR IGNORE: the first row of a key stays.                          *)
InsertRow(db, row) ==
    IF Key(row) \in DOMAIN db.samples THEN db
    ELSE [db EXCEPT !.samples = With(@, Key(row), row.value)]

DeleteRollup(db, t, p) ==
    [db EXCEPT !.rollup[t] =
        [k \in {k \in DOMAIN db.rollup[t] : k[1] # p} |-> db.rollup[t][k]]]

(* Faulty variants: a sample goes to the bucket whose start is nearest; a   *)
(* bucket is named by its number.                                           *)
NearestBucket(ts, w) == ((ts + w \div 2) \div w) * w
BucketNumber(ts, w) == ts \div w

BucketOf(ts, w) == (ts \div w) * w

SumOf(samples, keys) == MapThenSumSet(LAMBDA k : samples[k], keys)

Aggregate(samples, keys) ==
    [count |-> Cardinality(keys),
     sum   |-> SumOf(samples, keys),
     min   |-> Min({samples[k] : k \in keys}),
     max   |-> Max({samples[k] : k \in keys})]

(* SELECT ... GROUP BY bucket_ts_ns over the raw rows of a pair.            *)
RollupOf(samples, t, p) ==
    LET raw == {k \in DOMAIN samples : k[1] = p}
    IN  [b \in {<<p, BucketOf(k[2], Width[t])>> : k \in raw} |->
            Aggregate(samples, {k \in raw : BucketOf(k[2], Width[t]) = b[2]})]

FillRollup(db, t, p) ==
    LET new == RollupOf(db.samples, t, p)
        old == db.rollup[t]
    IN  [db EXCEPT !.rollup[t] =
            [k \in DOMAIN old \cup DOMAIN new |->
                IF k \in DOMAIN new THEN new[k] ELSE old[k]]]

Commit == [op |-> "commit"]

(* What a statement makes of the connection's view.                         *)
Effect(db, s) ==
    CASE s.op = "insert" -> InsertRow(db, s.row)
      [] s.op = "delete" -> DeleteRollup(db, s.table, s.pair)
      [] s.op = "fill"   -> FillRollup(db, s.table, s.pair)
      [] OTHER           -> db

-----------------------------------------------------------------------------
(* The methods.                                                             *)

(* A faulty variant: the commit forgotten.                                  *)
InsertSamplesUncommitted(rows) ==
    [i \in DOMAIN rows |-> [op |-> "insert", row |-> rows[i]]]

InsertSamples(rows) ==
    Append([i \in DOMAIN rows |-> [op |-> "insert", row |-> rows[i]]], Commit)

(* create_job, set_job_status, insert_phase_event.                          *)
WriteJobRow == <<[op |-> "job"], Commit>>

Statement(op, t, p) == [op |-> op, table |-> t, pair |-> p]

(* Faulty variants: each table committed by itself; the hours only deleted. *)
RecomputeCommittingEach(p) ==
    <<Statement("delete", "1m", p), Statement("fill", "1m", p), Commit,
      Statement("delete", "1h", p), Statement("fill", "1h", p), Commit>>

RecomputeNeverFillsHours(p) ==
    <<Statement("delete", "1m", p), Statement("fill", "1m", p),
      Statement("delete", "1h", p), Commit>>

RecomputeRollups(p) ==
    <<Statement("delete", "1m", p), Statement("fill", "1m", p),
      Statement("delete", "1h", p), Statement("fill", "1h", p), Commit>>

-----------------------------------------------------------------------------
(* The event loop: a method runs to its end before another begins.          *)

Idle == caller = "none"

BeginInsert ==
    /\ Idle /\ writes < MaxWrites
    /\ \E n \in 1 .. MaxBatch : \E rows \in [1 .. n -> Rows] :
         batch' = rows /\ todo' = InsertSamples(rows)
    /\ caller' = "insert" /\ writes' = writes + 1
    /\ UNCHANGED <<disk, view, pairs, refresher, faults, acked, failed>>

BeginJobWrite ==
    /\ Idle /\ writes < MaxWrites
    /\ todo' = WriteJobRow
    /\ caller' = "job" /\ writes' = writes + 1
    /\ UNCHANGED <<disk, view, batch, pairs, refresher, faults, acked, failed>>

(* distinct_node_metric_pairs, 30 seconds after the previous refresh.       *)
BeginRefresh ==
    /\ Idle /\ refresher = "alive"
    /\ pairs' = {k[1] : k \in DOMAIN view.samples}
    /\ caller' = "refresh"
    /\ UNCHANGED <<disk, view, todo, batch, refresher, writes, faults, acked, failed>>

NextPair ==
    /\ caller = "refresh" /\ todo = <<>>
    /\ \E p \in pairs : todo' = RecomputeRollups(p) /\ pairs' = pairs \ {p}
    /\ UNCHANGED <<disk, view, caller, batch, refresher, writes, faults, acked, failed>>

(* One statement.  A reading thread may run before and after it, and sees   *)
(* the view.                                                                *)
Execute ==
    /\ todo # <<>>
    /\ view' = Effect(view, Head(todo))
    /\ disk' = IF Head(todo) = Commit THEN view ELSE disk
    /\ todo' = Tail(todo)
    /\ UNCHANGED <<caller, batch, pairs, refresher, writes, faults, acked, failed>>

(* The method returns to its caller.                                        *)
Return ==
    /\ ~Idle /\ todo = <<>> /\ (caller = "refresh" => pairs = {})
    /\ acked' = IF caller = "insert" THEN acked \cup {Key(batch[i]) : i \in DOMAIN batch}
                ELSE acked
    /\ caller' = "none" /\ batch' = <<>>
    /\ UNCHANGED <<disk, view, todo, pairs, refresher, writes, faults, failed>>

(* A statement raises, for a full disk or a lock held too long.  SQLite     *)
(* takes back the statement, or all of the transaction; the method does not *)
(* roll back.  The exception ends the task of _refresh_rollups_periodically,*)
(* and otherwise the connection or the job that called.                     *)
StatementFails ==
    /\ todo # <<>> /\ faults < MaxFaults
    /\ view' \in {view, disk}
    /\ todo' = <<>> /\ caller' = "none" /\ batch' = <<>> /\ pairs' = {}
    /\ refresher' = IF caller = "refresh" THEN "dead" ELSE refresher
    /\ faults' = faults + 1 /\ failed' = TRUE
    /\ UNCHANGED <<disk, writes, acked>>

(* The process dies and starts again: SQLite drops the open transaction.    *)
CrashAndRestart ==
    /\ faults < MaxFaults
    /\ view' = disk
    /\ todo' = <<>> /\ caller' = "none" /\ batch' = <<>> /\ pairs' = {}
    /\ refresher' = "alive"
    /\ faults' = faults + 1
    /\ UNCHANGED <<disk, writes, acked, failed>>

Loop == NextPair \/ Execute \/ Return

Next ==
    \/ BeginInsert \/ BeginJobWrite \/ BeginRefresh \/ Loop
    \/ StatementFails \/ CrashAndRestart

Spec == Init /\ [][Next]_vars

(* A running method goes on to its end, and the timer of the refresh gets   *)
(* its turn on the loop between the others.                                 *)
FairSpec == Spec /\ WF_vars(Loop) /\ SF_vars(BeginRefresh)

-----------------------------------------------------------------------------
(* Properties.                                                              *)

KeyOf == {Key(r) : r \in Rows}

IsDatabase(db) ==
    /\ DOMAIN db.samples \subseteq KeyOf
    /\ \A t \in Tables : \A k \in DOMAIN db.rollup[t] :
         k[1] \in Pairs /\ k[2] % Width[t] = 0 /\ db.rollup[t][k].count \in Nat \ {0}

(* The databases are well formed, every bucket of a rollup starts on a      *)
(* multiple of its width, and only a running method leaves statements.      *)
TypeOK ==
    /\ IsDatabase(disk) /\ IsDatabase(view)
    /\ caller \in {"none", "insert", "job", "refresh"}
    /\ Idle => todo = <<>> /\ batch = <<>>
    /\ pairs \subseteq Pairs /\ refresher \in {"alive", "dead"}
    /\ writes \in 0 .. MaxWrites /\ faults \in 0 .. MaxFaults
    /\ acked \subseteq KeyOf /\ failed \in BOOLEAN

(* A raw row that is on disk stays there with the value it had, whatever is *)
(* sent again, fails, or dies: a retried batch cannot corrupt the store.    *)
RawRowsArePermanent ==
    [][\A k \in DOMAIN disk.samples :
          k \in DOMAIN disk'.samples /\ disk'.samples[k] = disk.samples[k]]_vars

(* A batch whose insert_samples returned survives every later fault.        *)
AcknowledgedIsDurable == acked \subseteq DOMAIN disk.samples

(* No rollup, committed or seen by a reading thread, shows what the raw     *)
(* rows of its bucket do not have: also when statements failed in between.  *)
WithinRaw(db) ==
    \A t \in Tables : \A k \in DOMAIN db.rollup[t] :
        LET raw == {x \in DOMAIN db.samples :
                      x[1] = k[1] /\ x[2] \in k[2] .. k[2] + Width[t] - 1}
            agg == db.rollup[t][k]
        IN  /\ agg.count <= Cardinality(raw)
            /\ \E x \in raw : db.samples[x] = agg.min
            /\ \E x \in raw : db.samples[x] = agg.max
RollupsAreWithinRaw == WithinRaw(disk) /\ WithinRaw(view)

(* As long as no statement failed, the two rollup tables on disk are of the *)
(* same raw rows: a crash does not leave one refreshed and the other not.   *)
Counts(db, t, p) ==
    [k \in {k \in DOMAIN db.rollup[t] : k[1] = p} |-> db.rollup[t][k].count]
Total(f) ==
    LET sum[S \in SUBSET DOMAIN f] ==
            IF S = {} THEN 0
            ELSE LET x == CHOOSE x \in S : TRUE IN f[x] + sum[S \ {x}]
    IN  sum[DOMAIN f]
CountOf(db, t, p) == Total(Counts(db, t, p))
ResolutionsAgree ==
    ~failed => \A p \in Pairs : \A t, u \in Tables : CountOf(disk, t, p) = CountOf(disk, u, p)

(* While the refresh task is alive, the rollups come to equal what the raw  *)
(* rows give, again and again.                                              *)
Fresh ==
    \A t \in Tables :
        /\ DOMAIN disk.rollup[t] = UNION {DOMAIN RollupOf(disk.samples, t, p) : p \in Pairs}
        /\ \A k \in DOMAIN disk.rollup[t] :
             disk.rollup[t][k] = RollupOf(disk.samples, t, k[1])[k]
RollupsCatchUp == []<>(Fresh \/ refresher = "dead")
=============================================================================
