# A verification of the HPC Telemetry System

TLA+ models of the node agent, the ingestion service, its store, its job
orchestration, its straggler reports and the evaluation harness that judges
them, checked with TLC on small instances; and proofs, checked with TLAPS, of
what holds for every instance. Everything is
translated from the source; comments and documents of the repository only serve
as statements the code can be held against.

## 1. The system

| Part | Source | State | Operations | Hard because of |
| --- | --- | --- | --- | --- |
| Agent sender | `agent/src/sender.cpp`, `main.cpp` | bounded queue, batch copied from it, socket, running flag, drop count | `Enqueue`, `RunLoop`, `Stop` | two threads; the lock is released between copy, send and erase; TCP failures |
| Agent /proc reader | `agent/src/proc_reader.cpp` | counters and time of the prior sample | `Sample` | any file may be unreadable in any cycle; counters restart; equal clock readings |
| TCP server | `ingestion/.../ingest_server.py`, `framing.py`, `validation.py` | one byte buffer per connection | read, drain, EOF | streams cut anywhere, corrupted frames, handlers that raise, many clients |
| Store | `ingestion/.../storage/` | `samples`, `rollup_1m`, `rollup_1h`, `jobs`, `phase_events`, one shared connection with its open transaction | inserts, `recompute_rollups`, status updates, queries | implicit transactions without rollback, readers in other threads, crashes |
| Orchestration | `jobs.py`, `api.py` | a job's row, its task, its phase | `start_job`, `execute_job`, `get_job`, report | responses and reports travel apart; timeouts race answers; nobody awaits the task |
| Workload runner | `workload/src/workloadrunner/` | one handler per phase, one injected fault | `start_phase`, `report_phase_event` | its report is sent once; it works on after its caller gave up |
| Fault injectors | `workload/.../faults.py` | processes or threads per fault | start, stop, join, terminate | threads that outlive their joins |
| Straggler report | `analysis/straggler.py`, `api.py` | none | `rank_stragglers`, `tag_root_cause`, `get_straggler_report` | medians, a floor, ties, boundaries; a root cause read from a window that moves |
| Evaluation harness | `eval/run_trials.py`, `analysis/stats.py` | a result file per trial, the summary | trial, resume, replay, summary | kills, timeouts shorter than the job's, partial batches |

How they interact. The agent's main thread samples `/proc` once a second and
enqueues the readings; the sender thread streams batches over TCP. The service is
one process: an asyncio event loop runs every connection's `handle_connection`,
every job's `execute_job` and the rollup task; the API's plain `def` handlers run
in worker threads beside it. All of them share one `TSDBStore` and its one SQLite
connection; all writing is done on the event loop. A job POSTs each phase to all
runners over HTTP and learns that they have done it from `PhaseEvent` frames
which come over the same TCP server as the samples. The harness drives the API
from outside. (`BUILD_PLAN.md` also names a CLI and a dashboard; they are not in
the repository.)

## 2. What each module models

### AgentSender, RecordTransfer (abstract)

`SampleSender` and the two threads that share it. Records are numbered in the
order `Enqueue` gets them. `pc` is the sender thread's place in `RunLoop`; each
action is what happens between two points where the other thread or the kernel
can act: `CheckRunning` (the loop condition), `TakeBatch` (the copy under the
mutex), `KeepConnection`/`ConnectOk`/`ConnectFail`, `SendOk`/`SendFail`/
`SendKilled`, `EraseSent` (the erase under the mutex). `Enqueue`, `RequestStop`
and `Join` are the main thread. The kernel's socket is `sock`: what `send()` does
depends on whether the peer has closed (`halfclosed`), has answered data by a
reset (`broken`: the next send raises SIGPIPE) or has reset the connection
(`reset`: the send fails). `produced`, `sent`, `evicted` are history.

`RecordTransfer` is what a reader of the wire may rely on: records come at most
once, in order, in gap-free blocks no longer than a batch. `TransferSpec` checks
that `AgentSender` implements it.

### Pipeline

`AgentSender` composed with the live connection (`wire`) and the samples table
(`stored`). `Transmit` is the agent's `SendOk` with the frame put on the wire, or
lost if the peer has closed; `Handle` is one frame decoded, validated and stored,
which `IngestServer` and `TSDB` model in detail; `ConnectionEnds` is a closed
connection, a service that goes down or a handler that raised, and takes the
frames on the wire with it. All other actions are the agent's own. The table is
shown to implement `RecordTransfer` as well (`DeliverySpec`), with the stored
records in the place of the sent ones.

### ProcReader

`Sample()` with the set of sources that can be read in this cycle as its input;
`Tick` is the kernel, counting time and events, with devices that go away and
restart their counters. Readings are kept as fractions. The text of `/proc` and
the filter on device names are left out; `/proc/diskstats` and `/proc/net/dev`
are treated by the same code and are both `Files`. The kernel's iowait may
decrease between two samples, as `proc(5)` warns. `PercentagesInRange` is the
range 0 to 100 that `BUILD_PLAN.md` section 7 promises for cpu_pct and iowait_pct
(line 124); the code breaks it when iowait decreases (run `proc_percent`).
`OutOfRangeOnlyByIowaitDrop` says that it breaks it in no other case. Histories keep
what the last two `Sample()`s saw: which sources, which counters, at what time, and
the CPU ticks at the last two reads of `/proc/stat`.

### IngestServer, MCIngestServer

One `handle_connection` per client. `ReadChunk` is a `reader.read` that returns
any non-empty prefix of what the client sent; it starts the drain, which then
runs frame by frame (`HandleFrame`, `UnknownTag`, `NeedMore`, `HandlerRaises`)
while no other coroutine moves (`LoopFree`), as there is no `await` inside. Bytes
are numbers and a misplaced header is really decoded from whatever bytes are
there. The four length bytes are one byte; the protobuf payload is the schema
version and the samples, a byte each, with one byte value the parser cannot read.
`HandlerRaises` is a parse error or a failing write: the `finally` clause closes
the connection and nothing is logged.

### TSDB, MCTSDB

A method of `TSDBStore` is the sequence of SQL statements it executes, `todo`;
`view` is what the connection sees (and with it every worker thread, which shares
the connection), `disk` what is committed. `Execute` runs one statement;
`StatementFails` ends the method with the transaction left open or taken back by
SQLite, and ends the rollup task if that was the caller; `CrashAndRestart` drops
what is not committed. A crash is one of the process: the loss of committed
transactions that `synchronous=NORMAL` permits when the machine loses power is
not modelled. AVG is kept as count and sum.

### Jobs, PhaseBarrier (abstract)

`execute_job` as a task with the phase it is in and the POSTs it waits for; the
`start_phase` handler of every host for every phase (`run`); the rows of `jobs`
and `phase_events`; a `get_job` that reads the row and then the events beside the
event loop; a crash and restart of the service, and an exception in the task. The
clock is abstracted: a timeout may fire whenever it is running, so every outcome
of a race between a timeout and an answer occurs. `PhaseBarrier` is what a reader
of the tables may rely on, and `ImplementsBarrier` that `Jobs` provides it.

### Straggler, StragglerReport, MCStragglerReport

`Straggler` is `rank_stragglers` in exact integers: medians are kept doubled and
the MAD four times, so every comparison of the code has an integer counterpart.
The ranking is a function from places to nodes: the i-th place is that of the node
with i - 1 nodes ahead of it in `sorted()`'s order.
Rounding of the code's floats is not modelled. Every initial state is one input.
`StragglerReport` is the whole handler of `GET straggler_report`: the ranking and,
for its top candidate, the root cause, as `_nearest_sample_value`,
`_baseline_mean_value`, `_relative_delta` and `tag_root_cause` compute it from the
newest rows of three series. Samples keep arriving, and the report may be asked
for again: `CauseIsStable` says from when and until when the answer is the same.

### EvalHarness, MCEvalHarness

`run_trials.py` above the jobs and the injectors: the trials in their order, the
job of each, polling with its 30 s, the result file (emptied, then written, so
that a kill leaves a torn one), resume, replay and the summary. `jobs` are all jobs
ever started, also those the harness has given up on; on each host such a job is
requested, working, reported or failed, and `lingering` are threads of `io_stall`
that outlived their joins. `shared` is history: the jobs that were busy on one
host at once. Jobs are taken at what `Jobs` shows of them: completed means that
all hosts have reported. What a ranking says is left open. `Decide` compares the
Wilson bound with a threshold in integers: the interval is the score test
inverted, so its lower bound is at least p exactly if the observed rate lies above
p by z standard errors of p. For the three thresholds in the code this agrees
with `wilson_interval` in floating point for every count up to 80 trials.

## 3. The runs

| Run | Question | Instance | States | Result |
| --- | --- | --- | --- | --- |
| `agent` | all properties of the sender, the connection and the store behind it, safety and liveness | queue 3, batch 2, 6 records, 2 faults | 152,850 | holds |
| `agent_loss` | is a record lost only as the header says? | queue 2, batch 2, 4 records | | violated |
| `agent_sigpipe` | does the agent survive a peer that closes? | 1 fault | | violated |
| `jobs` | barrier, faults, answers, termination, refinement | 2 hosts, 2 phases, 1 crash or task exception | 296,145 | holds |
| `straggler` | robustness, scale, monotonicity, stable cause | up to 5 nodes, 5 durations around the floor; 7 samples with 4 readings each | 120,795 | holds |
| `proc` | no false number from a partial or repeated read | 3 ticks, counters to 3 | 2,462,540 | holds |
| `proc_percent` | are percentages within 0 to 100? | the same | | violated |
| `proc_rate` | is every rate a delta over its own interval? | the same | | violated |
| `ingest` | decoding, storing, reason codes, hang-up | 2 clients, 2 and 1 frames and a cut one | 842,162 | holds |
| `ingest_resync` | is a byte ever misread as a header? | the same | | violated |
| `tsdb` | permanence, durability, rollups | 2 writes of up to 2 rows, 2 faults, any number of refreshes | 53,447 | holds |
| `harness` | evidence, resume, verdicts, the end of a batch | 3 trials, one of each kind, 1 host, 1 interruption | 359,199 | holds |

Why the bounds are enough. *agent*: the races need a queue that overflows while
a batch is in flight (6 records, queue of 3, batch of 2: an overflow inside the
batch, at its end and behind it) and a connection that dies, is replaced and dies
again; three batches put frames before, in and behind a lost connection. *jobs*: the barrier needs two phases and a host that is late; hosts do not
interact with each other. *straggler*: with the minimum of three reporting nodes,
five are the smallest number with a robust majority and an even and an odd case
on each side. The ranking does not look at metrics and the root cause does not
look at durations, so `MCStragglerReport` combines every choice of durations with
one quiet history, and every history with one choice of durations that has a
straggler; the windows are 5 and 6 rows instead of 50 and 200, small enough for
the phase to leave them. *harness*: two phases meet if they overlap on a host, so
one host shows every meeting there is; three trials give each kind of fault a
predecessor and a successor. *proc*: a failed read between two good ones takes three samples.
*ingest*: two frames and a third that is cut give every position of a read's
border against a frame's, and two clients every interleaving of two streams.
*tsdb*: the second write meets whatever the first left behind; one key is sent
with two values; the rows of one pair are in two minutes of one hour.

`CHECK_DEADLOCK FALSE` is set where the bounds end the behaviour (no more
records, bytes, ticks or jobs): stopping there is right.

### Fairness

*AgentSender.* The sender thread is scheduled (weak fairness), the service comes
back, and connecting to a service that is up succeeds eventually (strong fairness
on `ConnectOk`). Nothing is assumed of `Enqueue`, of signals or of failures. A
`send()` that blocks for ever on a full socket is not modelled, so `StopReturns`
is relative to a peer that reads or resets. *Pipeline.* The same, and weak fairness
of `Handle`: the service's event loop reads a connection that has data. *Jobs.* Weak fairness of each job's
task only: the event loop runs ready tasks, POSTs end within 10 s and the wait
within 30 s. Runners may stall for ever. *IngestServer.* The event loop goes on
with every coroutine that can run; clients owe nothing. *TSDB.* A running method
goes on, and the refresh timer gets its turn among the writers: asyncio runs
ready callbacks in their order, which is the strong fairness of `BeginRefresh`.
*EvalHarness.* The harness goes on while it runs, its polls being bounded by 30 s;
and its operator runs it again, however often it ended (strong fairness of `Run`).
Nothing is assumed of the service and the runners.

### What the violated runs show

- `agent_loss`: `RunLoop` erases as many records as it sent, but an overflow
  during the send has already removed some of them: as many newer records, never
  sent, are erased instead, unreported. The number is right (`LossCounted` is
  proved), the record reported as dropped is not the one that is lost.
- `agent_sigpipe`: `send()` without `MSG_NOSIGNAL` and without a handler for
  SIGPIPE: a service restart can end the agents.
- `proc_percent`: contradicts `BUILD_PLAN.md:124` ("percentages in the range 0 to
  100"). `Sample()` checks that the total of the ticks grew, not that iowait did
  (`proc_reader.cpp:229`): when the kernel's iowait is smaller than at the prior read,
  a negative iowait_pct is reported, and where the active ticks grew by more than the
  total a cpu_pct above 100. No value is clamped or left out.
- `proc_rate`: after a cycle in which a file could not be read, the growth over
  all the missed cycles is divided by the last one; if the first read fails, a
  counter since boot becomes one second's rate.
- `ingest_resync`: after an unknown tag the buffer is cleared but the connection
  is not dropped, so the rest of that frame may be decoded and stored.

### What else the code does otherwise than it is described

Seen while modelling; no run of its own.

- `/straggler_report` ranks whatever reports there are, so it ranks three nodes of
  four while the slowest is still running, although it is described as ranking "one
  completed job phase" (`straggler.py:1-2`). `EvidenceIsWhole` shows that the
  harness never takes such a ranking.
- A copy of the median node lowers the MAD and can flag a node that was not
  flagged before, against the metamorphic property of `BUILD_PLAN.md` section 8.
- `BUILD_PLAN.md` section 8 tags by means over the phase of received and sent
  bytes; the code reads one sample, and received bytes only.
- The "during-phase" reading (`straggler.py:95`) is the sample nearest to the
  middle of the phase within 3 s, which for a short phase may lie outside it, and
  asked early is not yet there. `CauseIsStable` states the limits.
- A batch or replay without a single detection (an empty results directory, trials
  that all missed) ends in a ZeroDivisionError: `_summarize` decides estimand 4 with
  `predeclared_n` equal to the number of detections (`run_trials.py:162-163`), and no
  estimand is reported, against `BUILD_PLAN.md:368`. `Summarize` models it
  (`pc = "zero_division"`); it takes one step from an empty directory.
- A killed harness may leave a torn result file; it counts as done on resume, and
  `_load_results` raises on it from then on (`run_trials.py:135`, `144`).
- `_run_trial` turns a failing POST into an ABORTED trial, but a failing GET ends
  the whole batch; the resume is what makes this harmless (`EveryTrialIsFiled`).

## 4. What is proved

Every safety invariant and action property the passing runs check, and every
refinement, is also a theorem of its specification, for all values of the
constants. The table names them; each proof module says which invariant carries
its theorems.

| Proof module | Theorem: property |
| --- | --- |
| `AgentSenderProofs` | `TypeCorrect`: `TypeOK`; `QueueStaysLatest`: `QueueIsLatest`; `LossIsCounted`: `LossCounted`; `NeverResent`: `NoResend`; `ImplementsTransfer`: `TransferSpec` |
| `PipelineProofs` | the same five of the composed system (`PipeTypeCorrect` ... `PipeImplementsTransfer`); `StoreImplementsTransfer`: `DeliverySpec`; `GapsStayExplained`: `GapsAreExplained` |
| `JobsProofs` | `TypeCorrect`: `TypeOK`; `BarrierIsKept`: `BarrierHolds`; `CompletedAnswersAreComplete`: `CompletedAnswerIsComplete`; `ImplementsPhaseBarrier`: `ImplementsBarrier` |
| `IngestServerProofs` | `TypeCorrect`: `TypeOK`; `DecodingIsFaithful`: `DecodesWhatWasSent`; `CompleteFramesStayStored`: `CompleteFramesStored`; `EofReasonStaysTrue`: `EofReasonIsTrue` |
| `TSDBProofs` | `TypeCorrect`: `TypeOK`; `AcknowledgedStaysDurable`: `AcknowledgedIsDurable`; `RawRowsStay`: `RawRowsArePermanent`; `RollupsStayWithinRaw`: `RollupsAreWithinRaw`; `ResolutionsStayInAgreement`: `ResolutionsAgree` |
| `StragglerProofs` | `ReportTypeCorrect`: `ReportTypeOK`; `FlaggedStayMinority`: `FlaggedAreMinority`; `ScaleStaysIrrelevant`: `ScaleInvariant`; `SlowerKeepsTop`: `SlowerStaysTop`; `CauseStaysStable`: `CauseIsStable` |
| `ProcReaderProofs` | `TypeCorrect`: `TypeOK`; `RatesStayNotNegative`: `RatesNotNegative`; `OnlyIowaitDropLeavesRange`: `OutOfRangeOnlyByIowaitDrop`; `ConsecutiveReadsStayTrue`: `ConsecutiveReadsGiveTrueRate` |
| `EvalHarnessProofs` | `TypeCorrect`: `TypeOK`; `EvidenceStaysWhole`: `EvidenceIsWhole`; `InterruptionsCostOneJob`: `InterruptionCostsOneJob`; `SharingKeepsACause`: `SharingHasACause`; `VerdictsStayFinal`: `VerdictIsFinal` |

The assumptions are those on the constants, named in the modules, and TLC checks
each of them in a run: sizes, widths, limits and intervals are positive (a queue of
size 0 is a hazard of its own), hosts and nodes are finitely many, the manifest has
a trial with and one without a fault, phases end after they start, the rollup
tables are `1m` and `1h`, readings and values are numbers.

### The arguments

*AgentSender.* `QueueIsLatest` alone says what the queue is, but not that the
erase may count on it: between copy and erase the queue may have lost records the
batch still has. `BatchInv` says what survives: the batch is gap-free, no longer
than the queue (only the erase makes the queue shorter), and begins at or before
the queue's front. `SentInv` puts everything sent before the batch and, outside the
send, before the queue's front, which gives `NoResend` and the order of
`RecordTransfer`. `CountInv` is `LossCounted` and what it becomes between `send()`
and the erase: the batch counts as sent and has not yet left.

*Pipeline.* Every step of the composition is a step of the agent or leaves it
alone, so the agent's invariant carries over. `WireInv` orders the wire: gap-free
batches, each after the one before, all after what is stored. `PlaceInv` says that
whatever was sent is stored, on the wire or lost. `Handle` is then the abstract
`Send` of `DeliverySpec`, and a gap can only be counted or lost.

*Jobs.* `BarrierHolds` looks at handlers, which are started by a task that only
compares a count of rows. `HandlerInv` and `PhaseInv` put the task's phase between
the two: no handler is ahead of it, and all phases behind it are reported by every
host; a lemma shows that the count tells (the rows have a primary key per host).
`ReaderInv` follows `get_job` between its two reads. For the refinement, a report
stored is the abstract `Report`, the task's last step `Complete`, and a deadline
that passes with a report missing `GiveUp`; all else, restarts included, stutters.

*IngestServer.* `DecodesWhatWasSent` says nothing of bytes on their way. `StreamInv`
does: what is buffered and pending is the encoding of the frames not yet handled and
of a cut one. The rests of the stream are given as a function from frames to byte
sequences, which must exist, so that no induction over frames is needed. `CutInv`
says where an incomplete frame may be found, and `EofInv` and `StoreInv` what has
been logged and stored.

*TSDB.* `Inv` relates the view, the statements left and the disk: the view extends
the disk whatever is left to execute, and a running `insert_samples` has each of
its rows in the view or among the statements, the commit last. For `WithinRaw` each
statement is shown to keep a good database good; that of `FillRollup` needs that a
bucket holds the timestamps that are divided into it. `ResolutionsAgree` needs
`AgreeInv`: while no statement failed, the view's tables agree but for the one pair
a refresh is at work on, and there as far as it has come (minutes deleted, filled,
hours deleted, filled). That a filled table counts every raw row once is
`PartsAddUp`: the sizes of the parts of a set add up to its own.

*Straggler.* The state changes little; `Inv` says that the last answer is what the
code computes from the data it was asked about. The proofs are about that
computation. A k-th smallest value exists and is unique; a flagged node deviates by
more than the upper middle deviation, and fewer than half of the nodes can
(`FlaggedAreMinority`). The i-th
smallest of the multiples is the multiple of the i-th smallest, so scores are
scaled with the MAD, and `sorted()` depends only on who is ahead of whom
(`ScaleInvariant`). Raising a value above the middle moves neither median nor MAD
(`SlowerStaysTop`). And once settled, the nearest and the baseline rows are among
the newest of every later answer (`CauseIsStable`).

*ProcReader.* The properties are facts about what one `Sample()` emits; `TicksInv`
(the kept busy and idle ticks are not ahead of the kernel's) and `KeptInv` (what was
read is kept as it was: ticks, time, counters) make them inductive. With busy and
idle growing, the growth of iowait alone decides whether the percentages are in range;
`OnlyIowaitDropLeavesRange` therefore has that exception, and within it the contract
does not hold.

*EvalHarness.* The properties look at files. `Inv` says how a file comes about:
which trial the harness is at, that its result is about the job started last, that
files come in the order of the manifest; and, while nothing was interrupted, that
all jobs but the last are answered for by a file (`OrderInv`), from which a job that
meets another has a cause (`SharedInv`).

### What is only model-checked

The liveness properties `QueuedIsStored`, `StopReturns`, `JobEnds`,
`HangupIsNoticed`, `RollupsCatchUp` and `EveryTrialIsFiled`: they rest on fairness
and on ENABLED, which the prover does not treat. What recursive definitions compute
(`WindowSum`, `Total`) is proved where a theorem needs it, by giving the function
they define and a least counterexample; the library's induction theorems, which
take a predicate as a parameter, cannot be used.

## 5. Not modelled

Configuration and logging (environment variables read once, log lines); the
prime sieve and what an injector does to the CPU or the disk; the seed generator
(pure, its manifest is a constant of `EvalHarness`); the numbers of the Wilson
interval beyond the decision they lead to; the naive baseline and the breakdown by
fault type in the summary, which repeat the formula of estimand 1; the benchmark
script, which measures and keeps no state; Docker and CI files. Read-only queries
appear only where their interleaving matters (`get_job`, the straggler report,
the rollups a thread may see); the node list, metric series and latency endpoints
pass on the rows of one query. In `Jobs` every host has a NODE_ID of its own, as
in `docker-compose.yml`: with a NODE_ID used twice every job times out.
A `send()` that blocks for ever and the loss of committed transactions when the
machine loses power are outside the models.

## 6. Plan

1. *Done.* AgentSender with its abstraction and proofs, Jobs with PhaseBarrier,
   Straggler, ProcReader, IngestServer, TSDB; then the compositions: Pipeline,
   StragglerReport, EvalHarness with the injectors.
2. *Done.* The proofs of section 4: every safety invariant, action property and
   refinement of the passing runs.
3. *Left.* That the Wilson decision of `EvalHarness` is monotone in the detections,
   and that `TSDB`'s rollups equal what the raw rows give after a refresh without
   faults, as a step property rather than the liveness `RollupsCatchUp`.
