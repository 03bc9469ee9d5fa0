-------------------------------- MODULE Jobs --------------------------------
(***************************************************************************)
(* Job orchestration: execute_job in the ingestion service (jobs.py), the  *)
(* start_phase handler of every workload runner (runner.py, reporter.py),  *)
(* the phase_events and jobs tables they meet in (tsdb.py), and the API    *)
(* handlers that start and read jobs (api.py).                             *)
(*                                                                         *)
(* execute_job POSTs a phase to all hosts at once, waits for the responses *)
(* (at most 10 s each, failures swallowed), then polls the table until     *)
(* every host has reported the phase (at most 30 s).  A host's response    *)
(* and its report travel apart: the response over HTTP, the report as a    *)
(* frame over TCP that the ingest server stores when it gets to it.        *)
(*                                                                         *)
(* The clock is abstracted: a timeout may fire whenever it is running.     *)
(***************************************************************************)
EXTENDS Integers, FiniteSets

CONSTANTS
    JobIds,         \* jobs that may be started
    Hosts,          \* WORKLOAD_HOSTS, one runner (NODE_ID) each
    MaxPhases,      \* bound: the largest phase_count requested
    MaxCrashes,     \* bound: crashes of the ingestion service
    NoFault         \* a start request without a fault manifest

ASSUME HostsAssumption == IsFiniteSet(Hosts) /\ Hosts # {}
ASSUME MaxPhasesAssumption == MaxPhases \in Nat
ASSUME MaxCrashesAssumption == MaxCrashes \in Nat

Phases == 0 .. MaxPhases - 1

(* "target_host" and "phase_index" of a manifest; the API checks the host   *)
(* only, so the index may lie beyond the job's last phase.                  *)
Manifests == [host : Hosts, phase : 0 .. MaxPhases]

ASSUME NoFaultAssumption == NoFault \notin Manifests

VARIABLES
    status,     \* jobs.status; "none": no such row
    count,      \* jobs.phase_count
    manifest,   \* jobs.fault_manifest_json
    task,       \* where the job's execute_job task is
    phase,      \* its phase_index
    awaited,    \* hosts whose POST the gather still waits for
    run,        \* run[j][k][n]: the start_phase handler of host n
    event,      \* event[j][k][n]: the row of phase_events, by its status
    up,         \* the ingestion service is running
    crashes,    \* its crashes so far (bounded by MaxCrashes)
    reader      \* a GET /api/jobs/{id}: what it has read so far

rows    == <<status, count, manifest>>
tasks   == <<task, phase, awaited>>
vars    == <<rows, tasks, run, event, up, crashes, reader>>

(* A handler's life.  "inflight": the report's frame is on its way.         *)
HandlerStates == {"idle", "requested", "working", "reporting", "inflight",
                  "stored", "failed"}
Outcomes == {"none", "ok", "error"}
Handlers == [at : HandlerStates, fault : BOOLEAN, result : Outcomes]
Statuses == {"none", "running", "completed", "timed_out"}
Final    == {"completed", "timed_out"}
TaskStates == {"none", "dispatch", "gather", "wait", "ended", "lost"}

Idle == [at |-> "idle", fault |-> FALSE, result |-> "none"]
Readers == [job : JobIds, done : 0 .. 2, status : Statuses, complete : BOOLEAN]
NoRead == [done |-> 0]

Init ==
    /\ status = [j \in JobIds |-> "none"]
    /\ count = [j \in JobIds |-> 0]
    /\ manifest = [j \in JobIds |-> NoFault]
    /\ task = [j \in JobIds |-> "none"]
    /\ phase = [j \in JobIds |-> 0]
    /\ awaited = [j \in JobIds |-> {}]
    /\ run = [j \in JobIds |-> [k \in Phases |-> [n \in Hosts |-> Idle]]]
    /\ event = [j \in JobIds |-> [k \in Phases |-> [n \in Hosts |-> "none"]]]
    /\ up = TRUE /\ crashes = 0
    /\ reader = NoRead

(* The hosts with a row in phase_events for this phase.                     *)
Reporters(j, k) == {n \in Hosts : event[j][k][n] # "none"}

(* A faulty variant of AllReported, see below.                              *)
AllButOneReported(j, k) == Cardinality(Reporters(j, k)) >= Cardinality(Hosts) - 1

(* _wait_for_phase_reports compares the number of rows, not their hosts.    *)
AllReported(j, k) == Cardinality(Reporters(j, k)) >= Cardinality(Hosts)

-----------------------------------------------------------------------------
(* Faulty variants of the definitions below: slips the Python could have.   *)
(* No specification uses them.                                              *)

AdvanceOnePhaseTooFar(j) ==
    IF phase[j] + 1 <= count[j]
      THEN /\ phase' = [phase EXCEPT ![j] = @ + 1]
           /\ task' = [task EXCEPT ![j] = "dispatch"]
           /\ UNCHANGED status
      ELSE /\ status' = [status EXCEPT ![j] = "completed"]
           /\ task' = [task EXCEPT ![j] = "ended"]
           /\ UNCHANGED phase

DeadlineWithoutReturn(j) ==
    /\ up /\ task[j] = "wait"
    /\ status' = [status EXCEPT ![j] =
                    IF ~AllReported(j, phase[j]) /\ @ = "running" THEN "timed_out"
                    ELSE "completed"]
    /\ task' = [task EXCEPT ![j] = IF AllReported(j, phase[j]) THEN "ended" ELSE @]
    /\ UNCHANGED <<count, manifest, phase, awaited, run, event, up, crashes, reader>>

EventsBeforeRow == <<"events", "row">>

-----------------------------------------------------------------------------
(* api.py and jobs.py, on the ingestion service's event loop.               *)

(* POST /api/jobs: at least one phase; the row is written, the task made.   *)
StartJob(j) ==
    /\ up /\ status[j] = "none"
    /\ \E pc \in 1 .. MaxPhases, m \in Manifests \cup {NoFault} :
          /\ count' = [count EXCEPT ![j] = pc]
          /\ manifest' = [manifest EXCEPT ![j] = m]
    /\ status' = [status EXCEPT ![j] = "running"]
    /\ task' = [task EXCEPT ![j] = "dispatch"]
    /\ UNCHANGED <<phase, awaited, run, event, up, crashes, reader>>

(* The fault goes to the manifest's host in the manifest's phase only.      *)
FaultFor(j, k, n) == manifest[j] = [host |-> n, phase |-> k]

(* gather() of one POST per host.                                           *)
Dispatch(j) ==
    /\ up /\ task[j] = "dispatch"
    /\ run' = [run EXCEPT ![j][phase[j]] =
                  [n \in Hosts |-> [at |-> "requested", result |-> "none",
                                    fault |-> FaultFor(j, phase[j], n)]]]
    /\ awaited' = [awaited EXCEPT ![j] = Hosts]
    /\ task' = [task EXCEPT ![j] = "gather"]
    /\ UNCHANGED <<rows, phase, event, up, crashes, reader>>

(* A POST ends: answered, refused, or after 10 s; all look the same here.   *)
DispatchEnds(j, n) ==
    /\ up /\ task[j] = "gather" /\ n \in awaited[j]
    /\ awaited' = [awaited EXCEPT ![j] = @ \ {n}]
    /\ UNCHANGED <<rows, task, phase, run, event, up, crashes, reader>>

GatherDone(j) ==
    /\ up /\ task[j] = "gather" /\ awaited[j] = {}
    /\ task' = [task EXCEPT ![j] = "wait"]
    /\ UNCHANGED <<rows, phase, awaited, run, event, up, crashes, reader>>

(* All reports are in: the next phase, or the end of the job.               *)
Advance(j) ==
    IF phase[j] + 1 < count[j]
      THEN /\ phase' = [phase EXCEPT ![j] = @ + 1]
           /\ task' = [task EXCEPT ![j] = "dispatch"]
           /\ UNCHANGED status
      ELSE /\ status' = [status EXCEPT ![j] = "completed"]
           /\ task' = [task EXCEPT ![j] = "ended"]
           /\ UNCHANGED phase

PollSucceeds(j) ==
    /\ up /\ task[j] = "wait" /\ AllReported(j, phase[j])
    /\ Advance(j)
    /\ UNCHANGED <<count, manifest, awaited, run, event, up, crashes, reader>>

(* A faulty variant of DeadlinePasses: it polls on.                         *)
DeadlinePollsOn(j) ==
    /\ up /\ task[j] = "wait" /\ AllReported(j, phase[j])
    /\ Advance(j)
    /\ UNCHANGED <<count, manifest, awaited, run, event, up, crashes, reader>>

(* The deadline has passed; the table is read one last time.                *)
DeadlinePasses(j) ==
    /\ up /\ task[j] = "wait"
    /\ IF AllReported(j, phase[j])
         THEN Advance(j)
         ELSE /\ status' = [status EXCEPT ![j] = "timed_out"]
              /\ task' = [task EXCEPT ![j] = "ended"]
              /\ UNCHANGED phase
    /\ UNCHANGED <<count, manifest, awaited, run, event, up, crashes, reader>>

-----------------------------------------------------------------------------
(* runner.py and reporter.py on host n.  The handler runs on after the      *)
(* orchestrator has stopped waiting for its response.                       *)

Step(j, k, n, from, to) ==
    /\ run[j][k][n].at = from
    /\ run' = [run EXCEPT ![j][k][n].at = to]

StartPhase(j, k, n) ==
    /\ Step(j, k, n, "requested", "working")
    /\ UNCHANGED <<rows, tasks, event, up, crashes, reader>>

(* The sieve ends, or it (or the fault) raises: status "ok" or "error".     *)
FinishPhase(j, k, n) ==
    /\ run[j][k][n].at = "working"
    /\ \E r \in {"ok", "error"} :
          run' = [run EXCEPT ![j][k][n] = [@ EXCEPT !.at = "reporting", !.result = r]]
    /\ UNCHANGED <<rows, tasks, event, up, crashes, reader>>

(* report_phase_event wrote its frame.                                      *)
SendReport(j, k, n) ==
    /\ up
    /\ Step(j, k, n, "reporting", "inflight")
    /\ UNCHANGED <<rows, tasks, event, up, crashes, reader>>

(* The POST never arrives, the runner dies, or its report cannot be sent:   *)
(* nobody tries again.                                                      *)
HandlerFails(j, k, n) ==
    /\ run[j][k][n].at \in {"requested", "working", "reporting"}
    /\ run' = [run EXCEPT ![j][k][n].at = "failed"]
    /\ UNCHANGED <<rows, tasks, event, up, crashes, reader>>

(* The ingest server decodes the frame: INSERT OR IGNORE into phase_events. *)
StoreEvent(j, k, n) ==
    /\ up
    /\ Step(j, k, n, "inflight", "stored")
    /\ event' = [event EXCEPT ![j][k][n] = IF @ = "none" THEN run[j][k][n].result ELSE @]
    /\ UNCHANGED <<rows, tasks, up, crashes, reader>>

-----------------------------------------------------------------------------
(* GET /api/jobs/{id}, in the API's thread pool, beside the event loop.     *)

HasAllEvents(j) ==
    \A k \in 0 .. count[j] - 1 : Reporters(j, k) = Hosts

(* get_job's two reads, in the order of its statements.                     *)
GetJobReads == <<"row", "events">>

BeginRead(j) ==
    /\ up /\ reader = NoRead /\ status[j] # "none"
    /\ reader' = [job |-> j, done |-> 0, status |-> "none", complete |-> FALSE]
    /\ UNCHANGED <<rows, tasks, run, event, up, crashes>>

ReadNext ==
    /\ up /\ reader # NoRead /\ reader.done < 2
    /\ LET what == GetJobReads[reader.done + 1]
       IN  reader' = [reader EXCEPT
             !.done = @ + 1,
             !.status = IF what = "row" THEN status[reader.job] ELSE @,
             !.complete = IF what = "events" THEN HasAllEvents(reader.job) ELSE @]
    /\ UNCHANGED <<rows, tasks, run, event, up, crashes>>

EndRead ==
    /\ reader # NoRead /\ reader.done = 2
    /\ reader' = NoRead
    /\ UNCHANGED <<rows, tasks, run, event, up, crashes>>

-----------------------------------------------------------------------------
(* The ingestion service dies and is started again.  The rows survive; the  *)
(* tasks, the frames under way and the requests do not, and nothing in the  *)
(* service looks for jobs left running.                                     *)
Crash ==
    /\ up /\ crashes < MaxCrashes
    /\ up' = FALSE
    /\ crashes' = crashes + 1
    /\ task' = [j \in JobIds |-> IF task[j] \in {"none", "ended"} THEN task[j] ELSE "lost"]
    /\ awaited' = [j \in JobIds |-> {}]
    /\ run' = [j \in JobIds |-> [k \in Phases |-> [n \in Hosts |->
                 IF run[j][k][n].at = "inflight"
                   THEN [run[j][k][n] EXCEPT !.at = "failed"]
                   ELSE run[j][k][n]]]]
    /\ reader' = NoRead
    /\ UNCHANGED <<rows, phase, event>>

Restart ==
    /\ ~up
    /\ up' = TRUE
    /\ UNCHANGED <<rows, tasks, run, event, crashes, reader>>

(* An exception in the task (from the store, or from httpx but no HTTPError)*)
(* ends it; no one awaits the task, and the row keeps its status.           *)
TaskFails(j) ==
    /\ up /\ crashes < MaxCrashes
    /\ task[j] \in {"dispatch", "gather", "wait"}
    /\ crashes' = crashes + 1
    /\ task' = [task EXCEPT ![j] = "lost"]
    /\ awaited' = [awaited EXCEPT ![j] = {}]
    /\ UNCHANGED <<rows, phase, run, event, up, reader>>

-----------------------------------------------------------------------------
Orchestrator(j) ==
    \/ Dispatch(j) \/ GatherDone(j) \/ PollSucceeds(j) \/ DeadlinePasses(j)
    \/ \E n \in Hosts : DispatchEnds(j, n)

Runner(j, k, n) ==
    \/ StartPhase(j, k, n) \/ FinishPhase(j, k, n)
    \/ SendReport(j, k, n) \/ HandlerFails(j, k, n) \/ StoreEvent(j, k, n)

Next ==
    \/ \E j \in JobIds : StartJob(j) \/ Orchestrator(j) \/ BeginRead(j) \/ TaskFails(j)
    \/ \E j \in JobIds, k \in Phases, n \in Hosts : Runner(j, k, n)
    \/ ReadNext \/ EndRead \/ Crash \/ Restart

Spec == Init /\ [][Next]_vars

(* The event loop runs every ready task and fires due timers: a POST ends   *)
(* within 10 s, the wait within 30 s.  Nothing is assumed of the runners.   *)
FairSpec == Spec /\ \A j \in JobIds : WF_vars(Orchestrator(j))

-----------------------------------------------------------------------------
(* Properties.                                                              *)

TypeOK ==
    /\ status \in [JobIds -> Statuses]
    /\ count \in [JobIds -> 0 .. MaxPhases]
    /\ manifest \in [JobIds -> Manifests \cup {NoFault}]
    /\ task \in [JobIds -> TaskStates]
    /\ phase \in [JobIds -> Nat]
    /\ \A j \in JobIds : phase[j] = 0 \/ phase[j] < count[j]
    /\ awaited \in [JobIds -> SUBSET Hosts]
    /\ run \in [JobIds -> [Phases -> [Hosts -> Handlers]]]
    /\ event \in [JobIds -> [Phases -> [Hosts -> Outcomes]]]
    /\ up \in BOOLEAN /\ crashes \in 0 .. MaxCrashes
    /\ reader \in Readers \cup {NoRead}

(* A host starts a phase only after every host has reported the phase       *)
(* before: late, failed and lost reports never let the job run ahead.  And  *)
(* it runs it with the fault exactly if the manifest names both.            *)
BarrierHolds ==
    \A j \in JobIds, k \in Phases, n \in Hosts :
        run[j][k][n].at # "idle" =>
            /\ k > 0 => Reporters(j, k - 1) = Hosts
            /\ run[j][k][n].fault <=> manifest[j] = [host |-> n, phase |-> k]

(* An answer that says "completed" lists every phase event, although the    *)
(* row and the events are read one after the other beside the writers.      *)
CompletedAnswerIsComplete ==
    reader # NoRead /\ reader.done = 2 /\ reader.status = "completed"
        => reader.complete

(* Every started job ends, completed or timed out, however its runners      *)
(* behave, unless its task was lost to a crash or an exception.             *)
JobEnds ==
    \A j \in JobIds :
        status[j] = "running" ~> (status[j] \in Final \/ task[j] = "lost")

(* The rows and the phase events of the jobs implement the phase barrier.   *)
Reported == {e \in JobIds \X Phases \X Hosts : event[e[1]][e[2]][e[3]] # "none"}
Barrier == INSTANCE PhaseBarrier WITH reported <- Reported
ImplementsBarrier == Barrier!Spec
=============================================================================
