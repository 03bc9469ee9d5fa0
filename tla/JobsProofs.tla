------------------------------ MODULE JobsProofs ------------------------------
(***************************************************************************)
(* Proofs about Jobs for any jobs, hosts, number of phases and crashes:    *)
(* the phase barrier, the answers of GET /api/jobs/{id}, and that the rows *)
(* of jobs and phase_events implement PhaseBarrier.                        *)
(*                                                                         *)
(* BarrierHolds is not inductive: it looks at the handlers, and a handler  *)
(* is asked for by a task that compares a count of rows.  The inductive    *)
(* invariant Inv puts the task's phase between the two: no handler is      *)
(* ahead of the phase, and all phases below it are reported by every host. *)
(***************************************************************************)
EXTENDS Jobs, FiniteSetTheorems, TLAPS

(* Where a job's task is, its row says so, and its phase is one of the job's.*)
TaskInv ==
    \A j \in JobIds :
        /\ task[j] = "none" <=> status[j] = "none"
        /\ task[j] = "none" => phase[j] = 0
        /\ task[j] # "none" => phase[j] < count[j]
        /\ task[j] \in {"dispatch", "gather", "wait"} => status[j] = "running"

(* No handler runs ahead of the task, and none with another's fault.        *)
HandlerInv ==
    \A j \in JobIds, k \in Phases, n \in Hosts :
        run[j][k][n].at # "idle" =>
            /\ task[j] # "none" /\ k <= phase[j]
            /\ run[j][k][n].fault <=> FaultFor(j, k, n)

(* What is behind the task, or belongs to a completed job, is reported.     *)
PhaseInv ==
    \A j \in JobIds, k \in Phases :
        (k < phase[j] \/ (status[j] = "completed" /\ k < count[j])) =>
            Reporters(j, k) = Hosts

(* Once get_job has read "completed", the job is completed for good.        *)
ReaderInv ==
    reader # NoRead =>
        /\ reader.done = 0 => reader.status = "none"
        /\ reader.status = "completed" => status[reader.job] = "completed"
        /\ (reader.done = 2 /\ reader.status = "completed") => reader.complete

Inv == TypeOK /\ TaskInv /\ HandlerInv /\ PhaseInv /\ ReaderInv

-----------------------------------------------------------------------------
(* Counting the rows of a phase tells whether every host has reported it.   *)
LEMMA CountIsComplete ==
    ASSUME NEW j \in JobIds, NEW k
    PROVE  AllReported(j, k) <=> Reporters(j, k) = Hosts
<1>1. Reporters(j, k) \in SUBSET Hosts /\ IsFiniteSet(Hosts)
  BY HostsAssumption DEF Reporters
<1>2. /\ IsFiniteSet(Reporters(j, k))
      /\ Cardinality(Reporters(j, k)) <= Cardinality(Hosts)
      /\ Cardinality(Hosts) = Cardinality(Reporters(j, k)) => Hosts = Reporters(j, k)
  BY <1>1, FS_Subset
<1>3. Cardinality(Hosts) \in Nat /\ Cardinality(Reporters(j, k)) \in Nat
  BY <1>1, <1>2, FS_CardinalityType
<1> QED BY <1>2, <1>3 DEF AllReported

(* Changing one handler leaves all others as they were.                     *)
LEMMA OneHandler ==
    ASSUME NEW f \in [JobIds -> [Phases -> [Hosts -> Handlers]]],
           NEW j \in JobIds, NEW k \in Phases, NEW n \in Hosts, NEW h \in Handlers,
           NEW g, g = [f EXCEPT ![j] = [f[j] EXCEPT ![k] = [f[j][k] EXCEPT ![n] = h]]]
    PROVE  /\ g \in [JobIds -> [Phases -> [Hosts -> Handlers]]]
           /\ \A i \in JobIds, l \in Phases, m \in Hosts :
                g[i][l][m] = IF i = j /\ l = k /\ m = n THEN h ELSE f[i][l][m]
<1>1. [f[j][k] EXCEPT ![n] = h] \in [Hosts -> Handlers]
  OBVIOUS
<1>2. [f[j] EXCEPT ![k] = [f[j][k] EXCEPT ![n] = h]] \in [Phases -> [Hosts -> Handlers]]
  BY <1>1
<1> QED BY <1>2

(* So for one step of a handler.                                            *)
LEMMA StepOfHandler ==
    ASSUME TypeOK, NEW j \in JobIds, NEW k \in Phases, NEW n \in Hosts,
           NEW from, NEW to \in HandlerStates, Step(j, k, n, from, to)
    PROVE  /\ run' \in [JobIds -> [Phases -> [Hosts -> Handlers]]]
           /\ run[j][k][n].at = from
           /\ \A i \in JobIds, l \in Phases, m \in Hosts :
                /\ run'[i][l][m].fault = run[i][l][m].fault
                /\ run'[i][l][m].at =
                     IF i = j /\ l = k /\ m = n THEN to ELSE run[i][l][m].at
<1>1. run \in [JobIds -> [Phases -> [Hosts -> Handlers]]] /\ run[j][k][n] \in Handlers
  BY DEF TypeOK
<1> DEFINE h == [run[j][k][n] EXCEPT !.at = to]
<1>2. h \in Handlers /\ h.at = to /\ h.fault = run[j][k][n].fault
  BY <1>1 DEF Handlers
<1>3. run' = [run EXCEPT ![j][k][n] = h] /\ run[j][k][n].at = from
  BY Zenon DEF Step
<1>4. h \in Handlers
  BY <1>2
<1> HIDE DEF h
<1>5. run' = [run EXCEPT ![j] = [run[j] EXCEPT ![k] = [run[j][k] EXCEPT ![n] = h]]]
  BY <1>3
<1>6. /\ run' \in [JobIds -> [Phases -> [Hosts -> Handlers]]]
      /\ \A i \in JobIds, l \in Phases, m \in Hosts :
           run'[i][l][m] = IF i = j /\ l = k /\ m = n THEN h ELSE run[i][l][m]
  BY <1>1, <1>4, <1>5, OneHandler
<1> QED BY <1>2, <1>3, <1>6

-----------------------------------------------------------------------------
(* Before a job is started nothing of it exists.                            *)
LEMMA InitInv == Init => Inv
<1> SUFFICES ASSUME Init PROVE Inv
  OBVIOUS
<1> USE MaxPhasesAssumption, MaxCrashesAssumption
<1>1. TypeOK
  <2>1. Idle \in Handlers
    BY DEF Idle, Handlers, HandlerStates, Outcomes
  <2>2. run \in [JobIds -> [Phases -> [Hosts -> Handlers]]]
    BY <2>1 DEF Init
  <2>3. event \in [JobIds -> [Phases -> [Hosts -> Outcomes]]]
    BY DEF Init, Outcomes
  <2> QED BY <2>2, <2>3 DEF Init, TypeOK, Statuses, TaskStates
<1>2. TaskInv /\ ReaderInv
  BY DEF Init, TaskInv, ReaderInv, NoRead
<1>3. HandlerInv
  BY DEF Init, HandlerInv, Idle
<1>4. PhaseInv
  BY DEF Init, PhaseInv, Phases
<1> QED BY <1>1, <1>2, <1>3, <1>4 DEF Inv

-----------------------------------------------------------------------------
(* The steps, one by one.  The task's.                                      *)
LEMMA StartJobInv == ASSUME Inv, NEW j \in JobIds, StartJob(j) PROVE Inv'
<1> USE MaxPhasesAssumption
<1>1. PICK pc \in 1 .. MaxPhases, m \in Manifests \cup {NoFault} :
        /\ count' = [count EXCEPT ![j] = pc]
        /\ manifest' = [manifest EXCEPT ![j] = m]
  BY DEF StartJob
<1>2. /\ status[j] = "none" /\ task[j] = "none" /\ phase[j] = 0
      /\ status' = [status EXCEPT ![j] = "running"]
      /\ task' = [task EXCEPT ![j] = "dispatch"]
      /\ UNCHANGED <<phase, awaited, run, event, up, crashes, reader>>
  BY DEF StartJob, Inv, TaskInv
<1>3. TypeOK'
  BY <1>1, <1>2 DEF Inv, TypeOK, Statuses, TaskStates
<1>4. TaskInv'
  BY <1>1, <1>2 DEF Inv, TypeOK, TaskInv
<1>5. \A k \in Phases, n \in Hosts : run[j][k][n].at = "idle"
  BY <1>2 DEF Inv, HandlerInv
<1>6. HandlerInv'
  BY <1>1, <1>2, <1>5 DEF Inv, TypeOK, HandlerInv, FaultFor
<1>7. PhaseInv'
  BY <1>1, <1>2 DEF Inv, TypeOK, PhaseInv, Reporters, Phases
<1>8. ReaderInv'
  BY <1>2 DEF Inv, TypeOK, ReaderInv, Readers
<1> QED BY <1>3, <1>4, <1>6, <1>7, <1>8 DEF Inv

(* _dispatch_phase POSTs the phase to every host.                           *)
LEMMA DispatchInv == ASSUME Inv, NEW j \in JobIds, Dispatch(j) PROVE Inv'
<1> DEFINE asked == [n \in Hosts |-> [at |-> "requested", result |-> "none",
                                     fault |-> FaultFor(j, phase[j], n)]]
<1>1. /\ task[j] = "dispatch" /\ status[j] = "running" /\ phase[j] < count[j]
      /\ run' = [run EXCEPT ![j][phase[j]] = asked]
      /\ awaited' = [awaited EXCEPT ![j] = Hosts]
      /\ task' = [task EXCEPT ![j] = "gather"]
      /\ UNCHANGED <<rows, phase, event, up, crashes, reader>>
  BY DEF Dispatch, Inv, TaskInv
<1>2. asked \in [Hosts -> Handlers]
  BY DEF Handlers, HandlerStates, Outcomes, FaultFor
<1>3. phase[j] \in Phases
  BY <1>1, MaxPhasesAssumption DEF Inv, TypeOK, Phases
<1> HIDE DEF asked
<1>4. /\ run' \in [JobIds -> [Phases -> [Hosts -> Handlers]]]
      /\ \A i \in JobIds, l \in Phases, m \in Hosts :
           run'[i][l][m] = IF i = j /\ l = phase[j] THEN asked[m] ELSE run[i][l][m]
  BY <1>1, <1>2, <1>3 DEF Inv, TypeOK
<1>5. TypeOK'
  BY <1>1, <1>4 DEF Inv, TypeOK, TaskStates, rows
<1>6. TaskInv'
  BY <1>1 DEF Inv, TypeOK, TaskInv, rows
<1>7. HandlerInv'
  <2> SUFFICES ASSUME NEW i \in JobIds, NEW l \in Phases, NEW m \in Hosts,
                      (run[i][l][m].at # "idle")'
               PROVE  (/\ task[i] # "none" /\ l <= phase[i]
                       /\ run[i][l][m].fault <=> FaultFor(i, l, m))'
    BY DEF HandlerInv
  <2>1. CASE i = j /\ l = phase[j]
    <3>1. run'[i][l][m].fault <=> FaultFor(i, l, m)
      <4>1. run'[i][l][m] = asked[m]
        BY <1>4, <2>1
      <4>2. asked[m].fault = FaultFor(i, l, m)
        BY <2>1, Zenon DEF asked
      <4> QED BY <4>1, <4>2, Zenon
    <3> QED BY <1>1, <2>1, <3>1, <1>3 DEF Inv, TypeOK, rows, FaultFor, Phases
  <2>2. CASE ~(i = j /\ l = phase[j])
    BY <1>1, <1>4, <2>2 DEF Inv, TypeOK, HandlerInv, rows, FaultFor
  <2> QED BY <2>1, <2>2
<1>8. PhaseInv' /\ ReaderInv'
  BY <1>1 DEF Inv, PhaseInv, ReaderInv, Reporters, rows
<1> QED BY <1>5, <1>6, <1>7, <1>8 DEF Inv

(* The POSTs of a phase end, one after the other and all.                   *)
LEMMA WaitForAnswersInv ==
    ASSUME Inv, NEW j \in JobIds,
           GatherDone(j) \/ \E n \in Hosts : DispatchEnds(j, n)
    PROVE  Inv'
<1>1. /\ task[j] = "gather"
      /\ \/ task' = [task EXCEPT ![j] = "wait"] /\ UNCHANGED awaited
         \/ UNCHANGED task /\ awaited' \in [JobIds -> SUBSET Hosts]
      /\ UNCHANGED <<rows, phase, run, event, up, crashes, reader>>
  BY DEF GatherDone, DispatchEnds, Inv, TypeOK
<1>2. TypeOK'
  BY <1>1 DEF Inv, TypeOK, TaskStates, rows
<1>3. TaskInv' /\ HandlerInv'
  BY <1>1 DEF Inv, TypeOK, TaskInv, HandlerInv, FaultFor, rows
<1>4. PhaseInv' /\ ReaderInv'
  BY <1>1 DEF Inv, PhaseInv, ReaderInv, Reporters, rows
<1> QED BY <1>2, <1>3, <1>4 DEF Inv

(* All reports of the phase are in: what lies behind the task grows by it.  *)
LEMMA AdvanceInv ==
    ASSUME Inv, NEW j \in JobIds, task[j] = "wait", AllReported(j, phase[j]), Advance(j),
           UNCHANGED <<count, manifest, awaited, run, event, up, crashes, reader>>
    PROVE  Inv'
<1>1. Reporters(j, phase[j]) = Hosts
  BY CountIsComplete
<1>2. status[j] = "running" /\ phase[j] < count[j] /\ phase[j] \in Nat
  BY DEF Inv, TypeOK, TaskInv
<1>3. CASE phase[j] + 1 < count[j]
  <2>1. /\ phase' = [phase EXCEPT ![j] = @ + 1]
        /\ task' = [task EXCEPT ![j] = "dispatch"]
        /\ UNCHANGED status
    BY <1>3 DEF Advance
  <2>2. TypeOK'
    BY <1>2, <1>3, <2>1 DEF Inv, TypeOK, TaskStates
  <2>3. TaskInv'
    BY <1>2, <1>3, <2>1 DEF Inv, TypeOK, TaskInv
  <2>4. HandlerInv'
    BY <1>2, <2>1 DEF Inv, TypeOK, HandlerInv, FaultFor, Phases
  <2>5. PhaseInv'
    BY <1>1, <1>2, <2>1 DEF Inv, TypeOK, PhaseInv, Reporters, Phases
  <2>6. ReaderInv'
    BY <2>1 DEF Inv, ReaderInv
  <2> QED BY <2>2, <2>3, <2>4, <2>5, <2>6 DEF Inv
<1>4. CASE ~(phase[j] + 1 < count[j])
  <2>1. /\ status' = [status EXCEPT ![j] = "completed"]
        /\ task' = [task EXCEPT ![j] = "ended"]
        /\ UNCHANGED phase
    BY <1>4 DEF Advance
  <2>2. TypeOK'
    BY <2>1 DEF Inv, TypeOK, TaskStates, Statuses
  <2>3. TaskInv'
    BY <1>2, <2>1 DEF Inv, TypeOK, TaskInv
  <2>4. HandlerInv'
    BY <2>1 DEF Inv, TypeOK, HandlerInv, FaultFor
  <2>5. \A k \in Phases : k < count[j] => Reporters(j, k) = Hosts
    BY <1>1, <1>2, <1>4 DEF Inv, TypeOK, PhaseInv, Phases
  <2>6. PhaseInv'
    BY <2>1, <2>5 DEF Inv, TypeOK, PhaseInv, Reporters
  <2>7. ReaderInv'
    BY <2>1 DEF Inv, TypeOK, ReaderInv, Readers
  <2> QED BY <2>2, <2>3, <2>4, <2>6, <2>7 DEF Inv
<1> QED BY <1>3, <1>4

(* _wait_for_phase_reports finds a row for every host.                      *)
LEMMA PollSucceedsInv == ASSUME Inv, NEW j \in JobIds, PollSucceeds(j) PROVE Inv'
BY AdvanceInv DEF PollSucceeds

(* _wait_for_phase_reports gives up.                                        *)
LEMMA DeadlinePassesInv == ASSUME Inv, NEW j \in JobIds, DeadlinePasses(j) PROVE Inv'
<1>1. CASE AllReported(j, phase[j])
  BY <1>1, AdvanceInv DEF DeadlinePasses
<1>2. CASE ~AllReported(j, phase[j])
  <2>1. /\ task[j] = "wait" /\ status[j] = "running"
        /\ status' = [status EXCEPT ![j] = "timed_out"]
        /\ task' = [task EXCEPT ![j] = "ended"]
        /\ UNCHANGED <<count, manifest, phase, awaited, run, event, up, crashes, reader>>
    BY <1>2 DEF DeadlinePasses, Inv, TaskInv
  <2>2. TypeOK'
    BY <2>1 DEF Inv, TypeOK, TaskStates, Statuses
  <2>3. TaskInv' /\ HandlerInv'
    BY <2>1 DEF Inv, TypeOK, TaskInv, HandlerInv, FaultFor
  <2>4. PhaseInv'
    BY <2>1 DEF Inv, TypeOK, PhaseInv, Reporters
  <2>5. ReaderInv'
    BY <2>1 DEF Inv, TypeOK, ReaderInv, Readers
  <2> QED BY <2>2, <2>3, <2>4, <2>5 DEF Inv
<1> QED BY <1>1, <1>2

(* The task ends with an exception nobody awaits.                           *)
LEMMA TaskFailsInv == ASSUME Inv, NEW j \in JobIds, TaskFails(j) PROVE Inv'
<1>1. /\ task[j] \in {"dispatch", "gather", "wait"} /\ crashes < MaxCrashes
      /\ crashes' = crashes + 1
      /\ task' = [task EXCEPT ![j] = "lost"]
      /\ awaited' = [awaited EXCEPT ![j] = {}]
      /\ UNCHANGED <<rows, phase, run, event, up, reader>>
  BY DEF TaskFails
<1>2. TypeOK'
  BY <1>1, MaxCrashesAssumption DEF Inv, TypeOK, TaskStates, rows
<1>3. TaskInv' /\ HandlerInv'
  BY <1>1 DEF Inv, TypeOK, TaskInv, HandlerInv, FaultFor, rows
<1>4. PhaseInv' /\ ReaderInv'
  BY <1>1 DEF Inv, PhaseInv, ReaderInv, Reporters, rows
<1> QED BY <1>2, <1>3, <1>4 DEF Inv

-----------------------------------------------------------------------------
(* The handlers'.  None of them moves the task; where it is, is untouched.  *)
LEMMA HandlerStepInv ==
    ASSUME Inv, UNCHANGED <<rows, tasks, up, crashes, reader>>,
           run' \in [JobIds -> [Phases -> [Hosts -> Handlers]]],
           event' \in [JobIds -> [Phases -> [Hosts -> Outcomes]]],
           \A i \in JobIds, l \in Phases, m \in Hosts :
             /\ run'[i][l][m].fault = run[i][l][m].fault
             /\ run'[i][l][m].at # "idle" => run[i][l][m].at # "idle"
             /\ event[i][l][m] # "none" => event'[i][l][m] # "none"
    PROVE  Inv'
<1>1. TypeOK'
  BY DEF Inv, TypeOK, rows, tasks
<1>2. TaskInv'
  BY DEF Inv, TaskInv, rows, tasks
<1>3. HandlerInv'
  <2> SUFFICES ASSUME NEW i \in JobIds, NEW l \in Phases, NEW m \in Hosts,
                      run'[i][l][m].at # "idle"
               PROVE  /\ task[i] # "none" /\ l <= phase[i]
                      /\ run'[i][l][m].fault <=> FaultFor(i, l, m)
    BY DEF HandlerInv, FaultFor, rows, tasks
  <2>1. run[i][l][m].at # "idle" /\ run'[i][l][m].fault = run[i][l][m].fault
    OBVIOUS
  <2>2. /\ task[i] # "none" /\ l <= phase[i]
        /\ run[i][l][m].fault <=> FaultFor(i, l, m)
    BY <2>1, Zenon DEF Inv, HandlerInv
  <2> QED BY <2>1, <2>2, Zenon
<1>4. PhaseInv'
  BY DEF Inv, PhaseInv, Reporters, rows, tasks
<1>5. ReaderInv'
  BY DEF Inv, ReaderInv, rows
<1> QED BY <1>1, <1>2, <1>3, <1>4, <1>5 DEF Inv

(* A handler of a runner takes, does or reports its phase, or gives up.     *)
LEMMA RunnerInv ==
    ASSUME Inv, NEW j \in JobIds, NEW k \in Phases, NEW n \in Hosts, Runner(j, k, n)
    PROVE  Inv'
<1>1. run \in [JobIds -> [Phases -> [Hosts -> Handlers]]] /\ run[j][k][n] \in Handlers
  BY DEF Inv, TypeOK
<1>2. event \in [JobIds -> [Phases -> [Hosts -> Outcomes]]]
  BY DEF Inv, TypeOK
<1>3. CASE StartPhase(j, k, n) \/ SendReport(j, k, n)
  <2>1. PICK from \in HandlerStates \ {"idle"}, to \in HandlerStates \ {"idle"} :
          Step(j, k, n, from, to)
    BY <1>3 DEF StartPhase, SendReport, HandlerStates
  <2>2. UNCHANGED <<rows, tasks, event, up, crashes, reader>>
    BY <1>3 DEF StartPhase, SendReport
  <2>3. /\ run' \in [JobIds -> [Phases -> [Hosts -> Handlers]]]
        /\ \A i \in JobIds, l \in Phases, m \in Hosts :
             /\ run'[i][l][m].fault = run[i][l][m].fault
             /\ run'[i][l][m].at # "idle" => run[i][l][m].at # "idle"
    <3>1. /\ run' \in [JobIds -> [Phases -> [Hosts -> Handlers]]]
          /\ run[j][k][n].at = from
          /\ \A i \in JobIds, l \in Phases, m \in Hosts :
               /\ run'[i][l][m].fault = run[i][l][m].fault
               /\ run'[i][l][m].at =
                    IF i = j /\ l = k /\ m = n THEN to ELSE run[i][l][m].at
      BY <2>1, StepOfHandler DEF Inv
    <3> QED BY <3>1
  <2>4. \A i \in JobIds, l \in Phases, m \in Hosts :
             event[i][l][m] # "none" => event'[i][l][m] # "none"
    BY <2>2
  <2> QED BY <1>2, <2>2, <2>3, <2>4, HandlerStepInv
<1>4. CASE FinishPhase(j, k, n)
  <2>1. PICK r \in {"ok", "error"} :
          run' = [run EXCEPT ![j][k][n] = [@ EXCEPT !.at = "reporting", !.result = r]]
    BY <1>4 DEF FinishPhase
  <2> DEFINE h == [run[j][k][n] EXCEPT !.at = "reporting", !.result = r]
  <2>2. h \in Handlers /\ h.at = "reporting" /\ h.fault = run[j][k][n].fault
    BY <1>1 DEF Handlers, HandlerStates, Outcomes
  <2>3. run' = [run EXCEPT ![j][k][n] = h]
    BY <2>1, Zenon
  <2>4. h \in Handlers
    BY <2>2
  <2> HIDE DEF h
  <2>5. run' = [run EXCEPT ![j] = [run[j] EXCEPT ![k] = [run[j][k] EXCEPT ![n] = h]]]
    BY <2>3
  <2>6. /\ run' \in [JobIds -> [Phases -> [Hosts -> Handlers]]]
        /\ \A i \in JobIds, l \in Phases, m \in Hosts :
             run'[i][l][m] = IF i = j /\ l = k /\ m = n THEN h ELSE run[i][l][m]
    BY <1>1, <2>4, <2>5, OneHandler
  <2>7. /\ run[j][k][n].at = "working"
        /\ UNCHANGED <<rows, tasks, event, up, crashes, reader>>
    BY <1>4 DEF FinishPhase
  <2>8. \A i \in JobIds, l \in Phases, m \in Hosts :
          /\ run'[i][l][m].fault = run[i][l][m].fault
          /\ run'[i][l][m].at # "idle" => run[i][l][m].at # "idle"
          /\ event[i][l][m] # "none" => event'[i][l][m] # "none"
    BY <2>2, <2>6, <2>7
  <2> QED BY <1>2, <2>6, <2>7, <2>8, HandlerStepInv
<1>5. CASE HandlerFails(j, k, n)
  <2>1. Step(j, k, n, run[j][k][n].at, "failed") /\ run[j][k][n].at # "idle"
    BY <1>5 DEF HandlerFails, Step
  <2>2. UNCHANGED <<rows, tasks, event, up, crashes, reader>>
    BY <1>5 DEF HandlerFails
  <2>3. /\ run' \in [JobIds -> [Phases -> [Hosts -> Handlers]]]
        /\ \A i \in JobIds, l \in Phases, m \in Hosts :
             /\ run'[i][l][m].fault = run[i][l][m].fault
             /\ run'[i][l][m].at # "idle" => run[i][l][m].at # "idle"
    BY <2>1, StepOfHandler DEF Inv, HandlerStates
  <2>4. \A i \in JobIds, l \in Phases, m \in Hosts :
             event[i][l][m] # "none" => event'[i][l][m] # "none"
    BY <2>2
  <2> QED BY <1>2, <2>2, <2>3, <2>4, HandlerStepInv
<1>6. CASE StoreEvent(j, k, n)
  <2>1. /\ Step(j, k, n, "inflight", "stored")
        /\ UNCHANGED <<rows, tasks, up, crashes, reader>>
    BY <1>6 DEF StoreEvent
  <2>2. event' = [event EXCEPT ![j][k][n] =
                     IF event[j][k][n] = "none" THEN run[j][k][n].result ELSE event[j][k][n]]
    BY <1>6 DEF StoreEvent
  <2>3. run[j][k][n].result \in Outcomes
    BY <1>1 DEF Handlers
  <2>4. /\ event' \in [JobIds -> [Phases -> [Hosts -> Outcomes]]]
        /\ \A i \in JobIds, l \in Phases, m \in Hosts :
             event[i][l][m] # "none" => event'[i][l][m] # "none"
    BY <1>2, <2>2, <2>3
  <2> QED BY <2>1, <2>4, StepOfHandler, HandlerStepInv DEF Inv, HandlerStates
<1> QED BY <1>3, <1>4, <1>5, <1>6 DEF Runner

(* A crash stops the handlers' frames and loses the tasks, not the rows.    *)
LEMMA CrashInv == ASSUME Inv, Crash PROVE Inv'
<1>1. run \in [JobIds -> [Phases -> [Hosts -> Handlers]]]
  BY DEF Inv, TypeOK
<1>2. /\ crashes < MaxCrashes /\ crashes' = crashes + 1 /\ up' = FALSE
      /\ task' = [j \in JobIds |-> IF task[j] \in {"none", "ended"} THEN task[j] ELSE "lost"]
      /\ awaited' = [j \in JobIds |-> {}]
      /\ reader' = NoRead
      /\ UNCHANGED <<rows, phase, event>>
  BY DEF Crash
<1>3. run' = [j \in JobIds |-> [k \in Phases |-> [n \in Hosts |->
                 IF run[j][k][n].at = "inflight"
                   THEN [run[j][k][n] EXCEPT !.at = "failed"]
                   ELSE run[j][k][n]]]]
  BY Zenon DEF Crash
<1>4. \A h \in Handlers : /\ [h EXCEPT !.at = "failed"] \in Handlers
                          /\ [h EXCEPT !.at = "failed"].at = "failed"
                          /\ [h EXCEPT !.at = "failed"].fault = h.fault
  BY DEF Handlers, HandlerStates
<1>5. \A i \in JobIds, l \in Phases, m \in Hosts :
        /\ run[i][l][m] \in Handlers
        /\ run'[i][l][m] = IF run[i][l][m].at = "inflight"
                             THEN [run[i][l][m] EXCEPT !.at = "failed"]
                             ELSE run[i][l][m]
  <2> SUFFICES ASSUME NEW i \in JobIds, NEW l \in Phases, NEW m \in Hosts
               PROVE /\ run[i][l][m] \in Handlers
                     /\ run'[i][l][m] = IF run[i][l][m].at = "inflight"
                             THEN [run[i][l][m] EXCEPT !.at = "failed"]
                             ELSE run[i][l][m]
    OBVIOUS
  <2>1. run[i][l][m] \in Handlers
    BY <1>1
  <2> QED BY <1>3, <2>1, Zenon
<1>6. run' \in [JobIds -> [Phases -> [Hosts -> Handlers]]]
  <2> DEFINE new(i, l, m) == IF run[i][l][m].at = "inflight"
                               THEN [run[i][l][m] EXCEPT !.at = "failed"]
                               ELSE run[i][l][m]
  <2>1. \A i \in JobIds, l \in Phases, m \in Hosts : new(i, l, m) \in Handlers
    <3> SUFFICES ASSUME NEW i \in JobIds, NEW l \in Phases, NEW m \in Hosts
                 PROVE  new(i, l, m) \in Handlers
      OBVIOUS
    <3>1. run[i][l][m] \in Handlers
      BY <1>5
    <3> QED BY <1>4, <3>1
  <2>2. run' = [i \in JobIds |-> [l \in Phases |-> [m \in Hosts |-> new(i, l, m)]]]
    BY <1>3, Zenon
  <2> HIDE DEF new
  <2> QED BY <2>1, <2>2
<1>7. \A i \in JobIds, l \in Phases, m \in Hosts :
        /\ run'[i][l][m].fault = run[i][l][m].fault
        /\ run'[i][l][m].at # "idle" => run[i][l][m].at # "idle"
  <2> SUFFICES ASSUME NEW i \in JobIds, NEW l \in Phases, NEW m \in Hosts
               PROVE  /\ run'[i][l][m].fault = run[i][l][m].fault
                      /\ run'[i][l][m].at # "idle" => run[i][l][m].at # "idle"
    OBVIOUS
  <2>1. CASE run[i][l][m].at = "inflight"
    BY <1>4, <1>5, <2>1
  <2>2. CASE run[i][l][m].at # "inflight"
    BY <1>5, <2>2
  <2> QED BY <2>1, <2>2
<1>8. TypeOK'
  <2>1. task' \in [JobIds -> TaskStates] /\ awaited' \in [JobIds -> SUBSET Hosts]
    BY <1>2 DEF Inv, TypeOK, TaskStates
  <2>2. crashes' \in 0 .. MaxCrashes
    BY <1>2, MaxCrashesAssumption DEF Inv, TypeOK
  <2>3. up' \in BOOLEAN
    BY <1>2, Zenon
  <2> QED BY <1>2, <1>6, <2>1, <2>2, <2>3 DEF Inv, TypeOK, rows
<1>9. TaskInv' /\ ReaderInv'
  BY <1>2 DEF Inv, TypeOK, TaskInv, ReaderInv, rows
<1>10. HandlerInv'
  <2> SUFFICES ASSUME NEW i \in JobIds, NEW l \in Phases, NEW m \in Hosts,
                      run'[i][l][m].at # "idle"
               PROVE  /\ task'[i] # "none" /\ l <= phase[i]
                      /\ run'[i][l][m].fault <=> FaultFor(i, l, m)
    BY <1>2 DEF HandlerInv, FaultFor, rows
  <2>1. run[i][l][m].at # "idle" /\ run'[i][l][m].fault = run[i][l][m].fault
    BY <1>7
  <2>2. /\ task[i] # "none" /\ l <= phase[i]
        /\ run[i][l][m].fault <=> FaultFor(i, l, m)
    BY <2>1, Zenon DEF Inv, HandlerInv
  <2>3. task'[i] # "none"
    BY <1>2, <2>2
  <2> QED BY <2>1, <2>2, <2>3, Zenon
<1>11. PhaseInv'
  BY <1>2 DEF Inv, PhaseInv, Reporters, rows
<1> QED BY <1>8, <1>9, <1>10, <1>11 DEF Inv

(* GET /api/jobs/{id} reads the row first: what it reads then stays true.   *)
LEMMA ReaderStepInv ==
    ASSUME Inv, ReadNext \/ EndRead \/ \E j \in JobIds : BeginRead(j)
    PROVE  Inv'
<1>1. UNCHANGED <<rows, tasks, run, event, up, crashes>>
  BY DEF ReadNext, EndRead, BeginRead
<1>2. TaskInv' /\ HandlerInv' /\ PhaseInv'
  BY <1>1 DEF Inv, TaskInv, HandlerInv, PhaseInv, Reporters, FaultFor, rows, tasks
<1>3. TypeOK' /\ ReaderInv'
  <2>1. CASE EndRead
    BY <1>1, <2>1 DEF EndRead, Inv, TypeOK, ReaderInv, rows, tasks
  <2>2. CASE \E j \in JobIds : BeginRead(j)
    <3>1. PICK j \in JobIds :
            reader' = [job |-> j, done |-> 0, status |-> "none", complete |-> FALSE]
      BY <2>2 DEF BeginRead
    <3>2. reader' \in Readers
      BY <3>1 DEF Readers, Statuses
    <3>3. TypeOK'
      BY <1>1, <3>2 DEF Inv, TypeOK, rows, tasks
    <3>4. ReaderInv'
      BY <3>1 DEF ReaderInv
    <3> QED BY <3>3, <3>4
  <2>3. CASE ReadNext
    <3>1. reader \in Readers /\ reader.done \in {0, 1} /\ reader # NoRead
      BY <2>3 DEF ReadNext, Inv, TypeOK, Readers
    <3>2. status[reader.job] \in Statuses /\ reader.status \in Statuses
      BY <3>1 DEF Inv, TypeOK, Readers
    <3> DEFINE what == GetJobReads[reader.done + 1]
               read == IF what = "row" THEN status[reader.job] ELSE reader.status
               all  == IF what = "events" THEN HasAllEvents(reader.job) ELSE reader.complete
    <3>3. reader' = [reader EXCEPT !.done = reader.done + 1, !.status = read,
                                   !.complete = all]
      BY <2>3, Zenon DEF ReadNext
    <3>4. all \in BOOLEAN
      <4>1. reader.complete \in BOOLEAN /\ HasAllEvents(reader.job) \in BOOLEAN
        BY <3>1 DEF Readers, HasAllEvents
      <4> QED BY <4>1, Zenon
    <3>5. read \in Statuses /\ reader.done + 1 \in 0 .. 2
      BY <3>1, <3>2
    <3>6. what = IF reader.done = 0 THEN "row" ELSE "events"
      BY <3>1 DEF GetJobReads
    <3>7. /\ reader.done = 0 => read = status[reader.job]
          /\ reader.done = 1 => read = reader.status /\ (all <=> HasAllEvents(reader.job))
      BY <3>6
    <3> HIDE DEF what, read, all
    <3>8. /\ reader' \in Readers /\ reader'.job = reader.job
          /\ reader'.done = reader.done + 1 /\ reader'.status = read
          /\ reader'.complete <=> all
      <4>1. /\ reader' \in Readers /\ reader'.job = reader.job
            /\ reader'.done = reader.done + 1 /\ reader'.status = read
        BY <3>1, <3>3, <3>4, <3>5 DEF Readers
      <4>2. reader \in Readers
        BY <3>1
      <4>3. reader'.complete = all
        BY <3>3, <4>2, Zenon DEF Readers
      <4> QED BY <4>1, <4>3, Zenon
    <3>9. TypeOK'
      BY <1>1, <3>8 DEF Inv, TypeOK, rows, tasks
    <3>10. CASE reader.done = 0
      BY <1>1, <3>7, <3>8, <3>9, <3>10 DEF ReaderInv, rows
    <3>11. CASE reader.done = 1
      <4>3. reader.status = "completed" => HasAllEvents(reader.job)
        <5> SUFFICES ASSUME status[reader.job] = "completed",
                            NEW k \in 0 .. count[reader.job] - 1
                     PROVE  Reporters(reader.job, k) = Hosts
          BY <3>1 DEF HasAllEvents, Inv, ReaderInv
        <5>1. count[reader.job] \in 0 .. MaxPhases /\ reader.job \in JobIds
          BY <3>1 DEF Inv, TypeOK, Readers
        <5>2. k \in Phases /\ k < count[reader.job]
          BY <5>1, MaxPhasesAssumption DEF Phases
        <5> QED BY <5>1, <5>2 DEF Inv, PhaseInv
      <4>4. reader'.status = "completed" => reader'.complete
        BY <3>7, <3>8, <3>11, <4>3
      <4>5. reader'.status = "completed" => status'[reader'.job] = "completed"
        BY <1>1, <3>1, <3>7, <3>8, <3>11 DEF Inv, ReaderInv, rows
      <4> QED BY <3>8, <3>9, <3>11, <4>4, <4>5 DEF ReaderInv
    <3> QED BY <3>1, <3>10, <3>11
  <2> QED BY <2>1, <2>2, <2>3
<1> QED BY <1>2, <1>3 DEF Inv

(* The service dies and starts again, without its tasks.                    *)
LEMMA RestartInv == ASSUME Inv, Restart PROVE Inv'
BY DEF Restart, Inv, TypeOK, TaskInv, HandlerInv, PhaseInv, ReaderInv, Reporters, FaultFor,
       rows, tasks

-----------------------------------------------------------------------------
(* Every step of the service, the runners and the reader keeps Inv.         *)
LEMMA StepInv == Inv /\ [Next]_vars => Inv'
<1> SUFFICES ASSUME Inv, [Next]_vars PROVE Inv'
  OBVIOUS
<1>1. ASSUME NEW j \in JobIds, StartJob(j) PROVE Inv'
  BY <1>1, StartJobInv
<1>2. ASSUME NEW j \in JobIds, Orchestrator(j) PROVE Inv'
  BY <1>2, DispatchInv, WaitForAnswersInv, PollSucceedsInv, DeadlinePassesInv
     DEF Orchestrator
<1>3. ASSUME NEW j \in JobIds, TaskFails(j) PROVE Inv'
  BY <1>3, TaskFailsInv
<1>4. ASSUME NEW j \in JobIds, NEW k \in Phases, NEW n \in Hosts, Runner(j, k, n) PROVE Inv'
  BY <1>4, RunnerInv
<1>5. ASSUME ReadNext \/ EndRead \/ \E j \in JobIds : BeginRead(j) PROVE Inv'
  BY <1>5, ReaderStepInv
<1>6. CASE Crash
  BY <1>6, CrashInv
<1>7. CASE Restart
  BY <1>7, RestartInv
<1>8. CASE UNCHANGED vars
  BY <1>8 DEF vars, Inv, TypeOK, TaskInv, HandlerInv, PhaseInv, ReaderInv, Reporters,
     FaultFor, rows, tasks
<1> QED BY <1>1, <1>2, <1>3, <1>4, <1>5, <1>6, <1>7, <1>8 DEF Next

(* The orchestration keeps Inv, for every number of hosts, phases and jobs. *)
THEOREM Invariance == Spec => []Inv
BY InitInv, StepInv, PTL DEF Spec

-----------------------------------------------------------------------------
(* Type correctness of the jobs, the tasks, the handlers and the reader.    *)
THEOREM TypeCorrect == Spec => []TypeOK
<1>1. Inv => TypeOK
  BY DEF Inv
<1> QED BY <1>1, Invariance, PTL

(* No host starts a phase before all hosts have reported the phase before,  *)
(* for every number of hosts, phases and jobs: the barrier of execute_job   *)
(* holds although _wait_for_phase_reports only counts rows.  The fault is   *)
(* injected exactly where the manifest says.                                *)
THEOREM BarrierIsKept == Spec => []BarrierHolds
<1>1. ASSUME Inv PROVE BarrierHolds
  <2> SUFFICES ASSUME NEW j \in JobIds, NEW k \in Phases, NEW n \in Hosts,
                      run[j][k][n].at # "idle"
               PROVE  /\ k > 0 => Reporters(j, k - 1) = Hosts
                      /\ run[j][k][n].fault <=> manifest[j] = [host |-> n, phase |-> k]
    BY DEF BarrierHolds
  <2>1. k <= phase[j] /\ (run[j][k][n].fault <=> FaultFor(j, k, n))
    BY <1>1, Zenon DEF Inv, HandlerInv
  <2>2. k > 0 => Reporters(j, k - 1) = Hosts
    BY <1>1, <2>1, MaxPhasesAssumption DEF Inv, TypeOK, PhaseInv, Phases
  <2> QED BY <2>1, <2>2, Zenon DEF FaultFor
<1> QED BY <1>1, Invariance, PTL

(* get_job reads the row before the events, so "completed" comes with all   *)
(* of them, whatever the ingest server and the task do between the reads.   *)
THEOREM CompletedAnswersAreComplete == Spec => []CompletedAnswerIsComplete
<1>1. Inv => CompletedAnswerIsComplete
  BY DEF Inv, ReaderInv, CompletedAnswerIsComplete
<1> QED BY <1>1, Invariance, PTL

-----------------------------------------------------------------------------
(* What PhaseBarrier calls reported below, in terms of the rows.            *)
LEMMA BelowIsReporters ==
    ASSUME NEW j \in JobIds, NEW k \in 0 .. MaxPhases
    PROVE  Barrier!ReportedBelow(j, k) <=>
               \A l \in Phases : l < k => Reporters(j, l) = Hosts
<1> USE MaxPhasesAssumption
<1>1. Barrier!ReportedBelow(j, k) <=>
        \A l \in 0 .. k - 1, n \in Hosts : <<j, l, n>> \in Reported
  BY DEF Barrier!ReportedBelow
<1>2. \A l \in 0 .. k - 1, n \in Hosts :
        <<j, l, n>> \in Reported <=> event[j][l][n] # "none"
  BY DEF Reported, Phases
<1>3. \A l : l \in 0 .. k - 1 <=> (l \in Phases /\ l < k)
  BY DEF Phases
<1> QED BY <1>1, <1>2, <1>3 DEF Reporters

(* The steps that write the rows or the events are steps of the barrier:    *)
(* POST /api/jobs, the INSERT of a report, and the two ways a job ends.     *)
LEMMA StartIsCreate ==
    ASSUME Inv, NEW j \in JobIds, StartJob(j) PROVE Barrier!Create(j)
<1>1. UNCHANGED Reported
  BY DEF StartJob, Reported
<1> QED BY <1>1 DEF StartJob, Barrier!Create

(* A stored PhaseEvent is a report of the abstract barrier.                 *)
LEMMA StoreIsReport ==
    ASSUME Inv, NEW j \in JobIds, NEW k \in Phases, NEW n \in Hosts, StoreEvent(j, k, n)
    PROVE  Barrier!Report(j) \/ UNCHANGED Barrier!vars
<1>1. /\ event \in [JobIds -> [Phases -> [Hosts -> Outcomes]]]
      /\ event' = [event EXCEPT ![j][k][n] =
                     IF event[j][k][n] = "none" THEN run[j][k][n].result ELSE event[j][k][n]]
      /\ UNCHANGED <<count, status>>
      /\ run[j][k][n].at = "inflight"
      /\ run[j][k][n].result \in Outcomes
  BY DEF Inv, TypeOK, StoreEvent, Step, Handlers, rows
<1>2. \A i \in JobIds, l \in Phases, m \in Hosts :
        event'[i][l][m] = IF i = j /\ l = k /\ m = n /\ event[j][k][n] = "none"
                            THEN run[j][k][n].result ELSE event[i][l][m]
  BY <1>1
<1>3. CASE event[j][k][n] = "none" /\ run[j][k][n].result # "none"
  <2>1. <<j, k, n>> \notin Reported /\ Reported' = Reported \cup {<<j, k, n>>}
    BY <1>2, <1>3 DEF Reported
  <2>2. k <= phase[j] /\ phase[j] < count[j] /\ count[j] \in 0 .. MaxPhases
    BY <1>1 DEF Inv, TypeOK, TaskInv, HandlerInv
  <2>3. k \in 0 .. count[j] - 1 /\ k \in 0 .. MaxPhases
    BY <2>2, MaxPhasesAssumption DEF Inv, TypeOK, Phases
  <2>4. Barrier!ReportedBelow(j, k)
    BY <2>2, <2>3, BelowIsReporters, MaxPhasesAssumption DEF Inv, TypeOK, PhaseInv, Phases
  <2> QED BY <1>1, <2>1, <2>3, <2>4 DEF Barrier!Report
<1>4. CASE ~(event[j][k][n] = "none" /\ run[j][k][n].result # "none")
  <2>1. Reported' = Reported
    BY <1>2, <1>4 DEF Reported
  <2> QED BY <1>1, <2>1 DEF Barrier!vars
<1> QED BY <1>3, <1>4

(* A task that goes on after its last phase completes the abstract job.     *)
LEMMA AdvanceIsComplete ==
    ASSUME Inv, NEW j \in JobIds, task[j] = "wait", AllReported(j, phase[j]), Advance(j),
           UNCHANGED <<count, event>>
    PROVE  Barrier!Complete(j) \/ UNCHANGED Barrier!vars
<1>1. UNCHANGED Reported
  BY DEF Reported
<1>2. CASE phase[j] + 1 < count[j]
  BY <1>1, <1>2 DEF Advance, Barrier!vars
<1>3. CASE ~(phase[j] + 1 < count[j])
  <2>1. status[j] = "running" /\ phase[j] < count[j] /\ count[j] \in 0 .. MaxPhases
    BY DEF Inv, TypeOK, TaskInv
  <2>2. Reporters(j, phase[j]) = Hosts
    BY CountIsComplete
  <2>3. Barrier!ReportedBelow(j, count[j])
    BY <1>3, <2>1, <2>2, BelowIsReporters DEF Inv, TypeOK, PhaseInv, Phases
  <2> QED BY <1>1, <1>3, <2>1, <2>3 DEF Advance, Barrier!Complete
<1> QED BY <1>2, <1>3

(* A task that times out gives the abstract job up.                         *)
LEMMA DeadlineIsGiveUp ==
    ASSUME Inv, NEW j \in JobIds, DeadlinePasses(j), ~AllReported(j, phase[j])
    PROVE  Barrier!GiveUp(j)
<1>1. /\ task[j] = "wait" /\ status' = [status EXCEPT ![j] = "timed_out"]
      /\ UNCHANGED <<count, event>>
  BY DEF DeadlinePasses
<1>2. /\ status[j] = "running" /\ phase[j] < count[j] /\ count[j] \in 0 .. MaxPhases
      /\ phase[j] \in Phases
  BY <1>1, MaxPhasesAssumption DEF Inv, TypeOK, TaskInv, Phases
<1>3. ~Barrier!ReportedBelow(j, count[j])
  BY <1>2, CountIsComplete, BelowIsReporters
<1>4. UNCHANGED Reported
  BY <1>1 DEF Reported
<1> QED BY <1>1, <1>2, <1>3, <1>4 DEF Barrier!GiveUp

(* The rows of jobs and phase_events implement the phase barrier: whatever  *)
(* order reports, timeouts, crashes and failures come in, a job is called   *)
(* completed only with all its events, and no event comes before its time.  *)
THEOREM ImplementsPhaseBarrier == Spec => ImplementsBarrier
<1>1. Init => Barrier!Init
  BY DEF Init, Barrier!Init, Reported
<1>2. ASSUME Inv, [Next]_vars PROVE [Barrier!Next]_Barrier!vars
  <2>1. ASSUME NEW j \in JobIds, StartJob(j) PROVE Barrier!Next
    BY <1>2, <2>1, StartIsCreate DEF Barrier!Next
  <2>2. ASSUME NEW j \in JobIds, PollSucceeds(j) \/ DeadlinePasses(j)
        PROVE  [Barrier!Next]_Barrier!vars
    <3>1. CASE AllReported(j, phase[j])
      BY <1>2, <2>2, <3>1, AdvanceIsComplete DEF PollSucceeds, DeadlinePasses, Barrier!Next
    <3>2. CASE ~AllReported(j, phase[j])
      BY <1>2, <2>2, <3>2, DeadlineIsGiveUp DEF PollSucceeds, Barrier!Next
    <3> QED BY <3>1, <3>2
  <2>3. ASSUME NEW j \in JobIds, NEW k \in Phases, NEW n \in Hosts, StoreEvent(j, k, n)
        PROVE  [Barrier!Next]_Barrier!vars
    BY <1>2, <2>3, StoreIsReport DEF Barrier!Next
  <2>4. ASSUME UNCHANGED <<count, status, event>> PROVE UNCHANGED Barrier!vars
    BY <2>4 DEF Barrier!vars, Reported
  <2>5. ASSUME NEW j \in JobIds,
               \/ Dispatch(j) \/ GatherDone(j) \/ BeginRead(j) \/ TaskFails(j)
               \/ \E n \in Hosts : DispatchEnds(j, n)
        PROVE  UNCHANGED <<count, status, event>>
    BY <2>5 DEF Dispatch, GatherDone, BeginRead, TaskFails, DispatchEnds, rows
  <2>6. ASSUME NEW j \in JobIds, NEW k \in Phases, NEW n \in Hosts,
               \/ StartPhase(j, k, n) \/ FinishPhase(j, k, n)
               \/ SendReport(j, k, n) \/ HandlerFails(j, k, n)
        PROVE  UNCHANGED <<count, status, event>>
    BY <2>6 DEF StartPhase, FinishPhase, SendReport, HandlerFails, rows
  <2>7. ASSUME ReadNext \/ EndRead \/ Crash \/ Restart \/ UNCHANGED vars
        PROVE  UNCHANGED <<count, status, event>>
    BY <2>7 DEF ReadNext, EndRead, Crash, Restart, vars, rows
  <2> QED BY <1>2, <2>1, <2>2, <2>3, <2>4, <2>5, <2>6, <2>7
          DEF Next, Orchestrator, Runner
<1> QED BY <1>1, <1>2, Invariance, PTL DEF Spec, ImplementsBarrier, Barrier!Spec
=============================================================================
