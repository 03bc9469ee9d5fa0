----------------------------- MODULE EvalHarness -----------------------------
(***************************************************************************)
(* The evaluation harness (eval/run_trials.py) above the service's jobs    *)
(* and the fault injectors of the runners (workloadrunner/faults.py).      *)
(*                                                                         *)
(* The harness runs the trials of the manifest one after the other, each   *)
(* as a job of one phase, and keeps one result file per trial; run again,  *)
(* it goes on with the trials that have no file.  A job it has given up on *)
(* goes on by itself.  Jobs are abstracted to what Jobs.tla shows of them: *)
(* a job of one phase is completed once every host has reported.           *)
(*                                                                         *)
(* Clocks are abstracted: a timeout may fire whenever it is running.  So   *)
(* are crashes of the service: any of its answers may fail to come.        *)
(***************************************************************************)
EXTENDS Integers, FiniteSets, Sequences

CONSTANTS
    Hosts,              \* WORKLOAD_HOSTS
    Fault, Target,      \* the manifest, by trial number: type and host
    DetectionBound,     \* DETECTION_LOWER_BOUND_THRESHOLD as <<a, b>>: a/b
    FalseFlagBound,     \* FP_UPPER_BOUND_THRESHOLD
    NoFaultBound,       \* NO_FAULT_FP_UPPER_BOUND_THRESHOLD
    MaxInterruptions    \* bound: kills and uncaught errors of the harness

Trials == DOMAIN Fault
FaultTypes == {"cpu_contention", "io_stall", "none"}

ASSUME ManifestAssumption ==
    /\ Fault \in Seq(FaultTypes)
    /\ \A kind \in BOOLEAN : \E t \in Trials : (Fault[t] = "none") = kind
    /\ Target \in [Trials -> Hosts]
ASSUME BoundsAssumption == MaxInterruptions \in Nat

VARIABLES
    pc,             \* where run_trials.py is, or how it ended
    result,         \* what _run_trial returned, until it is written
    file,           \* eval/results/<trial_id>.json
    summary,        \* eval/results/summary.json: the three decisions
    jobs,           \* the jobs started so far, in order
    shared,         \* history: jobs whose phase shared a host with another's
    interruptions

harness == <<pc, result, file, summary>>
vars == <<harness, jobs, shared, interruptions>>

(* "unreadable", "zero_division": an exception in _summarize ended the run. *)
Ended  == {"down", "unreadable", "zero_division"}
Places == Ended \cup {"next", "poll", "report", "write", "writing", "summarize"}

NoFile == [outcome |-> "none"]
Torn == [outcome |-> "torn"]
Aborted(t) == [outcome |-> "ABORTED", trial |-> t]
Results == {Aborted(t) : t \in Trials} \cup
    [outcome : {"COMPLETED"}, trial : Trials, job : Nat, detected : BOOLEAN, falseFlag : BOOLEAN]

(* at: start_phase on each host, with its fault on the target; lingering:   *)
(* threads of the fault have outlived it.                                   *)
Jobs == [trial : Trials, at : [Hosts -> {"requested", "working", "reported", "failed"}],
         lingering : BOOLEAN]

Init ==
    /\ pc = "down" /\ result = NoFile
    /\ file = [t \in Trials |-> NoFile] /\ summary = <<>>
    /\ jobs = <<>> /\ shared = {} /\ interruptions = 0

-----------------------------------------------------------------------------
(* The decision contract: wilson_interval and _decide.                      *)

(* The Wilson interval is the score test inverted: its lower bound is at    *)
(* least p = a/b exactly if the observed rate is, by z standard errors of   *)
(* p; likewise its upper bound.  z^2 = 3.8415.                              *)
FarFrom(s, n, p) ==
    10000 * (s * p[2] - n * p[1])^2 >= 38415 * n * p[1] * (p[2] - p[1])
LowerAtLeast(s, n, p) == n > 0 /\ s * p[2] >= n * p[1] /\ FarFrom(s, n, p)
UpperAtMost(s, n, p)  == n > 0 /\ s * p[2] <= n * p[1] /\ FarFrom(s, n, p)

(* A faulty variant of Decide: one trial too few is enough.                 *)
DecideEarly(n, predeclared, meetsBound) ==
    IF n + 1 < predeclared THEN "INSUFFICIENT_EVIDENCE"
    ELSE IF meetsBound THEN "PASS" ELSE "FAIL"

Decide(n, predeclared, meetsBound) ==
    IF n < predeclared THEN "INSUFFICIENT_EVIDENCE"
    ELSE IF meetsBound THEN "PASS" ELSE "FAIL"

FaultTrials == {t \in Trials : Fault[t] # "none"}
CompletedOf(T) == {t \in T : file[t].outcome = "COMPLETED"}
Detected == {t \in CompletedOf(FaultTrials) : file[t].detected}
FalseFlags(T) == {t \in CompletedOf(T) : file[t].falseFlag}

(* Estimands 1 to 3, each on the completed trials of T.                     *)
Estimand(T, meetsBound) ==
    Decide(Cardinality(CompletedOf(T)), Cardinality(T), meetsBound)

Summary ==
    LET NoFaultTrials == Trials \ FaultTrials
        AtLeast(T, p) ==
            LowerAtLeast(Cardinality(Detected), Cardinality(CompletedOf(T)), p)
        AtMost(T, p) ==
            UpperAtMost(Cardinality(FalseFlags(T)), Cardinality(CompletedOf(T)), p)
    IN  << Estimand(FaultTrials, AtLeast(FaultTrials, DetectionBound)),
           Estimand(FaultTrials, AtMost(FaultTrials, FalseFlagBound)),
           Estimand(NoFaultTrials, AtMost(NoFaultTrials, NoFaultBound)) >>

-----------------------------------------------------------------------------
(* run_trials.py.                                                           *)

Goto(from, to) == pc \in from /\ pc' = to

(* Faulty variants of the definitions below; no specification uses them.    *)
NotCompleted == {t \in Trials : file[t].outcome # "COMPLETED"}
OnePerJob == Len(jobs) + 1
ReportAtDeadline == Goto({"poll"}, "report") /\ UNCHANGED <<result, file, summary, jobs, shared, interruptions>>
PollForever == Goto({"poll"}, "poll") /\ UNCHANGED <<result, file, summary, jobs, shared, interruptions>>

Missing == {t \in Trials : file[t] = NoFile}
Current == jobs[Len(jobs)]      \* the harness polls the job it started last

(* main(), once the rack answers /healthz.                                  *)
Run ==
    /\ Goto(Ended, "next")
    /\ UNCHANGED <<result, file, summary, jobs, shared, interruptions>>

(* main() --replay, or the end of _run_missing_trials.                      *)
Replay ==
    /\ \/ Goto(Ended, "summarize")
       \/ Goto({"next"}, "summarize") /\ Missing = {}
    /\ UNCHANGED <<result, file, summary, jobs, shared, interruptions>>

(* The first trial without a file.                                          *)
NextTrial == CHOOSE t \in Missing : \A u \in Missing : t <= u

NewJob == [trial |-> NextTrial, at |-> [h \in Hosts |-> "requested"], lingering |-> FALSE]

(* POST /api/jobs, answered.                                                *)
StartTrial ==
    /\ Goto({"next"}, "poll") /\ Missing # {}
    /\ jobs' = Append(jobs, NewJob)
    /\ UNCHANGED <<result, file, summary, shared, interruptions>>

(* It fails, or is not answered within 15 s: the trial is ABORTED, and the  *)
(* job may have been started all the same.                                  *)
StartFails ==
    /\ Goto({"next"}, "write") /\ Missing # {}
    /\ result' = Aborted(NextTrial)
    /\ jobs' \in {jobs, Append(jobs, NewJob)}
    /\ UNCHANGED <<file, summary, shared, interruptions>>

(* _wait_for_job: the job is completed.                                     *)
WhollyReported(job) == \A h \in Hosts : job.at[h] = "reported"
PollCompleted ==
    /\ Goto({"poll"}, "report") /\ WhollyReported(Current)
    /\ UNCHANGED <<result, file, summary, jobs, shared, interruptions>>

(* Or it has timed out, or 30 s pass without an answer to that.             *)
PollTimedOut ==
    /\ Goto({"poll"}, "write")
    /\ result' = Aborted(Current.trial)
    /\ UNCHANGED <<file, summary, jobs, shared, interruptions>>

(* What the ranking of the phase says is left open.                         *)
GetReport ==
    /\ Goto({"report"}, "write")
    /\ \E d, f \in BOOLEAN :
          /\ d => Fault[Current.trial] # "none"
          /\ result' = [outcome |-> "COMPLETED", trial |-> Current.trial,
                        job |-> Len(jobs), detected |-> d, falseFlag |-> f]
    /\ UNCHANGED <<file, summary, jobs, shared, interruptions>>

(* result_path.write_text: the file is emptied, then written.               *)
WriteBegins ==
    /\ Goto({"write"}, "writing")
    /\ file' = [file EXCEPT ![result.trial] = Torn]
    /\ UNCHANGED <<result, summary, jobs, shared, interruptions>>

WriteEnds ==
    /\ Goto({"writing"}, "next")
    /\ file' = [file EXCEPT ![result.trial] = result]
    /\ result' = NoFile
    /\ UNCHANGED <<summary, jobs, shared, interruptions>>

(* _summarize: json.loads raises on a torn file; and _decide for estimand 4 *)
(* divides by the number of detections, which may be zero.  summary.json is *)
(* written at once: nothing reads it.                                       *)
Summarize ==
    /\ IF Torn \in {file[t] : t \in Trials}
         THEN Goto({"summarize"}, "unreadable") /\ UNCHANGED summary
       ELSE IF Detected = {}
         THEN Goto({"summarize"}, "zero_division") /\ UNCHANGED summary
       ELSE Goto({"summarize"}, "down") /\ summary' = Summary
    /\ UNCHANGED <<result, file, jobs, shared, interruptions>>

(* The harness is killed, or a GET of the job or its report raises.         *)
Interrupt ==
    /\ interruptions < MaxInterruptions
    /\ Goto(Places \ Ended, "down")
    /\ result' = NoFile
    /\ interruptions' = interruptions + 1
    /\ UNCHANGED <<file, summary, jobs, shared>>

-----------------------------------------------------------------------------
(* The service and the runners, for any job ever started.                   *)

HasFault(j, h) == Fault[jobs[j].trial] # "none" /\ Target[jobs[j].trial] = h
Busy(j, h) == jobs[j].at[h] = "working" \/ (jobs[j].lingering /\ HasFault(j, h))

(* The POST arrives, if it ever does.                                       *)
StartPhase(j, h) ==
    /\ jobs[j].at[h] = "requested"
    /\ jobs' = [jobs EXCEPT ![j].at[h] = "working"]
    /\ LET others == {i \in DOMAIN jobs : i # j /\ Busy(i, h)}
       IN  shared' = IF others = {} THEN shared ELSE shared \cup others \cup {j}
    /\ UNCHANGED <<harness, interruptions>>

(* A faulty variant of MayLinger: no terminate() after the join.            *)
AnyMayLinger(j, h) == HasFault(j, h)

(* The finally clauses of the injectors: processes still alive after the    *)
(* join are terminated, threads are left to themselves.                     *)
MayLinger(j, h) == HasFault(j, h) /\ Fault[jobs[j].trial] = "io_stall"

(* The sieve ends, the injector is stopped, then the phase is reported, or  *)
(* the report is lost, or the runner has died.                              *)
EndPhase(j, h) ==
    /\ jobs[j].at[h] = "working"
    /\ \E to \in {"reported", "failed"}, l \in {jobs[j].lingering, MayLinger(j, h)} :
          jobs' = [jobs EXCEPT ![j].at[h] = to, ![j].lingering = l]
    /\ UNCHANGED <<harness, shared, interruptions>>

(* A thread of _io_stall_loop sees the stop event at last.                  *)
LingeringEnds(j) ==
    /\ jobs[j].lingering
    /\ jobs' = [jobs EXCEPT ![j].lingering = FALSE]
    /\ UNCHANGED <<harness, shared, interruptions>>

-----------------------------------------------------------------------------
Harness ==
    \/ Run \/ StartTrial \/ StartFails \/ PollCompleted \/ PollTimedOut
    \/ GetReport \/ WriteBegins \/ WriteEnds \/ Replay \/ Summarize

Rack ==
    \E j \in DOMAIN jobs :
        \/ LingeringEnds(j)
        \/ \E h \in Hosts : StartPhase(j, h) \/ EndPhase(j, h)

Next == Harness \/ Interrupt \/ Rack

Spec == Init /\ [][Next]_vars

(* The harness goes on while it runs, and the operator runs it again.       *)
(* Nothing is assumed of the service and the runners.                       *)
FairSpec == Spec /\ WF_vars(Harness /\ pc \notin Ended) /\ SF_vars(Run)

-----------------------------------------------------------------------------
(* Properties.                                                              *)

TypeOK ==
    /\ pc \in Places /\ result \in Results \cup {NoFile}
    /\ file \in [Trials -> Results \cup {NoFile, Torn}]
    /\ summary \in {<<>>} \cup [1 .. 3 -> {"INSUFFICIENT_EVIDENCE", "PASS", "FAIL"}]
    /\ jobs \in Seq(Jobs) /\ shared \subseteq DOMAIN jobs
    /\ interruptions \in 0 .. MaxInterruptions

(* A COMPLETED result ranks a phase of that very trial that every host has  *)
(* reported, whatever jobs the harness has left behind.                     *)
EvidenceIsWhole ==
    \A t \in CompletedOf(Trials) :
        WhollyReported(jobs[file[t].job]) /\ jobs[file[t].job].trial = t

(* The fault of one trial shows in the durations of another only after an   *)
(* abort, an interruption, or an io_stall whose threads outlived their      *)
(* joins: a batch without these has clean evidence.                         *)
SharingHasACause ==
    \A t \in CompletedOf(Trials) :
        file[t].job \in shared =>
            \/ interruptions > 0
            \/ \E u \in Trials : u < t /\ (file[u] = Aborted(u) \/ Fault[u] = "io_stall")
            \/ \E u \in Trials : u > t /\ Fault[t] = "io_stall"

(* What "can be resumed" is worth: every interruption costs at most one     *)
(* job, either repeated or lost in a torn file; no trial is run again       *)
(* otherwise.                                                               *)
InterruptionCostsOneJob ==
    LET kept == {t \in Trials : file[t] \notin {NoFile, Torn}}
        underWay == IF pc \in {"poll", "report", "write", "writing"} THEN 1 ELSE 0
    IN  Len(jobs) <= Cardinality(kept) + underWay + interruptions

(* A PASS or FAIL, once reported, is the verdict of every later run or      *)
(* replay: only complete batches are decided, and their files stay.         *)
VerdictIsFinal ==
    [][\A i \in DOMAIN summary :
          summary[i] # "INSUFFICIENT_EVIDENCE" => summary'[i] = summary[i]]_vars

(* Run again as often as needed, the harness leaves no trial without a      *)
(* file, although a crash leaves jobs "running" for ever.                   *)
EveryTrialIsFiled == \A t \in Trials : <>(file[t] # NoFile)
=============================================================================
