-------------------------- MODULE EvalHarnessProofs --------------------------
(***************************************************************************)
(* Proofs about EvalHarness for any manifest, hosts and thresholds, and    *)
(* any number of interruptions: what the result files and the decisions    *)
(* are worth when trials are aborted, interrupted and run again.           *)
(*                                                                         *)
(* The properties look at the files.  The inductive invariant Inv says how *)
(* a file comes about: which trial the harness is at, that its result is   *)
(* about the job it started last, that files are written in the order of   *)
(* the manifest; and, as long as nothing has been interrupted, that jobs   *)
(* come in that order too and all but the last are answered for.           *)
(***************************************************************************)
EXTENDS EvalHarness, SequenceTheorems, FiniteSetTheorems, WellFoundedInduction, TLAPS

Before(t) == \A u \in Missing : t <= u

(* The job j is of trial t, and every host has reported it.                 *)
Answers(j, t) == j \in DOMAIN jobs /\ jobs[j].trial = t /\ WhollyReported(jobs[j])

(* The harness is at the first trial without a file, in the job it started  *)
(* last; its result is about that trial.                                    *)
ProgressInv ==
    /\ pc \notin {"write", "writing"} => result = NoFile
    /\ pc \in {"poll", "report"} =>
          /\ Len(jobs) \in DOMAIN jobs /\ Current.trial \in Missing /\ Before(Current.trial)
    /\ pc = "report" => WhollyReported(Current)
    /\ pc \in {"write", "writing"} =>
          /\ result \in Results /\ Before(result.trial)
          /\ file[result.trial] = IF pc = "write" THEN NoFile ELSE Torn
          /\ result.outcome = "COMPLETED" =>
                result.job = Len(jobs) /\ Answers(result.job, result.trial)

(* Files are written in order, each about its own trial.                    *)
FileInv ==
    /\ \A t \in Trials : \A u \in Trials :
          t < u /\ file[u] # NoFile => file[t] # NoFile
    /\ \A t \in Trials : file[t].outcome = "COMPLETED" =>
          file[t].trial = t /\ Answers(file[t].job, t)
    /\ \A t \in Trials : file[t].outcome = "ABORTED" => file[t] = Aborted(t)

(* InterruptionCostsOneJob holds as it stands.                              *)
Kept == {t \in Trials : file[t] \notin {NoFile, Torn}}
UnderWay == IF pc \in {"poll", "report", "write", "writing"} THEN 1 ELSE 0
CountInv == Len(jobs) <= Cardinality(Kept) + UnderWay + interruptions

(* The trials an estimand of the summary is about.                          *)
TrialsOf(i) == IF i = 3 THEN Trials \ FaultTrials ELSE FaultTrials

(* What has been decided was decided on all trials, and would be again.     *)
SummaryInv ==
    \A i \in DOMAIN summary : summary[i] # "INSUFFICIENT_EVIDENCE" =>
        CompletedOf(TrialsOf(i)) = TrialsOf(i) /\ summary[i] = Summary[i]

(* Without an interruption, a job is answered for by the file of its trial, *)
(* or it is the last one and the harness still at its trial.                *)
Over(i) ==
    LET f == file[jobs[i].trial]
    IN  f = Aborted(jobs[i].trial) \/ (f.outcome = "COMPLETED" /\ f.job = i)

Working(i) ==
    /\ i = Len(jobs)
    /\ \/ pc \in {"poll", "report"}
       \/ pc \in {"write", "writing"} /\ jobs[i].trial = result.trial

OrderInv == interruptions = 0 =>
    /\ \A i \in DOMAIN jobs : Over(i) \/ Working(i)
    /\ \A i \in DOMAIN jobs : \A j \in DOMAIN jobs : i < j => jobs[i].trial < jobs[j].trial

(* Only threads of an io_stall linger.                                      *)
LingerInv == \A j \in DOMAIN jobs : jobs[j].lingering => Fault[jobs[j].trial] = "io_stall"

(* A job shares a host with one that the harness has given up on or that    *)
(* lingers: with an earlier one, or it is itself the earlier one.           *)
Disturbs(i) == file[jobs[i].trial] = Aborted(jobs[i].trial) \/ Fault[jobs[i].trial] = "io_stall"

HasCause(j) ==
    \/ \E i \in DOMAIN jobs : i < j /\ Disturbs(i)
    \/ file[jobs[j].trial] = Aborted(jobs[j].trial)
    \/ Fault[jobs[j].trial] = "io_stall" /\ \E i \in DOMAIN jobs : j < i

SharedInv == interruptions = 0 => \A j \in shared : HasCause(j)

Inv ==
    /\ TypeOK /\ ProgressInv /\ FileInv /\ CountInv /\ SummaryInv
    /\ OrderInv /\ LingerInv /\ SharedInv

-----------------------------------------------------------------------------
(* A finite set of integers has a smallest element.                         *)
LEMMA MinExists ==
    ASSUME NEW S \in SUBSET Int, IsFiniteSet(S), S # {}
    PROVE  \E x \in S : \A y \in S : x <= y
<1> DEFINE below(x) == {y \in S : y < x}
           T == {below(x) : x \in S}
           R == StrictSubsetOrdering(S)
<1>1. T # {} /\ T \subseteq SUBSET S
  OBVIOUS
<1>2. IsWellFoundedOn(R, SUBSET S)
  BY FS_StrictSubsetOrderingWellFounded, FS_FiniteSubsetsOfFinite
<1>3. \E b \in T : \A c \in T : ~(<<c, b>> \in R)
  <2> HIDE DEF T, R
  <2> QED BY <1>1, <1>2, WFMin
<1>4. PICK x \in S : \A y \in S : ~(<<below(y), below(x)>> \in R)
  BY <1>3
<1>5. ASSUME NEW y \in S, y < x PROVE FALSE
  <2>1. x \in Int /\ y \in Int /\ \A z \in S : z \in Int
    OBVIOUS
  <2>2. ~(y < y) /\ \A z \in S : z < y => z < x
    BY <1>5, <2>1
  <2>3. below(y) \subseteq below(x) /\ y \in below(x) /\ y \notin below(y)
    BY <1>5, <2>2
  <2>4. <<below(y), below(x)>> \in R
    BY <2>3 DEF StrictSubsetOrdering
  <2> QED BY <1>4, <2>4
<1> QED BY <1>5

(* The manifest numbers its trials.                                         *)
LEMMA TrialsAre ==
    Trials = 1 .. Len(Fault) /\ Trials \in SUBSET Int /\ IsFiniteSet(Trials)
<1>1. Trials = 1 .. Len(Fault) /\ Len(Fault) \in Nat
  BY ManifestAssumption, LenProperties DEF Trials
<1> QED BY <1>1, FS_Interval

(* _run_missing_trials takes a trial without a file, the earlier ones       *)
(* first.                                                                   *)
LEMMA NextTrialIs ==
    ASSUME Missing # {}
    PROVE  NextTrial \in Missing /\ Before(NextTrial) /\ NextTrial \in Trials
<1>1. Missing \in SUBSET Int /\ IsFiniteSet(Missing) /\ Missing \subseteq Trials
  BY TrialsAre, FS_Subset DEF Missing
<1>2. \E t \in Missing : \A u \in Missing : t <= u
  BY <1>1, MinExists
<1> QED BY <1>1, <1>2 DEF NextTrial, Before

(* The kinds of results are told apart.                                     *)
LEMMA ResultKinds ==
    ASSUME NEW r \in Results
    PROVE  /\ r # NoFile /\ r # Torn /\ r.trial \in Trials
           /\ r.outcome = "ABORTED" => r = Aborted(r.trial)
           /\ r.outcome \in {"ABORTED", "COMPLETED"}
BY DEF Results, NoFile, Torn, Aborted

(* An ABORTED result is one of its trial, without evidence.                 *)
LEMMA AbortedIs ==
    ASSUME NEW t \in Trials
    PROVE  /\ Aborted(t) \in Results /\ Aborted(t).outcome = "ABORTED"
           /\ Aborted(t).trial = t
BY DEF Results, Aborted

-----------------------------------------------------------------------------
(* Steps that change neither files nor jobs: the harness goes on.           *)
LEMMA QuietStep ==
    ASSUME Inv, UNCHANGED <<file, summary, jobs, shared, interruptions>>,
           pc' \in Places, ProgressInv', UnderWay' >= UnderWay,
           result' \in Results \cup {NoFile},
           interruptions = 0 => \A i \in DOMAIN jobs : Working(i) => Working(i)'
    PROVE  Inv'
<1>1. TypeOK'
  BY DEF Inv, TypeOK
<1>2. FileInv'
  BY DEF Inv, FileInv, Answers, Aborted, WhollyReported
<1>3. CountInv'
  <2>1. Kept' = Kept /\ UnderWay \in {0, 1} /\ UnderWay' \in {0, 1}
    BY DEF Kept, UnderWay, NoFile, Torn
  <2>2. Len(jobs) \in Nat /\ interruptions \in Nat /\ Cardinality(Kept) \in Nat
    <3>1. IsFiniteSet(Kept)
      BY TrialsAre, FS_Subset DEF Kept
    <3> QED BY <3>1, FS_CardinalityType, LenProperties, BoundsAssumption DEF Inv, TypeOK
  <2> QED BY <2>1, <2>2 DEF Inv, CountInv
<1>4. SummaryInv'
  BY DEF Inv, SummaryInv, CompletedOf, TrialsOf, Summary, FaultTrials, Estimand,
         Detected, FalseFlags
<1>5. OrderInv'
  BY DEF Inv, OrderInv, Over, Aborted
<1>6. LingerInv' /\ SharedInv'
  BY DEF Inv, LingerInv, SharedInv, HasCause, Disturbs, Aborted
<1> QED BY <1>1, <1>2, <1>3, <1>4, <1>5, <1>6 DEF Inv

(* A start of the harness begins with the files it finds.                   *)
LEMMA RunKeeps ==
    ASSUME Inv, Run \/ Replay
    PROVE  Inv'
<1>1. /\ pc \in Ended \cup {"next"} /\ pc' \in {"next", "summarize"}
      /\ UNCHANGED <<result, file, summary, jobs, shared, interruptions>>
  BY DEF Run, Replay, Goto
<1>2. pc \notin {"poll", "report", "write", "writing"} /\ pc' \in Places
  BY <1>1 DEF Ended, Places
<1>3. ProgressInv'
  BY <1>1, <1>2 DEF Inv, ProgressInv
<1>4. UnderWay' >= UnderWay /\ result' \in Results \cup {NoFile}
  BY <1>1, <1>2 DEF UnderWay, Inv, TypeOK, Results, NoFile, Aborted
<1>5. \A i \in DOMAIN jobs : ~Working(i)
  BY <1>2 DEF Working
<1> QED BY <1>1, <1>2, <1>3, <1>4, <1>5, QuietStep

(* The poll that sees "completed": every host has reported.                 *)
LEMMA PollCompletedKeeps ==
    ASSUME Inv, PollCompleted
    PROVE  Inv'
<1>1. /\ pc = "poll" /\ pc' = "report" /\ WhollyReported(Current)
      /\ UNCHANGED <<result, file, summary, jobs, shared, interruptions>>
  BY DEF PollCompleted, Goto
<1>2. ProgressInv'
  BY <1>1 DEF Inv, ProgressInv, Current, Missing, Before, WhollyReported, NoFile
<1>3. UnderWay' >= UnderWay /\ pc' \in Places /\ result' \in Results \cup {NoFile}
  BY <1>1 DEF UnderWay, Places, Inv, TypeOK, Results, NoFile, Aborted
<1>4. \A i \in DOMAIN jobs : Working(i) => Working(i)'
  BY <1>1 DEF Working
<1> QED BY <1>1, <1>2, <1>3, <1>4, QuietStep

(* Giving up or ranking: the result is about the trial of the current job.  *)
LEMMA ResultComes ==
    ASSUME Inv, pc \in {"poll", "report"}, pc' = "write",
           result' \in Results, result'.trial = Current.trial,
           result'.outcome = "COMPLETED" => result'.job = Len(jobs) /\ WhollyReported(Current),
           UNCHANGED <<file, summary, jobs, shared, interruptions>>
    PROVE  Inv'
<1>1. Len(jobs) \in DOMAIN jobs /\ Current.trial \in Missing /\ Before(Current.trial)
  BY DEF Inv, ProgressInv
<1>2. ProgressInv'
  BY <1>1 DEF ProgressInv, Current, Missing, Before, Answers, WhollyReported, NoFile
<1>3. UnderWay' >= UnderWay /\ pc' \in Places
  BY DEF UnderWay, Places
<1>4. \A i \in DOMAIN jobs : Working(i) => Working(i)'
  BY DEF Working, Current
<1> QED BY <1>2, <1>3, <1>4, QuietStep

(* The poll that gives up after 30 s: the trial is ABORTED.                 *)
LEMMA PollTimedOutKeeps ==
    ASSUME Inv, PollTimedOut
    PROVE  Inv'
<1>1. /\ pc = "poll" /\ pc' = "write" /\ result' = Aborted(Current.trial)
      /\ UNCHANGED <<file, summary, jobs, shared, interruptions>>
  BY DEF PollTimedOut, Goto
<1>2. Current.trial \in Trials
  BY <1>1 DEF Inv, ProgressInv, Missing
<1>3. /\ result' \in Results /\ result'.trial = Current.trial
      /\ result'.outcome = "ABORTED"
  BY <1>1, <1>2, AbortedIs
<1> QED BY <1>1, <1>3, ResultComes

(* The report is about the job the harness has waited for.                  *)
LEMMA GetReportKeeps ==
    ASSUME Inv, GetReport
    PROVE  Inv'
<1>1. /\ pc = "report" /\ pc' = "write"
      /\ UNCHANGED <<file, summary, jobs, shared, interruptions>>
  BY DEF GetReport, Goto
<1>2. PICK d \in BOOLEAN, f \in BOOLEAN :
        result' = [outcome |-> "COMPLETED", trial |-> Current.trial,
                   job |-> Len(jobs), detected |-> d, falseFlag |-> f]
  BY DEF GetReport
<1>3. Current.trial \in Trials /\ WhollyReported(Current) /\ Len(jobs) \in Nat
  BY <1>1, LenProperties DEF Inv, ProgressInv, Missing, TypeOK
<1>4. result' \in Results /\ result'.trial = Current.trial /\ result'.job = Len(jobs)
  BY <1>2, <1>3 DEF Results
<1> QED BY <1>1, <1>3, <1>4, ResultComes

-----------------------------------------------------------------------------
(* Jobs keep their trial, and what has been reported stays reported.        *)
JobsKept == \A j \in DOMAIN jobs :
    /\ j \in DOMAIN jobs' /\ jobs'[j].trial = jobs[j].trial
    /\ WhollyReported(jobs[j]) => WhollyReported(jobs'[j])

(* What a file says stays true while the jobs stay.                         *)
LEMMA FilesStayTrue ==
    ASSUME FileInv, JobsKept, UNCHANGED file
    PROVE  FileInv'
<1>1. \A j, t : Answers(j, t) => Answers(j, t)'
  BY DEF Answers, JobsKept, WhollyReported
<1> QED BY <1>1 DEF FileInv, Aborted

(* A summary stays true while the files stay.                               *)
LEMMA DecisionsStay ==
    ASSUME SummaryInv, UNCHANGED <<file, summary>>
    PROVE  SummaryInv'
BY DEF SummaryInv, CompletedOf, TrialsOf, Summary, FaultTrials, Estimand, Detected, FalseFlags

(* What a job started by the harness looks like.                            *)
LEMMA JobIs ==
    ASSUME TypeOK, NEW j \in DOMAIN jobs
    PROVE  /\ jobs[j] \in Jobs /\ jobs[j].trial \in Trials /\ jobs[j].lingering \in BOOLEAN
           /\ jobs[j].at \in [Hosts -> {"requested", "working", "reported", "failed"}]
           /\ j \in 1 .. Len(jobs)
<1>1. jobs \in Seq(Jobs) /\ j \in 1 .. Len(jobs)
  BY LenProperties DEF TypeOK
<1>2. jobs[j] \in Jobs
  BY <1>1, ElementOfSeq
<1> QED BY <1>1, <1>2, Zenon DEF Jobs

(* A job is started for the first trial without a file.                     *)
LEMMA JobIsAdded ==
    ASSUME Inv, pc = "next", Missing # {}, jobs' = Append(jobs, NewJob),
           UNCHANGED <<file, summary, shared, interruptions>>
    PROVE  /\ jobs' \in Seq(Jobs) /\ Len(jobs) \in Nat /\ Len(jobs') = Len(jobs) + 1
           /\ DOMAIN jobs' = 1 .. Len(jobs) + 1 /\ DOMAIN jobs = 1 .. Len(jobs)
           /\ \A j \in DOMAIN jobs : jobs'[j] = jobs[j]
           /\ jobs'[Len(jobs) + 1] = NewJob /\ NewJob.trial = NextTrial
           /\ ~NewJob.lingering /\ JobsKept /\ FileInv' /\ SummaryInv' /\ LingerInv'
           /\ interruptions = 0 =>
                /\ \A j \in DOMAIN jobs : Over(j)' /\ jobs[j].trial < NextTrial
                /\ SharedInv'
<1> DEFINE n == Len(jobs)
<1>1. NextTrial \in Missing /\ NextTrial \in Trials
  BY NextTrialIs
<1>2. NewJob \in Jobs /\ NewJob.trial = NextTrial /\ ~NewJob.lingering
  BY <1>1 DEF NewJob, Jobs
<1>3. jobs \in Seq(Jobs) /\ n \in Nat /\ DOMAIN jobs = 1 .. n
  BY LenProperties DEF Inv, TypeOK
<1>4. /\ jobs' \in Seq(Jobs) /\ Len(jobs') = n + 1 /\ jobs'[n + 1] = NewJob
      /\ \A j \in DOMAIN jobs : jobs'[j] = jobs[j]
  BY <1>2, <1>3, AppendProperties
<1>5. DOMAIN jobs' = 1 .. n + 1
  BY <1>4, LenProperties
<1> HIDE DEF n
<1>6. DOMAIN jobs \subseteq DOMAIN jobs' /\ \A j \in DOMAIN jobs : j \in Nat /\ j < n + 1
  BY <1>3, <1>5
<1>7. JobsKept
  BY <1>4, <1>6 DEF JobsKept
<1>8. FileInv' /\ SummaryInv'
  BY <1>7, FilesStayTrue, DecisionsStay DEF Inv
<1>9. LingerInv'
  <2>1. \A j \in DOMAIN jobs' : j \in DOMAIN jobs \/ j = n + 1
    BY <1>3, <1>5
  <2> QED BY <1>2, <1>4, <2>1 DEF Inv, LingerInv
<1>10. ASSUME interruptions = 0, NEW j \in DOMAIN jobs
       PROVE  Over(j)' /\ jobs[j].trial < NextTrial
  <2>1. Over(j)
    <3>1. ~Working(j)
      BY DEF Working
    <3> QED BY <1>10, <3>1 DEF Inv, OrderInv
  <2>2. Over(j)'
    BY <1>4, <2>1 DEF Over, Aborted
  <2>3. jobs[j].trial \in Trials
    BY JobIs DEF Inv
  <2>4. file[jobs[j].trial] # NoFile
    BY <2>1 DEF Over, NoFile, Aborted
  <2>5. ~(NextTrial < jobs[j].trial) /\ jobs[j].trial # NextTrial
    BY <1>1, <2>3, <2>4 DEF Inv, FileInv, Missing
  <2> QED BY <1>1, <2>2, <2>3, <2>5, TrialsAre
<1>11. ASSUME interruptions = 0 PROVE SharedInv'
  <2> SUFFICES ASSUME NEW j \in shared PROVE HasCause(j)'
    BY DEF SharedInv
  <2>1. j \in DOMAIN jobs /\ HasCause(j)
    BY <1>11 DEF Inv, TypeOK, SharedInv
  <2> QED BY <1>4, <1>6, <2>1 DEF HasCause, Disturbs, Aborted
<1> QED BY <1>2, <1>3, <1>4, <1>5, <1>7, <1>8, <1>9, <1>10, <1>11 DEF n

(* Numbers of the state.                                                    *)
LEMMA CountsAreNat ==
    ASSUME TypeOK
    PROVE  /\ Len(jobs) \in Nat /\ interruptions \in Nat /\ UnderWay \in {0, 1}
           /\ Kept \subseteq Trials /\ IsFiniteSet(Kept) /\ Cardinality(Kept) \in Nat
<1>1. Kept \subseteq Trials /\ IsFiniteSet(Kept)
  BY TrialsAre, FS_Subset DEF Kept
<1> QED BY <1>1, FS_CardinalityType, LenProperties, BoundsAssumption DEF TypeOK, UnderWay

(* A trial begins with one more job, whether its POST is answered or not.   *)
LEMMA StartStep ==
    ASSUME Inv, pc = "next", Missing # {}, jobs' = Append(jobs, NewJob),
           UNCHANGED <<file, summary, shared, interruptions>>,
           pc' \in {"poll", "write"}, result' \in Results \cup {NoFile},
           ProgressInv', Working(Len(jobs))'
    PROVE  Inv'
<1> DEFINE n == Len(jobs)
<1>1. /\ jobs' \in Seq(Jobs) /\ n \in Nat /\ Len(jobs') = n + 1
      /\ DOMAIN jobs' = 1 .. n + 1 /\ DOMAIN jobs = 1 .. n
      /\ \A j \in DOMAIN jobs : jobs'[j] = jobs[j]
      /\ jobs'[n + 1] = NewJob /\ NewJob.trial = NextTrial
      /\ FileInv' /\ SummaryInv' /\ LingerInv'
      /\ interruptions = 0 =>
           /\ \A j \in DOMAIN jobs : Over(j)' /\ jobs[j].trial < NextTrial
           /\ SharedInv'
  BY JobIsAdded
<1> HIDE DEF n
<1>2. TypeOK'
  BY <1>1 DEF Inv, TypeOK, Places
<1>3. CountInv'
  <2>1. Kept' = Kept /\ UnderWay = 0 /\ UnderWay' = 1
    BY DEF Kept, UnderWay, NoFile, Torn
  <2>2. n + 1 <= Cardinality(Kept) + 1 + interruptions
    BY <1>1, <2>1, CountsAreNat DEF Inv, CountInv, n
  <2> QED BY <1>1, <2>1, <2>2 DEF CountInv
<1>4. OrderInv'
  <2> SUFFICES ASSUME interruptions = 0
               PROVE  /\ \A i \in 1 .. n + 1 : Over(i)' \/ Working(i)'
                      /\ \A i, j \in 1 .. n + 1 : i < j => jobs'[i].trial < jobs'[j].trial
    BY <1>1 DEF OrderInv
  <2>1. \A i \in 1 .. n + 1 : i \in DOMAIN jobs \/ i = n + 1
    BY <1>1
  <2>2. ASSUME NEW i \in 1 .. n + 1 PROVE Over(i)' \/ Working(i)'
    <3>1. CASE i \in DOMAIN jobs
      BY <1>1, <3>1
    <3>2. CASE i = n + 1
      <4>1. i = Len(jobs')
        BY <1>1, <3>2
      <4> QED BY <4>1 DEF Working
    <3> QED BY <2>1, <3>1, <3>2
  <2>3. ASSUME NEW i \in 1 .. n + 1, NEW j \in 1 .. n + 1, i < j
        PROVE  jobs'[i].trial < jobs'[j].trial
    <3>1. i \in DOMAIN jobs
      BY <1>1, <2>3
    <3>2. CASE j = n + 1
      BY <1>1, <3>1, <3>2
    <3>3. CASE j # n + 1
      <4>1. j \in DOMAIN jobs
        BY <2>1, <3>3
      <4>2. jobs[i].trial < jobs[j].trial
        BY <2>3, <3>1, <4>1 DEF Inv, OrderInv
      <4> QED BY <1>1, <3>1, <4>1, <4>2
    <3> QED BY <3>2, <3>3
  <2> QED BY <2>2, <2>3
<1>5. SharedInv'
  BY <1>1 DEF SharedInv
<1> QED BY <1>1, <1>2, <1>3, <1>4, <1>5 DEF Inv

(* The POST that starts the job is answered.                                *)
LEMMA StartTrialKeeps ==
    ASSUME Inv, StartTrial
    PROVE  Inv'
<1>1. /\ pc = "next" /\ pc' = "poll" /\ Missing # {} /\ jobs' = Append(jobs, NewJob)
      /\ UNCHANGED <<result, file, summary, shared, interruptions>>
  BY DEF StartTrial, Goto
<1>2. /\ Len(jobs) \in Nat /\ Len(jobs') = Len(jobs) + 1 /\ DOMAIN jobs' = 1 .. Len(jobs) + 1
      /\ jobs'[Len(jobs) + 1].trial = NextTrial
  BY <1>1, JobIsAdded
<1>3. NextTrial \in Missing /\ Before(NextTrial)
  BY <1>1, NextTrialIs
<1>4. result = NoFile
  BY <1>1 DEF Inv, ProgressInv
<1>5. ProgressInv'
  <2>1. Len(jobs') \in DOMAIN jobs' /\ Current'.trial = NextTrial
    BY <1>2 DEF Current
  <2>2. Current'.trial \in Missing' /\ Before(Current.trial)'
    BY <1>1, <1>3, <2>1 DEF Missing, Before, NoFile
  <2> QED BY <1>1, <1>4, <2>1, <2>2 DEF ProgressInv, NoFile
<1>6. Working(Len(jobs))'
  BY <1>1, <1>2 DEF Working
<1> QED BY <1>1, <1>4, <1>5, <1>6, StartStep

(* The POST that starts the job fails, its job started or not.              *)
LEMMA StartFailsKeeps ==
    ASSUME Inv, StartFails
    PROVE  Inv'
<1>1. /\ pc = "next" /\ pc' = "write" /\ Missing # {} /\ result' = Aborted(NextTrial)
      /\ jobs' = jobs \/ jobs' = Append(jobs, NewJob)
      /\ UNCHANGED <<file, summary, shared, interruptions>>
  BY DEF StartFails, Goto
<1>2. PICK t \in Trials : t = NextTrial /\ t \in Missing /\ Before(t)
  BY <1>1, NextTrialIs
<1>3. result' \in Results /\ result'.outcome = "ABORTED" /\ result'.trial = t
  BY <1>1, <1>2, AbortedIs
<1>4. ProgressInv'
  <2>1. file[t] = NoFile /\ Before(t)'
    BY <1>1, <1>2 DEF Missing, Before, NoFile
  <2> QED BY <1>1, <1>3, <2>1 DEF ProgressInv, Before, NoFile
<1>5. CASE jobs' = jobs
  <2>1. UnderWay' >= UnderWay /\ pc' \in Places /\ \A i \in DOMAIN jobs : ~Working(i)
    BY <1>1 DEF UnderWay, Places, Working
  <2> QED BY <1>1, <1>3, <1>4, <1>5, <2>1, QuietStep
<1>6. CASE jobs' = Append(jobs, NewJob)
  <2>1. Len(jobs') = Len(jobs) + 1 /\ jobs'[Len(jobs) + 1].trial = t
    BY <1>1, <1>2, <1>6, JobIsAdded
  <2>2. Working(Len(jobs))'
    BY <1>1, <1>3, <2>1 DEF Working
  <2> QED BY <1>1, <1>3, <1>4, <1>6, <2>2, StartStep
<1> QED BY <1>1, <1>5, <1>6

-----------------------------------------------------------------------------
(* A decision is about the files of its trials only.                        *)
LEMMA SameFilesSameDecision ==
    ASSUME NEW i \in 1 .. 3, \A t \in TrialsOf(i) : file'[t] = file[t]
    PROVE  Summary'[i] = Summary[i] /\ CompletedOf(TrialsOf(i))' = CompletedOf(TrialsOf(i))
<1> DEFINE T == FaultTrials
           N == Trials \ FaultTrials
<1>1. T' = T /\ N' = N /\ T \subseteq Trials
  BY DEF FaultTrials
<1>2. ASSUME \A t \in T : file'[t] = file[t]
      PROVE  /\ CompletedOf(T)' = CompletedOf(T) /\ Detected' = Detected
             /\ FalseFlags(T)' = FalseFlags(T)
  BY <1>1, <1>2 DEF CompletedOf, Detected, FalseFlags
<1>3. ASSUME \A t \in N : file'[t] = file[t]
      PROVE  CompletedOf(N)' = CompletedOf(N) /\ FalseFlags(N)' = FalseFlags(N)
  BY <1>1, <1>3 DEF CompletedOf, FalseFlags
<1>4. CASE i \in {1, 2}
  <2>1. TrialsOf(i) = T /\ TrialsOf(i)' = T
    BY <1>1, <1>4 DEF TrialsOf
  <2> QED BY <1>2, <1>4, <2>1 DEF Summary, Estimand
<1>5. CASE i = 3
  <2>1. TrialsOf(i) = N /\ TrialsOf(i)' = N
    BY <1>1, <1>5 DEF TrialsOf
  <2> QED BY <1>3, <1>5, <2>1 DEF Summary, Estimand
<1> QED BY <1>4, <1>5

(* Writing the file of a trial that has none, or a torn one.                *)
LEMMA FileStep ==
    ASSUME Inv, NEW t \in Trials, file[t] \in {NoFile, Torn}, NEW v,
           file' = [file EXCEPT ![t] = v],
           UNCHANGED <<summary, jobs, shared, interruptions>>
    PROVE  /\ \A u \in Trials \ {t} : file'[u] = file[u]
           /\ file'[t] = v
           /\ SummaryInv' /\ LingerInv' /\ SharedInv'
           /\ \A i \in DOMAIN jobs : Over(i) => Over(i)'
<1>1. /\ \A u \in Trials \ {t} : file'[u] = file[u]
      /\ file'[t] = v
      /\ file[t].outcome \in {"none", "torn"}
  BY DEF Inv, TypeOK, NoFile, Torn
<1>2. SummaryInv'
  <2> SUFFICES ASSUME NEW i \in DOMAIN summary, summary[i] # "INSUFFICIENT_EVIDENCE"
               PROVE  /\ CompletedOf(TrialsOf(i))' = TrialsOf(i)'
                      /\ summary[i] = Summary'[i]
    BY DEF SummaryInv
  <2>1. i \in 1 .. 3
    BY DEF Inv, TypeOK
  <2>2. CompletedOf(TrialsOf(i)) = TrialsOf(i) /\ summary[i] = Summary[i]
    BY DEF Inv, SummaryInv
  <2>3. TrialsOf(i)' = TrialsOf(i) /\ TrialsOf(i) \subseteq Trials
    BY DEF TrialsOf, FaultTrials
  <2>4. t \notin TrialsOf(i)
    BY <1>1, <2>2 DEF CompletedOf
  <2>5. \A u \in TrialsOf(i) : file'[u] = file[u]
    BY <1>1, <2>3, <2>4
  <2> QED BY <2>1, <2>2, <2>3, <2>5, SameFilesSameDecision
<1>3. LingerInv'
  BY DEF Inv, LingerInv
<1>4. ASSUME NEW i \in DOMAIN jobs
      PROVE  /\ jobs[i].trial \in Trials
             /\ file[jobs[i].trial].outcome \in {"ABORTED", "COMPLETED"} =>
                   file'[jobs[i].trial] = file[jobs[i].trial]
  <2>1. jobs[i].trial \in Trials
    BY JobIs DEF Inv
  <2> QED BY <1>1, <2>1
<1>5. ASSUME NEW i \in DOMAIN jobs
      PROVE  /\ Over(i) => Over(i)'
             /\ Disturbs(i) => Disturbs(i)'
             /\ file[jobs[i].trial] = Aborted(jobs[i].trial) =>
                  file'[jobs[i].trial] = Aborted(jobs[i].trial)
  <2>1. Aborted(jobs[i].trial).outcome = "ABORTED"
    BY <1>4, AbortedIs
  <2> QED BY <1>4, <2>1 DEF Over, Disturbs, Aborted
<1>6. SharedInv'
  <2> SUFFICES ASSUME interruptions = 0, NEW j \in shared PROVE HasCause(j)'
    BY DEF SharedInv
  <2>1. j \in DOMAIN jobs /\ HasCause(j)
    BY DEF Inv, TypeOK, SharedInv
  <2> QED BY <1>5, <2>1 DEF HasCause, Aborted
<1> QED BY <1>1, <1>2, <1>3, <1>5, <1>6

(* open(path, "w") empties the file.                                        *)
LEMMA WriteBeginsKeeps ==
    ASSUME Inv, WriteBegins
    PROVE  Inv'
<1> DEFINE t == result.trial
<1>1. /\ pc = "write" /\ pc' = "writing" /\ file' = [file EXCEPT ![t] = Torn]
      /\ UNCHANGED <<result, summary, jobs, shared, interruptions>>
  BY DEF WriteBegins, Goto
<1>2. /\ result \in Results /\ t \in Trials /\ file[t] = NoFile /\ Before(t)
      /\ result.outcome = "COMPLETED" =>
            result.job = Len(jobs) /\ Answers(result.job, result.trial)
  BY <1>1, ResultKinds DEF Inv, ProgressInv
<1>3. /\ \A u \in Trials \ {t} : file'[u] = file[u]
      /\ file'[t] = Torn
      /\ SummaryInv' /\ LingerInv' /\ SharedInv'
      /\ \A i \in DOMAIN jobs : Over(i) => Over(i)'
  BY <1>1, <1>2, FileStep
<1> HIDE DEF t
<1>4. NoFile # Torn /\ Torn.outcome = "torn"
  BY DEF NoFile, Torn
<1>5. TypeOK'
  BY <1>1, <1>2 DEF Inv, TypeOK, Places
<1>6. ProgressInv'
  <2>1. Missing' \subseteq Missing
    BY <1>2, <1>3, <1>4 DEF Missing, NoFile
  <2>2. Before(t)'
    BY <1>1, <1>2, <2>1 DEF Before, t
  <2> QED BY <1>1, <1>2, <1>3, <2>2 DEF ProgressInv, Answers, WhollyReported, Torn, Before, t
<1>7. FileInv'
  <2>1. ASSUME NEW s \in Trials, NEW u \in Trials, s < u, file'[u] # NoFile
        PROVE  file'[s] # NoFile
    <3>1. CASE u = t
      <4>1. s \notin Missing
        BY <1>2, <2>1, <3>1, TrialsAre DEF Before
      <4> QED BY <1>3, <1>4, <4>1 DEF Missing, NoFile
    <3>2. CASE u # t
      BY <1>2, <1>3, <1>4, <2>1, <3>2 DEF Inv, FileInv, NoFile
    <3> QED BY <3>1, <3>2
  <2>2. ASSUME NEW s \in Trials, file'[s].outcome \in {"COMPLETED", "ABORTED"}
        PROVE  file'[s] = file[s]
    BY <1>3, <1>4, <2>2
  <2>3. \A s \in Trials : file'[s].outcome = "COMPLETED" =>
            file'[s].trial = s /\ Answers(file[s].job, s)'
    BY <1>1, <2>2 DEF Inv, FileInv, Answers, WhollyReported
  <2>4. \A s \in Trials : file'[s].outcome = "ABORTED" => file'[s] = Aborted(s)
    BY <2>2 DEF Inv, FileInv
  <2> QED BY <2>1, <2>3, <2>4 DEF FileInv, NoFile, Aborted
<1>8. CountInv'
  <2>1. Kept' = Kept
    BY <1>2, <1>3 DEF Kept, NoFile, Torn
  <2>2. UnderWay' = UnderWay
    BY <1>1 DEF UnderWay
  <2> QED BY <1>1, <2>1, <2>2 DEF Inv, CountInv
<1>9. OrderInv'
  <2>1. \A i \in DOMAIN jobs : Working(i) => Working(i)'
    BY <1>1 DEF Working
  <2> QED BY <1>1, <1>3, <2>1 DEF Inv, OrderInv
<1> QED BY <1>3, <1>5, <1>6, <1>7, <1>8, <1>9 DEF Inv

(* json.dump completes the file.                                            *)
LEMMA WriteEndsKeeps ==
    ASSUME Inv, WriteEnds
    PROVE  Inv'
<1> DEFINE t == result.trial
<1>1. /\ pc = "writing" /\ pc' = "next" /\ file' = [file EXCEPT ![t] = result]
      /\ result' = NoFile
      /\ UNCHANGED <<summary, jobs, shared, interruptions>>
  BY DEF WriteEnds, Goto
<1>2. /\ result \in Results /\ t \in Trials /\ file[t] = Torn /\ Before(t)
      /\ result.outcome = "COMPLETED" => result.job = Len(jobs) /\ Answers(result.job, t)
      /\ result.outcome = "ABORTED" => result = Aborted(t)
      /\ result # NoFile /\ result # Torn /\ result.outcome \in {"ABORTED", "COMPLETED"}
  <2>1. pc # "write"
    BY <1>1
  <2> QED BY <1>1, <2>1, ResultKinds DEF Inv, ProgressInv
<1>3. /\ \A u \in Trials \ {t} : file'[u] = file[u]
      /\ file'[t] = result
      /\ SummaryInv' /\ LingerInv' /\ SharedInv'
      /\ \A i \in DOMAIN jobs : Over(i) => Over(i)'
  BY <1>1, <1>2, FileStep
<1>4. result.trial = t
  OBVIOUS
<1> HIDE DEF t
<1>5. NoFile # Torn
  BY DEF NoFile, Torn
<1>6. TypeOK'
  BY <1>1, <1>2 DEF Inv, TypeOK, Places
<1>7. ProgressInv'
  BY <1>1 DEF ProgressInv, NoFile
<1>8. FileInv'
  <2>1. ASSUME NEW s \in Trials, NEW u \in Trials, s < u, file'[u] # NoFile
        PROVE  file'[s] # NoFile
    <3>1. file[u] # NoFile
      BY <1>2, <1>3, <1>5, <2>1
    <3>2. file[s] # NoFile
      BY <2>1, <3>1 DEF Inv, FileInv
    <3> QED BY <1>2, <1>3, <3>2
  <2>2. ASSUME NEW s \in Trials
        PROVE  /\ file'[s].outcome = "COMPLETED" =>
                     file'[s].trial = s /\ Answers(file[s].job, s)'
               /\ file'[s].outcome = "ABORTED" => file'[s] = Aborted(s)
    <3>1. CASE s = t
      BY <1>1, <1>2, <1>3, <1>4, <3>1 DEF Answers, WhollyReported
    <3>2. CASE s # t
      BY <1>1, <1>3, <3>2 DEF Inv, FileInv, Answers, WhollyReported
    <3> QED BY <3>1, <3>2
  <2> QED BY <2>1, <2>2 DEF FileInv, NoFile, Aborted
<1>9. CountInv'
  <2>1. Kept' = Kept \cup {t} /\ t \notin Kept
    BY <1>2, <1>3 DEF Kept, NoFile, Torn
  <2>2. UnderWay' = 0 /\ UnderWay = 1
    BY <1>1 DEF UnderWay
  <2>3. Cardinality(Kept') = Cardinality(Kept) + 1
    BY <2>1, CountsAreNat, FS_AddElement DEF Inv
  <2>4. Len(jobs) <= (Cardinality(Kept) + 1) + 0 + interruptions
    BY <2>2, CountsAreNat DEF Inv, CountInv
  <2> QED BY <1>1, <2>2, <2>3, <2>4 DEF CountInv
<1>10. OrderInv'
  <2>1. ASSUME interruptions = 0, NEW i \in DOMAIN jobs PROVE Over(i)'
    <3>1. CASE Over(i)
      BY <1>3, <3>1
    <3>2. CASE Working(i)
      <4>1. i = Len(jobs) /\ jobs[i].trial = t
        BY <1>1, <1>4, <3>2 DEF Working
      <4>2. file'[jobs[i].trial] = result
        BY <1>3, <4>1
      <4> QED BY <1>1, <1>2, <4>1, <4>2 DEF Over, Aborted
    <3> QED BY <2>1, <3>1, <3>2 DEF Inv, OrderInv
  <2> QED BY <1>1, <2>1 DEF Inv, OrderInv
<1> QED BY <1>3, <1>6, <1>7, <1>8, <1>9, <1>10 DEF Inv

(* Only what is complete is decided.                                        *)
LEMMA DecidedIsComplete ==
    ASSUME NEW i \in 1 .. 3
    PROVE  /\ Summary[i] \in {"INSUFFICIENT_EVIDENCE", "PASS", "FAIL"}
           /\ Summary[i] # "INSUFFICIENT_EVIDENCE" => CompletedOf(TrialsOf(i)) = TrialsOf(i)
<1>1. ASSUME NEW T \in SUBSET Trials, NEW m
      PROVE  /\ Estimand(T, m) \in {"INSUFFICIENT_EVIDENCE", "PASS", "FAIL"}
             /\ Estimand(T, m) # "INSUFFICIENT_EVIDENCE" => CompletedOf(T) = T
  <2>1. CompletedOf(T) \subseteq T /\ IsFiniteSet(T)
    BY TrialsAre, FS_Subset DEF CompletedOf
  <2>2. /\ IsFiniteSet(CompletedOf(T))
        /\ Cardinality(CompletedOf(T)) <= Cardinality(T)
        /\ Cardinality(T) = Cardinality(CompletedOf(T)) => T = CompletedOf(T)
    BY <2>1, FS_Subset
  <2>3. Cardinality(T) \in Nat /\ Cardinality(CompletedOf(T)) \in Nat
    BY <2>1, <2>2, FS_CardinalityType
  <2>4. ~(Cardinality(CompletedOf(T)) < Cardinality(T)) => CompletedOf(T) = T
    BY <2>2, <2>3
  <2> QED BY <2>4 DEF Estimand, Decide
<1>2. FaultTrials \in SUBSET Trials /\ Trials \ FaultTrials \in SUBSET Trials
  BY DEF FaultTrials
<1>3. CASE i \in {1, 2}
  BY <1>1, <1>2, <1>3 DEF Summary, TrialsOf
<1>4. CASE i = 3
  BY <1>1, <1>2, <1>4 DEF Summary, TrialsOf
<1> QED BY <1>3, <1>4

(* _summarize reads the files and decides.                                  *)
LEMMA SummarizeKeeps ==
    ASSUME Inv, Summarize
    PROVE  Inv'
<1>1. /\ pc = "summarize" /\ pc' \in Ended /\ summary' \in {summary, Summary}
      /\ UNCHANGED <<result, file, jobs, shared, interruptions>>
  BY DEF Summarize, Goto, Ended
<1>2. pc' \in Places /\ UnderWay' = UnderWay /\ pc' \notin {"poll", "report", "write", "writing"}
  BY <1>1 DEF Places, Ended, UnderWay
<1>3. Summary' = Summary /\ \A i \in 1 .. 3 : TrialsOf(i)' = TrialsOf(i)
                         /\ CompletedOf(TrialsOf(i))' = CompletedOf(TrialsOf(i))
  BY <1>1 DEF Summary, TrialsOf, FaultTrials, Estimand, CompletedOf, Detected, FalseFlags
<1>4. Summary \in [1 .. 3 -> {"INSUFFICIENT_EVIDENCE", "PASS", "FAIL"}]
  <2>1. \A i \in 1 .. 3 : Summary[i] \in {"INSUFFICIENT_EVIDENCE", "PASS", "FAIL"}
    BY DecidedIsComplete
  <2>2. DOMAIN Summary = 1 .. 3 /\ Summary = [i \in 1 .. 3 |-> Summary[i]]
    BY DEF Summary
  <2> QED BY <2>1, <2>2
<1>5. TypeOK'
  BY <1>1, <1>2, <1>4 DEF Inv, TypeOK
<1>6. ProgressInv'
  BY <1>1, <1>2 DEF Inv, ProgressInv
<1>7. FileInv'
  BY <1>1 DEF Inv, FileInv, Answers, Aborted, WhollyReported
<1>8. CountInv'
  <2>1. Kept' = Kept
    BY <1>1 DEF Kept, NoFile, Torn
  <2> QED BY <1>1, <1>2, <2>1 DEF Inv, CountInv
<1>9. SummaryInv'
  <2>1. CASE summary' = summary
    <3>1. \A i \in DOMAIN summary : i \in 1 .. 3
      BY DEF Inv, TypeOK
    <3> QED BY <1>1, <1>3, <2>1, <3>1 DEF Inv, SummaryInv
  <2>2. CASE summary' = Summary
    <3>1. DOMAIN summary' = 1 .. 3
      BY <1>4, <2>2
    <3> QED BY <1>3, <2>2, <3>1, DecidedIsComplete DEF SummaryInv
  <2> QED BY <1>1, <2>1, <2>2
<1>10. OrderInv'
  <2>1. \A i \in DOMAIN jobs : ~Working(i) /\ (Over(i) => Over(i)')
    BY <1>1 DEF Working, Over, Aborted
  <2> QED BY <1>1, <2>1 DEF Inv, OrderInv
<1>11. LingerInv' /\ SharedInv'
  BY <1>1 DEF Inv, LingerInv, SharedInv, HasCause, Disturbs, Aborted
<1> QED BY <1>5, <1>6, <1>7, <1>8, <1>9, <1>10, <1>11 DEF Inv

(* An interruption pays for the job under way.                              *)
LEMMA InterruptKeeps ==
    ASSUME Inv, Interrupt
    PROVE  Inv'
<1>1. /\ pc' = "down" /\ result' = NoFile /\ interruptions < MaxInterruptions
      /\ interruptions' = interruptions + 1
      /\ UNCHANGED <<file, summary, jobs, shared>>
  BY DEF Interrupt, Goto
<1>2. interruptions \in Nat /\ MaxInterruptions \in Nat /\ interruptions' # 0
  BY <1>1, BoundsAssumption DEF Inv, TypeOK
<1>3. TypeOK'
  BY <1>1, <1>2 DEF Inv, TypeOK, Places, Ended
<1>4. ProgressInv'
  BY <1>1 DEF ProgressInv, NoFile
<1>5. FileInv'
  BY <1>1 DEF Inv, FileInv, Answers, Aborted, WhollyReported
<1>6. CountInv'
  <2>1. Kept' = Kept /\ UnderWay' = 0
    BY <1>1 DEF Kept, UnderWay, NoFile, Torn
  <2>2. Len(jobs) <= Cardinality(Kept) + 0 + (interruptions + 1)
    BY CountsAreNat DEF Inv, CountInv
  <2> QED BY <1>1, <2>1, <2>2 DEF CountInv
<1>7. SummaryInv'
  BY <1>1, DecisionsStay DEF Inv
<1>8. OrderInv' /\ SharedInv'
  BY <1>2 DEF OrderInv, SharedInv
<1>9. LingerInv'
  BY <1>1 DEF Inv, LingerInv
<1> QED BY <1>3, <1>4, <1>5, <1>6, <1>7, <1>8, <1>9 DEF Inv

-----------------------------------------------------------------------------
(* A step of the service or a runner changes one job.                       *)
LEMMA JobChanges ==
    ASSUME Inv, NEW j \in DOMAIN jobs, NEW e \in Jobs, jobs' = [jobs EXCEPT ![j] = e],
           e.trial = jobs[j].trial, WhollyReported(jobs[j]) => WhollyReported(e),
           e.lingering => jobs[j].lingering \/ Fault[jobs[j].trial] = "io_stall",
           UNCHANGED <<harness, interruptions>>,
           shared' \subseteq DOMAIN jobs,
           interruptions = 0 => \A i \in shared' : HasCause(i)
    PROVE  Inv'
<1>1. /\ jobs \in Seq(Jobs) /\ DOMAIN jobs = 1 .. Len(jobs)
      /\ UNCHANGED <<pc, result, file, summary, interruptions>>
  BY LenProperties DEF Inv, TypeOK, harness
<1>2. /\ jobs' \in Seq(Jobs) /\ Len(jobs') = Len(jobs) /\ DOMAIN jobs' = DOMAIN jobs
      /\ jobs'[j] = e /\ \A i \in DOMAIN jobs : i # j => jobs'[i] = jobs[i]
  <2>1. jobs' \in Seq(Jobs) /\ Len(jobs') = Len(jobs)
    BY <1>1, ExceptSeq
  <2> QED BY <1>1, <2>1
<1>3. JobsKept /\ \A i \in DOMAIN jobs : jobs'[i].trial = jobs[i].trial
  BY <1>2 DEF JobsKept
<1>4. TypeOK'
  BY <1>1, <1>2 DEF Inv, TypeOK
<1>5. FileInv'
  BY <1>1, <1>3, FilesStayTrue DEF Inv
<1>6. ProgressInv'
  <2>1. \A i, t : Answers(i, t) => Answers(i, t)'
    BY <1>3 DEF Answers, JobsKept
  <2>2. ASSUME pc \in {"poll", "report"}
        PROVE  /\ Len(jobs') \in DOMAIN jobs' /\ Current'.trial = Current.trial
               /\ WhollyReported(Current) => WhollyReported(Current')
    <3>1. Len(jobs) \in DOMAIN jobs
      BY <2>2 DEF Inv, ProgressInv
    <3> QED BY <1>2, <1>3, <3>1 DEF Current, JobsKept
  <2>3. Missing' = Missing /\ \A t : Before(t)' <=> Before(t)
    BY <1>1 DEF Missing, Before, NoFile
  <2>4. WhollyReported(Current)' <=> WhollyReported(Current')
    BY DEF WhollyReported
  <2>5. pc' \in {"poll", "report"} =>
          /\ Len(jobs') \in DOMAIN jobs' /\ Current'.trial \in Missing'
          /\ Before(Current.trial)'
    BY <1>1, <2>2, <2>3 DEF Inv, ProgressInv, Before
  <2>6. pc' = "report" => WhollyReported(Current)'
    BY <1>1, <2>2, <2>4 DEF Inv, ProgressInv
  <2>7. pc' \in {"write", "writing"} =>
          /\ result' \in Results /\ Before(result.trial)'
          /\ file'[result'.trial] = IF pc' = "write" THEN NoFile ELSE Torn
          /\ result'.outcome = "COMPLETED" =>
                result'.job = Len(jobs') /\ Answers(result.job, result.trial)'
    <3> SUFFICES ASSUME pc \in {"write", "writing"}
                 PROVE  /\ result \in Results /\ Before(result.trial)'
                        /\ file[result.trial] = IF pc = "write" THEN NoFile ELSE Torn
                        /\ result.outcome = "COMPLETED" =>
                              result.job = Len(jobs') /\ Answers(result.job, result.trial)'
      BY <1>1
    <3>1. /\ result \in Results /\ Before(result.trial)
          /\ file[result.trial] = IF pc = "write" THEN NoFile ELSE Torn
          /\ result.outcome = "COMPLETED" =>
                result.job = Len(jobs) /\ Answers(result.job, result.trial)
      BY DEF Inv, ProgressInv
    <3>2. Before(result.trial)'
      BY <1>1, <2>3, <3>1 DEF Before
    <3>3. Answers(result.job, result.trial) => Answers(result.job, result.trial)'
      BY <1>1, <1>3 DEF Answers, JobsKept, WhollyReported
    <3> QED BY <1>2, <3>1, <3>2, <3>3
  <2> QED BY <1>1, <2>5, <2>6, <2>7 DEF Inv, ProgressInv, NoFile, Torn, Results, Aborted
<1>7. CountInv'
  <2>1. Kept' = Kept /\ UnderWay' = UnderWay
    BY <1>1 DEF Kept, UnderWay, NoFile, Torn
  <2> QED BY <1>1, <1>2, <2>1 DEF Inv, CountInv
<1>8. SummaryInv'
  BY <1>1, DecisionsStay DEF Inv
<1>9. OrderInv'
  <2> SUFFICES ASSUME interruptions = 0
               PROVE  /\ \A i \in DOMAIN jobs : Over(i)' \/ Working(i)'
                      /\ \A i, k \in DOMAIN jobs : i < k => jobs'[i].trial < jobs'[k].trial
    BY <1>1, <1>2 DEF OrderInv
  <2>1. ASSUME NEW i \in DOMAIN jobs
        PROVE  (Over(i) => Over(i)') /\ (Working(i) => Working(i)')
    BY <1>1, <1>2, <1>3 DEF Over, Working, Aborted
  <2>2. \A i \in DOMAIN jobs : Over(i)' \/ Working(i)'
    BY <2>1 DEF Inv, OrderInv
  <2>3. \A i, k \in DOMAIN jobs : i < k => jobs'[i].trial < jobs'[k].trial
    BY <1>3 DEF Inv, OrderInv
  <2> QED BY <2>2, <2>3
<1>10. LingerInv'
  <2>1. ASSUME NEW i \in DOMAIN jobs, jobs'[i].lingering
        PROVE  Fault[jobs'[i].trial] = "io_stall"
    <3>1. CASE i = j
      BY <1>2, <2>1, <3>1 DEF Inv, LingerInv
    <3>2. CASE i # j
      BY <1>2, <2>1, <3>2 DEF Inv, LingerInv
    <3> QED BY <3>1, <3>2
  <2> QED BY <1>2, <2>1 DEF LingerInv
<1>11. SharedInv'
  <2>1. ASSUME NEW i \in DOMAIN jobs, HasCause(i) PROVE HasCause(i)'
    <3>1. ASSUME NEW k \in DOMAIN jobs
          PROVE  /\ Disturbs(k) => Disturbs(k)'
                 /\ file[jobs[k].trial] = Aborted(jobs[k].trial) =>
                      (file[jobs[k].trial] = Aborted(jobs[k].trial))'
      BY <1>1, <1>3 DEF Disturbs, Aborted
    <3>2. CASE \E k \in DOMAIN jobs : k < i /\ Disturbs(k)
      BY <1>2, <3>1, <3>2 DEF HasCause
    <3>3. CASE file[jobs[i].trial] = Aborted(jobs[i].trial)
      BY <3>1, <3>3 DEF HasCause
    <3>4. CASE Fault[jobs[i].trial] = "io_stall" /\ \E k \in DOMAIN jobs : i < k
      BY <1>2, <1>3, <3>4 DEF HasCause
    <3> QED BY <2>1, <3>2, <3>3, <3>4 DEF HasCause
  <2> QED BY <1>1, <2>1 DEF SharedInv
<1> QED BY <1>4, <1>5, <1>6, <1>7, <1>8, <1>9, <1>10, <1>11 DEF Inv

(* A thread of io_stall ends after its join gave up.                        *)
LEMMA LingeringEndsKeeps ==
    ASSUME Inv, NEW j \in DOMAIN jobs, LingeringEnds(j)
    PROVE  Inv'
<1> DEFINE e == [jobs[j] EXCEPT !.lingering = FALSE]
<1>1. /\ jobs' = [jobs EXCEPT ![j] = e]
      /\ UNCHANGED <<harness, shared, interruptions>>
  BY DEF LingeringEnds
<1>2. /\ jobs[j] \in Jobs /\ jobs[j].trial \in Trials
      /\ jobs[j].at \in [Hosts -> {"requested", "working", "reported", "failed"}]
  BY JobIs DEF Inv
<1>3. e.trial = jobs[j].trial /\ e.at = jobs[j].at /\ e.lingering = FALSE /\ e \in Jobs
  BY <1>2 DEF Jobs
<1> HIDE DEF e
<1>4. WhollyReported(jobs[j]) => WhollyReported(e)
  BY <1>3 DEF WhollyReported
<1>5. shared' \subseteq DOMAIN jobs /\ (interruptions = 0 => \A i \in shared' : HasCause(i))
  BY <1>1 DEF Inv, TypeOK, SharedInv
<1> QED BY <1>1, <1>3, <1>4, <1>5, JobChanges

(* A runner ends its phase: it reports, or fails.                           *)
LEMMA EndPhaseKeeps ==
    ASSUME Inv, NEW j \in DOMAIN jobs, NEW h \in Hosts, EndPhase(j, h)
    PROVE  Inv'
<1>1. /\ jobs[j].at[h] = "working"
      /\ UNCHANGED <<harness, shared, interruptions>>
  BY DEF EndPhase
<1>2. PICK to \in {"reported", "failed"}, l \in {jobs[j].lingering, MayLinger(j, h)} :
        jobs' = [jobs EXCEPT ![j].at[h] = to, ![j].lingering = l]
  BY DEF EndPhase
<1> DEFINE e == [[jobs[j] EXCEPT !.at[h] = to] EXCEPT !.lingering = l]
<1>3. jobs' = [jobs EXCEPT ![j] = e]
  BY <1>2, JobIs DEF Inv
<1>4. /\ jobs[j] \in Jobs /\ jobs[j].trial \in Trials
      /\ jobs[j].at \in [Hosts -> {"requested", "working", "reported", "failed"}]
      /\ jobs[j].lingering \in BOOLEAN
  BY JobIs DEF Inv
<1>5. l \in BOOLEAN /\ (l => jobs[j].lingering \/ Fault[jobs[j].trial] = "io_stall")
  BY <1>4, Zenon DEF MayLinger, HasFault
<1>6. e.trial = jobs[j].trial /\ e.at = [jobs[j].at EXCEPT ![h] = to] /\ e \in Jobs
  BY <1>4, <1>5 DEF Jobs
<1>7. e.lingering = l
  BY <1>4 DEF Jobs
<1> HIDE DEF e
<1>8. WhollyReported(jobs[j]) => WhollyReported(e)
  BY <1>1, <1>4, <1>6 DEF WhollyReported
<1>9. shared' \subseteq DOMAIN jobs /\ (interruptions = 0 => \A i \in shared' : HasCause(i))
  BY <1>1 DEF Inv, TypeOK, SharedInv
<1> QED BY <1>1, <1>3, <1>5, <1>6, <1>7, <1>8, <1>9, JobChanges

(* Two jobs meet on a host only if the earlier one was given up on, or left *)
(* threads of its fault behind.                                             *)
LEMMA MeetingHasCause ==
    ASSUME Inv, interruptions = 0, NEW i \in DOMAIN jobs, NEW k \in DOMAIN jobs, i < k,
           ~WhollyReported(jobs[i]) \/ jobs[i].lingering
    PROVE  HasCause(i) /\ HasCause(k)
<1>1. ~Working(i)
  <2>1. i < Len(jobs)
    <3>1. i \in 1 .. Len(jobs) /\ k \in 1 .. Len(jobs) /\ Len(jobs) \in Nat
      BY JobIs, LenProperties DEF Inv, TypeOK
    <3> QED BY <3>1
  <2> QED BY <2>1 DEF Working
<1>2. Over(i) /\ jobs[i].trial \in Trials
  BY <1>1, JobIs DEF Inv, OrderInv
<1>3. ASSUME ~WhollyReported(jobs[i]) PROVE file[jobs[i].trial] = Aborted(jobs[i].trial)
  BY <1>2, <1>3 DEF Inv, FileInv, Over, Answers, Aborted
<1>4. jobs[i].lingering => Fault[jobs[i].trial] = "io_stall"
  BY DEF Inv, LingerInv
<1>5. Disturbs(i)
  BY <1>3, <1>4 DEF Disturbs
<1>6. HasCause(k)
  BY <1>5 DEF HasCause
<1>7. HasCause(i)
  BY <1>3, <1>4 DEF HasCause
<1> QED BY <1>6, <1>7

(* A runner starts its phase, beside what else is busy on its host.         *)
LEMMA StartPhaseKeeps ==
    ASSUME Inv, NEW j \in DOMAIN jobs, NEW h \in Hosts, StartPhase(j, h)
    PROVE  Inv'
<1> DEFINE others == {i \in DOMAIN jobs : i # j /\ Busy(i, h)}
           e == [jobs[j] EXCEPT !.at[h] = "working"]
<1>1. /\ jobs[j].at[h] = "requested" /\ jobs' = [jobs EXCEPT ![j] = e]
      /\ UNCHANGED <<harness, interruptions>>
      /\ shared' = IF others = {} THEN shared ELSE shared \cup others \cup {j}
  BY JobIs DEF StartPhase, Inv
<1>2. /\ jobs[j] \in Jobs /\ jobs[j].trial \in Trials
      /\ jobs[j].at \in [Hosts -> {"requested", "working", "reported", "failed"}]
      /\ jobs[j].lingering \in BOOLEAN
  BY JobIs DEF Inv
<1>3. e.trial = jobs[j].trial /\ e.at = [jobs[j].at EXCEPT ![h] = "working"] /\ e \in Jobs
  BY <1>2 DEF Jobs
<1>4. e.lingering = jobs[j].lingering
  BY <1>2 DEF Jobs
<1> HIDE DEF e
<1>5. ~WhollyReported(jobs[j])
  BY <1>1 DEF WhollyReported
<1>6. ASSUME NEW i \in others, interruptions = 0 PROVE HasCause(i) /\ HasCause(j)
  <2>1. i \in DOMAIN jobs /\ i # j /\ i \in Nat /\ j \in Nat
    BY JobIs DEF Inv
  <2>2. ~WhollyReported(jobs[i]) \/ jobs[i].lingering
    BY DEF Busy, WhollyReported
  <2>3. CASE i < j
    BY <1>6, <2>1, <2>2, <2>3, MeetingHasCause
  <2>4. CASE j < i
    BY <1>5, <1>6, <2>1, <2>4, MeetingHasCause
  <2> QED BY <2>1, <2>3, <2>4
<1>7. shared' \subseteq DOMAIN jobs
  BY <1>1 DEF Inv, TypeOK
<1>8. ASSUME interruptions = 0, NEW i \in shared' PROVE HasCause(i)
  <2>1. i \in shared => HasCause(i)
    BY <1>8 DEF Inv, SharedInv
  <2>2. i \in shared \/ i \in others \/ (i = j /\ others # {})
    BY <1>1
  <2> HIDE DEF others
  <2> QED BY <1>6, <1>8, <2>1, <2>2
<1> QED BY <1>1, <1>3, <1>4, <1>5, <1>7, <1>8, JobChanges

-----------------------------------------------------------------------------
(* Before the first run there is no file, no job and no summary.            *)
LEMMA InitInv == Init => Inv
<1> SUFFICES ASSUME Init PROVE Inv
  OBVIOUS
<1>1. /\ pc = "down" /\ result = NoFile /\ file = [t \in Trials |-> NoFile]
      /\ summary = <<>> /\ jobs = <<>> /\ shared = {} /\ interruptions = 0
  BY DEF Init
<1>2. jobs \in Seq(Jobs) /\ Len(jobs) = 0 /\ DOMAIN jobs = {} /\ DOMAIN summary = {}
  BY <1>1
<1>3. TypeOK
  BY <1>1, <1>2, BoundsAssumption DEF TypeOK, Places, Ended
<1>4. ProgressInv /\ SummaryInv /\ OrderInv /\ LingerInv /\ SharedInv
  BY <1>1, <1>2 DEF ProgressInv, SummaryInv, OrderInv, LingerInv, SharedInv
<1>5. FileInv
  BY <1>1 DEF FileInv, NoFile
<1>6. CountInv
  BY <1>1, <1>2, <1>3, CountsAreNat DEF CountInv
<1> QED BY <1>3, <1>4, <1>5, <1>6 DEF Inv

(* The cases of Next put together.                                          *)
LEMMA NextInv == Inv /\ [Next]_vars => Inv'
<1> SUFFICES ASSUME Inv, [Next]_vars PROVE Inv'
  OBVIOUS
<1>1. CASE UNCHANGED vars
  <2>1. UNCHANGED <<pc, result, file, summary, jobs, shared, interruptions>>
    BY <1>1 DEF vars, harness
  <2>2. ProgressInv'
    BY <2>1 DEF Inv, ProgressInv, Current, Missing, Before, Answers, WhollyReported,
                NoFile, Torn, Results, Aborted
  <2>3. pc' \in Places /\ UnderWay' >= UnderWay /\ result' \in Results \cup {NoFile}
    BY <2>1 DEF UnderWay, Inv, TypeOK
  <2>4. \A i \in DOMAIN jobs : Working(i) => Working(i)'
    BY <2>1 DEF Working
  <2> QED BY <2>1, <2>2, <2>3, <2>4, QuietStep
<1>2. CASE Harness
  BY <1>2, RunKeeps, StartTrialKeeps, StartFailsKeeps, PollCompletedKeeps,
     PollTimedOutKeeps, GetReportKeeps, WriteBeginsKeeps, WriteEndsKeeps, SummarizeKeeps
     DEF Harness
<1>3. CASE Interrupt
  BY <1>3, InterruptKeeps
<1>4. CASE Rack
  BY <1>4, LingeringEndsKeeps, StartPhaseKeeps, EndPhaseKeeps DEF Rack
<1> QED BY <1>1, <1>2, <1>3, <1>4 DEF Next

(* Every step of run_trials.py, the service and the runners keeps Inv.      *)
THEOREM Invariance == Spec => []Inv
BY InitInv, NextInv, PTL DEF Spec

(* The files hold results, and the decisions are decisions.                 *)
THEOREM TypeCorrect == Spec => []TypeOK
<1>1. Inv => TypeOK
  BY DEF Inv
<1> QED BY Invariance, <1>1, PTL

(* _run_trial ranks the job it has started and waited for: a COMPLETED file *)
(* is about a phase of its trial that every host has reported.              *)
THEOREM EvidenceStaysWhole == Spec => []EvidenceIsWhole
<1>1. Inv => EvidenceIsWhole
  BY DEF Inv, FileInv, EvidenceIsWhole, CompletedOf, Answers
<1> QED BY Invariance, <1>1, PTL

(* _run_missing_trials repeats nothing that has a file: each interruption   *)
(* costs at most the job under way.                                         *)
THEOREM InterruptionsCostOneJob == Spec => []InterruptionCostsOneJob
<1>1. Inv => InterruptionCostsOneJob
  BY DEF Inv, CountInv, InterruptionCostsOneJob, Kept, UnderWay
<1> QED BY Invariance, <1>1, PTL

(* The injectors stop what they started, but for the threads of io_stall,   *)
(* and the harness runs one job at a time: evidence is disturbed by another *)
(* job only after an abort or an interruption, or by an io_stall.           *)
THEOREM SharingKeepsACause == Spec => []SharingHasACause
<1>1. Inv => SharingHasACause
  <2> SUFFICES ASSUME Inv, NEW t \in CompletedOf(Trials), file[t].job \in shared,
                      interruptions = 0
               PROVE  \/ \E u \in Trials : u < t /\ (file[u] = Aborted(u) \/ Fault[u] = "io_stall")
                      \/ \E u \in Trials : u > t /\ Fault[t] = "io_stall"
    <3>1. Inv => interruptions \in Nat
      BY CountsAreNat DEF Inv
    <3> QED BY <3>1 DEF SharingHasACause
  <2> DEFINE j == file[t].job
  <2>1. t \in Trials /\ j \in DOMAIN jobs /\ jobs[j].trial = t /\ HasCause(j)
    BY DEF Inv, FileInv, CompletedOf, Answers, SharedInv
  <2>2. file[t] # Aborted(t)
    BY DEF CompletedOf, Aborted
  <2>3. \A i \in DOMAIN jobs : jobs[i].trial \in Trials
    BY JobIs DEF Inv
  <2>4. ASSUME NEW i \in DOMAIN jobs, i < j, Disturbs(i)
        PROVE  \E u \in Trials : u < t /\ (file[u] = Aborted(u) \/ Fault[u] = "io_stall")
    <3>1. jobs[i].trial < t
      BY <2>1, <2>4 DEF Inv, OrderInv
    <3> QED BY <2>3, <2>4, <3>1 DEF Disturbs
  <2>5. ASSUME Fault[t] = "io_stall", NEW i \in DOMAIN jobs, j < i
        PROVE  \E u \in Trials : u > t /\ Fault[t] = "io_stall"
    <3>1. t < jobs[i].trial
      BY <2>1, <2>5 DEF Inv, OrderInv
    <3>2. jobs[i].trial > t
      BY <2>1, <2>3, <3>1, TrialsAre
    <3> QED BY <2>3, <2>5, <3>2
  <2> HIDE DEF j
  <2> QED BY <2>1, <2>2, <2>4, <2>5 DEF HasCause
<1> QED BY Invariance, <1>1, PTL

(* _summarize decides an estimand only on complete files, and a file is not *)
(* written twice: a PASS or FAIL is the verdict of every later run.         *)
THEOREM VerdictsStayFinal == Spec => VerdictIsFinal
<1>1. ASSUME Inv, [Next]_vars, NEW i \in DOMAIN summary, summary[i] # "INSUFFICIENT_EVIDENCE"
      PROVE  summary'[i] = summary[i]
  <2>1. summary[i] = Summary[i]
    BY <1>1 DEF Inv, SummaryInv
  <2>2. CASE UNCHANGED summary
    BY <2>2
  <2>3. CASE Summarize
    BY <2>1, <2>3 DEF Summarize
  <2>4. UNCHANGED summary \/ Summarize
    BY <1>1 DEF Next, Harness, Rack, Interrupt, Run, Replay, StartTrial, StartFails,
       PollCompleted, PollTimedOut, GetReport, WriteBegins, WriteEnds, LingeringEnds,
       StartPhase, EndPhase, vars, harness
  <2> QED BY <2>2, <2>3, <2>4
<1>2. Inv /\ [Next]_vars =>
        [\A i \in DOMAIN summary :
            summary[i] # "INSUFFICIENT_EVIDENCE" => summary'[i] = summary[i]]_vars
  BY <1>1
<1> QED BY Invariance, <1>2, PTL DEF Spec, VerdictIsFinal
=============================================================================
