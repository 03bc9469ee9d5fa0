---------------------------- MODULE PhaseBarrier ----------------------------
(***************************************************************************)
(* What a job promises whoever reads its row and its phase events: the     *)
(* nodes report phase by phase, no node reports a phase before every node  *)
(* has reported the one before it, and the job is called completed only    *)
(* once every node has reported every phase.  A finished job keeps its     *)
(* status; reports may still arrive for the phase it gave up on.           *)
(***************************************************************************)
EXTENDS Integers

CONSTANTS JobIds, Hosts, MaxPhases

VARIABLES
    count,      \* number of phases of each job (0: no such job yet)
    status,     \* none, running, completed or timed_out
    reported    \* the <<job, phase, host>> triples reported so far

vars == <<count, status, reported>>

Init ==
    /\ count = [j \in JobIds |-> 0]
    /\ status = [j \in JobIds |-> "none"]
    /\ reported = {}

(* Every host has reported the phases of job j below k.                     *)
ReportedBelow(j, k) == {j} \X (0 .. k - 1) \X Hosts \subseteq reported

Create(j) ==
    /\ status[j] = "none"
    /\ status' = [status EXCEPT ![j] = "running"]
    /\ \E k \in 1 .. MaxPhases : count' = [count EXCEPT ![j] = k]
    /\ UNCHANGED reported

Report(j) ==
    /\ \E k \in 0 .. count[j] - 1, n \in Hosts :
          /\ <<j, k, n>> \notin reported
          /\ ReportedBelow(j, k)
          /\ reported' = reported \cup {<<j, k, n>>}
    /\ UNCHANGED <<count, status>>

Complete(j) ==
    /\ status[j] = "running" /\ ReportedBelow(j, count[j])
    /\ status' = [status EXCEPT ![j] = "completed"]
    /\ UNCHANGED <<count, reported>>

GiveUp(j) ==
    /\ status[j] = "running" /\ ~ReportedBelow(j, count[j])
    /\ status' = [status EXCEPT ![j] = "timed_out"]
    /\ UNCHANGED <<count, reported>>

Next == \E j \in JobIds : Create(j) \/ Report(j) \/ Complete(j) \/ GiveUp(j)

Spec == Init /\ [][Next]_vars
=============================================================================
